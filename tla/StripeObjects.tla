---------------------------- MODULE StripeObjects ----------------------------
(***************************************************************************)
(* What the service sees of Stripe for one payment: a Checkout Session, a  *)
(* PaymentIntent, and the events Stripe emits when they move.  Stripe is   *)
(* not part of the repository; it is modelled from the calls made in       *)
(* stripe/stripe.service.ts and the events webhooks.service.ts handles.    *)
(*                                                                         *)
(* The object of local payment p is stripe[p] (its metadata.paymentId).    *)
(* An event carries a snapshot of the object taken when the event was      *)
(* made.  events is an unordered set: delivery may reorder events, delay   *)
(* them for ever (lose them), but WebhookIntake hands each on at most once.*)
(***************************************************************************)
EXTENDS Integers

CONSTANTS MaxPayment,   \* bound: payments are numbered 1..MaxPayment
          Total,        \* amount of every payment, in minor units
          MaxMoves      \* bound: moves of a PaymentIntent made by payer and banks

ASSUME StripeAssumption ==
    /\ MaxPayment \in Nat \ {0}
    /\ Total \in Nat \ {0}
    /\ MaxMoves \in Nat

VARIABLES stripe, events

Payment == 1 .. MaxPayment

IntentStatus == {"requires_payment_method", "requires_confirmation",
                 "requires_action", "processing", "requires_capture",
                 "canceled", "succeeded"}

Object == [session  : {"none", "open", "complete"},
           intent   : IntentStatus \cup {"none"},
           manual   : BOOLEAN,
           received : 0 .. Total,
           moves    : Nat]

NoObject == [session |-> "none", intent |-> "none", manual |-> FALSE,
             received |-> 0, moves |-> 0]

SessionEvent == {"completed", "async_payment_succeeded", "async_payment_failed"}

Event == [p        : Payment,
          kind     : SessionEvent \cup {"intent"},
          intent   : IntentStatus \cup {"none"},
          received : 0 .. Total,
          at       : Nat]

StripeTypeOK == /\ stripe \in [Payment -> Object]
                /\ events \subseteq Event

StripeInit == /\ stripe = [p \in Payment |-> NoObject]
              /\ events = {}

-----------------------------------------------------------------------------

Exists(p) == stripe[p].session # "none" \/ stripe[p].intent # "none"

\* A session completed without a PaymentIntent: nothing was left to charge.
Free(o) == o.session = "complete" /\ o.intent = "none"

Paid(p) == stripe[p].intent = "succeeded" \/ Free(stripe[p])

\* amount_capturable of an intent in status s.
Held(s) == IF s = "requires_capture" THEN Total ELSE 0

\* Where an accepted charge goes: held, taken at once, or on its way (debits).
Accepted(manual) == IF manual THEN {"requires_capture"}
                              ELSE {"succeeded", "processing"}

MoveTo(o, s) == [o EXCEPT !.intent = s,
                          !.received = IF s = "succeeded" THEN Total ELSE 0,
                          !.moves = @ + 1]

\* Object p becomes o and an event of each of the kinds reports it.
Report(p, o, kinds) ==
    /\ stripe' = [stripe EXCEPT ![p] = o]
    /\ events' = events \cup
         {[p |-> p, kind |-> k, intent |-> o.intent, received |-> o.received,
           at |-> o.moves] : k \in kinds}

-----------------------------------------------------------------------------
(* Calls of the service.                                                   *)

CreateSession(p, manual) ==
    Report(p, [NoObject EXCEPT !.session = "open", !.manual = manual], {})

\* An unconfirmed intent reports nothing the service handles; a confirmed one
\* reports where the charge went, a decline included.
CreateIntent(p, manual, s, kinds) ==
    Report(p, [NoObject EXCEPT !.intent = s, !.manual = manual,
                               !.received = IF s = "succeeded" THEN Total ELSE 0],
           kinds)

CaptureIntent(p, amount) ==
    /\ stripe[p].intent = "requires_capture"
    /\ Report(p, [MoveTo(stripe[p], "succeeded") EXCEPT !.received = amount],
              {"intent"})

Cancelable == IntentStatus \ {"canceled", "succeeded", "processing"}

CancelIntent(p) ==
    /\ stripe[p].intent \in Cancelable
    /\ Report(p, MoveTo(stripe[p], "canceled"), {"intent"})

-----------------------------------------------------------------------------
(* Moves the service does not make: the payer, the bank, the hold's expiry.*)

PayerCompletesCheckout(p) ==
    /\ stripe[p].session = "open"
    /\ \E s \in Accepted(stripe[p].manual) \cup {"none"} :
         Report(p, [MoveTo(stripe[p], s) EXCEPT !.session = "complete"],
                {"completed"} \cup IF s = "none" THEN {} ELSE {"intent"})

NextIntent(o) ==
    CASE o.intent = "requires_payment_method" /\ o.session = "none" ->
           Accepted(o.manual) \cup {"requires_action"}
      [] o.intent = "requires_action" ->
           Accepted(o.manual) \cup {"requires_payment_method"}
      [] o.intent = "processing"       -> {"succeeded", "requires_payment_method"}
      [] o.intent = "requires_capture" -> {"canceled"}
      [] OTHER -> {}

\* A debit that ends also ends the session it was started from.
SessionOutcome(o, s) ==
    IF o.session = "complete" /\ o.intent = "processing"
    THEN {IF s = "succeeded" THEN "async_payment_succeeded"
                             ELSE "async_payment_failed"}
    ELSE {}

IntentAdvances(p) ==
    /\ stripe[p].moves < MaxMoves
    /\ \E s \in NextIntent(stripe[p]) :
         Report(p, MoveTo(stripe[p], s), {"intent"} \cup SessionOutcome(stripe[p], s))

StripeMoves == \E p \in Payment : PayerCompletesCheckout(p) \/ IntentAdvances(p)
=============================================================================
