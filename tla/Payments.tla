------------------------------- MODULE Payments -------------------------------
(***************************************************************************)
(* payments/payments.service.ts and the payment handlers of                *)
(* webhooks/webhooks.service.ts: the local payments table kept next to     *)
(* Stripe's objects.                                                       *)
(*                                                                         *)
(* One Node process runs many requests at once; they interleave at their   *)
(* awaits.  task[t] is one request or one event handler in progress: pc    *)
(* names the await it is about to make and copy is the entity it holds in  *)
(* memory.  TypeORM's save(entity) writes that copy over the row, columns   *)
(* nobody set included (the insert leaves null in them), so between reading*)
(* a row and saving it a task works on a copy that others may have made    *)
(* stale.  Any step can fail or never run (Abort): a crash of the process  *)
(* is an Abort of every task.                                              *)
(***************************************************************************)
EXTENDS StripeObjects, FiniteSets

CONSTANTS Task,      \* bound: requests and handlers in progress at once
          Via,       \* kinds of payment asked for, among AllVia
          Calls,     \* endpoints used, among AllCalls
          NoPayment, \* the payment of an idle task
          SyncLimit  \* how many candidates one sync-all takes

AllVia == {"checkout", "bank", "saved"}
AllCalls == {"capture", "cancel", "sync"}

ASSUME PaymentsAssumption == /\ Via \subseteq AllVia
                             /\ Calls \subseteq AllCalls
                             /\ NoPayment \notin Payment
                             /\ SyncLimit \in Nat

VARIABLES row,   \* the payments table: Payment -> entity
          task,  \* requests and handlers in progress
          told   \* the last notice queued for the source platform, per payment

vars == <<stripe, events, row, task, told>>

PaymentStatus == IntentStatus \cup {"failed"}

\* session and intent say whether the unique Stripe ids are set.
Entity == [status     : PaymentStatus \cup {"none"},
           session    : BOOLEAN,
           intent     : BOOLEAN,
           capturable : 0 .. Total,
           received   : 0 .. Total]

NoRow == [status |-> "none", session |-> FALSE, intent |-> FALSE,
          capturable |-> 0, received |-> 0]

NewRow == [NoRow EXCEPT !.status = "requires_payment_method"]

Notice == {"silent", "created", "captured"} \cup PaymentStatus

TaskState ==
    [pc   : {"idle", "call", "save", "attach", "fail", "session", "link",
             "retrieve", "emit"},
     op   : {"none", "create", "event"} \cup AllCalls,
     p    : Payment \cup {NoPayment},
     copy : Entity,
     note : Notice]

Doing(pc, op, p, copy, note) ==
    [pc |-> pc, op |-> op, p |-> p, copy |-> copy, note |-> note]

Idle == Doing("idle", "none", NoPayment, NoRow, "silent")

TypeOK == /\ StripeTypeOK
          /\ row \in [Payment -> Entity]
          /\ task \in [Task -> TaskState]
          /\ told \in [Payment -> [name : Notice, status : PaymentStatus \cup {"none"}]]

Init == /\ StripeInit
        /\ row = [p \in Payment |-> NoRow]
        /\ task = [t \in Task |-> Idle]
        /\ told = [p \in Payment |-> [name |-> "silent", status |-> "none"]]

-----------------------------------------------------------------------------
HasRow(p) == row[p].status # "none"

\* Variant for the runs' sensitivity: the local name is spelt another way.
MisspeltStatus(s) == IF s = "canceled" THEN "cancelled" ELSE s

\* Statuses Stripe has and the service does not know count as processing.
MapIntentStatus(s) == IF s \in IntentStatus THEN s ELSE "processing"

\* syncFromIntent: an intent (live, or the snapshot in an event) onto a copy.
Apply(copy, s, received) ==
    [copy EXCEPT !.status = MapIntentStatus(s),
                 !.capturable = Held(s),
                 !.received = received,
                 !.intent = TRUE]

Busy(t, pc, op) == task[t].pc = pc /\ task[t].op = op

Start(t, pc, op, p, copy, note) ==
    /\ task[t].pc = "idle"
    /\ task' = [task EXCEPT ![t] = Doing(pc, op, p, copy, note)]

Goto(t, pc, copy, note) ==
    task' = [task EXCEPT ![t] = Doing(pc, @.op, @.p, copy, note)]

Finish(t) == task' = [task EXCEPT ![t] = Idle]

-----------------------------------------------------------------------------
(* POST /payments                                                          *)

\* Variant: the row is first written when the Stripe call has succeeded.
InsertAfterCall(t) ==
    \E p \in Payment : /\ ~HasRow(p)
                      /\ Start(t, "call", "create", p, NewRow, "created")
                      /\ UNCHANGED <<stripe, events, row, told>>

\* create: the row is written before anything is asked of Stripe.
CreateInsert(t) ==
    \E p \in Payment :
        /\ ~HasRow(p)
        /\ \A q \in 1 .. p - 1 : HasRow(q)
        /\ Start(t, "call", "create", p, NewRow, "created")
        /\ row' = [row EXCEPT ![p] = NewRow]
        /\ UNCHANGED <<stripe, events, told>>

\* startCardCheckout, up to the save of the session id.
StartCardCheckout(t) ==
    /\ Busy(t, "call", "create")
    /\ "checkout" \in Via
    /\ \E manual \in BOOLEAN : CreateSession(task[t].p, manual)
    /\ \/ Goto(t, "save", [task[t].copy EXCEPT !.session = TRUE], "created")
       \/ Goto(t, "fail", task[t].copy, "silent")      \* the answer is lost
    /\ UNCHANGED <<row, told>>

\* startBankDebit: never manual (rejected at the top of create).
StartBankDebit(t) ==
    /\ Busy(t, "call", "create")
    /\ "bank" \in Via
    /\ CreateIntent(task[t].p, FALSE, "requires_payment_method", {})
    /\ \/ Goto(t, "save", [task[t].copy EXCEPT !.intent = TRUE], "created")
       \/ Goto(t, "fail", task[t].copy, "silent")
    /\ UNCHANGED <<row, told>>

\* chargeSavedMethod: confirmed at once and off session; a decline is thrown.
ChargeSavedMethod(t) ==
    /\ Busy(t, "call", "create")
    /\ "saved" \in Via
    /\ \E manual \in BOOLEAN :
         \/ \E s \in Accepted(manual) \cup {"requires_action"} :
              /\ CreateIntent(task[t].p, manual, s, {"intent"})
              /\ \/ Goto(t, "save",
                         Apply(task[t].copy, s, IF s = "succeeded" THEN Total ELSE 0),
                         "created")
                 \/ Goto(t, "fail", task[t].copy, "silent")
         \/ /\ CreateIntent(task[t].p, manual, "requires_payment_method", {"intent"})
            /\ Goto(t, "fail", task[t].copy, "silent")
    /\ UNCHANGED <<row, told>>

\* attachToPayment, when an invoice id came with the request.
AttachInvoice(t) ==
    /\ Busy(t, "attach", "create")
    /\ Goto(t, "emit", task[t].copy, "created")
    /\ UNCHANGED <<stripe, events, row, told>>

\* The Stripe call, the save or the attachment throws: on to the catch.
CreateThrows(t) ==
    /\ task[t].op = "create"
    /\ task[t].pc \in {"call", "save", "attach"}
    /\ Goto(t, "fail", task[t].copy, "silent")
    /\ UNCHANGED <<stripe, events, row, told>>

\* The catch: the row is marked failed, whatever had been reached.
CreateFail(t) ==
    /\ Busy(t, "fail", "create")
    /\ row' = [row EXCEPT ![task[t].p] = [task[t].copy EXCEPT !.status = "failed"]]
    /\ Finish(t)
    /\ UNCHANGED <<stripe, events, told>>

-----------------------------------------------------------------------------
(* POST /payments/:id/capture and /cancel                                  *)

Capture(t, p) ==
    /\ "capture" \in Calls
    /\ row[p].status = "requires_capture"
    /\ row[p].intent
    /\ Start(t, "call", "capture", p, row[p], "captured")
    /\ UNCHANGED <<stripe, events, row, told>>

\* The amount asked for is at most what the row read said was capturable; no
\* amount means all of it.
CaptureCall(t) ==
    /\ Busy(t, "call", "capture")
    /\ \E amount \in (1 .. task[t].copy.capturable) \cup {Total} :
         /\ CaptureIntent(task[t].p, amount)
         /\ Goto(t, "save", Apply(task[t].copy, "succeeded", amount), "captured")
    /\ UNCHANGED <<row, told>>

Cancel(t, p) ==
    /\ "cancel" \in Calls
    /\ row[p].intent
    /\ Start(t, "call", "cancel", p, row[p], "canceled")
    /\ UNCHANGED <<stripe, events, row, told>>

CancelCall(t) ==
    /\ Busy(t, "call", "cancel")
    /\ CancelIntent(task[t].p)
    /\ Goto(t, "save", Apply(task[t].copy, "canceled", 0), "canceled")
    /\ UNCHANGED <<row, told>>

-----------------------------------------------------------------------------
(* POST /payments/:id/sync and /payments/sync-all                          *)

SyncFromStripe(t, p) ==
    /\ "sync" \in Calls
    /\ row[p].intent \/ row[p].session
    /\ Start(t, IF row[p].intent THEN "retrieve" ELSE "session", "sync", p,
             row[p], "silent")
    /\ UNCHANGED <<stripe, events, row, told>>

\* The name of the notice a sync ends with: the new status, if it is new.
Change(copy, s) == IF s = copy.status THEN "silent" ELSE s

\* Variant: the session's answer is used only when it is paid.
PaidSessionOnly(t) ==
    /\ Busy(t, "session", "sync")
    /\ IF Free(stripe[task[t].p])
       THEN Goto(t, "save", [task[t].copy EXCEPT !.status = "succeeded"], "succeeded")
       ELSE Finish(t)
    /\ UNCHANGED <<stripe, events, row, told>>

\* Without an intent id, the session is asked for it.
SyncSession(t) ==
    /\ Busy(t, "session", "sync")
    /\ LET o == stripe[task[t].p]
           c == task[t].copy
       IN  \/ /\ o.intent # "none"
              /\ Goto(t, "link", [c EXCEPT !.intent = TRUE], "silent")
           \/ /\ Free(o)
              /\ Goto(t, "save", [c EXCEPT !.status = "succeeded", !.received = 0],
                      Change(c, "succeeded"))
           \/ /\ o.intent = "none" /\ ~Free(o)
              /\ Finish(t)
    /\ UNCHANGED <<stripe, events, row, told>>

SyncLink(t) ==
    /\ Busy(t, "link", "sync")
    /\ row' = [row EXCEPT ![task[t].p] = task[t].copy]
    /\ Goto(t, "retrieve", task[t].copy, "silent")
    /\ UNCHANGED <<stripe, events, told>>

\* retrievePaymentIntent and syncFromIntent, in a sync or in onCheckoutSession.
Retrieve(t) ==
    /\ task[t].pc = "retrieve"
    /\ LET o == stripe[task[t].p]
           c == Apply(task[t].copy, o.intent, o.received)
       IN  Goto(t, "save", c, IF task[t].op = "sync" THEN Change(task[t].copy, c.status)
                                                     ELSE task[t].note)
    /\ UNCHANGED <<stripe, events, row, told>>

\* syncAllFromStripe: the newest SyncLimit payments neither canceled nor failed.
Unsettled == {p \in Payment : row[p].status \notin {"none", "canceled", "failed"}}
Candidates == {p \in Unsettled :
                 Cardinality({q \in Unsettled : q > p}) < SyncLimit}

SyncAll(t, p) == p \in Candidates /\ SyncFromStripe(t, p)

-----------------------------------------------------------------------------
(* Handlers of Stripe's events.  Intake hands each event on at most once.  *)

Handled(e) == e \in events /\ events' = events \ {e}

\* Variants of the next handler: a completed session is taken to be paid; the
\* intent is re-read but payment_status is not looked at; the payment is found
\* by the id in the metadata.
TrustCompleted(t, e) ==
    /\ Handled(e) /\ e.kind = "completed" /\ row[e.p].session
    /\ Start(t, "save", "event", e.p, [row[e.p] EXCEPT !.status = "succeeded"], "succeeded")
    /\ UNCHANGED <<stripe, row, told>>

IgnorePaymentStatus(t, e) ==
    /\ Handled(e) /\ e.kind = "completed" /\ row[e.p].session /\ e.intent # "none"
    /\ Start(t, "retrieve", "event", e.p, [row[e.p] EXCEPT !.intent = TRUE], "succeeded")
    /\ UNCHANGED <<stripe, row, told>>

FindByMetadata(t, e) ==
    /\ Handled(e) /\ e.kind = "completed" /\ HasRow(e.p)
    /\ Start(t, "save", "event", e.p, [row[e.p] EXCEPT !.status = "processing"], "processing")
    /\ UNCHANGED <<stripe, row, told>>

\* checkout.session.completed and async_payment_succeeded.
OnCheckoutSession(t, e) ==
    /\ Handled(e)
    /\ e.kind \in {"completed", "async_payment_succeeded"}
    /\ row[e.p].session
    /\ LET r == row[e.p]
           c == [r EXCEPT !.intent = @ \/ e.intent # "none"]
           paid == e.intent \in {"none", "succeeded"}
       IN  \/ /\ ~paid
              /\ Start(t, "save", "event", e.p, [c EXCEPT !.status = "processing"],
                       "processing")
           \/ /\ paid /\ c.intent
              /\ Start(t, "retrieve", "event", e.p, c, "succeeded")
           \/ /\ paid /\ ~c.intent
              /\ Start(t, "save", "event", e.p,
                       [c EXCEPT !.status = "succeeded", !.received = 0], "succeeded")
    /\ UNCHANGED <<stripe, row, told>>

\* checkout.session.async_payment_failed.
OnCheckoutSessionFailed(t, e) ==
    /\ Handled(e)
    /\ e.kind = "async_payment_failed"
    /\ row[e.p].session
    /\ Start(t, "save", "event", e.p, [row[e.p] EXCEPT !.status = "failed"], "failed")
    /\ UNCHANGED <<stripe, row, told>>

\* payment_intent.*: the snapshot in the event is applied, not the live intent.
OnPaymentIntent(t, e) ==
    /\ Handled(e)
    /\ e.kind = "intent"
    /\ row[e.p].intent
    /\ Start(t, "save", "event", e.p, Apply(row[e.p], e.intent, e.received),
             IF e.intent = "requires_payment_method" THEN "failed" ELSE e.intent)
    /\ UNCHANGED <<stripe, row, told>>

\* An event whose session or intent no row is linked to is dropped.
DropUnmatched(e) ==
    /\ Handled(e)
    /\ IF e.kind = "intent" THEN ~row[e.p].intent ELSE ~row[e.p].session
    /\ UNCHANGED <<stripe, row, task, told>>

-----------------------------------------------------------------------------
(* The common ends of the flows above.                                     *)

Save(t) ==
    /\ task[t].pc = "save"
    /\ row' = [row EXCEPT ![task[t].p] = task[t].copy]
    /\ IF task[t].note = "silent" THEN Finish(t)
       ELSE Goto(t, IF task[t].op = "create" THEN "attach" ELSE "emit",
                 task[t].copy, task[t].note)
    /\ UNCHANGED <<stripe, events, told>>

\* outbound.emit never throws.  A handler's notify re-reads the row first; the
\* other callers send the copy they hold.
Emit(t) ==
    /\ task[t].pc = "emit"
    /\ LET p == task[t].p
           sent == IF task[t].op = "event" THEN row[p].status ELSE task[t].copy.status
       IN  told' = [told EXCEPT ![p] = [name |-> task[t].note, status |-> sent]]
    /\ Finish(t)
    /\ UNCHANGED <<stripe, events, row>>

\* The PaymentIntent is no longer in a status the call needs: Stripe throws and
\* the request ends.
CallRefused(t) ==
    /\ task[t].pc = "call"
    /\ \/ task[t].op = "capture" /\ stripe[task[t].p].intent # "requires_capture"
       \/ task[t].op = "cancel" /\ stripe[task[t].p].intent \notin Cancelable
    /\ Finish(t)
    /\ UNCHANGED <<stripe, events, row, told>>

\* A crash or an error of the database or the network ends the task where it is.
Abort(t) ==
    /\ task[t].pc # "idle"
    /\ Finish(t)
    /\ UNCHANGED <<stripe, events, row, told>>

Create(t) == \/ CreateInsert(t) \/ StartCardCheckout(t) \/ StartBankDebit(t)
             \/ ChargeSavedMethod(t) \/ AttachInvoice(t) \/ CreateThrows(t)
             \/ CreateFail(t)

Requests(t) == \E p \in Payment : Capture(t, p) \/ Cancel(t, p) \/ SyncFromStripe(t, p)

Handle(t) == \E e \in events :
    OnCheckoutSession(t, e) \/ OnCheckoutSessionFailed(t, e) \/ OnPaymentIntent(t, e)

Continue(t) == \/ CaptureCall(t) \/ CancelCall(t) \/ CallRefused(t) \/ SyncSession(t) \/ SyncLink(t)
               \/ Retrieve(t) \/ Save(t) \/ Emit(t)

Stripe == StripeMoves /\ UNCHANGED <<row, task, told>>

Next == \/ Stripe
        \/ \E e \in events : DropUnmatched(e)
        \/ \E t \in Task : Create(t) \/ Requests(t) \/ Handle(t) \/ Continue(t) \/ Abort(t)

Spec == Init /\ [][Next]_vars

-----------------------------------------------------------------------------
(* Fairness.  An await once made is answered, unless a fault ends the task; *)
(* and sync-all is run again and again, as its endpoint is meant to be     *)
(* after a webhook outage, with no fault that hits every sync of a payment *)
(* at the same step.  No event need ever be delivered.                     *)

Progress(t) == Continue(t) \/ (Create(t) /\ task[t].pc # "idle")

SyncOf(t, p) == task[t].op = "sync" /\ task[t].p = p

FairSpec ==
    /\ Spec
    /\ \A t \in Task : WF_vars(Progress(t))
    /\ \A p \in Payment :
         /\ SF_vars(\E t \in Task : SyncAll(t, p))
         /\ SF_vars(\E t \in Task : SyncOf(t, p) /\ SyncSession(t))
         /\ SF_vars(\E t \in Task : SyncOf(t, p) /\ SyncLink(t))
         /\ SF_vars(\E t \in Task : SyncOf(t, p) /\ Retrieve(t))
         /\ SF_vars(\E t \in Task : SyncOf(t, p) /\ Save(t))

-----------------------------------------------------------------------------
(* Safety                                                                  *)

\* A status s with r received is true of payment p at Stripe.  Only outcomes
\* that Stripe never takes back are compared, so a stale claim is still true.
True(p, s, r) == /\ s = "succeeded" => Paid(p)
                 /\ s = "canceled" => stripe[p].intent = "canceled"
                 /\ r > 0 => stripe[p].intent = "succeeded" /\ r = stripe[p].received

\* However reads, Stripe calls, events and saves interleave, no row records a
\* payment, an amount or a cancellation that did not happen at Stripe.
NoPhantomOutcome == \A p \in Payment : True(p, row[p].status, row[p].received)

\* The platform is never told of a success, a capture or a cancellation that
\* did not happen, neither by the notice's name nor by the status it carries.
NoFalseNotice ==
    \A p \in Payment :
        /\ True(p, told[p].status, 0)
        /\ True(p, told[p].name, 0)
        /\ told[p].name = "captured" => Paid(p) /\ told[p].status = "succeeded"

\* "a Stripe object can never exist without a record of it"
\* (payments.service.ts:75): also when a step fails or the process dies.
RecordBeforeObject == \A p \in Payment : Exists(p) => HasRow(p)

\* No save of a stale copy ever takes the session id off a row: once a checkout
\* payment can be found and synced by its session, it stays so.  (The intent id
\* has no such luck: see README.)
SessionLinkKept == [][\A p \in Payment : row[p].session => row'[p].session]_vars

-----------------------------------------------------------------------------
(* Liveness                                                                *)

\* Rows a sync can find at Stripe and sync-all does not skip.
Reconcilable(p) == /\ row[p].status \notin {"none", "failed"}
                   /\ row[p].session \/ row[p].intent

Mirrors(p) ==
    LET o == stripe[p]
        r == row[p]
    IN  /\ r.received = o.received
        /\ r.capturable = Held(o.intent)
        /\ r.status = CASE o.intent # "none" -> o.intent
                        [] Free(o)           -> "succeeded"
                        [] OTHER             -> "requires_payment_method"

\* "Pulls the current truth from Stripe and writes it locally"
\* (payments.service.ts:329): with every webhook lost or late, syncs racing with
\* events, captures and cancels still bring the row to what Stripe says for good.
EventuallyMirrors == \A p \in Payment : <>[](Reconcilable(p) => Mirrors(p))

-----------------------------------------------------------------------------
(* A claim of the repository that the code does not meet                   *)

Quiet(p) == /\ \A t \in Task : task[t].p # p
            /\ \A e \in events : e.p # p

\* "If the Stripe call then fails we mark the row failed rather than leaving an
\* untracked charge" (payments.service.ts:76).  When nothing about p is pending,
\* a failed row, which sync-all skips, is not the row of a payment Stripe took.
FailedIsNotCharged ==
    \A p \in Payment : Quiet(p) /\ row[p].status = "failed" => ~Paid(p)
=============================================================================
