---------------------------- MODULE WebhookDispatch ----------------------------
(***************************************************************************)
(* What the intake of Stripe's events promises on either side of it.  To   *)
(* the handlers: an event is run at most once, in any order, and perhaps   *)
(* never; one whose handler did not end is lost for good, never run again. *)
(* To Stripe: nothing is acknowledged that was not accepted before, and an *)
(* accepted event may be acknowledged whatever has become of it.  Payments *)
(* consumes events this way.                                               *)
(***************************************************************************)
CONSTANT StripeEvent
VARIABLES stage, \* how far each event has come
          acked  \* the events Stripe was told are done

vars == <<stage, acked>>

Init == /\ stage = [e \in StripeEvent |-> "new"]
        /\ acked = {}

Moves(e, from, to) == stage[e] = from /\ stage' = [stage EXCEPT ![e] = to]

Accept(e) == Moves(e, "new", "accepted") /\ UNCHANGED acked
Run(e)    == Moves(e, "accepted", "running") /\ UNCHANGED acked
Finish(e) == Moves(e, "running", "done") /\ acked' = acked \cup {e}

\* An acknowledgement changes nothing else, and a lost event gets one too.
Acknowledge(e) == /\ stage[e] # "new"
                  /\ acked' = acked \cup {e}
                  /\ UNCHANGED stage

\* An error loses one event, a crash all that are in hand.
Lose(S) == /\ \A e \in S : stage[e] \in {"accepted", "running"}
           /\ stage' = [e \in StripeEvent |-> IF e \in S THEN "lost" ELSE stage[e]]
           /\ UNCHANGED acked

Next == \/ \E e \in StripeEvent : Accept(e) \/ Run(e) \/ Finish(e) \/ Acknowledge(e)
        \/ \E S \in SUBSET StripeEvent : Lose(S)

Spec == Init /\ [][Next]_vars
=============================================================================
