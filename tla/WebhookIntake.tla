----------------------------- MODULE WebhookIntake -----------------------------
(***************************************************************************)
(* WebhooksService.handleEvent and its controller: Stripe posts an event   *)
(* until it is answered 2xx, and may post it again even then.  Each post   *)
(* is a request that looks the event id up, records it, runs the handler   *)
(* and answers; requests for one event may overlap, any of them may throw  *)
(* (answered 400), and the process may die under all of them.              *)
(***************************************************************************)
EXTENDS Integers

CONSTANTS StripeEvent, \* event ids
          Post,        \* bound: posts being served at once
          NoEvent,     \* the event of an idle post
          MaxRepeat,   \* bound: posts made of an event already acknowledged
          MaxFault     \* bound: errors and crashes (only RetriesEnd needs it)

ASSUME IntakeAssumption == /\ NoEvent \notin StripeEvent
                           /\ MaxRepeat \in Nat
                           /\ MaxFault \in Nat

VARIABLES processed, \* the processed_events table
          post,      \* posts being served
          acked,     \* events Stripe has seen answered 2xx
          calls,     \* how many times each event's handler was called
          handled,   \* events whose handler ran to its end
          repeats,   \* posts made of acknowledged events
          faults     \* errors and crashes so far

vars == <<processed, post, acked, calls, handled, repeats, faults>>

Idle == [pc |-> "idle", e |-> NoEvent]

TypeOK == /\ processed \subseteq StripeEvent
          /\ post \in [Post -> [pc : {"idle", "lookup", "record", "dispatch", "run"},
                                e : StripeEvent \cup {NoEvent}]]
          /\ acked \subseteq StripeEvent
          /\ calls \in [StripeEvent -> Nat]
          /\ handled \subseteq StripeEvent
          /\ repeats \in 0 .. MaxRepeat
          /\ faults \in 0 .. MaxFault

Init == /\ processed = {}
        /\ post = [d \in Post |-> Idle]
        /\ acked = {}
        /\ calls = [e \in StripeEvent |-> 0]
        /\ handled = {}
        /\ repeats = 0
        /\ faults = 0

-----------------------------------------------------------------------------
\* Variant: the answered request is dropped without resetting its record.
ForgetPost(d) == post' = [post EXCEPT ![d] = NoEvent]

Goto(d, pc) == post' = [post EXCEPT ![d] = [@ EXCEPT !.pc = pc]]
Answer(d) == post' = [post EXCEPT ![d] = Idle]

\* Stripe posts e: until it has been acknowledged, and now and then afterwards.
Deliver(d, e) ==
    /\ post[d].pc = "idle"
    /\ post' = [post EXCEPT ![d] = [pc |-> "lookup", e |-> e]]
    /\ IF e \in acked THEN repeats < MaxRepeat /\ repeats' = repeats + 1
                      ELSE UNCHANGED repeats
    /\ UNCHANGED <<processed, acked, calls, handled, faults>>

\* Variant: a duplicate is refused with an error instead of acknowledged.
RefuseDuplicate(d) ==
    /\ post[d].pc = "lookup"
    /\ IF post[d].e \in processed THEN Answer(d) ELSE Goto(d, "record")
    /\ UNCHANGED <<processed, acked, calls, handled, repeats, faults>>

\* findOne by event id; an event already recorded is answered 200 at once.
Lookup(d) ==
    /\ post[d].pc = "lookup"
    /\ IF post[d].e \in processed
       THEN /\ Answer(d)
            /\ acked' = acked \cup {post[d].e}
       ELSE Goto(d, "record") /\ UNCHANGED acked
    /\ UNCHANGED <<processed, calls, handled, repeats, faults>>

\* Variant: the table has no unique index on the event id.
RecordWithoutIndex(d) ==
    /\ post[d].pc = "record"
    /\ processed' = processed \cup {post[d].e}
    /\ Goto(d, "dispatch")
    /\ UNCHANGED <<acked, calls, handled, repeats, faults>>

\* The id is recorded before the handler runs.  The unique index makes the
\* second insert of an id throw, which is answered 400.
Record(d) ==
    /\ post[d].pc = "record"
    /\ IF post[d].e \in processed
       THEN Answer(d) /\ UNCHANGED processed
       ELSE /\ processed' = processed \cup {post[d].e}
            /\ Goto(d, "dispatch")
    /\ UNCHANGED <<acked, calls, handled, repeats, faults>>

\* Variant: the handler is not awaited, and nobody knows how it ends.
DispatchUnawaited(d) ==
    /\ post[d].pc = "dispatch"
    /\ calls' = [calls EXCEPT ![post[d].e] = @ + 1]
    /\ acked' = acked \cup {post[d].e}
    /\ Answer(d)
    /\ UNCHANGED <<processed, handled, repeats, faults>>

Dispatch(d) ==
    /\ post[d].pc = "dispatch"
    /\ calls' = [calls EXCEPT ![post[d].e] = @ + 1]
    /\ Goto(d, "run")
    /\ UNCHANGED <<processed, acked, handled, repeats, faults>>

HandlerReturns(d) ==
    /\ post[d].pc = "run"
    /\ handled' = handled \cup {post[d].e}
    /\ acked' = acked \cup {post[d].e}
    /\ Answer(d)
    /\ UNCHANGED <<processed, calls, repeats, faults>>

Fault == faults < MaxFault /\ faults' = faults + 1

\* Variant: the controller swallows the error and answers 200.
SwallowError(d) ==
    /\ post[d].pc # "idle"
    /\ Fault
    /\ Answer(d)
    /\ acked' = acked \cup {post[d].e}
    /\ UNCHANGED <<processed, calls, handled, repeats>>

\* The lookup, the insert or the handler throws: answered 400.
Throws(d) ==
    /\ post[d].pc # "idle"
    /\ Fault
    /\ Answer(d)
    /\ UNCHANGED <<processed, acked, calls, handled, repeats>>

\* The process dies: no post is answered; the table survives.
Crash ==
    /\ Fault
    /\ post' = [d \in Post |-> Idle]
    /\ UNCHANGED <<processed, acked, calls, handled, repeats>>

Serve(d) == Lookup(d) \/ Record(d) \/ Dispatch(d) \/ HandlerReturns(d)

Next == \/ \E d \in Post : Serve(d) \/ Throws(d)
        \/ \E d \in Post, e \in StripeEvent : Deliver(d, e)
        \/ Crash

Spec == Init /\ [][Next]_vars

\* Stripe keeps posting what it has no 2xx for, and a post is served unless a
\* fault ends it.
FairSpec == /\ Spec
            /\ \A d \in Post : WF_vars(Serve(d))
            /\ \A e \in StripeEvent :
                 SF_vars(\E d \in Post : e \notin acked /\ Deliver(d, e))

-----------------------------------------------------------------------------
\* However posts of an event overlap, fail and are retried, its handler is called
\* at most once: a payment or a refund never sees the same event twice.
HandlerAtMostOnce == \A e \in StripeEvent : calls[e] <= 1

\* What has become of an event: recorded, in the hands of a post, handled, or left
\* recorded by a post that ended before its handler did.
InHandsAt(e, pc) == \E d \in Post : post[d].e = e /\ post[d].pc = pc

Stage == [e \in StripeEvent |->
            IF e \notin processed THEN "new"
            ELSE IF e \in handled THEN "done"
            ELSE IF InHandsAt(e, "dispatch") THEN "accepted"
            ELSE IF InHandsAt(e, "run") THEN "running"
            ELSE "lost"]

\* The intake implements the dispatcher the handlers are written against: an event goes
\* from recorded to run to done, or is lost on the way and then never run again; and what
\* was never recorded is never acknowledged, faults or not, so Stripe still posts it.
Dispatcher == INSTANCE WebhookDispatch WITH stage <- Stage
Implements == Dispatcher!Spec

\* Stripe is always answered in the end and stops retrying: a post that lost the
\* race to record the id, or failed half-way, does not go on being refused.
RetriesEnd == \A e \in StripeEvent : <>(e \in acked)

\* "makes every handler exactly-once" (schema.sql:275), as far as that is true: whatever
\* overlaps and repeats, an event that was acknowledged has been handled, or is being
\* handled, unless an error or a crash came in between (after which the retry is taken
\* for a duplicate and the event is lost).
LostOnlyByFault ==
    faults = 0 => \A e \in acked :
        \/ e \in handled
        \/ \E d \in Post : post[d].e = e /\ post[d].pc \in {"dispatch", "run"}
=============================================================================
