------------------------------- MODULE Outbound -------------------------------
(***************************************************************************)
(* outbound/outbound-webhooks.service.ts: notices to the source platforms. *)
(*                                                                         *)
(* A notice is a row of webhook_deliveries, attempted at once when it is   *)
(* queued and again by a sweep every minute while it is pending and due.   *)
(* Nothing keeps two attempts at one row apart: the immediate attempt and  *)
(* a sweep, or two sweeps (the timer does not wait for a slow sweep), may  *)
(* overlap, and each saves the copy of the row it read.  worker[w] is an   *)
(* emit's attempt or a sweep in progress.                                  *)
(***************************************************************************)
EXTENDS Integers

CONSTANTS Delivery,    \* ids of delivery rows
          Worker,      \* bound: attempts and sweeps in progress at once
          NoDelivery,  \* the delivery of a worker between attempts
          MaxAttempts, \* MAX_ATTEMPTS, 8 in the code
          MaxBackoff,  \* longest wait between attempts in minutes, 60 in the code
          MaxFault     \* bound: crashes (only liveness needs it)

ASSUME OutboundAssumption == /\ NoDelivery \notin Delivery
                             /\ MaxAttempts \in Nat \ {0}
                             /\ MaxBackoff \in Nat \ {0}
                             /\ MaxFault \in Nat

VARIABLES rec,     \* the webhook_deliveries table
          worker,  \* attempts and sweeps in progress
          acked,   \* deliveries the platform has answered 2xx
          posted,  \* how many times each delivery was posted (see Counted)
          faults   \* crashes so far

vars == <<rec, worker, acked, posted, faults>>

\* wait is the time left until nextAttemptAt, in minutes.
Record == [status   : {"none", "pending", "delivered", "failed"},
           attempts : Nat,
           wait     : Nat,
           error    : {"none", "unconfigured", "refused"}]

NoRecord == [status |-> "none", attempts |-> 0, wait |-> 0, error |-> "none"]

\* Variant: a status no query asks for.
Misspelt == [NoRecord EXCEPT !.status = "queued"]

Queued == [NoRecord EXCEPT !.status = "pending"]

WorkerState == [pc   : {"idle", "next", "read", "tenant", "post", "save"},
                d    : Delivery \cup {NoDelivery},
                copy : Record,
                todo : SUBSET Delivery]

State(pc, d, copy, todo) == [pc |-> pc, d |-> d, copy |-> copy, todo |-> todo]

Idle == State("idle", NoDelivery, NoRecord, {})

TypeOK == /\ rec \in [Delivery -> Record]
          /\ worker \in [Worker -> WorkerState]
          /\ acked \subseteq Delivery
          /\ posted \in [Delivery -> Nat]
          /\ faults \in 0 .. MaxFault

Init == /\ rec = [d \in Delivery |-> NoRecord]
        /\ worker = [w \in Worker |-> Idle]
        /\ acked = {}
        /\ posted = [d \in Delivery |-> 0]
        /\ faults = 0

-----------------------------------------------------------------------------
Set(w, state) == worker' = [worker EXCEPT ![w] = state]

\* The attempt of w goes on to another await, with this copy of the row.
Go(w, pc, copy) == Set(w, State(pc, worker[w].d, copy, worker[w].todo))

\* The end of an attempt: an emit is done, a sweep goes on to its next row.
Rest(w) == IF worker[w].todo = {} THEN Idle
           ELSE State("next", NoDelivery, NoRecord, worker[w].todo)

\* emit: the row is saved and an attempt started without waiting for it.  An
\* insert that fails is logged and leaves nothing.
Emit(w, d) ==
    /\ worker[w].pc = "idle"
    /\ rec[d].status = "none"
    /\ rec' = [rec EXCEPT ![d] = Queued]
    /\ Set(w, State("read", d, NoRecord, {}))
    /\ UNCHANGED <<acked, posted, faults>>

\* Variant: the sweep looks only for rows that were attempted before.
DueForRetry == {d \in Delivery : /\ rec[d].status = "pending"
                                 /\ rec[d].wait = 0
                                 /\ rec[d].attempts > 0}

Due == {d \in Delivery : rec[d].status = "pending" /\ rec[d].wait = 0}

\* retryPending: the list of due rows is read once.  (At most 25 are taken, the
\* longest due first; the rest wait for the next sweep.)
Sweep(w) ==
    /\ worker[w].pc = "idle"
    /\ Due # {}
    /\ Set(w, State("next", NoDelivery, NoRecord, Due))
    /\ UNCHANGED <<rec, acked, posted, faults>>

SweepNext(w) ==
    /\ worker[w].pc = "next"
    /\ \E d \in worker[w].todo :
         Set(w, State("read", d, NoRecord, worker[w].todo \ {d}))
    /\ UNCHANGED <<rec, acked, posted, faults>>

\* attempt: the row is read again and must still be pending; it need not be due.
Read(w) ==
    /\ worker[w].pc = "read"
    /\ LET r == rec[worker[w].d]
       IN  IF r.status = "pending" THEN Go(w, "tenant", r) ELSE Set(w, Rest(w))
    /\ UNCHANGED <<rec, acked, posted, faults>>

\* Variant: the attempt is not counted.
PostUncounted(w) ==
    /\ worker[w].pc = "tenant"
    /\ Go(w, "post", worker[w].copy)
    /\ UNCHANGED <<rec, acked, posted, faults>>

\* The tenant is read, and may have been given or have lost its URL and secret
\* since the last attempt.  With both, the attempt is counted, in the copy only,
\* before the post; without, or if the look-up throws (outbound-webhooks.service.ts:79
\* takes an error of the database for a tenant that is not there), the row is closed out.
ReadTenant(w) ==
    /\ worker[w].pc = "tenant"
    /\ \/ Go(w, "post", [worker[w].copy EXCEPT !.attempts = @ + 1])
       \/ Go(w, "save", [worker[w].copy EXCEPT !.status = "failed",
                                              !.error = "unconfigured"])
    /\ UNCHANGED <<rec, acked, posted, faults>>

Backoff(n) == IF 2 ^ n \in 1 .. MaxBackoff THEN 2 ^ n ELSE MaxBackoff

\* Variant: one attempt too many.
RetryOnceMore(c) ==
    IF c.attempts > MaxAttempts
    THEN [c EXCEPT !.status = "failed", !.error = "refused"]
    ELSE [c EXCEPT !.wait = Backoff(c.attempts), !.error = "refused"]

\* scheduleRetry.  (Setting nextAttemptAt to undefined writes nothing.)
ScheduleRetry(c) ==
    IF c.attempts >= MaxAttempts
    THEN [c EXCEPT !.status = "failed", !.error = "refused"]
    ELSE [c EXCEPT !.wait = Backoff(c.attempts), !.error = "refused"]

\* Bound: posts are counted up to one more than the code promises.
Counted(n) == IF n > MaxAttempts THEN n ELSE n + 1

\* Variant: any answer at all counts as delivered.
AnyAnswer(w) ==
    /\ worker[w].pc = "post"
    /\ Go(w, "save", [worker[w].copy EXCEPT !.status = "delivered"])
    /\ posted' = [posted EXCEPT ![worker[w].d] = Counted(@)]
    /\ acked' \in {acked, acked \cup {worker[w].d}}
    /\ UNCHANGED <<rec, faults>>

\* The post: answered 2xx, or anything else, an error and the timeout included.
\* (Setting lastError to undefined writes nothing.)
Deliver(w) ==
    /\ worker[w].pc = "post"
    /\ LET d == worker[w].d
       IN  /\ \/ /\ acked' = acked \cup {d}
                 /\ Go(w, "save", [worker[w].copy EXCEPT !.status = "delivered"])
              \/ /\ Go(w, "save", ScheduleRetry(worker[w].copy))
                 /\ UNCHANGED acked
           /\ posted' = [posted EXCEPT ![d] = Counted(@)]
    /\ UNCHANGED <<rec, faults>>

Save(w) ==
    /\ worker[w].pc = "save"
    /\ rec' = [rec EXCEPT ![worker[w].d] = worker[w].copy]
    /\ Set(w, Rest(w))
    /\ UNCHANGED <<acked, posted, faults>>

\* The process dies.  (So it does when the database fails during an attempt that
\* emit started: nothing awaits it, and an unhandled rejection ends the process.)
Crash ==
    /\ faults < MaxFault
    /\ faults' = faults + 1
    /\ worker' = [w \in Worker |-> Idle]
    /\ UNCHANGED <<rec, acked, posted>>

Sooner(c) == [c EXCEPT !.wait = IF @ = 0 THEN 0 ELSE @ - 1]

\* A minute passes.
Tick ==
    /\ \E d \in Delivery : rec[d].wait > 0
    /\ rec' = [d \in Delivery |-> Sooner(rec[d])]
    /\ worker' = [w \in Worker |-> [worker[w] EXCEPT !.copy = Sooner(@)]]
    /\ UNCHANGED <<acked, posted, faults>>

Attempt(w) == SweepNext(w) \/ Read(w) \/ ReadTenant(w) \/ Deliver(w) \/ Save(w)

Step == \/ \E w \in Worker : Sweep(w) \/ Attempt(w)
        \/ \E w \in Worker, d \in Delivery : Emit(w, d)
        \/ Crash

Next == Step \/ Tick

Spec == Init /\ [][Next]_vars

\* Fairness: a step of an attempt once begun is taken, the sweep's timer keeps
\* firing and time passes.  Timing: a post is cut off after ten seconds, so no
\* minute passes between the read and the save of an attempt.  (A sweep may take
\* many minutes: it has up to 25 attempts to make, one after the other.)
TimelyTick == Tick /\ \A w \in Worker : worker[w].pc \in {"idle", "next"}

TimelyNext == Step \/ TimelyTick

FairSpec == /\ Init
            /\ [][TimelyNext]_vars
            /\ \A w \in Worker : WF_vars(Attempt(w))
            /\ WF_vars(\E w \in Worker : Sweep(w))
            /\ WF_vars(TimelyTick)

-----------------------------------------------------------------------------
\* The audit trail never claims a delivery the platform did not acknowledge.
DeliveredWasAcked == \A d \in Delivery : rec[d].status = "delivered" => d \in acked

\* A row is given up on only after the last attempt it is due, or because the look-up of
\* the tenant gave no URL and secret (or threw: ReadTenant), and a pending row always has an
\* attempt left.  Every save writes a copy that some other save may have overtaken.
AttemptsAreUsed ==
    \A d \in Delivery :
        /\ rec[d].status = "pending" => rec[d].attempts < MaxAttempts
        /\ rec[d].status = "failed" =>
             rec[d].attempts = MaxAttempts \/ rec[d].error = "unconfigured"

\* Every delivery queued is settled in the end and stays settled, although a stale
\* save may reopen a settled row or take attempts off its count.
EventuallySettled ==
    \A d \in Delivery :
        rec[d].status = "pending" ~> [](rec[d].status \in {"delivered", "failed"})

\* A queued notice is posted, if the process dies right after queueing it too,
\* unless the look-up of the tenant gives nowhere to post to when it is tried, or throws.
QueuedIsPosted ==
    \A d \in Delivery :
        rec[d].status = "pending" ~>
            posted[d] > 0 \/ rec[d].error = "unconfigured"
=============================================================================
