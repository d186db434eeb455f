------------------------------- MODULE Payouts -------------------------------
(***************************************************************************)
(* payouts/payouts.service.ts: payouts made at Stripe and their local rows.*)
(*                                                                         *)
(* task[t] is a request in progress, between two awaits.  The caller sends *)
(* an Idempotency-Key or none, and asks again with the same key as long as *)
(* it has no answer.  Stripe answers a key it knows with the answer it gave*)
(* the first time.                                                         *)
(***************************************************************************)
EXTENDS Integers, FiniteSets

CONSTANTS Task,      \* bound: requests and handlers in progress at once
          Key,       \* Idempotency-Keys of the callers, one per payout wanted
          NoKey,     \* no key is sent
          MaxPayout, \* bound: payouts are numbered 1..MaxPayout at Stripe
          MaxFaults  \* bound: tasks that end by an error or a crash

ASSUME PayoutsAssumption == /\ NoKey \notin Key
                            /\ MaxPayout \in Nat
                            /\ MaxFaults \in Nat

VARIABLES made,     \* the payouts at Stripe
          row,      \* the payouts table: the status of each payout's row
          task,     \* requests and handlers in progress
          answered, \* keys whose caller was told that the payout was made
          faults    \* tasks ended by an error or a crash so far

vars == <<made, row, task, answered, faults>>

Payout == 1 .. MaxPayout

PayoutStatus == {"pending", "in_transit", "paid", "failed", "canceled"}

Stored == PayoutStatus \cup {"none"}

\* had: every status so far.
Made == [status : Stored, had : SUBSET PayoutStatus, key : Key \cup {NoKey}]

NotMade == [status |-> "none", had |-> {}, key |-> NoKey]

\* status is that of the payout the task holds.
TaskState == [pc     : {"idle", "call", "insert", "cancel", "save"},
              key    : Key \cup {NoKey},
              p      : 0 .. MaxPayout,
              status : Stored]

Idle == [pc |-> "idle", key |-> NoKey, p |-> 0, status |-> "none"]

TypeOK == /\ made \in [Payout -> Made]
          /\ row \in [Payout -> Stored]
          /\ task \in [Task -> TaskState]
          /\ answered \subseteq Key
          /\ faults \in 0 .. MaxFaults

Init == /\ made = [p \in Payout |-> NotMade]
        /\ row = [p \in Payout |-> "none"]
        /\ task = [t \in Task |-> Idle]
        /\ answered = {}
        /\ faults = 0

-----------------------------------------------------------------------------
(* Stripe: it makes payouts, and they go their way.                        *)

After == [none       |-> {"pending"},
          pending    |-> {"in_transit", "paid", "failed", "canceled"},
          in_transit |-> {"paid", "failed"},
          paid       |-> {"failed"},
          failed     |-> {},
          canceled   |-> {}]

\* The payouts made for a key that was sent.
Known(key) == {p \in Payout : key # NoKey /\ made[p].key = key}

CreatePayout(p, key, s) ==
    /\ made[p].status = "none"
    /\ \A q \in 1 .. p - 1 : made[q].status # "none"
    /\ made' = [made EXCEPT ![p] = [status |-> s, had |-> {s}, key |-> key]]

Change(p, s) ==
    /\ made[p].status # "none"
    /\ s \in After[made[p].status]
    /\ made' = [made EXCEPT ![p].status = s, ![p].had = @ \cup {s}]

Stripe == /\ \E p \in Payout, s \in PayoutStatus : Change(p, s)
          /\ UNCHANGED <<row, task, answered, faults>>

-----------------------------------------------------------------------------
Recorded == {p \in Payout : row[p] # "none"}

Start(t, state) == /\ task[t].pc = "idle"
                   /\ task' = [task EXCEPT ![t] = state]

Goto(t, state) == task' = [task EXCEPT ![t] = state]

Finish(t) == Goto(t, Idle)

-----------------------------------------------------------------------------
(* POST /payouts                                                           *)

Create(t, k) ==
    /\ k \notin answered
    /\ Start(t, [Idle EXCEPT !.pc = "call", !.key = k])
    /\ UNCHANGED <<made, row, answered, faults>>

\* Variant: the controller keeps the key to itself.
CallWithoutKey(t) ==
    /\ task[t].pc = "call"
    /\ \E p \in Payout, s \in After["none"] :
         /\ CreatePayout(p, task[t].key, s)
         /\ Goto(t, [task[t] EXCEPT !.pc = "insert", !.p = p, !.status = s])
    /\ UNCHANGED <<row, answered, faults>>

\* A new payout, or the first answer again.
CreateCall(t) ==
    /\ task[t].pc = "call"
    /\ \/ /\ Known(task[t].key) = {}
          /\ \E p \in Payout, s \in After["none"] :
               /\ CreatePayout(p, task[t].key, s)
               /\ Goto(t, [task[t] EXCEPT !.pc = "insert", !.p = p, !.status = s])
       \/ \E p \in Known(task[t].key) : \E s \in After["none"] \cap made[p].had :
               /\ Goto(t, [task[t] EXCEPT !.pc = "insert", !.p = p, !.status = s])
               /\ UNCHANGED made
    /\ UNCHANGED <<row, answered, faults>>

\* The balance does not suffice, or the bound is reached: the call throws.
CreateRefused(t) ==
    /\ task[t].pc = "call"
    /\ Known(task[t].key) = {}
    /\ Finish(t)
    /\ UNCHANGED <<made, row, answered, faults>>

\* stripePayoutId is unique: the insert of a payout on record throws.  (That the
\* answer is lost is a fault of its own.)
Insert(t) ==
    LET p == task[t].p IN
    /\ task[t].pc = "insert"
    /\ IF p \in Recorded
       THEN UNCHANGED <<row, answered, faults>>
       ELSE /\ row' = [row EXCEPT ![p] = task[t].status]
            /\ \/ answered' = answered \cup ({task[t].key} \ {NoKey}) /\ UNCHANGED faults
               \/ faults < MaxFaults /\ faults' = faults + 1 /\ UNCHANGED answered
    /\ Finish(t)
    /\ UNCHANGED made

-----------------------------------------------------------------------------
(* POST /payouts/:id/cancel and the payout events                          *)

\* The local status is not looked at.
Cancel(t, p) ==
    /\ p \in Recorded
    /\ Start(t, [Idle EXCEPT !.pc = "cancel", !.p = p])
    /\ UNCHANGED <<made, row, answered, faults>>

\* Variant: the answer is taken to be "canceled" without a look at it.
CancelAnyway(t) ==
    /\ task[t].pc = "cancel"
    /\ IF made[task[t].p].status = "pending"
       THEN Change(task[t].p, "canceled")
       ELSE UNCHANGED made
    /\ Goto(t, [task[t] EXCEPT !.pc = "save", !.status = "canceled"])
    /\ UNCHANGED <<row, answered, faults>>

\* Stripe cancels only what is pending; otherwise the call throws.
CancelCall(t) ==
    /\ task[t].pc = "cancel"
    /\ IF made[task[t].p].status = "pending"
       THEN /\ Change(task[t].p, "canceled")
            /\ Goto(t, [task[t] EXCEPT !.pc = "save", !.status = "canceled"])
       ELSE UNCHANGED made /\ Finish(t)
    /\ UNCHANGED <<row, answered, faults>>

\* Variant: a status that the entity does not know.
SaveMisspelt(t) ==
    /\ task[t].pc = "save"
    /\ row' = [row EXCEPT ![task[t].p] = "cancelled"]
    /\ Finish(t)
    /\ UNCHANGED <<made, answered, faults>>

Save(t) ==
    /\ task[t].pc = "save"
    /\ row' = [row EXCEPT ![task[t].p] = task[t].status]
    /\ Finish(t)
    /\ UNCHANGED <<made, answered, faults>>

\* The snapshot in an event is applied.  Each status the payout has had is reported
\* by one event or several (payout.updated and the named one), which come in any
\* order or never.  One that comes before the row, or without one, is dropped.  All
\* the handler reads is that there is a row, which stays: its step is its save.
SyncFromStripePayout(p) ==
    /\ p \in Recorded
    /\ \E s \in made[p].had : row' = [row EXCEPT ![p] = s]
    /\ UNCHANGED <<made, task, answered, faults>>

-----------------------------------------------------------------------------
\* A crash or an error of the database or the network ends the task where it is.
Abort(t) ==
    /\ faults < MaxFaults
    /\ task[t].pc # "idle"
    /\ Finish(t)
    /\ faults' = faults + 1
    /\ UNCHANGED <<made, row, answered>>

Continue(t) == CreateCall(t) \/ CreateRefused(t) \/ Insert(t) \/ CancelCall(t) \/ Save(t)

Next == \/ Stripe
        \/ \E p \in Payout : SyncFromStripePayout(p)
        \/ \E t \in Task :
             \/ \E k \in Key \cup {NoKey} : Create(t, k)
             \/ \E p \in Payout : Cancel(t, p)
             \/ Continue(t)
             \/ Abort(t)

\* The process goes on with what it began, and a caller without an answer asks again
\* as long as there is room for its request, again and again.
Fairness == /\ \A t \in Task : WF_vars(Continue(t))
            /\ \A k \in Key : SF_vars(\E t \in Task : Create(t, k))

Spec == Init /\ [][Next]_vars /\ Fairness

-----------------------------------------------------------------------------
Mirror == INSTANCE StatusMirror
    WITH Object <- Payout, Status <- PayoutStatus, None <- "none",
         had <- [p \in Payout |-> made[p].had], mirror <- row

\* However late and in whatever order answers, replayed answers and events are
\* saved, a payout's row says what the payout is or was at Stripe, never what it did
\* not reach, and no payout loses its row: the service implements StatusMirror.
Implements == Mirror!Spec

\* "Optional key forwarded to Stripe so a retried request never creates a duplicate
\* payout" (payouts.controller.ts:26), with every answer and row that may be lost.
OnePayoutPerKey ==
    \A k \in Key : Cardinality({p \in Payout : made[p].key = k}) <= 1

\* The payout is made before its row (payouts.service.ts:40-50): a fault in between
\* leaves it without one, and its events are dropped.  A caller that sent a key and
\* asks again repairs that: the replayed answer brings the row.
KeyedIsRecorded ==
    \A p \in Payout : made[p].key # NoKey ~> row[p] # "none"
=============================================================================
