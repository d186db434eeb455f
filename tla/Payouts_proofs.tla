---------------------------- MODULE Payouts_proofs ----------------------------
(***************************************************************************)
(* Proofs about Payouts, for any number of payouts, requests, events and   *)
(* faults.  The invariant adds to the types that what a row says, or a     *)
(* task holds on its way to a row, the payout has been; and that what was  *)
(* made under a key is the one payout made under it.                       *)
(***************************************************************************)
EXTENDS Payouts, FiniteSetTheorems, TLAPS

AnyKey == Key \cup {NoKey}

IsMade(m) == m \in Made /\ (m.status = "none" => m.had = {} /\ m.key = NoKey)

\* What a task may hold while the payouts at Stripe are m.
Holds(x, m) == /\ x.pc = "cancel" => x.p \in Payout
               /\ x.pc \in {"insert", "save"} => x.p \in Payout /\ x.status \in m[x.p].had

MadeInv == /\ made = [p \in Payout |-> made[p]]
           /\ \A p \in Payout : IsMade(made[p])

OneEach == \A p, q \in Payout : made[p].key = made[q].key /\ made[p].key \in Key => p = q

RowInv == /\ row = [p \in Payout |-> row[p]]
          /\ \A p \in Payout : row[p] = "none" \/ row[p] \in made[p].had

TaskInv == /\ task = [t \in Task |-> task[t]]
           /\ \A t \in Task : task[t] \in TaskState /\ Holds(task[t], made)

CallersInv == answered \subseteq Key /\ faults \in 0 .. MaxFaults

IInv == MadeInv /\ OneEach /\ RowInv /\ TaskInv /\ CallersInv

-----------------------------------------------------------------------------
(* Steps leave made alone or let a payout have one more status.            *)

Grows == \A p \in Payout : made[p].had \subseteq made'[p].had

LEMMA Numbers == Payout \subseteq 0 .. MaxPayout /\ 0 \in 0 .. MaxPayout
  BY PayoutsAssumption DEF Payout

LEMMA StillHolds ==
    ASSUME NEW x, Holds(x, made), Grows PROVE Holds(x, made')
  BY DEF Holds, Grows

LEMMA RowStays ==
    ASSUME RowInv, Grows, UNCHANGED row PROVE RowInv'
  BY DEF RowInv, Grows

LEMMA HadIsStatus ==
    ASSUME MadeInv, NEW p \in Payout, NEW s \in made[p].had
    PROVE  s \in PayoutStatus /\ s \in Stored /\ s # "none" /\ made[p].status # "none"
  BY DEF MadeInv, IsMade, Made, PayoutStatus, Stored

LEMMA TaskBecomes ==
    ASSUME TaskInv, Grows, NEW t \in Task, NEW x,
           task' = [task EXCEPT ![t] = x], x \in TaskState, Holds(x, made')
    PROVE  TaskInv'
  <1>1. /\ task' = [u \in Task |-> task'[u]]
        /\ task'[t] = x
        /\ \A u \in Task \ {t} : task'[u] = task[u]
    BY DEF TaskInv
  <1>2. ASSUME NEW u \in Task PROVE task'[u] \in TaskState /\ Holds(task'[u], made')
    <2>1. CASE u = t
      BY <1>1, <2>1
    <2>2. CASE u # t
      <3>1. task'[u] = task[u] /\ task[u] \in TaskState /\ Holds(task[u], made)
        BY <1>1, <2>2 DEF TaskInv
      <3> QED
        BY <3>1, StillHolds
    <2> QED
      BY <2>1, <2>2
  <1> QED
    BY <1>1, <1>2 DEF TaskInv

LEMMA IdleOK == Idle \in TaskState /\ Idle.pc = "idle" /\ \A m : Holds(Idle, m)
  BY Numbers DEF Idle, TaskState, Stored, Holds

\* What a change of a payout at Stripe does.
LEMMA ChangeIs ==
    ASSUME MadeInv, NEW p \in Payout, NEW s, Change(p, s)
    PROVE  /\ made' = [q \in Payout |-> made'[q]]
           /\ made'[p] = [status |-> s, had |-> made[p].had \cup {s}, key |-> made[p].key]
           /\ \A q \in Payout \ {p} : made'[q] = made[q]
           /\ made[p].status # "none"
  <1> DEFINE m == made[p]
  <1>1. m \in Made
    BY DEF MadeInv, IsMade
  <1>2. /\ made' = [q \in Payout |-> made'[q]]
        /\ made'[p] = [m EXCEPT !.status = s, !.had = @ \cup {s}]
        /\ \A q \in Payout \ {p} : made'[q] = made[q]
    BY DEF Change, MadeInv
  <1>3. made'[p] = [status |-> s, had |-> m.had \cup {s}, key |-> m.key]
    BY <1>1, <1>2 DEF Made
  <1> QED
    BY <1>2, <1>3 DEF Change

LEMMA ChangeOK ==
    ASSUME MadeInv, OneEach, NEW p \in Payout, NEW s \in PayoutStatus, Change(p, s)
    PROVE  MadeInv' /\ OneEach' /\ Grows /\ s \in made'[p].had
  <1> DEFINE m == made[p]
  <1>1. IsMade(m)
    BY DEF MadeInv
  <1>2. /\ made' = [q \in Payout |-> made'[q]]
        /\ made'[p] = [status |-> s, had |-> m.had \cup {s}, key |-> m.key]
        /\ \A q \in Payout \ {p} : made'[q] = made[q]
    BY ChangeIs
  <1>3. s # "none" /\ s \in Stored
    BY DEF PayoutStatus, Stored
  <1>4. IsMade(made'[p])
    BY <1>1, <1>2, <1>3 DEF IsMade, Made
  <1>5. MadeInv'
    BY <1>2, <1>4 DEF MadeInv
  <1>6. \A q \in Payout : made'[q].key = made[q].key
    BY <1>2
  <1>7. OneEach'
    BY <1>6 DEF OneEach
  <1>8. Grows
    BY <1>2 DEF Grows
  <1> QED
    BY <1>2, <1>5, <1>7, <1>8

LEMMA CreatePayoutIs ==
    ASSUME MadeInv, NEW p \in Payout, NEW s, NEW key, CreatePayout(p, key, s)
    PROVE  /\ made' = [q \in Payout |-> made'[q]]
           /\ made'[p] = [status |-> s, had |-> {s}, key |-> key]
           /\ \A q \in Payout \ {p} : made'[q] = made[q]
           /\ made[p].had = {}
  BY DEF CreatePayout, MadeInv, IsMade

\* Nothing was made for the key before.
LEMMA CreatePayoutOK ==
    ASSUME MadeInv, OneEach, NEW p \in Payout, NEW s \in After["none"],
           NEW key \in AnyKey, Known(key) = {}, CreatePayout(p, key, s)
    PROVE  MadeInv' /\ OneEach' /\ Grows /\ s \in made'[p].had
  <1>1. s \in PayoutStatus /\ s # "none" /\ s \in Stored
    BY DEF After, PayoutStatus, Stored
  <1>2. /\ made' = [q \in Payout |-> made'[q]]
        /\ made'[p] = [status |-> s, had |-> {s}, key |-> key]
        /\ \A q \in Payout \ {p} : made'[q] = made[q]
        /\ made[p].had = {}
    BY CreatePayoutIs
  <1>3. IsMade(made'[p])
    BY <1>1, <1>2 DEF IsMade, Made, AnyKey
  <1>4. MadeInv'
    BY <1>2, <1>3 DEF MadeInv
  <1>5. \A q \in Payout : key \in Key => made[q].key # key
    BY PayoutsAssumption DEF Known
  <1>6. OneEach'
    BY <1>2, <1>5 DEF OneEach
  <1>7. Grows
    BY <1>2 DEF Grows
  <1> QED
    BY <1>2, <1>4, <1>6, <1>7

-----------------------------------------------------------------------------
(* One lemma for each way a step goes.                                     *)

\* Only task t changes, and it becomes x; what callers know may change.
LEMMA OnlyTask ==
    ASSUME IInv, NEW t \in Task, NEW x, task' = [task EXCEPT ![t] = x],
           UNCHANGED <<made, row>>, x \in TaskState, Holds(x, made), CallersInv'
    PROVE  IInv'
  <1>1. Grows /\ Holds(x, made')
    BY DEF Grows
  <1> QED
    BY <1>1, TaskBecomes DEF IInv, MadeInv, OneEach, RowInv

\* A payout's row is saved, with a status it has had.
LEMMA RowSaved ==
    ASSUME MadeInv, RowInv, UNCHANGED made, NEW p \in Payout, NEW s \in made[p].had,
           row' = [row EXCEPT ![p] = s]
    PROVE  RowInv'
  BY DEF RowInv

-----------------------------------------------------------------------------
(* The actions.                                                            *)

LEMMA CreateOK ==
    ASSUME IInv, NEW t \in Task, NEW k \in AnyKey, Create(t, k) PROVE IInv'
  <1> DEFINE x == [Idle EXCEPT !.pc = "call", !.key = k]
  <1>1. x \in TaskState /\ x.pc = "call"
    BY IdleOK DEF TaskState, AnyKey
  <1>3. x \in TaskState /\ Holds(x, made)
    BY <1>1 DEF Holds
  <1>4. task' = [task EXCEPT ![t] = x] /\ UNCHANGED <<made, row>> /\ CallersInv'
    BY DEF Create, Start, IInv, CallersInv
  <1> QED
    BY <1>3, <1>4, OnlyTask

LEMMA CreateCallOK ==
    ASSUME IInv, NEW t \in Task, CreateCall(t) PROVE IInv'
  <1>0. task[t] \in TaskState /\ task[t].key \in AnyKey
    BY DEF IInv, TaskInv, TaskState, AnyKey
  <1>1. ASSUME NEW p \in Payout, NEW s \in After["none"], Known(task[t].key) = {},
               CreatePayout(p, task[t].key, s),
               Goto(t, [task[t] EXCEPT !.pc = "insert", !.p = p, !.status = s])
        PROVE  IInv'
    <2> DEFINE x == [task[t] EXCEPT !.pc = "insert", !.p = p, !.status = s]
    <2>1. s \in PayoutStatus
      BY DEF After, PayoutStatus
    <2>2. MadeInv' /\ OneEach' /\ Grows /\ s \in made'[p].had
      BY <1>0, <1>1, CreatePayoutOK DEF IInv
    <2>3. x \in TaskState /\ x.pc = "insert" /\ x.p = p /\ x.status = s
      BY <1>0, <2>1, Numbers DEF TaskState, Stored
    <2> HIDE DEF x
    <2>4. Holds(x, made')
      BY <2>2, <2>3 DEF Holds
    <2>5. TaskInv'
      BY <1>1, <2>2, <2>3, <2>4, TaskBecomes DEF IInv, Goto, x
    <2>6. RowInv' /\ CallersInv'
      BY <2>2, RowStays DEF IInv, CreateCall, CallersInv
    <2> QED
      BY <2>2, <2>5, <2>6 DEF IInv
  <1>2. ASSUME NEW p \in Payout, NEW s \in After["none"], s \in made[p].had,
               Goto(t, [task[t] EXCEPT !.pc = "insert", !.p = p, !.status = s]),
               UNCHANGED made
        PROVE  IInv'
    <2> DEFINE x == [task[t] EXCEPT !.pc = "insert", !.p = p, !.status = s]
    <2>1. s \in PayoutStatus
      BY DEF After, PayoutStatus
    <2>2. x \in TaskState /\ x.pc = "insert" /\ x.p = p /\ x.status = s
      BY <1>0, <2>1, Numbers DEF TaskState, Stored
    <2> HIDE DEF x
    <2>3. Holds(x, made)
      BY <1>2, <2>2 DEF Holds
    <2>4. UNCHANGED row /\ CallersInv'
      BY DEF CreateCall, IInv, CallersInv
    <2> QED
      BY <1>2, <2>2, <2>3, <2>4, OnlyTask DEF Goto, x
  <1> QED
    BY <1>1, <1>2 DEF CreateCall, Known

LEMMA InsertOK ==
    ASSUME IInv, NEW t \in Task, Insert(t) PROVE IInv'
  <1> DEFINE p == task[t].p
  <1>1. p \in Payout /\ task[t].status \in made[p].had
    BY DEF Insert, IInv, TaskInv, Holds
  <1>2. UNCHANGED made /\ task' = [task EXCEPT ![t] = Idle]
    BY DEF Insert, Finish, Goto
  <1>3. RowInv'
    <2>1. CASE UNCHANGED row
      BY <1>2, <2>1 DEF IInv, RowInv
    <2>2. CASE row' = [row EXCEPT ![p] = task[t].status]
      BY <1>1, <1>2, <2>2, RowSaved DEF IInv
    <2> QED
      BY <2>1, <2>2 DEF Insert
  <1>4. CallersInv'
    <2>1. {task[t].key} \ {NoKey} \subseteq Key
      BY DEF IInv, TaskInv, TaskState
    <2>2. faults < MaxFaults /\ faults' = faults + 1 => faults' \in 0 .. MaxFaults
      BY PayoutsAssumption DEF IInv, CallersInv
    <2> QED
      BY <2>1, <2>2 DEF Insert, IInv, CallersInv
  <1>5. TaskInv'
    BY <1>2, IdleOK, TaskBecomes DEF Grows, IInv
  <1> QED
    BY <1>2, <1>3, <1>4, <1>5 DEF IInv, MadeInv, OneEach

LEMMA CancelOK ==
    ASSUME IInv, NEW t \in Task, NEW p \in Payout, Cancel(t, p) PROVE IInv'
  <1> DEFINE x == [Idle EXCEPT !.pc = "cancel", !.p = p]
  <1>1. x \in TaskState /\ x.pc = "cancel" /\ x.p = p
    BY IdleOK, Numbers DEF TaskState
  <1>3. x \in TaskState /\ Holds(x, made)
    BY <1>1 DEF Holds
  <1>4. task' = [task EXCEPT ![t] = x] /\ UNCHANGED <<made, row>> /\ CallersInv'
    BY DEF Cancel, Start, IInv, CallersInv
  <1> QED
    BY <1>3, <1>4, OnlyTask

LEMMA OnlyIdle ==
    ASSUME IInv, NEW t \in Task, Finish(t), UNCHANGED <<made, row>>, CallersInv' PROVE IInv'
  BY IdleOK, OnlyTask DEF Finish, Goto

LEMMA CancelCallOK ==
    ASSUME IInv, NEW t \in Task, CancelCall(t) PROVE IInv'
  <1> DEFINE y == task[t]
  <1> DEFINE x == [y EXCEPT !.pc = "save", !.status = "canceled"]
  <1>1. y.p \in Payout /\ y \in TaskState
    BY DEF IInv, TaskInv, Holds, CancelCall
  <1>2. UNCHANGED row /\ CallersInv'
    BY DEF CancelCall, IInv, CallersInv
  <1>3. CASE UNCHANGED made /\ Finish(t)
    BY <1>2, <1>3, OnlyIdle
  <1>4. CASE Change(y.p, "canceled") /\ Goto(t, x)
    <2>1. MadeInv' /\ OneEach' /\ Grows /\ "canceled" \in made'[y.p].had
      BY <1>1, <1>4, ChangeOK DEF IInv, PayoutStatus
    <2>2. x \in TaskState /\ x.pc = "save" /\ x.p = y.p /\ x.status = "canceled"
      BY <1>1 DEF TaskState, Stored, PayoutStatus
    <2> HIDE DEF x
    <2>4. x \in TaskState /\ Holds(x, made')
      BY <1>1, <2>1, <2>2 DEF Holds
    <2>5. TaskInv'
      BY <1>4, <2>1, <2>4, TaskBecomes DEF IInv, Goto
    <2> QED
      BY <1>2, <2>1, <2>5, RowStays DEF IInv
  <1> QED
    BY <1>3, <1>4 DEF CancelCall

LEMMA SaveOK ==
    ASSUME IInv, NEW t \in Task, Save(t) PROVE IInv'
  <1>1. task[t].p \in Payout /\ task[t].status \in made[task[t].p].had
    BY DEF Save, IInv, TaskInv, Holds
  <1>2. /\ UNCHANGED <<made, answered, faults>> /\ task' = [task EXCEPT ![t] = Idle]
        /\ row' = [row EXCEPT ![task[t].p] = task[t].status]
    BY DEF Save, Finish, Goto
  <1>3. RowInv'
    BY <1>1, <1>2, RowSaved DEF IInv
  <1>4. TaskInv'
    BY <1>2, IdleOK, TaskBecomes DEF Grows, IInv
  <1> QED
    BY <1>2, <1>3, <1>4 DEF IInv, MadeInv, OneEach, CallersInv

LEMMA SyncFromStripePayoutOK ==
    ASSUME IInv, NEW p \in Payout, SyncFromStripePayout(p) PROVE IInv'
  <1>1. RowInv' /\ UNCHANGED <<made, task, answered, faults>>
    BY RowSaved DEF SyncFromStripePayout, IInv
  <1> QED
    BY <1>1 DEF IInv, MadeInv, OneEach, TaskInv, CallersInv

LEMMA StripeOK == ASSUME IInv, Stripe PROVE IInv'
  <1>1. PICK p \in Payout, s \in PayoutStatus : Change(p, s)
    BY DEF Stripe
  <1>2. MadeInv' /\ OneEach' /\ Grows
    BY <1>1, ChangeOK DEF IInv
  <1>3. UNCHANGED <<row, task, answered, faults>>
    BY DEF Stripe
  <1>4. \A t \in Task : Holds(task[t], made')
    BY <1>2, StillHolds DEF IInv, TaskInv
  <1>5. TaskInv'
    BY <1>3, <1>4 DEF IInv, TaskInv
  <1> QED
    BY <1>2, <1>3, <1>5, RowStays DEF IInv, CallersInv

-----------------------------------------------------------------------------

LEMMA InitOK == ASSUME Init PROVE IInv
  <1>1. IsMade(NotMade) /\ NotMade.key = NoKey
    BY DEF IsMade, Made, NotMade, Stored
  <1>2. MadeInv /\ OneEach
    BY <1>1, PayoutsAssumption DEF Init, MadeInv, OneEach
  <1>3. RowInv
    BY DEF Init, RowInv
  <1>4. TaskInv
    BY IdleOK DEF Init, TaskInv
  <1>5. CallersInv
    BY PayoutsAssumption DEF Init, CallersInv
  <1> QED
    BY <1>2, <1>3, <1>4, <1>5 DEF IInv

LEMMA NextOK == ASSUME IInv, [Next]_vars PROVE IInv'
  <1>1. CASE UNCHANGED vars
    BY <1>1 DEF vars, IInv, MadeInv, OneEach, RowInv, TaskInv, CallersInv
  <1>2. ASSUME NEW t \in Task, Abort(t) PROVE IInv'
    <2>1. CallersInv'
      BY <1>2, PayoutsAssumption DEF Abort, IInv, CallersInv
    <2> QED
      BY <1>2, <2>1, OnlyIdle DEF Abort
  <1>3. ASSUME NEW t \in Task, CreateRefused(t) PROVE IInv'
    <2>1. CallersInv'
      BY <1>3 DEF CreateRefused, IInv, CallersInv
    <2> QED
      BY <1>3, <2>1, OnlyIdle DEF CreateRefused
  <1>4. ASSUME NEW t \in Task, Continue(t) PROVE IInv'
    BY <1>3, <1>4, CreateCallOK, InsertOK, CancelCallOK, SaveOK DEF Continue
  <1> QED
    BY <1>1, <1>2, <1>4, CreateOK, CancelOK, SyncFromStripePayoutOK, StripeOK
       DEF Next, AnyKey

\* The inductive invariant.
THEOREM Invariance == Spec => []IInv
  BY InitOK, NextOK, PTL DEF Spec

\* The types of Payouts hold in every reachable state.
THEOREM TypeCorrect == Spec => []TypeOK
  <1>1. IInv => TypeOK
    <2> SUFFICES ASSUME IInv PROVE TypeOK
      OBVIOUS
    <2>1. \A p \in Payout : made[p] \in Made
      BY DEF IInv, MadeInv, IsMade
    <2>2. \A t \in Task : task[t] \in TaskState
      BY DEF IInv, TaskInv
    <2>3. \A p \in Payout : row[p] \in Stored
      BY HadIsStatus DEF IInv, RowInv, Stored
    <2> QED
      BY <2>1, <2>2, <2>3 DEF IInv, MadeInv, RowInv, TaskInv, CallersInv, TypeOK
  <1> QED
    BY <1>1, Invariance, PTL

\* However often a request is repeated with its key, and whatever answers and rows are
\* lost, Stripe makes one payout for it.
THEOREM OneForAKey == Spec => []OnePayoutPerKey
  <1>1. IInv => OnePayoutPerKey
    <2> SUFFICES ASSUME IInv, NEW k \in Key
                 PROVE  Cardinality({p \in Payout : made[p].key = k}) <= 1
      BY DEF OnePayoutPerKey
    <2> DEFINE S == {p \in Payout : made[p].key = k}
    <2>1. \A p, q \in S : p = q
      BY DEF IInv, OneEach
    <2>2. CASE S = {}
      BY <2>2, FS_EmptySet
    <2>3. CASE S # {}
      <3>1. PICK p : S = {p}
        BY <2>1, <2>3
      <3> QED
        BY <3>1, FS_Singleton
    <2> QED
      BY <2>2, <2>3
  <1> QED
    BY <1>1, Invariance, PTL

-----------------------------------------------------------------------------
(* The refinement of StatusMirror.                                         *)

HadMap == [p \in Payout |-> made[p].had]

LEMMA Reaches ==
    ASSUME IInv, NEW p \in Payout, NEW s \in PayoutStatus, UNCHANGED row,
           made'[p].had = made[p].had \cup {s},
           \A q \in Payout \ {p} : made'[q] = made[q]
    PROVE  Mirror!Next
  <1>1. HadMap' = [HadMap EXCEPT ![p] = @ \cup {s}]
    BY DEF HadMap
  <1>2. Mirror!Reach(p, s)
    BY <1>1 DEF Mirror!Reach, HadMap
  <1> QED
    BY <1>2 DEF Mirror!Next

LEMMA Shows ==
    ASSUME IInv, NEW p \in Payout, NEW s \in made[p].had, UNCHANGED made,
           row' = [row EXCEPT ![p] = s]
    PROVE  Mirror!Next
  <1>1. Mirror!Show(p, s)
    BY DEF Mirror!Show
  <1> QED
    BY <1>1, HadIsStatus DEF Mirror!Next, IInv

LEMMA ChangeReaches ==
    ASSUME IInv, UNCHANGED row, NEW p \in Payout, NEW s \in PayoutStatus, Change(p, s)
    PROVE  Mirror!Next
  <1>1. /\ made'[p] = [status |-> s, had |-> made[p].had \cup {s}, key |-> made[p].key]
        /\ \A q \in Payout \ {p} : made'[q] = made[q]
    BY ChangeIs DEF IInv
  <1>2. made'[p].had = made[p].had \cup {s}
    BY <1>1
  <1> QED
    BY <1>1, <1>2, Reaches

LEMMA MirrorStep ==
    ASSUME IInv, [Next]_vars PROVE [Mirror!Next]_<<HadMap, row>>
  <1>1. ASSUME NEW t \in Task, CreateCall(t), ~UNCHANGED made
        PROVE  Mirror!Next
    <2>1. PICK p \in Payout, s \in After["none"] : CreatePayout(p, task[t].key, s)
      BY <1>1 DEF CreateCall
    <2>2. s \in PayoutStatus
      BY DEF After, PayoutStatus
    <2>3. /\ made'[p] = [status |-> s, had |-> {s}, key |-> task[t].key]
          /\ \A q \in Payout \ {p} : made'[q] = made[q]
          /\ made[p].had = {}
      BY <2>1, CreatePayoutIs DEF IInv
    <2>4. made'[p].had = made[p].had \cup {s}
      BY <2>3
    <2> QED
      BY <1>1, <2>2, <2>3, <2>4, Reaches DEF CreateCall
  <1>2. ASSUME NEW t \in Task, CancelCall(t), ~UNCHANGED made
        PROVE  Mirror!Next
    <2>1. task[t].p \in Payout /\ Change(task[t].p, "canceled") /\ "canceled" \in PayoutStatus
      BY <1>2 DEF CancelCall, IInv, TaskInv, Holds, PayoutStatus
    <2> QED
      BY <1>2, <2>1, ChangeReaches DEF CancelCall
  <1>3. ASSUME NEW t \in Task, Insert(t) \/ Save(t), ~UNCHANGED row
        PROVE  Mirror!Next
    <2>1. /\ task[t].p \in Payout /\ task[t].status \in made[task[t].p].had
          /\ row' = [row EXCEPT ![task[t].p] = task[t].status] /\ UNCHANGED made
      BY <1>3 DEF Insert, Save, IInv, TaskInv, Holds
    <2> QED
      BY <2>1, Shows
  <1>4. ASSUME NEW p \in Payout, SyncFromStripePayout(p)
        PROVE  Mirror!Next
    BY <1>4, Shows DEF SyncFromStripePayout
  <1>5. CASE Stripe
    BY <1>5, ChangeReaches DEF Stripe
  <1>6. ASSUME NEW t \in Task, Continue(t)
        PROVE  Mirror!Next \/ UNCHANGED <<made, row>>
    BY <1>1, <1>2, <1>3, <1>6
       DEF Continue, CreateCall, CreateRefused, Insert, CancelCall, Save
  <1>7. UNCHANGED <<made, row>> => UNCHANGED <<HadMap, row>>
    BY DEF HadMap
  <1> QED
    BY <1>4, <1>5, <1>6, <1>7 DEF Next, vars, Create, Cancel, Abort

\* However late and in whatever order answers, replayed answers and events are saved, a
\* payout's row says what the payout is or was at Stripe and is never lost: the service
\* implements StatusMirror.
THEOREM Refinement == Spec => Implements
  <1>1. Init => Mirror!Init
    BY DEF Init, NotMade, Mirror!Init
  <1>2. IInv /\ [Next]_vars => [Mirror!Next]_<<HadMap, row>>
    BY MirrorStep
  <1> QED
    BY <1>1, <1>2, Invariance, PTL DEF Spec, Implements, Mirror!Spec, HadMap
=============================================================================
