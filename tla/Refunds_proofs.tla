---------------------------- MODULE Refunds_proofs ----------------------------
(***************************************************************************)
(* That the row of a refund only ever says what the refund is or was at    *)
(* Stripe, and what the total is the sum of, for any number of refunds,    *)
(* requests and events.  The properties speak of the rows; the invariants  *)
(* also of the statuses and totals tasks hold in memory, which a save      *)
(* makes rows.                                                             *)
(*                                                                         *)
(* Then that the reports add such totals up right, for any number of       *)
(* payments, months and currencies.  Both rest on what is proved here      *)
(* about sums over finite sets.                                            *)
(***************************************************************************)
EXTENDS Refunds, Reports, FiniteSetTheorems, TLAPS

IsMade(m) == /\ m = [status |-> m.status, had |-> m.had, amount |-> m.amount]
             /\ m.had \subseteq RefundStatus
             /\ m.status = "none" => m.had = {}

IsTask(x) == {"pc", "r", "status", "total", "loaded"} \subseteq DOMAIN x

\* What a task may hold while the refunds at Stripe are m.
Holds(x, m) == /\ x.pc = "cancel" => x.r \in Refund
               /\ x.pc \in {"insert", "save"} => x.r \in Refund /\ x.status \in m[x.r].had

MadeInv == /\ made = [r \in Refund |-> made[r]]
           /\ \A r \in Refund : IsMade(made[r])

RowInv == /\ row = [r \in Refund |-> row[r]]
          /\ \A r \in Refund : row[r] = "none" \/ row[r] \in made[r].had

TaskInv == /\ task = [t \in Task |-> task[t]]
           /\ \A t \in Task : IsTask(task[t]) /\ Holds(task[t], made)

IInv == MadeInv /\ RowInv /\ TaskInv

-----------------------------------------------------------------------------
(* Steps leave made alone or let a refund have one more status.            *)

Grows == \A r \in Refund : made[r].had \subseteq made'[r].had

LEMMA StillHolds ==
    ASSUME NEW x, Holds(x, made), Grows PROVE Holds(x, made')
  BY DEF Holds, Grows

LEMMA RowStays ==
    ASSUME RowInv, Grows, UNCHANGED row PROVE RowInv'
  BY DEF RowInv, Grows

\* A task that has become x holds what x may.
LEMMA TaskBecomes ==
    ASSUME TaskInv, Grows, NEW t \in Task, NEW x,
           task' = [task EXCEPT ![t] = x], IsTask(x), Holds(x, made')
    PROVE  TaskInv'
  <1>1. /\ task' = [u \in Task |-> task'[u]]
        /\ task'[t] = x
        /\ \A u \in Task \ {t} : task'[u] = task[u]
    BY DEF TaskInv
  <1>2. ASSUME NEW u \in Task PROVE IsTask(task'[u]) /\ Holds(task'[u], made')
    <2>1. CASE u = t
      BY <1>1, <2>1
    <2>2. CASE u # t
      <3>1. task'[u] = task[u] /\ IsTask(task[u]) /\ Holds(task[u], made)
        BY <1>1, <2>2 DEF TaskInv
      <3> QED
        BY <3>1, StillHolds
    <2> QED
      BY <2>1, <2>2
  <1> QED
    BY <1>1, <1>2 DEF TaskInv

\* A change of a refund at Stripe.
LEMMA ChangeOK ==
    ASSUME MadeInv, NEW r \in Refund, NEW s \in RefundStatus, Change(r, s)
    PROVE  MadeInv' /\ Grows /\ s \in made'[r].had
  <1> DEFINE m == made[r]
  <1>1. IsMade(m)
    BY DEF MadeInv
  <1>2. /\ made' = [q \in Refund |-> made'[q]]
        /\ made'[r] = [m EXCEPT !.status = s, !.had = @ \cup {s}]
        /\ \A q \in Refund \ {r} : made'[q] = made[q]
    BY DEF Change, MadeInv
  <1>3. made'[r] = [status |-> s, had |-> m.had \cup {s}, amount |-> m.amount]
    BY <1>1, <1>2 DEF IsMade
  <1>4. s # "none" /\ m.had \subseteq RefundStatus
    BY <1>1 DEF RefundStatus, IsMade
  <1>5. IsMade(made'[r])
    BY <1>3, <1>4 DEF IsMade
  <1>6. MadeInv'
    BY <1>2, <1>5 DEF MadeInv
  <1>7. Grows
    BY <1>2, <1>3 DEF Grows
  <1> QED
    BY <1>3, <1>6, <1>7

LEMMA CreateRefundOK ==
    ASSUME MadeInv, NEW r \in Refund, NEW s \in After["none"],
           NEW amount, CreateRefund(r, amount, s)
    PROVE  MadeInv' /\ Grows /\ s \in made'[r].had
  <1>1. s \in RefundStatus /\ s # "none"
    BY DEF After, RefundStatus
  <1>2. /\ made' = [q \in Refund |-> made'[q]]
        /\ made'[r] = [status |-> s, had |-> {s}, amount |-> amount]
        /\ \A q \in Refund \ {r} : made'[q] = made[q]
    BY DEF CreateRefund, MadeInv
  <1>3. IsMade(made'[r])
    BY <1>1, <1>2 DEF IsMade
  <1>4. MadeInv'
    BY <1>2, <1>3 DEF MadeInv
  <1>5. made[r].had = {}
    BY DEF CreateRefund, MadeInv, IsMade
  <1>6. Grows
    BY <1>2, <1>5 DEF Grows
  <1> QED
    BY <1>2, <1>4, <1>6

-----------------------------------------------------------------------------
(* One lemma for each way a step goes.                                     *)

\* Only task t changes, and it becomes x.
LEMMA OnlyTask ==
    ASSUME IInv, NEW t \in Task, NEW x, task' = [task EXCEPT ![t] = x],
           UNCHANGED <<made, row>>, IsTask(x), Holds(x, made)
    PROVE  IInv'
  <1>1. Grows /\ Holds(x, made')
    BY DEF Grows
  <1> QED
    BY <1>1, TaskBecomes DEF IInv, MadeInv, RowInv

LEMMA OnlyIdle ==
    ASSUME IInv, NEW t \in Task, task' = [task EXCEPT ![t] = Idle],
           UNCHANGED <<made, row>>
    PROVE  IInv'
  <1>1. IsTask(Idle) /\ Holds(Idle, made)
    BY DEF IsTask, Idle, Holds
  <1> QED
    BY <1>1, OnlyTask

\* A task saves the row of the refund it holds and goes on to the total.
LEMMA SavesRow ==
    ASSUME IInv, NEW t \in Task, task[t].pc \in {"insert", "save"},
           row' = [row EXCEPT ![task[t].r] = task[t].status], UNCHANGED made,
           Goto(t, [Idle EXCEPT !.pc = "recalc"])
    PROVE  IInv'
  <1> DEFINE x == [Idle EXCEPT !.pc = "recalc"]
  <1>1. task[t].r \in Refund /\ task[t].status \in made[task[t].r].had
    BY DEF IInv, TaskInv, Holds
  <1>2. RowInv'
    BY <1>1 DEF IInv, RowInv
  <1>3. Grows
    BY DEF Grows
  <1>4. IsTask(x) /\ Holds(x, made')
    BY DEF IsTask, Idle, Holds
  <1>5. TaskInv'
    BY <1>3, <1>4, TaskBecomes DEF IInv, Goto
  <1> QED
    BY <1>2, <1>5 DEF IInv, MadeInv

-----------------------------------------------------------------------------
(* The actions.                                                            *)

LEMMA CreateOK ==
    ASSUME IInv, NEW t \in Task, Create(t) PROVE IInv'
  <1>1. PICK amount \in 1 .. Received - refunded :
          Start(t, [Idle EXCEPT !.pc = "call", !.amount = amount])
    BY DEF Create
  <1> DEFINE x == [Idle EXCEPT !.pc = "call", !.amount = amount]
  <1>2. IsTask(x) /\ Holds(x, made)
    BY DEF IsTask, Idle, Holds
  <1>3. task' = [task EXCEPT ![t] = x] /\ UNCHANGED <<made, row>>
    BY <1>1 DEF Create, Start
  <1> QED
    BY <1>2, <1>3, OnlyTask

LEMMA CreateCallOK ==
    ASSUME IInv, NEW t \in Task, CreateCall(t) PROVE IInv'
  <1>1. PICK r \in Refund, s \in After["none"] :
          /\ CreateRefund(r, task[t].amount, s)
          /\ Goto(t, [task[t] EXCEPT !.pc = "insert", !.r = r, !.status = s, !.amount = 0])
    BY DEF CreateCall
  <1> DEFINE x == [task[t] EXCEPT !.pc = "insert", !.r = r, !.status = s, !.amount = 0]
  <1>2. MadeInv' /\ Grows /\ s \in made'[r].had
    BY <1>1, CreateRefundOK DEF IInv
  <1>3. IsTask(x) /\ x.pc = "insert" /\ x.r = r /\ x.status = s
    BY DEF IInv, TaskInv, IsTask
  <1>4. IsTask(x) /\ Holds(x, made')
    BY <1>2, <1>3 DEF Holds
  <1>5. TaskInv'
    BY <1>1, <1>2, <1>4, TaskBecomes DEF IInv, Goto
  <1>6. RowInv'
    BY <1>2, RowStays DEF IInv, CreateCall
  <1> QED
    BY <1>2, <1>5, <1>6 DEF IInv

LEMMA CancelOK ==
    ASSUME IInv, NEW t \in Task, NEW r \in Refund, Cancel(t, r) PROVE IInv'
  <1> DEFINE x == [Idle EXCEPT !.pc = "cancel", !.r = r]
  <1>1. IsTask(x) /\ Holds(x, made)
    BY DEF IsTask, Idle, Holds
  <1>2. task' = [task EXCEPT ![t] = x] /\ UNCHANGED <<made, row>>
    BY DEF Cancel, Start
  <1> QED
    BY <1>1, <1>2, OnlyTask

LEMMA CancelCallOK ==
    ASSUME IInv, NEW t \in Task, CancelCall(t) PROVE IInv'
  <1> DEFINE x == [task[t] EXCEPT !.pc = "save", !.status = "canceled"]
  <1>1. task[t].r \in Refund
    BY DEF IInv, TaskInv, Holds, CancelCall
  <1>2. MadeInv' /\ Grows /\ "canceled" \in made'[task[t].r].had
    BY <1>1, ChangeOK DEF IInv, CancelCall, RefundStatus
  <1>3. IsTask(x) /\ x.pc = "save" /\ x.r = task[t].r /\ x.status = "canceled"
    BY DEF IInv, TaskInv, IsTask
  <1>4. IsTask(x) /\ Holds(x, made')
    BY <1>1, <1>2, <1>3 DEF Holds
  <1>5. TaskInv'
    BY <1>2, <1>4, TaskBecomes DEF IInv, CancelCall, Goto
  <1>6. RowInv'
    BY <1>2, RowStays DEF IInv, CancelCall
  <1> QED
    BY <1>2, <1>5, <1>6 DEF IInv

LEMMA SyncFromStripeRefundOK ==
    ASSUME IInv, NEW t \in Task, NEW r \in Refund, SyncFromStripeRefund(t, r) PROVE IInv'
  <1>1. PICK s \in made[r].had : Start(t, [Idle EXCEPT !.pc = "save", !.r = r, !.status = s])
    BY DEF SyncFromStripeRefund
  <1> DEFINE x == [Idle EXCEPT !.pc = "save", !.r = r, !.status = s]
  <1>2. IsTask(x) /\ Holds(x, made)
    BY DEF IsTask, Idle, Holds
  <1>3. task' = [task EXCEPT ![t] = x] /\ UNCHANGED <<made, row>>
    BY <1>1 DEF SyncFromStripeRefund, Start
  <1> QED
    BY <1>2, <1>3, OnlyTask

LEMMA RecalculateRefundedOK ==
    ASSUME IInv, NEW t \in Task, RecalculateRefunded(t) PROVE IInv'
  <1> DEFINE x == [task[t] EXCEPT !.pc = "total", !.total = Recalculated, !.loaded = Recorded]
  <1>1. IsTask(x) /\ x.pc = "total"
    BY DEF IInv, TaskInv, IsTask
  <1>2. IsTask(x) /\ Holds(x, made)
    BY <1>1 DEF Holds
  <1>3. task' = [task EXCEPT ![t] = x] /\ UNCHANGED <<made, row>>
    BY DEF RecalculateRefunded, Goto
  <1> QED
    BY <1>2, <1>3, OnlyTask

LEMMA PaymentReadOK ==
    ASSUME IInv, NEW t \in Task, PaymentRead(t) PROVE IInv'
  <1>1. PICK loaded \in {Refund, Recorded} :
          Start(t, [Idle EXCEPT !.pc = "total", !.total = refunded, !.loaded = loaded])
    BY DEF PaymentRead
  <1> DEFINE x == [Idle EXCEPT !.pc = "total", !.total = refunded, !.loaded = loaded]
  <1>2. IsTask(x) /\ Holds(x, made)
    BY DEF IsTask, Idle, Holds
  <1>3. task' = [task EXCEPT ![t] = x] /\ UNCHANGED <<made, row>>
    BY <1>1 DEF PaymentRead, Start
  <1> QED
    BY <1>2, <1>3, OnlyTask

LEMMA StripeOK == ASSUME IInv, Stripe PROVE IInv'
  <1>1. PICK r \in Refund, s \in RefundStatus : Change(r, s)
    BY DEF Stripe
  <1>2. MadeInv' /\ Grows
    BY <1>1, ChangeOK DEF IInv
  <1>3. UNCHANGED <<row, task>>
    BY DEF Stripe
  <1>4. RowInv'
    BY <1>2, <1>3, RowStays DEF IInv
  <1>5. \A t \in Task : Holds(task[t], made')
    BY <1>2, StillHolds DEF IInv, TaskInv
  <1>6. TaskInv'
    BY <1>3, <1>5 DEF IInv, TaskInv
  <1> QED
    BY <1>2, <1>4, <1>6 DEF IInv

-----------------------------------------------------------------------------

LEMMA InitOK == ASSUME Init PROVE IInv
  <1>1. IsMade(NotMade)
    BY DEF IsMade, NotMade
  <1>2. IsTask(Idle) /\ Holds(Idle, made)
    BY DEF IsTask, Idle, Holds
  <1>3. MadeInv
    BY <1>1 DEF Init, MadeInv
  <1>4. RowInv
    BY DEF Init, RowInv
  <1>5. TaskInv
    BY <1>2 DEF Init, TaskInv
  <1> QED
    BY <1>3, <1>4, <1>5 DEF IInv

LEMMA ContinueOK ==
    ASSUME IInv, NEW t \in Task, Continue(t) PROVE IInv'
  <1>1. CASE CreateCall(t)
    BY <1>1, CreateCallOK
  <1>2. CASE CancelCall(t)
    BY <1>2, CancelCallOK
  <1>3. CASE RecalculateRefunded(t)
    BY <1>3, RecalculateRefundedOK
  <1>4. CASE Insert(t)
    BY <1>4, SavesRow DEF Insert
  <1>5. CASE Save(t)
    BY <1>5, SavesRow DEF Save
  <1>6. CASE CreateRefused(t) \/ CancelRefused(t) \/ SavePayment(t)
    <2>1. task' = [task EXCEPT ![t] = Idle] /\ UNCHANGED <<made, row>>
      BY <1>6 DEF CreateRefused, CancelRefused, SavePayment, Finish, Goto
    <2> QED
      BY <2>1, OnlyIdle
  <1> QED
    BY <1>1, <1>2, <1>3, <1>4, <1>5, <1>6 DEF Continue

LEMMA NextOK == ASSUME IInv, [Next]_vars PROVE IInv'
  <1>1. CASE UNCHANGED vars
    BY <1>1 DEF vars, IInv, MadeInv, RowInv, TaskInv
  <1>2. CASE Stripe
    BY <1>2, StripeOK
  <1>3. ASSUME NEW t \in Task, Abort(t) PROVE IInv'
    <2>1. task' = [task EXCEPT ![t] = Idle] /\ UNCHANGED <<made, row>>
      BY <1>3 DEF Abort
    <2> QED
      BY <2>1, OnlyIdle
  <1>4. ASSUME NEW t \in Task, NEW r \in Refund, Cancel(t, r) \/ SyncFromStripeRefund(t, r)
        PROVE  IInv'
    BY <1>4, CancelOK, SyncFromStripeRefundOK
  <1> QED
    BY <1>1, <1>2, <1>3, <1>4, CreateOK, PaymentReadOK, ContinueOK DEF Next

\* The rows, and the statuses tasks hold, stay among those the refunds have had.
THEOREM Invariance == Spec => []IInv
  <1> QED
    BY InitOK, NextOK, PTL DEF Spec

-----------------------------------------------------------------------------
(* What a step does to the rows, and what it leaves of the refunds made.   *)

RecordedStay == \A r \in Refund : row[r] # "none" => row'[r] # "none"

AmountsStay == \A r \in Refund : made[r].status # "none" => made'[r].amount = made[r].amount

\* A row changes only in the step that saves it.
LEMMA RowSteps ==
    ASSUME IInv, [Next]_vars
    PROVE  \/ UNCHANGED row
           \/ \E r \in Refund : \E s \in made[r].had : /\ row' = [row EXCEPT ![r] = s]
                                                       /\ UNCHANGED made
  <1>1. ASSUME NEW t \in Task, Insert(t) \/ Save(t)
        PROVE  \E r \in Refund : \E s \in made[r].had : /\ row' = [row EXCEPT ![r] = s]
                                                        /\ UNCHANGED made
    <2>1. task[t].r \in Refund /\ task[t].status \in made[task[t].r].had
      BY <1>1 DEF Insert, Save, IInv, TaskInv, Holds
    <2> QED
      BY <1>1, <2>1 DEF Insert, Save
  <1>2. ASSUME NEW t \in Task, Continue(t), ~Insert(t), ~Save(t)
        PROVE  UNCHANGED row
    BY <1>2 DEF Continue, CreateCall, CreateRefused, CancelCall, CancelRefused,
                RecalculateRefunded, SavePayment
  <1> QED
    BY <1>1, <1>2 DEF Next, vars, Stripe, Create, Cancel, SyncFromStripeRefund, PaymentRead, Abort

LEMMA HadIsStatus ==
    ASSUME IInv, NEW r \in Refund, NEW s \in made[r].had
    PROVE  s \in RefundStatus /\ s # "none" /\ made[r].status # "none"
  BY DEF IInv, MadeInv, IsMade, RefundStatus

LEMMA RecordedIsMade ==
    ASSUME IInv, NEW r \in Recorded PROVE made[r].status # "none"
  BY HadIsStatus DEF IInv, RowInv, Recorded

LEMMA RecordedOnly ==
    ASSUME IInv, [Next]_vars PROVE RecordedStay /\ Recorded \subseteq Recorded'
  <1>1. RecordedStay
    BY RowSteps, HadIsStatus DEF RecordedStay, IInv, RowInv
  <1> QED
    BY <1>1 DEF RecordedStay, Recorded

LEMMA ChangeKeeps ==
    ASSUME IInv, NEW r \in Refund, NEW s, Change(r, s) PROVE AmountsStay
  <1> DEFINE m == made[r]
  <1>1. m = [status |-> m.status, had |-> m.had, amount |-> m.amount]
    BY DEF IInv, MadeInv, IsMade
  <1>2. /\ made'[r] = [m EXCEPT !.status = s, !.had = @ \cup {s}]
        /\ \A q \in Refund \ {r} : made'[q] = made[q]
    BY DEF Change, IInv, MadeInv
  <1>3. made'[r] = [status |-> s, had |-> m.had \cup {s}, amount |-> m.amount]
    BY <1>1, <1>2
  <1> QED
    BY <1>2, <1>3 DEF AmountsStay

LEMMA AmountsOnly ==
    ASSUME IInv, [Next]_vars PROVE AmountsStay
  <1>1. CASE Stripe
    BY <1>1, ChangeKeeps DEF Stripe
  <1>2. ASSUME NEW t \in Task, CreateCall(t)
        PROVE  AmountsStay
    <2>1. PICK r \in Refund, s \in After["none"] : CreateRefund(r, task[t].amount, s)
      BY <1>2 DEF CreateCall
    <2> QED
      BY <2>1 DEF CreateRefund, AmountsStay, IInv, MadeInv
  <1>3. ASSUME NEW t \in Task, CancelCall(t)
        PROVE  AmountsStay
    <2>1. task[t].r \in Refund /\ Change(task[t].r, "canceled")
      BY <1>3 DEF CancelCall, IInv, TaskInv, Holds
    <2> QED
      BY <2>1, ChangeKeeps
  <1>4. ASSUME NEW t \in Task, Continue(t), ~CreateCall(t), ~CancelCall(t)
        PROVE  UNCHANGED made
    BY <1>4 DEF Continue, CreateRefused, Insert, CancelRefused, Save, RecalculateRefunded,
                SavePayment
  <1>5. ASSUME UNCHANGED made PROVE AmountsStay
    BY <1>5 DEF AmountsStay
  <1> QED
    BY <1>1, <1>2, <1>3, <1>4, <1>5
       DEF Next, vars, Create, Cancel, SyncFromStripeRefund, PaymentRead, Abort

\* The sum over refunds that were made does not change any more.
LEMMA SumStays ==
    ASSUME AmountsStay, NEW S, S \subseteq Refund, \A r \in S : made[r].status # "none"
    PROVE  TotalOf(S)' = TotalOf(S)
  <1>1. [r \in S |-> made'[r].amount] = [r \in S |-> made[r].amount]
    BY DEF AmountsStay
  <1> QED
    BY <1>1 DEF TotalOf

\* The sum over no refunds, by the definition of a sum over a function.
LEMMA EmptySum == TotalOf({}) = 0
  <1> DEFINE f == [r \in {} |-> made[r].amount]
  <1> DEFINE Sums(g) == g = [s \in SUBSET {} |->
                IF s = {} THEN 0
                ELSE LET x == CHOOSE y \in s : TRUE IN f[x] + g[s \ {x}]]
  <1> DEFINE sum == CHOOSE g : Sums(g)
  <1>1. Sums([s \in SUBSET {} |-> 0])
    OBVIOUS
  <1>2. Sums(sum)
    BY <1>1
  <1>3. sum[{}] = 0
    BY <1>2
  <1>4. SumFunction(f) = sum[{}]
    BY DEF SumFunction, SumFunctionOnSet, FoldFunctionOnSet, MapThenFoldSet
  <1> QED
    BY <1>3, <1>4 DEF TotalOf

-----------------------------------------------------------------------------
(* The refinement of StatusMirror.                                         *)

HadMap == [r \in Refund |-> made[r].had]

LEMMA Reaches ==
    ASSUME IInv, NEW r \in Refund, NEW s \in RefundStatus, UNCHANGED row,
           made'[r].had = made[r].had \cup {s},
           \A q \in Refund \ {r} : made'[q] = made[q]
    PROVE  Mirror!Next
  <1>1. HadMap' = [HadMap EXCEPT ![r] = @ \cup {s}]
    BY DEF HadMap
  <1>2. Mirror!Reach(r, s)
    BY <1>1 DEF Mirror!Reach, HadMap
  <1> QED
    BY <1>2 DEF Mirror!Next

LEMMA MirrorStep ==
    ASSUME IInv, [Next]_vars PROVE [Mirror!Next]_<<HadMap, row>>
  <1>1. CASE \E r \in Refund : \E s \in made[r].had : /\ row' = [row EXCEPT ![r] = s]
                                                      /\ UNCHANGED made
    <2>0. PICK r \in Refund : \E s \in made[r].had : /\ row' = [row EXCEPT ![r] = s]
                                                     /\ UNCHANGED made
      BY <1>1
    <2>1. PICK s \in made[r].had : row' = [row EXCEPT ![r] = s] /\ UNCHANGED made
      BY <2>0
    <2>2. Mirror!Show(r, s)
      BY <2>1 DEF Mirror!Show
    <2> QED
      BY <2>2, HadIsStatus DEF Mirror!Next
  <1>2. ASSUME UNCHANGED row, NEW r \in Refund, NEW s, s \in RefundStatus, Change(r, s)
        PROVE  Mirror!Next
    <2> DEFINE m == made[r]
    <2>1. m = [status |-> m.status, had |-> m.had, amount |-> m.amount]
      BY DEF IInv, MadeInv, IsMade
    <2>2. /\ made'[r] = [m EXCEPT !.status = s, !.had = @ \cup {s}]
          /\ \A q \in Refund \ {r} : made'[q] = made[q]
      BY <1>2 DEF Change, IInv, MadeInv
    <2>3. made'[r].had = m.had \cup {s}
      BY <2>1, <2>2
    <2> QED
      BY <1>2, <2>2, <2>3, Reaches
  <1>3. ASSUME UNCHANGED row, NEW t \in Task, CreateCall(t)
        PROVE  Mirror!Next
    <2>1. PICK r \in Refund, s \in After["none"] : CreateRefund(r, task[t].amount, s)
      BY <1>3 DEF CreateCall
    <2>2. /\ made'[r] = [status |-> s, had |-> {s}, amount |-> task[t].amount]
          /\ \A q \in Refund \ {r} : made'[q] = made[q]
          /\ made[r].had = {}
      BY <2>1 DEF CreateRefund, IInv, MadeInv, IsMade
    <2>3. s \in RefundStatus /\ made'[r].had = made[r].had \cup {s}
      BY <2>2 DEF After, RefundStatus
    <2> QED
      BY <1>3, <2>2, <2>3, Reaches
  <1>4. ASSUME UNCHANGED row, NEW t \in Task, CancelCall(t)
        PROVE  Mirror!Next
    <2>1. task[t].r \in Refund /\ Change(task[t].r, "canceled") /\ "canceled" \in RefundStatus
      BY <1>4 DEF CancelCall, IInv, TaskInv, Holds, RefundStatus
    <2> QED
      BY <1>4, <2>1, <1>2
  <1>5. ASSUME UNCHANGED row, NEW t \in Task, Continue(t), ~CreateCall(t), ~CancelCall(t)
        PROVE  UNCHANGED made
    BY <1>5 DEF Continue, CreateRefused, Insert, CancelRefused, Save, RecalculateRefunded,
                SavePayment
  <1>6. CASE UNCHANGED row /\ Stripe
    BY <1>6, <1>2 DEF Stripe
  <1>7. CASE UNCHANGED <<row, made>>
    BY <1>7 DEF HadMap
  <1> QED
    BY <1>1, <1>3, <1>4, <1>5, <1>6, <1>7, RowSteps
       DEF Next, vars, Create, Cancel, SyncFromStripeRefund, PaymentRead, Abort

\* However late and in whatever order answers and events are saved, a refund's row
\* says what the refund is or was at Stripe, and is never lost: a change at Stripe and a
\* save are steps of StatusMirror, every other step is none.
THEOREM Refinement == Spec => Implements
  <1>1. Init => Mirror!Init
    BY DEF Init, NotMade, Mirror!Init
  <1>2. IInv /\ [Next]_vars => [Mirror!Next]_<<HadMap, row>>
    BY MirrorStep
  <1> QED
    BY <1>1, <1>2, Invariance, PTL DEF Spec, Implements, Mirror!Spec, HadMap

-----------------------------------------------------------------------------
(* The total.                                                              *)

OfRefunds(x) == \E S \in SUBSET Recorded : x = TotalOf(S)

\* The total in the row, and those in memory on their way there, are sums of recorded
\* refunds.
TotalInv == /\ OfRefunds(refunded)
            /\ \A t \in Task : task[t].pc = "total" => OfRefunds(task[t].total)

LEMMA OfRefundsStays ==
    ASSUME IInv, [Next]_vars, NEW x, OfRefunds(x)
    PROVE  \E S \in SUBSET Recorded' : x = TotalOf(S)'
  <1>1. PICK S \in SUBSET Recorded : x = TotalOf(S)
    BY DEF OfRefunds
  <1>2. TotalOf(S)' = TotalOf(S)
    BY SumStays, AmountsOnly, RecordedIsMade DEF Recorded
  <1> QED
    BY <1>1, <1>2, RecordedOnly

\* Taken in turn: one task at a time; the total it holds is the one its refunds add up
\* to; and so is the row's unless it is about to recompute or save it.
Alone == \A t, u \in Task : task[t].pc # "idle" /\ task[u].pc # "idle" => t = u

HoldsSum == \A t \in Task : task[t].pc = "total" =>
                task[t].total = Recalculated /\ Recorded \subseteq task[t].loaded

RowAgrees == (\A t \in Task : task[t].pc \notin {"recalc", "total"}) => refunded = Recalculated

InTurn == ~disturbed => Alone /\ HoldsSum /\ RowAgrees

SumInv == TotalInv /\ InTurn

LEMMA SumUnlessSaved ==
    ASSUME IInv, [Next]_vars, UNCHANGED row PROVE Recalculated' = Recalculated
  <1> DEFINE S == {r \in Refund : Counts(row[r])}
  <1>1. S' = S
    OBVIOUS
  <1>2. S \subseteq Recorded
    BY DEF Counts, Recorded
  <1>3. TotalOf(S)' = TotalOf(S)
    <2>1. S \subseteq Refund /\ \A r \in S : made[r].status # "none"
      BY <1>2, RecordedIsMade DEF Recorded
    <2> QED
      BY <1>1, <2>1, SumStays, AmountsOnly
  <1> QED
    BY <1>1, <1>3 DEF Recalculated

LEMMA RecalculatedIsOfRefunds == OfRefunds(Recalculated)
  BY DEF OfRefunds, Recalculated, Recorded, Counts

\* A task becomes x; unless it saves the payment the row's total stays, and what x holds
\* is a sum of recorded refunds if the payment was read.
LEMMA TotalStep ==
    ASSUME IInv, TotalInv, [Next]_vars, NEW t \in Task, NEW x,
           task' = [task EXCEPT ![t] = x],
           x.pc = "total" => x.total \in {Recalculated, refunded},
           refunded' = refunded \/ (task[t].pc = "total" /\ refunded' = task[t].total)
    PROVE  TotalInv'
  <1>1. /\ task'[t] = x
        /\ \A u \in Task \ {t} : task'[u] = task[u]
    BY DEF IInv, TaskInv
  <1>2. OfRefunds(refunded')
    BY DEF TotalInv
  <1>3. OfRefunds(refunded)'
    BY <1>2, OfRefundsStays DEF OfRefunds
  <1>4. ASSUME NEW u \in Task, task'[u].pc = "total" PROVE OfRefunds(task'[u].total)
    <2>1. CASE u = t
      BY <1>1, <1>4, <2>1, RecalculatedIsOfRefunds DEF TotalInv
    <2>2. CASE u # t
      BY <1>1, <1>4, <2>2 DEF TotalInv
    <2> QED
      BY <2>1, <2>2
  <1>5. ASSUME NEW u \in Task, task'[u].pc = "total" PROVE OfRefunds(task[u].total)'
    BY <1>4, <1>5, OfRefundsStays DEF OfRefunds
  <1> QED
    BY <1>3, <1>5 DEF TotalInv

\* The task alone moves on: the one way in which each of its steps keeps InTurn.
LEMMA TurnStep ==
    ASSUME IInv, InTurn, NEW t \in Task, NEW x,
           task' = [task EXCEPT ![t] = x], UNCHANGED disturbed, task[t].pc # "idle",
           Alone /\ ~disturbed =>
               /\ x.pc = "total" => x.total = Recalculated' /\ Recorded' \subseteq x.loaded
               /\ x.pc \notin {"recalc", "total"} => refunded' = Recalculated'
    PROVE  InTurn'
  <1> SUFFICES ASSUME ~disturbed PROVE (Alone /\ HoldsSum /\ RowAgrees)'
    BY DEF InTurn
  <1>1. /\ task'[t] = x
        /\ \A u \in Task \ {t} : task'[u] = task[u] /\ task[u].pc = "idle"
    BY DEF IInv, TaskInv, InTurn, Alone
  <1>2. Alone'
    BY <1>1 DEF Alone
  <1>3. HoldsSum'
    BY <1>1 DEF HoldsSum, InTurn
  <1>4. RowAgrees'
    BY <1>1 DEF RowAgrees, InTurn
  <1> QED
    BY <1>2, <1>3, <1>4

\* A task begins.
LEMMA TurnStart ==
    ASSUME IInv, InTurn, [Next]_vars, NEW t \in Task, NEW x, Start(t, x),
           UNCHANGED <<row, refunded>>,
           x.pc # "recalc",
           x.pc = "total" => x.total = refunded /\ Recorded \subseteq x.loaded
    PROVE  InTurn'
  <1> SUFFICES ASSUME ~disturbed' PROVE (Alone /\ HoldsSum /\ RowAgrees)'
    BY DEF InTurn
  <1>1. \A u \in Task : task[u].pc = "idle"
    BY DEF Start
  <1>2. ~disturbed
    BY <1>1 DEF Start
  <1>3. /\ task'[t] = x
        /\ \A u \in Task \ {t} : task'[u] = task[u]
    BY DEF Start, IInv, TaskInv
  <1>4. refunded' = Recalculated' /\ Recalculated' = refunded /\ Recorded' = Recorded
    <2>1. refunded = Recalculated
      BY <1>1, <1>2 DEF InTurn, RowAgrees
    <2> QED
      BY <2>1, SumUnlessSaved DEF Recorded
  <1>5. Alone' /\ HoldsSum' /\ RowAgrees'
    BY <1>1, <1>3, <1>4 DEF Alone, HoldsSum, RowAgrees
  <1> QED
    BY <1>5

-----------------------------------------------------------------------------
(* The actions again, for the total.                                       *)

LEMMA SumCreate ==
    ASSUME IInv, SumInv, [Next]_vars, NEW t \in Task, Create(t) PROVE SumInv'
  <1>1. PICK amount \in 1 .. Received - refunded :
          Start(t, [Idle EXCEPT !.pc = "call", !.amount = amount])
    BY DEF Create
  <1> DEFINE x == [Idle EXCEPT !.pc = "call", !.amount = amount]
  <1>2. x.pc = "call"
    BY DEF Idle
  <1>3. UNCHANGED <<row, refunded>>
    BY DEF Create
  <1> HIDE DEF x
  <1>4. TotalInv'
    BY <1>1, <1>2, <1>3, TotalStep DEF SumInv, Start, x
  <1>5. InTurn'
    BY <1>1, <1>2, <1>3, TurnStart DEF SumInv, x
  <1> QED
    BY <1>4, <1>5 DEF SumInv

LEMMA SumStart ==
    ASSUME IInv, SumInv, [Next]_vars, NEW t \in Task, NEW r \in Refund,
           Cancel(t, r) \/ SyncFromStripeRefund(t, r)
    PROVE  SumInv'
  <1>1. PICK x : Start(t, x) /\ x.pc \in {"cancel", "save"} /\ UNCHANGED <<row, refunded>>
    <2>1. CASE Cancel(t, r)
      <3>1. Start(t, [Idle EXCEPT !.pc = "cancel", !.r = r])
            /\ [Idle EXCEPT !.pc = "cancel", !.r = r].pc = "cancel"
        BY <2>1 DEF Cancel, Idle
      <3> QED
        BY <2>1, <3>1 DEF Cancel
    <2>2. CASE SyncFromStripeRefund(t, r)
      <3>1. PICK s \in made[r].had : Start(t, [Idle EXCEPT !.pc = "save", !.r = r, !.status = s])
        BY <2>2 DEF SyncFromStripeRefund
      <3>2. [Idle EXCEPT !.pc = "save", !.r = r, !.status = s].pc = "save"
        BY DEF Idle
      <3> QED
        BY <2>2, <3>1, <3>2 DEF SyncFromStripeRefund
    <2> QED
      BY <2>1, <2>2
  <1>2. TotalInv'
    BY <1>1, TotalStep DEF SumInv, Start
  <1>3. InTurn'
    BY <1>1, TurnStart DEF SumInv
  <1> QED
    BY <1>2, <1>3 DEF SumInv

LEMMA SumPaymentRead ==
    ASSUME IInv, SumInv, [Next]_vars, NEW t \in Task, PaymentRead(t) PROVE SumInv'
  <1>1. PICK loaded \in {Refund, Recorded} :
          Start(t, [Idle EXCEPT !.pc = "total", !.total = refunded, !.loaded = loaded])
    BY DEF PaymentRead
  <1> DEFINE x == [Idle EXCEPT !.pc = "total", !.total = refunded, !.loaded = loaded]
  <1>2. x.pc = "total" /\ x.total = refunded /\ x.loaded = loaded
    BY DEF Idle
  <1>3. UNCHANGED <<row, refunded>> /\ Recorded \subseteq loaded
    BY DEF PaymentRead, Recorded
  <1> HIDE DEF x
  <1>4. TotalInv'
    BY <1>1, <1>2, <1>3, TotalStep DEF SumInv, Start, x
  <1>5. InTurn'
    BY <1>1, <1>2, <1>3, TurnStart DEF SumInv, x
  <1> QED
    BY <1>4, <1>5 DEF SumInv

\* The step before the row is saved, or one that ends the task there.
LEMMA SumMiddle ==
    ASSUME IInv, SumInv, [Next]_vars, NEW t \in Task, NEW x, Goto(t, x),
           task[t].pc \in {"call", "cancel"}, x.pc \in {"insert", "save", "idle"},
           UNCHANGED <<row, refunded>>
    PROVE  SumInv'
  <1>1. TotalInv'
    BY TotalStep DEF SumInv, Goto
  <1>2. Alone /\ ~disturbed => refunded = Recalculated
    BY DEF SumInv, InTurn, Alone, RowAgrees
  <1>3. Recalculated' = Recalculated
    BY SumUnlessSaved
  <1>4. InTurn'
    BY <1>2, <1>3, TurnStep DEF SumInv, Goto
  <1> QED
    BY <1>1, <1>4 DEF SumInv

LEMMA SumContinue ==
    ASSUME IInv, SumInv, [Next]_vars, NEW t \in Task, Continue(t) PROVE SumInv'
  <1>0. IsTask(task[t])
    BY DEF IInv, TaskInv
  <1>1. CASE CreateCall(t)
    <2>1. PICK r \in Refund, s \in After["none"] :
            Goto(t, [task[t] EXCEPT !.pc = "insert", !.r = r, !.status = s, !.amount = 0])
      BY <1>1 DEF CreateCall
    <2> DEFINE x == [task[t] EXCEPT !.pc = "insert", !.r = r, !.status = s, !.amount = 0]
    <2>2. x.pc = "insert"
      BY <1>0 DEF IsTask
    <2> QED
      BY <1>1, <2>1, <2>2, SumMiddle DEF CreateCall
  <1>2. CASE CancelCall(t)
    <2> DEFINE x == [task[t] EXCEPT !.pc = "save", !.status = "canceled"]
    <2>1. x.pc = "save" /\ Goto(t, x)
      BY <1>0, <1>2 DEF IsTask, CancelCall
    <2> QED
      BY <1>2, <2>1, SumMiddle DEF CancelCall
  <1>3. CASE CreateRefused(t) \/ CancelRefused(t)
    <2>1. Idle.pc = "idle"
      BY DEF Idle
    <2> QED
      BY <1>3, <2>1, SumMiddle DEF CreateRefused, CancelRefused, Finish
  <1>4. CASE Insert(t) \/ Save(t)
    <2> DEFINE x == [Idle EXCEPT !.pc = "recalc"]
    <2>1. x.pc = "recalc"
      BY DEF Idle
    <2>2. /\ task' = [task EXCEPT ![t] = x] /\ UNCHANGED <<refunded, disturbed>>
          /\ task[t].pc \in {"insert", "save"}
      BY <1>4 DEF Insert, Save, Goto
    <2> HIDE DEF x
    <2>3. TotalInv'
      BY <2>1, <2>2, TotalStep DEF SumInv
    <2>4. InTurn'
      BY <2>1, <2>2, TurnStep DEF SumInv
    <2> QED
      BY <2>3, <2>4 DEF SumInv
  <1>5. CASE RecalculateRefunded(t)
    <2> DEFINE x == [task[t] EXCEPT !.pc = "total", !.total = Recalculated,
                                    !.loaded = Recorded]
    <2>1. /\ task' = [task EXCEPT ![t] = x]
          /\ UNCHANGED <<row, refunded, disturbed>> /\ task[t].pc = "recalc"
      BY <1>5 DEF RecalculateRefunded, Goto
    <2>2. x.pc = "total" /\ x.total = Recalculated /\ x.loaded = Recorded
      BY <1>0 DEF IsTask
    <2> HIDE DEF x
    <2>3. TotalInv'
      BY <2>1, <2>2, TotalStep DEF SumInv
    <2>4. Recalculated' = Recalculated /\ Recorded' = Recorded
      BY <2>1, SumUnlessSaved DEF Recorded
    <2>5. InTurn'
      BY <2>1, <2>2, <2>4, TurnStep DEF SumInv
    <2> QED
      BY <2>3, <2>5 DEF SumInv
  <1>6. CASE SavePayment(t)
    <2>1. /\ task' = [task EXCEPT ![t] = Idle] /\ Idle.pc = "idle"
          /\ UNCHANGED <<row, disturbed>> /\ task[t].pc = "total"
          /\ IF Recorded \subseteq task[t].loaded THEN refunded' = task[t].total
                                                  ELSE refunded' = refunded
      BY <1>6 DEF SavePayment, Finish, Goto, Idle
    <2>2. TotalInv'
      BY <2>1, TotalStep DEF SumInv
    <2>3. Recalculated' = Recalculated
      BY <2>1, SumUnlessSaved
    <2>4. Alone /\ ~disturbed => refunded' = Recalculated
      BY <2>1 DEF SumInv, InTurn, HoldsSum
    <2>5. InTurn'
      BY <2>1, <2>3, <2>4, TurnStep DEF SumInv
    <2> QED
      BY <2>2, <2>5 DEF SumInv
  <1> QED
    BY <1>1, <1>2, <1>3, <1>4, <1>5, <1>6 DEF Continue

\* The task, the total and what is recorded stay; so do the sums.
LEMMA SumUntouched ==
    ASSUME IInv, SumInv, [Next]_vars, UNCHANGED <<row, refunded, task, disturbed>>
    PROVE  SumInv'
  <1>1. Recalculated' = Recalculated /\ Recorded' = Recorded
    BY SumUnlessSaved DEF Recorded
  <1>2. InTurn'
    BY <1>1 DEF SumInv, InTurn, Alone, HoldsSum, RowAgrees
  <1>3. TotalInv'
    BY OfRefundsStays DEF SumInv, TotalInv, OfRefunds
  <1> QED
    BY <1>2, <1>3 DEF SumInv

LEMMA SumNext == ASSUME IInv, SumInv, [Next]_vars PROVE SumInv'
  <1>1. CASE Stripe \/ UNCHANGED vars
    BY <1>1, SumUntouched DEF Stripe, vars
  <1>2. ASSUME NEW t \in Task, Abort(t) PROVE SumInv'
    <2>1. task' = [task EXCEPT ![t] = Idle] /\ Idle.pc = "idle" /\ UNCHANGED refunded
          /\ disturbed'
      BY <1>2 DEF Abort, Idle
    <2> QED
      BY <2>1, TotalStep DEF SumInv, InTurn
  <1> QED
    BY <1>1, <1>2, SumCreate, SumStart, SumPaymentRead, SumContinue DEF Next

LEMMA SumInit == ASSUME Init PROVE SumInv
  <1>1. {r \in Refund : Counts(row[r])} = {} /\ \A t \in Task : task[t].pc = "idle"
    BY DEF Init, Counts, Idle
  <1>2. Recalculated = refunded
    BY <1>1, EmptySum DEF Init, Recalculated
  <1> QED
    BY <1>1, <1>2, RecalculatedIsOfRefunds
       DEF SumInv, TotalInv, InTurn, Alone, HoldsSum, RowAgrees

\* The total in the row and those in memory are sums of recorded refunds, and of all
\* that count as long as tasks take turns.
THEOREM SumInvariance == Spec => []SumInv
  BY SumInit, SumNext, Invariance, PTL DEF Spec

\* The total never counts a refund twice, nor one that is not on record, however
\* requests, events and stale saves overlap.
THEOREM TotalOfRecorded == Spec => []TotalIsOfRefunds
  <1>1. SumInv => TotalIsOfRefunds
    BY DEF SumInv, TotalInv, OfRefunds, TotalIsOfRefunds
  <1> QED
    BY <1>1, SumInvariance, PTL

\* Requests and events taken in turn leave the total their refunds add up to.
THEOREM RightInTurn == Spec => []AgreesInTurn
  <1>1. SumInv => AgreesInTurn
    BY DEF SumInv, InTurn, RowAgrees, AgreesInTurn, Quiet, Agrees, Recalculated, Counts
  <1> QED
    BY <1>1, SumInvariance, PTL

-----------------------------------------------------------------------------
(* Induction on numbers and on finite sets.  The library's theorems take a*)
(* predicate as parameter; these take the set of those a fact holds of.    *)

\* Induction on the natural numbers, for the set T of those a fact holds of.
LEMMA AllOfNat ==
    ASSUME NEW T, 0 \in T, \A k \in Nat : k \in T => k + 1 \in T
    PROVE  Nat \subseteq T
  <1>1. PICK Bad : Bad = {m \in Nat : m \notin T}
    OBVIOUS
  <1>2. SUFFICES ASSUME Bad # {} PROVE FALSE
    BY <1>1
  <1>3. PICK Q : Q = OpToRel(<, Nat)
    OBVIOUS
  <1>4. \A k \in Nat, m \in Nat : <<k, m>> \in Q <=> k < m
    BY <1>3 DEF OpToRel
  <1>5. IsWellFoundedOn(Q, Nat)
    BY <1>3, NatLessThanWellFounded
  <1>6. Bad \subseteq Nat
    BY <1>1
  <1>7. PICK m \in Bad : \A k \in Bad : ~(<<k, m>> \in Q)
    BY <1>2, <1>5, <1>6, WFMin
  <1>8. m \in Nat /\ m # 0 /\ \A k \in Bad : ~(k < m)
    BY <1>1, <1>4, <1>6, <1>7
  <1>9. PICK k \in Nat : k + 1 = m
    BY <1>8
  <1>10. k \in T
    BY <1>1, <1>8, <1>9
  <1> QED
    BY <1>1, <1>9, <1>10

\* Induction on the subsets of a finite set, for the set T of those a fact holds of.
LEMMA AllSubsets ==
    ASSUME NEW S, IsFiniteSet(S), NEW T,
           \A s \in SUBSET S : (\A x \in s : s \ {x} \in T) => s \in T
    PROVE  SUBSET S \subseteq T
  <1>1. PICK Bad : Bad = {s \in SUBSET S : s \notin T}
    OBVIOUS
  <1>2. SUFFICES ASSUME Bad # {} PROVE FALSE
    BY <1>1
  <1>3. PICK Q : Q = StrictSubsetOrdering(S)
    OBVIOUS
  <1>4. IsWellFoundedOn(Q, FiniteSubsetsOf(S))
    BY <1>3, FS_StrictSubsetOrderingWellFounded
  <1>5. Bad \subseteq FiniteSubsetsOf(S)
    BY <1>1, FS_Subset DEF FiniteSubsetsOf
  <1>6. PICK s \in Bad : \A r \in Bad : ~(<<r, s>> \in Q)
    BY <1>2, <1>4, <1>5, WFMin
  <1>7. ASSUME NEW x \in s PROVE s \ {x} \in T
    <2>1. s \ {x} \subseteq s /\ s \ {x} # s /\ s \in SUBSET S /\ s \ {x} \in SUBSET S
      BY <1>1, <1>7
    <2>2. <<s \ {x}, s>> \in Q
      BY <1>3, <2>1 DEF StrictSubsetOrdering
    <2> QED
      BY <1>1, <1>6, <2>1, <2>2
  <1> QED
    BY <1>1, <1>7

-----------------------------------------------------------------------------
(* Folds over the subsets of a finite set.  A fold starts from b; what it  *)
(* makes of a set s that is not empty, it makes of the member pick[s] and  *)
(* of what it made of the others.                                          *)

Small(S, n) == {s \in SUBSET S : Cardinality(s) <= n}

Picks(pick, S) == \A s \in SUBSET S : s # {} => pick[s] \in s

Steps(F, S, V) == F \in [SUBSET S -> [V -> V]]

FoldsAs(g, b, F, pick, s) == g[s] = IF s = {} THEN b ELSE F[s][g[s \ {pick[s]}]]

FoldsUpTo(g, b, F, pick, S, V, n) ==
    g \in [Small(S, n) -> V] /\ \A s \in Small(S, n) : FoldsAs(g, b, F, pick, s)

IsFold(g, b, F, pick, S, V) ==
    g \in [SUBSET S -> V] /\ \A s \in SUBSET S : FoldsAs(g, b, F, pick, s)

LEMMA SmallerRest ==
    ASSUME NEW S, IsFiniteSet(S), NEW n \in Nat, NEW s \in Small(S, n + 1), NEW x \in s
    PROVE  s \ {x} \in Small(S, n)
  <1>1. x \in s /\ s \subseteq S /\ Cardinality(s) <= n + 1
    BY DEF Small
  <1>2. IsFiniteSet(s)
    BY <1>1, FS_Subset
  <1>3. Cardinality(s) \in Nat /\ Cardinality(s \ {x}) = Cardinality(s) - 1
    BY <1>1, <1>2, FS_RemoveElement, FS_CardinalityType
  <1>4. Cardinality(s \ {x}) <= n
    BY <1>1, <1>3
  <1> QED
    BY <1>1, <1>4 DEF Small

LEMMA SmallGrows ==
    ASSUME NEW S, IsFiniteSet(S), NEW n \in Nat PROVE Small(S, n) \subseteq Small(S, n + 1)
  <1>1. \A s \in SUBSET S : Cardinality(s) \in Nat
    BY FS_Subset, FS_CardinalityType
  <1> QED
    BY <1>1 DEF Small

LEMMA SmallNone ==
    ASSUME NEW S, IsFiniteSet(S), NEW s \in Small(S, 0) PROVE s = {}
  <1>1. IsFiniteSet(s) /\ Cardinality(s) \in Nat /\ Cardinality(s) <= 0
    BY FS_Subset, FS_CardinalityType DEF Small
  <1>2. Cardinality(s) = 0
    BY <1>1
  <1> QED
    BY <1>1, <1>2, FS_EmptySet

LEMMA FoldOneMore ==
    ASSUME NEW S, IsFiniteSet(S), NEW V, NEW b \in V, NEW F, Steps(F, S, V),
           NEW pick, Picks(pick, S), NEW n \in Nat, NEW g, FoldsUpTo(g, b, F, pick, S, V, n)
    PROVE  \E h : FoldsUpTo(h, b, F, pick, S, V, n + 1)
  <1>1. PICK h : h = [s \in Small(S, n + 1) |-> IF s = {} THEN b ELSE F[s][g[s \ {pick[s]}]]]
    OBVIOUS
  <1>2. ASSUME NEW s \in Small(S, n + 1), s # {}
        PROVE  s \in SUBSET S /\ s \ {pick[s]} \in Small(S, n)
    BY <1>2, SmallerRest DEF Small, Picks
  <1>3. h \in [Small(S, n + 1) -> V]
    <2>1. ASSUME NEW s \in Small(S, n + 1), s # {} PROVE F[s][g[s \ {pick[s]}]] \in V
      <3>1. g[s \ {pick[s]}] \in V
        BY <1>2, <2>1 DEF FoldsUpTo
      <3> QED
        BY <1>2, <2>1, <3>1 DEF Steps
    <2> QED
      BY <1>1, <2>1
  <1>4. ASSUME NEW s \in Small(S, n) PROVE h[s] = g[s]
    BY <1>1, SmallGrows DEF FoldsUpTo, FoldsAs
  <1>5. ASSUME NEW s \in Small(S, n + 1) PROVE FoldsAs(h, b, F, pick, s)
    <2>1. CASE s = {}
      BY <1>1, <2>1 DEF FoldsAs
    <2>2. CASE s # {}
      <3>1. h[s \ {pick[s]}] = g[s \ {pick[s]}]
        BY <1>2, <1>4, <2>2
      <3>2. h[s] = F[s][g[s \ {pick[s]}]]
        BY <1>1, <2>2
      <3> QED
        BY <2>2, <3>1, <3>2 DEF FoldsAs
    <2> QED
      BY <2>1, <2>2
  <1> QED
    BY <1>3, <1>5 DEF FoldsUpTo

LEMMA FoldExists ==
    ASSUME NEW S, IsFiniteSet(S), NEW V, NEW b \in V, NEW F, Steps(F, S, V),
           NEW pick, Picks(pick, S)
    PROVE  \E g : IsFold(g, b, F, pick, S, V)
  <1>1. PICK T : T = {m \in Nat : \E g : FoldsUpTo(g, b, F, pick, S, V, m)}
    OBVIOUS
  <1>2. 0 \in T
    <2>1. PICK g : g = [s \in Small(S, 0) |-> b]
      OBVIOUS
    <2>2. FoldsUpTo(g, b, F, pick, S, V, 0)
      BY <2>1, SmallNone DEF FoldsUpTo, FoldsAs
    <2> QED
      BY <1>1, <2>2
  <1>3. ASSUME NEW k \in Nat, k \in T PROVE k + 1 \in T
    BY <1>1, <1>3, FoldOneMore
  <1>4. Cardinality(S) \in Nat /\ Small(S, Cardinality(S)) = SUBSET S
    BY FS_Subset, FS_CardinalityType DEF Small
  <1>5. Cardinality(S) \in T
    BY <1>2, <1>3, <1>4, AllOfNat
  <1> QED
    BY <1>1, <1>4, <1>5 DEF FoldsUpTo, IsFold

-----------------------------------------------------------------------------
(* Sums over the subsets of a finite set.                                  *)

\* g sums f over each subset of S.
IsSum(g, f, S) == /\ g \in [SUBSET S -> Int]
                  /\ g[{}] = 0
                  /\ \A s \in SUBSET S : \A x \in s : g[s] = f[x] + g[s \ {x}]

\* h does so in the order in which SumFunctionOnSet does.
AddsUp(h, f, S) ==
    \A s \in SUBSET S : h[s] = IF s = {} THEN 0
                               ELSE LET x == CHOOSE y \in s : TRUE IN f[x] + h[s \ {x}]

LEMMA SumExists ==
    ASSUME NEW S, IsFiniteSet(S), NEW f \in [S -> Int]
    PROVE  \E g : IsSum(g, f, S) /\ AddsUp(g, f, S)
  <1>1. PICK pick : pick = [s \in SUBSET S |-> CHOOSE y \in s : TRUE]
    OBVIOUS
  <1>2. Picks(pick, S)
    BY <1>1 DEF Picks
  <1>3. PICK F : F = [s \in SUBSET S |-> [v \in Int |-> IF s = {} THEN v ELSE f[pick[s]] + v]]
    OBVIOUS
  <1>4. Steps(F, S, Int)
    <2>1. ASSUME NEW s \in SUBSET S, s # {} PROVE f[pick[s]] \in Int
      BY <1>2, <2>1 DEF Picks
    <2> QED
      BY <1>3, <2>1 DEF Steps
  <1>5. PICK g : IsFold(g, 0, F, pick, S, Int)
    <2>1. PICK b, V : b = 0 /\ V = Int
      OBVIOUS
    <2>2. b \in V /\ Steps(F, S, V)
      BY <1>4, <2>1
    <2>3. \E g : IsFold(g, b, F, pick, S, V)
      BY <1>2, <2>2, FoldExists
    <2> QED
      BY <2>1, <2>3
  <1>6. ASSUME NEW s \in SUBSET S, s # {}
        PROVE  /\ pick[s] \in s /\ s \ {pick[s]} \in SUBSET S
               /\ g[s] = f[pick[s]] + g[s \ {pick[s]}]
    <2>1. pick[s] \in s /\ s \ {pick[s]} \in SUBSET S
      BY <1>2, <1>6 DEF Picks
    <2>2. g[s] = F[s][g[s \ {pick[s]}]]
      BY <1>5, <1>6 DEF IsFold, FoldsAs
    <2>3. g[s \ {pick[s]}] \in Int
      BY <1>5, <2>1 DEF IsFold
    <2> QED
      BY <1>3, <1>6, <2>1, <2>2, <2>3
  <1>7. g[{}] = 0
    BY <1>5 DEF IsFold, FoldsAs
  <1>8. AddsUp(g, f, S)
    BY <1>1, <1>6, <1>7 DEF AddsUp
  <1>9. PICK T : T = {s \in SUBSET S : \A x \in s : g[s] = f[x] + g[s \ {x}]}
    OBVIOUS
  <1>10. ASSUME NEW s \in SUBSET S, \A x \in s : s \ {x} \in T PROVE s \in T
    <2> SUFFICES ASSUME NEW x \in s PROVE g[s] = f[x] + g[s \ {x}]
      BY <1>9
    <2>1. PICK y : y = pick[s]
      OBVIOUS
    <2>2. y \in s /\ g[s] = f[y] + g[s \ {y}]
      BY <1>6, <2>1
    <2>3. CASE x = y
      BY <2>2, <2>3
    <2>4. CASE x # y
      <3>1. x \in s \ {y} /\ y \in s \ {x} /\ s \ {y} \in T /\ s \ {x} \in T
        BY <1>10, <2>2, <2>4
      <3>2. /\ g[s \ {y}] = f[x] + g[(s \ {y}) \ {x}]
            /\ g[s \ {x}] = f[y] + g[(s \ {x}) \ {y}]
        BY <1>9, <3>1
      <3>3. PICK r \in SUBSET S : r = (s \ {x}) \ {y} /\ r = (s \ {y}) \ {x}
        OBVIOUS
      <3>4. g[s \ {y}] = f[x] + g[r] /\ g[s \ {x}] = f[y] + g[r]
        BY <3>2, <3>3
      <3>5. f[x] \in Int /\ f[y] \in Int /\ g[r] \in Int
        BY <1>5, <2>2 DEF IsFold
      <3> QED
        BY <2>2, <3>4, <3>5
    <2> QED
      BY <2>3, <2>4
  <1>11. SUBSET S \subseteq T
    <2>1. \A s \in SUBSET S : (\A x \in s : s \ {x} \in T) => s \in T
      BY <1>10
    <2> QED
      BY <2>1, AllSubsets
  <1>12. IsSum(g, f, S)
    BY <1>5, <1>7, <1>9, <1>11 DEF IsSum, IsFold
  <1> QED
    BY <1>8, <1>12

\* Sums over subsets of another set agree with g.
LEMMA SumUnique ==
    ASSUME NEW S, IsFiniteSet(S), NEW f, NEW g, IsSum(g, f, S),
           NEW Q \in SUBSET S, NEW h, AddsUp(h, f, Q)
    PROVE  h[Q] = g[Q]
  <1>1. PICK T : T = {s \in SUBSET Q : h[s] = g[s]}
    OBVIOUS
  <1>2. ASSUME NEW s \in SUBSET Q, \A x \in s : s \ {x} \in T PROVE s \in T
    <2>1. CASE s = {}
      BY <1>1, <2>1 DEF AddsUp, IsSum
    <2>2. CASE s # {}
      <3>1. PICK x : x = CHOOSE y \in s : TRUE
        OBVIOUS
      <3>2. x \in s /\ s \in SUBSET S
        BY <2>2, <3>1
      <3>3. h[s] = f[x] + h[s \ {x}]
        BY <2>2, <3>1 DEF AddsUp
      <3>4. g[s] = f[x] + g[s \ {x}]
        BY <3>2 DEF IsSum
      <3>5. h[s \ {x}] = g[s \ {x}]
        BY <1>1, <1>2, <3>2
      <3> QED
        BY <1>1, <3>3, <3>4, <3>5
    <2> QED
      BY <2>1, <2>2
  <1>3. IsFiniteSet(Q)
    BY FS_Subset
  <1>4. SUBSET Q \subseteq T
    BY <1>2, <1>3, AllSubsets
  <1> QED
    BY <1>1, <1>4

\* What SumFunctionOnSet computes.
LEMMA SumIs ==
    ASSUME NEW S, IsFiniteSet(S), NEW f \in [S -> Int], NEW g, IsSum(g, f, S),
           NEW Q \in SUBSET S
    PROVE  SumFunctionOnSet(f, Q) = g[Q]
  <1> DEFINE Sums(h) == h = [s \in SUBSET Q |->
                IF s = {} THEN 0
                ELSE LET x == CHOOSE y \in s : TRUE IN f[x] + h[s \ {x}]]
  <1> DEFINE sum == CHOOSE h : Sums(h)
  <1>1. PICK k : IsSum(k, f, S) /\ AddsUp(k, f, S)
    BY SumExists
  <1>2. Sums([s \in SUBSET Q |-> k[s]])
    <2>1. ASSUME NEW s \in SUBSET Q
          PROVE  k[s] = IF s = {} THEN 0
                        ELSE LET x == CHOOSE y \in s : TRUE
                             IN  f[x] + [r \in SUBSET Q |-> k[r]][s \ {x}]
      BY <1>1 DEF AddsUp
    <2> QED
      BY <2>1
  <1>3. Sums(sum)
    BY <1>2
  <1>4. SumFunctionOnSet(f, Q) = sum[Q]
    BY DEF SumFunctionOnSet, FoldFunctionOnSet, MapThenFoldSet
  <1>5. AddsUp(sum, f, Q)
    BY <1>3 DEF AddsUp
  <1> HIDE DEF sum
  <1>6. sum[Q] = g[Q]
    BY <1>5, SumUnique
  <1> QED
    BY <1>4, <1>6

\* The sum of finitely many natural numbers is one.
LEMMA SumIsNat ==
    ASSUME NEW S, IsFiniteSet(S), NEW f \in [S -> Nat]
    PROVE  SumFunction(f) \in Nat
  <1>1. f \in [S -> Int]
    OBVIOUS
  <1>2. PICK g : IsSum(g, f, S)
    BY <1>1, SumExists
  <1>3. SumFunctionOnSet(f, S) = g[S]
    BY <1>1, <1>2, SumIs
  <1>4. PICK T : T = {s \in SUBSET S : g[s] \in Nat}
    OBVIOUS
  <1>5. ASSUME NEW s \in SUBSET S, \A x \in s : s \ {x} \in T PROVE s \in T
    <2>1. CASE s = {}
      BY <1>2, <1>4, <2>1 DEF IsSum
    <2>2. CASE s # {}
      <3>1. PICK x : x \in s
        BY <2>2
      <3>2. g[s] = f[x] + g[s \ {x}]
        BY <1>2, <3>1 DEF IsSum
      <3>3. f[x] \in Nat /\ g[s \ {x}] \in Nat
        BY <1>4, <1>5, <3>1
      <3> QED
        BY <1>4, <3>2, <3>3
    <2> QED
      BY <2>1, <2>2
  <1>6. SUBSET S \subseteq T
    BY <1>5, AllSubsets
  <1>7. g[S] \in Nat
    BY <1>4, <1>6
  <1> QED
    BY <1>3, <1>7 DEF SumFunction

-----------------------------------------------------------------------------
(* Types.                                                                  *)

LEMMA TotalIsNat ==
    ASSUME made \in [Refund -> Made], NEW S, S \subseteq Refund
    PROVE  TotalOf(S) \in Nat
  <1>1. IsFiniteSet(S)
    <2>1. MaxRefund \in Int
      BY RefundsAssumption
    <2>2. IsFiniteSet(Refund)
      BY <2>1, FS_Interval DEF Refund
    <2> QED
      BY <2>2, FS_Subset
  <1>2. PICK f : f = [r \in S |-> made[r].amount]
    OBVIOUS
  <1>3. \A r \in S : made[r].amount \in Nat
    BY RefundsAssumption DEF Made
  <1>4. f \in [S -> Nat]
    BY <1>2, <1>3
  <1>5. SumFunction(f) \in Nat
    BY <1>1, <1>4, SumIsNat
  <1> QED
    BY <1>2, <1>5 DEF TotalOf

LEMMA IdleType == Idle \in TaskState
  BY RefundsAssumption DEF Idle, TaskState, Stored

LEMMA TypeInit == Init => TypeOK
  <1>1. NotMade \in Made
    BY RefundsAssumption DEF NotMade, Made, Stored
  <1> SUFFICES ASSUME Init PROVE TypeOK
    OBVIOUS
  <1>2. made \in [Refund -> Made] /\ row \in [Refund -> Stored]
    BY <1>1 DEF Init, Stored
  <1>3. task \in [Task -> TaskState]
    BY IdleType DEF Init
  <1>4. refunded \in Nat /\ disturbed \in BOOLEAN
    BY DEF Init
  <1> QED
    BY <1>2, <1>3, <1>4 DEF TypeOK

LEMMA TaskType ==
    ASSUME TypeOK, NEW t \in Task, NEW x \in TaskState, task' = [task EXCEPT ![t] = x]
    PROVE  task' \in [Task -> TaskState]
  BY DEF TypeOK

LEMMA StartType ==
    ASSUME TypeOK, NEW t \in Task, NEW x \in TaskState, Start(t, x),
           UNCHANGED <<made, row, refunded>>
    PROVE  TypeOK'
  BY TaskType DEF Start, TypeOK

LEMMA GotoType ==
    ASSUME TypeOK, NEW t \in Task, NEW x \in TaskState, Goto(t, x),
           made' \in [Refund -> Made], row' \in [Refund -> Stored], refunded' \in Nat
    PROVE  TypeOK'
  BY TaskType DEF Goto, TypeOK

LEMMA ChangeType ==
    ASSUME TypeOK, NEW r \in Refund, NEW s \in RefundStatus, Change(r, s)
    PROVE  made' \in [Refund -> Made]
  <1>1. PICK m \in Made : m = made[r]
    BY DEF TypeOK
  <1>2. PICK n : n = [m EXCEPT !.status = s, !.had = @ \cup {s}]
    OBVIOUS
  <1>3. n \in Made
    BY <1>2 DEF Made, Stored
  <1>4. made' = [made EXCEPT ![r] = n]
    BY <1>1, <1>2 DEF Change, TypeOK
  <1> QED
    BY <1>3, <1>4 DEF TypeOK

LEMMA RequestType ==
    ASSUME TypeOK, NEW t \in Task,
           \/ Create(t)
           \/ \E r \in Refund : Cancel(t, r) \/ SyncFromStripeRefund(t, r)
           \/ PaymentRead(t)
    PROVE  TypeOK'
  <1>1. Refund \subseteq 0 .. MaxRefund
    BY RefundsAssumption DEF Refund
  <1>2. PICK x \in TaskState : Start(t, x) /\ UNCHANGED <<made, row, refunded>>
    <2>1. CASE Create(t)
      <3>1. PICK amount \in 1 .. Received - refunded :
              Start(t, [Idle EXCEPT !.pc = "call", !.amount = amount])
        BY <2>1 DEF Create
      <3>2. amount \in 0 .. Received
        BY RefundsAssumption DEF TypeOK
      <3>3. [Idle EXCEPT !.pc = "call", !.amount = amount] \in TaskState
        BY <3>2, IdleType DEF TaskState
      <3> QED
        BY <2>1, <3>1, <3>3 DEF Create
    <2>2. ASSUME NEW r \in Refund, Cancel(t, r)
          PROVE  \E x \in TaskState : Start(t, x) /\ UNCHANGED <<made, row, refunded>>
      <3>1. [Idle EXCEPT !.pc = "cancel", !.r = r] \in TaskState
        BY <1>1, IdleType DEF TaskState
      <3> QED
        BY <2>2, <3>1 DEF Cancel
    <2>3. ASSUME NEW r \in Refund, SyncFromStripeRefund(t, r)
          PROVE  \E x \in TaskState : Start(t, x) /\ UNCHANGED <<made, row, refunded>>
      <3>1. PICK s \in made[r].had : Start(t, [Idle EXCEPT !.pc = "save", !.r = r, !.status = s])
        BY <2>3 DEF SyncFromStripeRefund
      <3>2. s \in Stored
        BY DEF TypeOK, Made, Stored
      <3>3. [Idle EXCEPT !.pc = "save", !.r = r, !.status = s] \in TaskState
        BY <1>1, <3>2, IdleType DEF TaskState
      <3> QED
        BY <2>3, <3>1, <3>3 DEF SyncFromStripeRefund
    <2>4. CASE PaymentRead(t)
      <3>1. PICK loaded \in {Refund, Recorded} :
              Start(t, [Idle EXCEPT !.pc = "total", !.total = refunded, !.loaded = loaded])
        BY <2>4 DEF PaymentRead
      <3>2. loaded \in SUBSET Refund /\ refunded \in Nat
        BY DEF Recorded, TypeOK
      <3>3. [Idle EXCEPT !.pc = "total", !.total = refunded, !.loaded = loaded] \in TaskState
        BY <3>2, IdleType DEF TaskState
      <3> QED
        BY <2>4, <3>1, <3>3 DEF PaymentRead
    <2> QED
      BY <2>1, <2>2, <2>3, <2>4
  <1> QED
    BY <1>2, StartType

LEMMA ContinueType ==
    ASSUME TypeOK, NEW t \in Task, Continue(t)
    PROVE  TypeOK'
  <1>1. PICK x \in TaskState : x = task[t]
    BY DEF TypeOK
  <1>2. /\ made \in [Refund -> Made] /\ row \in [Refund -> Stored] /\ refunded \in Nat
    BY DEF TypeOK
  <1>3. CASE CreateCall(t)
    <2>1. PICK r \in Refund, s \in After["none"] :
            /\ CreateRefund(r, x.amount, s)
            /\ Goto(t, [x EXCEPT !.pc = "insert", !.r = r, !.status = s, !.amount = 0])
      BY <1>1, <1>3 DEF CreateCall
    <2>2. s \in RefundStatus /\ r \in 0 .. MaxRefund /\ 0 \in 0 .. Received
      BY RefundsAssumption DEF After, RefundStatus, Refund
    <2>3. [x EXCEPT !.pc = "insert", !.r = r, !.status = s, !.amount = 0] \in TaskState
      BY <2>2 DEF TaskState, Stored
    <2>4. [status |-> s, had |-> {s}, amount |-> x.amount] \in Made
      BY <2>2 DEF TaskState, Made, Stored
    <2>5. made' \in [Refund -> Made]
      BY <1>2, <2>1, <2>4 DEF CreateRefund
    <2> QED
      BY <1>2, <1>3, <2>1, <2>3, <2>5, GotoType DEF CreateCall
  <1>4. CASE CreateRefused(t) \/ CancelRefused(t)
    BY <1>2, <1>4, IdleType, GotoType DEF CreateRefused, CancelRefused, Finish
  <1>5. CASE Insert(t) \/ Save(t)
    <2>1. [Idle EXCEPT !.pc = "recalc"] \in TaskState
      BY IdleType DEF TaskState
    <2>2. row' = [row EXCEPT ![x.r] = x.status] /\ x.status \in Stored
      BY <1>1, <1>5 DEF Insert, Save, TaskState
    <2>3. row' \in [Refund -> Stored]
      BY <1>2, <2>2
    <2> QED
      BY <1>2, <1>5, <2>1, <2>3, GotoType DEF Insert, Save
  <1>6. CASE CancelCall(t)
    <2>1. /\ made[x.r].status = "requires_action" /\ Change(x.r, "canceled")
          /\ Goto(t, [x EXCEPT !.pc = "save", !.status = "canceled"])
          /\ UNCHANGED <<row, refunded>>
      BY <1>1, <1>6 DEF CancelCall
    <2>2. "canceled" \in RefundStatus /\ "canceled" \in Stored
      BY DEF RefundStatus, Stored
    <2>3. [x EXCEPT !.pc = "save", !.status = "canceled"] \in TaskState
      BY <2>2 DEF TaskState
    <2>4. made' \in [Refund -> Made]
      <3>1. CASE x.r \in Refund
        BY <2>1, <2>2, <3>1, ChangeType
      <3>2. CASE x.r \notin Refund
        BY <1>2, <2>1, <3>2 DEF Change
      <3> QED
        BY <3>1, <3>2
    <2> QED
      BY <1>2, <2>1, <2>3, <2>4, GotoType
  <1>7. CASE RecalculateRefunded(t)
    <2>1. Recalculated \in Nat
      BY <1>2, TotalIsNat DEF Recalculated
    <2>2. Recorded \subseteq Refund
      BY DEF Recorded
    <2>3. [x EXCEPT !.pc = "total", !.total = Recalculated, !.loaded = Recorded] \in TaskState
      BY <2>1, <2>2 DEF TaskState
    <2> QED
      BY <1>1, <1>2, <1>7, <2>3, GotoType DEF RecalculateRefunded
  <1>8. CASE SavePayment(t)
    <2>1. x.total \in Nat
      BY DEF TaskState
    <2> QED
      BY <1>1, <1>2, <1>8, <2>1, IdleType, GotoType DEF SavePayment, Finish
  <1> QED
    BY <1>3, <1>4, <1>5, <1>6, <1>7, <1>8 DEF Continue

LEMMA TypeNext == TypeOK /\ [Next]_vars => TypeOK'
  <1> SUFFICES ASSUME TypeOK, [Next]_vars PROVE TypeOK'
    OBVIOUS
  <1>1. CASE Stripe
    BY <1>1, ChangeType DEF Stripe, TypeOK
  <1>2. CASE UNCHANGED vars
    BY <1>2 DEF vars, TypeOK
  <1>3. ASSUME NEW t \in Task, Abort(t)
        PROVE  TypeOK'
    BY <1>3, IdleType, TaskType DEF Abort, TypeOK
  <1> QED
    BY <1>1, <1>2, <1>3, RequestType, ContinueType DEF Next

\* The refunds at Stripe, their rows, the total and the tasks keep to their types; the
\* total, in particular, is never negative nor anything but a number (the sum of
\* recalculateRefunded, payments.service.ts:571).
THEOREM TypeCorrect == Spec => []TypeOK
  BY TypeInit, TypeNext, PTL DEF Spec

-----------------------------------------------------------------------------
(* Reports adds up the totals that Refunds keeps.                          *)

\* A measure u gives two subsets of S without a common member together what it gives each of them,
\* as sums and cardinalities do.
IsMeasure(u, S) == /\ u \in [SUBSET S -> Int]
                   /\ u[{}] = 0
                   /\ \A r, s \in SUBSET S : r \cap s = {} => u[r \cup s] = u[r] + u[s]

LEMMA SumIsMeasure ==
    ASSUME NEW S, IsFiniteSet(S), NEW f, \A x \in S : f[x] \in Int, NEW g, IsSum(g, f, S)
    PROVE  IsMeasure(g, S)
  <1> SUFFICES ASSUME NEW r \in SUBSET S, NEW q \in SUBSET S, r \cap q = {}
               PROVE  g[r \cup q] = g[r] + g[q]
    BY DEF IsSum, IsMeasure
  <1>1. PICK T : T = {s \in SUBSET q : g[r \cup s] = g[r] + g[s]}
    OBVIOUS
  <1>2. ASSUME NEW s \in SUBSET q, \A x \in s : s \ {x} \in T PROVE s \in T
    <2>1. /\ s \in SUBSET S /\ r \cup s \in SUBSET S
          /\ \A z \in SUBSET S : g[z] \in Int
          /\ g[{}] = 0
      BY DEF IsSum
    <2>2. CASE s = {}
      <3>1. r \cup s = r
        BY <2>2
      <3> QED
        BY <1>1, <2>1, <2>2, <3>1
    <2>3. CASE s # {}
      <3>1. PICK x : x \in s
        BY <2>3
      <3>2. PICK t \in SUBSET S : t = s \ {x}
        BY <2>1
      <3>3. (r \cup s) \ {x} = r \cup t /\ r \cup t \in SUBSET S
        BY <3>1, <3>2
      <3>4. g[s] = f[x] + g[t] /\ g[r \cup s] = f[x] + g[r \cup t]
        <4>1. \A z \in SUBSET S : \A y \in z : g[z] = f[y] + g[z \ {y}]
          BY DEF IsSum
        <4>2. x \in r \cup s /\ g[(r \cup s) \ {x}] = g[r \cup t]
          BY <3>1, <3>3
        <4>3. g[r \cup s] = f[x] + g[(r \cup s) \ {x}]
          BY <2>1, <4>1, <4>2
        <4>4. g[s] = f[x] + g[s \ {x}]
          BY <2>1, <3>1, <4>1
        <4> QED
          BY <3>2, <4>2, <4>3, <4>4
      <3>5. g[r \cup t] = g[r] + g[t]
        <4>1. t \in T
          BY <1>2, <3>1, <3>2
        <4> QED
          BY <1>1, <4>1
      <3>6. f[x] \in Int /\ g[r] \in Int /\ g[t] \in Int
        BY <2>1, <3>1
      <3>7. g[r \cup s] = g[r] + g[s]
        BY <3>4, <3>5, <3>6
      <3> QED
        BY <1>1, <3>7
    <2> QED
      BY <2>2, <2>3
  <1>3. IsFiniteSet(q)
    BY FS_Subset
  <1>4. SUBSET q \subseteq T
    BY <1>2, <1>3, AllSubsets
  <1> QED
    BY <1>1, <1>4

LEMMA CardinalityIsMeasure ==
    ASSUME NEW S, IsFiniteSet(S)
    PROVE  IsMeasure([s \in SUBSET S |-> Cardinality(s)], S)
  <1>1. \A s \in SUBSET S : IsFiniteSet(s) /\ Cardinality(s) \in Int
    BY FS_Subset, FS_CardinalityType
  <1>2. Cardinality({}) = 0
    BY FS_EmptySet
  <1>3. ASSUME NEW r \in SUBSET S, NEW s \in SUBSET S, r \cap s = {}
        PROVE  Cardinality(r \cup s) = Cardinality(r) + Cardinality(s)
    <2>1. Cardinality(r \cup s) = Cardinality(r) + Cardinality(s) - Cardinality(r \cap s)
      BY <1>1, FS_Union
    <2>2. Cardinality(r \cap s) = 0
      BY <1>2, <1>3
    <2>3. Cardinality(r) \in Int /\ Cardinality(s) \in Int
      BY <1>1
    <2> QED
      BY <2>1, <2>2, <2>3
  <1>4. PICK u : u = [s \in SUBSET S |-> Cardinality(s)]
    OBVIOUS
  <1>5. \A s \in SUBSET S : u[s] = Cardinality(s)
    BY <1>4
  <1>6. u \in [SUBSET S -> Int] /\ u[{}] = 0
    <2>1. u \in [SUBSET S -> Int]
      BY <1>1, <1>4
    <2>2. u[{}] = Cardinality({})
      BY <1>5
    <2> QED
      BY <1>2, <2>1, <2>2
  <1>7. ASSUME NEW r \in SUBSET S, NEW s \in SUBSET S, r \cap s = {}
        PROVE  u[r \cup s] = u[r] + u[s]
    <2>1. r \cup s \in SUBSET S
      OBVIOUS
    <2> QED
      BY <1>3, <1>5, <1>7, <2>1
  <1>8. IsMeasure(u, S)
    BY <1>6, <1>7 DEF IsMeasure
  <1> QED
    BY <1>4, <1>8

LEMMA DifferenceIsMeasure ==
    ASSUME NEW S, NEW u, NEW v, IsMeasure(u, S), IsMeasure(v, S)
    PROVE  IsMeasure([s \in SUBSET S |-> u[s] - v[s]], S)
  <1>1. ASSUME NEW r \in SUBSET S, NEW s \in SUBSET S, r \cap s = {}
        PROVE  u[r \cup s] - v[r \cup s] = (u[r] - v[r]) + (u[s] - v[s])
    <2>1. u[r] \in Int /\ u[s] \in Int /\ v[r] \in Int /\ v[s] \in Int
      BY DEF IsMeasure
    <2>2. u[r \cup s] = u[r] + u[s] /\ v[r \cup s] = v[r] + v[s]
      BY <1>1 DEF IsMeasure
    <2> QED
      BY <2>1, <2>2
  <1>2. PICK d : d = [s \in SUBSET S |-> u[s] - v[s]]
    OBVIOUS
  <1>3. \A s \in SUBSET S : d[s] = u[s] - v[s] /\ u[s] \in Int /\ v[s] \in Int
    BY <1>2 DEF IsMeasure
  <1>4. d \in [SUBSET S -> Int]
    <2>1. \A s \in SUBSET S : u[s] - v[s] \in Int
      BY <1>3
    <2> QED
      BY <1>2, <2>1
  <1>5. d[{}] = 0
    BY <1>3 DEF IsMeasure
  <1>6. ASSUME NEW r \in SUBSET S, NEW s \in SUBSET S, r \cap s = {}
        PROVE  d[r \cup s] = d[r] + d[s]
    <2>1. PICK q \in SUBSET S : q = r \cup s
      OBVIOUS
    <2>2. u[q] - v[q] = (u[r] - v[r]) + (u[s] - v[s])
      BY <1>1, <1>6, <2>1
    <2> QED
      BY <1>3, <2>1, <2>2
  <1>7. IsMeasure(d, S)
    BY <1>4, <1>5, <1>6 DEF IsMeasure
  <1> QED
    BY <1>2, <1>7

Part(A, of, m) == {p \in A : of[p] = m}

\* What a measure gives A is what it gives, in sum, its members of each month.
LEMMA MonthByMonth ==
    ASSUME NEW S, NEW u, IsMeasure(u, S), NEW A \in SUBSET S, NEW M, IsFiniteSet(M), NEW of,
           \A p \in A : of[p] \in M, NEW f, NEW g, IsSum(g, f, M),
           \A m \in M : f[m] = u[Part(A, of, m)]
    PROVE  g[M] = u[A]
  <1>1. PICK T : T = {s \in SUBSET M : g[s] = u[{p \in A : of[p] \in s}]}
    OBVIOUS
  <1>2. ASSUME NEW s \in SUBSET M, \A x \in s : s \ {x} \in T PROVE s \in T
    <2>1. CASE s = {}
      <3>1. {p \in A : of[p] \in s} = {}
        BY <2>1
      <3> QED
        BY <1>1, <2>1, <3>1 DEF IsSum, IsMeasure
    <2>2. CASE s # {}
      <3>1. PICK x : x \in s
        BY <2>2
      <3>2. PICK t : t = s \ {x}
        OBVIOUS
      <3>3. PICK B, C, D : /\ B = {p \in A : of[p] = x}
                           /\ C = {p \in A : of[p] \in t}
                           /\ D = {p \in A : of[p] \in s}
        OBVIOUS
      <3>4. B \in SUBSET S /\ C \in SUBSET S /\ B \cap C = {} /\ B \cup C = D
        BY <3>1, <3>2, <3>3
      <3>5. u[D] = u[B] + u[C]
        BY <3>4 DEF IsMeasure
      <3>6. f[x] = u[B]
        BY <3>1, <3>3 DEF Part
      <3>7. g[t] = u[C]
        BY <1>1, <1>2, <3>1, <3>2, <3>3
      <3>8. g[s] = f[x] + g[t]
        BY <3>1, <3>2 DEF IsSum
      <3>9. g[s] = u[D]
        BY <3>5, <3>6, <3>7, <3>8
      <3> QED
        BY <1>1, <3>3, <3>9
    <2> QED
      BY <2>1, <2>2
  <1>3. SUBSET M \subseteq T
    BY <1>2, AllSubsets
  <1>4. {p \in A : of[p] \in M} = A
    OBVIOUS
  <1> QED
    BY <1>1, <1>3, <1>4

-----------------------------------------------------------------------------
(* The payments of Reports.                                                *)

LEMMA TableInit == ASSUME ReportsInit PROVE ReportsTypeOK
  BY ReportsAssumption DEF ReportsTypeOK, ReportsInit, NoRow, Row, Status

\* One payment becomes r.
LEMMA TableStep ==
    ASSUME ReportsTypeOK, NEW p \in Payment, NEW r \in Row, payments' = [payments EXCEPT ![p] = r],
           r.status # "none" => /\ r.tenant \in Tenant
                                /\ r.year \in Year /\ r.month \in Month
    PROVE  ReportsTypeOK'
  BY DEF ReportsTypeOK

LEMMA TableNext == ASSUME ReportsTypeOK, [ReportsNext]_payments PROVE ReportsTypeOK'
  <1>1. ASSUME NEW p \in Payment, CreatePayment(p) PROVE ReportsTypeOK'
    <2>1. PICK n \in Tenant, y \in Year, m \in Month, c \in Currency, s \in Unpaid :
            payments' = [payments EXCEPT ![p] = [NoRow EXCEPT !.tenant = n, !.year = y, !.month = m,
                                                              !.currency = c, !.status = s]]
      BY <1>1, Zenon DEF CreatePayment
    <2>2. PICK r : r = [NoRow EXCEPT !.tenant = n, !.year = y, !.month = m, !.currency = c,
                                     !.status = s]
      OBVIOUS
    <2>3. r \in Row /\ r.tenant \in Tenant /\ r.year \in Year /\ r.month \in Month
      <3>1. r = [tenant |-> n, year |-> y, month |-> m, currency |-> c, status |-> s,
                 received |-> 0, refunded |-> 0]
        BY <2>2 DEF NoRow
      <3>2. 0 \in 0 .. MaxAmount
        BY ReportsAssumption
      <3> QED
        BY <3>1, <3>2 DEF Row, Status
    <2>4. payments' = [payments EXCEPT ![p] = r]
      BY <2>1, <2>2, Zenon
    <2> QED
      BY <2>3, <2>4, TableStep
  <1>2. ASSUME NEW p \in Payment, payments[p].status # "none",
               NEW r, r \in Row, payments' = [payments EXCEPT ![p] = r],
               r.tenant = payments[p].tenant,
               r.year = payments[p].year, r.month = payments[p].month
        PROVE  ReportsTypeOK'
    BY <1>2, TableStep DEF ReportsTypeOK
  <1>3. ASSUME NEW p \in Payment PROVE payments[p] \in Row
    BY <1>3 DEF ReportsTypeOK
  <1>4. ASSUME NEW p \in Payment, SyncPayment(p) PROVE ReportsTypeOK'
    <2>1. PICK s \in Status, amount \in 0 .. MaxAmount :
            payments' = [payments EXCEPT ![p].status = s, ![p].received = amount]
      BY <1>4, Zenon DEF SyncPayment
    <2>2. PICK x \in Row : x = payments[p]
      BY <1>3
    <2>3. PICK r : r = [x EXCEPT !.status = s, !.received = amount]
      OBVIOUS
    <2>4. r \in Row /\ r.tenant = x.tenant /\ r.year = x.year /\ r.month = x.month
      BY <2>3 DEF Row
    <2>5. payments' = [payments EXCEPT ![p] = r]
      BY <2>1, <2>2, <2>3 DEF ReportsTypeOK
    <2> QED
      BY <1>2, <1>4, <2>2, <2>4, <2>5 DEF SyncPayment
  <1>5. ASSUME NEW p \in Payment, RefundPayment(p) PROVE ReportsTypeOK'
    <2>1. PICK total \in 0 .. MaxAmount : payments' = [payments EXCEPT ![p].refunded = total]
      BY <1>5, Zenon DEF RefundPayment
    <2>2. PICK x \in Row : x = payments[p]
      BY <1>3
    <2>3. PICK r : r = [x EXCEPT !.refunded = total]
      OBVIOUS
    <2>4. r \in Row /\ r.tenant = x.tenant /\ r.year = x.year /\ r.month = x.month
      BY <2>3 DEF Row
    <2>5. payments' = [payments EXCEPT ![p] = r]
      BY <2>1, <2>2, <2>3
    <2> QED
      BY <1>2, <1>5, <2>2, <2>4, <2>5 DEF RefundPayment
  <1>6. CASE UNCHANGED payments
    BY <1>6 DEF ReportsTypeOK
  <1> QED
    BY <1>1, <1>4, <1>5, <1>6 DEF ReportsNext

-----------------------------------------------------------------------------
(* The sums and sequences of Reports.                                      *)

\* The rows of a query, put into a table by month: a month has the last of its rows.
LEMMA HasMax == ASSUME NEW n \in Nat, NEW s \in SUBSET (1 .. n), s # {} PROVE Max(s) \in s
  <1>1. PICK T : T = {q \in SUBSET (1 .. n) : q # {} => \E x \in q : \A y \in q : x >= y}
    OBVIOUS
  <1>2. ASSUME NEW q \in SUBSET (1 .. n), \A x \in q : q \ {x} \in T PROVE q \in T
    <2> SUFFICES ASSUME NEW x \in q PROVE \E z \in q : \A y \in q : z >= y
      BY <1>1
    <2>1. CASE q \ {x} = {}
      BY <2>1
    <2>2. CASE q \ {x} # {}
      <3>1. PICK z \in q \ {x} : \A y \in q \ {x} : z >= y
        BY <1>1, <1>2, <2>2
      <3>2. x \in Int /\ z \in Int /\ \A y \in q : y \in Int
        OBVIOUS
      <3>3. CASE z >= x
        BY <3>1, <3>3
      <3>4. CASE x > z
        BY <3>1, <3>2, <3>4
      <3> QED
        BY <3>2, <3>3, <3>4
    <2> QED
      BY <2>1, <2>2
  <1>3. IsFiniteSet(1 .. n)
    BY FS_Interval
  <1>4. SUBSET (1 .. n) \subseteq T
    <2>1. PICK S : S = 1 .. n
      OBVIOUS
    <2>2. IsFiniteSet(S) /\ \A q \in SUBSET S : (\A x \in q : q \ {x} \in T) => q \in T
      BY <1>2, <1>3, <2>1
    <2>3. SUBSET S \subseteq T
      BY <2>2, AllSubsets
    <2> QED
      BY <2>1, <2>3
  <1>5. \E x \in s : \A y \in s : x >= y
    BY <1>1, <1>4
  <1> QED
    BY <1>5 DEF Max

\* In v, month m has a row of those numbered in s, or base[m] where there is none.
FromRows(v, base, rows, m, s) ==
    \/ v[m] = base[m] /\ \A i \in s : rows[i].month # m
    \/ \E i \in s : rows[i].month = m /\ v[m] = rows[i]

Filled(v, base, rows, s) ==
    DOMAIN v = Month /\ \A m \in Month : FromRows(v, base, rows, m, s)

LEMMA SetMonthFills ==
    ASSUME NEW v, NEW base, NEW rows, NEW s, NEW x \in s, Filled(v, base, rows, s \ {x})
    PROVE  Filled(SetMonth(v, rows[x]), base, rows, s)
  <1>1. PICK w : w = SetMonth(v, rows[x])
    OBVIOUS
  <1>2. DOMAIN w = Month /\ \A m \in Month : w[m] = IF m = rows[x].month THEN rows[x] ELSE v[m]
    BY <1>1 DEF SetMonth, Filled
  <1>3. ASSUME NEW m \in Month PROVE FromRows(w, base, rows, m, s)
    BY <1>2 DEF Filled, FromRows
  <1> QED
    BY <1>1, <1>2, <1>3 DEF Filled

LEMMA FoldFills ==
    ASSUME NEW n \in Nat, NEW rows, DOMAIN rows = 1 .. n, NEW base, base = [m \in Month |-> base[m]]
    PROVE  Filled(FoldLeft(SetMonth, base, rows), base, rows, 1 .. n)
  <1> DEFINE Folds(h) == h = [s \in SUBSET (1 .. n) |->
                IF s = {} THEN base
                ELSE LET x == Max(s) IN SetMonth(h[s \ {x}], rows[x])]
  <1> DEFINE fold == CHOOSE h : Folds(h)
  <1>1. IsFiniteSet(1 .. n)
    BY FS_Interval
  <1>2. PICK pick : pick = [s \in SUBSET (1 .. n) |-> Max(s)]
    OBVIOUS
  <1>3. Picks(pick, 1 .. n)
    BY <1>2, HasMax DEF Picks
  <1>4. PICK V : V = [Month -> {base[m] : m \in Month} \cup {rows[i] : i \in 1 .. n}]
    OBVIOUS
  <1>5. base \in V
    BY <1>4
  <1>6. PICK F : F = [s \in SUBSET (1 .. n) |-> [v \in V |->
                        IF s = {} THEN v ELSE SetMonth(v, rows[pick[s]])]]
    OBVIOUS
  <1>7. Steps(F, 1 .. n, V)
    <2>1. ASSUME NEW s \in SUBSET (1 .. n), s # {}, NEW v \in V
          PROVE  SetMonth(v, rows[pick[s]]) \in V
      <3>1. pick[s] \in 1 .. n
        BY <1>3, <2>1 DEF Picks
      <3> QED
        BY <1>4, <3>1 DEF SetMonth
    <2> QED
      BY <1>6, <2>1 DEF Steps
  <1>8. PICK g : IsFold(g, base, F, pick, 1 .. n, V)
    BY <1>1, <1>3, <1>5, <1>7, FoldExists
  <1>9. Folds(g)
    <2>1. ASSUME NEW s \in SUBSET (1 .. n), s # {}
          PROVE  g[s] = SetMonth(g[s \ {pick[s]}], rows[pick[s]])
      <3>1. g[s] = F[s][g[s \ {pick[s]}]]
        BY <1>8, <2>1 DEF IsFold, FoldsAs
      <3>2. g[s \ {pick[s]}] \in V
        BY <1>8 DEF IsFold
      <3> QED
        BY <1>6, <2>1, <3>1, <3>2
    <2>2. g[{}] = base
      BY <1>8 DEF IsFold, FoldsAs
    <2>3. g = [s \in SUBSET (1 .. n) |-> g[s]]
      BY <1>8 DEF IsFold
    <2>4. ASSUME NEW s \in SUBSET (1 .. n)
          PROVE  g[s] = IF s = {} THEN base
                        ELSE LET x == Max(s) IN SetMonth(g[s \ {x}], rows[x])
      BY <1>2, <2>1, <2>2
    <2> QED
      BY <2>3, <2>4
  <1>10. Folds(fold)
    BY <1>9
  <1>11. FoldLeft(SetMonth, base, rows) = fold[1 .. n]
    BY DEF FoldLeft, MapThenFoldSet
  <1> HIDE DEF fold
  <1>12. PICK T : T = {s \in SUBSET (1 .. n) : Filled(fold[s], base, rows, s)}
    OBVIOUS
  <1>13. ASSUME NEW s \in SUBSET (1 .. n), \A x \in s : s \ {x} \in T PROVE s \in T
    <2>1. CASE s = {}
      <3>1. fold[s] = base
        BY <1>10, <2>1
      <3>2. Filled(base, base, rows, {})
        BY DEF Filled, FromRows
      <3> QED
        BY <1>12, <2>1, <3>1, <3>2
    <2>2. CASE s # {}
      <3>1. PICK x : x = Max(s)
        OBVIOUS
      <3>2. fold[s] = SetMonth(fold[s \ {x}], rows[x])
        BY <1>10, <2>2, <3>1
      <3>3. x \in s
        BY <2>2, <3>1, HasMax
      <3>4. Filled(fold[s \ {x}], base, rows, s \ {x})
        BY <1>12, <1>13, <3>3
      <3> QED
        BY <1>12, <3>2, <3>3, <3>4, SetMonthFills
    <2> QED
      BY <2>1, <2>2
  <1>14. SUBSET (1 .. n) \subseteq T
    <2>1. PICK S : S = 1 .. n
      OBVIOUS
    <2>2. IsFiniteSet(S) /\ \A s \in SUBSET S : (\A x \in s : s \ {x} \in T) => s \in T
      BY <1>1, <1>13, <2>1
    <2>3. SUBSET S \subseteq T
      BY <2>2, AllSubsets
    <2> QED
      BY <2>1, <2>3
  <1>15. Filled(fold[1 .. n], base, rows, 1 .. n)
    BY <1>12, <1>14
  <1> QED
    BY <1>11, <1>15

\* A column of the table, and a measure that sums it.
Column(c) == [p \in Payment |-> payments[p][c]]

Amounts == {"received", "refunded"}

LEMMA SumOfIs ==
    ASSUME ReportsTypeOK, NEW c \in Amounts
    PROVE  \E g : /\ IsMeasure(g, Payment)
                  /\ \A S \in SUBSET Payment : SumOf(S, c) = g[S]
  <1>1. PICK f : f = Column(c)
    OBVIOUS
  <1>2. f \in [Payment -> Int]
    <2>1. ASSUME NEW p \in Payment PROVE payments[p][c] \in Int
      <3>1. payments[p] \in Row
        BY DEF ReportsTypeOK
      <3>2. payments[p].received \in Int /\ payments[p].refunded \in Int
        BY <3>1, ReportsAssumption DEF Row
      <3> QED
        BY <3>2 DEF Amounts
    <2> QED
      BY <1>1, <2>1 DEF Column
  <1>3. IsFiniteSet(Payment)
    BY ReportsAssumption
  <1>4. PICK g : IsSum(g, f, Payment)
    BY <1>2, <1>3, SumExists
  <1>5. IsMeasure(g, Payment)
    BY <1>2, <1>3, <1>4, SumIsMeasure
  <1>6. ASSUME NEW S \in SUBSET Payment PROVE SumOf(S, c) = g[S]
    <2>1. SumFunctionOnSet(f, S) = g[S]
      BY <1>2, <1>3, <1>4, SumIs
    <2>2. SumOf(S, c) = SumFunctionOnSet(f, S)
      BY <1>1 DEF SumOf, Column
    <2> QED
      BY <2>1, <2>2
  <1> QED
    BY <1>5, <1>6

\* An order of the rows of a query lists them all.
LEMMA ListsAll ==
    ASSUME NEW Q, IsFiniteSet(Q), NEW rows \in SetToSeqs(Q)
    PROVE  \E n \in Nat : DOMAIN rows = 1 .. n /\ {rows[i] : i \in 1 .. n} = Q
  <1>1. PICK n \in Nat : n = Cardinality(Q)
    BY FS_CardinalityType
  <1>2. rows \in [1 .. n -> Q] /\ \A i, j \in 1 .. n : i # j => rows[i] # rows[j]
    BY <1>1 DEF SetToSeqs
  <1>3. rows \in Injection(1 .. n, Q)
    BY <1>2 DEF Injection, IsInjective
  <1>4. Cardinality(1 .. n) = n
    <2>1. 1 \in Int /\ n \in Int
      OBVIOUS
    <2>2. Cardinality(1 .. n) = IF 1 > n THEN 0 ELSE n - 1 + 1
      BY <2>1, FS_Interval
    <2> QED
      BY <2>2
  <1>5. rows \in Surjection(1 .. n, Q)
    BY <1>1, <1>3, <1>4, FS_Injection
  <1> QED
    BY <1>2, <1>5 DEF Surjection

-----------------------------------------------------------------------------
(* A month's figures are those of all its payments in one currency.        *)

LEMMA TakenFacts ==
    ASSUME ReportsTypeOK, NEW n
    PROVE  /\ Taken(n) \in SUBSET Payment
           /\ IsFiniteSet(Taken(n)) /\ Cardinality(Taken(n)) \in Nat
           /\ \A p \in Taken(n) : payments[p].year \in Year /\ payments[p].month \in Month
  <1>1. Taken(n) \in SUBSET Payment /\ \A p \in Taken(n) : payments[p].status = "succeeded"
    BY DEF Taken, Having, Visible
  <1>2. \A p \in Taken(n) : payments[p].year \in Year /\ payments[p].month \in Month
    BY <1>1 DEF ReportsTypeOK
  <1> QED
    BY <1>1, <1>2, FS_Subset, FS_CardinalityType, ReportsAssumption

\* The payments that make up a row with p, and the row.
Group(y, n, p) == {q \in TakenIn(y, n) : SameGroup(p, q)}

RowOf(y, n, p) == Figures(Group(y, n, p), payments[p].month, payments[p].currency)

LEMMA QueryFinite ==
    ASSUME ReportsTypeOK, NEW y, NEW n PROVE IsFiniteSet(QueryRows(y, n))
  <1>1. PICK f : f = [p \in TakenIn(y, n) |-> RowOf(y, n, p)]
    OBVIOUS
  <1>2. QueryRows(y, n) = {f[p] : p \in TakenIn(y, n)}
    BY <1>1 DEF QueryRows, RowOf, Group
  <1>3. f \in Surjection(TakenIn(y, n), QueryRows(y, n))
    BY <1>1, <1>2 DEF Surjection
  <1>4. IsFiniteSet(TakenIn(y, n))
    BY TakenFacts, FS_Subset DEF TakenIn
  <1> QED
    BY <1>3, <1>4, FS_Surjection

OfMonth(y, n, m) == {p \in TakenIn(y, n) : payments[p].month = m}

\* The payments of month m that its row r counts.
Counted(y, n, m, r) == {p \in OfMonth(y, n, m) : payments[p].currency = r.currency}

\* Whatever order the rows come in, a month's row counts Counted, and nothing only if
\* there is nothing.
LEMMA MonthFigures ==
    ASSUME ReportsTypeOK, NEW y, NEW n, NEW rows \in SetToSeqs(QueryRows(y, n)), NEW m \in Month,
           NEW r, r = MonthlyRevenue(rows)[m]
    PROVE  /\ r.revenue = SumOf(Counted(y, n, m, r), "received")
           /\ r.net = r.revenue - SumOf(Counted(y, n, m, r), "refunded")
           /\ r.count = Cardinality(Counted(y, n, m, r))
           /\ Counted(y, n, m, r) = {} => OfMonth(y, n, m) = {}
  <1>1. PICK base : base = [k \in Month |-> Figures({}, k, Usd)]
    OBVIOUS
  <1>2. PICK k \in Nat : DOMAIN rows = 1 .. k /\ {rows[i] : i \in 1 .. k} = QueryRows(y, n)
    BY QueryFinite, ListsAll
  <1>3. Filled(FoldLeft(SetMonth, base, rows), base, rows, 1 .. k)
    <2>1. base = [j \in Month |-> base[j]]
      BY <1>1
    <2> QED
      BY <1>2, <2>1, FoldFills
  <1>4. r = FoldLeft(SetMonth, base, rows)[m]
    BY <1>1 DEF MonthlyRevenue
  <1>5. \/ r = base[m] /\ \A i \in 1 .. k : rows[i].month # m
        \/ \E i \in 1 .. k : rows[i].month = m /\ r = rows[i]
    BY <1>3, <1>4 DEF Filled, FromRows
  <1>6. QueryRows(y, n) = {RowOf(y, n, p) : p \in TakenIn(y, n)}
    BY DEF QueryRows, RowOf, Group
  <1>7. PICK S, c : /\ r = Figures(S, m, c)
                    /\ S = Counted(y, n, m, r)
                    /\ S = {} => OfMonth(y, n, m) = {}
    <2>1. CASE r = base[m] /\ \A i \in 1 .. k : rows[i].month # m
      <3>1. r = Figures({}, m, Usd)
        BY <1>1, <2>1
      <3>2. ASSUME NEW p \in OfMonth(y, n, m) PROVE FALSE
        <4>1. PICK i \in 1 .. k : rows[i] = RowOf(y, n, p)
          BY <1>2, <1>6, <3>2 DEF OfMonth
        <4>2. RowOf(y, n, p).month = m
          BY <3>2 DEF RowOf, OfMonth, Figures
        <4> QED
          BY <2>1, <4>1, <4>2
      <3>3. OfMonth(y, n, m) = {} /\ Counted(y, n, m, r) = {}
        BY <3>2 DEF Counted
      <3> QED
        BY <3>1, <3>3
    <2>2. ASSUME NEW i \in 1 .. k, rows[i].month = m, r = rows[i]
          PROVE  \E S, c : /\ r = Figures(S, m, c)
                           /\ S = Counted(y, n, m, r)
                           /\ S = {} => OfMonth(y, n, m) = {}
      <3>1. PICK p \in TakenIn(y, n) : r = RowOf(y, n, p)
        BY <1>2, <1>6, <2>2
      <3>2. payments[p].month = m /\ r.currency = payments[p].currency
        BY <2>2, <3>1 DEF RowOf, Figures
      <3>3. Group(y, n, p) = Counted(y, n, m, r)
        BY <3>2 DEF Group, Counted, OfMonth, SameGroup
      <3>4. p \in Counted(y, n, m, r)
        BY <3>2 DEF Counted, OfMonth
      <3>5. r = Figures(Group(y, n, p), m, payments[p].currency)
        BY <3>1, <3>2 DEF RowOf
      <3> QED
        BY <3>3, <3>4, <3>5
    <2> QED
      BY <1>5, <2>1, <2>2
  <1>8. /\ r.revenue = SumOf(S, "received")
        /\ r.net = SumOf(S, "received") - SumOf(S, "refunded")
        /\ r.count = Cardinality(S)
    BY <1>7 DEF Figures
  <1> QED
    BY <1>7, <1>8

LEMMA OneCurrency == ASSUME ReportsTypeOK PROVE MonthsAreOfOneCurrency
  <1> SUFFICES ASSUME NEW n \in Anyone, NEW y \in Year, NEW rows \in SetToSeqs(QueryRows(y, n)),
                      NEW m \in Month, NEW r, r = MonthlyRevenue(rows)[m]
               PROVE  LET ofMonth == {p \in TakenIn(y, n) : payments[p].month = m}
                          same == {p \in ofMonth : payments[p].currency = r.currency}
                      IN  /\ r.revenue = SumOf(same, "received")
                          /\ r.net = r.revenue - SumOf(same, "refunded")
                          /\ r.count = Cardinality(same)
                          /\ r.count = 0 => ofMonth = {}
    BY DEF MonthsAreOfOneCurrency
  <1>1. /\ r.revenue = SumOf(Counted(y, n, m, r), "received")
        /\ r.net = r.revenue - SumOf(Counted(y, n, m, r), "refunded")
        /\ r.count = Cardinality(Counted(y, n, m, r))
        /\ Counted(y, n, m, r) = {} => OfMonth(y, n, m) = {}
    BY MonthFigures
  <1>2. IsFiniteSet(Counted(y, n, m, r))
    BY TakenFacts, FS_Subset DEF Counted, OfMonth, TakenIn
  <1>3. r.count = 0 => Counted(y, n, m, r) = {}
    BY <1>1, <1>2, FS_EmptySet
  <1> QED
    BY <1>1, <1>3 DEF Counted, OfMonth

-----------------------------------------------------------------------------
(* The months add up to the headline.                                      *)

\* The payments that the months of all years count, together.
InMonths(n, months) ==
    {p \in Taken(n) :
       payments[p].currency = months[<<payments[p].year, payments[p].month>>].currency}

\* Those that the month d, whose row is r, counts.
CountedOn(n, d, r) == Counted(d[1], n, d[2], r)

\* f has, for each month, what the measure u gives those of the payments in B it counts.
Measures(f, u, n, months, B) ==
    /\ f = [d \in Calendar |-> f[d]]
    /\ \A d \in Calendar : f[d] = u[CountedOn(n, d, months[d]) \cap B]

\* Such figures, summed, are what u gives InMonths in B.
SumsTo(f, u, n, months, B) == SumFunction(f) = u[InMonths(n, months) \cap B]

LEMMA MonthsSum ==
    ASSUME ReportsTypeOK, NEW n, NEW months, NEW B, NEW u, IsMeasure(u, Payment),
           NEW f, Measures(f, u, n, months, B)
    PROVE  SumsTo(f, u, n, months, B)
  <1>1. PICK A, of : /\ A = InMonths(n, months) \cap B
                     /\ of = [p \in A |-> <<payments[p].year, payments[p].month>>]
    OBVIOUS
  <1>2. A \in SUBSET Payment /\ \A p \in A : of[p] \in Calendar
    BY <1>1, TakenFacts DEF InMonths, Calendar
  <1>3. \A d \in Calendar : f[d] = u[Part(A, of, d)]
    <2> SUFFICES ASSUME NEW d \in Calendar PROVE f[d] = u[Part(A, of, d)]
      OBVIOUS
    <2>1. PICK y \in Year, m \in Month : d = <<y, m>>
      BY DEF Calendar
    <2>2. Part(A, of, d) = CountedOn(n, d, months[d]) \cap B
      BY <1>1, <2>1 DEF InMonths, CountedOn, Counted, OfMonth, TakenIn, Part
    <2> QED
      BY <2>2 DEF Measures
  <1>4. f \in [Calendar -> Int]
    <2>1. \A d \in Calendar : Part(A, of, d) \in SUBSET Payment
      BY <1>2 DEF Part
    <2>2. \A S \in SUBSET Payment : u[S] \in Int
      BY DEF IsMeasure
    <2>3. \A d \in Calendar : f[d] \in Int
      BY <1>3, <2>1, <2>2
    <2> QED
      BY <2>3 DEF Measures
  <1>5. IsFiniteSet(Calendar)
    BY ReportsAssumption, FS_Product DEF Calendar
  <1>6. PICK g : IsSum(g, f, Calendar)
    BY <1>4, <1>5, SumExists
  <1>7. g[Calendar] = u[A]
    BY <1>2, <1>3, <1>5, <1>6, MonthByMonth
  <1>8. SumFunctionOnSet(f, Calendar) = g[Calendar]
    BY <1>4, <1>5, <1>6, SumIs
  <1>9. SumFunction(f) = SumFunctionOnSet(f, Calendar)
    BY <1>4 DEF SumFunction
  <1> QED
    BY <1>1, <1>7, <1>8, <1>9 DEF SumsTo

\* The measure of what is left of the payments after their refunds.
LEMMA NetIs ==
    ASSUME ReportsTypeOK
    PROVE  \E u : /\ IsMeasure(u, Payment)
                  /\ \A S \in SUBSET Payment : u[S] = SumOf(S, "received") - SumOf(S, "refunded")
  <1>1. PICK v : /\ IsMeasure(v, Payment)
                 /\ \A S \in SUBSET Payment : SumOf(S, "received") = v[S]
    BY SumOfIs DEF Amounts
  <1>2. PICK w : /\ IsMeasure(w, Payment)
                 /\ \A S \in SUBSET Payment : SumOf(S, "refunded") = w[S]
    BY SumOfIs DEF Amounts
  <1>3. PICK u : u = [S \in SUBSET Payment |-> v[S] - w[S]]
    OBVIOUS
  <1>4. IsMeasure(u, Payment)
    BY <1>1, <1>2, <1>3, DifferenceIsMeasure
  <1>5. \A S \in SUBSET Payment : u[S] = SumOf(S, "received") - SumOf(S, "refunded")
    BY <1>1, <1>2, <1>3
  <1> QED
    BY <1>4, <1>5

\* What each month of all years shows.
Shown(n, months) ==
    \A d \in Calendar : \E S \in SUBSET Payment :
      /\ S = CountedOn(n, d, months[d])
      /\ months[d].net = SumOf(S, "received") - SumOf(S, "refunded")
      /\ months[d].count = Cardinality(S)
      /\ S = {} => OfMonth(d[1], n, d[2]) = {}

\* It is shown whatever order the rows of each year come in.
LEMMA CalendarFigures ==
    ASSUME ReportsTypeOK, NEW n, NEW o \in Orders(n) PROVE Shown(n, Months(o))
  <1> SUFFICES ASSUME NEW d \in Calendar, NEW r, r = Months(o)[d],
                      NEW S, S = CountedOn(n, d, r)
               PROVE  /\ S \in SUBSET Payment
                      /\ r.net = SumOf(S, "received") - SumOf(S, "refunded")
                      /\ r.count = Cardinality(S)
                      /\ S = {} => OfMonth(d[1], n, d[2]) = {}
    BY DEF Shown
  <1>1. PICK y \in Year, m \in Month : y = d[1] /\ m = d[2]
    BY DEF Calendar
  <1>2. PICK rows \in SetToSeqs(QueryRows(y, n)) : rows = o[y]
    BY DEF Orders
  <1>3. r = MonthlyRevenue(rows)[m]
    BY <1>1, <1>2 DEF Months
  <1>4. /\ r.revenue = SumOf(Counted(y, n, m, r), "received")
        /\ r.net = r.revenue - SumOf(Counted(y, n, m, r), "refunded")
        /\ r.count = Cardinality(Counted(y, n, m, r))
        /\ Counted(y, n, m, r) = {} => OfMonth(y, n, m) = {}
    BY <1>3, MonthFigures
  <1>5. S = Counted(y, n, m, r)
    BY <1>1 DEF CountedOn
  <1>6. S \in SUBSET Payment
    BY <1>5, TakenFacts DEF Counted, OfMonth, TakenIn
  <1> QED
    BY <1>1, <1>4, <1>5, <1>6

\* All months together count InMonths ...
LEMMA CountOfMonths ==
    ASSUME ReportsTypeOK, NEW n, NEW months, Shown(n, months)
    PROVE  Total(months, "count") = Cardinality(InMonths(n, months))
  <1>1. PICK u : u = [S \in SUBSET Payment |-> Cardinality(S)]
    OBVIOUS
  <1>2. IsMeasure(u, Payment)
    BY <1>1, CardinalityIsMeasure, ReportsAssumption
  <1>3. PICK f : f = [d \in Calendar |-> months[d].count]
    OBVIOUS
  <1>4. PICK B : B = Payment
    OBVIOUS
  <1>5. Measures(f, u, n, months, B)
    <2>1. ASSUME NEW d \in Calendar PROVE f[d] = u[CountedOn(n, d, months[d]) \cap B]
      <3>1. PICK S \in SUBSET Payment : S = CountedOn(n, d, months[d]) /\ f[d] = Cardinality(S)
        BY <1>3 DEF Shown
      <3>2. S \cap B = S
        BY <1>4
      <3> QED
        BY <1>1, <3>1, <3>2
    <2> QED
      BY <1>3, <2>1 DEF Measures
  <1>6. SumsTo(f, u, n, months, B)
    BY <1>2, <1>5, MonthsSum
  <1>7. InMonths(n, months) \cap B = InMonths(n, months) /\ InMonths(n, months) \in SUBSET Payment
    BY <1>4, TakenFacts DEF InMonths
  <1> QED
    BY <1>1, <1>3, <1>6, <1>7 DEF Total, SumsTo

\* ... net what is left of InMonths, and in each currency what is left of those in it.
LEMMA NetOfMonths ==
    ASSUME ReportsTypeOK, NEW n, NEW months, Shown(n, months), NEW u, IsMeasure(u, Payment),
           \A S \in SUBSET Payment : u[S] = SumOf(S, "received") - SumOf(S, "refunded")
    PROVE  /\ Total(months, "net") = u[InMonths(n, months)]
           /\ \A c \in Currency :
                TotalIn(months, "net", c) = u[InMonths(n, months) \cap TakenOf(n, c)]
  <1>1. Total(months, "net") = u[InMonths(n, months)]
    <2>1. PICK f : f = [d \in Calendar |-> months[d].net]
      OBVIOUS
    <2>2. PICK B : B = Payment
      OBVIOUS
    <2>3. Measures(f, u, n, months, B)
      <3>1. ASSUME NEW d \in Calendar PROVE f[d] = u[CountedOn(n, d, months[d]) \cap B]
        <4>1. PICK S \in SUBSET Payment : S = CountedOn(n, d, months[d]) /\ f[d] = u[S]
          BY <2>1 DEF Shown
        <4>2. S \cap B = S
          BY <2>2
        <4> QED
          BY <4>1, <4>2
      <3> QED
        BY <2>1, <3>1 DEF Measures
    <2>4. SumsTo(f, u, n, months, B)
      BY <2>3, MonthsSum
    <2>5. InMonths(n, months) \cap B = InMonths(n, months)
      BY <2>2, TakenFacts DEF InMonths
    <2> QED
      BY <2>1, <2>4, <2>5 DEF Total, SumsTo
  <1>2. ASSUME NEW c \in Currency
        PROVE  TotalIn(months, "net", c) = u[InMonths(n, months) \cap TakenOf(n, c)]
    <2>1. PICK f : f = [d \in Calendar |-> IF months[d].currency = c THEN months[d].net ELSE 0]
      OBVIOUS
    <2>2. PICK B : B = TakenOf(n, c)
      OBVIOUS
    <2>3. Measures(f, u, n, months, B)
      <3>1. ASSUME NEW d \in Calendar PROVE f[d] = u[CountedOn(n, d, months[d]) \cap B]
        <4>1. PICK S \in SUBSET Payment :
                S = CountedOn(n, d, months[d]) /\ months[d].net = u[S]
          BY DEF Shown
        <4>2. S \subseteq Taken(n) /\ \A p \in S : payments[p].currency = months[d].currency
          BY <4>1 DEF CountedOn, Counted, OfMonth, TakenIn
        <4>3. CASE months[d].currency = c
          <5>1. S \cap B = S
            BY <2>2, <4>2, <4>3 DEF TakenOf
          <5> QED
            BY <2>1, <4>1, <4>3, <5>1
        <4>4. CASE months[d].currency # c
          <5>1. S \cap B = {}
            BY <2>2, <4>2, <4>4 DEF TakenOf
          <5> QED
            BY <2>1, <4>1, <4>4, <5>1 DEF IsMeasure
        <4> QED
          BY <4>3, <4>4
      <3> QED
        BY <2>1, <3>1 DEF Measures
    <2>4. SumsTo(f, u, n, months, B)
      BY <2>3, MonthsSum
    <2> QED
      BY <2>1, <2>2, <2>4 DEF TotalIn, SumsTo
  <1> QED
    BY <1>1, <1>2

\* A month shows nothing of a payment only where it mixes currencies.
LEMMA UnmixedCountsAll ==
    ASSUME ReportsTypeOK, NEW n, NEW months, Shown(n, months), ~MixesCurrencies(n)
    PROVE  InMonths(n, months) = Taken(n)
  <1>1. ASSUME NEW p \in Taken(n) PROVE p \in InMonths(n, months)
    <2>1. PICK y \in Year, m \in Month : y = payments[p].year /\ m = payments[p].month
      BY TakenFacts
    <2>2. PICK d \in Calendar : d = <<y, m>>
      BY DEF Calendar
    <2>3. OfMonth(d[1], n, d[2]) # {}
      BY <2>1, <2>2 DEF OfMonth, TakenIn
    <2>4. PICK q : q \in CountedOn(n, d, months[d])
      BY <2>3 DEF Shown
    <2>5. /\ q \in Taken(n) /\ payments[q].year = y /\ payments[q].month = m
          /\ payments[q].currency = months[d].currency
      BY <2>2, <2>4 DEF CountedOn, Counted, OfMonth, TakenIn
    <2>6. payments[p].currency = payments[q].currency
      BY <2>1, <2>5 DEF MixesCurrencies
    <2> QED
      BY <2>1, <2>2, <2>5, <2>6 DEF InMonths
  <1> QED
    BY <1>1 DEF InMonths

LEMMA HeadlineAgrees == ASSUME ReportsTypeOK PROVE MonthsAddUpToHeadline
  <1> SUFFICES ASSUME NEW n \in Anyone, NEW months, Shown(n, months)
               PROVE  IF MixesCurrencies(n)
                      THEN Total(months, "count") < Summary(n).succeededCount
                      ELSE /\ Total(months, "count") = Summary(n).succeededCount
                           /\ \A c \in Currency :
                                /\ TotalIn(months, "net", c) = SumOf(TakenOf(n, c), "received")
                                                                 - SumOf(TakenOf(n, c), "refunded")
                                /\ Taken(n) = TakenOf(n, c) =>
                                     Total(months, "net") = Summary(n).netReceived
    BY CalendarFigures DEF MonthsAddUpToHeadline
  <1> DEFINE A == InMonths(n, months)
  <1>1. /\ A \subseteq Taken(n) /\ Taken(n) \in SUBSET Payment
        /\ Cardinality(A) \in Nat /\ Cardinality(Taken(n)) \in Nat
        /\ Cardinality(A) <= Cardinality(Taken(n))
        /\ Cardinality(A) = Cardinality(Taken(n)) => A = Taken(n)
    <2>1. A \in SUBSET Taken(n) /\ Taken(n) \in SUBSET Payment /\ IsFiniteSet(Taken(n))
      BY TakenFacts DEF InMonths
    <2>2. /\ IsFiniteSet(A) /\ Cardinality(A) <= Cardinality(Taken(n))
          /\ Cardinality(A) = Cardinality(Taken(n)) => A = Taken(n)
      BY <2>1, FS_Subset
    <2> QED
      BY <2>1, <2>2, FS_CardinalityType
  <1>2. Total(months, "count") = Cardinality(A)
    BY CountOfMonths
  <1>3. PICK u : /\ IsMeasure(u, Payment)
                 /\ \A S \in SUBSET Payment : u[S] = SumOf(S, "received") - SumOf(S, "refunded")
    BY NetIs
  <1>4. /\ Total(months, "net") = u[A]
        /\ \A c \in Currency : TotalIn(months, "net", c) = u[A \cap TakenOf(n, c)]
    BY <1>3, NetOfMonths
  <1>5. /\ Summary(n).succeededCount = Cardinality(Taken(n))
        /\ Summary(n).netReceived = SumOf(Taken(n), "received") - SumOf(Taken(n), "refunded")
    BY DEF Summary
  <1>6. CASE MixesCurrencies(n)
    <2>1. PICK p \in Taken(n), q \in Taken(n) :
            /\ payments[p].year = payments[q].year
            /\ payments[p].month = payments[q].month
            /\ payments[p].currency # payments[q].currency
      BY <1>6 DEF MixesCurrencies
    <2>2. A # Taken(n)
      BY <2>1 DEF InMonths
    <2>3. Cardinality(A) < Cardinality(Taken(n))
      BY <1>1, <2>2
    <2> QED
      BY <1>2, <1>5, <1>6, <2>3
  <1>7. CASE ~MixesCurrencies(n)
    <2>1. A = Taken(n)
      BY <1>7, UnmixedCountsAll
    <2>2. ASSUME NEW c \in Currency
          PROVE  /\ TotalIn(months, "net", c) = SumOf(TakenOf(n, c), "received")
                                                  - SumOf(TakenOf(n, c), "refunded")
                 /\ Total(months, "net") = Summary(n).netReceived
      <3>1. A \cap TakenOf(n, c) = TakenOf(n, c) /\ TakenOf(n, c) \in SUBSET Payment
        BY <1>1, <2>1 DEF TakenOf
      <3> QED
        BY <1>1, <1>3, <1>4, <1>5, <2>1, <3>1
    <2>3. Total(months, "count") = Summary(n).succeededCount
      BY <1>2, <1>5, <2>1
    <2> QED
      BY <1>7, <2>2, <2>3
  <1> QED
    BY <1>6, <1>7

-----------------------------------------------------------------------------
\* Every payment that was made has a platform, a year and a month, whatever is saved over it.
THEOREM ReportsTypeCorrect == ReportsSpec => []ReportsTypeOK
  BY TableInit, TableNext, PTL DEF ReportsSpec

\* Whatever mix of currencies a month has and in whatever order the database returns the
\* rows (monthlyRevenue, reports.service.ts:27-73), the month's figures are those of all its
\* payments in one currency, and nothing only if nothing was received.
THEOREM MonthsOfOneCurrency == ReportsSpec => []MonthsAreOfOneCurrency
  BY OneCurrency, ReportsTypeCorrect, PTL

\* As long as no month mixes currencies, the months of all years count what the headline
\* counts, net in each currency what was received in it, and net the headline where there is
\* but one; as soon as one does, they show fewer payments (monthlyRevenue, which asks for a
\* year, and summary, which does not: reports.service.ts:27-98).
THEOREM MonthsAndHeadline == ReportsSpec => []MonthsAddUpToHeadline
  BY HeadlineAgrees, ReportsTypeCorrect, PTL
=============================================================================
