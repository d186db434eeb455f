------------------------------- MODULE Refunds -------------------------------
(***************************************************************************)
(* refunds/refunds.service.ts and PaymentsService.recalculateRefunded, for *)
(* one payment that succeeded: refunds made at Stripe, their local rows,   *)
(* and the payment's running total of them.                                *)
(*                                                                         *)
(* task[t] is a request or a handler in progress, between two awaits, as   *)
(* in Payments.  The total is a column of the payment's row, which is saved*)
(* whole: by recalculateRefunded, and by every handler and request of      *)
(* Payments, which writes back the total it read (PaymentRead).            *)
(***************************************************************************)
EXTENDS Integers, Functions

CONSTANTS Task,      \* bound: requests and handlers in progress at once
          MaxRefund, \* bound: refunds are numbered 1..MaxRefund at Stripe
          Received,  \* amountReceived of the payment
          Faults     \* whether steps may fail

ASSUME RefundsAssumption == /\ MaxRefund \in Nat
                            /\ Received \in Nat
                            /\ Faults \in BOOLEAN

VARIABLES made,     \* the refunds at Stripe
          row,      \* the refunds table: the status of each refund's row
          refunded, \* amountRefunded of the payment
          task,     \* requests and handlers in progress
          disturbed \* whether two tasks ever overlapped or a step failed

vars == <<made, row, refunded, task, disturbed>>

Refund == 1 .. MaxRefund

RefundStatus == {"pending", "requires_action", "succeeded", "failed", "canceled"}

Stored == RefundStatus \cup {"none"}

\* had: every status so far.
Made == [status : Stored, had : SUBSET RefundStatus, amount : 0 .. Received]

NotMade == [status |-> "none", had |-> {}, amount |-> 0]

\* status is that of the refund the task holds; total and loaded are the
\* payment's total it holds and the refunds it loaded with the payment.
TaskState == [pc     : {"idle", "call", "insert", "cancel", "save", "recalc", "total"},
              r      : 0 .. MaxRefund,
              amount : 0 .. Received,
              status : Stored,
              total  : Nat,
              loaded : SUBSET Refund]

Idle == [pc |-> "idle", r |-> 0, amount |-> 0, status |-> "none", total |-> 0,
         loaded |-> {}]

TypeOK == /\ made \in [Refund -> Made]
          /\ row \in [Refund -> Stored]
          /\ refunded \in Nat
          /\ task \in [Task -> TaskState]
          /\ disturbed \in BOOLEAN

Init == /\ made = [r \in Refund |-> NotMade]
        /\ row = [r \in Refund |-> "none"]
        /\ refunded = 0
        /\ task = [t \in Task |-> Idle]
        /\ disturbed = FALSE

-----------------------------------------------------------------------------
(* Stripe: it makes refunds, and they go their way.                        *)

TotalOf(S) == SumFunction([r \in S |-> made[r].amount])

\* Where a refund may go from each status.
After == [none            |-> {"pending", "requires_action", "succeeded"},
          pending         |-> {"succeeded", "failed"},
          requires_action |-> {"succeeded", "failed", "canceled"},
          succeeded       |-> {"failed"},
          failed          |-> {},
          canceled        |-> {}]

\* Stripe itself never gives back more than was received.
Acceptable(amount) ==
    TotalOf({r \in Refund : made[r].status \notin {"none", "failed", "canceled"}})
        + amount <= Received

CreateRefund(r, amount, s) ==
    /\ made[r].status = "none"
    /\ \A q \in 1 .. r - 1 : made[q].status # "none"
    /\ Acceptable(amount)
    /\ made' = [made EXCEPT ![r] = [status |-> s, had |-> {s}, amount |-> amount]]

Change(r, s) ==
    /\ made[r].status # "none"
    /\ s \in After[made[r].status]
    /\ made' = [made EXCEPT ![r].status = s, ![r].had = @ \cup {s}]

-----------------------------------------------------------------------------
(* Steps of a task.                                                        *)

Start(t, state) ==
    /\ task[t].pc = "idle"
    /\ task' = [task EXCEPT ![t] = state]
    /\ disturbed' = (disturbed \/ \E u \in Task : task[u].pc # "idle")

Goto(t, state) == task' = [task EXCEPT ![t] = state] /\ UNCHANGED disturbed

Finish(t) == Goto(t, Idle)

Recorded == {r \in Refund : row[r] # "none"}

\* A refund counts against the payment once it is on its way.
Counts(s) == s \in {"succeeded", "pending"}

-----------------------------------------------------------------------------
(* POST /refunds                                                           *)

\* The amount is checked against the total in the row just read.  (A payment that
\* has not succeeded, or has no PaymentIntent, is refused.)  The Idempotency-Key the
\* endpoint documents is not read: a retry is one more refund asked for.
Create(t) ==
    /\ \E amount \in 1 .. Received - refunded :
         Start(t, [Idle EXCEPT !.pc = "call", !.amount = amount])
    /\ UNCHANGED <<made, row, refunded>>

\* Stripe makes the refund.  (That its answer is lost is an Abort after this step.)
CreateCall(t) ==
    /\ task[t].pc = "call"
    /\ \E r \in Refund, s \in After["none"] :
         /\ CreateRefund(r, task[t].amount, s)
         /\ Goto(t, [task[t] EXCEPT !.pc = "insert", !.r = r, !.status = s, !.amount = 0])
    /\ UNCHANGED <<row, refunded>>

\* More than Stripe has left to give back: the call throws.
CreateRefused(t) ==
    /\ task[t].pc = "call"
    /\ ~Acceptable(task[t].amount)
    /\ Finish(t)
    /\ UNCHANGED <<made, row, refunded>>

Insert(t) ==
    /\ task[t].pc = "insert"
    /\ row' = [row EXCEPT ![task[t].r] = task[t].status]
    /\ Goto(t, [Idle EXCEPT !.pc = "recalc"])
    /\ UNCHANGED <<made, refunded>>

-----------------------------------------------------------------------------
(* POST /refunds/:id/cancel and the refund events                          *)

Cancel(t, r) ==
    /\ row[r] = "requires_action"
    /\ Start(t, [Idle EXCEPT !.pc = "cancel", !.r = r])
    /\ UNCHANGED <<made, row, refunded>>

\* Variant: that Stripe would not cancel is not noticed.
CancelAnyway(t) ==
    /\ task[t].pc = "cancel"
    /\ IF made[task[t].r].status = "requires_action"
       THEN Change(task[t].r, "canceled")
       ELSE UNCHANGED made
    /\ Goto(t, [task[t] EXCEPT !.pc = "save", !.status = "canceled"])
    /\ UNCHANGED <<row, refunded>>

CancelCall(t) ==
    /\ task[t].pc = "cancel"
    /\ made[task[t].r].status = "requires_action"
    /\ Change(task[t].r, "canceled")
    /\ Goto(t, [task[t] EXCEPT !.pc = "save", !.status = "canceled"])
    /\ UNCHANGED <<row, refunded>>

CancelRefused(t) ==
    /\ task[t].pc = "cancel"
    /\ made[task[t].r].status # "requires_action"
    /\ Finish(t)
    /\ UNCHANGED <<made, row, refunded>>

\* syncFromStripeRefund: the snapshot in an event is applied.  Every status the
\* refund has had was reported, by one event or several (refund.updated and
\* charge.refund.updated both), which come in any order or never.  One that comes
\* before the refund's row, or without one, is dropped.
SyncFromStripeRefund(t, r) ==
    /\ row[r] # "none"
    /\ \E s \in made[r].had : Start(t, [Idle EXCEPT !.pc = "save", !.r = r, !.status = s])
    /\ UNCHANGED <<made, row, refunded>>

\* Variant: the total is left to the next refund.
SaveOnly(t) ==
    /\ task[t].pc = "save"
    /\ row' = [row EXCEPT ![task[t].r] = task[t].status]
    /\ Finish(t)
    /\ UNCHANGED <<made, refunded>>

Save(t) ==
    /\ task[t].pc = "save"
    /\ row' = [row EXCEPT ![task[t].r] = task[t].status]
    /\ Goto(t, [Idle EXCEPT !.pc = "recalc"])
    /\ UNCHANGED <<made, refunded>>

-----------------------------------------------------------------------------
(* recalculateRefunded                                                     *)

\* Variants: the sum is added to the total; failed refunds are taken off it.
AddedAgain == refunded + TotalOf({r \in Refund : Counts(row[r])})
TakenOff == refunded - TotalOf({r \in Refund : row[r] = "failed"})

Recalculated == TotalOf({r \in Refund : Counts(row[r])})

\* The payment is read together with its refunds.
RecalculateRefunded(t) ==
    /\ task[t].pc = "recalc"
    /\ Goto(t, [task[t] EXCEPT !.pc = "total", !.total = Recalculated, !.loaded = Recorded])
    /\ UNCHANGED <<made, row, refunded>>

\* A handler or a request of Payments reads the row, the request with its refunds.
PaymentRead(t) ==
    /\ \E loaded \in {Refund, Recorded} :
         Start(t, [Idle EXCEPT !.pc = "total", !.total = refunded, !.loaded = loaded])
    /\ UNCHANGED <<made, row, refunded>>

\* The payment is saved as it was read.  TypeORM takes a refund missing from the
\* list loaded with it as removed from the payment and clears its paymentId, which
\* the column forbids: the save throws if a refund was recorded since.
SavePayment(t) ==
    /\ task[t].pc = "total"
    /\ IF Recorded \subseteq task[t].loaded
       THEN refunded' = task[t].total
       ELSE UNCHANGED refunded
    /\ Finish(t)
    /\ UNCHANGED <<made, row>>

-----------------------------------------------------------------------------
\* A crash or an error of the database or the network ends the task where it is.
Abort(t) ==
    /\ Faults
    /\ task[t].pc # "idle"
    /\ task' = [task EXCEPT ![t] = Idle]
    /\ disturbed' = TRUE
    /\ UNCHANGED <<made, row, refunded>>

Continue(t) == \/ CreateCall(t) \/ CreateRefused(t) \/ Insert(t)
               \/ CancelCall(t) \/ CancelRefused(t) \/ Save(t)
               \/ RecalculateRefunded(t) \/ SavePayment(t)

Stripe == /\ \E r \in Refund, s \in RefundStatus : Change(r, s)
          /\ UNCHANGED <<row, refunded, task, disturbed>>

Next == \/ Stripe
        \/ \E t \in Task :
             \/ Create(t)
             \/ \E r \in Refund : Cancel(t, r) \/ SyncFromStripeRefund(t, r)
             \/ PaymentRead(t)
             \/ Continue(t)
             \/ Abort(t)

Spec == Init /\ [][Next]_vars

-----------------------------------------------------------------------------
Mirror == INSTANCE StatusMirror
    WITH Object <- Refund, Status <- RefundStatus, None <- "none",
         had <- [r \in Refund |-> made[r].had], mirror <- row

\* However late and in whatever order answers and events are saved, a refund's row
\* says what the refund is or was at Stripe, never what it did not reach, and no refund
\* loses its row: the service implements StatusMirror.
Implements == Mirror!Spec

\* The total is at any time the sum of some of the recorded refunds: none is counted
\* twice, and none that is not on record.
TotalIsOfRefunds == \E S \in SUBSET Recorded : refunded = TotalOf(S)

Quiet == \A t \in Task : task[t].pc = "idle"

Agrees == refunded = TotalOf({r \in Refund : row[r] \in {"succeeded", "pending"}})

\* Requests and events taken one after the other, every one leaves the total that
\* recalculateRefunded defines: the refunds that are succeeded or pending
\* (payments.service.ts:578-580), whichever way each of them changed.  A pending refund
\* counts, so that the cap of refunds.service.ts:46-55 sees money that is on its way; the
\* column's comment has it otherwise, "total of succeeded refunds" (payment.entity.ts:119).
AgreesInTurn == Quiet /\ ~disturbed => Agrees

\* "Recomputes the refunded total after a refund changes state"
\* (payments.service.ts:571): whatever overlapped, when nothing is in progress the
\* total is the one recalculateRefunded would compute.
RefundedTotalAgrees == Quiet => Agrees
=============================================================================
