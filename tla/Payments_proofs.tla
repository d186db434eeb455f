---------------------------- MODULE Payments_proofs ----------------------------
(***************************************************************************)
(* Proofs about Payments, for any number of payments, tasks, moves and any *)
(* amount, and any interleaving, fault and delay (Spec, not FairSpec): what*)
(* rows and notices say is true, and no save takes the session id off a row*)
(***************************************************************************)
EXTENDS Payments, TLAPS

\* True(p, s, r), as a predicate of the object o that Stripe has for p.
Claim(o, s, r) == /\ s = "succeeded" => o.intent = "succeeded" \/ Free(o)
                  /\ s = "canceled" => o.intent = "canceled"
                  /\ r > 0 => o.intent = "succeeded" /\ r = o.received

\* What Stripe never takes back when object o becomes n.
Grows(o, n) == /\ o.intent = "succeeded" =>
                    n.intent = "succeeded" /\ n.received = o.received
               /\ o.intent = "canceled" => n.intent = "canceled"
               /\ Free(o) => Free(n)

Grown == \A p \in Payment : Grows(stripe[p], stripe'[p])

Sound(o) == /\ o.received > 0 => o.intent = "succeeded"
            /\ o.session = "open" => o.intent = "none"

\* An event's snapshot is a claim too, and a session event without an intent means
\* that nothing was to be paid.
EventOK(e, o) == /\ Claim(o, e.intent, e.received)
                 /\ e.kind = "intent" => e.intent # "none"
                 /\ e.kind # "intent" /\ e.intent = "none" => Free(o)

RowOK(r, o) == /\ Claim(o, r.status, r.received)
               /\ r.status = "none" => o = NoObject /\ r = NoRow

Creating(x) == x.pc = "call" /\ x.op = "create"

\* What a task x knows between its awaits, whatever others do meanwhile: its copy
\* and, once Stripe has answered, its note are claims; its row is there; the
\* object create is about to make is not.
TaskOK(x, o, r) ==
    x.pc # "idle" =>
        /\ x.p \in Payment
        /\ x.copy.status # "none"
        /\ r.status # "none"
        /\ Claim(o, x.copy.status, x.copy.received)
        /\ x.pc # "call" => Claim(o, x.note, 0)
        /\ x.note = "captured" =>
             /\ x.op = "capture" /\ x.pc \in {"call", "save", "emit"}
             /\ x.pc # "call" => x.copy.status = "succeeded"
        /\ Creating(x) => o = NoObject

ToldOK(n, o) == /\ Claim(o, n.status, 0)
                /\ Claim(o, n.name, 0)
                /\ n.name = "captured" => n.status = "succeeded"

StripeInv == /\ StripeTypeOK
             /\ \A p \in Payment : Sound(stripe[p])
             /\ \A e \in events : EventOK(e, stripe[e.p])

RowInv == /\ row \in [Payment -> Entity]
          /\ \A p \in Payment : RowOK(row[p], stripe[p])

TaskInv == /\ task \in [Task -> TaskState]
           /\ \A t \in Task : TaskOK(task[t], stripe[task[t].p], row[task[t].p])
           /\ \A t, u \in Task : Creating(task[t]) /\ Creating(task[u])
                                   /\ task[t].p = task[u].p => t = u

Told == [name : Notice, status : PaymentStatus \cup {"none"}]

ToldInv == /\ told \in [Payment -> Told]
           /\ \A p \in Payment : ToldOK(told[p], stripe[p])

IInv == StripeInv /\ RowInv /\ TaskInv /\ ToldInv

-----------------------------------------------------------------------------
(* Claims stay true.                                                       *)

LEMMA ClaimKept ==
    ASSUME NEW o, NEW n, NEW s, NEW r, Grows(o, n), Claim(o, s, r)
    PROVE  Claim(n, s, r)
  BY DEF Grows, Claim

LEMMA GrowsFromNone == ASSUME NEW n PROVE Grows(NoObject, n)
  BY DEF Grows, NoObject, Free

LEMMA NoEntity == /\ NoRow \in Entity /\ NewRow \in Entity /\ NoObject \in Object
                  /\ NoRow.status = "none" /\ NoRow.received = 0
                  /\ NewRow.status = "requires_payment_method" /\ NewRow.received = 0
  <1>1. 0 \in 0 .. Total
    BY StripeAssumption
  <1>2. NoObject \in Object
    BY <1>1 DEF NoObject, Object
  <1>3. NoRow \in Entity /\ NoRow.status = "none" /\ NoRow.received = 0
    BY <1>1 DEF NoRow, Entity
  <1>4. NewRow \in Entity /\ NewRow.status = "requires_payment_method"
        /\ NewRow.received = 0
    BY <1>1 DEF NewRow, NoRow, Entity, PaymentStatus, IntentStatus
  <1> QED
    BY <1>2, <1>3, <1>4

LEMMA IdleOK == /\ Idle \in TaskState /\ Idle.pc = "idle"
                /\ \A o, r : TaskOK(Idle, o, r)
  BY NoEntity DEF Idle, Doing, TaskState, Notice, TaskOK

LEMMA IInvInit == Init => IInv
  <1> SUFFICES ASSUME Init PROVE IInv
    OBVIOUS
  <1>1. \A s : s \notin {"succeeded", "canceled"} => Claim(NoObject, s, 0)
    BY DEF Claim
  <1>2. StripeInv
    BY NoEntity DEF Init, StripeInit, StripeInv, StripeTypeOK, Sound, NoObject
  <1>3. RowInv
    BY <1>1, NoEntity DEF Init, StripeInit, RowInv, RowOK
  <1>4. TaskInv
    BY IdleOK DEF Init, TaskInv, Creating
  <1>5. ToldInv
    BY <1>1 DEF Init, StripeInit, ToldInv, ToldOK, Told, Notice, PaymentStatus
  <1> QED
    BY <1>2, <1>3, <1>4, <1>5 DEF IInv

-----------------------------------------------------------------------------
(* What one object's move, one task's move and one row's change preserve.  *)

Kind == SessionEvent \cup {"intent"}

LEMMA ReportOK ==
    ASSUME StripeInv, NEW p \in Payment, NEW o \in Object, Sound(o),
           Grows(stripe[p], o), NEW kinds \in SUBSET Kind,
           "intent" \in kinds => o.intent # "none",
           o.intent = "none" /\ kinds # {} => Free(o),
           Report(p, o, kinds)
    PROVE  /\ StripeInv' /\ Grown /\ stripe'[p] = o
           /\ \A q \in Payment \ {p} : stripe'[q] = stripe[q]
  <1>1. /\ stripe' \in [Payment -> Object] /\ stripe'[p] = o
        /\ \A q \in Payment \ {p} : stripe'[q] = stripe[q]
    BY DEF StripeInv, StripeTypeOK, Report
  <1>2. Grown
    BY <1>1 DEF Grown, Grows
  <1>3. ASSUME NEW e \in events'
        PROVE  e \in Event /\ EventOK(e, stripe'[e.p])
    <2>1. CASE e \in events
      <3>1. e \in Event /\ e.p \in Payment /\ EventOK(e, stripe[e.p])
        BY <2>1 DEF StripeInv, StripeTypeOK, Event
      <3>2. Grows(stripe[e.p], stripe'[e.p])
        BY <1>2, <3>1 DEF Grown
      <3> QED
        BY <3>1, <3>2, ClaimKept DEF EventOK, Grows
    <2>2. CASE e \notin events
      <3>1. PICK k \in kinds : e = [p |-> p, kind |-> k, intent |-> o.intent,
                                    received |-> o.received, at |-> o.moves]
        BY <2>2, <1>3 DEF Report
      <3>2. e \in Event /\ e.p = p /\ e.kind = k /\ e.intent = o.intent
            /\ e.received = o.received
        BY <3>1 DEF Event, Object, Kind
      <3> QED
        BY <1>1, <3>2 DEF EventOK, Claim, Sound, Object
    <2> QED
      BY <2>1, <2>2
  <1> QED
    BY <1>1, <1>2, <1>3 DEF StripeInv, StripeTypeOK
LEMMA RowsKept ==
    ASSUME RowInv, Grown, UNCHANGED row,
           \A q \in Payment : stripe'[q] # stripe[q] => row[q].status # "none"
    PROVE  RowInv'
  <1>1. ASSUME NEW q \in Payment PROVE RowOK(row[q], stripe'[q])
    <2>1. RowOK(row[q], stripe[q]) /\ Grows(stripe[q], stripe'[q])
      BY DEF RowInv, Grown
    <2> QED
      BY <2>1, ClaimKept DEF RowOK
  <1> QED
    BY <1>1 DEF RowInv

LEMMA ToldKept == ASSUME ToldInv, Grown, UNCHANGED told PROVE ToldInv'
  <1>1. ASSUME NEW q \in Payment PROVE ToldOK(told[q], stripe'[q])
    <2>1. ToldOK(told[q], stripe[q]) /\ Grows(stripe[q], stripe'[q])
      BY DEF ToldInv, Grown
    <2> QED
      BY <2>1, ClaimKept DEF ToldOK
  <1> QED
    BY <1>1 DEF ToldInv

\* No row is ever deleted.
RowsStay == \A q \in Payment : row[q].status # "none" => row'[q].status # "none"

LEMMA RowWritten ==
    ASSUME RowInv, UNCHANGED stripe, NEW p \in Payment, NEW c \in Entity,
           c.status # "none", Claim(stripe[p], c.status, c.received),
           row' = [row EXCEPT ![p] = c]
    PROVE  RowInv' /\ RowsStay /\ row'[p] = c
  BY DEF RowInv, RowOK, RowsStay

\* What a task knows is still so after another's step.
LEMMA TaskStays ==
    ASSUME NEW x, Grown, RowsStay, TaskOK(x, stripe[x.p], row[x.p]),
           Creating(x) => stripe'[x.p] = stripe[x.p]
    PROVE  TaskOK(x, stripe'[x.p], row'[x.p])
  <1> SUFFICES ASSUME x.pc # "idle" PROVE TaskOK(x, stripe'[x.p], row'[x.p])
    BY DEF TaskOK
  <1>1. x.p \in Payment
    BY DEF TaskOK
  <1>2. Grows(stripe[x.p], stripe'[x.p]) /\ row'[x.p].status # "none"
    BY <1>1 DEF Grown, RowsStay, TaskOK
  <1> QED
    BY <1>2, ClaimKept DEF TaskOK

LEMMA OneTask ==
    ASSUME TaskInv, NEW t \in Task, NEW x \in TaskState,
           task' = [task EXCEPT ![t] = x], Grown, RowsStay,
           \A u \in Task \ {t} :
               Creating(task[u]) => stripe'[task[u].p] = stripe[task[u].p],
           TaskOK(x, stripe'[x.p], row'[x.p]),
           Creating(x) =>
               \A u \in Task \ {t} : Creating(task[u]) => task[u].p # x.p
    PROVE  TaskInv'
  <1>1. /\ task' \in [Task -> TaskState] /\ task'[t] = x
        /\ \A u \in Task \ {t} : task'[u] = task[u]
    BY DEF TaskInv
  <1>2. ASSUME NEW u \in Task
        PROVE  TaskOK(task'[u], stripe'[task'[u].p], row'[task'[u].p])
    <2>1. CASE u = t
      BY <1>1, <2>1
    <2>2. CASE u # t
      <3>1. task'[u] = task[u] /\ TaskOK(task[u], stripe[task[u].p], row[task[u].p])
        BY <1>1, <2>2 DEF TaskInv
      <3> QED
        BY <2>2, <3>1, TaskStays
    <2> QED
      BY <2>1, <2>2
  <1>3. ASSUME NEW u \in Task, NEW v \in Task, Creating(task'[u]), Creating(task'[v]),
               task'[u].p = task'[v].p
        PROVE  u = v
    BY <1>1, <1>3 DEF TaskInv
  <1> QED
    BY <1>1, <1>2, <1>3 DEF TaskInv

\* A step of one task that changes nothing else; an event may be consumed.
LEMMA LocalStep ==
    ASSUME IInv, NEW t \in Task, NEW x \in TaskState,
           task' = [task EXCEPT ![t] = x], UNCHANGED <<stripe, row, told>>,
           events' \subseteq events, ~Creating(x), TaskOK(x, stripe[x.p], row[x.p])
    PROVE  IInv'
  <1>1. Grown /\ RowsStay
    BY DEF Grown, Grows, RowsStay
  <1>2. StripeInv' /\ RowInv' /\ ToldInv'
    BY DEF IInv, StripeInv, StripeTypeOK, RowInv, ToldInv
  <1>3. TaskInv'
    BY <1>1, OneTask DEF IInv
  <1> QED
    BY <1>2, <1>3 DEF IInv

\* A call to Stripe by a task, which makes the object of p into o.
LEMMA CallStep ==
    ASSUME IInv, NEW t \in Task, NEW x \in TaskState,
           task[t].pc # "idle", Creating(task[t]) \/ stripe[task[t].p] # NoObject,
           task' = [task EXCEPT ![t] = x], UNCHANGED <<row, told>>,
           NEW o \in Object, Sound(o), Grows(stripe[task[t].p], o),
           NEW kinds \in SUBSET Kind, "intent" \in kinds => o.intent # "none",
           o.intent = "none" /\ kinds # {} => Free(o),
           Report(task[t].p, o, kinds),
           x.p = task[t].p, ~Creating(x), TaskOK(x, o, row[x.p])
    PROVE  IInv'
  <1> DEFINE p == task[t].p
  <1>1. p \in Payment /\ row[p].status # "none"
    BY DEF IInv, TaskInv, TaskOK
  <1>2. /\ StripeInv' /\ Grown /\ stripe'[p] = o
        /\ \A q \in Payment \ {p} : stripe'[q] = stripe[q]
    BY <1>1, ReportOK DEF IInv
  <1>3. RowInv' /\ ToldInv' /\ RowsStay
    BY <1>1, <1>2, RowsKept, ToldKept DEF IInv, RowsStay
  <1>4. ASSUME NEW u \in Task \ {t}, Creating(task[u])
        PROVE  stripe'[task[u].p] = stripe[task[u].p]
    <2>1. task[u].p \in Payment /\ stripe[task[u].p] = NoObject
      BY <1>4 DEF IInv, TaskInv, TaskOK, Creating
    <2>2. task[u].p # p
      BY <1>4, <2>1 DEF IInv, TaskInv
    <2> QED
      BY <1>2, <2>1, <2>2
  <1>5. TaskInv'
    BY <1>2, <1>3, <1>4, OneTask DEF IInv
  <1> QED
    BY <1>2, <1>3, <1>5 DEF IInv

\* A task's save of c as its row.
LEMMA SaveStep ==
    ASSUME IInv, NEW t \in Task, NEW x \in TaskState, task[t].pc # "idle",
           task' = [task EXCEPT ![t] = x], UNCHANGED <<stripe, events, told>>,
           NEW c \in Entity, c.status # "none",
           Claim(stripe[task[t].p], c.status, c.received),
           row' = [row EXCEPT ![task[t].p] = c],
           ~Creating(x), \A r : r.status # "none" => TaskOK(x, stripe[x.p], r),
           x.pc # "idle" => x.p = task[t].p
    PROVE  IInv'
  <1> DEFINE p == task[t].p
  <1>1. p \in Payment
    BY DEF IInv, TaskInv, TaskOK
  <1>2. RowInv' /\ RowsStay /\ row'[p] = c
    BY <1>1, RowWritten DEF IInv
  <1>3. Grown
    BY DEF Grown, Grows
  <1>4. TaskOK(x, stripe'[x.p], row'[x.p])
    BY <1>2 DEF TaskOK
  <1>5. TaskInv'
    BY <1>2, <1>3, <1>4, OneTask DEF IInv
  <1>6. StripeInv' /\ ToldInv'
    BY DEF IInv, StripeInv, StripeTypeOK, ToldInv
  <1> QED
    BY <1>2, <1>5, <1>6 DEF IInv

-----------------------------------------------------------------------------
(* What the helpers return.                                                *)

LEMMA DoingFields ==
    ASSUME NEW pc, NEW op, NEW p, NEW copy, NEW note
    PROVE  LET x == Doing(pc, op, p, copy, note)
           IN  x.pc = pc /\ x.op = op /\ x.p = p /\ x.copy = copy /\ x.note = note
  BY DEF Doing

LEMMA ApplyOK ==
    ASSUME NEW copy \in Entity, NEW s \in IntentStatus \cup {"none"},
           NEW received \in 0 .. Total
    PROVE  /\ Apply(copy, s, received) \in Entity
           /\ Apply(copy, s, received).status = MapIntentStatus(s)
           /\ Apply(copy, s, received).received = received
           /\ MapIntentStatus(s) \in PaymentStatus
           /\ MapIntentStatus(s) # "none"
           /\ MapIntentStatus(s) \in {"succeeded", "canceled"} => MapIntentStatus(s) = s
  <1>1. MapIntentStatus(s) \in PaymentStatus /\ MapIntentStatus(s) # "none"
    BY DEF MapIntentStatus, PaymentStatus, IntentStatus
  <1>2. Held(s) \in 0 .. Total
    BY StripeAssumption DEF Held
  <1>3. Apply(copy, s, received) \in Entity
    BY <1>1, <1>2 DEF Apply, Entity
  <1>4. /\ Apply(copy, s, received).status = MapIntentStatus(s)
        /\ Apply(copy, s, received).received = received
    BY DEF Apply, Entity
  <1>5. MapIntentStatus(s) \in {"succeeded", "canceled"} => MapIntentStatus(s) = s
    BY DEF MapIntentStatus
  <1> QED
    BY <1>1, <1>3, <1>4, <1>5

LEMMA MoveOK ==
    ASSUME NEW o \in Object, NEW s \in IntentStatus \cup {"none"}
    PROVE  LET n == MoveTo(o, s)
           IN  /\ n \in Object /\ n.intent = s /\ n.session = o.session
               /\ n.received > 0 => s = "succeeded"
  <1> DEFINE n == MoveTo(o, s)
  <1>1. n \in Object
    <2>1. PICK r \in 0 .. Total : r = IF s = "succeeded" THEN Total ELSE 0
      BY StripeAssumption
    <2>2. PICK m \in Nat : m = o.moves + 1
      BY DEF Object
    <2>3. n = [o EXCEPT !.intent = s, !.received = r, !.moves = m]
      BY <2>1, <2>2, Zenon DEF MoveTo
    <2>4. [o EXCEPT !.intent = s, !.received = r, !.moves = m] \in Object
      BY DEF Object
    <2> QED
      BY <2>3, <2>4, Zenon
  <1>2. n.intent = s /\ n.session = o.session
    BY DEF MoveTo, Object
  <1>3. n.received = IF s = "succeeded" THEN Total ELSE 0
    BY DEF MoveTo, Object
  <1> QED
    BY <1>1, <1>2, <1>3

-----------------------------------------------------------------------------
(* The ways a task starts, goes on and ends.                               *)

PC == {"call", "save", "attach", "fail", "session", "link", "retrieve", "emit"}

Op == {"create", "event"} \cup AllCalls

LEMMA TaskFacts ==
    ASSUME IInv, NEW t \in Task, task[t].pc # "idle"
    PROVE  LET x == task[t]
           IN  /\ x \in TaskState /\ x.p \in Payment
               /\ x.copy \in Entity /\ x.note \in Notice
               /\ row[x.p] \in Entity /\ stripe[x.p] \in Object
               /\ Sound(stripe[x.p]) /\ TaskOK(x, stripe[x.p], row[x.p])
  BY DEF IInv, TaskInv, TaskOK, TaskState, RowInv, StripeInv, StripeTypeOK

LEMMA DoingOK ==
    ASSUME NEW pc \in PC, NEW op \in Op \cup {"none"}, NEW p \in Payment,
           NEW copy \in Entity, NEW note \in Notice,
           NEW o, NEW r, copy.status # "none", r.status # "none",
           Claim(o, copy.status, copy.received),
           pc # "call" => Claim(o, note, 0),
           note = "captured" => /\ op = "capture" /\ pc \in {"call", "save", "emit"}
                                /\ pc # "call" => copy.status = "succeeded",
           pc = "call" /\ op = "create" => o = NoObject
    PROVE  LET x == Doing(pc, op, p, copy, note)
           IN  x \in TaskState /\ TaskOK(x, o, r) /\ x.p = p
  <1> DEFINE x == Doing(pc, op, p, copy, note)
  <1>1. x \in TaskState
    BY DEF Doing, TaskState, PC, Op
  <1>2. x.pc = pc /\ x.op = op /\ x.p = p /\ x.copy = copy /\ x.note = note
    BY DoingFields
  <1> HIDE DEF x
  <1>3. TaskOK(x, o, r)
    BY <1>2 DEF TaskOK, Creating
  <1> QED
    BY <1>1, <1>2, <1>3 DEF x

LEMMA Starts ==
    ASSUME IInv, NEW t \in Task, NEW pc \in PC, NEW op \in Op \ {"create"},
           NEW p \in Payment, NEW copy \in Entity, NEW note \in Notice,
           Start(t, pc, op, p, copy, note), UNCHANGED <<stripe, row, told>>,
           events' \subseteq events, copy.status # "none", row[p].status # "none",
           Claim(stripe[p], copy.status, copy.received),
           pc # "call" => Claim(stripe[p], note, 0),
           note = "captured" => op = "capture" /\ pc = "call"
    PROVE  IInv'
  <1> DEFINE x == Doing(pc, op, p, copy, note)
  <1>1. x \in TaskState /\ TaskOK(x, stripe[p], row[p]) /\ x.p = p
    BY DoingOK
  <1>2. ~Creating(x)
    BY DoingFields DEF Creating, Op
  <1>3. task' = [task EXCEPT ![t] = x]
    BY DEF Start
  <1> HIDE DEF x
  <1> QED
    BY <1>1, <1>2, <1>3, LocalStep

LEMMA Finishes ==
    ASSUME IInv, NEW t \in Task, Finish(t), UNCHANGED <<stripe, row, told>>,
           events' \subseteq events
    PROVE  IInv'
  BY IdleOK, LocalStep DEF Finish, Creating

\* Where a task goes on from one await to the next, with a copy and a note that are
\* claims about o.
GoesOn(t, pc, copy, note, o) ==
    /\ pc \in PC \ {"call"}
    /\ copy \in Entity /\ copy.status # "none" /\ note \in Notice
    /\ Claim(o, copy.status, copy.received) /\ Claim(o, note, 0)
    /\ note = "captured" => /\ task[t].op = "capture" /\ pc \in {"save", "emit"}
                            /\ copy.status = "succeeded"
    /\ Goto(t, pc, copy, note)

LEMMA GotoOK ==
    ASSUME IInv, NEW t \in Task, task[t].pc # "idle",
           NEW pc, NEW copy, NEW note, NEW o, NEW r, r.status # "none",
           GoesOn(t, pc, copy, note, o)
    PROVE  LET x == Doing(pc, task[t].op, task[t].p, copy, note)
           IN  /\ x \in TaskState /\ TaskOK(x, o, r) /\ x.p = task[t].p
               /\ ~Creating(x) /\ task' = [task EXCEPT ![t] = x]
  <1> DEFINE x == Doing(pc, task[t].op, task[t].p, copy, note)
  <1>1. task[t].op \in Op \cup {"none"} /\ task[t].p \in Payment
    BY TaskFacts DEF TaskState, Op
  <1>2. x \in TaskState /\ TaskOK(x, o, r) /\ x.p = task[t].p
    <2>1. /\ pc \in PC /\ pc # "call" /\ copy \in Entity /\ note \in Notice
          /\ copy.status # "none"
          /\ Claim(o, copy.status, copy.received)
          /\ pc # "call" => Claim(o, note, 0)
          /\ pc = "call" /\ task[t].op = "create" => o = NoObject
      BY DEF GoesOn
    <2>2. note = "captured" => /\ task[t].op = "capture" /\ pc \in {"call", "save", "emit"}
                               /\ pc # "call" => copy.status = "succeeded"
      BY DEF GoesOn
    <2> QED
      BY <1>1, <2>1, <2>2, DoingOK
  <1>3. ~Creating(x)
    BY DoingFields DEF Creating, GoesOn
  <1>4. task' = [task EXCEPT ![t] = x]
    BY TaskFacts DEF GoesOn, Goto, IInv, TaskInv
  <1> QED
    BY <1>2, <1>3, <1>4

LEMMA GoesOnLocally ==
    ASSUME IInv, NEW t \in Task, task[t].pc # "idle", NEW pc, NEW copy, NEW note,
           GoesOn(t, pc, copy, note, stripe[task[t].p]),
           UNCHANGED <<stripe, row, told>>, events' \subseteq events
    PROVE  IInv'
  <1> DEFINE x == Doing(pc, task[t].op, task[t].p, copy, note)
  <1>1. row[task[t].p].status # "none"
    BY TaskFacts DEF TaskOK
  <1>2. /\ x \in TaskState /\ TaskOK(x, stripe[x.p], row[x.p])
        /\ ~Creating(x) /\ task' = [task EXCEPT ![t] = x]
    BY <1>1, GotoOK
  <1> HIDE DEF x
  <1> QED
    BY <1>2, LocalStep

LEMMA GoesOnAfterCall ==
    ASSUME IInv, NEW t \in Task, task[t].pc # "idle", NEW pc, NEW copy, NEW note,
           Creating(task[t]) \/ stripe[task[t].p] # NoObject,
           NEW o \in Object, Sound(o), Grows(stripe[task[t].p], o),
           NEW kinds \in SUBSET Kind, "intent" \in kinds => o.intent # "none",
           o.intent = "none" /\ kinds # {} => Free(o),
           Report(task[t].p, o, kinds), GoesOn(t, pc, copy, note, o),
           UNCHANGED <<row, told>>
    PROVE  IInv'
  <1> DEFINE x == Doing(pc, task[t].op, task[t].p, copy, note)
  <1>1. row[task[t].p].status # "none"
    BY TaskFacts DEF TaskOK
  <1>2. /\ x \in TaskState /\ TaskOK(x, o, row[x.p]) /\ x.p = task[t].p
        /\ ~Creating(x) /\ task' = [task EXCEPT ![t] = x]
    BY <1>1, GotoOK
  <1> HIDE DEF x
  <1> QED
    BY <1>2, CallStep

LEMMA GoesOnAfterSave ==
    ASSUME IInv, NEW t \in Task, task[t].pc # "idle", NEW pc, NEW copy, NEW note,
           GoesOn(t, pc, copy, note, stripe[task[t].p]),
           NEW c \in Entity, c.status # "none",
           Claim(stripe[task[t].p], c.status, c.received),
           row' = [row EXCEPT ![task[t].p] = c], UNCHANGED <<stripe, events, told>>
    PROVE  IInv'
  <1> DEFINE x == Doing(pc, task[t].op, task[t].p, copy, note)
  <1>1. /\ x \in TaskState /\ x.p = task[t].p
        /\ ~Creating(x) /\ task' = [task EXCEPT ![t] = x]
    BY GotoOK, NoEntity
  <1>2. \A r : r.status # "none" => TaskOK(x, stripe[x.p], r)
    BY GotoOK
  <1> HIDE DEF x
  <1> QED
    BY <1>1, <1>2, SaveStep
-----------------------------------------------------------------------------
(* One lemma per action.                                                   *)

LEMMA CreateInsertOK ==
    ASSUME IInv, NEW t \in Task, CreateInsert(t) PROVE IInv'
  <1>1. PICK p \in Payment :
          /\ ~HasRow(p)
          /\ Start(t, "call", "create", p, NewRow, "created")
          /\ row' = [row EXCEPT ![p] = NewRow]
          /\ UNCHANGED <<stripe, events, told>>
    BY DEF CreateInsert
  <1> DEFINE x == Doing("call", "create", p, NewRow, "created")
  <1>2. \A o : Claim(o, NewRow.status, NewRow.received)
    BY NoEntity DEF Claim
  <1>3. row[p].status = "none" /\ stripe[p] = NoObject
    BY <1>1 DEF HasRow, IInv, RowInv, RowOK
  <1>4. RowInv' /\ RowsStay /\ row'[p] = NewRow
    BY <1>1, <1>2, NoEntity, RowWritten DEF IInv
  <1>5. x \in TaskState /\ TaskOK(x, stripe[p], NewRow) /\ x.p = p
    <2>1. "call" \in PC /\ "create" \in Op \cup {"none"} /\ "created" \in Notice
      BY DEF PC, Op, Notice
    <2>2. NewRow \in Entity /\ NewRow.status # "none"
      BY NoEntity
    <2> QED
      BY <1>2, <1>3, <2>1, <2>2, DoingOK
  <1>6. task' = [task EXCEPT ![t] = x]
    BY <1>1 DEF Start
  <1> HIDE DEF x
  <1>7. ASSUME NEW u \in Task \ {t}, Creating(task[u])
        PROVE  task[u].p # x.p /\ stripe'[task[u].p] = stripe[task[u].p]
    BY <1>1, <1>3, <1>5, <1>7 DEF IInv, TaskInv, TaskOK, Creating
  <1>8. Grown
    BY <1>1 DEF Grown, Grows
  <1>9. TaskInv'
    BY <1>1, <1>4, <1>5, <1>6, <1>7, <1>8, OneTask DEF IInv
  <1> QED
    BY <1>1, <1>4, <1>9 DEF IInv, StripeInv, StripeTypeOK, ToldInv

LEMMA NewSession ==
    ASSUME NEW p, NEW manual \in BOOLEAN, CreateSession(p, manual)
    PROVE  \E o \in Object : Sound(o) /\ o.intent = "none" /\ Report(p, o, {})
  <1> DEFINE o == [NoObject EXCEPT !.session = "open", !.manual = manual]
  <1>1. o \in Object
    BY NoEntity DEF Object
  <1>2. o.intent = "none" /\ o.received = 0
    BY DEF NoObject
  <1>3. Report(p, o, {})
    BY DEF CreateSession
  <1> HIDE DEF o
  <1>4. Sound(o)
    BY <1>2 DEF Sound
  <1> QED
    BY <1>1, <1>2, <1>3, <1>4

LEMMA NewIntent ==
    ASSUME NEW p, NEW s \in IntentStatus, NEW manual \in BOOLEAN, NEW kinds,
           CreateIntent(p, manual, s, kinds)
    PROVE  \E o \in Object :
               /\ Sound(o) /\ o.intent = s /\ Report(p, o, kinds)
               /\ o.received = IF s = "succeeded" THEN Total ELSE 0
  <1>1. PICK r \in 0 .. Total : r = IF s = "succeeded" THEN Total ELSE 0
    BY StripeAssumption
  <1> DEFINE o == [NoObject EXCEPT !.intent = s, !.manual = manual, !.received = r]
  <1>2. o \in Object
    BY NoEntity DEF Object
  <1>3. o.intent = s /\ o.received = r /\ o.session = "none"
    BY DEF NoObject
  <1>4. Report(p, o, kinds)
    BY <1>1, Zenon DEF CreateIntent
  <1> HIDE DEF o
  <1>5. Sound(o)
    BY <1>1, <1>3 DEF Sound
  <1> QED
    BY <1>1, <1>2, <1>3, <1>4, <1>5

\* At create's call to Stripe nothing has been claimed of the payment yet.
LEMMA CreatingFacts ==
    ASSUME IInv, NEW t \in Task, Busy(t, "call", "create")
    PROVE  LET x == task[t]
           IN  /\ x.pc # "idle" /\ Creating(x) /\ stripe[x.p] = NoObject
               /\ x.copy \in Entity /\ x.copy.status # "none"
               /\ x.copy.status \notin {"succeeded", "canceled"} /\ x.copy.received = 0
  <1>1. task[t].pc # "idle" /\ Creating(task[t])
    BY DEF Busy, Creating
  <1>2. TaskOK(task[t], stripe[task[t].p], row[task[t].p]) /\ task[t].copy \in Entity
    BY <1>1, TaskFacts
  <1>3. stripe[task[t].p] = NoObject
    BY <1>1, <1>2 DEF TaskOK
  <1>4. Claim(NoObject, task[t].copy.status, task[t].copy.received)
    BY <1>1, <1>2, <1>3 DEF TaskOK
  <1> QED
    BY <1>1, <1>2, <1>3, <1>4 DEF TaskOK, Claim, NoObject, Free, Entity
\* create gives up with the copy it had, whatever was made at Stripe.
LEMMA CreatingFails ==
    ASSUME IInv, NEW t \in Task, Busy(t, "call", "create"),
           Goto(t, "fail", task[t].copy, "silent"), NEW o
    PROVE  GoesOn(t, "fail", task[t].copy, "silent", o)
  BY CreatingFacts DEF GoesOn, PC, Notice, Claim

LEMMA StartCardCheckoutOK ==
    ASSUME IInv, NEW t \in Task, StartCardCheckout(t) PROVE IInv'
  <1>1. PICK manual \in BOOLEAN : CreateSession(task[t].p, manual)
    BY DEF StartCardCheckout
  <1> DEFINE c == [task[t].copy EXCEPT !.session = TRUE]
  <1>2. /\ Busy(t, "call", "create") /\ UNCHANGED <<row, told>>
        /\ Goto(t, "save", c, "created") \/ Goto(t, "fail", task[t].copy, "silent")
    BY DEF StartCardCheckout
  <1>3. PICK o \in Object : Sound(o) /\ o.intent = "none" /\ Report(task[t].p, o, {})
    BY <1>1, NewSession
  <1>5. c \in Entity /\ c.status = task[t].copy.status
        /\ c.received = task[t].copy.received
    BY <1>2, CreatingFacts DEF Entity
  <1> HIDE DEF c
  <1>6. PICK pc, copy, note : GoesOn(t, pc, copy, note, o)
    <2>1. CASE Goto(t, "save", c, "created")
      <3>1. GoesOn(t, "save", c, "created", o)
        BY <1>2, <1>5, <2>1, CreatingFacts DEF GoesOn, PC, Notice, Claim
      <3> QED
        BY <3>1
    <2>2. CASE Goto(t, "fail", task[t].copy, "silent")
      BY <1>2, <2>2, CreatingFails
    <2> QED
      BY <1>2, <2>1, <2>2
  <1> QED
    BY <1>2, <1>3, <1>6, CreatingFacts, GrowsFromNone, GoesOnAfterCall

LEMMA StartBankDebitOK ==
    ASSUME IInv, NEW t \in Task, StartBankDebit(t) PROVE IInv'
  <1> DEFINE c == [task[t].copy EXCEPT !.intent = TRUE]
  <1>1. /\ Busy(t, "call", "create") /\ UNCHANGED <<row, told>>
        /\ Goto(t, "save", c, "created") \/ Goto(t, "fail", task[t].copy, "silent")
    BY DEF StartBankDebit
  <1>2. PICK o \in Object : /\ Sound(o) /\ o.intent = "requires_payment_method"
                            /\ Report(task[t].p, o, {})
    BY NewIntent DEF StartBankDebit, IntentStatus
  <1>4. c \in Entity /\ c.status = task[t].copy.status
        /\ c.received = task[t].copy.received
    BY <1>1, CreatingFacts DEF Entity
  <1> HIDE DEF c
  <1>5. PICK pc, copy, note : GoesOn(t, pc, copy, note, o)
    <2>1. CASE Goto(t, "save", c, "created")
      <3>1. GoesOn(t, "save", c, "created", o)
        BY <1>1, <1>4, <2>1, CreatingFacts DEF GoesOn, PC, Notice, Claim
      <3> QED
        BY <3>1
    <2>2. CASE Goto(t, "fail", task[t].copy, "silent")
      BY <1>1, <2>2, CreatingFails
    <2> QED
      BY <1>1, <2>1, <2>2
  <1> QED
    BY <1>1, <1>2, <1>5, CreatingFacts, GrowsFromNone, GoesOnAfterCall

LEMMA ChargeSavedMethodOK ==
    ASSUME IInv, NEW t \in Task, ChargeSavedMethod(t) PROVE IInv'
  <1> DEFINE r(s) == IF s = "succeeded" THEN Total ELSE 0
  <1> DEFINE c(s) == Apply(task[t].copy, s, r(s))
  <1>1. PICK manual \in BOOLEAN, s \in IntentStatus :
          /\ CreateIntent(task[t].p, manual, s, {"intent"})
          /\ \/ Goto(t, "save", c(s), "created")
             \/ Goto(t, "fail", task[t].copy, "silent")
    BY DEF ChargeSavedMethod, Accepted, IntentStatus
  <1>2. Busy(t, "call", "create") /\ UNCHANGED <<row, told>>
    BY DEF ChargeSavedMethod
  <1>3. PICK o \in Object : /\ Sound(o) /\ o.intent = s /\ o.received = r(s)
                            /\ Report(task[t].p, o, {"intent"})
    BY <1>1, NewIntent
  <1>5. r(s) \in 0 .. Total /\ (r(s) > 0 => s = "succeeded") /\ s # "none"
    BY StripeAssumption DEF IntentStatus
  <1>6. /\ c(s) \in Entity /\ c(s).status # "none" /\ c(s).received = r(s)
        /\ c(s).status \in {"succeeded", "canceled"} => c(s).status = s
    <2>1. task[t].copy \in Entity /\ s \in IntentStatus \cup {"none"}
      BY <1>2, CreatingFacts
    <2> HIDE DEF r
    <2> QED
      BY <1>5, <2>1, ApplyOK
  <1> HIDE DEF c, r
  <1>7. PICK pc, copy, note : GoesOn(t, pc, copy, note, o)
    <2>1. CASE Goto(t, "save", c(s), "created")
      <3>1. GoesOn(t, "save", c(s), "created", o)
        BY <1>3, <1>5, <1>6, <2>1 DEF GoesOn, PC, Notice, Claim
      <3> QED
        BY <3>1
    <2>2. CASE Goto(t, "fail", task[t].copy, "silent")
      BY <1>2, <2>2, CreatingFails
    <2> QED
      BY <1>1, <2>1, <2>2
  <1>8. {"intent"} \in SUBSET Kind
    BY DEF Kind
  <1> QED
    BY <1>2, <1>3, <1>5, <1>7, <1>8, CreatingFacts, GrowsFromNone, GoesOnAfterCall
LEMMA AttachInvoiceOK ==
    ASSUME IInv, NEW t \in Task, AttachInvoice(t) PROVE IInv'
  <1>1. task[t].pc # "idle" /\ Goto(t, "emit", task[t].copy, "created")
    BY DEF AttachInvoice, Busy
  <1>2. GoesOn(t, "emit", task[t].copy, "created", stripe[task[t].p])
    BY <1>1, TaskFacts DEF GoesOn, PC, Notice, Claim, TaskOK
  <1> QED
    BY <1>1, <1>2, GoesOnLocally DEF AttachInvoice

LEMMA CreateThrowsOK ==
    ASSUME IInv, NEW t \in Task, CreateThrows(t) PROVE IInv'
  <1>1. task[t].pc # "idle" /\ Goto(t, "fail", task[t].copy, "silent")
    BY DEF CreateThrows
  <1>2. GoesOn(t, "fail", task[t].copy, "silent", stripe[task[t].p])
    BY <1>1, TaskFacts DEF GoesOn, PC, Notice, Claim, TaskOK
  <1> QED
    BY <1>1, <1>2, GoesOnLocally DEF CreateThrows

LEMMA CreateFailOK ==
    ASSUME IInv, NEW t \in Task, CreateFail(t) PROVE IInv'
  <1> DEFINE c == [task[t].copy EXCEPT !.status = "failed"]
  <1>1. task[t].pc # "idle" /\ row' = [row EXCEPT ![task[t].p] = c]
    BY DEF CreateFail, Busy
  <1>2. task[t].copy \in Entity
    BY <1>1, TaskFacts
  <1>3. c \in Entity /\ c.status = "failed" /\ c.received = task[t].copy.received
    BY <1>2 DEF Entity, PaymentStatus
  <1> HIDE DEF c
  <1>4. Claim(stripe[task[t].p], c.status, c.received)
    BY <1>1, <1>3, TaskFacts DEF TaskOK, Claim
  <1>5. task' = [task EXCEPT ![t] = Idle] /\ UNCHANGED <<stripe, events, told>>
    BY DEF CreateFail, Finish
  <1> QED
    BY <1>1, <1>3, <1>4, <1>5, IdleOK, SaveStep DEF Creating

LEMMA RowFacts ==
    ASSUME IInv, NEW p \in Payment
    PROVE  /\ row[p] \in Entity /\ stripe[p] \in Object /\ Sound(stripe[p])
           /\ Claim(stripe[p], row[p].status, row[p].received)
           /\ row[p].session \/ row[p].intent => row[p].status # "none"
  BY DEF IInv, RowInv, RowOK, NoRow, StripeInv, StripeTypeOK

LEMMA CaptureOK ==
    ASSUME IInv, NEW t \in Task, NEW p \in Payment, Capture(t, p) PROVE IInv'
  <1>1. row[p].status # "none" /\ Start(t, "call", "capture", p, row[p], "captured")
    BY DEF Capture
  <1>2. "call" \in PC /\ "capture" \in Op \ {"create"} /\ "captured" \in Notice
    BY DEF PC, Op, AllCalls, Notice
  <1> QED
    BY <1>1, <1>2, RowFacts, Starts DEF Capture

LEMMA CancelOK ==
    ASSUME IInv, NEW t \in Task, NEW p \in Payment, Cancel(t, p) PROVE IInv'
  <1>1. row[p].status # "none" /\ Start(t, "call", "cancel", p, row[p], "canceled")
    BY RowFacts DEF Cancel
  <1>2. "call" \in PC /\ "cancel" \in Op \ {"create"} /\ "canceled" \in Notice
    BY DEF PC, Op, AllCalls, Notice, PaymentStatus, IntentStatus
  <1> QED
    BY <1>1, <1>2, RowFacts, Starts DEF Cancel

LEMMA SyncFromStripeOK ==
    ASSUME IInv, NEW t \in Task, NEW p \in Payment, SyncFromStripe(t, p) PROVE IInv'
  <1>1. row[p].status # "none"
    BY RowFacts DEF SyncFromStripe
  <1>2. PICK pc \in {"retrieve", "session"} : Start(t, pc, "sync", p, row[p], "silent")
    BY DEF SyncFromStripe
  <1>3. pc \in PC /\ "sync" \in Op \ {"create"} /\ "silent" \in Notice
    BY DEF PC, Op, AllCalls, Notice
  <1>4. Claim(stripe[p], "silent", 0)
    BY DEF Claim
  <1> QED
    BY <1>1, <1>2, <1>3, <1>4, RowFacts, Starts DEF SyncFromStripe

LEMMA CaptureCallOK ==
    ASSUME IInv, NEW t \in Task, CaptureCall(t) PROVE IInv'
  <1> DEFINE p == task[t].p
  <1> DEFINE m == MoveTo(stripe[p], "succeeded")
  <1>1. Busy(t, "call", "capture") /\ task[t].pc # "idle" /\ UNCHANGED <<row, told>>
    BY DEF CaptureCall, Busy
  <1>2. PICK amount \in (1 .. task[t].copy.capturable) \cup {Total} :
          /\ CaptureIntent(p, amount)
          /\ Goto(t, "save", Apply(task[t].copy, "succeeded", amount), "captured")
    BY DEF CaptureCall
  <1>3. amount \in 0 .. Total
    BY <1>1, StripeAssumption, TaskFacts DEF Entity
  <1> DEFINE o == [m EXCEPT !.received = amount]
  <1> DEFINE c == Apply(task[t].copy, "succeeded", amount)
  <1>4. m \in Object /\ m.intent = "succeeded" /\ m.session = stripe[p].session
    BY <1>1, TaskFacts, MoveOK DEF IntentStatus
  <1> HIDE DEF m
  <1>5. /\ o \in Object /\ o.intent = "succeeded" /\ o.received = amount
        /\ o.session = stripe[p].session
    BY <1>3, <1>4 DEF Object
  <1>6. Report(p, o, {"intent"}) /\ stripe[p].intent = "requires_capture"
    BY <1>2 DEF CaptureIntent, m
  <1> HIDE DEF o
  <1>7. Sound(o) /\ Grows(stripe[p], o) /\ stripe[p] # NoObject
    <2>1. Sound(stripe[p])
      BY <1>1, TaskFacts
    <2> QED
      BY <1>5, <1>6, <2>1 DEF Sound, Grows, Free, NoObject
  <1>8. c \in Entity /\ c.status = "succeeded" /\ c.received = amount
    <2>1. MapIntentStatus("succeeded") = "succeeded"
      BY DEF MapIntentStatus, IntentStatus
    <2>2. task[t].copy \in Entity /\ "succeeded" \in IntentStatus \cup {"none"}
      BY <1>1, TaskFacts DEF IntentStatus
    <2> QED
      BY <1>3, <2>1, <2>2, ApplyOK
  <1> HIDE DEF c
  <1>9. GoesOn(t, "save", c, "captured", o)
    <2>1. Goto(t, "save", c, "captured")
      BY <1>2 DEF c
    <2> QED
      BY <1>1, <1>5, <1>8, <2>1 DEF GoesOn, PC, Notice, Claim, Busy
  <1>10. {"intent"} \in SUBSET Kind
    BY DEF Kind
  <1> QED
    BY <1>1, <1>5, <1>6, <1>7, <1>9, <1>10, GoesOnAfterCall

LEMMA CancelCallOK ==
    ASSUME IInv, NEW t \in Task, CancelCall(t) PROVE IInv'
  <1> DEFINE p == task[t].p
  <1> DEFINE o == MoveTo(stripe[p], "canceled")
  <1> DEFINE c == Apply(task[t].copy, "canceled", 0)
  <1>1. Busy(t, "call", "cancel") /\ task[t].pc # "idle" /\ UNCHANGED <<row, told>>
    BY DEF CancelCall, Busy
  <1>2. /\ o \in Object /\ o.intent = "canceled" /\ ~(o.received > 0)
        /\ o.session = stripe[p].session
    BY <1>1, TaskFacts, MoveOK DEF IntentStatus
  <1>3. Report(p, o, {"intent"}) /\ stripe[p].intent \in Cancelable
    BY DEF CancelCall, CancelIntent
  <1> HIDE DEF o
  <1>4. Grows(stripe[p], o) /\ stripe[p] # NoObject /\ Sound(o)
    <2>1. Sound(stripe[p])
      BY <1>1, TaskFacts
    <2> QED
      BY <1>2, <1>3, <2>1 DEF Cancelable, Grows, Free, NoObject, IntentStatus, Sound
  <1>5. c \in Entity /\ c.status = "canceled" /\ c.received = 0
    BY <1>1, StripeAssumption, TaskFacts, ApplyOK DEF IntentStatus, MapIntentStatus
  <1>6. Goto(t, "save", c, "canceled")
    BY DEF CancelCall
  <1> HIDE DEF c
  <1>7. GoesOn(t, "save", c, "canceled", o)
    BY <1>2, <1>5, <1>6 DEF GoesOn, PC, Notice, PaymentStatus, IntentStatus, Claim
  <1>8. {"intent"} \in SUBSET Kind
    BY DEF Kind
  <1> QED
    BY <1>1, <1>2, <1>3, <1>4, <1>7, <1>8, GoesOnAfterCall
LEMMA SyncSessionOK ==
    ASSUME IInv, NEW t \in Task, SyncSession(t) PROVE IInv'
  <1> DEFINE c == task[t].copy
  <1> DEFINE o == stripe[task[t].p]
  <1>1. task[t].pc # "idle" /\ UNCHANGED <<stripe, events, row, told>>
    BY DEF SyncSession, Busy
  <1>2. /\ c \in Entity /\ c.status # "none"
        /\ Claim(o, c.status, c.received)
    BY <1>1, TaskFacts DEF TaskOK
  <1>3. CASE Goto(t, "link", [c EXCEPT !.intent = TRUE], "silent")
    <2> DEFINE d == [c EXCEPT !.intent = TRUE]
    <2>1. d \in Entity /\ d.status = c.status /\ d.received = c.received
      BY <1>2 DEF Entity
    <2> HIDE DEF d
    <2>2. Goto(t, "link", d, "silent")
      BY <1>3 DEF d
    <2>3. GoesOn(t, "link", d, "silent", o)
      BY <1>2, <2>1, <2>2 DEF GoesOn, PC, Notice, Claim
    <2> QED
      BY <1>1, <2>3, GoesOnLocally
  <1>4. CASE /\ Free(o)
             /\ Goto(t, "save", [c EXCEPT !.status = "succeeded", !.received = 0],
                     Change(c, "succeeded"))
    <2> DEFINE d == [c EXCEPT !.status = "succeeded", !.received = 0]
    <2> DEFINE n == Change(c, "succeeded")
    <2>1. 0 \in 0 .. Total
      BY StripeAssumption
    <2>2. d \in Entity
      BY <1>2, <2>1 DEF Entity, PaymentStatus, IntentStatus
    <2>3. d.status = "succeeded" /\ d.received = 0
      BY <1>2 DEF Entity
    <2>4. n \in {"silent", "succeeded"}
      BY DEF Change
    <2> HIDE DEF d, n
    <2>5. Goto(t, "save", d, n)
      BY <1>4 DEF d, n
    <2>6. GoesOn(t, "save", d, n, o)
      BY <1>4, <2>2, <2>3, <2>4, <2>5
         DEF GoesOn, PC, Notice, PaymentStatus, IntentStatus, Claim
    <2> QED
      BY <1>1, <2>6, GoesOnLocally
  <1>5. CASE Finish(t)
    BY <1>1, <1>5, Finishes
  <1> QED
    BY <1>3, <1>4, <1>5 DEF SyncSession

\* What a save of task t writes is what its copy claims.
LEMMA SaveFacts ==
    ASSUME IInv, NEW t \in Task, task[t].pc # "idle"
    PROVE  /\ task[t].copy \in Entity /\ task[t].copy.status # "none"
           /\ Claim(stripe[task[t].p], task[t].copy.status, task[t].copy.received)
  BY TaskFacts DEF TaskOK

LEMMA SyncLinkOK ==
    ASSUME IInv, NEW t \in Task, SyncLink(t) PROVE IInv'
  <1>1. task[t].pc # "idle" /\ Goto(t, "retrieve", task[t].copy, "silent")
    BY DEF SyncLink, Busy
  <1>2. GoesOn(t, "retrieve", task[t].copy, "silent", stripe[task[t].p])
    BY <1>1, TaskFacts DEF GoesOn, PC, Notice, Claim, TaskOK
  <1>3. row' = [row EXCEPT ![task[t].p] = task[t].copy] /\ UNCHANGED <<stripe, events, told>>
    BY DEF SyncLink
  <1> QED
    BY <1>1, <1>2, <1>3, SaveFacts, GoesOnAfterSave

\* The live object applied to a copy, or the object's snapshot in an event.
LEMMA AppliedIsTrue ==
    ASSUME NEW copy \in Entity, NEW s \in IntentStatus \cup {"none"},
           NEW r \in 0 .. Total, NEW o, Claim(o, s, r)
    PROVE  LET c == Apply(copy, s, r)
           IN  /\ c \in Entity /\ c.status # "none" /\ c.status \in PaymentStatus
               /\ Claim(o, c.status, c.received)
  <1> DEFINE c == Apply(copy, s, r)
  <1>1. /\ c \in Entity /\ c.status = MapIntentStatus(s) /\ c.received = r
        /\ c.status \in PaymentStatus /\ c.status # "none"
        /\ c.status \in {"succeeded", "canceled"} => c.status = s
    BY ApplyOK
  <1> HIDE DEF c
  <1>2. Claim(o, c.status, c.received)
    BY <1>1 DEF Claim
  <1> QED
    BY <1>1, <1>2 DEF c

LEMMA RetrieveOK ==
    ASSUME IInv, NEW t \in Task, Retrieve(t) PROVE IInv'
  <1> DEFINE x == task[t]
  <1> DEFINE o == stripe[x.p]
  <1> DEFINE c == Apply(x.copy, o.intent, o.received)
  <1> DEFINE n == IF x.op = "sync" THEN Change(x.copy, c.status) ELSE x.note
  <1>1. x.pc = "retrieve" /\ x.pc # "idle" /\ UNCHANGED <<stripe, events, row, told>>
    BY DEF Retrieve
  <1>2. /\ x.copy \in Entity /\ x.note \in Notice /\ TaskOK(x, o, row[x.p])
        /\ o \in Object /\ Sound(o)
    BY <1>1, TaskFacts
  <1>3. /\ o.intent \in IntentStatus \cup {"none"} /\ o.received \in 0 .. Total
        /\ Claim(o, o.intent, o.received)
    BY <1>2 DEF Object, Sound, Claim
  <1>4. /\ c \in Entity /\ c.status # "none" /\ c.status \in PaymentStatus
        /\ Claim(o, c.status, c.received)
    BY <1>2, <1>3, AppliedIsTrue
  <1>5. n = "silent" \/ n = c.status \/ (n = x.note /\ x.op # "sync")
    BY DEF Change
  <1>6. Goto(t, "save", c, n)
    BY DEF Retrieve
  <1> HIDE DEF c, n
  <1>7. /\ n \in Notice /\ Claim(o, n, 0)
        /\ n # "captured"
    <2>1. CASE n = "silent" \/ n = c.status
      BY <1>4, <2>1 DEF Notice, PaymentStatus, IntentStatus, Claim
    <2>2. CASE n = x.note /\ x.op # "sync"
      BY <1>1, <1>2, <2>2 DEF TaskOK
    <2> QED
      BY <1>5, <2>1, <2>2
  <1>8. GoesOn(t, "save", c, n, o)
    BY <1>4, <1>6, <1>7 DEF GoesOn, PC
  <1> QED
    BY <1>1, <1>8, GoesOnLocally
LEMMA OnCheckoutSessionOK ==
    ASSUME IInv, NEW t \in Task, NEW e \in events, OnCheckoutSession(t, e) PROVE IInv'
  <1> DEFINE r == row[e.p]
  <1> DEFINE c == [r EXCEPT !.intent = @ \/ e.intent # "none"]
  <1> DEFINE o == stripe[e.p]
  <1>1. /\ events' \subseteq events /\ UNCHANGED <<stripe, row, told>>
        /\ e.kind # "intent" /\ r.session
    BY DEF OnCheckoutSession, Handled
  <1>2. e.p \in Payment /\ EventOK(e, o)
    BY DEF IInv, StripeInv, StripeTypeOK, Event
  <1>3. r \in Entity /\ Claim(o, r.status, r.received) /\ r.status # "none"
    BY <1>1, <1>2, RowFacts
  <1>4. c \in Entity /\ c.status = r.status /\ c.received = r.received
    <2>1. PICK b \in BOOLEAN : b = (r.intent \/ e.intent # "none")
      OBVIOUS
    <2>2. c = [r EXCEPT !.intent = b]
      BY <2>1, Zenon
    <2>3. /\ [r EXCEPT !.intent = b] \in Entity
          /\ [r EXCEPT !.intent = b].status = r.status
          /\ [r EXCEPT !.intent = b].received = r.received
      BY <1>3 DEF Entity
    <2> QED
      BY <2>2, <2>3, Zenon
  <1>5. e.intent \in {"none", "succeeded"} => Claim(o, "succeeded", 0)
    BY <1>1, <1>2 DEF EventOK, Claim
  <1>6. /\ "save" \in PC /\ "retrieve" \in PC /\ "event" \in Op \ {"create"}
        /\ "succeeded" \in Notice /\ "processing" \in Notice
    BY DEF PC, Op, AllCalls, Notice, PaymentStatus, IntentStatus
  <1>7. \/ Start(t, "save", "event", e.p, [c EXCEPT !.status = "processing"],
                 "processing")
        \/ /\ e.intent \in {"none", "succeeded"}
           /\ \/ Start(t, "retrieve", "event", e.p, c, "succeeded")
              \/ Start(t, "save", "event", e.p,
                       [c EXCEPT !.status = "succeeded", !.received = 0], "succeeded")
    BY DEF OnCheckoutSession
  <1> HIDE DEF c
  <1>8. CASE Start(t, "save", "event", e.p, [c EXCEPT !.status = "processing"],
                   "processing")
    <2> DEFINE d == [c EXCEPT !.status = "processing"]
    <2>1. d \in Entity /\ d.status = "processing" /\ d.received = r.received
      BY <1>4 DEF Entity, PaymentStatus, IntentStatus
    <2>2. Start(t, "save", "event", e.p, d, "processing")
      BY <1>8
    <2> HIDE DEF d
    <2>3. d.status # "none" /\ Claim(o, d.status, d.received) /\ Claim(o, "processing", 0)
      BY <1>3, <2>1 DEF Claim
    <2> QED
      BY <1>1, <1>2, <1>3, <1>6, <2>1, <2>2, <2>3, Starts
  <1>9. CASE /\ e.intent \in {"none", "succeeded"}
             /\ Start(t, "retrieve", "event", e.p, c, "succeeded")
    BY <1>1, <1>2, <1>3, <1>4, <1>5, <1>6, <1>9, Starts
  <1>10. CASE /\ e.intent \in {"none", "succeeded"}
              /\ Start(t, "save", "event", e.p,
                       [c EXCEPT !.status = "succeeded", !.received = 0], "succeeded")
    <2> DEFINE d == [c EXCEPT !.status = "succeeded", !.received = 0]
    <2>1. 0 \in 0 .. Total
      BY StripeAssumption
    <2>2. d \in Entity
      BY <1>4, <2>1 DEF Entity, PaymentStatus, IntentStatus
    <2>3. d.status = "succeeded" /\ d.received = 0
      BY <1>4 DEF Entity
    <2>4. Start(t, "save", "event", e.p, d, "succeeded")
      BY <1>10
    <2> HIDE DEF d
    <2>5. d.status # "none" /\ Claim(o, d.status, d.received)
      BY <1>5, <1>10, <2>3
    <2> QED
      BY <1>1, <1>2, <1>3, <1>5, <1>6, <1>10, <2>2, <2>4, <2>5, Starts
  <1> QED
    BY <1>7, <1>8, <1>9, <1>10

LEMMA OnCheckoutSessionFailedOK ==
    ASSUME IInv, NEW t \in Task, NEW e \in events, OnCheckoutSessionFailed(t, e)
    PROVE  IInv'
  <1> DEFINE d == [row[e.p] EXCEPT !.status = "failed"]
  <1>1. /\ events' \subseteq events /\ UNCHANGED <<stripe, row, told>>
        /\ row[e.p].session /\ e.p \in Payment
        /\ Start(t, "save", "event", e.p, d, "failed")
    BY DEF OnCheckoutSessionFailed, Handled, IInv, StripeInv, StripeTypeOK, Event
  <1>2. /\ row[e.p] \in Entity /\ row[e.p].status # "none"
        /\ Claim(stripe[e.p], row[e.p].status, row[e.p].received)
    BY <1>1, RowFacts
  <1>3. d \in Entity /\ d.status = "failed" /\ d.received = row[e.p].received
    BY <1>2 DEF Entity, PaymentStatus
  <1> HIDE DEF d
  <1>4. Claim(stripe[e.p], d.status, d.received) /\ Claim(stripe[e.p], "failed", 0)
    BY <1>2, <1>3 DEF Claim
  <1>5. "save" \in PC /\ "event" \in Op \ {"create"} /\ "failed" \in Notice
    BY DEF PC, Op, AllCalls, Notice, PaymentStatus
  <1> QED
    BY <1>1, <1>2, <1>3, <1>4, <1>5, Starts

LEMMA OnPaymentIntentOK ==
    ASSUME IInv, NEW t \in Task, NEW e \in events, OnPaymentIntent(t, e) PROVE IInv'
  <1> DEFINE c == Apply(row[e.p], e.intent, e.received)
  <1> DEFINE n == IF e.intent = "requires_payment_method" THEN "failed" ELSE e.intent
  <1> DEFINE o == stripe[e.p]
  <1>1. /\ events' \subseteq events /\ UNCHANGED <<stripe, row, told>>
        /\ row[e.p].intent /\ e.kind = "intent"
        /\ Start(t, "save", "event", e.p, c, n)
    BY DEF OnPaymentIntent, Handled
  <1>2. /\ e.p \in Payment /\ e.intent \in IntentStatus /\ e.received \in 0 .. Total
        /\ Claim(o, e.intent, e.received)
    BY <1>1 DEF IInv, StripeInv, StripeTypeOK, Event, EventOK
  <1>3. row[e.p] \in Entity /\ row[e.p].status # "none"
    BY <1>1, <1>2, RowFacts
  <1>4. c \in Entity /\ c.status # "none" /\ Claim(o, c.status, c.received)
    BY <1>2, <1>3, AppliedIsTrue
  <1>5. n \in Notice /\ n # "captured" /\ Claim(o, n, 0)
    BY <1>2 DEF Notice, PaymentStatus, IntentStatus, Claim
  <1>6. "save" \in PC /\ "event" \in Op \ {"create"}
    BY DEF PC, Op, AllCalls
  <1> HIDE DEF c, n
  <1> QED
    BY <1>1, <1>2, <1>3, <1>4, <1>5, <1>6, Starts

LEMMA DropUnmatchedOK ==
    ASSUME IInv, NEW e \in events, DropUnmatched(e) PROVE IInv'
  <1>1. events' \subseteq events /\ UNCHANGED <<stripe, row, task, told>>
    BY DEF DropUnmatched, Handled
  <1> QED
    BY <1>1 DEF IInv, StripeInv, StripeTypeOK, RowInv, TaskInv, ToldInv

LEMMA SaveOK ==
    ASSUME IInv, NEW t \in Task, Save(t) PROVE IInv'
  <1> DEFINE x == task[t]
  <1> DEFINE o == stripe[x.p]
  <1>1. /\ x.pc = "save" /\ x.pc # "idle" /\ UNCHANGED <<stripe, events, told>>
        /\ row' = [row EXCEPT ![x.p] = task[t].copy]
    BY DEF Save
  <1>2. CASE x.note = "silent"
    <2>1. task' = [task EXCEPT ![t] = Idle]
      BY <1>2 DEF Save, Finish
    <2> QED
      BY <1>1, <2>1, IdleOK, SaveFacts, SaveStep DEF Creating
  <1>3. CASE x.note # "silent"
    <2>1. PICK pc \in {"attach", "emit"} :
            /\ Goto(t, pc, x.copy, x.note)
            /\ x.op # "create" => pc = "emit"
      BY <1>3 DEF Save
    <2>2. GoesOn(t, pc, x.copy, x.note, o)
      <3>1. x.copy \in Entity /\ x.note \in Notice /\ TaskOK(x, o, row[x.p])
        BY <1>1, TaskFacts
      <3> QED
        BY <1>1, <2>1, <3>1 DEF GoesOn, PC, TaskOK
    <2> QED
      BY <1>1, <2>2, SaveFacts, GoesOnAfterSave
  <1> QED
    BY <1>2, <1>3

LEMMA EmitOK ==
    ASSUME IInv, NEW t \in Task, Emit(t) PROVE IInv'
  <1> DEFINE x == task[t]
  <1> DEFINE o == stripe[x.p]
  <1>1. x.pc = "emit" /\ x.pc # "idle" /\ UNCHANGED <<stripe, events, row>>
    BY DEF Emit
  <1>2. /\ x.p \in Payment /\ x.copy \in Entity /\ x.note \in Notice
        /\ TaskOK(x, o, row[x.p])
    BY <1>1, TaskFacts
  <1>3. PICK s \in PaymentStatus \cup {"none"} :
          /\ s = IF x.op = "event" THEN row[x.p].status ELSE x.copy.status
          /\ told' = [told EXCEPT ![x.p] = [name |-> x.note, status |-> s]]
    BY <1>2, RowFacts DEF Emit, Entity
  <1>4. Claim(o, s, 0)
    BY <1>1, <1>2, <1>3, RowFacts DEF TaskOK, Claim
  <1> DEFINE n == [name |-> x.note, status |-> s]
  <1>5. n \in Told /\ ToldOK(n, o)
    BY <1>1, <1>2, <1>3, <1>4 DEF Told, ToldOK, TaskOK
  <1>6. told' = [told EXCEPT ![x.p] = n]
    BY <1>3
  <1> HIDE DEF n
  <1>7. ToldInv'
    BY <1>1, <1>2, <1>5, <1>6 DEF IInv, ToldInv
  <1>8. Grown /\ RowsStay
    BY <1>1 DEF Grown, Grows, RowsStay
  <1>9. TaskInv'
    BY <1>1, <1>8, IdleOK, OneTask DEF Emit, Finish, IInv, Creating
  <1> QED
    BY <1>1, <1>7, <1>9 DEF IInv, StripeInv, StripeTypeOK, RowInv
\* A move the service did not make, of an object that exists.
LEMMA StripeStep ==
    ASSUME IInv, NEW p \in Payment, NEW o \in Object, Sound(o), Grows(stripe[p], o),
           stripe[p] # NoObject, o.intent = "none" => Free(o),
           NEW kinds \in SUBSET Kind, "intent" \in kinds => o.intent # "none",
           Report(p, o, kinds), UNCHANGED <<row, task, told>>
    PROVE  IInv'
  <1>1. row[p].status # "none"
    BY DEF IInv, RowInv, RowOK
  <1>2. /\ StripeInv' /\ Grown /\ stripe'[p] = o
        /\ \A q \in Payment \ {p} : stripe'[q] = stripe[q]
    BY ReportOK DEF IInv
  <1>3. RowInv' /\ ToldInv' /\ RowsStay
    BY <1>1, <1>2, RowsKept, ToldKept DEF IInv, RowsStay
  <1>4. ASSUME NEW t \in Task
        PROVE  TaskOK(task'[t], stripe'[task'[t].p], row'[task'[t].p])
    <2>1. TaskOK(task[t], stripe[task[t].p], row[task[t].p])
      BY DEF IInv, TaskInv
    <2>2. Creating(task[t]) => stripe'[task[t].p] = stripe[task[t].p]
      BY <1>2, <2>1 DEF TaskOK, Creating
    <2> QED
      BY <1>2, <1>3, <2>1, <2>2, TaskStays
  <1>5. TaskInv'
    BY <1>4 DEF IInv, TaskInv
  <1> QED
    BY <1>2, <1>3, <1>5 DEF IInv

LEMMA StripeOK ==
    ASSUME IInv, Stripe PROVE IInv'
  <1>1. PICK p \in Payment : PayerCompletesCheckout(p) \/ IntentAdvances(p)
    BY DEF Stripe, StripeMoves
  <1>2. UNCHANGED <<row, task, told>>
    BY DEF Stripe
  <1>3. stripe[p] \in Object /\ Sound(stripe[p])
    BY RowFacts
  <1>4. CASE PayerCompletesCheckout(p)
    <2>1. PICK s \in IntentStatus \cup {"none"} :
            Report(p, [MoveTo(stripe[p], s) EXCEPT !.session = "complete"],
                   {"completed"} \cup IF s = "none" THEN {} ELSE {"intent"})
      BY <1>4 DEF PayerCompletesCheckout, Accepted, IntentStatus
    <2> DEFINE m == MoveTo(stripe[p], s)
    <2> DEFINE o == [m EXCEPT !.session = "complete"]
    <2> DEFINE kinds == {"completed"} \cup IF s = "none" THEN {} ELSE {"intent"}
    <2>2. m \in Object /\ m.intent = s /\ (m.received > 0 => s = "succeeded")
      BY <1>3, MoveOK
    <2>3. Report(p, o, kinds)
      BY <2>1
    <2> HIDE DEF m
    <2>4. /\ o \in Object /\ o.intent = s /\ o.session = "complete"
          /\ o.received = m.received
      BY <2>2 DEF Object
    <2>5. kinds \in SUBSET Kind /\ ("intent" \in kinds => s # "none")
      BY DEF Kind, SessionEvent
    <2> HIDE DEF o, kinds
    <2>6. stripe[p].session = "open"
      BY <1>4 DEF PayerCompletesCheckout
    <2>7. Sound(o) /\ Grows(stripe[p], o) /\ stripe[p] # NoObject
      BY <1>3, <2>2, <2>4, <2>6 DEF Sound, Grows, Free, NoObject
    <2>8. o.intent = "none" => Free(o)
      BY <2>4 DEF Free
    <2> QED
      BY <1>2, <2>3, <2>4, <2>5, <2>7, <2>8, StripeStep
  <1>5. CASE IntentAdvances(p)
    <2>1. PICK s \in NextIntent(stripe[p]) :
            Report(p, MoveTo(stripe[p], s), {"intent"} \cup SessionOutcome(stripe[p], s))
      BY <1>5 DEF IntentAdvances
    <2>2. /\ s \in IntentStatus
          /\ stripe[p].intent \in {"requires_payment_method", "requires_action",
                                   "processing", "requires_capture"}
      BY <2>1 DEF NextIntent, Accepted, IntentStatus
    <2> DEFINE o == MoveTo(stripe[p], s)
    <2> DEFINE kinds == {"intent"} \cup SessionOutcome(stripe[p], s)
    <2>3. /\ o \in Object /\ o.intent = s /\ o.session = stripe[p].session
          /\ o.received > 0 => s = "succeeded"
      BY <1>3, <2>2, MoveOK
    <2>4. Report(p, o, kinds)
      BY <2>1
    <2>5. kinds \in SUBSET Kind
      BY DEF Kind, SessionEvent, SessionOutcome
    <2> HIDE DEF o, kinds
    <2>6. Sound(o) /\ Grows(stripe[p], o) /\ stripe[p] # NoObject /\ o.intent # "none"
      BY <1>3, <2>2, <2>3 DEF Sound, Grows, Free, NoObject, IntentStatus
    <2> QED
      BY <1>2, <2>3, <2>4, <2>5, <2>6, StripeStep
  <1> QED
    BY <1>1, <1>4, <1>5

-----------------------------------------------------------------------------
LEMMA IInvNext == IInv /\ [Next]_vars => IInv'
  <1> SUFFICES ASSUME IInv, [Next]_vars
               PROVE  IInv'
    OBVIOUS
  <1>1. CASE Stripe
    BY <1>1, StripeOK
  <1>2. ASSUME NEW e \in events, DropUnmatched(e)
        PROVE  IInv'
    BY <1>2, DropUnmatchedOK
  <1>3. ASSUME NEW t \in Task, Create(t)
        PROVE  IInv'
    BY <1>3, CreateInsertOK, StartCardCheckoutOK, StartBankDebitOK, ChargeSavedMethodOK,
       AttachInvoiceOK, CreateThrowsOK, CreateFailOK DEF Create
  <1>4. ASSUME NEW t \in Task, Requests(t)
        PROVE  IInv'
    BY <1>4, CaptureOK, CancelOK, SyncFromStripeOK DEF Requests
  <1>5. ASSUME NEW t \in Task, Handle(t)
        PROVE  IInv'
    BY <1>5, OnCheckoutSessionOK, OnCheckoutSessionFailedOK, OnPaymentIntentOK DEF Handle
  <1>6. ASSUME NEW t \in Task, Continue(t)
        PROVE  IInv'
    <2>1. CASE CallRefused(t)
      BY <2>1, Finishes DEF CallRefused
    <2> QED
      BY <1>6, <2>1, CaptureCallOK, CancelCallOK, SyncSessionOK, SyncLinkOK, RetrieveOK,
         SaveOK, EmitOK DEF Continue
  <1>7. ASSUME NEW t \in Task, Abort(t)
        PROVE  IInv'
    BY <1>7, Finishes DEF Abort
  <1>8. CASE UNCHANGED vars
    BY <1>8 DEF vars, IInv, StripeInv, StripeTypeOK, RowInv, TaskInv, ToldInv
  <1> QED
    BY <1>1, <1>2, <1>3, <1>4, <1>5, <1>6, <1>7, <1>8 DEF Next

\* What Stripe's objects, rows, copies in memory, events and notices say agrees, whatever
\* interleaves and fails.
THEOREM Invariance == Spec => []IInv
  BY IInvInit, IInvNext, PTL DEF Spec

\* The rows, the copies tasks hold, Stripe's objects and the notices keep their
\* types; in particular every status written is one the schema has.
THEOREM TypeCorrect == Spec => []TypeOK
  <1>1. IInv => TypeOK
    BY DEF IInv, StripeInv, RowInv, TaskInv, ToldInv, Told, TypeOK
  <1> QED
    BY <1>1, Invariance, PTL

\* No row ever records a payment, an amount or a cancellation that did not happen
\* at Stripe.
THEOREM NoPhantom == Spec => []NoPhantomOutcome
  <1>1. IInv => NoPhantomOutcome
    BY DEF IInv, RowInv, RowOK, Claim, NoPhantomOutcome, True, Paid
  <1> QED
    BY <1>1, Invariance, PTL

\* No notice to the source platform announces an outcome that did not happen.
THEOREM NoticesAreTrue == Spec => []NoFalseNotice
  <1>1. IInv => NoFalseNotice
    <2> SUFFICES ASSUME IInv, NEW p \in Payment
                 PROVE  /\ True(p, told[p].status, 0)
                        /\ True(p, told[p].name, 0)
                        /\ told[p].name = "captured" =>
                             Paid(p) /\ told[p].status = "succeeded"
      BY DEF NoFalseNotice
    <2>1. ToldOK(told[p], stripe[p])
      BY DEF IInv, ToldInv
    <2> QED
      BY <2>1 DEF ToldOK, Claim, True, Paid
  <1> QED
    BY <1>1, Invariance, PTL

\* Stripe never holds an object for a payment that has no row, whichever step of
\* create fails or never runs.
THEOREM RecordedFirst == Spec => []RecordBeforeObject
  <1>1. IInv => RecordBeforeObject
    BY DEF IInv, RowInv, RowOK, RecordBeforeObject, Exists, HasRow, NoObject
  <1> QED
    BY <1>1, Invariance, PTL

-----------------------------------------------------------------------------
(* No save takes the session id off a row.                                 *)

\* What a task x knows of the links of its row r: only create works on a row without
\* one; its copy has the session id if the row has; and a row that has an intent id
\* only is of a payment that never gets a session, and no copy is without that id.
LinkOK(x, r) ==
    x.pc # "idle" => /\ x.op # "create" => r.session \/ r.intent
                     /\ r.session => x.copy.session
                     /\ r.intent /\ ~r.session => /\ x.copy.intent /\ ~x.copy.session
                                                 /\ ~Creating(x)

CreatesOf(x, p) == x.pc # "idle" /\ x.op = "create" /\ x.p = p

LinkInv == /\ \A t \in Task : LinkOK(task[t], row[task[t].p])
           /\ \A t, u \in Task : \A p \in Payment :
                CreatesOf(task[t], p) /\ CreatesOf(task[u], p) => t = u

Kept == \A p \in Payment : row[p].session => row'[p].session

\* The task t becomes y; no row changes.
LEMMA StepsLinks ==
    ASSUME IInv, LinkInv, UNCHANGED row, NEW t \in Task, NEW y,
           task' = [task EXCEPT ![t] = y], LinkOK(y, row[y.p]),
           \A p \in Payment : CreatesOf(y, p) => CreatesOf(task[t], p)
    PROVE  LinkInv' /\ Kept
  <1>1. \A u \in Task : task'[u] = IF u = t THEN y ELSE task[u]
    BY DEF IInv, TaskInv
  <1>2. ASSUME NEW u \in Task PROVE LinkOK(task'[u], row'[task'[u].p])
    <2>1. CASE u = t
      BY <1>1, <2>1
    <2>2. CASE u # t
      BY <1>1, <2>2 DEF LinkInv
    <2> QED
      BY <2>1, <2>2
  <1>3. ASSUME NEW u \in Task, NEW v \in Task, NEW p \in Payment,
               CreatesOf(task'[u], p), CreatesOf(task'[v], p)
        PROVE  u = v
    <2>1. CreatesOf(task[u], p) /\ CreatesOf(task[v], p)
      BY <1>1, <1>3
    <2> QED
      BY <2>1 DEF LinkInv
  <1> QED
    BY <1>2, <1>3 DEF LinkInv, Kept, CreatesOf

\* The task t writes c, with the links of its copy, over its row and becomes y.
LEMMA WritesLinks ==
    ASSUME IInv, LinkInv, NEW t \in Task, NEW x, x = task[t], x.pc # "idle",
           NEW c, c.session = x.copy.session, c.intent = x.copy.intent,
           row' = [row EXCEPT ![x.p] = c],
           NEW y, task' = [task EXCEPT ![t] = y],
           y.pc # "idle" => /\ y.pc # "call" /\ y.p = x.p /\ y.op = x.op
                            /\ y.copy.session = c.session /\ y.copy.intent = c.intent
    PROVE  LinkInv' /\ Kept
  <1>1. \A u \in Task : task'[u] = IF u = t THEN y ELSE task[u]
    BY DEF IInv, TaskInv
  <1>2. x.p \in Payment /\ LinkOK(x, row[x.p])
    BY TaskFacts DEF LinkInv
  <1>3. \A p \in Payment : row'[p] = IF p = x.p THEN c ELSE row[p]
    BY DEF IInv, RowInv
  <1>4. Kept
    BY <1>2, <1>3 DEF Kept, LinkOK
  <1>5. LinkOK(y, row'[y.p])
    BY <1>2, <1>3 DEF LinkOK, Creating
  <1>6. ASSUME NEW u \in Task, u # t PROVE LinkOK(task'[u], row'[task'[u].p])
    <2>1. PICK z : z = task[u]
      OBVIOUS
    <2> SUFFICES ASSUME z.pc # "idle" PROVE LinkOK(z, row'[z.p])
      BY <1>1, <1>6, <2>1 DEF LinkOK
    <2>2. z.p \in Payment /\ LinkOK(z, row[z.p])
      BY <2>1, TaskFacts DEF LinkInv
    <2>3. CASE z.p # x.p
      BY <1>3, <2>2, <2>3
    <2>4. CASE z.p = x.p
      <3>1. PICK r : r = row[x.p]
        OBVIOUS
      <3>2. LinkOK(x, r) /\ LinkOK(z, r) /\ row'[z.p] = c
        BY <1>2, <1>3, <2>2, <2>4, <3>1
      <3>3. r.session \/ r.intent
        <4>1. SUFFICES ASSUME ~(r.session \/ r.intent) PROVE FALSE
          OBVIOUS
        <4>2. x.op = "create" /\ z.op = "create"
          BY <3>2, <4>1 DEF LinkOK
        <4>3. CreatesOf(task[t], x.p) /\ CreatesOf(task[u], x.p)
          BY <2>1, <2>4, <4>2 DEF CreatesOf
        <4> QED
          BY <1>2, <1>6, <4>3 DEF LinkInv
      <3>4. LinkOK(z, c)
        BY <3>2, <3>3 DEF LinkOK
      <3> QED
        BY <3>2, <3>4
    <2> QED
      BY <2>3, <2>4
  <1>7. ASSUME NEW u \in Task, NEW v \in Task, NEW p \in Payment,
               CreatesOf(task'[u], p), CreatesOf(task'[v], p)
        PROVE  u = v
    <2>1. CreatesOf(task[u], p) /\ CreatesOf(task[v], p)
      BY <1>1, <1>7 DEF CreatesOf
    <2> QED
      BY <2>1 DEF LinkInv
  <1>8. ASSUME NEW u \in Task PROVE LinkOK(task'[u], row'[task'[u].p])
    BY <1>1, <1>5, <1>6
  <1> QED
    BY <1>4, <1>7, <1>8 DEF LinkInv, CreatesOf

LEMMA EndsLinks ==
    ASSUME IInv, LinkInv, UNCHANGED row, NEW t \in Task, Finish(t)
    PROVE  LinkInv' /\ Kept
  <1>1. PICK y : y = Idle
    OBVIOUS
  <1>2. LinkOK(y, row[y.p]) /\ \A p : ~CreatesOf(y, p)
    BY <1>1, IdleOK DEF LinkOK, CreatesOf
  <1>3. task' = [task EXCEPT ![t] = y]
    BY <1>1 DEF Finish
  <1> QED
    BY <1>2, <1>3, StepsLinks

\* The task t goes on with c; only create's call to Stripe gives a copy its session.
LEMMA GoesLinks ==
    ASSUME IInv, LinkInv, UNCHANGED row, NEW t \in Task, task[t].pc # "idle",
           NEW pc, pc # "call", NEW c, NEW note, Goto(t, pc, c, note),
           task[t].copy.intent => c.intent, task[t].copy.session => c.session,
           Creating(task[t]) \/ c.session = task[t].copy.session
    PROVE  LinkInv' /\ Kept
  <1>1. PICK x : x = task[t]
    OBVIOUS
  <1>2. PICK y : y = Doing(pc, x.op, x.p, c, note)
    OBVIOUS
  <1>3. y.pc = pc /\ y.op = x.op /\ y.p = x.p /\ y.copy = c
    BY <1>2, DoingFields
  <1>4. task' = [task EXCEPT ![t] = y]
    BY <1>1, <1>2 DEF Goto, IInv, TaskInv
  <1>5. LinkOK(x, row[x.p])
    BY <1>1 DEF LinkInv
  <1>6. LinkOK(y, row[y.p])
    BY <1>1, <1>3, <1>5 DEF LinkOK, Creating
  <1>7. \A p \in Payment : CreatesOf(y, p) => CreatesOf(task[t], p)
    BY <1>1, <1>3 DEF CreatesOf
  <1> QED
    BY <1>4, <1>6, <1>7, StepsLinks

\* A request or a handler takes its copy off a row that is linked.
LEMMA BeginsLinks ==
    ASSUME IInv, LinkInv, UNCHANGED row, NEW t \in Task, NEW pc, NEW op, op # "create",
           NEW p \in Payment, NEW c, NEW note, Start(t, pc, op, p, c, note),
           row[p].session \/ row[p].intent, c.session = row[p].session,
           row[p].intent => c.intent
    PROVE  LinkInv' /\ Kept
  <1>1. PICK y : y = Doing(pc, op, p, c, note)
    OBVIOUS
  <1>2. y.pc = pc /\ y.op = op /\ y.p = p /\ y.copy = c
    BY <1>1, DoingFields
  <1>3. LinkOK(y, row[y.p]) /\ \A q : ~CreatesOf(y, q)
    BY <1>2 DEF LinkOK, CreatesOf, Creating
  <1>4. task' = [task EXCEPT ![t] = y]
    BY <1>1 DEF Start
  <1> QED
    BY <1>3, <1>4, StepsLinks

LEMMA RestLinks ==
    ASSUME LinkInv, UNCHANGED <<row, task>> PROVE LinkInv' /\ Kept
  BY DEF LinkInv, Kept, LinkOK, CreatesOf, Creating

LEMMA ApplyLinks ==
    ASSUME NEW c \in Entity, NEW s, NEW received
    PROVE  Apply(c, s, received).session = c.session /\ Apply(c, s, received).intent
  BY DEF Apply, Entity

LEMMA CreateLinks ==
    ASSUME IInv, LinkInv, NEW t \in Task, Create(t)
    PROVE  LinkInv' /\ Kept
  <1>1. CASE CreateInsert(t)
    <2>1. PICK p \in Payment : /\ ~HasRow(p)
                              /\ Start(t, "call", "create", p, NewRow, "created")
                              /\ row' = [row EXCEPT ![p] = NewRow]
      BY <1>1 DEF CreateInsert
    <2>2. PICK y : y = Doing("call", "create", p, NewRow, "created")
      OBVIOUS
    <2>3. y.pc = "call" /\ y.op = "create" /\ y.p = p /\ y.copy = NewRow
      BY <2>2, DoingFields
    <2>4. \A u \in Task : task'[u] = IF u = t THEN y ELSE task[u]
      BY <2>1, <2>2 DEF Start, IInv, TaskInv
    <2>5. \A q \in Payment : row'[q] = IF q = p THEN NewRow ELSE row[q]
      BY <2>1 DEF IInv, RowInv
    <2>6. ~NewRow.session /\ ~NewRow.intent /\ ~row[p].session
      BY <2>1, RowFacts DEF NewRow, NoRow, HasRow
    <2>7. \A u \in Task : task[u].pc # "idle" => task[u].p \in Payment /\ task[u].p # p
      BY <2>1 DEF IInv, TaskInv, TaskOK, HasRow
    <2>8. Kept
      BY <2>5, <2>6 DEF Kept
    <2>9. ASSUME NEW u \in Task PROVE LinkOK(task'[u], row'[task'[u].p])
      <3>1. LinkOK(y, NewRow)
        BY <2>3, <2>6 DEF LinkOK
      <3>2. u # t /\ task[u].pc # "idle" => LinkOK(task[u], row'[task[u].p])
        BY <2>5, <2>7 DEF LinkInv
      <3> QED
        BY <2>3, <2>4, <2>5, <3>1, <3>2 DEF LinkOK
    <2>10. ASSUME NEW u \in Task, NEW v \in Task, NEW q \in Payment,
                  CreatesOf(task'[u], q), CreatesOf(task'[v], q)
           PROVE  u = v
      <3>1. CASE q = p
        BY <2>4, <2>7, <2>10, <3>1 DEF CreatesOf
      <3>2. CASE q # p
        <4>1. CreatesOf(task[u], q) /\ CreatesOf(task[v], q)
          BY <2>3, <2>4, <2>10, <3>2 DEF CreatesOf
        <4> QED
          BY <4>1 DEF LinkInv
      <3> QED
        BY <3>1, <3>2
    <2> QED
      BY <2>8, <2>9, <2>10 DEF LinkInv, CreatesOf
  <1>2. ASSUME Busy(t, "call", "create"), UNCHANGED row, NEW c, NEW pc, pc # "call", NEW note,
               Goto(t, pc, c, note), task[t].copy.intent => c.intent,
               task[t].copy.session => c.session
        PROVE  LinkInv' /\ Kept
    <2>1. task[t].pc # "idle" /\ Creating(task[t])
      BY <1>2 DEF Busy, Creating
    <2> QED
      BY <1>2, <2>1, GoesLinks
  <1>3. Busy(t, "call", "create") => task[t].copy \in Entity
    BY TaskFacts DEF Busy
  <1>4. CASE StartCardCheckout(t)
    <2>1. PICK c : c = [task[t].copy EXCEPT !.session = TRUE]
      OBVIOUS
    <2>2. c.intent = task[t].copy.intent /\ c.session
      BY <1>3, <1>4, <2>1 DEF StartCardCheckout, Entity
    <2>3. /\ Busy(t, "call", "create") /\ UNCHANGED row
          /\ Goto(t, "save", c, "created") \/ Goto(t, "fail", task[t].copy, "silent")
      BY <1>4, <2>1 DEF StartCardCheckout
    <2> QED
      BY <1>2, <2>2, <2>3
  <1>5. CASE StartBankDebit(t)
    <2>1. PICK c : c = [task[t].copy EXCEPT !.intent = TRUE]
      OBVIOUS
    <2>2. c.session = task[t].copy.session /\ c.intent
      BY <1>3, <1>5, <2>1 DEF StartBankDebit, Entity
    <2>3. /\ Busy(t, "call", "create") /\ UNCHANGED row
          /\ Goto(t, "save", c, "created") \/ Goto(t, "fail", task[t].copy, "silent")
      BY <1>5, <2>1 DEF StartBankDebit
    <2> QED
      BY <1>2, <2>2, <2>3
  <1>6. CASE ChargeSavedMethod(t)
    <2>1. /\ Busy(t, "call", "create") /\ UNCHANGED row
          /\ \/ \E s, r : Goto(t, "save", Apply(task[t].copy, s, r), "created")
             \/ Goto(t, "fail", task[t].copy, "silent")
      BY <1>6 DEF ChargeSavedMethod
    <2>2. CASE \E s, r : Goto(t, "save", Apply(task[t].copy, s, r), "created")
      <3>1. PICK s, r : Goto(t, "save", Apply(task[t].copy, s, r), "created")
        BY <2>2
      <3>2. PICK c : c = Apply(task[t].copy, s, r)
        OBVIOUS
      <3>3. c.session = task[t].copy.session /\ c.intent
        BY <1>3, <2>1, <3>2, ApplyLinks
      <3> QED
        BY <1>2, <2>1, <3>1, <3>2, <3>3
    <2>3. CASE Goto(t, "fail", task[t].copy, "silent")
      BY <1>2, <2>1, <2>3
    <2> QED
      BY <2>1, <2>2, <2>3
  <1>7. CASE AttachInvoice(t) \/ CreateThrows(t)
    <2>1. /\ task[t].pc # "idle" /\ UNCHANGED row
          /\ \/ Goto(t, "emit", task[t].copy, "created")
             \/ Goto(t, "fail", task[t].copy, "silent")
      BY <1>7 DEF AttachInvoice, CreateThrows, Busy
    <2> QED
      BY <2>1, GoesLinks
  <1>8. CASE CreateFail(t)
    <2>1. PICK x : x = task[t]
      OBVIOUS
    <2>2. PICK c : c = [x.copy EXCEPT !.status = "failed"]
      OBVIOUS
    <2>3. x.pc # "idle" /\ row' = [row EXCEPT ![x.p] = c] /\ task' = [task EXCEPT ![t] = Idle]
      BY <1>8, <2>1, <2>2 DEF CreateFail, Busy, Finish
    <2>4. c.session = x.copy.session /\ c.intent = x.copy.intent
      BY <2>1, <2>2, <2>3, TaskFacts DEF Entity
    <2> QED
      BY <2>1, <2>3, <2>4, IdleOK, WritesLinks
  <1> QED
    BY <1>1, <1>4, <1>5, <1>6, <1>7, <1>8 DEF Create

LEMMA RequestsLinks ==
    ASSUME IInv, LinkInv, NEW t \in Task, Requests(t) \/ Handle(t)
    PROVE  LinkInv' /\ Kept
  <1>1. CASE Requests(t)
    <2>1. PICK p \in Payment : Capture(t, p) \/ Cancel(t, p) \/ SyncFromStripe(t, p)
      BY <1>1 DEF Requests
    <2>2. /\ row[p].session \/ row[p].intent
          /\ UNCHANGED row
          /\ \E pc, op, note : op # "create" /\ Start(t, pc, op, p, row[p], note)
      BY <2>1 DEF Capture, Cancel, SyncFromStripe
    <2> QED
      BY <2>2, BeginsLinks
  <1>2. CASE Handle(t)
    <2>1. PICK e \in events : \/ OnCheckoutSession(t, e)
                              \/ OnCheckoutSessionFailed(t, e)
                              \/ OnPaymentIntent(t, e)
      BY <1>2 DEF Handle
    <2>2. e.p \in Payment
      BY DEF IInv, StripeInv, StripeTypeOK, Event
    <2>3. PICK r \in Entity : r = row[e.p]
      BY <2>2, RowFacts
    <2>4. ASSUME NEW pc, NEW c, NEW note, Start(t, pc, "event", e.p, c, note), UNCHANGED row,
                 r.session \/ r.intent, c.session = r.session, r.intent => c.intent
          PROVE  LinkInv' /\ Kept
      BY <2>2, <2>3, <2>4, BeginsLinks
    <2>5. CASE OnCheckoutSession(t, e)
      <3>1. PICK c : c = [r EXCEPT !.intent = @ \/ e.intent # "none"]
        OBVIOUS
      <3>2. PICK b \in BOOLEAN : b = (r.intent \/ e.intent # "none")
        OBVIOUS
      <3>3. c = [r EXCEPT !.intent = b]
        BY <3>1, <3>2, Zenon
      <3>4. c \in Entity /\ c.session = r.session /\ (r.intent => c.intent)
        BY <3>2, <3>3 DEF Entity
      <3>5. /\ r.session /\ UNCHANGED row
            /\ \/ Start(t, "save", "event", e.p, [c EXCEPT !.status = "processing"],
                        "processing")
               \/ Start(t, "retrieve", "event", e.p, c, "succeeded")
               \/ Start(t, "save", "event", e.p,
                        [c EXCEPT !.status = "succeeded", !.received = 0], "succeeded")
        BY <2>3, <2>5, <3>1 DEF OnCheckoutSession
      <3>6. /\ [c EXCEPT !.status = "processing"].session = c.session
            /\ [c EXCEPT !.status = "processing"].intent = c.intent
            /\ [c EXCEPT !.status = "succeeded", !.received = 0].session = c.session
            /\ [c EXCEPT !.status = "succeeded", !.received = 0].intent = c.intent
        BY <3>4 DEF Entity
      <3> QED
        BY <2>4, <3>4, <3>5, <3>6
    <2>6. CASE OnCheckoutSessionFailed(t, e)
      <3>1. PICK c : c = [r EXCEPT !.status = "failed"]
        OBVIOUS
      <3>2. c.session = r.session /\ c.intent = r.intent
        BY <3>1 DEF Entity
      <3>3. r.session /\ UNCHANGED row /\ Start(t, "save", "event", e.p, c, "failed")
        BY <2>3, <2>6, <3>1 DEF OnCheckoutSessionFailed
      <3> QED
        BY <2>4, <3>2, <3>3
    <2>7. CASE OnPaymentIntent(t, e)
      <3>1. PICK c : c = Apply(r, e.intent, e.received)
        OBVIOUS
      <3>2. c.session = r.session /\ c.intent
        BY <3>1, ApplyLinks
      <3>3. /\ r.intent /\ UNCHANGED row
            /\ \E n : Start(t, "save", "event", e.p, c, n)
        BY <2>3, <2>7, <3>1 DEF OnPaymentIntent
      <3> QED
        BY <2>4, <3>2, <3>3
    <2> QED
      BY <2>1, <2>5, <2>6, <2>7
  <1> QED
    BY <1>1, <1>2

LEMMA ContinueLinks ==
    ASSUME IInv, LinkInv, NEW t \in Task, Continue(t)
    PROVE  LinkInv' /\ Kept
  <1>1. PICK x : x = task[t]
    OBVIOUS
  <1>2. x.pc # "idle"
    BY <1>1 DEF Continue, CaptureCall, CancelCall, CallRefused, SyncSession, SyncLink, Retrieve,
                Save, Emit, Busy
  <1>3. x.copy \in Entity
    BY <1>1, <1>2, TaskFacts
  <1>4. ASSUME NEW c, NEW pc, pc # "call", NEW note, Goto(t, pc, c, note), UNCHANGED row,
               x.copy.intent => c.intent, c.session = x.copy.session
        PROVE  LinkInv' /\ Kept
    BY <1>1, <1>2, <1>4, GoesLinks
  <1>5. ASSUME NEW s, NEW r, NEW pc, pc # "call", NEW note, UNCHANGED row,
               Goto(t, pc, Apply(x.copy, s, r), note)
        PROVE  LinkInv' /\ Kept
    <2>1. PICK c : c = Apply(x.copy, s, r)
      OBVIOUS
    <2>2. c.session = x.copy.session /\ c.intent
      BY <1>3, <2>1, ApplyLinks
    <2> QED
      BY <1>4, <1>5, <2>1, <2>2
  <1>6. CASE CaptureCall(t) \/ CancelCall(t)
    <2>1. /\ UNCHANGED row
          /\ \E s, r, note : Goto(t, "save", Apply(x.copy, s, r), note)
      BY <1>1, <1>6 DEF CaptureCall, CancelCall
    <2> QED
      BY <1>5, <2>1
  <1>7. CASE CallRefused(t) \/ Emit(t)
    <2>1. Finish(t) /\ UNCHANGED row
      BY <1>7 DEF CallRefused, Emit
    <2> QED
      BY <2>1, EndsLinks
  <1>8. CASE SyncSession(t)
    <2>1. PICK c : c = [x.copy EXCEPT !.intent = TRUE]
      OBVIOUS
    <2>2. PICK d : d = [x.copy EXCEPT !.status = "succeeded", !.received = 0]
      OBVIOUS
    <2>3. c.intent /\ c.session = x.copy.session
      BY <1>3, <2>1 DEF Entity
    <2>4. d.intent = x.copy.intent /\ d.session = x.copy.session
      BY <1>3, <2>2 DEF Entity
    <2>5. /\ UNCHANGED row
          /\ \/ Goto(t, "link", c, "silent")
             \/ \E note : Goto(t, "save", d, note)
             \/ Finish(t)
      BY <1>1, <1>8, <2>1, <2>2 DEF SyncSession
    <2> QED
      BY <1>4, <2>3, <2>4, <2>5, EndsLinks
  <1>9. ASSUME row' = [row EXCEPT ![x.p] = x.copy],
               \/ Finish(t)
               \/ \E pc, note : pc # "call" /\ Goto(t, pc, x.copy, note)
        PROVE  LinkInv' /\ Kept
    <2>1. CASE Finish(t)
      BY <1>1, <1>2, <1>9, <2>1, IdleOK, WritesLinks DEF Finish
    <2>2. CASE \E pc, note : pc # "call" /\ Goto(t, pc, x.copy, note)
      <3>1. PICK pc, note : pc # "call" /\ Goto(t, pc, x.copy, note)
        BY <2>2
      <3>2. PICK y : y = Doing(pc, x.op, x.p, x.copy, note)
        OBVIOUS
      <3>3. y.pc = pc /\ y.op = x.op /\ y.p = x.p /\ y.copy = x.copy
        BY <3>2, DoingFields
      <3>4. task' = [task EXCEPT ![t] = y]
        BY <1>1, <3>1, <3>2 DEF Goto, IInv, TaskInv
      <3> QED
        BY <1>1, <1>2, <1>9, <3>1, <3>3, <3>4, WritesLinks
    <2> QED
      BY <1>9, <2>1, <2>2
  <1>10. CASE SyncLink(t) \/ Save(t)
    <2>1. row' = [row EXCEPT ![x.p] = x.copy]
      BY <1>1, <1>10 DEF SyncLink, Save
    <2>2. \/ Finish(t)
          \/ Goto(t, "retrieve", x.copy, "silent")
          \/ Goto(t, "attach", x.copy, x.note)
          \/ Goto(t, "emit", x.copy, x.note)
      BY <1>1, <1>10 DEF SyncLink, Save
    <2> QED
      BY <1>9, <2>1, <2>2
  <1>11. CASE Retrieve(t)
    <2>1. /\ UNCHANGED row
          /\ \E s, r, note : Goto(t, "save", Apply(x.copy, s, r), note)
      BY <1>1, <1>11 DEF Retrieve
    <2> QED
      BY <1>5, <2>1
  <1> QED
    BY <1>6, <1>7, <1>8, <1>10, <1>11 DEF Continue

LEMMA LinkNext == IInv /\ LinkInv /\ [Next]_vars => LinkInv' /\ Kept
  <1> SUFFICES ASSUME IInv, LinkInv, [Next]_vars PROVE LinkInv' /\ Kept
    OBVIOUS
  <1>1. CASE UNCHANGED <<row, task>>
    BY <1>1, RestLinks
  <1>2. ASSUME NEW t \in Task, Abort(t)
        PROVE  LinkInv' /\ Kept
    BY <1>2, EndsLinks DEF Abort
  <1>3. \/ UNCHANGED <<row, task>>
        \/ \E t \in Task : Create(t) \/ Requests(t) \/ Handle(t) \/ Continue(t) \/ Abort(t)
    BY DEF Next, Stripe, DropUnmatched, vars
  <1> QED
    BY <1>1, <1>2, <1>3, CreateLinks, RequestsLinks, ContinueLinks

\* What create, the handlers, captures, cancels and syncs hold in memory never lacks the
\* session id that the row has (save(entity), payments.service.ts).
THEOREM LinksInvariance == Spec => []LinkInv
  <1>1. Init => LinkInv
    BY IdleOK DEF Init, LinkInv, LinkOK, CreatesOf
  <1> QED
    BY <1>1, Invariance, LinkNext, PTL DEF Spec

\* No save of a stale copy takes the session id off a row: a checkout payment that can be
\* found and synced by its session stays so.
THEOREM SessionStays == Spec => SessionLinkKept
  <1>1. IInv /\ LinkInv /\ [Next]_vars => [\A p \in Payment : row[p].session => row'[p].session]_vars
    BY LinkNext DEF Kept
  <1> QED
    BY <1>1, Invariance, LinksInvariance, PTL DEF Spec, SessionLinkKept
=============================================================================
