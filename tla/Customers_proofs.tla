---------------------------- MODULE Customers_proofs ----------------------------
(***************************************************************************)
(* Proofs about Customers, for any number of requests, platforms, rows of a*)
(* feed, customers and faults: what an import reports is true, and imports *)
(* of a platform that do not overlap record each e-mail once.              *)
(*                                                                         *)
(* The properties speak of an import at its end and of the table.  The     *)
(* invariants say how far an import has come through its feed, that its    *)
(* counts are right so far, and what it holds on its way to a row.         *)
(***************************************************************************)
EXTENDS Customers, SequenceTheorems, FiniteSetTheorems, TLAPS

Line == Email \cup {Blank}

\* The customers table and those at Stripe.
Tables == /\ made \in [Customer -> Made]
          /\ owner \in [Customer -> Tenant \cup {None}]
          /\ \A c \in Customer : /\ ~Exists(c) => owner[c] = None /\ made[c].key = NoKey
                                 /\ made[c].import => made[c].key = NoKey

Marks == /\ answered \subseteq Key
         /\ overlapped \in BOOLEAN
         /\ faults \in 0 .. MaxFaults

Done(x) == Len(x.feed) - Len(x.todo)

Working(x) == x.pc \in {"call", "insert"}

\* An import has dealt with Done(x) rows of its feed, and counted some of them.
Progress(x) == /\ Done(x) \in Nat
               /\ \A j \in 1 .. Len(x.todo) : x.todo[j] = x.feed[Done(x) + j]
               /\ x.imported + x.failed <= Done(x)

\* What a request holds, while the customers at Stripe are m.
TaskOK(x, m) ==
    /\ x.pc = "row" => x.import
    /\ x.pc = "idle" => ~x.import
    /\ x.pc # "idle" => x.tenant \in Tenant
    /\ Working(x) => x.email \in Email
    /\ x.import => x.key = NoKey /\ Progress(x)
    /\ x.import /\ Working(x) => x.todo # <<>> /\ x.email = Head(x.todo)
    /\ x.pc = "insert" => /\ x.c \in Customer
                          /\ m[x.c].email # None
                          /\ m[x.c].import = x.import
                          /\ x.import => m[x.c].email = x.email

TaskInv == /\ task \in [Task -> TaskState]
           /\ \A t \in Task : TaskOK(task[t], made)

\* With customers m, recorded as o says: the e-mails tenant n has on record; the rows an
\* import has passed that are not among them; and what it may claim to have imported.
Record(n, m, o) == {m[c].email : c \in {d \in Customer : o[d] = n}}

Missed(x, m, o) == {i \in 1 .. Done(x) : x.feed[i] \notin Record(x.tenant, m, o)}

Brought(x, m, o) ==
    {c \in Customer : o[c] = x.tenant /\ m[c].import /\ Lists(x.feed, m[c].email)}

ReportOK(x, m, o) == x.import => /\ Cardinality(Missed(x, m, o)) <= x.failed
                                 /\ x.imported <= Cardinality(Brought(x, m, o))

ReportInv == \A t \in Task : ReportOK(task[t], made, owner)

IInv == Tables /\ Marks /\ TaskInv /\ ReportInv

-----------------------------------------------------------------------------
(* Customers are never unmade and stay recorded.                           *)

Steady == \A c \in Customer : /\ made[c].email # None => made'[c] = made[c]
                              /\ owner[c] # None => owner'[c] = owner[c]

LEMMA TaskStays ==
    ASSUME NEW x, TaskOK(x, made), Steady PROVE TaskOK(x, made')
  BY DEF TaskOK, Steady

LEMMA RecordGrows ==
    ASSUME Tables, Steady, NEW n \in Tenant
    PROVE  Record(n, made, owner) \subseteq Record(n, made', owner')
  BY CustomersAssumption DEF Tables, Steady, Record, Exists

LEMMA CustomersFinite == IsFiniteSet(Customer) /\ Cardinality(Customer) \in Nat
  <1>1. MaxCustomer \in Int
    BY CustomersAssumption
  <1>2. IsFiniteSet(Customer)
    BY <1>1, FS_Interval DEF Customer
  <1> QED
    BY <1>2, FS_CardinalityType

LEMMA BroughtFinite ==
    ASSUME NEW x, NEW m, NEW o
    PROVE  IsFiniteSet(Brought(x, m, o)) /\ Cardinality(Brought(x, m, o)) \in Nat
  <1>1. Brought(x, m, o) \subseteq Customer
    BY DEF Brought
  <1>2. IsFiniteSet(Brought(x, m, o))
    BY <1>1, CustomersFinite, FS_Subset
  <1> QED
    BY <1>2, FS_CardinalityType

LEMMA MissedFinite ==
    ASSUME NEW x, NEW m, NEW o, Done(x) \in Nat
    PROVE  IsFiniteSet(Missed(x, m, o)) /\ Cardinality(Missed(x, m, o)) \in Nat
  <1>1. IsFiniteSet(1 .. Done(x))
    BY FS_Interval
  <1>2. Missed(x, m, o) \subseteq 1 .. Done(x)
    BY DEF Missed
  <1>3. IsFiniteSet(Missed(x, m, o))
    BY <1>1, <1>2, FS_Subset
  <1> QED
    BY <1>3, FS_CardinalityType

\* A report that was true stays true.
LEMMA ReportStays ==
    ASSUME Tables, Steady, NEW x \in TaskState, TaskOK(x, made), ReportOK(x, made, owner)
    PROVE  ReportOK(x, made', owner')
  <1> SUFFICES ASSUME x.import
               PROVE  /\ Cardinality(Missed(x, made', owner')) <= x.failed
                      /\ x.imported <= Cardinality(Brought(x, made', owner'))
    BY DEF ReportOK
  <1>1. /\ Cardinality(Missed(x, made, owner)) <= x.failed
        /\ x.imported <= Cardinality(Brought(x, made, owner))
        /\ Done(x) \in Nat /\ x.tenant \in Tenant /\ x.failed \in Nat /\ x.imported \in Nat
    BY CustomersAssumption DEF ReportOK, TaskOK, Progress, TaskState
  <1>2. Missed(x, made', owner') \subseteq Missed(x, made, owner)
    BY <1>1, RecordGrows DEF Missed
  <1>3. Cardinality(Missed(x, made', owner')) <= Cardinality(Missed(x, made, owner))
    BY <1>1, <1>2, MissedFinite, FS_Subset
  <1>4. Brought(x, made, owner) \subseteq Brought(x, made', owner')
    BY <1>1, CustomersAssumption DEF Brought, Tables, Steady, Exists
  <1>5. Cardinality(Brought(x, made, owner)) <= Cardinality(Brought(x, made', owner'))
    BY <1>4, BroughtFinite, FS_Subset
  <1>6. /\ Cardinality(Missed(x, made', owner')) \in Nat
        /\ Cardinality(Missed(x, made, owner)) \in Nat
        /\ Cardinality(Brought(x, made', owner')) \in Nat
        /\ Cardinality(Brought(x, made, owner)) \in Nat
    BY <1>1, MissedFinite, BroughtFinite
  <1> QED
    BY <1>1, <1>3, <1>5, <1>6

\* Request t becomes x.
LEMMA StepOK ==
    ASSUME IInv, Steady, NEW t \in Task, NEW x \in TaskState,
           task' = [task EXCEPT ![t] = x], TaskOK(x, made'), ReportOK(x, made', owner')
    PROVE  TaskInv' /\ ReportInv'
  <1>1. \A u \in Task : task'[u] = IF u = t THEN x ELSE task[u]
    BY DEF IInv, TaskInv
  <1>2. task' \in [Task -> TaskState]
    BY DEF IInv, TaskInv
  <1>3. ASSUME NEW u \in Task
        PROVE  TaskOK(task'[u], made') /\ ReportOK(task'[u], made', owner')
    <2>1. CASE u = t
      BY <1>1, <2>1
    <2>2. CASE u # t
      <3>1. /\ task'[u] = task[u] /\ task[u] \in TaskState
            /\ TaskOK(task[u], made) /\ ReportOK(task[u], made, owner)
        BY <1>1, <2>2 DEF IInv, TaskInv, ReportInv
      <3>2. TaskOK(task[u], made') /\ ReportOK(task[u], made', owner')
        BY <3>1, TaskStays, ReportStays DEF IInv
      <3> QED
        BY <3>1, <3>2
    <2> QED
      BY <2>1, <2>2
  <1> QED
    BY <1>2, <1>3 DEF TaskInv, ReportInv

LEMMA FeedFacts == /\ \A s \in Feed : s \in Seq(Line) /\ Len(s) \in 0 .. MaxRows
                   /\ \A s \in Seq(Line) : Len(s) <= MaxRows => s \in Feed
                   /\ <<>> \in Feed
  <1>1. \A s \in Feed : s \in Seq(Line) /\ Len(s) \in 0 .. MaxRows
    BY CustomersAssumption DEF Feed, BoundedSeq, SeqOf, Line
  <1>2. ASSUME NEW s \in Seq(Line), Len(s) <= MaxRows PROVE s \in Feed
    <2>1. s \in [1 .. Len(s) -> Line] /\ Len(s) \in 0 .. MaxRows
      BY <1>2, CustomersAssumption, LenProperties
    <2> QED
      BY <2>1 DEF Feed, BoundedSeq, SeqOf, Line
  <1>3. <<>> \in Feed
    <2>1. <<>> \in Seq(Line) /\ Len(<<>>) = 0
      BY EmptySeq
    <2>2. 0 <= MaxRows
      BY CustomersAssumption
    <2> QED
      BY <1>2, <2>1, <2>2
  <1> QED
    BY <1>1, <1>2, <1>3

LEMMA IdleOK == /\ Idle \in TaskState /\ Idle.pc = "idle" /\ ~Idle.import
                /\ \A m : TaskOK(Idle, m)
                /\ \A m, o : ReportOK(Idle, m, o)
  <1>1. Idle \in TaskState
    BY FeedFacts, CustomersAssumption DEF Idle, TaskState
  <1>2. Idle.pc = "idle" /\ ~Idle.import
    BY DEF Idle
  <1> QED
    BY <1>1, <1>2 DEF TaskOK, ReportOK, Working

-----------------------------------------------------------------------------
(* An import turns to its next row.                                        *)

\* The import x at its next row, with its counts at a and b.
After(x, a, b) == [NextOf(x) EXCEPT !.imported = a, !.failed = b]

LEMMA AfterFields ==
    ASSUME NEW x \in TaskState, NEW a \in 0 .. MaxRows, NEW b \in 0 .. MaxRows,
           x.todo # <<>>
    PROVE  LET y == After(x, a, b) IN
             /\ y \in TaskState
             /\ y.pc = "row" /\ y.import = x.import /\ y.tenant = x.tenant /\ y.key = x.key
             /\ y.feed = x.feed /\ y.todo = Tail(x.todo) /\ y.imported = a /\ y.failed = b
             /\ Len(y.todo) = Len(x.todo) - 1
             /\ x.todo[1] = Head(x.todo)
             /\ \A j \in 1 .. Len(y.todo) : y.todo[j] = x.todo[j + 1]
  <1> DEFINE y == After(x, a, b)
  <1>1. /\ x.todo \in Seq(Line) /\ Len(x.todo) \in 0 .. MaxRows
        /\ x.todo \in Feed /\ x.feed \in Feed
    BY FeedFacts DEF TaskState
  <1>2. /\ Tail(x.todo) \in Seq(Line) /\ Len(Tail(x.todo)) = Len(x.todo) - 1
        /\ \A j \in 1 .. Len(Tail(x.todo)) : Tail(x.todo)[j] = x.todo[j + 1]
        /\ x.todo[1] = Head(x.todo)
    BY <1>1, HeadTailProperties
  <1>3. Tail(x.todo) \in Feed
    <2>1. Len(Tail(x.todo)) <= MaxRows
      BY <1>1, <1>2, CustomersAssumption
    <2> QED
      BY <1>2, <2>1, FeedFacts
  <1>4. /\ y \in TaskState
        /\ y.pc = "row" /\ y.import = x.import /\ y.tenant = x.tenant /\ y.key = x.key
        /\ y.feed = x.feed /\ y.todo = Tail(x.todo) /\ y.imported = a /\ y.failed = b
    <2>1. y = [pc |-> "row", import |-> x.import, tenant |-> x.tenant, email |-> None,
               key |-> x.key, c |-> 0, feed |-> x.feed, todo |-> Tail(x.todo),
               imported |-> a, failed |-> b]
      <3>1. NextOf(x) \in [pc : {"row"}, import : {x.import}, tenant : {x.tenant},
                           email : {None}, key : {x.key}, c : {0}, feed : {x.feed},
                           todo : {Tail(x.todo)}, imported : {x.imported},
                           failed : {x.failed}]
        BY DEF NextOf, TaskState
      <3>2. PICK z : z = NextOf(x)
        OBVIOUS
      <3>3. y = [z EXCEPT !.imported = a, !.failed = b]
        BY <3>2 DEF After
      <3>4. z \in [pc : {"row"}, import : {x.import}, tenant : {x.tenant},
                   email : {None}, key : {x.key}, c : {0}, feed : {x.feed},
                   todo : {Tail(x.todo)}, imported : {x.imported},
                   failed : {x.failed}]
        BY <3>1, <3>2
      <3> HIDE DEF y
      <3> QED
        BY <3>3, <3>4
    <2>2. 0 \in 0 .. MaxCustomer
      BY CustomersAssumption
    <2>3. /\ x.import \in BOOLEAN /\ x.tenant \in Tenant \cup {None}
          /\ x.key \in Key \cup {NoKey}
      BY DEF TaskState
    <2> HIDE DEF y
    <2> QED
      BY <1>1, <1>3, <2>1, <2>2, <2>3 DEF TaskState
  <1> QED
    BY <1>2, <1>4

LEMMA AfterOK ==
    ASSUME NEW x \in TaskState, NEW m, TaskOK(x, m), x.import, x.todo # <<>>,
           NEW a \in Nat, NEW b \in Nat, a + b <= Done(x) + 1,
           NEW y, y = After(x, a, b)
    PROVE  /\ y \in TaskState /\ y.pc = "row" /\ y.import
           /\ y.feed = x.feed /\ y.tenant = x.tenant /\ y.imported = a /\ y.failed = b
           /\ \A n : TaskOK(y, n)
           /\ Done(y) = Done(x) + 1
           /\ Head(x.todo) = x.feed[Done(x) + 1]
  <1>1. /\ Len(x.todo) \in Nat /\ Len(x.feed) \in 0 .. MaxRows /\ MaxRows \in Nat
        /\ x.todo \in Seq(Line)
    BY FeedFacts, CustomersAssumption DEF TaskState
  <1>2. Len(x.todo) >= 1
    BY <1>1, EmptySeq
  <1>3. /\ Done(x) \in Nat /\ Done(x) + 1 <= Len(x.feed)
        /\ \A j \in 1 .. Len(x.todo) : x.todo[j] = x.feed[Done(x) + j]
    <2>1. Progress(x)
      BY DEF TaskOK
    <2>2. Done(x) = Len(x.feed) - Len(x.todo)
      BY DEF Done
    <2>3. Done(x) + 1 <= Len(x.feed)
      BY <1>1, <1>2, <2>2
    <2> QED
      BY <2>1, <2>3 DEF Progress
  <1>4. a \in 0 .. MaxRows /\ b \in 0 .. MaxRows
    BY <1>1, <1>3
  <1>5. /\ y \in TaskState /\ y.pc = "row" /\ y.import /\ y.key = x.key
        /\ y.feed = x.feed /\ y.tenant = x.tenant /\ y.imported = a /\ y.failed = b
        /\ Len(y.todo) = Len(x.todo) - 1
        /\ x.todo[1] = Head(x.todo)
        /\ \A j \in 1 .. Len(y.todo) : y.todo[j] = x.todo[j + 1]
    BY <1>4, AfterFields
  <1>6. Done(y) = Done(x) + 1
    BY <1>1, <1>5 DEF Done
  <1>7. Progress(y)
    <2>1. ASSUME NEW j \in 1 .. Len(y.todo) PROVE y.todo[j] = y.feed[Done(y) + j]
      <3>1. j + 1 \in 1 .. Len(x.todo) /\ Done(x) + (j + 1) = Done(y) + j
        <4>1. Len(y.todo) = Len(x.todo) - 1 /\ Len(x.todo) \in Nat /\ Done(x) \in Nat
          BY <1>1, <1>3, <1>5
        <4>2. j \in Nat /\ 1 <= j /\ j <= Len(x.todo) - 1
          BY <4>1
        <4> QED
          BY <4>1, <4>2, <1>6
      <3>2. y.todo[j] = x.todo[j + 1]
        BY <1>5
      <3>3. x.todo[j + 1] = x.feed[Done(x) + (j + 1)]
        BY <1>3, <3>1
      <3> QED
        BY <1>5, <3>1, <3>2, <3>3
    <2>2. Done(y) \in Nat /\ y.imported + y.failed <= Done(y)
      BY <1>3, <1>5, <1>6
    <2> QED
      BY <2>1, <2>2 DEF Progress
  <1>8. x.tenant \in Tenant /\ x.key = NoKey
    BY DEF TaskOK
  <1>9. \A n : TaskOK(y, n)
    BY <1>5, <1>7, <1>8 DEF TaskOK, Working
  <1>10. Head(x.todo) = x.feed[Done(x) + 1]
    <2>1. 1 \in 1 .. Len(x.todo)
      BY <1>1, <1>2
    <2> QED
      BY <1>3, <1>5, <2>1
  <1> QED
    BY <1>5, <1>6, <1>9, <1>10

\* The report stays true when the row is counted as failed or its e-mail is on record,
\* and as imported only if it brought a customer.
LEMMA AfterReport ==
    ASSUME NEW x \in TaskState, TaskOK(x, made), x.import, x.todo # <<>>,
           NEW m, NEW o, Done(x) \in Nat, ReportOK(x, m, o),
           NEW a \in Nat, NEW b \in Nat, a + b <= Done(x) + 1,
           \/ b = x.failed + 1
           \/ b = x.failed /\ Head(x.todo) \in Record(x.tenant, m, o),
           a <= Cardinality(Brought(x, m, o)),
           NEW y, y = After(x, a, b)
    PROVE  ReportOK(y, m, o)
  <1>1. /\ y.import /\ y.feed = x.feed /\ y.tenant = x.tenant
        /\ y.imported = a /\ y.failed = b
        /\ Done(y) = Done(x) + 1 /\ Head(x.todo) = x.feed[Done(x) + 1]
    BY AfterOK
  <1>2. Brought(y, m, o) = Brought(x, m, o)
    BY <1>1 DEF Brought
  <1>3. /\ IsFiniteSet(Missed(x, m, o)) /\ Cardinality(Missed(x, m, o)) \in Nat
        /\ IsFiniteSet(Missed(y, m, o)) /\ Cardinality(Missed(y, m, o)) \in Nat
    BY <1>1, MissedFinite
  <1>4. Cardinality(Missed(x, m, o)) <= x.failed /\ x.failed \in Nat
    BY DEF ReportOK, TaskState
  <1>5. Missed(y, m, o) \subseteq Missed(x, m, o) \cup {Done(x) + 1}
    BY <1>1 DEF Missed
  <1>6. Cardinality(Missed(y, m, o)) <= b
    <2>1. CASE b = x.failed + 1
      <3>1. /\ IsFiniteSet(Missed(x, m, o) \cup {Done(x) + 1})
            /\ Cardinality(Missed(x, m, o) \cup {Done(x) + 1})
                  <= Cardinality(Missed(x, m, o)) + 1
            /\ Cardinality(Missed(x, m, o) \cup {Done(x) + 1}) \in Nat
        <4>1. PICK S : S = Missed(x, m, o)
          OBVIOUS
        <4>2. PICK T : T = Missed(x, m, o) \cup {Done(x) + 1}
          OBVIOUS
        <4>3. T = S \cup {Done(x) + 1} /\ IsFiniteSet(S) /\ Cardinality(S) \in Nat
          BY <1>3, <4>1, <4>2
        <4>4. IsFiniteSet(T) /\ Cardinality(T) <= Cardinality(S) + 1
          <5>1. CASE Done(x) + 1 \in S
            <6>1. T = S
              BY <4>3, <5>1
            <6>2. IsFiniteSet(T) /\ Cardinality(T) = Cardinality(S)
              BY <4>3, <6>1
            <6> QED
              BY <4>3, <6>2
          <5>2. CASE Done(x) + 1 \notin S
            <6>1. IsFiniteSet(T) /\ Cardinality(T) = Cardinality(S) + 1
              BY <4>3, <5>2, FS_AddElement
            <6> QED
              BY <4>3, <6>1
          <5> QED
            BY <5>1, <5>2
        <4>5. Cardinality(T) \in Nat
          BY <4>4, FS_CardinalityType
        <4> QED
          BY <4>1, <4>2, <4>4, <4>5
      <3>2. Cardinality(Missed(y, m, o)) <= Cardinality(Missed(x, m, o) \cup {Done(x) + 1})
        BY <1>5, <3>1, FS_Subset
      <3> QED
        BY <1>3, <1>4, <2>1, <3>1, <3>2
    <2>2. CASE b = x.failed /\ Head(x.todo) \in Record(x.tenant, m, o)
      <3>1. Missed(y, m, o) \subseteq Missed(x, m, o)
        BY <1>1, <1>5, <2>2 DEF Missed
      <3>2. Cardinality(Missed(y, m, o)) <= Cardinality(Missed(x, m, o))
        BY <1>3, <3>1, FS_Subset
      <3> QED
        BY <1>3, <1>4, <2>2, <3>2
    <2> QED
      BY <2>1, <2>2
  <1>7. y.imported <= Cardinality(Brought(y, m, o)) /\ Cardinality(Missed(y, m, o)) <= y.failed
    BY <1>1, <1>2, <1>6
  <1> QED
    BY <1>7 DEF ReportOK

\* The import t has dealt with a row.
LEMMA RowDone ==
    ASSUME IInv, Steady, NEW t \in Task, NEW x, x = task[t], x.import, x.todo # <<>>,
           NEW a \in Nat, NEW b \in Nat, a + b <= x.imported + x.failed + 1,
           task' = [task EXCEPT ![t] = After(x, a, b)],
           \/ b = x.failed + 1
           \/ b = x.failed /\ Head(x.todo) \in Record(x.tenant, made', owner'),
           a <= Cardinality(Brought(x, made', owner'))
    PROVE  TaskInv' /\ ReportInv'
  <1>1. x \in TaskState /\ TaskOK(x, made) /\ ReportOK(x, made, owner)
    BY DEF IInv, TaskInv, ReportInv
  <1>2. ReportOK(x, made', owner')
    BY <1>1, ReportStays DEF IInv
  <1>3. /\ Done(x) \in Nat /\ x.imported + x.failed <= Done(x)
        /\ x.imported \in Nat /\ x.failed \in Nat
    BY <1>1 DEF TaskOK, Progress, TaskState
  <1>4. a + b <= Done(x) + 1
    BY <1>3
  <1>5. PICK y : y = After(x, a, b)
    OBVIOUS
  <1>6. PICK m : m = made'
    OBVIOUS
  <1>7. PICK o : o = owner'
    OBVIOUS
  <1>8. y \in TaskState /\ TaskOK(y, made')
    BY <1>1, <1>4, <1>5, AfterOK
  <1>9. ReportOK(y, m, o)
    BY <1>1, <1>2, <1>3, <1>4, <1>5, <1>6, <1>7, AfterReport
  <1> QED
    BY <1>5, <1>6, <1>7, <1>8, <1>9, StepOK

LEMMA ThrowOK ==
    ASSUME IInv, NEW t \in Task, Working(task[t]), Throw(t), UNCHANGED <<made, owner>>
    PROVE  TaskInv' /\ ReportInv'
  <1>1. PICK x : x = task[t]
    OBVIOUS
  <1>2. Steady
    BY DEF Steady
  <1>3. x \in TaskState /\ TaskOK(x, made) /\ ReportOK(x, made, owner)
    BY <1>1 DEF IInv, TaskInv, ReportInv
  <1>4. CASE x.import
    <2>1. /\ x.todo # <<>> /\ x.imported \in Nat /\ x.failed \in Nat
          /\ x.imported <= Cardinality(Brought(x, made, owner))
      BY <1>1, <1>3, <1>4 DEF TaskOK, TaskState, ReportOK
    <2>2. [NextOf(x) EXCEPT !.failed = @ + 1] = After(x, x.imported, x.failed + 1)
      BY <1>3 DEF NextOf, After, TaskState
    <2>3. task' = [task EXCEPT ![t] = After(x, x.imported, x.failed + 1)]
      BY <1>1, <1>4, <2>2 DEF Throw, Goto
    <2>4. /\ x.failed + 1 \in Nat
          /\ x.imported + (x.failed + 1) <= x.imported + x.failed + 1
      BY <2>1
    <2>5. x.imported <= Cardinality(Brought(x, made', owner'))
      BY <2>1
    <2> QED
      BY <1>1, <1>2, <1>4, <2>1, <2>3, <2>4, <2>5, RowDone
  <1>5. CASE ~x.import
    <2>1. task' = [task EXCEPT ![t] = Idle]
      BY <1>1, <1>5 DEF Throw, Goto
    <2> QED
      BY <1>2, <2>1, IdleOK, StepOK
  <1> QED
    BY <1>4, <1>5

LEMMA FinishOK ==
    ASSUME IInv, NEW t \in Task, Finish(t), UNCHANGED <<made, owner>>
    PROVE  TaskInv' /\ ReportInv'
  <1>1. Steady
    BY DEF Steady
  <1> QED
    BY <1>1, IdleOK, StepOK DEF Finish, Goto

-----------------------------------------------------------------------------
(* The actions.                                                            *)

LEMMA InitOK == Init => IInv
  <1> SUFFICES ASSUME Init PROVE IInv
    OBVIOUS
  <1>1. Tables
    BY CustomersAssumption DEF Init, Tables, Made, NotMade, Exists
  <1>2. Marks
    <2>1. 0 \in 0 .. MaxFaults
      BY CustomersAssumption
    <2> QED
      BY <2>1 DEF Init, Marks
  <1>3. TaskInv /\ ReportInv
    BY IdleOK DEF Init, TaskInv, ReportInv
  <1> QED
    BY <1>1, <1>2, <1>3 DEF IInv

LEMMA CreateOK ==
    ASSUME IInv, NEW t \in Task, NEW n \in Tenant, NEW e \in Email,
           NEW k \in Key \cup {NoKey}, Create(t, n, e, k)
    PROVE  IInv'
  <1>1. Tables' /\ Marks'
    BY DEF IInv, Tables, Marks, Create, Exists
  <1>2. Steady
    BY DEF Create, Steady
  <1>3. PICK x : x = [Idle EXCEPT !.pc = "call", !.tenant = n, !.email = e, !.key = k]
    OBVIOUS
  <1>4. /\ x.pc = "call" /\ x.import = FALSE /\ x.tenant = n /\ x.email = e
        /\ x \in TaskState
    BY <1>3, IdleOK DEF TaskState, Idle
  <1>5. TaskOK(x, made') /\ ReportOK(x, made', owner')
    BY <1>4 DEF TaskOK, Working, ReportOK
  <1>6. task' = [task EXCEPT ![t] = x]
    BY <1>3 DEF Create, Goto
  <1> QED
    BY <1>1, <1>2, <1>4, <1>5, <1>6, StepOK DEF IInv

LEMMA ImportFromSourceOK ==
    ASSUME IInv, NEW t \in Task, NEW n \in Feeding, NEW rows \in Feed,
           ImportFromSource(t, n, rows)
    PROVE  IInv'
  <1>1. Tables' /\ Marks'
    BY DEF IInv, Tables, Marks, ImportFromSource, Exists
  <1>2. Steady
    BY DEF ImportFromSource, Steady
  <1>3. PICK x : x = [Idle EXCEPT !.pc = "row", !.import = TRUE, !.tenant = n,
                                  !.feed = rows, !.todo = rows]
    OBVIOUS
  <1>4. /\ x.pc = "row" /\ x.import = TRUE /\ x.tenant = n /\ x.key = NoKey
        /\ x.feed = rows /\ x.todo = rows /\ x.imported = 0 /\ x.failed = 0
        /\ x \in TaskState
    BY <1>3, IdleOK, CustomersAssumption DEF TaskState, Idle
  <1>5. Done(x) = 0
    <2>1. Len(rows) \in Nat
      BY FeedFacts
    <2> QED
      BY <1>4, <2>1 DEF Done
  <1>6. TaskOK(x, made')
    <2>1. n \in Tenant
      BY CustomersAssumption
    <2>2. \A j \in 1 .. Len(x.todo) : x.todo[j] = x.feed[Done(x) + j]
      BY <1>4, <1>5
    <2>3. Progress(x)
      BY <1>4, <1>5, <2>2 DEF Progress
    <2> QED
      BY <1>4, <2>1, <2>3 DEF TaskOK, Working
  <1>7. ReportOK(x, made', owner')
    <2>1. PICK S : S = Missed(x, made', owner')
      OBVIOUS
    <2>2. S = {}
      BY <1>5, <2>1 DEF Missed
    <2>3. Cardinality(S) = 0
      BY <2>2, FS_EmptySet
    <2>4. PICK B : B = Brought(x, made', owner')
      OBVIOUS
    <2>5. Cardinality(B) \in Nat
      BY <2>4, BroughtFinite
    <2>6. x.imported <= Cardinality(B) /\ Cardinality(S) <= x.failed
      BY <1>4, <2>3, <2>5
    <2> QED
      BY <2>1, <2>4, <2>6 DEF ReportOK
  <1>8. task' = [task EXCEPT ![t] = x]
    BY <1>3 DEF ImportFromSource, Goto
  <1> QED
    BY <1>1, <1>2, <1>4, <1>6, <1>7, <1>8, StepOK DEF IInv

\* A request keeps to the row it is at.
LEMMA SameRow ==
    ASSUME NEW x \in TaskState, NEW y, NEW m, NEW o, ReportOK(x, m, o),
           y.import = x.import, y.tenant = x.tenant, y.feed = x.feed, y.todo = x.todo,
           y.imported = x.imported, y.failed = x.failed
    PROVE  ReportOK(y, m, o) /\ (Progress(x) => Progress(y))
  <1>1. Done(y) = Done(x)
    BY DEF Done
  <1>2. Missed(y, m, o) = Missed(x, m, o) /\ Brought(y, m, o) = Brought(x, m, o)
    BY <1>1 DEF Missed, Brought
  <1>3. ReportOK(y, m, o)
    BY <1>2 DEF ReportOK
  <1>4. Progress(x) => Progress(y)
    BY <1>1 DEF Progress
  <1> QED
    BY <1>3, <1>4

LEMMA ImportRowOK ==
    ASSUME IInv, NEW t \in Task, ImportRow(t)
    PROVE  IInv'
  <1>1. Tables' /\ Marks'
    BY DEF IInv, Tables, Marks, ImportRow, Exists
  <1>2. Steady
    BY DEF ImportRow, Steady
  <1>3. PICK x : x = task[t]
    OBVIOUS
  <1>4. PICK e : e = Head(x.todo)
    OBVIOUS
  <1>5. /\ x \in TaskState /\ TaskOK(x, made) /\ ReportOK(x, made, owner)
        /\ x.pc = "row" /\ x.import /\ x.todo # <<>>
        /\ task' = [task EXCEPT ![t] =
                      IF e = Blank THEN [NextOf(x) EXCEPT !.failed = @ + 1]
                      ELSE IF Existing(x.tenant, e) # {} THEN NextOf(x)
                      ELSE [x EXCEPT !.pc = "call", !.email = e]]
        /\ UNCHANGED <<made, owner>>
    BY <1>3, <1>4 DEF IInv, TaskInv, ReportInv, ImportRow, Goto, TaskOK
  <1>6. /\ x.imported \in Nat /\ x.failed \in Nat
        /\ x.imported <= Cardinality(Brought(x, made', owner'))
    BY <1>5 DEF TaskState, ReportOK
  <1>7. /\ x.failed + 1 \in Nat
        /\ x.imported + (x.failed + 1) <= x.imported + x.failed + 1
        /\ x.imported + x.failed <= x.imported + x.failed + 1
    BY <1>6
  <1>8. TaskInv' /\ ReportInv'
    <2>1. CASE e = Blank
      <3>1. [NextOf(x) EXCEPT !.failed = @ + 1] = After(x, x.imported, x.failed + 1)
        BY <1>5 DEF NextOf, After, TaskState
      <3>2. task' = [task EXCEPT ![t] = After(x, x.imported, x.failed + 1)]
        BY <1>5, <2>1, <3>1
      <3> QED
        BY <1>2, <1>3, <1>5, <1>6, <1>7, <3>2, RowDone
    <2>2. CASE e # Blank /\ Existing(x.tenant, e) # {}
      <3>1. NextOf(x) = After(x, x.imported, x.failed)
        BY <1>5 DEF NextOf, After, TaskState
      <3>2. task' = [task EXCEPT ![t] = After(x, x.imported, x.failed)]
        BY <1>5, <2>2, <3>1
      <3>3. Head(x.todo) \in Record(x.tenant, made', owner')
        BY <1>4, <1>5, <2>2 DEF Existing, Record
      <3> QED
        BY <1>2, <1>3, <1>5, <1>6, <1>7, <3>2, <3>3, RowDone
    <2>3. CASE e # Blank /\ Existing(x.tenant, e) = {}
      <3>1. PICK y : y = [x EXCEPT !.pc = "call", !.email = e]
        OBVIOUS
      <3>2. e \in Email
        <4>1. x.todo \in Seq(Line)
          BY <1>5, FeedFacts DEF TaskState
        <4>2. e \in Line
          BY <1>4, <1>5, <4>1, HeadTailProperties
        <4> QED
          BY <2>3, <4>2 DEF Line
      <3>3. /\ y.pc = "call" /\ y.email = e /\ y.import = x.import /\ y.key = x.key
            /\ y.tenant = x.tenant /\ y.feed = x.feed /\ y.todo = x.todo
            /\ y.imported = x.imported /\ y.failed = x.failed
        BY <1>5, <3>1 DEF TaskState
      <3>4. y \in TaskState
        BY <1>5, <3>1, <3>2 DEF TaskState
      <3>5. ReportOK(y, made', owner') /\ (Progress(x) => Progress(y))
        <4>1. ReportOK(x, made', owner')
          BY <1>5
        <4> QED
          BY <1>5, <3>3, <4>1, SameRow
      <3>6. TaskOK(y, made')
        BY <1>4, <1>5, <3>2, <3>3, <3>5 DEF TaskOK, Working
      <3>7. task' = [task EXCEPT ![t] = y]
        BY <1>5, <2>3, <3>1
      <3> QED
        BY <1>2, <3>4, <3>5, <3>6, <3>7, StepOK
    <2> QED
      BY <2>1, <2>2, <2>3
  <1> QED
    BY <1>1, <1>8 DEF IInv

LEMMA CreateCallOK ==
    ASSUME IInv, NEW t \in Task, CreateCall(t)
    PROVE  IInv'
  <1>1. PICK x : x = task[t]
    OBVIOUS
  <1>2. /\ x \in TaskState /\ TaskOK(x, made) /\ ReportOK(x, made, owner)
        /\ x.pc = "call" /\ x.email \in Email /\ x.key \in Key \cup {NoKey}
        /\ x.import \in BOOLEAN /\ (x.import => x.key = NoKey)
        /\ Working(x) /\ UNCHANGED <<owner, answered, overlapped>>
    BY <1>1 DEF IInv, TaskInv, ReportInv, CreateCall, TaskOK, Working, TaskState
  <1>3. Marks'
    BY DEF IInv, Marks, CreateCall
  <1>4. ASSUME NEW c \in Customer, Tables', Steady,
               made'[c].email = x.email \/ ~x.import, made'[c].email # None,
               made'[c].import = x.import,
               Goto(t, [x EXCEPT !.pc = "insert", !.c = c])
        PROVE  IInv'
    <2>1. PICK y : y = [x EXCEPT !.pc = "insert", !.c = c]
      OBVIOUS
    <2>2. /\ y.pc = "insert" /\ y.c = c /\ y.email = x.email /\ y.import = x.import
          /\ y.key = x.key /\ y.tenant = x.tenant /\ y.feed = x.feed /\ y.todo = x.todo
          /\ y.imported = x.imported /\ y.failed = x.failed
      BY <1>2, <2>1 DEF TaskState
    <2>3. y \in TaskState
      <3>1. c \in 0 .. MaxCustomer
        BY CustomersAssumption DEF Customer
      <3> QED
        BY <1>2, <2>1, <3>1 DEF TaskState
    <2>4. ReportOK(y, made', owner') /\ (Progress(x) => Progress(y))
      <3>1. PICK m : m = made'
        OBVIOUS
      <3>2. PICK o : o = owner'
        OBVIOUS
      <3>3. ReportOK(x, m, o)
        BY <1>2, <1>4, <3>1, <3>2, ReportStays DEF IInv
      <3>4. ReportOK(y, m, o) /\ (Progress(x) => Progress(y))
        BY <1>2, <2>2, <3>3, SameRow
      <3> QED
        BY <3>1, <3>2, <3>4
    <2>5. TaskOK(y, made')
      BY <1>2, <1>4, <2>2, <2>4 DEF TaskOK, Working
    <2>6. task' = [task EXCEPT ![t] = y]
      BY <1>4, <2>1 DEF Goto
    <2> QED
      BY <1>3, <1>4, <2>3, <2>4, <2>5, <2>6, StepOK DEF IInv
  <1>5. CASE \E c \in Customer :
               /\ ~Exists(c)
               /\ made' = [made EXCEPT ![c] = [email |-> x.email, key |-> x.key,
                                               import |-> x.import]]
               /\ Goto(t, [x EXCEPT !.pc = "insert", !.c = c])
    <2>1. PICK c \in Customer :
               /\ ~Exists(c)
               /\ made' = [made EXCEPT ![c] = [email |-> x.email, key |-> x.key,
                                               import |-> x.import]]
               /\ Goto(t, [x EXCEPT !.pc = "insert", !.c = c])
      BY <1>5
    <2>2. PICK r : r = [email |-> x.email, key |-> x.key, import |-> x.import]
      OBVIOUS
    <2>3. /\ r \in Made /\ r.email = x.email /\ r.import = x.import /\ r.key = x.key
          /\ x.email # None
      BY <1>2, <2>2, CustomersAssumption DEF Made
    <2>4. /\ made' \in [Customer -> Made]
          /\ \A d \in Customer : made'[d] = IF d = c THEN r ELSE made[d]
      BY <2>1, <2>2, <2>3 DEF IInv, Tables
    <2>5. Tables'
      BY <1>2, <2>1, <2>3, <2>4 DEF IInv, Tables, Exists
    <2>6. Steady
      BY <1>2, <2>1, <2>4 DEF Steady, Exists
    <2> QED
      BY <1>4, <2>1, <2>3, <2>4, <2>5, <2>6
  <1>6. CASE \E c \in Known(x.key) : /\ Goto(t, [x EXCEPT !.pc = "insert", !.c = c])
                                     /\ UNCHANGED made
    <2>1. PICK c \in Known(x.key) : /\ Goto(t, [x EXCEPT !.pc = "insert", !.c = c])
                                    /\ UNCHANGED made
      BY <1>6
    <2>2. c \in Customer /\ x.key # NoKey /\ made[c].key = x.key /\ made[c] \in Made
      BY DEF Known, IInv, Tables
    <2>3. x.import = FALSE /\ made[c].import = FALSE /\ made[c].email # None
      BY <1>2, <2>2 DEF IInv, Tables, Exists, Made
    <2>4. Tables' /\ Steady
      BY <1>2, <2>1 DEF IInv, Tables, Exists, Steady
    <2> QED
      BY <1>4, <2>1, <2>2, <2>3, <2>4
  <1>7. CASE Throw(t) /\ UNCHANGED made
    <2>1. TaskInv' /\ ReportInv'
      BY <1>1, <1>2, <1>7, ThrowOK
    <2>2. Tables'
      BY <1>2, <1>7 DEF IInv, Tables, Exists
    <2> QED
      BY <1>3, <2>1, <2>2 DEF IInv
  <1> QED
    BY <1>1, <1>5, <1>6, <1>7 DEF CreateCall

\* What an import claims to have brought counts the customer it records.
LEMMA BroughtOneMore ==
    ASSUME NEW x, NEW m, NEW o, NEW q, NEW c \in Brought(x, m, q),
           Brought(x, m, o) \subseteq Brought(x, m, q), c \notin Brought(x, m, o)
    PROVE  Cardinality(Brought(x, m, o)) + 1 <= Cardinality(Brought(x, m, q))
  <1>1. PICK S : S = Brought(x, m, o)
    OBVIOUS
  <1>2. PICK T : T = Brought(x, m, q)
    OBVIOUS
  <1>3. IsFiniteSet(S) /\ Cardinality(S) \in Nat /\ IsFiniteSet(T) /\ Cardinality(T) \in Nat
    BY <1>1, <1>2, BroughtFinite
  <1>4. S \subseteq T /\ S # T
    BY <1>1, <1>2
  <1>5. Cardinality(S) < Cardinality(T)
    BY <1>3, <1>4, FS_Subset
  <1>6. Cardinality(S) + 1 <= Cardinality(T)
    BY <1>3, <1>5
  <1> QED
    BY <1>1, <1>2, <1>6

LEMMA InsertOK ==
    ASSUME IInv, NEW t \in Task, Insert(t)
    PROVE  IInv'
  <1>1. PICK x : x = task[t]
    OBVIOUS
  <1>2. /\ x \in TaskState /\ TaskOK(x, made) /\ ReportOK(x, made, owner)
        /\ x.pc = "insert" /\ x.key \in Key \cup {NoKey}
        /\ x.import \in BOOLEAN /\ Working(x)
        /\ x.c \in Customer /\ x.tenant \in Tenant
        /\ UNCHANGED <<made, overlapped>>
    BY <1>1 DEF IInv, TaskInv, ReportInv, Insert, TaskOK, Working, TaskState
  <1>3. CASE owner[x.c] # None
    <2>1. Throw(t) /\ UNCHANGED <<owner, answered, faults>>
      BY <1>1, <1>3 DEF Insert
    <2>2. TaskInv' /\ ReportInv'
      BY <1>1, <1>2, <2>1, ThrowOK
    <2>3. Tables' /\ Marks'
      BY <1>2, <2>1 DEF IInv, Tables, Marks, Exists
    <2> QED
      BY <2>2, <2>3 DEF IInv
  <1>4. CASE owner[x.c] = None
    <2>1. /\ owner' = [owner EXCEPT ![x.c] = x.tenant]
          /\ Goto(t, IF x.import THEN [NextOf(x) EXCEPT !.imported = @ + 1] ELSE Idle)
      BY <1>1, <1>4 DEF Insert
    <2>2. /\ \A d \in Customer : owner'[d] = IF d = x.c THEN x.tenant ELSE owner[d]
          /\ owner' \in [Customer -> Tenant \cup {None}]
      BY <1>2, <2>1 DEF IInv, Tables
    <2>3. made[x.c].email # None
      BY <1>2 DEF TaskOK
    <2>4. Tables'
      BY <1>2, <2>2, <2>3 DEF IInv, Tables, Exists
    <2>5. Steady
      BY <1>2, <1>4, <2>2 DEF Steady
    <2>6. Marks'
      <3>1. \/ answered' = answered \cup ({x.key} \ {NoKey}) /\ UNCHANGED faults
            \/ faults < MaxFaults /\ faults' = faults + 1 /\ UNCHANGED answered
        BY <1>1, <1>4 DEF Insert
      <3>2. faults' \in 0 .. MaxFaults
        BY <3>1, CustomersAssumption DEF IInv, Marks
      <3>3. answered' \subseteq Key
        BY <1>2, <3>1 DEF IInv, Marks
      <3> QED
        BY <1>2, <3>2, <3>3 DEF IInv, Marks
    <2>7. CASE x.import
      <3>1. /\ x.todo # <<>> /\ made[x.c].import /\ made[x.c].email = Head(x.todo)
            /\ x.imported \in Nat /\ x.failed \in Nat
            /\ x.imported <= Cardinality(Brought(x, made, owner))
        <4>1. x.todo # <<>> /\ x.email = Head(x.todo)
          BY <1>2, <2>7 DEF TaskOK
        <4>2. made[x.c].import /\ made[x.c].email = x.email
          BY <1>2, <2>7 DEF TaskOK
        <4>3. x.imported \in Nat /\ x.failed \in Nat
          BY <1>2 DEF TaskState
        <4>4. x.imported <= Cardinality(Brought(x, made, owner))
          BY <1>2, <2>7 DEF ReportOK
        <4> QED
          BY <4>1, <4>2, <4>3, <4>4
      <3>2. [NextOf(x) EXCEPT !.imported = @ + 1] = After(x, x.imported + 1, x.failed)
        BY <1>2 DEF NextOf, After, TaskState
      <3>3. task' = [task EXCEPT ![t] = After(x, x.imported + 1, x.failed)]
        BY <2>1, <2>7, <3>2 DEF Goto
      <3>4. /\ x.imported + 1 \in Nat
            /\ (x.imported + 1) + x.failed <= x.imported + x.failed + 1
        BY <3>1
      <3>5. Head(x.todo) \in Record(x.tenant, made', owner')
        BY <1>2, <2>2, <3>1 DEF Record
      <3>6. Lists(x.feed, Head(x.todo))
        <4>1. /\ x.todo \in Seq(Line) /\ Len(x.todo) \in Nat
              /\ x.feed \in Seq(Line) /\ Len(x.feed) \in Nat
          BY <1>2, FeedFacts DEF TaskState
        <4>2. Len(x.todo) >= 1 /\ x.todo[1] = Head(x.todo)
          BY <3>1, <4>1, EmptySeq, HeadTailProperties
        <4>3. Progress(x)
          BY <1>2, <2>7 DEF TaskOK
        <4>4. x.todo[1] = x.feed[Done(x) + 1] /\ Done(x) + 1 \in 1 .. Len(x.feed)
          <5>1. 1 \in 1 .. Len(x.todo)
            BY <4>1, <4>2
          <5>2. x.todo[1] = x.feed[Done(x) + 1] /\ Done(x) \in Nat
            BY <4>3, <5>1 DEF Progress
          <5>3. Done(x) = Len(x.feed) - Len(x.todo)
            BY DEF Done
          <5>4. Done(x) + 1 \in 1 .. Len(x.feed)
            <6>1. PICK d \in Nat, f \in Nat, l \in Nat :
                    d = Done(x) /\ f = Len(x.feed) /\ l = Len(x.todo)
              BY <4>1, <5>2
            <6>2. d = f - l /\ l >= 1
              BY <4>2, <5>3, <6>1
            <6>3. d + 1 \in 1 .. f
              BY <6>2
            <6> QED
              BY <6>1, <6>3
          <5> QED
            BY <5>2, <5>4
        <4>5. DOMAIN x.feed = 1 .. Len(x.feed)
          BY <4>1, LenProperties
        <4> QED
          BY <4>2, <4>4, <4>5 DEF Lists
      <3>7. x.imported + 1 <= Cardinality(Brought(x, made', owner'))
        <4>1. PICK o : o = owner'
          OBVIOUS
        <4>2. x.c \in Brought(x, made, o) /\ x.c \notin Brought(x, made, owner)
          <5>1. x.tenant # None
            BY <1>2, CustomersAssumption
          <5> QED
            BY <1>2, <1>4, <2>2, <3>1, <3>6, <4>1, <5>1 DEF Brought
        <4>3. Brought(x, made, owner) \subseteq Brought(x, made, o)
          BY <1>2, <2>2, <4>1 DEF Brought
        <4>4. Cardinality(Brought(x, made, owner)) + 1 <= Cardinality(Brought(x, made, o))
          BY <4>2, <4>3, BroughtOneMore
        <4>5. /\ Cardinality(Brought(x, made, owner)) \in Nat
              /\ Cardinality(Brought(x, made, o)) \in Nat
          BY BroughtFinite
        <4>6. x.imported + 1 <= Cardinality(Brought(x, made, o))
          BY <3>1, <4>4, <4>5
        <4> QED
          BY <1>2, <4>1, <4>6
      <3> QED
        BY <1>1, <2>4, <2>5, <2>6, <2>7, <3>1, <3>3, <3>4, <3>5, <3>7, RowDone DEF IInv
    <2>8. CASE ~x.import
      <3>1. task' = [task EXCEPT ![t] = Idle]
        BY <2>1, <2>8 DEF Goto
      <3> QED
        BY <2>4, <2>5, <2>6, <3>1, IdleOK, StepOK DEF IInv
    <2> QED
      BY <2>7, <2>8
  <1> QED
    BY <1>3, <1>4

LEMMA StepFailsOK ==
    ASSUME IInv, NEW t \in Task, StepFails(t)
    PROVE  IInv'
  <1>1. Tables'
    BY DEF IInv, Tables, StepFails, Exists
  <1>2. Marks'
    BY CustomersAssumption DEF IInv, Marks, StepFails
  <1>3. TaskInv' /\ ReportInv'
    BY ThrowOK DEF StepFails, Working
  <1> QED
    BY <1>1, <1>2, <1>3 DEF IInv

LEMMA EndsOK ==
    ASSUME IInv, NEW t \in Task, ImportEnds(t) \/ Abort(t)
    PROVE  IInv'
  <1>1. Finish(t) /\ UNCHANGED <<made, owner, answered, overlapped>>
    BY DEF ImportEnds, Abort
  <1>2. Tables'
    BY <1>1 DEF IInv, Tables, Exists
  <1>3. Marks'
    BY CustomersAssumption DEF IInv, Marks, ImportEnds, Abort
  <1>4. TaskInv' /\ ReportInv'
    BY <1>1, FinishOK
  <1> QED
    BY <1>2, <1>3, <1>4 DEF IInv

LEMMA StutterOK == IInv /\ UNCHANGED vars => IInv'
  <1> SUFFICES ASSUME IInv, UNCHANGED vars PROVE IInv'
    OBVIOUS
  <1>1. Tables' /\ Marks'
    BY DEF vars, IInv, Tables, Marks, Exists
  <1>2. Steady /\ task' = task
    BY DEF vars, Steady
  <1>3. \A t \in Task : TaskOK(task[t], made') /\ ReportOK(task[t], made', owner')
    BY <1>2, TaskStays, ReportStays DEF IInv, TaskInv, ReportInv
  <1> QED
    BY <1>1, <1>2, <1>3 DEF IInv, TaskInv, ReportInv

LEMMA NextOK == IInv /\ [Next]_vars => IInv'
  <1> SUFFICES ASSUME IInv, [Next]_vars PROVE IInv'
    OBVIOUS
  <1>1. CASE Next
    <2>1. PICK t \in Task :
            \/ \E n \in Tenant, e \in Email, k \in Key \cup {NoKey} : Create(t, n, e, k)
            \/ \E n \in Feeding, rows \in Feed : ImportFromSource(t, n, rows)
            \/ Continue(t)
            \/ StepFails(t)
            \/ Abort(t)
      BY <1>1 DEF Next
    <2> QED
      BY <2>1, CreateOK, ImportFromSourceOK, ImportRowOK, CreateCallOK, InsertOK, StepFailsOK,
         EndsOK DEF Continue
  <1>2. CASE UNCHANGED vars
    BY <1>2, StutterOK
  <1> QED
    BY <1>1, <1>2

-----------------------------------------------------------------------------
\* However requests of any number interleave and whatever fails: an import has dealt
\* with the rows before the one it is at, each of them failed or on record, and what it
\* counts as imported it brought (importFromSource, customers.service.ts:148-213).
THEOREM Invariance == Spec => []IInv
  BY InitOK, NextOK, PTL DEF Spec

\* The customers, the table and the requests keep to their types.
THEOREM TypeCorrect == Spec => []TypeOK
  <1>1. IInv => TypeOK
    BY DEF IInv, Tables, Marks, TaskInv, TypeOK
  <1> QED
    BY <1>1, Invariance, PTL

\* What an import answers is true: a row whose e-mail did not become a customer of the
\* platform is counted as failed, and what it claims to have imported is on record.
THEOREM ReportsAreTrue == Spec => []ReportIsTrue
  <1>1. ASSUME IInv PROVE ReportIsTrue
    <2> SUFFICES ASSUME NEW t \in Task, NEW x, x = task[t], x.import, x.todo = <<>>
                 PROVE  /\ Cardinality({i \in DOMAIN x.feed : x.feed[i] \notin OnRecord(x.tenant)})
                             <= x.failed
                        /\ x.imported + x.failed <= Len(x.feed)
                        /\ x.imported <= Cardinality({c \in Customer :
                                /\ owner[c] = x.tenant
                                /\ made[c].import
                                /\ Lists(x.feed, made[c].email)})
      BY DEF ReportIsTrue
    <2>1. x \in TaskState /\ TaskOK(x, made) /\ ReportOK(x, made, owner)
      BY <1>1 DEF IInv, TaskInv, ReportInv
    <2>2. x.feed \in Seq(Line) /\ Len(x.feed) \in Nat
      BY <2>1, FeedFacts DEF TaskState
    <2>3. DOMAIN x.feed = 1 .. Len(x.feed)
      BY <2>2, LenProperties
    <2>4. Done(x) = Len(x.feed)
      BY <2>2, EmptySeq DEF Done
    <2>5. {i \in DOMAIN x.feed : x.feed[i] \notin OnRecord(x.tenant)} = Missed(x, made, owner)
      BY <2>3, <2>4 DEF Missed, Record, OnRecord
    <2>6. {c \in Customer : /\ owner[c] = x.tenant
                            /\ made[c].import
                            /\ Lists(x.feed, made[c].email)} = Brought(x, made, owner)
      BY DEF Brought
    <2>7. x.imported + x.failed <= Len(x.feed)
      BY <2>1, <2>4 DEF TaskOK, Progress
    <2> QED
      BY <2>1, <2>5, <2>6, <2>7 DEF ReportOK
  <1> QED
    BY <1>1, Invariance, PTL

-----------------------------------------------------------------------------
(* Imports of a platform that take turns.                                  *)

RecordedOnce ==
    \A c, d \in Customer :
      /\ made[c].import /\ made[d].import /\ made[c].email = made[d].email
      /\ owner[c] = owner[d] /\ owner[c] # None
      => c = d

OneImport == \A t, u \in Task : /\ task[t].import /\ task[u].import
                                /\ task[t].tenant = task[u].tenant
                                => t = u

\* What an import has looked up and not found is still not there.
NotYet == \A t \in Task : task[t].import /\ Working(task[t]) =>
            \A c \in Customer : owner[c] = task[t].tenant /\ made[c].import
                                => made[c].email # task[t].email

Turns == ~overlapped => RecordedOnce /\ OneImport /\ NotYet

\* No customer is recorded, and no import begins: request t becomes y.
LEMMA MovesTurns ==
    ASSUME IInv, Turns, Steady, UNCHANGED <<owner, overlapped>>, NEW t \in Task, NEW y,
           task' = [task EXCEPT ![t] = y],
           y.import => task[t].import /\ y.tenant = task[t].tenant,
           y.import /\ Working(y) =>
             \/ Working(task[t]) /\ y.email = task[t].email
             \/ Existing(y.tenant, y.email) = {}
    PROVE  Turns'
  <1> SUFFICES ASSUME ~overlapped PROVE RecordedOnce' /\ OneImport' /\ NotYet'
    BY DEF Turns
  <1>1. RecordedOnce /\ OneImport /\ NotYet
    BY DEF Turns
  <1>2. \A u \in Task : task'[u] = IF u = t THEN y ELSE task[u]
    BY DEF IInv, TaskInv
  <1>3. \A c \in Customer : owner[c] # None => made'[c] = made[c] /\ owner'[c] = owner[c]
    BY DEF IInv, Tables, Steady, Exists
  <1>4. \A c \in Customer : owner'[c] = owner[c]
    OBVIOUS
  <1>5. RecordedOnce'
    BY <1>1, <1>3, <1>4 DEF RecordedOnce
  <1>6. OneImport'
    BY <1>1, <1>2 DEF OneImport
  <1>7. ASSUME NEW u \in Task, task'[u].import, Working(task'[u]), NEW c \in Customer,
               owner'[c] = task'[u].tenant, made'[c].import
        PROVE  made'[c].email # task'[u].email
    <2>1. /\ task[u].import /\ task[u].tenant = task'[u].tenant /\ TaskOK(task[u], made)
          /\ owner[c] = task[u].tenant
      BY <1>2, <1>4, <1>7 DEF IInv, TaskInv
    <2>2. task[u].tenant # None
      BY <2>1, CustomersAssumption DEF TaskOK
    <2>3. made'[c] = made[c]
      BY <1>3, <2>1, <2>2
    <2>4. CASE u # t \/ (Working(task[t]) /\ y.email = task[t].email)
      <3>1. Working(task[u]) /\ task[u].email = task'[u].email
        BY <1>2, <1>7, <2>4
      <3> QED
        BY <1>1, <1>7, <2>1, <2>3, <3>1 DEF NotYet
    <2>5. CASE u = t /\ Existing(y.tenant, y.email) = {}
      BY <1>2, <1>4, <1>7, <2>3, <2>5 DEF Existing
    <2> QED
      BY <1>2, <1>7, <2>4, <2>5
  <1> QED
    BY <1>5, <1>6, <1>7 DEF NotYet, Working

LEMMA FinishTurns ==
    ASSUME IInv, Turns, UNCHANGED <<made, owner, overlapped>>, NEW t \in Task, Finish(t)
    PROVE  Turns'
  <1>1. Steady /\ task' = [task EXCEPT ![t] = Idle]
    BY DEF Steady, Finish, Goto
  <1> QED
    BY <1>1, IdleOK, MovesTurns

LEMMA ThrowTurns ==
    ASSUME IInv, Turns, UNCHANGED <<made, owner, overlapped>>, NEW t \in Task, Throw(t)
    PROVE  Turns'
  <1>1. Steady
    BY DEF Steady
  <1>2. CASE task[t].import
    <2>1. PICK y : y = [NextOf(task[t]) EXCEPT !.failed = @ + 1]
      OBVIOUS
    <2>2. /\ y.pc = "row" /\ y.import = task[t].import /\ y.tenant = task[t].tenant
      BY <2>1 DEF IInv, TaskInv, TaskState, NextOf
    <2>3. task' = [task EXCEPT ![t] = y]
      BY <1>2, <2>1 DEF Throw, Goto
    <2>4. ~Working(y)
      BY <2>2 DEF Working
    <2> QED
      BY <1>1, <2>2, <2>3, <2>4, MovesTurns
  <1>3. CASE ~task[t].import
    <2>1. task' = [task EXCEPT ![t] = Idle]
      BY <1>3 DEF Throw, Goto
    <2> QED
      BY <1>1, <2>1, IdleOK, MovesTurns
  <1> QED
    BY <1>2, <1>3

LEMMA CreateTurns ==
    ASSUME IInv, Turns, NEW t \in Task, NEW n \in Tenant, NEW e \in Email,
           NEW k \in Key \cup {NoKey}, Create(t, n, e, k)
    PROVE  Turns'
  <1>1. PICK y : y = [Idle EXCEPT !.pc = "call", !.tenant = n, !.email = e, !.key = k]
    OBVIOUS
  <1>2. ~y.import
    BY <1>1 DEF Idle
  <1>3. task' = [task EXCEPT ![t] = y] /\ Steady /\ UNCHANGED <<owner, overlapped>>
    BY <1>1 DEF Create, Goto, Steady
  <1> QED
    BY <1>2, <1>3, MovesTurns

LEMMA ImportFromSourceTurns ==
    ASSUME IInv, Turns, NEW t \in Task, NEW n \in Feeding, NEW rows \in Feed,
           ImportFromSource(t, n, rows)
    PROVE  Turns'
  <1> SUFFICES ASSUME ~overlapped' PROVE RecordedOnce' /\ OneImport' /\ NotYet'
    BY DEF Turns
  <1>1. PICK y : y = [Idle EXCEPT !.pc = "row", !.import = TRUE, !.tenant = n,
                                  !.feed = rows, !.todo = rows]
    OBVIOUS
  <1>2. y.pc = "row" /\ y.tenant = n
    BY <1>1 DEF Idle
  <1>3. /\ ~overlapped /\ \A u \in Task : ~(task[u].import /\ task[u].tenant = n)
        /\ UNCHANGED <<made, owner>>
    BY DEF ImportFromSource
  <1>4. RecordedOnce /\ OneImport /\ NotYet
    BY <1>3 DEF Turns
  <1>5. \A u \in Task : task'[u] = IF u = t THEN y ELSE task[u]
    BY <1>1 DEF ImportFromSource, Goto, IInv, TaskInv
  <1>6. RecordedOnce'
    BY <1>3, <1>4 DEF RecordedOnce
  <1>7. OneImport'
    BY <1>2, <1>3, <1>4, <1>5 DEF OneImport
  <1>8. NotYet'
    <2>1. \A u \in Task : Working(task'[u]) => task'[u] = task[u]
      BY <1>2, <1>5 DEF Working
    <2> QED
      BY <1>3, <1>4, <2>1 DEF NotYet, Working
  <1> QED
    BY <1>6, <1>7, <1>8

LEMMA ImportRowTurns ==
    ASSUME IInv, Turns, NEW t \in Task, ImportRow(t)
    PROVE  Turns'
  <1>1. PICK x : x = task[t]
    OBVIOUS
  <1>2. PICK e : e = Head(x.todo)
    OBVIOUS
  <1>3. PICK y : y = IF e = Blank THEN [NextOf(x) EXCEPT !.failed = @ + 1]
                     ELSE IF Existing(x.tenant, e) # {} THEN NextOf(x)
                     ELSE [x EXCEPT !.pc = "call", !.email = e]
    OBVIOUS
  <1>4. x \in TaskState
    BY <1>1 DEF IInv, TaskInv
  <1>5. /\ y.import = x.import /\ y.tenant = x.tenant
        /\ y.pc = "row" \/ (y.email = e /\ Existing(x.tenant, e) = {})
    BY <1>3, <1>4 DEF TaskState, NextOf
  <1>6. /\ task' = [task EXCEPT ![t] = y] /\ Steady /\ UNCHANGED <<owner, overlapped>>
    BY <1>1, <1>2, <1>3 DEF ImportRow, Goto, Steady
  <1>7. y.import /\ Working(y) => Existing(y.tenant, y.email) = {}
    BY <1>5 DEF Working
  <1> QED
    BY <1>1, <1>5, <1>6, <1>7, MovesTurns

LEMMA CreateCallTurns ==
    ASSUME IInv, Turns, NEW t \in Task, CreateCall(t)
    PROVE  Turns'
  <1>1. PICK x : x = task[t]
    OBVIOUS
  <1>2. x \in TaskState /\ x.pc = "call" /\ UNCHANGED <<owner, overlapped>>
    BY <1>1 DEF IInv, TaskInv, CreateCall
  <1>3. ASSUME NEW c, Goto(t, [x EXCEPT !.pc = "insert", !.c = c]), Steady
        PROVE  Turns'
    <2>1. PICK y : y = [x EXCEPT !.pc = "insert", !.c = c]
      OBVIOUS
    <2>2. y.import = x.import /\ y.tenant = x.tenant /\ y.email = x.email
      BY <1>2, <2>1 DEF TaskState
    <2>3. task' = [task EXCEPT ![t] = y] /\ Working(x)
      BY <1>2, <1>3, <2>1 DEF Goto, Working
    <2> QED
      BY <1>1, <1>2, <1>3, <2>2, <2>3, MovesTurns
  <1>4. CASE \E c \in Customer :
               /\ ~Exists(c)
               /\ made' = [made EXCEPT ![c] = [email |-> x.email, key |-> x.key,
                                               import |-> x.import]]
               /\ Goto(t, [x EXCEPT !.pc = "insert", !.c = c])
    <2>1. PICK c \in Customer :
               /\ ~Exists(c)
               /\ made' = [made EXCEPT ![c] = [email |-> x.email, key |-> x.key,
                                               import |-> x.import]]
               /\ Goto(t, [x EXCEPT !.pc = "insert", !.c = c])
      BY <1>4
    <2>2. Steady
      BY <1>2, <2>1 DEF Steady, Exists, IInv, Tables
    <2> QED
      BY <1>3, <2>1, <2>2
  <1>5. CASE \E c \in Known(x.key) : /\ Goto(t, [x EXCEPT !.pc = "insert", !.c = c])
                                     /\ UNCHANGED made
    <2>1. PICK c \in Known(x.key) : /\ Goto(t, [x EXCEPT !.pc = "insert", !.c = c])
                                    /\ UNCHANGED made
      BY <1>5
    <2>2. Steady
      BY <1>2, <2>1 DEF Steady
    <2> QED
      BY <1>3, <2>1, <2>2
  <1>6. CASE Throw(t) /\ UNCHANGED made
    BY <1>2, <1>6, ThrowTurns
  <1> QED
    BY <1>1, <1>4, <1>5, <1>6 DEF CreateCall

LEMMA InsertTurns ==
    ASSUME IInv, Turns, NEW t \in Task, Insert(t)
    PROVE  Turns'
  <1>1. PICK x : x = task[t]
    OBVIOUS
  <1>2. /\ x \in TaskState /\ TaskOK(x, made) /\ x.pc = "insert" /\ Working(x)
        /\ x.c \in Customer /\ UNCHANGED <<made, overlapped>>
    BY <1>1 DEF IInv, TaskInv, Insert, TaskOK, Working
  <1>3. CASE owner[x.c] # None
    <2>1. Throw(t) /\ UNCHANGED owner
      BY <1>1, <1>3 DEF Insert
    <2> QED
      BY <1>2, <2>1, ThrowTurns
  <1>4. CASE owner[x.c] = None
    <2> SUFFICES ASSUME ~overlapped PROVE RecordedOnce' /\ OneImport' /\ NotYet'
      BY <1>2 DEF Turns
    <2>1. RecordedOnce /\ OneImport /\ NotYet
      BY DEF Turns
    <2>2. PICK y : y = IF x.import THEN [NextOf(x) EXCEPT !.imported = @ + 1] ELSE Idle
      OBVIOUS
    <2>3. (y.import => x.import /\ y.tenant = x.tenant) /\ ~Working(y)
      BY <1>2, <2>2, IdleOK DEF TaskState, NextOf, Working
    <2>4. \A u \in Task : task'[u] = IF u = t THEN y ELSE task[u]
      BY <1>1, <1>4, <2>2 DEF Insert, Goto, IInv, TaskInv
    <2>5. \A d \in Customer : owner'[d] = IF d = x.c THEN x.tenant ELSE owner[d]
      BY <1>1, <1>2, <1>4 DEF Insert, IInv, Tables
    <2>6. /\ made[x.c].import = x.import
          /\ x.import => made[x.c].email = x.email
      BY <1>2 DEF TaskOK
    <2>7. x.import => \A c \in Customer : owner[c] = x.tenant /\ made[c].import
                                          => made[c].email # x.email
      BY <1>1, <1>2, <2>1 DEF NotYet
    <2>8. RecordedOnce'
      BY <1>2, <2>1, <2>5, <2>6, <2>7 DEF RecordedOnce
    <2>9. OneImport'
      BY <1>1, <2>1, <2>3, <2>4 DEF OneImport
    <2>10. ASSUME NEW u \in Task, task'[u].import, Working(task'[u]), NEW c \in Customer,
                  owner'[c] = task'[u].tenant, made'[c].import
           PROVE  made'[c].email # task'[u].email
      <3>1. u # t /\ task'[u] = task[u]
        BY <2>3, <2>4, <2>10
      <3>2. c # x.c
        BY <1>1, <1>2, <2>1, <2>5, <2>6, <2>10, <3>1 DEF OneImport
      <3> QED
        BY <1>2, <2>1, <2>5, <2>10, <3>1, <3>2 DEF NotYet
    <2> QED
      BY <2>8, <2>9, <2>10 DEF NotYet, Working
  <1> QED
    BY <1>3, <1>4

LEMMA TurnsNext == IInv /\ Turns /\ [Next]_vars => Turns'
  <1> SUFFICES ASSUME IInv, Turns, [Next]_vars PROVE Turns'
    OBVIOUS
  <1>1. CASE Next
    <2>1. PICK t \in Task :
            \/ \E n \in Tenant, e \in Email, k \in Key \cup {NoKey} : Create(t, n, e, k)
            \/ \E n \in Feeding, rows \in Feed : ImportFromSource(t, n, rows)
            \/ Continue(t)
            \/ StepFails(t)
            \/ Abort(t)
      BY <1>1 DEF Next
    <2>2. CASE ImportEnds(t) \/ Abort(t)
      <3>1. Finish(t) /\ UNCHANGED <<made, owner, overlapped>>
        BY <2>2 DEF ImportEnds, Abort
      <3> QED
        BY <3>1, FinishTurns
    <2>3. CASE StepFails(t)
      BY <2>3, ThrowTurns DEF StepFails
    <2> QED
      BY <2>1, <2>2, <2>3, CreateTurns, ImportFromSourceTurns, ImportRowTurns,
         CreateCallTurns, InsertTurns DEF Continue
  <1>2. CASE UNCHANGED vars
    BY <1>2 DEF vars, Turns, RecordedOnce, OneImport, NotYet, Working
  <1> QED
    BY <1>1, <1>2

\* Imports of a platform that take turns (importFromSource, customers.service.ts:148-213):
\* the e-mail an import has looked up and not found stays off the record until it is
\* recorded by that import itself.
THEOREM TurnsInvariance == Spec => []Turns
  <1>1. Init => Turns
    BY DEF Init, Turns, RecordedOnce, OneImport, NotYet, NotMade, Idle
  <1> QED
    BY <1>1, Invariance, TurnsNext, PTL DEF Spec

\* "Existing customers are matched on email and left alone rather than duplicated, so the
\* import is safe to run repeatedly" (customers.service.ts:146-147): whatever fails and
\* whatever is created by hand, imports of a platform that do not overlap record each
\* e-mail once.
THEOREM RepeatsRecordOnce == Spec => []RepeatsAreSafe
  <1>1. Turns => RepeatsAreSafe
    BY DEF Turns, RecordedOnce, RepeatsAreSafe
  <1> QED
    BY <1>1, TurnsInvariance, PTL
=============================================================================
