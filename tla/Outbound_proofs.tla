---------------------------- MODULE Outbound_proofs ----------------------------
(***************************************************************************)
(* Proofs about Outbound, for any number of deliveries, overlapping        *)
(* attempts, sweeps and crashes, and any timing (Spec, not FairSpec).      *)
(***************************************************************************)
EXTENDS Outbound, TLAPS

\* What row r of delivery d satisfies when A is the set of those acknowledged, and
\* so does every copy about to be saved over the row.
Good(r, d, A) == /\ r.status = "delivered" => d \in A
                 /\ r.status = "pending" => r.attempts < MaxAttempts
                 /\ r.status = "failed" =>
                      r.attempts = MaxAttempts \/ r.error = "unconfigured"

\* What an attempt knows at each of its awaits.
StateOK(x, A) == /\ x.pc \in {"read", "tenant", "post", "save"} => x.d \in Delivery
                 /\ x.pc \in {"tenant", "post"} => x.copy.status = "pending"
                 /\ x.pc = "tenant" => x.copy.attempts < MaxAttempts
                 /\ x.pc = "post" => x.copy.attempts <= MaxAttempts
                 /\ x.pc = "save" => Good(x.copy, x.d, A)

RowsOK == \A d \in Delivery : Good(rec[d], d, acked)
WorkersOK == \A w \in Worker : StateOK(worker[w], acked)

\* Saves overwrite rows with copies, so what is true of rows has to be true of the
\* copies, and of what attempts compute from them, at every await before the save.
IInv == TypeOK /\ RowsOK /\ WorkersOK

-----------------------------------------------------------------------------
\* One worker moves to a state that is typed and knows only what is true.
LEMMA OneWorker ==
    ASSUME NEW w \in Worker, NEW s \in WorkerState,
           worker \in [Worker -> WorkerState], WorkersOK,
           Set(w, s), StateOK(s, acked'), acked \subseteq acked'
    PROVE  worker' \in [Worker -> WorkerState] /\ WorkersOK'
  <1>1. worker' \in [Worker -> WorkerState]
    BY DEF Set
  <1>2. ASSUME NEW v \in Worker
        PROVE  StateOK(worker'[v], acked')
    <2>1. CASE v = w
      BY <2>1 DEF Set
    <2>2. CASE v # w
      <3>1. worker'[v] = worker[v] /\ StateOK(worker[v], acked)
        BY <2>2 DEF Set, WorkersOK
      <3> QED
        BY <3>1 DEF StateOK, Good
    <2> QED
      BY <2>1, <2>2
  <1> QED
    BY <1>1, <1>2 DEF WorkersOK

LEMMA IdleOK == Idle \in WorkerState /\ NoRecord \in Record
  BY DEF Idle, State, WorkerState, NoRecord, Record

\* Between attempts a worker holds nothing.
LEMMA RestOK ==
    ASSUME NEW w \in Worker, worker \in [Worker -> WorkerState], NEW A
    PROVE  Rest(w) \in WorkerState /\ StateOK(Rest(w), A)
  BY IdleOK DEF Rest, Idle, State, WorkerState, StateOK

LEMMA IInvInit == Init => IInv
  BY OutboundAssumption, IdleOK
     DEF Init, IInv, TypeOK, RowsOK, WorkersOK, Good, StateOK, NoRecord, Idle, State

\* A worker that goes on with copy c of its row, to an await where c may be held.
LEMMA GoOK ==
    ASSUME NEW w \in Worker, NEW pc \in {"tenant", "post", "save"}, NEW c \in Record,
           TypeOK, WorkersOK, worker[w].d \in Delivery, Go(w, pc, c),
           StateOK(State(pc, worker[w].d, c, worker[w].todo), acked'),
           acked \subseteq acked'
    PROVE  worker' \in [Worker -> WorkerState] /\ WorkersOK'
  <1> DEFINE s == State(pc, worker[w].d, c, worker[w].todo)
  <1>1. s \in WorkerState
    BY DEF TypeOK, State, WorkerState
  <1>2. Set(w, s)
    BY DEF Go
  <1> QED
    BY <1>1, <1>2, OneWorker DEF TypeOK

LEMMA BackoffIsNat == ASSUME NEW n PROVE Backoff(n) \in Nat
  <1> DEFINE b == 2 ^ n
  <1>1. Backoff(n) = IF b \in 1 .. MaxBackoff THEN b ELSE MaxBackoff
    BY DEF Backoff
  <1> HIDE DEF b
  <1>2. MaxBackoff \in Nat
    BY OutboundAssumption
  <1>3. ASSUME b \in 1 .. MaxBackoff PROVE b \in Nat
    BY <1>2, <1>3
  <1>4. CASE b \in 1 .. MaxBackoff
    <2>1. Backoff(n) = b
      BY <1>1, <1>4, Zenon
    <2> QED
      BY <1>3, <1>4, <2>1, Zenon
  <1>5. CASE b \notin 1 .. MaxBackoff
    <2>1. Backoff(n) = MaxBackoff
      BY <1>1, <1>5, Zenon
    <2> QED
      BY <1>2, <2>1, Zenon
  <1> QED
    BY <1>4, <1>5, Zenon

\* A copy that goes back to wait n minutes.
LEMMA WaitOK ==
    ASSUME NEW c \in Record, c.status = "pending", c.attempts < MaxAttempts,
           NEW n \in Nat, NEW d \in Delivery, NEW A
    PROVE  /\ [c EXCEPT !.wait = n, !.error = "refused"] \in Record
           /\ Good([c EXCEPT !.wait = n, !.error = "refused"], d, A)
  <1> DEFINE k == [c EXCEPT !.wait = n, !.error = "refused"]
  <1>1. k \in Record
    BY DEF Record
  <1>2. k.status = "pending" /\ k.attempts = c.attempts
    BY DEF Record
  <1> QED
    BY <1>1, <1>2 DEF Good

LEMMA RetryOK ==
    ASSUME NEW c \in Record, c.status = "pending", c.attempts <= MaxAttempts,
           NEW d \in Delivery, NEW A
    PROVE  ScheduleRetry(c) \in Record /\ Good(ScheduleRetry(c), d, A)
  <1>1. CASE c.attempts >= MaxAttempts
    <2> DEFINE k == [c EXCEPT !.status = "failed", !.error = "refused"]
    <2>1. ScheduleRetry(c) = k
      BY <1>1, Zenon DEF ScheduleRetry
    <2>2. c.attempts \in Nat /\ MaxAttempts \in Nat
      BY OutboundAssumption DEF Record
    <2>3. c.attempts = MaxAttempts
      BY <1>1, <2>2
    <2>4. k \in Record
      BY DEF Record
    <2>5. k.status = "failed" /\ k.attempts = c.attempts
      BY DEF Record
    <2>6. Good(k, d, A)
      BY <2>3, <2>5 DEF Good
    <2> QED
      BY <2>1, <2>4, <2>6, Zenon
  <1>2. CASE ~(c.attempts >= MaxAttempts)
    <2>1. PICK n \in Nat : n = Backoff(c.attempts)
      BY BackoffIsNat, Zenon
    <2>2. ScheduleRetry(c) = [c EXCEPT !.wait = n, !.error = "refused"]
      BY <1>2, <2>1, Zenon DEF ScheduleRetry
    <2>3. c.attempts \in Nat /\ MaxAttempts \in Nat
      BY OutboundAssumption DEF Record
    <2>4. c.attempts < MaxAttempts
      BY <1>2, <2>3
    <2> DEFINE k == [c EXCEPT !.wait = n, !.error = "refused"]
    <2>5. k \in Record /\ Good(k, d, A)
      BY <2>4, WaitOK, Zenon
    <2> QED
      BY <2>2, <2>5, Zenon
  <1> QED
    BY <1>1, <1>2

-----------------------------------------------------------------------------
LEMMA IInvNext == IInv /\ [Next]_vars => IInv'
  <1> SUFFICES ASSUME IInv, [Next]_vars
               PROVE  IInv'
    OBVIOUS
  <1> USE DEF IInv
  <1>1. ASSUME NEW w \in Worker, NEW d \in Delivery, Emit(w, d)
        PROVE  IInv'
    <2> DEFINE s == State("read", d, NoRecord, {})
    <2>1. s \in WorkerState /\ StateOK(s, acked')
      BY IdleOK DEF State, WorkerState, StateOK
    <2>2. worker' \in [Worker -> WorkerState] /\ WorkersOK'
      BY <1>1, <2>1, OneWorker DEF Emit, TypeOK
    <2>3. Queued \in Record /\ Good(Queued, d, acked)
      BY OutboundAssumption DEF Queued, NoRecord, Record, Good
    <2> QED
      BY <1>1, <2>2, <2>3 DEF Emit, TypeOK, RowsOK
  <1>2. ASSUME NEW w \in Worker, Sweep(w)
        PROVE  IInv'
    <2> DEFINE s == State("next", NoDelivery, NoRecord, Due)
    <2>1. s \in WorkerState /\ StateOK(s, acked')
      BY IdleOK DEF Due, State, WorkerState, StateOK
    <2>2. worker' \in [Worker -> WorkerState] /\ WorkersOK'
      BY <1>2, <2>1, OneWorker DEF Sweep, TypeOK
    <2> QED
      BY <1>2, <2>2 DEF Sweep, TypeOK, RowsOK
  <1>3. ASSUME NEW w \in Worker, SweepNext(w)
        PROVE  IInv'
    <2>1. PICK d \in worker[w].todo :
            Set(w, State("read", d, NoRecord, worker[w].todo \ {d}))
      BY <1>3 DEF SweepNext
    <2> DEFINE s == State("read", d, NoRecord, worker[w].todo \ {d})
    <2>2. worker[w].todo \in SUBSET Delivery
      BY DEF TypeOK, WorkerState
    <2>3. s \in WorkerState /\ StateOK(s, acked')
      BY <2>2, IdleOK DEF State, WorkerState, StateOK
    <2>4. worker' \in [Worker -> WorkerState] /\ WorkersOK'
      BY <1>3, <2>1, <2>3, OneWorker DEF SweepNext, TypeOK
    <2> QED
      BY <1>3, <2>4 DEF SweepNext, TypeOK, RowsOK
  <1>4. ASSUME NEW w \in Worker, Read(w)
        PROVE  IInv'
    <2> DEFINE r == rec[worker[w].d]
    <2>1. worker[w].d \in Delivery /\ r \in Record /\ Good(r, worker[w].d, acked)
      BY <1>4 DEF Read, TypeOK, RowsOK, WorkersOK, StateOK
    <2>2. CASE r.status = "pending"
      <3>1. Go(w, "tenant", r)
        BY <1>4, <2>2 DEF Read
      <3>2. StateOK(State("tenant", worker[w].d, r, worker[w].todo), acked')
        BY <2>1, <2>2 DEF State, StateOK, Good
      <3> QED
        BY <1>4, <2>1, <3>1, <3>2, GoOK DEF Read, TypeOK, RowsOK
    <2>3. CASE r.status # "pending"
      <3>1. Set(w, Rest(w))
        BY <1>4, <2>3 DEF Read
      <3> QED
        BY <1>4, <3>1, RestOK, OneWorker DEF Read, TypeOK, RowsOK
    <2> QED
      BY <2>2, <2>3
  <1>5. ASSUME NEW w \in Worker, ReadTenant(w)
        PROVE  IInv'
    <2> DEFINE c == worker[w].copy
    <2> DEFINE counted == [c EXCEPT !.attempts = @ + 1]
    <2> DEFINE closed == [c EXCEPT !.status = "failed", !.error = "unconfigured"]
    <2>1. /\ worker[w].d \in Delivery /\ c \in Record
          /\ c.status = "pending" /\ c.attempts < MaxAttempts
      BY <1>5 DEF ReadTenant, TypeOK, WorkersOK, StateOK, WorkerState
    <2>2. CASE Go(w, "post", counted)
      <3>1. /\ counted \in Record /\ counted.status = "pending"
            /\ counted.attempts <= MaxAttempts
        BY <2>1, OutboundAssumption DEF Record
      <3>2. StateOK(State("post", worker[w].d, counted, worker[w].todo), acked')
        BY <2>1, <3>1 DEF State, StateOK
      <3> QED
        BY <1>5, <2>1, <2>2, <3>1, <3>2, GoOK DEF ReadTenant, TypeOK, RowsOK
    <2>3. CASE Go(w, "save", closed)
      <3>1. /\ closed \in Record /\ closed.status = "failed"
            /\ closed.error = "unconfigured"
        BY <2>1 DEF Record
      <3>2. StateOK(State("save", worker[w].d, closed, worker[w].todo), acked')
        BY <2>1, <3>1 DEF State, StateOK, Good
      <3> QED
        BY <1>5, <2>1, <2>3, <3>1, <3>2, GoOK DEF ReadTenant, TypeOK, RowsOK
    <2> QED
      BY <1>5, <2>2, <2>3 DEF ReadTenant
  <1>6. ASSUME NEW w \in Worker, Deliver(w)
        PROVE  IInv'
    <2> DEFINE d == worker[w].d
    <2>1. /\ d \in Delivery /\ worker[w].copy \in Record
          /\ worker[w].copy.status = "pending"
          /\ worker[w].copy.attempts <= MaxAttempts
      BY <1>6 DEF Deliver, TypeOK, WorkersOK, StateOK, WorkerState
    <2>2. posted' \in [Delivery -> Nat] /\ UNCHANGED <<rec, faults>>
      BY <1>6, <2>1 DEF Deliver, Counted, TypeOK
    <2>3. acked' \subseteq Delivery /\ acked \subseteq acked'
      BY <1>6, <2>1 DEF Deliver, TypeOK
    <2>4. PICK c \in Record : Good(c, d, acked') /\ Go(w, "save", c)
      <3>1. CASE /\ acked' = acked \cup {d}
                 /\ Go(w, "save", [worker[w].copy EXCEPT !.status = "delivered"])
        BY <2>1, <3>1 DEF Record, Good
      <3>2. CASE Go(w, "save", ScheduleRetry(worker[w].copy))
        BY <2>1, <3>2, RetryOK
      <3> QED
        BY <1>6, <3>1, <3>2 DEF Deliver
    <2>5. StateOK(State("save", d, c, worker[w].todo), acked')
      BY <2>1, <2>4 DEF State, StateOK
    <2>6. worker' \in [Worker -> WorkerState] /\ WorkersOK'
      BY <2>1, <2>3, <2>4, <2>5, GoOK
    <2> QED
      BY <2>2, <2>3, <2>6 DEF TypeOK, RowsOK, Good
  <1>7. ASSUME NEW w \in Worker, Save(w)
        PROVE  IInv'
    <2> DEFINE x == worker[w]
    <2>1. /\ x \in WorkerState /\ x.d \in Delivery /\ x.copy \in Record
          /\ Good(x.copy, x.d, acked)
      BY <1>7 DEF Save, TypeOK, WorkersOK, StateOK, WorkerState
    <2>2. worker' \in [Worker -> WorkerState] /\ WorkersOK'
      BY <1>7, RestOK, OneWorker DEF Save, TypeOK
    <2> QED
      BY <1>7, <2>1, <2>2 DEF Save, TypeOK, RowsOK
  <1>8. CASE Crash
    <2>1. worker' \in [Worker -> WorkerState] /\ WorkersOK'
      BY <1>8, IdleOK DEF Crash, WorkersOK, StateOK, Idle, State
    <2>2. faults' \in 0 .. MaxFault
      BY <1>8, OutboundAssumption DEF Crash, TypeOK
    <2> QED
      BY <1>8, <2>1, <2>2 DEF Crash, TypeOK, RowsOK
  <1>9. CASE Tick
    <2>1. ASSUME NEW r \in Record, NEW d, NEW A
          PROVE  /\ Sooner(r) \in Record
                 /\ Sooner(r).status = r.status
                 /\ Sooner(r).attempts = r.attempts
                 /\ Good(r, d, A) => Good(Sooner(r), d, A)
      BY DEF Sooner, Record, Good
    <2>2. rec' \in [Delivery -> Record] /\ RowsOK'
      BY <1>9, <2>1 DEF Tick, TypeOK, RowsOK
    <2>3. ASSUME NEW w \in Worker
          PROVE  worker'[w] \in WorkerState /\ StateOK(worker'[w], acked')
      <3> DEFINE x == worker[w]
      <3>1. x \in WorkerState /\ x.copy \in Record /\ StateOK(x, acked)
        BY DEF TypeOK, WorkersOK, WorkerState
      <3>2. worker'[w] = [x EXCEPT !.copy = Sooner(x.copy)]
        BY <1>9 DEF Tick
      <3>3. Sooner(x.copy) \in Record
        BY <2>1, <3>1
      <3>4. /\ worker'[w].pc = x.pc /\ worker'[w].d = x.d
            /\ worker'[w].copy = Sooner(x.copy)
            /\ worker'[w] \in WorkerState
        BY <3>1, <3>2, <3>3 DEF WorkerState
      <3> QED
        BY <1>9, <2>1, <3>1, <3>4 DEF Tick, StateOK
    <2>4. worker' \in [Worker -> WorkerState] /\ WorkersOK'
      BY <1>9, <2>3 DEF Tick, WorkersOK
    <2> QED
      BY <1>9, <2>2, <2>4 DEF Tick, TypeOK
  <1>10. CASE UNCHANGED vars
    BY <1>10 DEF vars, TypeOK, RowsOK, WorkersOK
  <1> QED
    BY <1>1, <1>2, <1>3, <1>4, <1>5, <1>6, <1>7, <1>8, <1>9, <1>10
       DEF Next, Step, Attempt

THEOREM Invariance == Spec => []IInv
  BY IInvInit, IInvNext, PTL DEF Spec

\* The table, the copies and the counters keep their types.
THEOREM TypeCorrect == Spec => []TypeOK
  <1>1. IInv => TypeOK
    BY DEF IInv
  <1> QED
    BY <1>1, Invariance, PTL

\* A row marked delivered was acknowledged by the platform, whatever attempts
\* overlapped and whichever of them saved last.
THEOREM DeliveredIsAcknowledged == Spec => []DeliveredWasAcked
  <1>1. IInv => DeliveredWasAcked
    BY DEF IInv, RowsOK, Good, DeliveredWasAcked
  <1> QED
    BY <1>1, Invariance, PTL

\* Rows are given up on only after MaxAttempts counted attempts or for want of a
\* URL, and pending rows have attempts left.
THEOREM GivesUpAtTheLimit == Spec => []AttemptsAreUsed
  <1>1. IInv => AttemptsAreUsed
    BY DEF IInv, RowsOK, Good, AttemptsAreUsed
  <1> QED
    BY <1>1, Invariance, PTL
=============================================================================
