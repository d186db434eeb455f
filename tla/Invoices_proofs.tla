---------------------------- MODULE Invoices_proofs ----------------------------
(***************************************************************************)
(* Proofs about Invoices, for any number of invoices, payments, requests   *)
(* and faults: a row that promises a file has it unless a removal was asked*)
(* for; a file no row leads to has cost a fault; requests that take turns  *)
(* leave files, rows and payments in agreement.  The invariants say of what*)
(* requests hold on their way to a row what the properties say of rows.    *)
(***************************************************************************)
EXTENDS Invoices, FiniteSetTheorems, TLAPS

TablesOK == /\ uploads \in [Invoice -> {"none", "file", "link"}]
            /\ file \subseteq Invoice
            /\ row \subseteq Invoice
            /\ paid \in [Invoice -> Owner]
            /\ asked \in [Invoice -> Owner]

MarksOK == /\ created \subseteq Payment
           /\ removed \subseteq Invoice
           /\ disturbed \in BOOLEAN
           /\ faults \in 0 .. MaxFaults

\* Invoice i may have a row.
Kept(i) == uploads[i] # "none" /\ (IsFile(i) => i \in file \/ i \in removed)

\* What a request may hold.
Holds(x) == /\ x.pc \in {"write", "insert", "attach", "unlink", "delete"} =>
                 x.i \in Invoice /\ uploads[x.i] # "none"
            /\ x.pc \in {"insert", "attach"} => Kept(x.i)
            /\ x.pc \in {"attach", "payment"} => x.p \in Payment
            /\ x.pc \in {"unlink", "delete"} => x.i \in removed

RowInv == \A i \in row : Kept(i)

TaskInv == /\ task \in [Task -> TaskState]
           /\ \A t \in Task : Holds(task[t])

IInv == TablesOK /\ MarksOK /\ RowInv /\ TaskInv

-----------------------------------------------------------------------------
(* What every step keeps: uploads stay what they are, and a file goes only *)
(* if its removal was asked for.                                           *)

Steady == /\ \A i \in Invoice : uploads[i] # "none" => uploads'[i] = uploads[i]
          /\ \A i \in file : i \in file' \/ i \in removed'
          /\ removed \subseteq removed'

LEMMA KeptStays ==
    ASSUME NEW i \in Invoice, Kept(i), Steady PROVE Kept(i)'
  BY DEF Kept, IsFile, Steady

LEMMA HoldsStays ==
    ASSUME NEW x, Holds(x), Steady PROVE Holds(x)'
  BY KeptStays DEF Holds, Steady

LEMMA IdleOK == Idle \in TaskState /\ Holds(Idle) /\ Holds(Idle)'
  BY InvoicesAssumption DEF Idle, TaskState, Holds, Owner

\* Request t becomes x, and new rows may be there.
LEMMA StepOK ==
    ASSUME IInv, Steady, NEW t \in Task, NEW x, task' = [task EXCEPT ![t] = x],
           x \in TaskState, Holds(x)',
           \A i \in row' \ row : Kept(i)'
    PROVE  RowInv' /\ TaskInv'
  <1>1. RowInv'
    BY KeptStays DEF IInv, TablesOK, RowInv
  <1>2. task' \in [Task -> TaskState]
    BY DEF IInv, TaskInv
  <1>3. ASSUME NEW u \in Task PROVE Holds(task[u])'
    <2>1. PICK y : y = task'[u]
      OBVIOUS
    <2>2. Holds(y)'
      <3>1. CASE u = t
        BY <2>1, <3>1 DEF IInv, TaskInv
      <3>2. CASE u # t
        <4>1. y = task[u] /\ Holds(task[u])
          BY <2>1, <3>2 DEF IInv, TaskInv
        <4>2. Holds(y)
          BY <4>1
        <4> QED
          BY <4>2, HoldsStays
      <3> QED
        BY <3>1, <3>2
    <2> QED
      BY <2>1, <2>2 DEF Holds
  <1> QED
    BY <1>1, <1>2, <1>3 DEF TaskInv

\* A request begins and nothing but its marks change.
LEMMA BeginOK ==
    ASSUME IInv, NEW t \in Task, NEW x, Start(t, x), x \in TaskState, Holds(x)',
           UNCHANGED <<uploads, asked>>,
           removed \subseteq removed', removed' \subseteq Invoice, created' \subseteq Payment
    PROVE  IInv'
  <1>1. Steady
    BY DEF Start, Steady
  <1>2. RowInv' /\ TaskInv'
    BY <1>1, StepOK DEF Start
  <1>3. TablesOK'
    BY DEF IInv, TablesOK, Start
  <1>4. disturbed' \in BOOLEAN
    BY DEF Start
  <1>5. MarksOK'
    BY <1>4 DEF IInv, MarksOK, Start
  <1> QED
    BY <1>2, <1>3, <1>5 DEF IInv

-----------------------------------------------------------------------------
(* The actions that begin a request.                                       *)

LEMMA UploadOK ==
    ASSUME IInv, NEW t \in Task, NEW i \in Invoice, NEW kind \in {"file", "link"},
           NEW p \in Owner, Upload(t, i, kind, p)
    PROVE  IInv'
  <1> DEFINE x == [Idle EXCEPT !.pc = IF kind = "file" THEN "write" ELSE "insert",
                               !.i = i, !.p = p]
  <1>1. /\ Start(t, x) /\ uploads[i] = "none"
        /\ uploads' = [uploads EXCEPT ![i] = kind]
        /\ UNCHANGED <<created, asked, removed>>
    BY DEF Upload
  <1>2. i \in 0 .. MaxInvoice
    BY InvoicesAssumption DEF Invoice
  <1>3. x \in TaskState
    BY <1>2, IdleOK DEF TaskState
  <1>4. x.i = i /\ x.pc \in {"write", "insert"} /\ (x.pc = "insert" => kind = "link")
    BY DEF Idle
  <1> HIDE DEF x
  <1>5. uploads'[i] = kind
    BY <1>1 DEF IInv, TablesOK
  <1>6. Holds(x)'
    BY <1>4, <1>5 DEF Holds, Kept, IsFile
  <1>7. Steady
    BY <1>1 DEF Start, Steady
  <1>8. RowInv' /\ TaskInv'
    BY <1>1, <1>3, <1>6, <1>7, StepOK DEF Start
  <1>9. TablesOK'
    BY <1>1 DEF IInv, TablesOK, Start
  <1>10. disturbed' \in BOOLEAN
    BY <1>1 DEF Start
  <1>11. MarksOK'
    BY <1>1, <1>10 DEF IInv, MarksOK, Start
  <1> QED
    BY <1>8, <1>9, <1>11 DEF IInv

LEMMA AttachOK ==
    ASSUME IInv, NEW t \in Task, NEW i \in Invoice, NEW p \in Payment, Attach(t, i, p)
    PROVE  IInv'
  <1> DEFINE x == [Idle EXCEPT !.pc = "attach", !.i = i, !.p = p]
  <1>1. /\ Start(t, x) /\ i \in row /\ created' = created \cup {p}
        /\ UNCHANGED <<uploads, asked, removed>>
    BY DEF Attach
  <1>2. i \in 0 .. MaxInvoice /\ p \in Owner
    BY InvoicesAssumption DEF Invoice, Owner
  <1>3. x \in TaskState
    BY <1>2, IdleOK DEF TaskState
  <1>4. x.i = i /\ x.p = p /\ x.pc = "attach"
    BY DEF Idle
  <1> HIDE DEF x
  <1>5. Kept(i)'
    BY <1>1 DEF IInv, RowInv, Kept, IsFile, Start
  <1>6. Holds(x)'
    BY <1>4, <1>5 DEF Holds, Kept
  <1>7. created' \subseteq Payment /\ removed' \subseteq Invoice /\ removed \subseteq removed'
    BY <1>1 DEF IInv, MarksOK
  <1> QED
    BY <1>1, <1>3, <1>6, <1>7, BeginOK

LEMMA RemoveOK ==
    ASSUME IInv, NEW t \in Task, NEW i \in Invoice, Remove(t, i)
    PROVE  IInv'
  <1>0. PICK x : x = [Idle EXCEPT !.pc = IF uploads[i] = "file" THEN "unlink" ELSE "delete",
                                  !.i = i]
    OBVIOUS
  <1>1. /\ Start(t, x) /\ i \in row /\ removed' = removed \cup {i}
        /\ UNCHANGED <<uploads, created, asked>>
    BY <1>0 DEF Remove
  <1>2. i \in 0 .. MaxInvoice
    BY InvoicesAssumption DEF Invoice
  <1>3. x \in TaskState
    BY <1>0, <1>2, IdleOK DEF TaskState
  <1>4. x.i = i /\ x.pc \in {"unlink", "delete"}
    BY <1>0 DEF Idle
  <1>5. uploads'[i] # "none" /\ i \in removed'
    BY <1>1 DEF IInv, RowInv, Kept
  <1>6. Holds(x)'
    BY <1>4, <1>5 DEF Holds
  <1>7. created' \subseteq Payment /\ removed' \subseteq Invoice /\ removed \subseteq removed'
    BY <1>1 DEF IInv, MarksOK
  <1> QED
    BY <1>1, <1>3, <1>6, <1>7, BeginOK

LEMMA PaymentReadOK ==
    ASSUME IInv, NEW t \in Task, NEW p \in Payment, PaymentRead(t, p)
    PROVE  IInv'
  <1>0. PICK list : list = {i \in row : paid[i] = p}
    OBVIOUS
  <1> DEFINE x == [Idle EXCEPT !.pc = "payment", !.p = p, !.list = list]
  <1>1. Start(t, x) /\ UNCHANGED <<uploads, created, asked, removed>>
    BY <1>0 DEF PaymentRead
  <1>2. list \in SUBSET Invoice /\ p \in Owner
    BY <1>0 DEF IInv, TablesOK, Owner
  <1>3. x \in TaskState
    BY <1>2, IdleOK DEF TaskState
  <1>4. x.p = p /\ x.pc = "payment"
    BY DEF Idle
  <1> HIDE DEF x
  <1>5. Holds(x)'
    BY <1>4 DEF Holds
  <1>6. created' \subseteq Payment /\ removed' \subseteq Invoice /\ removed \subseteq removed'
    BY <1>1 DEF IInv, MarksOK
  <1> QED
    BY <1>1, <1>3, <1>5, <1>6, BeginOK
-----------------------------------------------------------------------------
(* The steps of a request in progress.                                     *)

\* Request t ends, or goes on as x.
LEMMA GoesOnOK ==
    ASSUME IInv, Steady, NEW t \in Task, NEW x, Goto(t, x), x \in TaskState, Holds(x)',
           \A i \in row' \ row : Kept(i)', TablesOK', UNCHANGED faults
    PROVE  IInv'
  <1>1. RowInv' /\ TaskInv'
    BY StepOK DEF Goto
  <1>2. MarksOK'
    BY DEF IInv, MarksOK, Goto
  <1> QED
    BY <1>1, <1>2 DEF IInv

LEMMA WriteFileOK ==
    ASSUME IInv, NEW t \in Task, WriteFile(t) PROVE IInv'
  <1>1. PICK i : i = task[t].i
    OBVIOUS
  <1>2. PICK x : x = [task[t] EXCEPT !.pc = "insert"]
    OBVIOUS
  <1>3. task[t] \in TaskState /\ i \in Invoice /\ uploads[i] # "none"
    BY <1>1 DEF IInv, TaskInv, Holds, WriteFile
  <1>4. x \in TaskState /\ x.pc = "insert" /\ x.i = i
    BY <1>1, <1>2, <1>3 DEF TaskState
  <1>5. file' = file \cup {i} /\ Goto(t, x) /\ UNCHANGED <<row, paid, asked, faults>>
    BY <1>1, <1>2 DEF WriteFile
  <1>6. Steady /\ TablesOK'
    BY <1>3, <1>5 DEF Goto, Steady, IInv, TablesOK
  <1>7. Holds(x)'
    BY <1>3, <1>4, <1>5 DEF Goto, Holds, Kept, IsFile
  <1> QED
    BY <1>4, <1>5, <1>6, <1>7, GoesOnOK

\* Insert and SaveInvoice: the row of an invoice that may have one is written.
LEMMA RowWrittenOK ==
    ASSUME IInv, NEW t \in Task, task[t].pc \in {"insert", "attach"}, Finish(t),
           row' = row \cup {task[t].i}, UNCHANGED <<file, faults>>,
           paid' = [paid EXCEPT ![task[t].i] = task[t].p],
           asked' = [asked EXCEPT ![task[t].i] = task[t].p]
    PROVE  IInv'
  <1>1. PICK i : i = task[t].i
    OBVIOUS
  <1>2. i \in Invoice /\ Kept(i) /\ task[t].p \in Owner
    BY <1>1 DEF IInv, TaskInv, Holds, TaskState
  <1>3. Steady
    BY DEF Finish, Goto, Steady
  <1>4. TablesOK'
    BY <1>1, <1>2 DEF Finish, Goto, IInv, TablesOK
  <1>5. Kept(i)'
    BY <1>2, <1>3, KeptStays
  <1>6. \A j \in row' \ row : Kept(j)'
    BY <1>1, <1>5
  <1> QED
    BY <1>3, <1>4, <1>6, IdleOK, GoesOnOK DEF Finish

LEMMA UnlinkOK ==
    ASSUME IInv, NEW t \in Task, Unlink(t) PROVE IInv'
  <1>1. PICK i : i = task[t].i
    OBVIOUS
  <1>2. PICK x : x = [task[t] EXCEPT !.pc = "delete"]
    OBVIOUS
  <1>3. task[t] \in TaskState /\ i \in Invoice /\ uploads[i] # "none" /\ i \in removed
    BY <1>1 DEF IInv, TaskInv, Holds, Unlink
  <1>4. x \in TaskState /\ x.pc = "delete" /\ x.i = i
    BY <1>1, <1>2, <1>3 DEF TaskState
  <1>5. /\ task' = [task EXCEPT ![t] = x] /\ file' \subseteq file /\ file \ {i} \subseteq file'
        /\ UNCHANGED <<uploads, row, paid, created, asked, removed>>
    BY <1>1, <1>2 DEF Unlink
  <1>6. Steady /\ TablesOK'
    BY <1>3, <1>5 DEF Steady, IInv, TablesOK
  <1>7. Holds(x)'
    BY <1>3, <1>4, <1>5 DEF Holds
  <1>8. RowInv' /\ TaskInv'
    BY <1>4, <1>5, <1>6, <1>7, StepOK
  <1>9. disturbed' \in BOOLEAN
    BY DEF Unlink, IInv, MarksOK
  <1>10. faults' \in 0 .. MaxFaults
    BY InvoicesAssumption DEF Unlink, IInv, MarksOK
  <1>11. MarksOK'
    BY <1>5, <1>9, <1>10 DEF IInv, MarksOK
  <1> QED
    BY <1>6, <1>8, <1>11 DEF IInv

LEMMA DeleteOK ==
    ASSUME IInv, NEW t \in Task, Delete(t) PROVE IInv'
  <1>1. /\ Finish(t) /\ row' = row \ {task[t].i} /\ UNCHANGED <<file, faults>>
        /\ paid' = [paid EXCEPT ![task[t].i] = NoPayment]
        /\ asked' = [asked EXCEPT ![task[t].i] = NoPayment]
    BY DEF Delete
  <1>2. Steady
    BY <1>1 DEF Finish, Goto, Steady
  <1>3. TablesOK'
    BY <1>1 DEF Finish, Goto, IInv, TablesOK, Owner
  <1> QED
    BY <1>1, <1>2, <1>3, IdleOK, GoesOnOK DEF Finish

LEMMA SavePaymentOK ==
    ASSUME IInv, NEW t \in Task, SavePayment(t) PROVE IInv'
  <1>1. PICK p : p = task[t].p
    OBVIOUS
  <1>2. PICK list : list = task[t].list
    OBVIOUS
  <1>3. p \in Owner
    BY <1>1 DEF IInv, TaskInv, TaskState
  <1>4. /\ Finish(t) /\ UNCHANGED <<file, row, asked, faults>>
        /\ paid' = [i \in Invoice |-> IF i \in list \cap row THEN p
                                      ELSE IF paid[i] = p THEN NoPayment ELSE paid[i]]
    BY <1>1, <1>2 DEF SavePayment
  <1>5. Steady
    BY <1>4 DEF Finish, Goto, Steady
  <1>6. paid' \in [Invoice -> Owner]
    BY <1>3, <1>4 DEF IInv, TablesOK, Owner
  <1>7. TablesOK'
    BY <1>4, <1>6 DEF Finish, Goto, IInv, TablesOK
  <1> QED
    BY <1>4, <1>5, <1>7, IdleOK, GoesOnOK DEF Finish

LEMMA AbortOK ==
    ASSUME IInv, NEW t \in Task, Abort(t) PROVE IInv'
  <1>1. /\ task' = [task EXCEPT ![t] = Idle]
        /\ UNCHANGED <<uploads, file, row, paid, created, asked, removed>>
    BY DEF Abort
  <1>2. Steady /\ TablesOK'
    BY <1>1 DEF Steady, IInv, TablesOK
  <1>3. RowInv' /\ TaskInv'
    BY <1>1, <1>2, IdleOK, StepOK
  <1>4. faults' \in 0 .. MaxFaults
    BY InvoicesAssumption DEF Abort, IInv, MarksOK
  <1>5. MarksOK'
    BY <1>1, <1>4 DEF Abort, IInv, MarksOK
  <1> QED
    BY <1>2, <1>3, <1>5 DEF IInv

-----------------------------------------------------------------------------

LEMMA InitOK == ASSUME Init PROVE IInv
  <1>1. TablesOK
    BY DEF Init, TablesOK, Owner
  <1>2. MarksOK
    <2>1. faults \in 0 .. MaxFaults
      BY InvoicesAssumption DEF Init
    <2>2. disturbed \in BOOLEAN
      BY DEF Init
    <2> QED
      BY <2>1, <2>2 DEF Init, MarksOK
  <1>3. RowInv /\ TaskInv
    BY IdleOK DEF Init, RowInv, TaskInv
  <1> QED
    BY <1>1, <1>2, <1>3 DEF IInv

LEMMA NextOK == ASSUME IInv, [Next]_vars PROVE IInv'
  <1>1. CASE UNCHANGED vars
    <2>1. TablesOK' /\ MarksOK'
      BY <1>1 DEF vars, IInv, TablesOK, MarksOK
    <2>2. RowInv'
      BY <1>1 DEF vars, IInv, RowInv, Kept, IsFile
    <2>3. TaskInv'
      BY <1>1 DEF vars, IInv, TaskInv, Kept, IsFile, Holds
    <2> QED
      BY <2>1, <2>2, <2>3 DEF IInv
  <1>2. ASSUME NEW t \in Task, Insert(t) \/ SaveInvoice(t) PROVE IInv'
    BY <1>2, RowWrittenOK DEF Insert, SaveInvoice
  <1>3. ASSUME NEW t \in Task, Continue(t) PROVE IInv'
    BY <1>2, <1>3, WriteFileOK, UnlinkOK, DeleteOK, SavePaymentOK DEF Continue
  <1> QED
    BY <1>1, <1>3, UploadOK, AttachOK, RemoveOK, PaymentReadOK, AbortOK DEF Next

\* The inductive invariant.
THEOREM Invariance == Spec => []IInv
  BY InitOK, NextOK, PTL DEF Spec

\* The types of Invoices hold in every reachable state.
THEOREM TypeCorrect == Spec => []TypeOK
  <1>1. IInv => TypeOK
    BY DEF IInv, TablesOK, MarksOK, TaskInv, TypeOK
  <1> QED
    BY <1>1, Invariance, PTL

\* However uploads, attachments, removals and saves of payments overlap and fail, no row
\* promises a file that is not there, unless somebody asked to remove the invoice.
THEOREM NoRowWithoutFile == Spec => []FileBeforeRow
  <1>1. IInv => FileBeforeRow
    BY DEF IInv, RowInv, Kept, FileBeforeRow
  <1> QED
    BY <1>1, Invariance, PTL

-----------------------------------------------------------------------------
(* One upload for an invoice: until its row is inserted nobody else holds  *)
(* it, and only invoices that are files have one on disk.                  *)

Uploading(x) == x.pc \in {"write", "insert"}

Holding(x) == x.pc \in {"write", "insert", "attach", "unlink", "delete"}

OnceInv == \A t \in Task : Uploading(task[t]) =>
             /\ task[t].i \notin row
             /\ \A u \in Task \ {t} : Holding(task[u]) => task[u].i # task[t].i

FileInv == /\ \A i \in file : IsFile(i)
           /\ \A t \in Task : task[t].pc = "write" => IsFile(task[t].i)

\* Request t becomes x and takes up no new upload.
LEMMA OnceKept ==
    ASSUME IInv, OnceInv, FileInv, NEW t \in Task, NEW x, task' = [task EXCEPT ![t] = x],
           UNCHANGED uploads, x.pc # "write",
           Uploading(x) => Uploading(task[t]) /\ x.i = task[t].i,
           Holding(x) => \/ Holding(task[t]) /\ x.i = task[t].i
                         \/ x.i \in row,
           \A i \in row' \ row : i = task[t].i /\ Holding(task[t]) /\ ~Uploading(x),
           \A i \in file' \ file : i = task[t].i /\ task[t].pc = "write"
    PROVE  OnceInv' /\ FileInv'
  <1>1. \A u \in Task : task'[u] = IF u = t THEN x ELSE task[u]
    BY DEF IInv, TaskInv
  <1>2. OnceInv'
    <2> SUFFICES ASSUME NEW a \in Task, Uploading(task'[a])
                 PROVE  /\ task'[a].i \notin row'
                        /\ \A u \in Task \ {a} : Holding(task'[u]) => task'[u].i # task'[a].i
      BY DEF OnceInv, Uploading, Holding
    <2>1. Uploading(task[a]) /\ task'[a].i = task[a].i
      BY <1>1
    <2>2. /\ task[a].i \notin row
          /\ \A u \in Task \ {a} : Holding(task[u]) => task[u].i # task[a].i
      BY <2>1 DEF OnceInv
    <2>3. task[a].i \notin row'
      BY <1>1, <2>2
    <2> QED
      BY <1>1, <2>1, <2>2, <2>3
  <1>3. FileInv'
    BY <1>1 DEF FileInv, IsFile
  <1> QED
    BY <1>2, <1>3

LEMMA OnceUpload ==
    ASSUME IInv, OnceInv, FileInv, NEW t \in Task, NEW i \in Invoice,
           NEW kind \in {"file", "link"}, NEW p \in Owner, Upload(t, i, kind, p)
    PROVE  OnceInv' /\ FileInv'
  <1>0. PICK x : x = [Idle EXCEPT !.pc = IF kind = "file" THEN "write" ELSE "insert",
                                  !.i = i, !.p = p]
    OBVIOUS
  <1>1. /\ uploads[i] = "none" /\ uploads' = [uploads EXCEPT ![i] = kind]
        /\ task' = [task EXCEPT ![t] = x] /\ UNCHANGED <<file, row>>
    BY <1>0 DEF Upload, Start
  <1>2. x.i = i /\ x.pc = IF kind = "file" THEN "write" ELSE "insert"
    BY <1>0 DEF Idle
  <1>3. \A u \in Task : task'[u] = IF u = t THEN x ELSE task[u]
    BY <1>1 DEF IInv, TaskInv
  <1>4. i \notin row /\ i \notin file
    BY <1>1 DEF IInv, RowInv, Kept, FileInv, IsFile
  <1>5. \A u \in Task : Holding(task[u]) => task[u].i # i
    BY <1>1 DEF IInv, TaskInv, Holds, Holding
  <1>6. OnceInv'
    <2> SUFFICES ASSUME NEW a \in Task, Uploading(task'[a])
                 PROVE  /\ task'[a].i \notin row'
                        /\ \A u \in Task \ {a} : Holding(task'[u]) => task'[u].i # task'[a].i
      BY DEF OnceInv, Uploading, Holding
    <2>1. CASE a = t
      BY <1>1, <1>2, <1>3, <1>4, <1>5, <2>1
    <2>2. CASE a # t
      <3>1. task'[a] = task[a] /\ Holding(task[a])
        BY <1>3, <2>2 DEF Uploading, Holding
      <3> QED
        BY <1>1, <1>2, <1>3, <1>5, <3>1 DEF OnceInv
    <2> QED
      BY <2>1, <2>2
  <1>7. \A j \in Invoice : uploads'[j] = IF j = i THEN kind ELSE uploads[j]
    BY <1>1 DEF IInv, TablesOK
  <1>8. \A j \in file : uploads'[j] = uploads[j]
    BY <1>4, <1>7 DEF IInv, TablesOK
  <1>9. \A u \in Task : task[u].pc = "write" => uploads'[task[u].i] = uploads[task[u].i]
    BY <1>5, <1>7 DEF IInv, TaskInv, Holds, Holding
  <1>10. FileInv'
    BY <1>1, <1>2, <1>3, <1>7, <1>8, <1>9 DEF FileInv, IsFile
  <1> QED
    BY <1>6, <1>10

LEMMA OnceNext ==
    ASSUME IInv, OnceInv, FileInv, [Next]_vars PROVE OnceInv' /\ FileInv'
  <1>1. CASE UNCHANGED vars
    BY <1>1 DEF vars, OnceInv, FileInv, Uploading, Holding, IsFile
  <1>2. ASSUME NEW t \in Task, NEW i \in Invoice, NEW p \in Payment, Attach(t, i, p)
        PROVE  OnceInv' /\ FileInv'
    <2>1. PICK x : x = [Idle EXCEPT !.pc = "attach", !.i = i, !.p = p]
      OBVIOUS
    <2>2. x.pc = "attach" /\ x.i = i
      BY <2>1 DEF Idle
    <2>3. /\ task' = [task EXCEPT ![t] = x] /\ i \in row
          /\ UNCHANGED <<uploads, row, file>>
      BY <1>2, <2>1 DEF Attach, Start
    <2> QED
      BY <2>2, <2>3, OnceKept DEF Uploading, Holding
  <1>3. ASSUME NEW t \in Task, NEW i \in Invoice, Remove(t, i)
        PROVE  OnceInv' /\ FileInv'
    <2>1. PICK x : x = [Idle EXCEPT !.pc = IF uploads[i] = "file" THEN "unlink" ELSE "delete",
                                    !.i = i]
      OBVIOUS
    <2>2. x.pc \in {"unlink", "delete"} /\ x.i = i
      BY <2>1 DEF Idle
    <2>3. /\ task' = [task EXCEPT ![t] = x] /\ i \in row
          /\ UNCHANGED <<uploads, row, file>>
      BY <1>3, <2>1 DEF Remove, Start
    <2> QED
      BY <2>2, <2>3, OnceKept DEF Uploading, Holding
  <1>4. ASSUME NEW t \in Task, NEW p \in Payment, PaymentRead(t, p)
        PROVE  OnceInv' /\ FileInv'
    <2>1. PICK x : x = [Idle EXCEPT !.pc = "payment", !.p = p,
                                    !.list = {i \in row : paid[i] = p}]
      OBVIOUS
    <2>2. x.pc = "payment"
      BY <2>1 DEF Idle
    <2>3. task' = [task EXCEPT ![t] = x] /\ UNCHANGED <<uploads, row, file>>
      BY <1>4, <2>1 DEF PaymentRead, Start
    <2> QED
      BY <2>2, <2>3, OnceKept DEF Uploading, Holding
  <1>5. ASSUME NEW t \in Task, WriteFile(t) PROVE OnceInv' /\ FileInv'
    <2>1. PICK x : x = [task[t] EXCEPT !.pc = "insert"]
      OBVIOUS
    <2>2. x.pc = "insert" /\ x.i = task[t].i
      BY <2>1 DEF IInv, TaskInv, TaskState
    <2>3. /\ task' = [task EXCEPT ![t] = x] /\ task[t].pc = "write"
          /\ UNCHANGED <<uploads, row>> /\ file' = file \cup {task[t].i}
      BY <1>5, <2>1 DEF WriteFile, Goto
    <2> QED
      BY <2>2, <2>3, OnceKept DEF Uploading, Holding
  <1>6. ASSUME NEW t \in Task, Unlink(t) PROVE OnceInv' /\ FileInv'
    <2>1. PICK x : x = [task[t] EXCEPT !.pc = "delete"]
      OBVIOUS
    <2>2. x.pc = "delete" /\ x.i = task[t].i
      BY <2>1 DEF IInv, TaskInv, TaskState
    <2>3. /\ task' = [task EXCEPT ![t] = x] /\ task[t].pc = "unlink"
          /\ UNCHANGED <<uploads, row>> /\ file' \subseteq file
      BY <1>6, <2>1 DEF Unlink
    <2> QED
      BY <2>2, <2>3, OnceKept DEF Uploading, Holding
  <1>7. ASSUME NEW t \in Task, \/ Insert(t) \/ SaveInvoice(t) \/ Delete(t)
                               \/ SavePayment(t) \/ Abort(t)
        PROVE  OnceInv' /\ FileInv'
    <2>1. /\ task' = [task EXCEPT ![t] = Idle] /\ UNCHANGED <<uploads, file>>
          /\ \/ row' \subseteq row
             \/ row' = row \cup {task[t].i} /\ Holding(task[t])
      <3>1. CASE Insert(t) \/ SaveInvoice(t)
        BY <3>1 DEF Insert, SaveInvoice, Finish, Goto, Holding
      <3>2. CASE Delete(t) \/ Abort(t)
        BY <3>2 DEF Delete, Abort, Finish, Goto
      <3>3. CASE SavePayment(t)
        BY <3>3 DEF SavePayment, Finish, Goto
      <3> QED
        BY <1>7, <3>1, <3>2, <3>3
    <2>2. Idle.pc = "idle"
      BY DEF Idle
    <2> QED
      BY <2>1, <2>2, OnceKept DEF Uploading, Holding
  <1> QED
    BY <1>1, <1>2, <1>3, <1>4, <1>5, <1>6, <1>7, OnceUpload DEF Next, Continue

-----------------------------------------------------------------------------
(* The files no row leads to, or is about to lead to, and those of rows    *)
(* about to be deleted: each has cost a fault.                             *)

AtPc(pc, i) == \E t \in Task : task[t].pc = pc /\ task[t].i = i

Loose == {i \in file : (i \notin row /\ ~AtPc("insert", i)) \/ AtPc("delete", i)}

LooseInv == Cardinality(Loose) <= faults

LEMMA LooseFinite == ASSUME IInv PROVE IsFiniteSet(Loose) /\ Cardinality(Loose) \in Nat
  <1>1. MaxInvoice \in Int
    BY InvoicesAssumption
  <1>2. IsFiniteSet(Invoice)
    BY <1>1, FS_Interval DEF Invoice
  <1>3. Loose \subseteq Invoice
    BY DEF Loose, IInv, TablesOK
  <1>4. IsFiniteSet(Loose)
    BY <1>2, <1>3, FS_Subset
  <1> QED
    BY <1>4, FS_CardinalityType

\* A step leaves no more of them, or one for a fault.
LEMMA LooseStays ==
    ASSUME IInv, LooseInv, Loose' \subseteq Loose, faults' \in {faults, faults + 1}
    PROVE  LooseInv'
  <1>1. Cardinality(Loose') <= Cardinality(Loose) /\ Cardinality(Loose') \in Nat
    BY LooseFinite, FS_Subset, FS_CardinalityType
  <1>2. faults \in Nat
    BY InvoicesAssumption DEF IInv, MarksOK
  <1> QED
    BY <1>1, <1>2, LooseFinite DEF LooseInv

LEMMA LooseCosts ==
    ASSUME IInv, LooseInv, NEW i, Loose' \subseteq Loose \cup {i}, faults' = faults + 1
    PROVE  LooseInv'
  <1>1. /\ IsFiniteSet(Loose \cup {i})
        /\ Cardinality(Loose \cup {i}) \in {Cardinality(Loose), Cardinality(Loose) + 1}
    BY LooseFinite, FS_AddElement
  <1>2. /\ Cardinality(Loose') <= Cardinality(Loose \cup {i})
        /\ Cardinality(Loose') \in Nat
    BY <1>1, FS_Subset, FS_CardinalityType
  <1>3. faults \in Nat
    BY InvoicesAssumption DEF IInv, MarksOK
  <1> QED
    BY <1>1, <1>2, <1>3, LooseFinite DEF LooseInv

\* A request begins.
LEMMA LooseStart ==
    ASSUME IInv, LooseInv, NEW t \in Task, NEW x, Start(t, x),
           x.pc = "delete" => x.i \notin file
    PROVE  LooseInv'
  <1>1. /\ task[t].pc = "idle" /\ task' = [task EXCEPT ![t] = x]
        /\ UNCHANGED <<file, row, faults>>
    BY DEF Start
  <1>2. \A u \in Task : task'[u] = IF u = t THEN x ELSE task[u]
    BY <1>1 DEF IInv, TaskInv
  <1>3. \A i \in file : /\ AtPc("insert", i) => AtPc("insert", i)'
                        /\ AtPc("delete", i)' => AtPc("delete", i)
    BY <1>1, <1>2 DEF AtPc
  <1>4. Loose' \subseteq Loose
    BY <1>1, <1>3 DEF Loose
  <1> QED
    BY <1>1, <1>4, LooseStays

LEMMA LooseBegin ==
    ASSUME IInv, LooseInv, FileInv, NEW t \in Task,
           \/ \E i \in Invoice, kind \in {"file", "link"}, p \in Owner : Upload(t, i, kind, p)
           \/ \E i \in Invoice, p \in Payment : Attach(t, i, p)
           \/ \E i \in Invoice : Remove(t, i)
           \/ \E p \in Payment : PaymentRead(t, p)
    PROVE  LooseInv'
  <1>1. ASSUME NEW i \in Invoice, NEW kind \in {"file", "link"}, NEW p \in Owner,
               Upload(t, i, kind, p)
        PROVE  LooseInv'
    <2>1. PICK x : x = [Idle EXCEPT !.pc = IF kind = "file" THEN "write" ELSE "insert",
                                    !.i = i, !.p = p]
      OBVIOUS
    <2>2. x.pc # "delete"
      BY <2>1 DEF Idle
    <2> QED
      BY <1>1, <2>1, <2>2, LooseStart DEF Upload
  <1>2. ASSUME NEW i \in Invoice, NEW p \in Payment, Attach(t, i, p) PROVE LooseInv'
    <2>1. PICK x : x = [Idle EXCEPT !.pc = "attach", !.i = i, !.p = p]
      OBVIOUS
    <2>2. x.pc # "delete"
      BY <2>1 DEF Idle
    <2> QED
      BY <1>2, <2>1, <2>2, LooseStart DEF Attach
  <1>3. ASSUME NEW i \in Invoice, Remove(t, i) PROVE LooseInv'
    <2>1. PICK x : x = [Idle EXCEPT !.pc = IF uploads[i] = "file" THEN "unlink" ELSE "delete",
                                    !.i = i]
      OBVIOUS
    <2>2. x.pc = "delete" => x.i \notin file
      BY <2>1 DEF Idle, FileInv, IsFile
    <2> QED
      BY <1>3, <2>1, <2>2, LooseStart DEF Remove
  <1>4. ASSUME NEW p \in Payment, PaymentRead(t, p) PROVE LooseInv'
    <2>1. PICK x : x = [Idle EXCEPT !.pc = "payment", !.p = p,
                                    !.list = {i \in row : paid[i] = p}]
      OBVIOUS
    <2>2. x.pc # "delete"
      BY <2>1 DEF Idle
    <2> QED
      BY <1>4, <2>1, <2>2, LooseStart DEF PaymentRead
  <1> QED
    BY <1>1, <1>2, <1>3, <1>4

\* Between the write of a file and the insert of its row its upload accounts for it.
LEMMA LooseWriteFile ==
    ASSUME IInv, OnceInv, LooseInv, NEW t \in Task, WriteFile(t) PROVE LooseInv'
  <1>1. PICK i : i = task[t].i
    OBVIOUS
  <1>2. PICK x : x = [task[t] EXCEPT !.pc = "insert"]
    OBVIOUS
  <1>3. /\ task[t].pc = "write" /\ task' = [task EXCEPT ![t] = x]
        /\ file' = file \cup {i} /\ UNCHANGED <<row, faults>>
    BY <1>1, <1>2 DEF WriteFile, Goto
  <1>4. x.pc = "insert" /\ x.i = i
    BY <1>1, <1>2 DEF IInv, TaskInv, TaskState
  <1>5. \A u \in Task : task'[u] = IF u = t THEN x ELSE task[u]
    BY <1>3 DEF IInv, TaskInv
  <1>6. ~AtPc("delete", i)'
    BY <1>1, <1>3, <1>4, <1>5 DEF OnceInv, Uploading, Holding, AtPc
  <1>7. AtPc("insert", i)'
    BY <1>4, <1>5 DEF AtPc
  <1>8. \A j \in file : /\ AtPc("insert", j) => AtPc("insert", j)'
                        /\ AtPc("delete", j)' => AtPc("delete", j)
    BY <1>3, <1>4, <1>5 DEF AtPc
  <1>9. Loose' \subseteq Loose
    BY <1>3, <1>6, <1>7, <1>8 DEF Loose
  <1> QED
    BY <1>3, <1>9, LooseStays

\* Insert and SaveInvoice lead to the file.
LEMMA LooseRowWritten ==
    ASSUME IInv, LooseInv, NEW t \in Task, task[t].pc \in {"insert", "attach"}, Finish(t),
           row' = row \cup {task[t].i}, UNCHANGED <<file, faults>>
    PROVE  LooseInv'
  <1>1. PICK i : i = task[t].i
    OBVIOUS
  <1>2. task' = [task EXCEPT ![t] = Idle] /\ row' = row \cup {i}
    BY <1>1 DEF Finish, Goto
  <1>3. Idle.pc = "idle"
    BY DEF Idle
  <1>4. \A u \in Task : task'[u] = IF u = t THEN Idle ELSE task[u]
    BY <1>2 DEF IInv, TaskInv
  <1>5. \A j : /\ j # i /\ AtPc("insert", j) => AtPc("insert", j)'
               /\ AtPc("delete", j)' => AtPc("delete", j)
    BY <1>1, <1>3, <1>4 DEF AtPc
  <1>6. Loose' \subseteq Loose
    BY <1>2, <1>5 DEF Loose
  <1> QED
    BY <1>6, LooseStays

\* The fault of an unlink that fails pays for the file it leaves.
LEMMA LooseUnlink ==
    ASSUME IInv, LooseInv, NEW t \in Task, Unlink(t) PROVE LooseInv'
  <1>1. PICK i : i = task[t].i
    OBVIOUS
  <1>2. PICK x : x = [task[t] EXCEPT !.pc = "delete"]
    OBVIOUS
  <1>3. /\ task[t].pc = "unlink" /\ task' = [task EXCEPT ![t] = x] /\ UNCHANGED row
        /\ \/ file' = file \ {i} /\ faults' = faults
           \/ file' = file /\ faults' = faults + 1
    BY <1>1, <1>2 DEF Unlink
  <1>4. x.pc = "delete" /\ x.i = i
    BY <1>1, <1>2 DEF IInv, TaskInv, TaskState
  <1>5. \A u \in Task : task'[u] = IF u = t THEN x ELSE task[u]
    BY <1>3 DEF IInv, TaskInv
  <1>6. \A j : /\ AtPc("insert", j) => AtPc("insert", j)'
               /\ j # i /\ AtPc("delete", j)' => AtPc("delete", j)
    BY <1>1, <1>3, <1>4, <1>5 DEF AtPc
  <1>7. CASE file' = file \ {i} /\ faults' = faults
    <2>1. Loose' \subseteq Loose
      BY <1>3, <1>6, <1>7 DEF Loose
    <2> QED
      BY <1>7, <2>1, LooseStays
  <1>8. CASE file' = file /\ faults' = faults + 1
    <2>1. Loose' \subseteq Loose \cup {i}
      BY <1>3, <1>6, <1>8 DEF Loose
    <2> QED
      BY <1>8, <2>1, LooseCosts
  <1> QED
    BY <1>3, <1>7, <1>8

\* A deleted row whose file is there has been counted before.
LEMMA LooseDelete ==
    ASSUME IInv, LooseInv, NEW t \in Task, Delete(t) PROVE LooseInv'
  <1>1. PICK i : i = task[t].i
    OBVIOUS
  <1>2. /\ task[t].pc = "delete" /\ task' = [task EXCEPT ![t] = Idle]
        /\ row' = row \ {i} /\ UNCHANGED <<file, faults>>
    BY <1>1 DEF Delete, Finish, Goto
  <1>3. Idle.pc = "idle"
    BY DEF Idle
  <1>4. \A u \in Task : task'[u] = IF u = t THEN Idle ELSE task[u]
    BY <1>2 DEF IInv, TaskInv
  <1>5. AtPc("delete", i)
    BY <1>1, <1>2 DEF AtPc
  <1>6. \A j : /\ AtPc("insert", j) => AtPc("insert", j)'
               /\ AtPc("delete", j)' => AtPc("delete", j)
    BY <1>2, <1>3, <1>4 DEF AtPc
  <1>7. Loose' \subseteq Loose
    BY <1>2, <1>5, <1>6 DEF Loose
  <1> QED
    BY <1>2, <1>7, LooseStays

LEMMA LooseSavePayment ==
    ASSUME IInv, LooseInv, NEW t \in Task, SavePayment(t) PROVE LooseInv'
  <1>1. /\ task[t].pc = "payment" /\ task' = [task EXCEPT ![t] = Idle]
        /\ UNCHANGED <<file, row, faults>>
    BY DEF SavePayment, Finish, Goto
  <1>2. Idle.pc = "idle"
    BY DEF Idle
  <1>3. \A u \in Task : task'[u] = IF u = t THEN Idle ELSE task[u]
    BY <1>1 DEF IInv, TaskInv
  <1>4. \A j : /\ AtPc("insert", j) => AtPc("insert", j)'
               /\ AtPc("delete", j)' => AtPc("delete", j)
    BY <1>1, <1>2, <1>3 DEF AtPc
  <1>5. Loose' \subseteq Loose
    BY <1>1, <1>4 DEF Loose
  <1> QED
    BY <1>1, <1>5, LooseStays

\* An upload that dies before its insert leaves its file, for one fault.
LEMMA LooseAbort ==
    ASSUME IInv, LooseInv, NEW t \in Task, Abort(t) PROVE LooseInv'
  <1>1. PICK i : i = task[t].i
    OBVIOUS
  <1>2. /\ task' = [task EXCEPT ![t] = Idle] /\ UNCHANGED <<file, row>>
        /\ faults' = faults + 1
    BY DEF Abort
  <1>3. Idle.pc = "idle"
    BY DEF Idle
  <1>4. \A u \in Task : task'[u] = IF u = t THEN Idle ELSE task[u]
    BY <1>2 DEF IInv, TaskInv
  <1>5. \A j : /\ j # i /\ AtPc("insert", j) => AtPc("insert", j)'
               /\ AtPc("delete", j)' => AtPc("delete", j)
    BY <1>1, <1>3, <1>4 DEF AtPc
  <1>6. Loose' \subseteq Loose \cup {i}
    BY <1>2, <1>5 DEF Loose
  <1> QED
    BY <1>2, <1>6, LooseCosts

LEMMA LooseNext ==
    ASSUME IInv, OnceInv, FileInv, LooseInv, [Next]_vars PROVE LooseInv'
  <1>1. CASE UNCHANGED vars
    BY <1>1 DEF vars, LooseInv, Loose, AtPc
  <1>2. ASSUME NEW t \in Task, Insert(t) \/ SaveInvoice(t) PROVE LooseInv'
    BY <1>2, LooseRowWritten DEF Insert, SaveInvoice
  <1>3. ASSUME NEW t \in Task, Continue(t) PROVE LooseInv'
    BY <1>2, <1>3, LooseWriteFile, LooseUnlink, LooseDelete, LooseSavePayment DEF Continue
  <1> QED
    BY <1>1, <1>3, LooseBegin, LooseAbort DEF Next

-----------------------------------------------------------------------------
(* Requests that take turns.                                               *)

\* What the one request in progress knows of the invoice or the payment it is about.
InTurn(x) == /\ x.pc = "insert" /\ IsFile(x.i) => x.i \in file
             /\ x.pc = "delete" => x.i \notin file
             /\ x.pc = "attach" => x.i \in row
             /\ x.pc = "payment" => x.list = {i \in row : paid[i] = x.p}

\* Files and rows agree, but for the invoice that is being uploaded or deleted.
Matched == \A i \in Invoice : IsFile(i) /\ ~AtPc("insert", i) /\ ~AtPc("delete", i)
                                => (i \in file <=> i \in row)

AsAsked == \A i \in row : paid[i] = asked[i]

Alone == \A t, u \in Task : task[t].pc # "idle" /\ task[u].pc # "idle" => t = u

TurnInv ==
    ~disturbed => Alone /\ Matched /\ AsAsked /\ \A t \in Task : InTurn(task[t])

\* After a step of the one request in progress, only it matters.
LEMMA TurnStep ==
    ASSUME IInv, NEW t \in Task, NEW x, task' = [task EXCEPT ![t] = x],
           \A u \in Task \ {t} : task[u].pc = "idle",
           InTurn(x)', AsAsked',
           \A i \in Invoice : IsFile(i)' /\ ~(x.pc \in {"insert", "delete"} /\ x.i = i)
                                => (i \in file' <=> i \in row')
    PROVE  TurnInv'
  <1>1. \A u \in Task : task'[u] = IF u = t THEN x ELSE task[u]
    BY DEF IInv, TaskInv
  <1>2. Alone'
    BY <1>1 DEF Alone
  <1>3. x.pc \in {"insert", "delete"} => AtPc(x.pc, x.i)'
    BY <1>1 DEF AtPc
  <1>4. Matched'
    BY <1>1, <1>3 DEF Matched, AtPc
  <1>5. ASSUME NEW u \in Task PROVE InTurn(task[u])'
    <2>1. PICK y : y = task'[u]
      OBVIOUS
    <2>2. InTurn(y)'
      BY <1>1, <2>1 DEF InTurn
    <2> QED
      BY <2>1, <2>2 DEF InTurn
  <1> QED
    BY <1>2, <1>4, <1>5 DEF TurnInv

LEMMA TurnStart ==
    ASSUME IInv, TurnInv, FileInv, NEW t \in Task, NEW x, Start(t, x), ~disturbed',
           InTurn(x)', UNCHANGED asked,
           \A i \in Invoice : uploads'[i] = uploads[i] \/ uploads[i] = "none"
    PROVE  TurnInv'
  <1>1. /\ ~disturbed /\ \A u \in Task : task[u].pc = "idle"
        /\ task' = [task EXCEPT ![t] = x] /\ UNCHANGED <<file, row, paid>>
    BY DEF Start
  <1>2. Matched /\ AsAsked
    BY <1>1 DEF TurnInv
  <1>3. AsAsked'
    BY <1>1, <1>2 DEF AsAsked
  <1>4. ASSUME NEW i \in Invoice, IsFile(i)' PROVE i \in file' <=> i \in row'
    <2>1. CASE uploads[i] = "none"
      BY <1>1, <2>1 DEF IInv, RowInv, Kept, FileInv, IsFile
    <2>2. CASE uploads'[i] = uploads[i]
      BY <1>1, <1>2, <1>4, <2>2 DEF Matched, AtPc, IsFile
    <2> QED
      BY <2>1, <2>2
  <1> QED
    BY <1>1, <1>3, <1>4, TurnStep

LEMMA TurnBegin ==
    ASSUME IInv, TurnInv, FileInv, NEW t \in Task,
           \/ \E i \in Invoice, kind \in {"file", "link"}, p \in Owner : Upload(t, i, kind, p)
           \/ \E i \in Invoice, p \in Payment : Attach(t, i, p)
           \/ \E i \in Invoice : Remove(t, i)
           \/ \E p \in Payment : PaymentRead(t, p)
    PROVE  TurnInv'
  <1> SUFFICES ASSUME ~disturbed' PROVE TurnInv'
    BY DEF TurnInv
  <1>1. ASSUME NEW i \in Invoice, NEW kind \in {"file", "link"}, NEW p \in Owner,
               Upload(t, i, kind, p)
        PROVE  TurnInv'
    <2>1. PICK x : x = [Idle EXCEPT !.pc = IF kind = "file" THEN "write" ELSE "insert",
                                    !.i = i, !.p = p]
      OBVIOUS
    <2>2. /\ Start(t, x) /\ uploads[i] = "none" /\ uploads' = [uploads EXCEPT ![i] = kind]
          /\ UNCHANGED asked
      BY <1>1, <2>1 DEF Upload
    <2>3. x.i = i /\ x.pc = IF kind = "file" THEN "write" ELSE "insert"
      BY <2>1 DEF Idle
    <2>4. \A j \in Invoice : uploads'[j] = IF j = i THEN kind ELSE uploads[j]
      BY <2>2 DEF IInv, TablesOK
    <2>5. InTurn(x)'
      BY <2>3, <2>4 DEF InTurn, IsFile
    <2> QED
      BY <2>2, <2>4, <2>5, TurnStart
  <1>2. ASSUME NEW i \in Invoice, NEW p \in Payment, Attach(t, i, p) PROVE TurnInv'
    <2>1. PICK x : x = [Idle EXCEPT !.pc = "attach", !.i = i, !.p = p]
      OBVIOUS
    <2>2. Start(t, x) /\ i \in row /\ UNCHANGED <<uploads, asked>>
      BY <1>2, <2>1 DEF Attach
    <2>3. x.pc = "attach" /\ x.i = i
      BY <2>1 DEF Idle
    <2>4. InTurn(x)'
      BY <2>2, <2>3 DEF InTurn, Start
    <2> QED
      BY <2>2, <2>4, TurnStart
  <1>3. ASSUME NEW i \in Invoice, Remove(t, i) PROVE TurnInv'
    <2>1. PICK x : x = [Idle EXCEPT !.pc = IF uploads[i] = "file" THEN "unlink" ELSE "delete",
                                    !.i = i]
      OBVIOUS
    <2>2. Start(t, x) /\ UNCHANGED <<uploads, asked>>
      BY <1>3, <2>1 DEF Remove
    <2>3. x.i = i /\ x.pc = IF uploads[i] = "file" THEN "unlink" ELSE "delete"
      BY <2>1 DEF Idle
    <2>4. InTurn(x)'
      BY <2>2, <2>3 DEF InTurn, Start, FileInv, IsFile
    <2> QED
      BY <2>2, <2>4, TurnStart
  <1>4. ASSUME NEW p \in Payment, PaymentRead(t, p) PROVE TurnInv'
    <2>1. PICK list : list = {i \in row : paid[i] = p}
      OBVIOUS
    <2>2. PICK x : x = [Idle EXCEPT !.pc = "payment", !.p = p, !.list = list]
      OBVIOUS
    <2>3. Start(t, x) /\ UNCHANGED <<uploads, asked>>
      BY <1>4, <2>1, <2>2 DEF PaymentRead
    <2>4. x.pc = "payment" /\ x.p = p /\ x.list = list
      BY <2>2 DEF Idle
    <2>5. InTurn(x)'
      BY <2>1, <2>3, <2>4 DEF InTurn, Start
    <2> QED
      BY <2>3, <2>5, TurnStart
  <1> QED
    BY <1>1, <1>2, <1>3, <1>4

\* What is known before a step of the one request in progress.
LEMMA TurnFacts ==
    ASSUME IInv, TurnInv, ~disturbed, NEW t \in Task, task[t].pc # "idle"
    PROVE  /\ \A u \in Task \ {t} : task[u].pc = "idle"
           /\ InTurn(task[t]) /\ AsAsked
           /\ \A i \in Invoice :
                IsFile(i) /\ ~(task[t].pc \in {"insert", "delete"} /\ task[t].i = i)
                  => (i \in file <=> i \in row)
  BY DEF TurnInv, Alone, Matched, AtPc

LEMMA IdleInTurn == Idle.pc = "idle" /\ InTurn(Idle) /\ InTurn(Idle)'
  BY DEF Idle, InTurn

LEMMA TurnWriteFile ==
    ASSUME IInv, FileInv, TurnInv, NEW t \in Task, WriteFile(t), ~disturbed'
    PROVE  TurnInv'
  <1>1. PICK i : i = task[t].i
    OBVIOUS
  <1>2. PICK x : x = [task[t] EXCEPT !.pc = "insert"]
    OBVIOUS
  <1>3. /\ task[t].pc = "write" /\ task' = [task EXCEPT ![t] = x] /\ file' = file \cup {i}
        /\ UNCHANGED <<uploads, row, paid, asked, disturbed>>
    BY <1>1, <1>2 DEF WriteFile, Goto
  <1>4. x.pc = "insert" /\ x.i = i
    BY <1>1, <1>2 DEF IInv, TaskInv, TaskState
  <1>5. /\ \A u \in Task \ {t} : task[u].pc = "idle"
        /\ AsAsked
        /\ \A j \in Invoice : IsFile(j) /\ j # i => (j \in file <=> j \in row)
    BY <1>1, <1>3, TurnFacts
  <1>6. InTurn(x)' /\ AsAsked'
    BY <1>3, <1>4, <1>5 DEF InTurn, AsAsked
  <1>7. \A j \in Invoice : IsFile(j)' /\ ~(x.pc \in {"insert", "delete"} /\ x.i = j)
                             => (j \in file' <=> j \in row')
    BY <1>3, <1>4, <1>5 DEF IsFile
  <1> QED
    BY <1>3, <1>5, <1>6, <1>7, TurnStep

LEMMA TurnRowWritten ==
    ASSUME IInv, TurnInv, NEW t \in Task, task[t].pc \in {"insert", "attach"}, Finish(t),
           row' = row \cup {task[t].i}, UNCHANGED <<file, faults>>,
           paid' = [paid EXCEPT ![task[t].i] = task[t].p],
           asked' = [asked EXCEPT ![task[t].i] = task[t].p], ~disturbed'
    PROVE  TurnInv'
  <1>1. PICK i : i = task[t].i
    OBVIOUS
  <1>2. PICK p : p = task[t].p
    OBVIOUS
  <1>3. /\ task' = [task EXCEPT ![t] = Idle] /\ UNCHANGED <<uploads, disturbed>>
        /\ row' = row \cup {i} /\ i \in Invoice
        /\ paid' = [paid EXCEPT ![i] = p] /\ asked' = [asked EXCEPT ![i] = p]
    BY <1>1, <1>2 DEF Finish, Goto, IInv, TaskInv, Holds
  <1>4. /\ \A u \in Task \ {t} : task[u].pc = "idle"
        /\ InTurn(task[t]) /\ AsAsked
        /\ \A j \in Invoice : IsFile(j) /\ ~(task[t].pc = "insert" /\ i = j)
                                => (j \in file <=> j \in row)
    BY <1>1, <1>3, TurnFacts
  <1>5. \A j \in Invoice : paid'[j] = (IF j = i THEN p ELSE paid[j])
                             /\ asked'[j] = (IF j = i THEN p ELSE asked[j])
    BY <1>3 DEF IInv, TablesOK
  <1>6. AsAsked'
    BY <1>3, <1>4, <1>5 DEF AsAsked, IInv, TablesOK
  <1>7. \A j \in Invoice : IsFile(j)' => (j \in file' <=> j \in row')
    BY <1>1, <1>3, <1>4 DEF IsFile, InTurn
  <1> QED
    BY <1>3, <1>4, <1>6, <1>7, IdleInTurn, TurnStep

LEMMA TurnUnlink ==
    ASSUME IInv, TurnInv, NEW t \in Task, Unlink(t), ~disturbed' PROVE TurnInv'
  <1>1. PICK i : i = task[t].i
    OBVIOUS
  <1>2. PICK x : x = [task[t] EXCEPT !.pc = "delete"]
    OBVIOUS
  <1>3. /\ task[t].pc = "unlink" /\ task' = [task EXCEPT ![t] = x] /\ file' = file \ {i}
        /\ UNCHANGED <<uploads, row, paid, asked, disturbed>>
    BY <1>1, <1>2 DEF Unlink
  <1>4. x.pc = "delete" /\ x.i = i
    BY <1>1, <1>2 DEF IInv, TaskInv, TaskState
  <1>5. /\ \A u \in Task \ {t} : task[u].pc = "idle"
        /\ AsAsked
        /\ \A j \in Invoice : IsFile(j) => (j \in file <=> j \in row)
    BY <1>3, TurnFacts
  <1>6. InTurn(x)' /\ AsAsked'
    BY <1>3, <1>4, <1>5 DEF InTurn, AsAsked
  <1>7. \A j \in Invoice : IsFile(j)' /\ ~(x.pc \in {"insert", "delete"} /\ x.i = j)
                             => (j \in file' <=> j \in row')
    BY <1>3, <1>4, <1>5 DEF IsFile
  <1> QED
    BY <1>3, <1>5, <1>6, <1>7, TurnStep

LEMMA TurnDelete ==
    ASSUME IInv, TurnInv, NEW t \in Task, Delete(t), ~disturbed' PROVE TurnInv'
  <1>1. PICK i : i = task[t].i
    OBVIOUS
  <1>2. /\ task[t].pc = "delete" /\ task' = [task EXCEPT ![t] = Idle] /\ row' = row \ {i}
        /\ paid' = [paid EXCEPT ![i] = NoPayment] /\ asked' = [asked EXCEPT ![i] = NoPayment]
        /\ UNCHANGED <<uploads, file, disturbed>>
    BY <1>1 DEF Delete, Finish, Goto
  <1>3. /\ \A u \in Task \ {t} : task[u].pc = "idle"
        /\ InTurn(task[t]) /\ AsAsked
        /\ \A j \in Invoice : IsFile(j) /\ i # j => (j \in file <=> j \in row)
    BY <1>1, <1>2, TurnFacts
  <1>4. AsAsked'
    BY <1>2, <1>3 DEF AsAsked, IInv, TablesOK
  <1>5. \A j \in Invoice : IsFile(j)' => (j \in file' <=> j \in row')
    BY <1>1, <1>2, <1>3 DEF IsFile, InTurn
  <1> QED
    BY <1>2, <1>3, <1>4, <1>5, IdleInTurn, TurnStep

LEMMA TurnSavePayment ==
    ASSUME IInv, TurnInv, NEW t \in Task, SavePayment(t), ~disturbed' PROVE TurnInv'
  <1>1. PICK p : p = task[t].p
    OBVIOUS
  <1>2. PICK list : list = task[t].list
    OBVIOUS
  <1>3. /\ task[t].pc = "payment" /\ task' = [task EXCEPT ![t] = Idle]
        /\ paid' = [i \in Invoice |-> IF i \in list \cap row THEN p
                                      ELSE IF paid[i] = p THEN NoPayment ELSE paid[i]]
        /\ UNCHANGED <<uploads, file, row, asked, disturbed>>
    BY <1>1, <1>2 DEF SavePayment, Finish, Goto
  <1>4. /\ \A u \in Task \ {t} : task[u].pc = "idle"
        /\ InTurn(task[t]) /\ AsAsked
        /\ \A j \in Invoice : IsFile(j) => (j \in file <=> j \in row)
    BY <1>3, TurnFacts
  <1>5. list = {i \in row : paid[i] = p}
    BY <1>1, <1>2, <1>3, <1>4 DEF InTurn
  <1>6. \A i \in row : paid'[i] = paid[i]
    BY <1>3, <1>5 DEF IInv, TablesOK
  <1>7. AsAsked'
    BY <1>3, <1>4, <1>6 DEF AsAsked
  <1>8. \A j \in Invoice : IsFile(j)' => (j \in file' <=> j \in row')
    BY <1>3, <1>4 DEF IsFile
  <1> QED
    BY <1>3, <1>4, <1>7, <1>8, IdleInTurn, TurnStep

LEMMA TurnNext ==
    ASSUME IInv, OnceInv, FileInv, TurnInv, [Next]_vars PROVE TurnInv'
  <1> SUFFICES ASSUME ~disturbed' PROVE TurnInv'
    BY DEF TurnInv
  <1>1. CASE UNCHANGED vars
    BY <1>1 DEF vars, TurnInv, Alone, Matched, AsAsked, InTurn, AtPc, IsFile
  <1>2. ASSUME NEW t \in Task, Insert(t) \/ SaveInvoice(t) PROVE TurnInv'
    BY <1>2, TurnRowWritten DEF Insert, SaveInvoice
  <1>3. ASSUME NEW t \in Task, Continue(t) PROVE TurnInv'
    BY <1>2, <1>3, TurnWriteFile, TurnUnlink, TurnDelete, TurnSavePayment DEF Continue
  <1>4. ASSUME NEW t \in Task, Abort(t) PROVE TurnInv'
    BY <1>4 DEF Abort
  <1> QED
    BY <1>1, <1>3, <1>4, TurnBegin DEF Next

-----------------------------------------------------------------------------
\* Uploads are alone on their invoice, every loose file has cost a fault, and what
\* requests that take turns leave behind agrees.
Ledger == OnceInv /\ FileInv /\ LooseInv /\ TurnInv

LEMMA LedgerInit == Init => Ledger
  <1> SUFFICES ASSUME Init PROVE Ledger
    OBVIOUS
  <1>1. \A t \in Task : task[t] = Idle
    BY DEF Init
  <1>2. OnceInv /\ FileInv
    BY <1>1, IdleInTurn DEF Init, OnceInv, FileInv, Uploading
  <1>3. Loose = {}
    BY DEF Init, Loose
  <1>4. LooseInv
    BY <1>3, FS_EmptySet DEF Init, LooseInv
  <1>5. Alone /\ Matched /\ AsAsked
    BY <1>1, IdleInTurn DEF Init, Alone, Matched, AsAsked, IsFile
  <1>6. TurnInv
    BY <1>1, <1>5, IdleInTurn DEF TurnInv
  <1> QED
    BY <1>2, <1>4, <1>6 DEF Ledger

LEMMA LedgerNext == IInv /\ Ledger /\ [Next]_vars => Ledger'
  BY OnceNext, LooseNext, TurnNext DEF Ledger

\* The second inductive invariant.
THEOREM LedgerInvariance == Spec => []Ledger
  BY LedgerInit, LedgerNext, Invariance, PTL DEF Spec

\* Whatever overlaps, it takes a fault to leave a file on disk that no row leads to, one
\* for each file, for any number of invoices, requests and faults.
THEOREM OrphansCostFaults == Spec => []OrphansAreFaults
  <1>1. IInv /\ Ledger => OrphansAreFaults
    <2> SUFFICES ASSUME IInv, LooseInv, Quiet PROVE Cardinality(file \ row) <= faults
      BY DEF Ledger, OrphansAreFaults
    <2>1. file \ row \subseteq Loose
      BY DEF Quiet, Loose, AtPc
    <2>2. /\ Cardinality(file \ row) <= Cardinality(Loose)
          /\ Cardinality(file \ row) \in Nat
      BY <2>1, LooseFinite, FS_Subset, FS_CardinalityType
    <2>3. faults \in Nat
      BY InvoicesAssumption DEF IInv, MarksOK
    <2> QED
      BY <2>2, <2>3, LooseFinite DEF LooseInv
  <1> QED
    BY <1>1, Invariance, LedgerInvariance, PTL

\* Requests that take turns without faults leave files and rows in agreement and every
\* invoice on the payment it was last put on, though saves of payments carry their
\* invoices along.
THEOREM ConsistentInTurn == Spec => []InTurnConsistent
  <1>1. Ledger => InTurnConsistent
    BY DEF Ledger, TurnInv, Matched, AsAsked, AtPc, Quiet, InTurnConsistent
  <1> QED
    BY <1>1, LedgerInvariance, PTL
=============================================================================
