------------------------------- MODULE Invoices -------------------------------
(***************************************************************************)
(* invoices/invoices.service.ts and storage.service.ts: invoices, each with*)
(* a file on disk or a link, their rows, and the payments they belong to.  *)
(*                                                                         *)
(* task[t] is a request in progress, between two awaits.  Invoice i is the *)
(* i-th upload; its file, if it has one, is written before its row and     *)
(* unlinked before its row is deleted.  A payment is read together with its*)
(* invoices, and a save of what was read carries the list along.           *)
(***************************************************************************)
EXTENDS Integers, FiniteSets

CONSTANTS Task,       \* bound: requests in progress at once
          MaxInvoice, \* bound: invoices are numbered 1..MaxInvoice
          Payment,    \* payments
          NoPayment,  \* an invoice that belongs to none
          MaxFaults   \* bound: steps that fail

ASSUME InvoicesAssumption == /\ NoPayment \notin Payment
                             /\ MaxInvoice \in Nat
                             /\ MaxFaults \in Nat

VARIABLES uploads,  \* the kind of each upload so far: "file" or "link"
          file,     \* the invoices whose file is on disk
          row,      \* the invoices table: the invoices that have a row
          paid,     \* paymentId of each row
          task,     \* requests in progress
          created,  \* payments whose create has had its turn to attach an invoice
          asked,    \* the payment each invoice was last put on
          removed,  \* invoices somebody asked to remove
          disturbed,\* whether two requests ever overlapped or a step failed
          faults    \* steps that have failed

vars == <<uploads, file, row, paid, task, created, asked, removed, disturbed, faults>>

Invoice == 1 .. MaxInvoice

Owner == Payment \cup {NoPayment}

\* p is the payment to attach or to save; list: the invoices read with it.
TaskState == [pc   : {"idle", "write", "insert", "attach", "unlink", "delete", "payment"},
              i    : 0 .. MaxInvoice,
              p    : Owner,
              list : SUBSET Invoice]

Idle == [pc |-> "idle", i |-> 0, p |-> NoPayment, list |-> {}]

TypeOK == /\ uploads \in [Invoice -> {"none", "file", "link"}]
          /\ file \subseteq Invoice
          /\ row \subseteq Invoice
          /\ paid \in [Invoice -> Owner]
          /\ task \in [Task -> TaskState]
          /\ created \subseteq Payment
          /\ asked \in [Invoice -> Owner]
          /\ removed \subseteq Invoice
          /\ disturbed \in BOOLEAN
          /\ faults \in 0 .. MaxFaults

Init == /\ uploads = [i \in Invoice |-> "none"]
        /\ file = {}
        /\ row = {}
        /\ paid = [i \in Invoice |-> NoPayment]
        /\ task = [t \in Task |-> Idle]
        /\ created = {}
        /\ asked = [i \in Invoice |-> NoPayment]
        /\ removed = {}
        /\ disturbed = FALSE
        /\ faults = 0

-----------------------------------------------------------------------------
Start(t, state) ==
    /\ task[t].pc = "idle"
    /\ task' = [task EXCEPT ![t] = state]
    /\ disturbed' = (disturbed \/ \E u \in Task : task[u].pc # "idle")
    /\ UNCHANGED <<file, row, paid, faults>>

Goto(t, state) ==
    /\ task' = [task EXCEPT ![t] = state]
    /\ UNCHANGED <<uploads, created, removed, disturbed>>

Finish(t) == Goto(t, Idle)

-----------------------------------------------------------------------------
(* POST /invoices                                                          *)

\* Variant: the row first, and the file when it has been recorded.
UploadRowFirst(t, i, kind, p) ==
    /\ uploads[i] = "none"
    /\ \A j \in 1 .. i - 1 : uploads[j] # "none"
    /\ task[t].pc = "idle"
    /\ task' = [task EXCEPT ![t] = [Idle EXCEPT !.pc = "write", !.i = i, !.p = p]]
    /\ uploads' = [uploads EXCEPT ![i] = kind]
    /\ row' = row \cup {i}
    /\ paid' = [paid EXCEPT ![i] = p]
    /\ disturbed' = (disturbed \/ \E u \in Task : task[u].pc # "idle")
    /\ UNCHANGED <<file, faults, created, asked, removed>>

\* A file or a link; onto a payment, or onto none yet.
Upload(t, i, kind, p) ==
    /\ uploads[i] = "none"
    /\ \A j \in 1 .. i - 1 : uploads[j] # "none"
    /\ Start(t, [Idle EXCEPT !.pc = IF kind = "file" THEN "write" ELSE "insert",
                             !.i = i, !.p = p])
    /\ uploads' = [uploads EXCEPT ![i] = kind]
    /\ UNCHANGED <<created, asked, removed>>

WriteFile(t) ==
    /\ task[t].pc = "write"
    /\ file' = file \cup {task[t].i}
    /\ Goto(t, [task[t] EXCEPT !.pc = "insert"])
    /\ UNCHANGED <<row, paid, asked, faults>>

Insert(t) ==
    LET i == task[t].i IN
    /\ task[t].pc = "insert"
    /\ row' = row \cup {i}
    /\ paid' = [paid EXCEPT ![i] = task[t].p]
    /\ asked' = [asked EXCEPT ![i] = task[t].p]
    /\ Finish(t)
    /\ UNCHANGED <<file, faults>>

-----------------------------------------------------------------------------
(* attachToPayment, at the end of the create of payment p                  *)

Attach(t, i, p) ==
    /\ i \in row
    /\ p \notin created
    /\ Start(t, [Idle EXCEPT !.pc = "attach", !.i = i, !.p = p])
    /\ created' = created \cup {p}
    /\ UNCHANGED <<uploads, asked, removed>>

\* TypeORM inserts a row it finds no longer there: an invoice removed meanwhile is back.
SaveInvoice(t) ==
    LET i == task[t].i IN
    /\ task[t].pc = "attach"
    /\ row' = row \cup {i}
    /\ paid' = [paid EXCEPT ![i] = task[t].p]
    /\ asked' = [asked EXCEPT ![i] = task[t].p]
    /\ Finish(t)
    /\ UNCHANGED <<file, faults>>

-----------------------------------------------------------------------------
(* DELETE /invoices/:id                                                    *)

\* Variant: the row alone.
RemoveRow(t, i) ==
    /\ i \in row
    /\ Start(t, [Idle EXCEPT !.pc = "delete", !.i = i])
    /\ removed' = removed \cup {i}
    /\ UNCHANGED <<uploads, created, asked>>

Remove(t, i) ==
    /\ i \in row
    /\ Start(t, [Idle EXCEPT !.pc = IF uploads[i] = "file" THEN "unlink" ELSE "delete",
                             !.i = i])
    /\ removed' = removed \cup {i}
    /\ UNCHANGED <<uploads, created, asked>>

\* Variant: a file that is not there is an error, which ends the removal.
UnlinkOrThrow(t) ==
    LET i == task[t].i IN
    /\ task[t].pc = "unlink"
    /\ IF i \in file THEN Goto(t, [task[t] EXCEPT !.pc = "delete"]) ELSE Finish(t)
    /\ file' = file \ {i}
    /\ UNCHANGED <<row, paid, asked, faults>>

\* A missing file is passed over, and so is an unlink that fails.
Unlink(t) ==
    LET i == task[t].i IN
    /\ task[t].pc = "unlink"
    /\ task' = [task EXCEPT ![t].pc = "delete"]
    /\ \/ file' = file \ {i} /\ UNCHANGED <<faults, disturbed>>
       \/ /\ i \in file /\ faults < MaxFaults
          /\ faults' = faults + 1 /\ disturbed' = TRUE /\ UNCHANGED file
    /\ UNCHANGED <<uploads, row, paid, created, asked, removed>>

\* Variant: the payment of a deleted row is set to 0.
DeleteToZero(t) ==
    LET i == task[t].i IN
    /\ task[t].pc = "delete"
    /\ row' = row \ {i}
    /\ paid' = [paid EXCEPT ![i] = 0]
    /\ asked' = [asked EXCEPT ![i] = NoPayment]
    /\ Finish(t)
    /\ UNCHANGED <<file, faults>>

\* A deleted row takes what was asked of it along.
Delete(t) ==
    LET i == task[t].i IN
    /\ task[t].pc = "delete"
    /\ row' = row \ {i}
    /\ paid' = [paid EXCEPT ![i] = NoPayment]
    /\ asked' = [asked EXCEPT ![i] = NoPayment]
    /\ Finish(t)
    /\ UNCHANGED <<file, faults>>

-----------------------------------------------------------------------------
(* findById of payments.service.ts, and the save of the payment            *)

\* Variant: the invoices are left out of the list that was asked for.
PaymentReadBare(t, p) ==
    /\ Start(t, [Idle EXCEPT !.pc = "payment", !.p = p])
    /\ UNCHANGED <<uploads, created, asked, removed>>

\* capture, cancel and sync read the payment with the invoices that it has then.
PaymentRead(t, p) ==
    /\ Start(t, [Idle EXCEPT !.pc = "payment", !.p = p, !.list = {i \in row : paid[i] = p}])
    /\ UNCHANGED <<uploads, created, asked, removed>>

\* TypeORM makes the payment's invoices those of the list: one that is missing from it
\* is taken off the payment, one that has gone elsewhere is fetched back.
SavePayment(t) ==
    LET p == task[t].p  list == task[t].list IN
    /\ task[t].pc = "payment"
    /\ paid' = [i \in Invoice |-> IF i \in list \cap row THEN p
                                  ELSE IF paid[i] = p THEN NoPayment ELSE paid[i]]
    /\ Finish(t)
    /\ UNCHANGED <<file, row, asked, faults>>

-----------------------------------------------------------------------------
\* A crash or an error of the disk, the database or the network ends the request.  So does
\* an insert the database refuses: the payment an upload names is not looked for before.
Abort(t) ==
    /\ faults < MaxFaults
    /\ task[t].pc # "idle"
    /\ task' = [task EXCEPT ![t] = Idle]
    /\ faults' = faults + 1
    /\ disturbed' = TRUE
    /\ UNCHANGED <<uploads, file, row, paid, created, asked, removed>>

Continue(t) == \/ WriteFile(t) \/ Insert(t) \/ SaveInvoice(t)
               \/ Unlink(t) \/ Delete(t) \/ SavePayment(t)

Next == \E t \in Task :
          \/ \E i \in Invoice, kind \in {"file", "link"}, p \in Owner : Upload(t, i, kind, p)
          \/ \E i \in Invoice, p \in Payment : Attach(t, i, p)
          \/ \E i \in Invoice : Remove(t, i)
          \/ \E p \in Payment : PaymentRead(t, p)
          \/ Continue(t)
          \/ Abort(t)

\* The process goes on with what it began; who wants an invoice removed asks again
\* until it is not found.
Fairness ==
    /\ \A t \in Task : WF_vars(Continue(t))
    /\ \A i \in Invoice : SF_vars(\E t \in Task : i \in removed /\ Remove(t, i))

Spec == Init /\ [][Next]_vars /\ Fairness

-----------------------------------------------------------------------------
IsFile(i) == uploads[i] = "file"

\* A row that promises a file has it, unless somebody asked to remove the invoice:
\* whatever overlaps or fails, an upload is never recorded without its file.
FileBeforeRow == \A i \in row : IsFile(i) => i \in file \/ i \in removed

Quiet == \A t \in Task : task[t].pc = "idle"

\* One request after the other and without faults, no file is left without a row and no
\* row without its file, and each invoice is on the payment it was last put on, though
\* saves of payments carry their invoices along.
InTurnConsistent ==
    Quiet /\ ~disturbed =>
      /\ \A i \in Invoice : IsFile(i) => (i \in file <=> i \in row)
      /\ \A i \in row : paid[i] = asked[i]

\* Whatever overlaps, it takes a step that fails to leave a file on disk that no row leads
\* to, and each leaves one at most.  An upload for a payment that does not exist is one: its
\* insert fails at the foreign key, after storage.save (invoices.service.ts:52-66).
OrphansAreFaults == Quiet => Cardinality(file \ row) <= faults

\* A removal that died between the unlink and the delete, or was undone by an attach
\* that brought the row back, can be repeated: asked for again, the row goes.
RemovalCompletes == \A i \in Invoice : i \in removed ~> i \notin row
=============================================================================
