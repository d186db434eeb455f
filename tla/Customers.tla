------------------------------ MODULE Customers ------------------------------
(***************************************************************************)
(* customers/customers.service.ts: customers made at Stripe and recorded   *)
(* here for a platform (a tenant), one by one or from the platform's feed. *)
(*                                                                         *)
(* task[t] is a request in progress, between two awaits.  An import works  *)
(* through the rows of a feed; each row is looked up, made and recorded in *)
(* steps of its own, between which other requests run.  What fails in a row*)
(* is counted and the import goes on, except that the look-up is outside   *)
(* the try: its error ends the import (an Abort).                          *)
(***************************************************************************)
EXTENDS Integers, FiniteSets, Sequences, SequencesExt

CONSTANTS Task,        \* bound: requests in progress at once
          Tenant,      \* platforms
          Feeding,     \* those with a feed to import
          Email,       \* the e-mail addresses in feeds and requests
          Refused,     \* those Stripe will not take
          Blank,       \* a feed row without an e-mail
          Key,         \* Idempotency-Keys of the callers, one per customer wanted
          NoKey,       \* no key is sent
          None,        \* no tenant, or no e-mail
          MaxCustomer, \* bound: customers are numbered 1..MaxCustomer at Stripe
          MaxRows,     \* bound: rows of a feed
          MaxFaults    \* bound: steps that fail

ASSUME CustomersAssumption == /\ Feeding \subseteq Tenant
                              /\ Refused \subseteq Email
                              /\ Blank \notin Email
                              /\ NoKey \notin Key
                              /\ None \notin Tenant \cup Email
                              /\ MaxCustomer \in Nat
                              /\ MaxRows \in Nat
                              /\ MaxFaults \in Nat

VARIABLES made,       \* the customers at Stripe
          owner,      \* the customers table: whose each recorded customer is
          task,       \* requests in progress
          answered,   \* keys whose caller was told that the customer was made
          overlapped, \* whether two imports of a tenant were ever in progress at once
          faults      \* steps that have failed

vars == <<made, owner, task, answered, overlapped, faults>>

Customer == 1 .. MaxCustomer

Made == [email : Email \cup {None}, key : Key \cup {NoKey}, import : BOOLEAN]

NotMade == [email |-> None, key |-> NoKey, import |-> FALSE]

Feed == BoundedSeq(Email \cup {Blank}, MaxRows)

\* feed: the rows an import read; todo: those it has not dealt with; c: the customer
\* made last.  (results.skipped is what imported and failed leave of the total.)
TaskState == [pc       : {"idle", "row", "call", "insert"},
              import   : BOOLEAN,
              tenant   : Tenant \cup {None},
              email    : Email \cup {None},
              key      : Key \cup {NoKey},
              c        : 0 .. MaxCustomer,
              feed     : Feed,
              todo     : Feed,
              imported : 0 .. MaxRows,
              failed   : 0 .. MaxRows]

Idle == [pc |-> "idle", import |-> FALSE, tenant |-> None, email |-> None, key |-> NoKey,
         c |-> 0, feed |-> <<>>, todo |-> <<>>, imported |-> 0, failed |-> 0]

TypeOK == /\ made \in [Customer -> Made]
          /\ owner \in [Customer -> Tenant \cup {None}]
          /\ task \in [Task -> TaskState]
          /\ answered \subseteq Key
          /\ overlapped \in BOOLEAN
          /\ faults \in 0 .. MaxFaults

Init == /\ made = [c \in Customer |-> NotMade]
        /\ owner = [c \in Customer |-> None]
        /\ task = [t \in Task |-> Idle]
        /\ answered = {}
        /\ overlapped = FALSE
        /\ faults = 0

-----------------------------------------------------------------------------
Exists(c) == made[c].email # None

\* A tenant's recorded customers with an e-mail.  Variants: nothing is looked up; the
\* look-up does not ask for the tenant.
NotLookedUp(n, e) == {}
ExistingAnywhere(n, e) == {c \in Customer : owner[c] # None /\ made[c].email = e}

Existing(n, e) == {c \in Customer : owner[c] = n /\ made[c].email = e}

\* The customers Stripe has made for a key.
Known(key) == {c \in Customer : key # NoKey /\ made[c].key = key}

Goto(t, state) == task' = [task EXCEPT ![t] = state]

Finish(t) == Goto(t, Idle)

\* Variant: the row that was dealt with stays the next one.
NextAgain(x) == [x EXCEPT !.pc = "row", !.email = None, !.c = 0]

\* An import turns to its next row.
NextOf(x) == [x EXCEPT !.pc = "row", !.todo = Tail(@), !.email = None, !.c = 0]

-----------------------------------------------------------------------------
\* POST /customers
Create(t, n, e, k) ==
    /\ task[t].pc = "idle"
    /\ k \notin answered
    \* A key goes with one request: the caller's, with the same e-mail every time.
    /\ \A c \in Known(k) : made[c].email = e
    /\ \A u \in Task : k # NoKey /\ task[u].key = k =>
                         task[u].tenant = n /\ task[u].email = e
    /\ Goto(t, [Idle EXCEPT !.pc = "call", !.tenant = n, !.email = e, !.key = k])
    /\ UNCHANGED <<made, owner, answered, overlapped, faults>>

\* POST /customers/import: the feed has been read.  (One that cannot be read ends the
\* request before anything is done.)
ImportFromSource(t, n, rows) ==
    /\ task[t].pc = "idle"
    /\ Goto(t, [Idle EXCEPT !.pc = "row", !.import = TRUE, !.tenant = n,
                            !.feed = rows, !.todo = rows])
    /\ overlapped' = (overlapped \/ \E u \in Task : task[u].import /\ task[u].tenant = n)
    /\ UNCHANGED <<made, owner, answered, faults>>

\* The next row: without an e-mail, on record already, or to be made.
ImportRow(t) ==
    LET x == task[t]  e == Head(x.todo) IN
    /\ x.pc = "row"
    /\ x.todo # <<>>
    /\ Goto(t, IF e = Blank THEN [NextOf(x) EXCEPT !.failed = @ + 1]
               ELSE IF Existing(x.tenant, e) # {} THEN NextOf(x)
               ELSE [x EXCEPT !.pc = "call", !.email = e])
    /\ UNCHANGED <<made, owner, answered, overlapped, faults>>

ImportEnds(t) ==
    /\ task[t].pc = "row"
    /\ task[t].todo = <<>>
    /\ Finish(t)
    /\ UNCHANGED <<made, owner, answered, overlapped, faults>>

\* Variant: a row that fails fails the import.
ThrowAll(t) == Finish(t)

\* A step of a row throws: the row has failed.  A create that throws ends.
Throw(t) ==
    Goto(t, IF task[t].import THEN [NextOf(task[t]) EXCEPT !.failed = @ + 1] ELSE Idle)

\* Stripe makes a customer, answers a known key as before, or refuses.
CreateCall(t) ==
    LET x == task[t] IN
    /\ x.pc = "call"
    /\ \/ /\ x.email \notin Refused
          /\ Known(x.key) = {}
          /\ \E c \in Customer :
               /\ ~Exists(c)
               /\ \A d \in 1 .. c - 1 : Exists(d)
               /\ made' = [made EXCEPT ![c] = [email |-> x.email, key |-> x.key,
                                               import |-> x.import]]
               /\ Goto(t, [x EXCEPT !.pc = "insert", !.c = c])
       \/ \E c \in Known(x.key) :
               /\ Goto(t, [x EXCEPT !.pc = "insert", !.c = c])
               /\ UNCHANGED made
       \/ /\ x.email \in Refused \/ \A c \in Customer : Exists(c)
          /\ Known(x.key) = {}
          /\ Throw(t)
          /\ UNCHANGED made
    /\ UNCHANGED <<owner, answered, overlapped, faults>>

\* stripeCustomerId is unique: the insert of a customer on record throws.  The answer
\* to a create may be lost.
Insert(t) ==
    LET x == task[t] IN
    /\ x.pc = "insert"
    /\ IF owner[x.c] # None
       THEN Throw(t) /\ UNCHANGED <<owner, answered, faults>>
       ELSE /\ owner' = [owner EXCEPT ![x.c] = x.tenant]
            /\ Goto(t, IF x.import THEN [NextOf(x) EXCEPT !.imported = @ + 1] ELSE Idle)
            /\ \/ answered' = answered \cup ({x.key} \ {NoKey}) /\ UNCHANGED faults
               \/ /\ x.key # NoKey /\ faults < MaxFaults
                  /\ faults' = faults + 1 /\ UNCHANGED answered
    /\ UNCHANGED <<made, overlapped>>

-----------------------------------------------------------------------------
\* A call or an insert fails, or the answer to a call that took effect is lost.
StepFails(t) ==
    /\ faults < MaxFaults
    /\ task[t].pc \in {"call", "insert"}
    /\ Throw(t)
    /\ faults' = faults + 1
    /\ UNCHANGED <<made, owner, answered, overlapped>>

\* A look-up fails, or the process ends.
Abort(t) ==
    /\ faults < MaxFaults
    /\ task[t].pc # "idle"
    /\ Finish(t)
    /\ faults' = faults + 1
    /\ UNCHANGED <<made, owner, answered, overlapped>>

Continue(t) == ImportRow(t) \/ ImportEnds(t) \/ CreateCall(t) \/ Insert(t)

Next == \E t \in Task :
          \/ \E n \in Tenant, e \in Email, k \in Key \cup {NoKey} : Create(t, n, e, k)
          \/ \E n \in Feeding, rows \in Feed : ImportFromSource(t, n, rows)
          \/ Continue(t)
          \/ StepFails(t)
          \/ Abort(t)

Lists(rows, e) == \E i \in DOMAIN rows : rows[i] = e

\* The process goes on with what it began; a platform whose feed lists an e-mail is
\* imported again and again.
Fairness ==
    /\ \A t \in Task : WF_vars(Continue(t))
    /\ \A n \in Feeding, e \in Email \ Refused :
         SF_vars(\E t \in Task, rows \in Feed : Lists(rows, e) /\ ImportFromSource(t, n, rows))

Spec == Init /\ [][Next]_vars /\ Fairness

-----------------------------------------------------------------------------
\* "Existing customers are matched on email and left alone rather than duplicated, so
\* the import is safe to run repeatedly" (customers.service.ts:146-147): whatever is
\* created by hand meanwhile, whatever fails and however often a feed lists an e-mail,
\* imports of a tenant that do not overlap record each e-mail once.
RepeatsAreSafe ==
    ~overlapped => \A c, d \in Customer :
                     /\ made[c].import /\ made[d].import /\ made[c].email = made[d].email
                     /\ owner[c] = owner[d] /\ owner[c] # None
                     => c = d

OnRecord(n) == {made[c].email : c \in {d \in Customer : owner[d] = n}}

\* What an import answers is true: the failures it counts account for every row of the
\* feed whose e-mail is no customer of the tenant, and what it claims to have imported
\* is on record.
ReportIsTrue ==
    \A t \in Task : LET x == task[t] IN
      x.import /\ x.todo = <<>> =>
        /\ Cardinality({i \in DOMAIN x.feed : x.feed[i] \notin OnRecord(x.tenant)}) <= x.failed
        /\ x.imported + x.failed <= Len(x.feed)
        /\ x.imported <= Cardinality({c \in Customer : /\ owner[c] = x.tenant
                                                       /\ made[c].import
                                                       /\ Lists(x.feed, made[c].email)})

\* However often a refused e-mail comes before it in the feed and however steps fail,
\* an e-mail that Stripe takes becomes a customer of a platform that keeps listing it
\* (unless the bound on customers is met first).
EveryEmailArrives ==
    \A n \in Feeding, e \in Email \ Refused :
      <>(e \in OnRecord(n) \/ \A c \in Customer : Exists(c))
=============================================================================
