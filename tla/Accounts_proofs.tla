---------------------------- MODULE Accounts_proofs ----------------------------
(***************************************************************************)
(* Proofs about Accounts, for any number of tenants, users, requests and   *)
(* faults: the credential an answer showed last is the row's, unless a     *)
(* rotation was raced or its answer is owed or lost, and bootstraps that do*)
(* not overlap make one user.  The invariant adds what the copies in memory*)
(* must satisfy: unless raced, a copy has the row's credentials but for the*)
(* one its rotation is about to save, and a rotation is alone on its       *)
(* account.                                                                *)
(***************************************************************************)
EXTENDS Accounts, FiniteSetTheorems, TLAPS

InHand == {"email", "save", "answer"}

\* What a request in progress is.
Sound(x) == /\ x.pc \in InHand => /\ x.who \in Account
                                  /\ Exists(x.who)
                                  /\ x.copy.cred # 0
            /\ Rotation(x.op) => x.pc \in InHand
            /\ x.op = "create" => x.who \in Slug
            /\ x.op = "bootstrap" => x.pc \in {"lookup", "insert", "answer"}
            /\ x.pc = "lookup" => x.op = "bootstrap"

\* The credential a rotation has still to save.
Renews(x, k) == x.pc # "answer" /\ Rotation(x.op) /\ k = Shown(x.op)

\* Every other credential in a copy is that of the row.
Current(x) ==
    x.pc \in InHand /\ x.who \notin raced =>
      \A k \in Credential : Renews(x, k) \/ x.copy[k] = row[x.who][k]

TaskInv == \A t \in Task : Sound(task[t]) /\ Current(task[t])

\* A rotation that is not raced is alone on its account.
Alone == \A t, u \in Task :
           t # u /\ task[t].who = task[u].who /\ task[t].who \notin raced \cup {None}
             => ~Rotation(task[t].op)

UsersInv == \E n \in 0 .. MaxUser : Users = 1 .. n

SetupInv ==
    ~setups => /\ \A t, u \in Task : task[t].op = "bootstrap" /\ task[u].op = "bootstrap" => t = u
               /\ Users # {} => /\ Users = {1}
                                /\ \A t \in Task : task[t].op = "bootstrap" => task[t].pc = "answer"

\* Nobody was shown a credential of an account that is not there.
GivenInv == \A a \in Account, k \in Credential : given[a][k] # 0 => Exists(a)

IInv == TypeOK /\ TaskInv /\ Alone /\ CredentialsStay /\ GivenInv /\ UsersInv /\ SetupInv

-----------------------------------------------------------------------------
LEMMA IdleOK == /\ Idle \in TaskState
                /\ Idle.pc = "idle" /\ Idle.op = "none" /\ Idle.who = None
                /\ Idle.email = None
                /\ Sound(Idle) /\ Sound(Idle)' /\ Current(Idle) /\ Current(Idle)'
  <1>1. NoRow \in Row
    BY AccountsAssumption DEF NoRow, Row, Issue
  <1>2. Idle \in TaskState
    BY <1>1 DEF Idle, TaskState
  <1> QED
    BY <1>2 DEF Idle, Sound, Current, InHand, Rotation

\* Rows and what was shown stay, and no excuse is lost: the property stays.
LEMMA StayOK ==
    ASSUME IInv, UNCHANGED <<row, given>>, raced \subseteq raced',
           lost \cup Owed \subseteq lost' \cup Owed'
    PROVE  CredentialsStay' /\ GivenInv'
  BY DEF IInv, CredentialsStay, GivenInv, Exists

\* A task that owed no answer moves.
LEMMA OwedKept ==
    ASSUME IInv, NEW t \in Task, NEW x, task' = [task EXCEPT ![t] = x],
           task[t].pc # "answer"
    PROVE  Owed \subseteq Owed'
  <1>1. \A u \in Task \ {t} : task'[u] = task[u]
    BY DEF IInv, TypeOK
  <1> QED
    BY <1>1 DEF Owed

LEMMA OwedType == Owed \subseteq Account \X Credential
  BY DEF Owed

\* A request begins: rows and what was shown stay.
LEMMA BeginOK ==
    ASSUME IInv, NEW t \in Task, NEW x, Start(t, x), x \in TaskState,
           Sound(x), Current(x), issued' \in Issue, setups' \in BOOLEAN, SetupInv'
    PROVE  IInv'
  <1>1. UNCHANGED <<row, seeding, given, lost, faults>> /\ task' = [task EXCEPT ![t] = x]
    BY DEF Start
  <1>2. raced' \subseteq Account /\ raced \subseteq raced'
    BY DEF Start, TaskState, IInv, TypeOK
  <1>3. TypeOK'
    BY <1>1, <1>2 DEF IInv, TypeOK
  <1>4. TaskInv'
    <2>1. ASSUME NEW u \in Task PROVE (Sound(task[u]) /\ Current(task[u]))'
      <3>1. PICK y : y = task'[u]
        OBVIOUS
      <3>2. Sound(y) /\ Current(y)
        BY <1>1, <3>1 DEF IInv, TaskInv, TypeOK
      <3>3. (Sound(y) /\ Current(y))'
        BY <1>1, <1>2, <3>2 DEF Sound, Current, Renews, Exists
      <3> QED
        BY <3>1, <3>3 DEF Sound, Current
    <2> QED
      BY <2>1 DEF TaskInv
  <1>5. Alone'
    <2> SUFFICES ASSUME NEW u \in Task, NEW w \in Task, u # w,
                        task'[u].who = task'[w].who, task'[u].who \notin raced' \cup {None}
                 PROVE  ~Rotation(task'[u].op)
      BY DEF Alone, Rotation
    <2>1. CASE u = t
      <3>1. task'[u] = x /\ task'[w] = task[w]
        BY <1>1, <2>1 DEF IInv, TypeOK
      <3> QED
        BY <3>1 DEF Start
    <2>2. CASE w = t
      <3>1. task'[w] = x /\ task'[u] = task[u]
        BY <1>1, <2>2 DEF IInv, TypeOK
      <3> QED
        BY <3>1 DEF Start
    <2>3. CASE u # t /\ w # t
      BY <1>1, <1>2, <2>3 DEF IInv, TypeOK, Alone
    <2> QED
      BY <2>1, <2>2, <2>3
  <1>6. CredentialsStay' /\ GivenInv'
    <2>1. Owed \subseteq Owed'
      BY <1>1, OwedKept DEF Start
    <2> QED
      BY <1>1, <1>2, <2>1, StayOK
  <1>7. UsersInv'
    BY <1>1 DEF IInv, UsersInv, Users, Exists
  <1> QED
    BY <1>3, <1>4, <1>5, <1>6, <1>7 DEF IInv

\* A request goes on as x, on the same account, or ends.
LEMMA GoesOnOK ==
    ASSUME IInv, NEW t \in Task, NEW x, task' = [task EXCEPT ![t] = x],
           x \in TaskState, Sound(x), Current(x),
           x.who \in {task[t].who, None}, x.op \in {task[t].op, "none"},
           x.op = "bootstrap" => task[t].pc # "answer",
           UNCHANGED <<row, seeding, issued, given, raced, setups>>,
           lost' \subseteq Account \X Credential, lost \cup Owed \subseteq lost' \cup Owed',
           faults' \in 0 .. MaxFaults
    PROVE  IInv'
  <1>1. TypeOK'
    BY DEF IInv, TypeOK
  <1>2. TaskInv'
    <2>1. ASSUME NEW u \in Task PROVE (Sound(task[u]) /\ Current(task[u]))'
      <3>1. PICK y : y = task'[u]
        OBVIOUS
      <3>2. Sound(y) /\ Current(y)
        BY <3>1 DEF IInv, TaskInv, TypeOK
      <3>3. (Sound(y) /\ Current(y))'
        BY <3>2 DEF Sound, Current, Renews, Exists
      <3> QED
        BY <3>1, <3>3 DEF Sound, Current
    <2> QED
      BY <2>1 DEF TaskInv
  <1>3. \A u \in Task : /\ task'[u].who \in {task[u].who, None}
                        /\ task'[u].op \in {task[u].op, "none"}
    BY DEF IInv, TypeOK
  <1>4. Alone'
    BY <1>3 DEF IInv, Alone, Rotation
  <1>5. CredentialsStay' /\ GivenInv'
    BY StayOK
  <1>6. UsersInv'
    BY DEF IInv, UsersInv, Users, Exists
  <1>7. SetupInv'
    <2>1. Users' = Users /\ \A u \in Task : task'[u] = IF u = t THEN x ELSE task[u]
      BY DEF IInv, TypeOK, Users, Exists
    <2> QED
      BY <1>3, <2>1 DEF IInv, SetupInv
  <1> QED
    BY <1>1, <1>2, <1>4, <1>5, <1>6, <1>7 DEF IInv

LEMMA EndsOK ==
    ASSUME IInv, NEW t \in Task, task' = [task EXCEPT ![t] = Idle],
           task[t].pc # "answer", UNCHANGED <<row, seeding, issued, given, lost, raced, setups>>,
           faults' \in 0 .. MaxFaults
    PROVE  IInv'
  <1>1. Owed \subseteq Owed'
    BY OwedKept
  <1>2. lost' \subseteq Account \X Credential
    BY DEF IInv, TypeOK
  <1> QED
    BY <1>1, <1>2, IdleOK, GoesOnOK

\* A request that is no bootstrap begins.
LEMMA SetupKept ==
    ASSUME IInv, NEW t \in Task, NEW x, Start(t, x), x.op # "bootstrap", UNCHANGED setups
    PROVE  SetupInv'
  <1>1. row' = row /\ \A u \in Task : task'[u] = IF u = t THEN x ELSE task[u]
    BY DEF Start, IInv, TypeOK
  <1> QED
    BY <1>1 DEF IInv, SetupInv, Users, Exists

LEMMA FreshOK == ASSUME IInv, Room PROVE Fresh \in Issue /\ Fresh # 0
  BY AccountsAssumption DEF IInv, TypeOK, Issue, Fresh, Room

-----------------------------------------------------------------------------
(* The actions that begin a request.                                       *)

LEMMA CreateTenantOK ==
    ASSUME IInv, NEW t \in Task, NEW s \in Slug, CreateTenant(t, s)
    PROVE  IInv'
  <1>0. PICK x : x = [Idle EXCEPT !.pc = "insert", !.op = "create", !.who = s]
    OBVIOUS
  <1>1. Start(t, x) /\ UNCHANGED <<issued, setups>>
    BY <1>0 DEF CreateTenant
  <1>2. x.pc = "insert" /\ x.op = "create" /\ x.who = s
    BY <1>0 DEF Idle
  <1>3. x \in TaskState
    BY <1>0, IdleOK DEF TaskState, Account
  <1>4. Sound(x) /\ Current(x)
    BY <1>2 DEF Sound, Current, InHand, Rotation
  <1>5. issued' \in Issue /\ setups' \in BOOLEAN
    BY <1>1 DEF IInv, TypeOK
  <1>6. SetupInv'
    BY <1>1, <1>2, SetupKept
  <1> QED
    BY <1>1, <1>3, <1>4, <1>5, <1>6, BeginOK

\* A request has read account x.who's row, and renews at most one credential in its copy.
LEMMA RowRead ==
    ASSUME IInv, NEW t \in Task, NEW x \in TaskState, Start(t, x),
           x.pc \in InHand, x.op \in {"update", "rotate", "secret", "reveal"},
           x.who \in Account, Exists(x.who), x.copy.cred # 0,
           \A k \in Credential : Renews(x, k) \/ x.copy[k] = row[x.who][k],
           issued' \in Issue, UNCHANGED setups
    PROVE  IInv'
  <1>1. Sound(x) /\ Current(x)
    BY DEF Sound, Current, InHand
  <1>2. setups' \in BOOLEAN
    BY DEF IInv, TypeOK
  <1>3. SetupInv'
    BY SetupKept
  <1> QED
    BY <1>1, <1>2, <1>3, BeginOK

LEMMA UpdateOK ==
    ASSUME IInv, NEW t \in Task, NEW s \in Slug, Update(t, s)
    PROVE  IInv'
  <1>0. PICK x : x = [Idle EXCEPT !.pc = "save", !.op = "update", !.who = s, !.copy = row[s]]
    OBVIOUS
  <1>1. Start(t, x) /\ Exists(s) /\ UNCHANGED <<issued, setups>>
    BY <1>0 DEF Update
  <1>2. s \in Account /\ row[s] \in Row
    BY DEF Account, IInv, TypeOK
  <1>3. x.pc = "save" /\ x.op = "update" /\ x.who = s /\ x.copy = row[s]
    BY <1>0 DEF Idle
  <1>4. x \in TaskState
    BY <1>0, <1>2, IdleOK DEF TaskState
  <1>5. issued' \in Issue
    BY <1>1 DEF IInv, TypeOK
  <1> QED
    BY <1>1, <1>2, <1>3, <1>4, <1>5, RowRead DEF Exists, InHand

LEMMA RevealOK ==
    ASSUME IInv, NEW t \in Task, NEW s \in Slug, RevealWebhookSecret(t, s)
    PROVE  IInv'
  <1>0. PICK x : x = [Idle EXCEPT !.pc = "answer", !.op = "reveal", !.who = s, !.copy = row[s]]
    OBVIOUS
  <1>1. Start(t, x) /\ Exists(s) /\ UNCHANGED <<issued, setups>>
    BY <1>0 DEF RevealWebhookSecret
  <1>2. s \in Account /\ row[s] \in Row
    BY DEF Account, IInv, TypeOK
  <1>3. x.pc = "answer" /\ x.op = "reveal" /\ x.who = s /\ x.copy = row[s]
    BY <1>0 DEF Idle
  <1>4. x \in TaskState
    BY <1>0, <1>2, IdleOK DEF TaskState
  <1>5. issued' \in Issue
    BY <1>1 DEF IInv, TypeOK
  <1> QED
    BY <1>1, <1>2, <1>3, <1>4, <1>5, RowRead DEF Exists, InHand

LEMMA RotateApiKeyOK ==
    ASSUME IInv, NEW t \in Task, NEW s \in Slug, RotateApiKey(t, s)
    PROVE  IInv'
  <1>0. PICK r : r = [row[s] EXCEPT !.cred = Fresh]
    OBVIOUS
  <1>1. PICK x : x = [Idle EXCEPT !.pc = "save", !.op = "rotate", !.who = s, !.copy = r]
    OBVIOUS
  <1>2. Start(t, x) /\ Exists(s) /\ Room /\ issued' = Fresh /\ UNCHANGED setups
    BY <1>0, <1>1 DEF RotateApiKey
  <1>3. s \in Account /\ row[s] \in Row
    BY DEF Account, IInv, TypeOK
  <1>4. r \in Row /\ r.cred # 0
    BY <1>0, <1>2, <1>3, FreshOK DEF Row
  <1>5. x.pc = "save" /\ x.op = "rotate" /\ x.who = s /\ x.copy = r
    BY <1>1 DEF Idle
  <1>6. x \in TaskState
    BY <1>1, <1>3, <1>4, IdleOK DEF TaskState
  <1>7. issued' \in Issue
    BY <1>2, FreshOK
  <1>8. \A k \in Credential : Renews(x, k) \/ r[k] = row[s][k]
    BY <1>0, <1>3, <1>5 DEF Renews, Shown, Rotation, Credential, Row
  <1> QED
    BY <1>2, <1>3, <1>4, <1>5, <1>6, <1>7, <1>8, RowRead DEF InHand

LEMMA RotateWebhookSecretOK ==
    ASSUME IInv, NEW t \in Task, NEW s \in Slug, RotateWebhookSecret(t, s)
    PROVE  IInv'
  <1>0. PICK r : r = [row[s] EXCEPT !.secret = Fresh]
    OBVIOUS
  <1>1. PICK x : x = [Idle EXCEPT !.pc = "save", !.op = "secret", !.who = s, !.copy = r]
    OBVIOUS
  <1>2. Start(t, x) /\ Exists(s) /\ Room /\ issued' = Fresh /\ UNCHANGED setups
    BY <1>0, <1>1 DEF RotateWebhookSecret
  <1>3. s \in Account /\ row[s] \in Row
    BY DEF Account, IInv, TypeOK
  <1>4. r \in Row /\ r.cred # 0
    BY <1>0, <1>2, <1>3, FreshOK DEF Row, Exists
  <1>5. x.pc = "save" /\ x.op = "secret" /\ x.who = s /\ x.copy = r
    BY <1>1 DEF Idle
  <1>6. x \in TaskState
    BY <1>1, <1>3, <1>4, IdleOK DEF TaskState
  <1>7. issued' \in Issue
    BY <1>2, FreshOK
  <1>8. \A k \in Credential : Renews(x, k) \/ r[k] = row[s][k]
    BY <1>0, <1>3, <1>5 DEF Renews, Shown, Rotation, Credential, Row
  <1> QED
    BY <1>2, <1>3, <1>4, <1>5, <1>6, <1>7, <1>8, RowRead DEF InHand

LEMMA UpdateSelfOK ==
    ASSUME IInv, NEW t \in Task, NEW u \in User, NEW renews \in BOOLEAN, NEW e \in Email,
           UpdateSelf(t, u, renews, e)
    PROVE  IInv'
  <1>0. PICK r : r = IF renews THEN [row[u] EXCEPT !.cred = Fresh] ELSE row[u]
    OBVIOUS
  <1>1. PICK x : x = [Idle EXCEPT !.pc = IF e = row[u].email THEN "save" ELSE "email",
                                  !.op = IF renews THEN "rotate" ELSE "update",
                                  !.who = u,
                                  !.copy = r,
                                  !.email = IF e = row[u].email THEN None ELSE e]
    OBVIOUS
  <1>2. /\ Start(t, x) /\ Exists(u) /\ (renews => Room)
        /\ issued' = IF renews THEN Fresh ELSE issued
        /\ UNCHANGED setups
    BY <1>0, <1>1 DEF UpdateSelf
  <1>3. u \in Account /\ row[u] \in Row
    BY DEF Account, IInv, TypeOK
  <1>4. r \in Row /\ r.cred # 0 /\ (~renews => r = row[u])
    <2>1. CASE renews
      BY <1>0, <1>2, <1>3, <2>1, FreshOK DEF Row
    <2>2. CASE ~renews
      BY <1>0, <1>2, <1>3, <2>2 DEF Exists
    <2> QED
      BY <2>1, <2>2
  <1>5. /\ x.pc \in {"email", "save"} /\ x.who = u /\ x.copy = r
        /\ x.op = IF renews THEN "rotate" ELSE "update"
    BY <1>1 DEF Idle
  <1>6. x \in TaskState
    BY <1>1, <1>3, <1>4, IdleOK DEF TaskState
  <1>7. issued' \in Issue
    BY <1>2, FreshOK DEF IInv, TypeOK
  <1>8. \A k \in Credential : Renews(x, k) \/ r[k] = row[u][k]
    BY <1>0, <1>3, <1>4, <1>5 DEF Renews, Shown, Rotation, Credential, Row
  <1> QED
    BY <1>2, <1>3, <1>4, <1>5, <1>6, <1>7, <1>8, RowRead DEF InHand

LEMMA BootstrapOK ==
    ASSUME IInv, NEW t \in Task, NEW e \in Email, Bootstrap(t, e)
    PROVE  IInv'
  <1>0. PICK x : x = [Idle EXCEPT !.pc = "lookup", !.op = "bootstrap", !.email = e]
    OBVIOUS
  <1>1. /\ Start(t, x) /\ Users = {} /\ UNCHANGED issued
        /\ setups' = (setups \/ \E u \in Task : task[u].op = "bootstrap")
    BY <1>0 DEF Bootstrap
  <1>2. x.pc = "lookup" /\ x.op = "bootstrap" /\ x.who = None
    BY <1>0 DEF Idle
  <1>3. x \in TaskState
    BY <1>0, IdleOK DEF TaskState
  <1>4. Sound(x) /\ Current(x)
    BY <1>2 DEF Sound, Current, InHand, Rotation
  <1>5. issued' \in Issue
    BY <1>1 DEF IInv, TypeOK
  <1>6. setups' \in BOOLEAN
    BY <1>1, Zenon DEF IInv, TypeOK
  <1>7. SetupInv'
    <2>1. \A u \in Task : task'[u] = IF u = t THEN x ELSE task[u]
      BY <1>1 DEF Start, IInv, TypeOK
    <2>2. Users' = {}
      BY <1>1 DEF Start, Users, Exists
    <2> QED
      BY <1>1, <2>1, <2>2 DEF SetupInv
  <1> QED
    BY <1>1, <1>3, <1>4, <1>5, <1>6, <1>7, BeginOK

-----------------------------------------------------------------------------
(* The steps of a request in progress.                                     *)

LEMMA LookupUserOK ==
    ASSUME IInv, NEW t \in Task, LookupUser(t)
    PROVE  IInv'
  <1>1. /\ task[t].pc = "lookup" /\ task[t] \in TaskState /\ Sound(task[t])
        /\ UNCHANGED <<row, seeding, issued, given, lost, raced, setups, faults>>
    BY DEF LookupUser, Finish, Goto, IInv, TypeOK, TaskInv
  <1>2. faults' \in 0 .. MaxFaults
    BY <1>1 DEF IInv, TypeOK
  <1>3. CASE Taken(None, task[t].email)
    BY <1>1, <1>2, <1>3, EndsOK DEF LookupUser, Finish, Goto
  <1>4. CASE ~Taken(None, task[t].email)
    <2>1. PICK x : x = [task[t] EXCEPT !.pc = "insert"]
      OBVIOUS
    <2>2. task' = [task EXCEPT ![t] = x]
      BY <1>4, <2>1 DEF LookupUser, Goto
    <2>3. x \in TaskState /\ x.pc = "insert" /\ x.op = task[t].op /\ x.who = task[t].who
      BY <1>1, <2>1 DEF TaskState
    <2>4. Sound(x) /\ Current(x)
      BY <1>1, <2>3 DEF Sound, Current, InHand, Rotation
    <2>5. lost' \subseteq Account \X Credential /\ Owed \subseteq Owed'
      BY <1>1, <2>2, OwedKept DEF IInv, TypeOK
    <2> QED
      BY <1>1, <1>2, <2>2, <2>3, <2>4, <2>5, GoesOnOK
  <1> QED
    BY <1>3, <1>4

LEMMA LookupEmailOK ==
    ASSUME IInv, NEW t \in Task, LookupEmail(t)
    PROVE  IInv'
  <1>1. /\ task[t].pc = "email" /\ task[t] \in TaskState
        /\ Sound(task[t]) /\ Current(task[t])
        /\ UNCHANGED <<row, seeding, issued, given, lost, raced, setups, faults>>
    BY DEF LookupEmail, Finish, Goto, IInv, TypeOK, TaskInv
  <1>2. faults' \in 0 .. MaxFaults
    BY <1>1 DEF IInv, TypeOK
  <1>3. CASE Taken(None, task[t].email)
    BY <1>1, <1>2, <1>3, EndsOK DEF LookupEmail, Finish, Goto
  <1>4. CASE ~Taken(None, task[t].email)
    <2>1. PICK r : r = [task[t].copy EXCEPT !.email = task[t].email]
      OBVIOUS
    <2>2. PICK x : x = [task[t] EXCEPT !.pc = "save", !.copy.email = task[t].email,
                                       !.email = None]
      OBVIOUS
    <2>3. task' = [task EXCEPT ![t] = x]
      BY <1>4, <2>2 DEF LookupEmail, Goto
    <2>4. r \in Row /\ r.cred = task[t].copy.cred /\ r.secret = task[t].copy.secret
      BY <1>1, <2>1 DEF Row, TaskState
    <2>5. /\ x \in TaskState
          /\ x.pc = "save" /\ x.op = task[t].op /\ x.who = task[t].who /\ x.copy = r
      BY <1>1, <2>1, <2>2, <2>4 DEF TaskState
    <2>6. Sound(x)
      BY <1>1, <2>4, <2>5 DEF Sound, InHand
    <2>7. Current(x)
      <3>1. \A k \in Credential : r[k] = task[t].copy[k]
        BY <2>4 DEF Credential
      <3> QED
        BY <1>1, <2>5, <3>1 DEF Current, Renews, InHand
    <2>8. lost' \subseteq Account \X Credential /\ Owed \subseteq Owed'
      BY <1>1, <2>3, OwedKept DEF IInv, TypeOK
    <2> QED
      BY <1>1, <1>2, <2>3, <2>5, <2>6, <2>7, <2>8, GoesOnOK
  <1> QED
    BY <1>3, <1>4

LEMMA AbortOK ==
    ASSUME IInv, NEW t \in Task, Abort(t)
    PROVE  IInv'
  <1>1. faults' \in 0 .. MaxFaults
    BY AccountsAssumption DEF Abort, IInv, TypeOK
  <1>2. lost' \subseteq Account \X Credential /\ lost \cup Owed \subseteq lost' \cup Owed'
    BY OwedType DEF Abort, IInv, TypeOK
  <1> QED
    BY <1>1, <1>2, IdleOK, GoesOnOK DEF Abort

\* The answer shows what the row has, unless raced.
LEMMA AnswerOK ==
    ASSUME IInv, NEW t \in Task, Answer(t)
    PROVE  IInv'
  <1>1. PICK x : x = task[t]
    OBVIOUS
  <1>2. PICK k : k = Shown(x.op)
    OBVIOUS
  <1>3. /\ x.pc = "answer" /\ x \in TaskState /\ Sound(x) /\ Current(x)
        /\ given' = [given EXCEPT ![x.who][k] = x.copy[k]]
        /\ lost' = lost \ {<<x.who, k>>}
        /\ task' = [task EXCEPT ![t] = Idle]
        /\ UNCHANGED <<row, seeding, issued, raced, setups, faults>>
    BY <1>1, <1>2 DEF Answer, Finish, Goto, IInv, TypeOK, TaskInv
  <1>4. /\ k \in Credential /\ x.who \in Account /\ Exists(x.who) /\ x.copy[k] \in Issue
        /\ x.who \notin raced => x.copy[k] = row[x.who][k]
    <2>1. k \in Credential /\ x.who \in Account /\ Exists(x.who) /\ x.copy \in Row
      BY <1>2, <1>3 DEF Shown, Credential, Sound, InHand, TaskState
    <2> QED
      BY <1>3, <2>1 DEF Credential, Row, Current, Renews, InHand
  <1>5. /\ given' \in [Account -> [Credential -> Issue]]
        /\ \A a \in Account, c \in Credential :
             given'[a][c] = IF a = x.who /\ c = k THEN x.copy[k] ELSE given[a][c]
    BY <1>3, <1>4 DEF IInv, TypeOK
  <1>6. \A u \in Task : task'[u] = IF u = t THEN Idle ELSE task[u]
    BY <1>3 DEF IInv, TypeOK
  <1>7. TypeOK'
    <2>1. task' \in [Task -> TaskState]
      BY <1>3, IdleOK DEF IInv, TypeOK
    <2> QED
      BY <1>3, <1>5, <2>1 DEF IInv, TypeOK
  <1>8. TaskInv'
    BY <1>3, <1>6, IdleOK DEF IInv, TaskInv, Sound, Current, Renews, Exists
  <1>9. Alone'
    BY <1>3, <1>6, IdleOK DEF IInv, Alone, Rotation
  <1>10. CredentialsStay'
    <2> SUFFICES ASSUME NEW a \in Account \ raced, NEW c \in Credential, given'[a][c] # 0
                 PROVE  row[a][c] = given'[a][c] \/ <<a, c>> \in lost' \cup Owed'
      BY <1>3 DEF CredentialsStay
    <2>1. CASE a = x.who /\ c = k
      BY <1>4, <1>5, <2>1
    <2>2. CASE ~(a = x.who /\ c = k)
      <3>1. row[a][c] = given[a][c] \/ <<a, c>> \in lost \cup Owed
        BY <1>5, <2>2 DEF IInv, CredentialsStay
      <3>2. ASSUME <<a, c>> \in Owed PROVE <<a, c>> \in Owed'
        <4>1. PICK u \in Task : /\ task[u].pc = "answer" /\ task[u].op # "reveal"
                                /\ <<a, c>> = <<task[u].who, Shown(task[u].op)>>
          BY <3>2 DEF Owed
        <4>2. u # t
          BY <1>1, <1>2, <2>2, <4>1
        <4>3. task'[u] = task[u]
          BY <1>6, <4>2
        <4> QED
          BY <4>1, <4>3 DEF Owed
      <3> QED
        BY <1>3, <1>5, <2>2, <3>1, <3>2
    <2> QED
      BY <2>1, <2>2
  <1>11. GivenInv'
    BY <1>3, <1>4, <1>5 DEF IInv, GivenInv, Exists
  <1>12. Users' = Users
    BY <1>3 DEF Users, Exists
  <1>13. UsersInv' /\ SetupInv'
    BY <1>3, <1>6, <1>12, IdleOK DEF IInv, UsersInv, SetupInv
  <1> QED
    BY <1>7, <1>8, <1>9, <1>10, <1>11, <1>13 DEF IInv

LEMMA SaveOK ==
    ASSUME IInv, NEW t \in Task, Save(t)
    PROVE  IInv'
  <1>1. PICK x : x = task[t]
    OBVIOUS
  <1>2. /\ x.pc = "save" /\ x \in TaskState /\ Sound(x) /\ Current(x)
        /\ UNCHANGED <<seeding, issued, given, lost, raced, setups, faults>>
    BY <1>1 DEF Save, Finish, Goto, IInv, TypeOK, TaskInv
  <1>3. faults' \in 0 .. MaxFaults
    BY <1>2 DEF IInv, TypeOK
  <1>4. CASE Taken(x.who, x.copy.email)
    BY <1>1, <1>2, <1>3, <1>4, EndsOK DEF Save, Finish, Goto
  <1>5. CASE ~Taken(x.who, x.copy.email)
    <2>1. PICK z : z = IF Rotation(x.op) THEN [x EXCEPT !.pc = "answer"] ELSE Idle
      OBVIOUS
    <2>2. row' = [row EXCEPT ![x.who] = x.copy] /\ task' = [task EXCEPT ![t] = z]
      BY <1>1, <1>5, <2>1 DEF Save, Finish, Goto
    <2>3. x.who \in Account /\ Exists(x.who) /\ x.copy \in Row /\ x.copy.cred # 0
      BY <1>2 DEF Sound, TaskState, InHand
    <2>4. \A a \in Account : row'[a] = IF a = x.who THEN x.copy ELSE row[a]
      BY <2>2 DEF IInv, TypeOK
    <2>5. \A a \in Account : Exists(a)' = Exists(a)
      BY <2>3, <2>4 DEF Exists
    <2>6. \A u \in Task : task'[u] = IF u = t THEN z ELSE task[u]
      BY <2>2 DEF IInv, TypeOK
    <2>7. /\ z \in TaskState /\ z.op \in {x.op, "none"} /\ z.who \in {x.who, None}
          /\ z.pc \in {"answer", "idle"}
          /\ Rotation(x.op) => z.pc = "answer" /\ z.op = x.op /\ z.who = x.who /\ z.copy = x.copy
          /\ ~Rotation(x.op) => z = Idle
      BY <1>2, <2>1, IdleOK DEF TaskState
    <2>8. TypeOK'
      <3>1. row' \in [Account -> Row] /\ task' \in [Task -> TaskState]
        BY <2>2, <2>3, <2>7 DEF IInv, TypeOK
      <3> QED
        BY <1>2, <3>1 DEF IInv, TypeOK
    <2>9. ASSUME NEW u \in Task PROVE (Sound(task[u]) /\ Current(task[u]))'
      <3>1. CASE u = t /\ ~Rotation(x.op)
        BY <2>6, <2>7, <3>1, IdleOK DEF Sound, Current
      <3>2. CASE u = t /\ Rotation(x.op)
        <4>1. Sound(z)'
          BY <2>3, <2>5, <2>7, <3>2 DEF Sound, InHand, Rotation
        <4>2. Current(z)'
          BY <2>3, <2>4, <2>7, <3>2 DEF Current
        <4> QED
          BY <2>6, <3>2, <4>1, <4>2 DEF Sound, Current
      <3>3. CASE u # t
        <4>1. PICK y : y = task[u]
          OBVIOUS
        <4>2. /\ y = task'[u] /\ y.who \in Account \cup {None}
              /\ Sound(y) /\ Current(y)
          BY <2>6, <3>3, <4>1 DEF IInv, TypeOK, TaskInv, TaskState
        <4>3. Sound(y)'
          BY <2>5, <4>2 DEF Sound
        <4>4. Current(y)'
          <5> SUFFICES ASSUME y.pc \in InHand, y.who \notin raced, NEW k \in Credential
                       PROVE  Renews(y, k) \/ y.copy[k] = row'[y.who][k]
            BY <1>2 DEF Current, Renews
          <5>1. y.who \in Account
            BY <4>2 DEF Sound
          <5>2. Renews(y, k) \/ y.copy[k] = row[y.who][k]
            BY <4>2 DEF Current
          <5>3. CASE y.who = x.who
            <6>1. ~Rotation(x.op)
              BY <1>1, <3>3, <4>1, <5>1, <5>3, AccountsAssumption
                 DEF IInv, Alone, Account, User
            <6>2. x.copy[k] = row[x.who][k]
              BY <1>2, <5>3, <6>1 DEF Current, Renews, InHand
            <6> QED
              BY <2>4, <5>1, <5>2, <5>3, <6>2
          <5>4. CASE y.who # x.who
            BY <2>4, <5>1, <5>2, <5>4
          <5> QED
            BY <5>3, <5>4
        <4> QED
          BY <4>2, <4>3, <4>4 DEF Sound, Current
      <3> QED
        BY <3>1, <3>2, <3>3
    <2>10. TaskInv'
      BY <2>9 DEF TaskInv
    <2>11. Alone'
      <3>1. \A u \in Task : /\ task'[u].who \in {task[u].who, None}
                            /\ task'[u].op \in {task[u].op, "none"}
        BY <1>1, <2>6, <2>7
      <3> QED
        BY <1>2, <3>1 DEF IInv, Alone, Rotation
    <2>12. Owed \subseteq Owed'
      BY <1>1, <1>2, <2>2, OwedKept
    <2>13. CredentialsStay'
      <3> SUFFICES ASSUME NEW a \in Account \ raced, NEW k \in Credential, given[a][k] # 0
                   PROVE  row'[a][k] = given[a][k] \/ <<a, k>> \in lost \cup Owed'
        BY <1>2 DEF CredentialsStay
      <3>1. row[a][k] = given[a][k] \/ <<a, k>> \in lost \cup Owed
        BY DEF IInv, CredentialsStay
      <3>2. CASE a # x.who
        BY <2>4, <2>12, <3>1, <3>2
      <3>3. CASE a = x.who /\ Renews(x, k)
        <4>1. task'[t].pc = "answer" /\ task'[t].op # "reveal" /\ task'[t].who = a
              /\ Shown(task'[t].op) = k
          BY <2>6, <2>7, <3>3 DEF Renews, Rotation
        <4> QED
          BY <4>1 DEF Owed
      <3>4. CASE a = x.who /\ ~Renews(x, k)
        <4>1. x.copy[k] = row[a][k]
          BY <1>2, <3>4 DEF Current, InHand
        <4> QED
          BY <2>4, <2>12, <3>1, <3>4, <4>1
      <3> QED
        BY <3>2, <3>3, <3>4
    <2>14. GivenInv'
      BY <1>2, <2>5 DEF IInv, GivenInv
    <2>15. Users' = Users
      BY <2>5 DEF Users, Account
    <2>16. UsersInv'
      BY <2>15 DEF IInv, UsersInv
    <2>17. SetupInv'
      <3>1. z.op # "bootstrap"
        BY <1>2, <2>7 DEF Sound
      <3> QED
        BY <1>2, <2>6, <2>15, <3>1 DEF IInv, SetupInv
    <2> QED
      BY <2>8, <2>10, <2>11, <2>13, <2>14, <2>16, <2>17 DEF IInv
  <1> QED
    BY <1>4, <1>5

-----------------------------------------------------------------------------
(* New rows.                                                               *)

\* A request that made a's row r goes on to answer.
Made(u, a, r) == /\ task[u].pc = "insert" /\ task[u].op \in {"create", "bootstrap"}
                 /\ task'[u].pc = "answer" /\ task'[u].op = task[u].op
                 /\ task'[u].who = a /\ task'[u].copy = r

LEMMA NewRowOK ==
    ASSUME IInv, NEW a \in Account, NEW r \in Row, ~Exists(a), r.cred # 0,
           row' = [row EXCEPT ![a] = r],
           task' \in [Task -> TaskState],
           \A u \in Task : task'[u] = task[u] \/ (Made(u, a, r) /\ (task[u].op = "create" => a \in Slug)),
           issued' \in Issue, seeding' \subseteq Seed, UNCHANGED <<given, lost, raced, setups, faults>>
    PROVE  TypeOK' /\ TaskInv' /\ Alone' /\ CredentialsStay' /\ GivenInv'
  <1>1. \A b \in Account : row'[b] = IF b = a THEN r ELSE row[b]
    BY DEF IInv, TypeOK
  <1>2. TypeOK'
    <2>1. row' \in [Account -> Row]
      BY DEF IInv, TypeOK
    <2> QED
      BY <2>1 DEF IInv, TypeOK
  <1>3. TaskInv'
    <2>1. ASSUME NEW u \in Task PROVE (Sound(task[u]) /\ Current(task[u]))'
      <3>1. CASE Made(u, a, r)
        <4>1. Sound(task[u])'
          BY <1>1, <3>1 DEF Made, Sound, InHand, Exists, Rotation
        <4>2. Current(task[u])'
          BY <1>1, <3>1 DEF Made, Current
        <4> QED
          BY <4>1, <4>2
      <3>2. CASE task'[u] = task[u]
        <4>1. PICK y : y = task[u]
          OBVIOUS
        <4>2. y = task'[u] /\ Sound(y) /\ Current(y)
          BY <3>2, <4>1 DEF IInv, TaskInv
        <4>3. Sound(y)'
          BY <1>1, <4>2 DEF Sound, Exists
        <4>4. Current(y)'
          BY <1>1, <4>2 DEF Sound, Current, Renews, Exists
        <4> QED
          BY <4>2, <4>3, <4>4 DEF Sound, Current
      <3> QED
        BY <3>1, <3>2
    <2> QED
      BY <2>1 DEF TaskInv
  <1>4. Alone'
    <2>1. \A u \in Task : Rotation(task[u].op) => task[u].who # a
      BY DEF IInv, TaskInv, Sound
    <2> SUFFICES ASSUME NEW u \in Task, NEW w \in Task, u # w,
                        task'[u].who = task'[w].who, task'[u].who \notin raced \cup {None},
                        Rotation(task'[u].op)
                 PROVE  FALSE
      BY DEF Alone, Rotation
    <2>2. task'[u] = task[u]
      BY DEF Made, Rotation
    <2>3. task'[w] = task[w]
      BY <2>1, <2>2 DEF Made
    <2> QED
      BY <2>2, <2>3 DEF IInv, Alone
  <1>5. Owed \subseteq Owed'
    BY DEF Owed, Made
  <1>6. GivenInv'
    BY <1>1 DEF IInv, GivenInv, Exists
  <1>7. CredentialsStay'
    <2> SUFFICES ASSUME NEW b \in Account \ raced, NEW k \in Credential, given[b][k] # 0
                 PROVE  row'[b][k] = given[b][k] \/ <<b, k>> \in lost \cup Owed'
      BY DEF CredentialsStay
    <2>1. b # a
      BY DEF IInv, GivenInv
    <2> QED
      BY <1>1, <1>5, <2>1 DEF IInv, CredentialsStay
  <1> QED
    BY <1>2, <1>3, <1>4, <1>6, <1>7

\* The row of a tenant is none of a user.
LEMMA NewTenantOK ==
    ASSUME IInv, NEW s \in Slug, ~Exists(s), Room, row' = [row EXCEPT ![s] = NewTenant],
           task' \in [Task -> TaskState],
           \A u \in Task : task'[u] = task[u] \/ (Made(u, s, NewTenant) /\ task[u].op = "create"),
           issued' = Fresh, seeding' \subseteq Seed, UNCHANGED <<given, lost, raced, setups, faults>>
    PROVE  IInv'
  <1>1. s \in Account /\ NewTenant \in Row /\ NewTenant.cred # 0
    BY FreshOK DEF NewTenant, Row, Account
  <1>2. issued' \in Issue
    BY FreshOK
  <1>3. TypeOK' /\ TaskInv' /\ Alone' /\ CredentialsStay' /\ GivenInv'
    BY <1>1, <1>2, NewRowOK
  <1>4. Users' = Users
    <2>1. \A u \in User : row'[u] = row[u]
      BY AccountsAssumption DEF User, IInv, TypeOK
    <2> QED
      BY <2>1 DEF Users, Exists
  <1>5. UsersInv'
    BY <1>4 DEF IInv, UsersInv
  <1>6. SetupInv'
    <2>1. \A u \in Task : /\ task'[u].op = task[u].op
                          /\ task[u].op = "bootstrap" => task'[u].pc = task[u].pc
      BY DEF Made
    <2> SUFFICES ASSUME ~setups
                 PROVE  /\ \A u, w \in Task :
                             task'[u].op = "bootstrap" /\ task'[w].op = "bootstrap" => u = w
                        /\ Users # {} =>
                             /\ Users = {1}
                             /\ \A u \in Task : task'[u].op = "bootstrap" => task'[u].pc = "answer"
      BY <1>4 DEF SetupInv
    <2>2. /\ \A u, w \in Task : task[u].op = "bootstrap" /\ task[w].op = "bootstrap" => u = w
          /\ Users # {} =>
               /\ Users = {1}
               /\ \A u \in Task : task[u].op = "bootstrap" => task[u].pc = "answer"
      BY DEF IInv, SetupInv
    <2>3. \A u, w \in Task :
             task'[u].op = "bootstrap" /\ task'[w].op = "bootstrap" => u = w
      BY <2>1, <2>2
    <2>4. Users # {} => \A u \in Task : task'[u].op = "bootstrap" => task'[u].pc = "answer"
      BY <2>1, <2>2
    <2> QED
      BY <2>2, <2>3, <2>4
  <1> QED
    BY <1>3, <1>5, <1>6 DEF IInv

LEMMA SeedTenantOK ==
    ASSUME IInv, NEW s \in Seed, SeedTenant(s)
    PROVE  IInv'
  <1>1. s \in Slug /\ seeding' \subseteq Seed
    BY AccountsAssumption DEF SeedTenant, AtSeed, IInv, TypeOK
  <1>2. CASE Exists(s)
    <2>1. UNCHANGED <<row, task, issued, given, lost, raced, setups, faults>>
      BY <1>2 DEF SeedTenant, AtSeed
    <2> QED
      BY <1>1, <2>1 DEF IInv, TypeOK, TaskInv, Sound, Current, Renews, Alone, CredentialsStay,
                        Owed, GivenInv, UsersInv, SetupInv, Users, Exists
  <1>3. CASE ~Exists(s)
    <2>1. /\ Room /\ row' = [row EXCEPT ![s] = NewTenant] /\ issued' = Fresh
          /\ UNCHANGED <<task, given, lost, raced, setups, faults>>
      BY <1>3 DEF SeedTenant, AtSeed
    <2>2. task' \in [Task -> TaskState] /\ \A u \in Task : task'[u] = task[u]
      BY <2>1 DEF IInv, TypeOK
    <2> QED
      BY <1>1, <1>3, <2>1, <2>2, NewTenantOK
  <1> QED
    BY <1>2, <1>3

LEMMA InsertTenantOK ==
    ASSUME IInv, NEW t \in Task, InsertTenant(t)
    PROVE  IInv'
  <1>1. PICK s : s = task[t].who
    OBVIOUS
  <1>2. s \in Slug
    BY <1>1 DEF InsertTenant, IInv, TaskInv, Sound
  <1>3. UNCHANGED <<seeding, given, lost, raced, setups, faults>>
    BY DEF InsertTenant
  <1>4. CASE Exists(s) \/ ~Room
    <2>1. UNCHANGED <<row, issued>> /\ task' = [task EXCEPT ![t] = Idle] /\ task[t].pc = "insert"
      BY <1>1, <1>4 DEF InsertTenant
    <2>2. faults' \in 0 .. MaxFaults
      BY <1>3 DEF IInv, TypeOK
    <2> QED
      BY <1>3, <2>1, <2>2, EndsOK
  <1>5. CASE ~Exists(s) /\ Room
    <2>1. PICK x : x = [task[t] EXCEPT !.pc = "answer", !.copy = NewTenant]
      OBVIOUS
    <2>2. /\ row' = [row EXCEPT ![s] = NewTenant] /\ issued' = Fresh
          /\ task' = [task EXCEPT ![t] = x]
          /\ task[t].pc = "insert" /\ task[t].op = "create"
      BY <1>1, <1>5, <2>1 DEF InsertTenant
    <2>3. NewTenant \in Row
      BY <1>5, FreshOK DEF NewTenant, Row
    <2>4. /\ x \in TaskState /\ x.pc = "answer" /\ x.op = "create"
          /\ x.who = s /\ x.copy = NewTenant
      BY <1>1, <2>1, <2>2, <2>3 DEF IInv, TypeOK, TaskState
    <2>5. /\ task' \in [Task -> TaskState]
          /\ \A u \in Task : task'[u] = IF u = t THEN x ELSE task[u]
      BY <2>2, <2>4 DEF IInv, TypeOK
    <2>6. ASSUME NEW u \in Task
         PROVE  task'[u] = task[u] \/ (Made(u, s, NewTenant) /\ task[u].op = "create")
      <3>1. CASE u = t
        BY <2>2, <2>4, <2>5, <3>1 DEF Made
      <3>2. CASE u # t
        BY <2>5, <3>2
      <3> QED
        BY <3>1, <3>2
    <2>7. seeding' \subseteq Seed
      BY <1>3 DEF IInv, TypeOK
    <2> QED
      BY <1>2, <1>3, <1>5, <2>2, <2>5, <2>6, <2>7, NewTenantOK
  <1> QED
    BY <1>4, <1>5

\* Users are numbered without gaps, so the number of one more is free.
LEMMA NextUser ==
    ASSUME IInv PROVE /\ Users = 1 .. Cardinality(Users)
                      /\ Cardinality(Users) \in Nat
                      /\ ~Exists(Cardinality(Users) + 1) \/ Cardinality(Users) + 1 \notin User
  <1>1. PICK n \in 0 .. MaxUser : Users = 1 .. n
    BY DEF IInv, UsersInv
  <1>2. n \in Nat
    BY <1>1, AccountsAssumption
  <1>3. Cardinality(1 .. n) = n
    BY <1>2, FS_Interval
  <1>4. n + 1 \notin Users
    BY <1>1, <1>2
  <1> QED
    BY <1>1, <1>2, <1>3, <1>4 DEF Users

LEMMA InsertUserOK ==
    ASSUME IInv, NEW t \in Task, InsertUser(t)
    PROVE  IInv'
  <1>1. PICK e : e = task[t].email
    OBVIOUS
  <1>2. PICK n : n = Cardinality(Users)
    OBVIOUS
  <1>3. Users = 1 .. n /\ n \in Nat /\ (~Exists(n + 1) \/ n + 1 \notin User)
    BY <1>2, NextUser
  <1>4. /\ task[t].op = "bootstrap" /\ task[t].pc = "insert" /\ e \in Email \cup {None}
        /\ UNCHANGED <<seeding, given, lost, raced, setups, faults>>
    BY <1>1 DEF InsertUser, IInv, TypeOK, TaskState
  <1>5. CASE Taken(None, e) \/ ~Room
    <2>1. /\ UNCHANGED <<row, issued>> /\ task' = [task EXCEPT ![t] = Idle]
          /\ faults' \in 0 .. MaxFaults
      BY <1>1, <1>4, <1>5 DEF InsertUser, IInv, TypeOK
    <2> QED
      BY <1>4, <2>1, EndsOK
  <1>6. CASE ~Taken(None, e) /\ Room
    <2>1. PICK new : new = [cred |-> Fresh, secret |-> 0, email |-> e]
      OBVIOUS
    <2>a. PICK x : x = [task[t] EXCEPT !.pc = "answer", !.who = n + 1, !.copy = new,
                                       !.email = None]
      OBVIOUS
    <2>2. /\ n + 1 \in User
          /\ row' = [row EXCEPT ![n + 1] = new]
          /\ issued' = Fresh
          /\ task' = [task EXCEPT ![t] = x]
      BY <1>1, <1>2, <1>6, <2>1, <2>a DEF InsertUser
    <2>3. 0 \in Issue
      BY AccountsAssumption DEF Issue
    <2>4. new \in Row /\ new.cred # 0 /\ issued' \in Issue
      BY <1>4, <1>6, <2>1, <2>2, <2>3, FreshOK DEF Row
    <2>b. /\ x \in TaskState /\ x.pc = "answer" /\ x.op = "bootstrap"
          /\ x.who = n + 1 /\ x.copy = new
      BY <1>4, <2>a, <2>2, <2>4 DEF IInv, TypeOK, TaskState, Account
    <2>5. /\ task' \in [Task -> TaskState]
          /\ \A u \in Task : task'[u] = IF u = t THEN x ELSE task[u]
      BY <2>2, <2>b DEF IInv, TypeOK
    <2>6. seeding' \subseteq Seed
      BY <1>4 DEF IInv, TypeOK
    <2>7. n + 1 \in Account /\ ~Exists(n + 1)
      BY <1>3, <2>2 DEF Account
    <2>c. ASSUME NEW u \in Task
         PROVE  task'[u] = task[u] \/ (Made(u, n + 1, new) /\ task[u].op = "bootstrap")
      <3>1. CASE u = t
        BY <1>4, <2>5, <2>b, <3>1 DEF Made
      <3>2. CASE u # t
        BY <2>5, <3>2
      <3> QED
        BY <3>1, <3>2
    <2>8. TypeOK' /\ TaskInv' /\ Alone' /\ CredentialsStay' /\ GivenInv'
      BY <1>4, <2>2, <2>4, <2>5, <2>6, <2>7, <2>c, NewRowOK
    <2>9. \A u \in User : row'[u] = IF u = n + 1 THEN new ELSE row[u]
      BY <2>2 DEF IInv, TypeOK, Account
    <2>10. Users' = 1 .. n + 1
      <3>1. Users' = Users \cup {n + 1}
        BY <2>2, <2>4, <2>9 DEF Users, Exists
      <3> QED
        BY <1>3, <3>1
    <2>11. UsersInv'
      BY <1>3, <2>2, <2>10, AccountsAssumption DEF UsersInv, User
    <2>12. SetupInv'
      <3> SUFFICES ASSUME ~setups
                   PROVE  /\ Users' = {1}
                          /\ \A u \in Task : task'[u].op = "bootstrap" => u = t
        BY <1>4, <2>5, <2>b DEF SetupInv
      <3>1. Users = {} /\ \A u \in Task : task[u].op = "bootstrap" => u = t
        BY <1>4 DEF IInv, SetupInv
      <3>2. n = 0
        BY <1>3, <3>1
      <3> QED
        BY <2>5, <2>10, <3>1, <3>2, IdleOK
    <2> QED
      BY <2>8, <2>11, <2>12 DEF IInv
  <1> QED
    BY <1>5, <1>6

-----------------------------------------------------------------------------
LEMMA InitOK == Init => IInv
  <1> SUFFICES ASSUME Init PROVE IInv
    OBVIOUS
  <1>1. 0 \in Issue /\ 0 \in 0 .. MaxFaults
    BY AccountsAssumption DEF Issue
  <1>2. NoRow \in Row /\ NoRow.cred = 0
    BY <1>1 DEF NoRow, Row
  <1>3. TypeOK
    BY <1>1, <1>2, IdleOK DEF Init, TypeOK
  <1>4. \A t \in Task : task[t] = Idle
    BY DEF Init
  <1>5. TaskInv
    BY <1>4, IdleOK DEF TaskInv
  <1>6. Alone
    BY <1>4, IdleOK DEF Alone, Rotation
  <1>7. CredentialsStay /\ GivenInv
    BY DEF Init, CredentialsStay, GivenInv
  <1>8. Users = {}
    BY <1>2 DEF Init, Users, Exists, Account
  <1>9. UsersInv
    BY <1>8, AccountsAssumption DEF UsersInv
  <1>10. SetupInv
    BY <1>4, <1>8, IdleOK DEF SetupInv
  <1> QED
    BY <1>3, <1>5, <1>6, <1>7, <1>9, <1>10 DEF IInv

LEMMA RestartOK == ASSUME IInv, Restart PROVE IInv'
  <1>1. \A t \in Task : task'[t] = Idle
    BY DEF Restart
  <1>2. faults' \in 0 .. MaxFaults
    BY AccountsAssumption DEF Restart, IInv, TypeOK
  <1>3. TypeOK'
    BY <1>2, IdleOK, OwedType DEF Restart, IInv, TypeOK
  <1>4. TaskInv'
    BY <1>1, IdleOK DEF TaskInv, Sound, Current, InHand
  <1>5. Alone'
    BY <1>1, IdleOK DEF Alone, Rotation
  <1>6. CredentialsStay' /\ GivenInv'
    BY StayOK DEF Restart
  <1>7. Users' = Users
    BY DEF Restart, Users, Exists
  <1>8. UsersInv' /\ SetupInv'
    BY <1>1, <1>7, IdleOK DEF Restart, IInv, UsersInv, SetupInv
  <1> QED
    BY <1>3, <1>4, <1>5, <1>6, <1>8 DEF IInv

LEMMA NextOK == IInv /\ [Next]_vars => IInv'
  <1> SUFFICES ASSUME IInv, [Next]_vars PROVE IInv'
    OBVIOUS
  <1>1. CASE Boot
    BY <1>1, SeedTenantOK DEF Boot
  <1>2. CASE Restart
    BY <1>2, RestartOK
  <1>3. ASSUME NEW t \in Task, NEW s \in Slug,
               \/ CreateTenant(t, s) \/ Update(t, s)
               \/ RotateApiKey(t, s) \/ RotateWebhookSecret(t, s) \/ RevealWebhookSecret(t, s)
        PROVE  IInv'
    BY <1>3, CreateTenantOK, UpdateOK, RotateApiKeyOK, RotateWebhookSecretOK, RevealOK
  <1>4. ASSUME NEW t \in Task, NEW e \in Email, Bootstrap(t, e) PROVE IInv'
    BY <1>4, BootstrapOK
  <1>5. ASSUME NEW t \in Task, NEW u \in User, NEW renews \in BOOLEAN, NEW e \in Email,
               UpdateSelf(t, u, renews, e)
        PROVE  IInv'
    BY <1>5, UpdateSelfOK
  <1>6. ASSUME NEW t \in Task, Continue(t) PROVE IInv'
    BY <1>6, InsertTenantOK, LookupUserOK, InsertUserOK, LookupEmailOK, SaveOK, AnswerOK
       DEF Continue
  <1>7. ASSUME NEW t \in Task, Abort(t) PROVE IInv'
    BY <1>7, AbortOK
  <1>8. CASE UNCHANGED vars
    BY <1>8 DEF vars, IInv, TypeOK, TaskInv, Sound, Current, Renews, Alone, CredentialsStay,
                Owed, GivenInv, UsersInv, SetupInv, Users, Exists
  <1> QED
    BY <1>1, <1>2, <1>3, <1>4, <1>5, <1>6, <1>7, <1>8 DEF Next

-----------------------------------------------------------------------------
\* Every reachable state satisfies the inductive invariant: copies are current unless
\* raced, rotations alone unless raced, users numbered without gaps.
THEOREM Invariance == Spec => []IInv
  BY InitOK, NextOK, PTL DEF Spec

\* Rows, requests, credentials and marks keep their types (the columns of the entities of
\* tenants and users, and the requests of their services).
THEOREM TypeCorrect == Spec => []TypeOK
  <1>1. IInv => TypeOK
    BY DEF IInv
  <1> QED
    BY <1>1, Invariance, PTL

\* Whatever saves whole rows over one another, and whatever boots and errors there are, the
\* credential an answer showed last is the one in the row (TenantsService's "keys you rotate
\* stay rotated"), unless a rotation overlapped another request on the account, or a later
\* rotation has saved its row but not answered, or its answer was lost.
THEOREM CredentialsLast == Spec => []CredentialsStay
  <1>1. IInv => CredentialsStay
    BY DEF IInv
  <1> QED
    BY <1>1, Invariance, PTL

\* Bootstraps of AuthService that do not overlap create one user, for any number of
\* requests, e-mail addresses and faults.
THEOREM OneSetupOnly == Spec => []OneSetup
  <1>1. IInv => OneSetup
    <2> SUFFICES ASSUME IInv, ~setups PROVE Cardinality(Users) <= 1
      BY DEF OneSetup
    <2>1. Users = {} \/ Users = {1}
      BY DEF IInv, SetupInv
    <2> QED
      BY <2>1, FS_EmptySet, FS_Singleton
  <1> QED
    BY <1>1, Invariance, PTL
=============================================================================
