------------------------------- MODULE Accounts -------------------------------
(***************************************************************************)
(* tenants/tenants.service.ts, users/users.service.ts and the bootstrap of *)
(* auth/auth.service.ts: the rows of tenants and users and the credentials *)
(* in them, which are shown once.                                          *)
(*                                                                         *)
(* task[t] is a request in progress, between two awaits.  An update or a   *)
(* rotation reads a row, changes its copy and saves the copy whole: what   *)
(* another request wrote meanwhile is written over.                        *)
(***************************************************************************)
EXTENDS Integers, FiniteSets

CONSTANTS Task,      \* bound: requests in progress at once
          Slug,      \* tenants, by their slug
          Seed,      \* those seeded at boot
          SeedAt,    \* where in the list of seeds each one is
          MaxUser,   \* bound: users are numbered 1..MaxUser
          Email,     \* e-mail addresses of users
          None,      \* no e-mail, no account
          MaxIssued, \* bound: keys, secrets and passwords are numbered as issued
          MaxFaults  \* bound: crashes and errors

ASSUME AccountsAssumption == /\ Seed \subseteq Slug
                             /\ IsFiniteSet(Seed) /\ Cardinality(Seed) <= MaxIssued
                             /\ SeedAt \in [Seed -> Nat]
                             /\ MaxUser \in Nat
                             /\ None \notin Email \cup Slug \cup 1 .. MaxUser
                             /\ Slug \cap 1 .. MaxUser = {}
                             /\ MaxIssued \in Nat
                             /\ MaxFaults \in Nat

VARIABLES row,     \* the tenants and users tables
          task,    \* requests in progress
          seeding, \* seeds the boot in progress has still to look at
          issued,  \* keys, secrets and passwords issued so far
          given,   \* the credentials of each account that an answer showed last
          lost,    \* those changed since by a request whose answer never came
          raced,   \* accounts with a rotation that overlapped another request on it
          setups,  \* whether two bootstraps were ever in progress at once
          faults   \* crashes and errors so far

vars == <<row, task, seeding, issued, given, lost, raced, setups, faults>>

User == 1 .. MaxUser

Account == Slug \cup User

Issue == 0 .. MaxIssued

\* cred is a tenant's API key (its hash and its last four together) or a user's
\* password, 0 without a row; secret: a tenant's webhook secret; email: a user's.
Row == [cred : Issue, secret : Issue, email : Email \cup {None}]

Credential == {"cred", "secret"}

NoRow == [cred |-> 0, secret |-> 0, email |-> None]

\* who: the account, None for one to be created; copy: the row as it will be saved, or
\* as it will be answered; email: the e-mail a user changes to.
TaskState == [pc    : {"idle", "lookup", "insert", "email", "save", "answer"},
              op    : {"none", "create", "bootstrap", "update", "rotate", "secret", "reveal"},
              who   : Account \cup {None},
              copy  : Row,
              email : Email \cup {None}]

Idle == [pc |-> "idle", op |-> "none", who |-> None, copy |-> NoRow, email |-> None]

TypeOK == /\ row \in [Account -> Row]
          /\ task \in [Task -> TaskState]
          /\ seeding \subseteq Seed
          /\ issued \in Issue
          /\ given \in [Account -> [Credential -> Issue]]
          /\ lost \subseteq Account \X Credential
          /\ raced \subseteq Account
          /\ setups \in BOOLEAN
          /\ faults \in 0 .. MaxFaults

Init == /\ row = [a \in Account |-> NoRow]
        /\ task = [t \in Task |-> Idle]
        /\ seeding = Seed
        /\ issued = 0
        /\ given = [a \in Account |-> [k \in Credential |-> 0]]
        /\ lost = {}
        /\ raced = {}
        /\ setups = FALSE
        /\ faults = 0

-----------------------------------------------------------------------------
Exists(a) == row[a].cred # 0

Users == {u \in User : Exists(u)}

\* Looked for by the code, and refused by the unique index on e-mail.
Taken(a, e) == e # None /\ \E u \in User \ {a} : row[u].email = e

Fresh == issued + 1

Room == issued < MaxIssued

Rotation(op) == op \in {"rotate", "secret"}

\* A request on account a begins, once the boot is over.
Start(t, state) ==
    /\ seeding = {}
    /\ task[t].pc = "idle"
    /\ task' = [task EXCEPT ![t] = state]
    /\ raced' = raced \cup {a \in {state.who} \ {None} : \E u \in Task :
                              task[u].who = a /\ (Rotation(state.op) \/ Rotation(task[u].op))}
    /\ UNCHANGED <<row, seeding, given, lost, faults>>

Goto(t, state) == /\ task' = [task EXCEPT ![t] = state]
                  /\ UNCHANGED <<seeding, issued, raced, setups>>

Finish(t) == Goto(t, Idle)

\* What an answer shows: the webhook secret, or the key or password.
Shown(op) == IF op \in {"secret", "reveal"} THEN "secret" ELSE "cred"

\* Answers in preparation that show a credential nobody was shown before.
Owed == {x \in Account \X Credential :
           \E t \in Task : /\ task[t].pc = "answer" /\ task[t].op # "reveal"
                           /\ x = <<task[t].who, Shown(task[t].op)>>}

-----------------------------------------------------------------------------
(* Boot: onModuleInit, one seed after the other before any request.        *)

\* The next seed of the list.
AtSeed(s) == s \in seeding /\ \A r \in seeding : SeedAt[s] <= SeedAt[r]

\* Variant: the webhook secret is left for later.
NewTenantBare == [cred |-> Fresh, email |-> None]

NewTenant == [cred |-> Fresh, secret |-> Fresh, email |-> None]

\* Variant: a seed is written over what is there.
SeedAnew(s) ==
    /\ AtSeed(s)
    /\ Room
    /\ seeding' = seeding \ {s}
    /\ row' = [row EXCEPT ![s] = NewTenant]
    /\ issued' = Fresh
    /\ UNCHANGED <<task, given, lost, raced, setups, faults>>

\* Variant: create's refusal of an existing slug is not avoided.
SeedOrThrow(s) ==
    /\ AtSeed(s)
    /\ IF Exists(s)
       THEN UNCHANGED <<row, issued, seeding>>
       ELSE /\ Room /\ row' = [row EXCEPT ![s] = NewTenant] /\ issued' = Fresh
            /\ seeding' = seeding \ {s}
    /\ UNCHANGED <<task, given, lost, raced, setups, faults>>

\* A seed that exists is left alone; nobody is given the key of a new one.
SeedTenant(s) ==
    /\ AtSeed(s)
    /\ seeding' = seeding \ {s}
    /\ IF Exists(s)
       THEN UNCHANGED <<row, issued>>
       ELSE Room /\ row' = [row EXCEPT ![s] = NewTenant] /\ issued' = Fresh
    /\ UNCHANGED <<task, given, lost, raced, setups, faults>>

-----------------------------------------------------------------------------
(* Tenants                                                                 *)

CreateTenant(t, s) ==
    /\ Room
    /\ ~Exists(s)
    /\ Start(t, [Idle EXCEPT !.pc = "insert", !.op = "create", !.who = s])
    /\ UNCHANGED <<issued, setups>>

\* slug is unique: a tenant created meanwhile makes the insert throw.
InsertTenant(t) ==
    LET s == task[t].who IN
    /\ task[t].pc = "insert"
    /\ task[t].op = "create"
    /\ IF Exists(s) \/ ~Room
       THEN UNCHANGED <<row, issued>> /\ task' = [task EXCEPT ![t] = Idle]
       ELSE /\ row' = [row EXCEPT ![s] = NewTenant]
            /\ issued' = Fresh
            /\ task' = [task EXCEPT ![t].pc = "answer", ![t].copy = NewTenant]
    /\ UNCHANGED <<seeding, given, lost, raced, setups, faults>>

\* Name, address, currency or whether it is active: the copy's other columns matter.
Update(t, s) ==
    /\ Exists(s)
    /\ Start(t, [Idle EXCEPT !.pc = "save", !.op = "update", !.who = s, !.copy = row[s]])
    /\ UNCHANGED <<issued, setups>>

RotateApiKey(t, s) ==
    /\ Exists(s)
    /\ Room
    /\ Start(t, [Idle EXCEPT !.pc = "save", !.op = "rotate", !.who = s,
                             !.copy = [row[s] EXCEPT !.cred = Fresh]])
    /\ issued' = Fresh
    /\ UNCHANGED setups

RotateWebhookSecret(t, s) ==
    /\ Exists(s)
    /\ Room
    /\ Start(t, [Idle EXCEPT !.pc = "save", !.op = "secret", !.who = s,
                             !.copy = [row[s] EXCEPT !.secret = Fresh]])
    /\ issued' = Fresh
    /\ UNCHANGED setups

\* POST :id/reveal-webhook-secret reads the row and answers with its secret.
RevealWebhookSecret(t, s) ==
    /\ Exists(s)
    /\ Start(t, [Idle EXCEPT !.pc = "answer", !.op = "reveal", !.who = s, !.copy = row[s]])
    /\ UNCHANGED <<issued, setups>>

-----------------------------------------------------------------------------
(* Users                                                                   *)

\* Variant: the count is left out, and the e-mail alone looked for.
BootstrapUncounted(t, e) ==
    /\ ~Taken(None, e)
    /\ Start(t, [Idle EXCEPT !.pc = "lookup", !.op = "bootstrap", !.email = e])
    /\ setups' = (setups \/ \E u \in Task : task[u].op = "bootstrap")
    /\ UNCHANGED issued

\* POST /auth/bootstrap: refused as soon as there is a user.
Bootstrap(t, e) ==
    /\ Users = {}
    /\ Start(t, [Idle EXCEPT !.pc = "lookup", !.op = "bootstrap", !.email = e])
    /\ setups' = (setups \/ \E u \in Task : task[u].op = "bootstrap")
    /\ UNCHANGED issued

LookupUser(t) ==
    /\ task[t].pc = "lookup"
    /\ IF Taken(None, task[t].email)
       THEN Finish(t)
       ELSE Goto(t, [task[t] EXCEPT !.pc = "insert"])
    /\ UNCHANGED <<row, given, lost, faults>>

InsertUser(t) ==
    LET e == task[t].email IN
    /\ task[t].pc = "insert"
    /\ task[t].op = "bootstrap"
    /\ IF Taken(None, e) \/ ~Room
       THEN UNCHANGED <<row, issued>> /\ task' = [task EXCEPT ![t] = Idle]
       ELSE LET u == Cardinality(Users) + 1
                new == [cred |-> Fresh, secret |-> 0, email |-> e]
            IN /\ u \in User
               /\ row' = [row EXCEPT ![u] = new]
               /\ issued' = Fresh
               /\ task' = [task EXCEPT ![t].pc = "answer", ![t].who = u, ![t].copy = new,
                                       ![t].email = None]
    /\ UNCHANGED <<seeding, given, lost, raced, setups, faults>>

\* PATCH /users/me: a new password, from somebody who knows the current one; a new e-mail.
UpdateSelf(t, u, renews, e) ==
    /\ Exists(u)
    /\ renews => Room
    /\ Start(t, [Idle EXCEPT !.pc = IF e = row[u].email THEN "save" ELSE "email",
                             !.op = IF renews THEN "rotate" ELSE "update",
                             !.who = u,
                             !.copy = IF renews THEN [row[u] EXCEPT !.cred = Fresh] ELSE row[u],
                             !.email = IF e = row[u].email THEN None ELSE e])
    /\ issued' = IF renews THEN Fresh ELSE issued
    /\ UNCHANGED setups

LookupEmail(t) ==
    LET x == task[t] IN
    /\ x.pc = "email"
    /\ IF Taken(None, x.email)
       THEN Finish(t)
       ELSE Goto(t, [x EXCEPT !.pc = "save", !.copy.email = x.email, !.email = None])
    /\ UNCHANGED <<row, given, lost, faults>>

-----------------------------------------------------------------------------
\* The copy becomes the row, unless its e-mail has been taken.
Save(t) ==
    LET x == task[t] IN
    /\ x.pc = "save"
    /\ IF Taken(x.who, x.copy.email)
       THEN Finish(t) /\ UNCHANGED row
       ELSE /\ row' = [row EXCEPT ![x.who] = x.copy]
            /\ IF Rotation(x.op) THEN Goto(t, [x EXCEPT !.pc = "answer"]) ELSE Finish(t)
    /\ UNCHANGED <<given, lost, faults>>

\* The answer arrives, with what it shows.
Answer(t) ==
    LET x == task[t]
        k == Shown(x.op)
    IN /\ x.pc = "answer"
       /\ given' = [given EXCEPT ![x.who][k] = x.copy[k]]
       /\ lost' = lost \ {<<x.who, k>>}
       /\ Finish(t)
       /\ UNCHANGED <<row, faults>>

\* A request ends by an error of the database, or its answer is lost.
Abort(t) ==
    /\ faults < MaxFaults
    /\ task[t].pc # "idle"
    /\ task' = [task EXCEPT ![t] = Idle]
    /\ lost' = lost \cup (Owed \ Owed')
    /\ faults' = faults + 1
    /\ UNCHANGED <<row, seeding, issued, given, raced, setups>>

\* The process dies and boots again.
Restart ==
    /\ faults < MaxFaults
    /\ task' = [t \in Task |-> Idle]
    /\ lost' = lost \cup Owed
    /\ seeding' = Seed
    /\ faults' = faults + 1
    /\ UNCHANGED <<row, issued, given, raced, setups>>

Continue(t) == \/ InsertTenant(t) \/ LookupUser(t) \/ InsertUser(t)
               \/ LookupEmail(t) \/ Save(t) \/ Answer(t)

Boot == \E s \in Seed : SeedTenant(s)

Next == \/ Boot
        \/ Restart
        \/ \E t \in Task :
             \/ \E s \in Slug : \/ CreateTenant(t, s) \/ Update(t, s)
                                \/ RotateApiKey(t, s) \/ RotateWebhookSecret(t, s)
                                \/ RevealWebhookSecret(t, s)
             \/ \E e \in Email : Bootstrap(t, e)
             \/ \E u \in User, renews \in BOOLEAN, e \in Email : UpdateSelf(t, u, renews, e)
             \/ Continue(t)
             \/ Abort(t)

\* A boot goes on by itself.
Spec == Init /\ [][Next]_vars /\ WF_vars(Boot)

-----------------------------------------------------------------------------
\* "Only ever creates - never overwrites an existing tenant, so keys you rotate stay
\* rotated" (tenants.service.ts:25-27): the credential an answer showed last is the one in
\* the row, through updates, boots and errors, with two exceptions.  A rotation that
\* overlapped another request on the account may have been undone; and while a rotation
\* saved its row and has not answered, or never did (a crash, a lost answer), the row has a
\* credential that nobody was shown, and the one shown last is dead.
CredentialsStay ==
    \A a \in Account \ raced, k \in Credential :
      given[a][k] # 0 => row[a][k] = given[a][k] \/ <<a, k>> \in lost \cup Owed

\* "Only works while the users table is empty - once any user exists this permanently
\* 403s" (auth.service.ts:45-47): bootstraps that do not overlap make one user, though
\* others rename themselves and errors end requests.
OneSetup == ~setups => Cardinality(Users) <= 1

\* Whatever the last process left behind, a boot gets through its seeds, and they exist.
BootCompletes ==
    seeding # {} ~> seeding = {} /\ \A s \in Seed : Exists(s)
=============================================================================
