# A TLA+ model of the Stripe payments service

The service (NestJS, TypeORM, MySQL) takes payments for several source platforms
("tenants") through Stripe, keeps a local row for every payment, learns of outcomes
from Stripe's webhooks or by asking, and tells the platforms of changes with webhooks of
its own. These modules model the parts where outcomes depend on timing: what
requests, event handlers and retries do to the same rows when they interleave at their
awaits, and when steps fail.

Paths below are relative to the repository; `payments.service.ts` is
`src/payments/payments.service.ts`, and so on.

## Inventory

| Component | State | Operations | Talks to |
|---|---|---|---|
| payments (`payments/`) | `payments` rows: status, Stripe ids, amounts | create, capture, cancel, sync, sync-all, `recalculateRefunded` | Stripe, outbound, invoices |
| inbound webhooks (`webhooks/`) | `processed_events` | `handleEvent` and the handlers | payments, refunds, payouts |
| outbound webhooks (`outbound/`) | `webhook_deliveries` | `emit`, `retryPending`, `attempt`, `scheduleRetry` | tenants, the platforms |
| refunds (`refunds/`) | `refunds` rows | create, cancel, `syncFromStripeRefund` | Stripe, payments, outbound |
| payouts (`payouts/`) | `payouts` rows | create, cancel, `syncFromStripePayout` | Stripe |
| customers (`customers/`) | `customers` rows | create, stored methods, `importFromSource` | Stripe, customer sources |
| tenants and customer sources (`tenants/`) | `tenants`, `customer_sources` | create, update, rotate key or secret, seed | - |
| auth and users (`auth/`, `users/`, `common/guards/`) | `users` | bootstrap, login, update, tenant resolution | tenants |
| invoices and storage (`invoices/`) | `invoices` rows, files | upload, attach, remove | payments |
| reports (`reports/`) | none | `monthlyRevenue`, `summary` | reads payments |
| Stripe wrapper (`stripe/`) | none | one call per method | the Stripe SDK |
| application shell | none | wiring, config, logging, error format | - |

Components call each other directly in one Node process and share rows in the database.
There is no transaction and no lock anywhere: TypeORM's `save(entity)` writes back the
entity a caller read earlier. The only guards against concurrency are unique indexes
(event id, Stripe ids, slug, e-mail).

### What is hard, and what makes each component correct

- **payments.** Two tasks on one row, each with its own stale copy; Stripe's events in
  any order or never; a Stripe call that took effect although its answer was lost. A row,
  and every notice made from it, must not claim an outcome that did not happen; a Stripe
  object must have a row; a row must come to agree with Stripe in the end.
- **inbound webhooks.** Posts of one event overlap and repeat; a handler fails after its
  event was recorded. A handler must not run twice; Stripe must stop retrying.
- **outbound webhooks.** The immediate attempt, the sweep and a second sweep work on
  one row; the process dies between queueing and posting. "delivered" must be true, the
  attempts must be used before giving up, everything queued must settle.
- **refunds.** The sum refunded must not exceed the sum received although the check and
  the call are apart; the payment's total must agree with its refunds.
- **payouts.** The Stripe object is made before its row; a fault leaves it unrecorded.
  Statuses arrive in any order. A row must show only what was, a retry with a key must not
  pay out twice and must repair the missing row.
- **customers.** Rows of a feed fail one by one, imports are repeated and die half way. An
  e-mail must not be imported twice, the answer must be true, everything must arrive.
- **tenants, users.** Lost updates of whole-row saves; check-then-insert races; a boot that
  dies between its seeds. The credentials shown once must stay valid.
- **invoices.** File and row are written and removed in two steps; saves of payments carry
  their invoices along. No row without its file, no file without a row unless something
  failed, and a removal that can be completed.
- **reports.** Grouping by currency and month, then folding into twelve months.

`PROJECT.json` lists every hazard at its line, with the properties that cover it, and what is
left of it that none does.

## Modules

| Module | Models |
|---|---|
| `StripeObjects` | Stripe as the service sees it: one session and one PaymentIntent per payment, and the unordered set of events about them (external) |
| `Payments` | `payments.service.ts` and the payment handlers of `webhooks.service.ts`, on top of `StripeObjects` |
| `WebhookDispatch` | abstract: the life of an event (accepted, run, done or lost) and its acknowledgement |
| `WebhookIntake` | `handleEvent` and its controller: lookup, record, dispatch, answer |
| `Outbound` | `outbound-webhooks.service.ts` |
| `Refunds` | `refunds.service.ts`, `recalculateRefunded`, and the part of a payment's saves that touches its refunds |
| `StatusMirror` | abstract: a local row shows a status its object at Stripe has had |
| `Payouts` | `payouts.service.ts`, its controller's keys and the payout events |
| `Customers` | `create` and `importFromSource` of `customers.service.ts` |
| `Invoices` | `invoices.service.ts`, `storage.service.ts`, and the part of a payment's saves that touches its invoices |
| `Accounts` | `tenants.service.ts`, `users.service.ts` and `bootstrap` of `auth.service.ts` |
| `Reports` | `reports.service.ts`, as operators over a changing payments table |
| `MCPayments`, `MCWebhookIntake`, `MCOutbound`, `MCRefunds`, `MCPayouts`, `MCCustomers`, `MCInvoices`, `MCAccounts`, `MCReports` | instances for TLC |
| `Payments_proofs`, `WebhookIntake_proofs`, `Outbound_proofs`, `Refunds_proofs`, `Payouts_proofs`, `Customers_proofs`, `Invoices_proofs`, `Accounts_proofs` | the theorems; those about `Reports` are in `Refunds_proofs` |

`WebhookIntake` implements `WebhookDispatch`, an event's life as its neighbours see it: it is
accepted, run and done, or lost on the way for good, and nothing is acknowledged that was
never accepted. `Payments` consumes events as `WebhookDispatch` promises: an event is taken
out of the set when its handler starts (`Handled`; the abstract `Run`) and need never be
taken. That is how the two are composed: each is checked
against the same small specification instead of a product of both state spaces.

`StatusMirror` is what `refunds.service.ts` and `payouts.service.ts` have in common: an
object at Stripe reaches statuses, and its row shows some status it has had. It may lag
and go back, since nothing orders events and saves; it shows nothing that never was, and
no row is lost. `Refunds` and `Payouts` both implement it, with `had` mapped to the
statuses of Stripe's objects and `mirror` to the table.

`Refunds` and `Invoices` meet `Payments` in the payment's row, which is saved whole: each
has an action for a payment read and one for its save, standing for every handler and
request of `Payments` (below). `Reports` reads what `Payments` and `Refunds` leave in the
table, and takes any row that they can leave there.

### What TypeORM does

Taken from how the code uses it. `save` of an entity compares it with the row and writes
the columns that differ, those left null included, as one step: the row becomes the copy.
The insert in `create` leaves null in every nullable column nobody set; a property set to
`undefined` afterwards is not written (which matters in `Outbound`, where `lastError` and
`nextAttemptAt` are cleared that way and stay). `save` of an entity whose row has been
removed inserts it again. `save` of an entity whose one-to-many list was loaded makes the
list true: a member missing from it is detached, one that has gone elsewhere comes back.

### Payments

`row[p]` is the row of payment `p`: its status, whether each of the two Stripe ids is
set, the amounts capturable and received. `task[t]` is a request or a handler in
progress: `pc` is the await it is about to make, `op` what it is, `copy` the entity in
memory. One action is the code between two awaits.

| Actions | Code |
|---|---|
| `CreateInsert`, `StartCardCheckout`, `StartBankDebit`, `ChargeSavedMethod`, `AttachInvoice`, `CreateThrows`, `CreateFail` | `create` and the flow it chooses, with its catch |
| `Capture`, `CaptureCall`; `Cancel`, `CancelCall`; `CallRefused` | `capture`, `cancel` |
| `SyncFromStripe`, `SyncSession`, `SyncLink`, `Retrieve` | `syncFromStripe`; `SyncAll` is it for one of the candidates of `syncAllFromStripe` |
| `OnCheckoutSession`, `OnCheckoutSessionFailed`, `OnPaymentIntent`, `DropUnmatched` | the handlers |
| `Save`, `Emit` | the save that ends `syncFromIntent` and the handlers; `outbound.emit` with `toEventPayload` |
| `Abort` | any await throws, or the process dies |

`told[p]` is the last notice queued for the platform: its name, and the status in its
payload, which a handler re-reads from the row and a request takes from its copy.

Abstracted: tenants and permissions (a request for another tenant's payment ends
before it changes anything), the arguments `create` rejects before its insert, amounts
other than the payment's total and a partial capture, failure reasons, and a zero-value
session's total. Statuses are Stripe's own, mapped by `MapIntentStatus`.

### WebhookIntake

`post[d]` is one HTTP post being served, between its awaits; `processed` is the table;
`acked` is what Stripe has seen answered 2xx; `calls` and `handled` count handler calls and
completed handlers. `Record` fails on a recorded id because the index on `eventId` is
unique (`processed-event.entity.ts:21`).

### Outbound

`rec[d]` is a row; `worker[w]` is the attempt an `emit` started, or a sweep with the rows
it still has `todo`. `wait` is the time to `nextAttemptAt` in minutes. `Emit` saves the row
and starts an attempt that nobody awaits; `Sweep` reads the due rows once; `Read`,
`ReadTenant`, `Deliver` and `Save` are `attempt`, working on the copy it read.
`Backoff(n)` is `min(2^n, 60)` minutes, so the first retry comes after two minutes (the
comment at line 126 says about one).
`redeliver` has no caller and is left out; it would break `AttemptsAreUsed` only by resetting
the count on purpose. The look-up of the tenant has a `.catch(() => null)` (line 79): when the
database fails there, the row is closed out like that of a tenant without an address, for good.
`ReadTenant` may close a row out at any time, so `AttemptsAreUsed` and `QueuedIsPosted` except
both.

### Refunds

One payment that succeeded. `made` is Stripe's refunds, each with every status it has had;
`row` the status in each refund's local row; `refunded` the payment's `amountRefunded`.
`task[t]` is a request or an event in progress, as in `Payments`.

| Actions | Code |
|---|---|
| `Create`, `CreateCall`, `CreateRefused`, `Insert` | `create` |
| `Cancel`, `CancelCall`, `CancelRefused`, `Save` | `cancel` |
| `SyncFromStripeRefund`, `Save` | `syncFromStripeRefund`, for an event with any status the refund has had |
| `RecalculateRefunded`, `SavePayment` | `recalculateRefunded` |
| `PaymentRead`, `SavePayment` | a handler or request of `Payments` that reads the payment and saves it later |
| `Abort` | any await throws, or the process dies; a lost answer of Stripe is this too |

`Refunds` meets `Payments` in the payment's row: what `Payments` writes there is its
business, but it writes the row whole, so it also writes back the total it read.
A payment loaded with its refunds and saved carries the list along: TypeORM takes a refund
missing from it as detached and clears its `paymentId`, which is `NOT NULL`, so the save
throws when a refund was recorded in between. (The handlers find the payment without its
refunds, and their saves go through.) The `Idempotency-Key` the endpoint documents is not
read, so a retry is one more `Create`. Refund notices to the platform are left out; their
delivery is `Outbound`.

### Payouts

`made` is Stripe's payouts, each with every status it has had and the key it was made for;
`row` the status in each payout's local row. A caller without an answer asks again with its
key, and Stripe answers a key it knows as it did the first time, with the status of then.

| Actions | Code |
|---|---|
| `Create`, `CreateCall`, `CreateRefused`, `Insert` | `create`; the insert of a payout on record throws (unique `stripePayoutId`) |
| `Cancel`, `CancelCall`, `Save` | `cancel`, which does not look at the local status |
| `SyncFromStripePayout` | a payout event with any status the payout has had; without a row it is dropped |
| `Abort` | any await throws, or the process dies |

Stripe's keys expire after a day, when a key asked for again would pay out anew. That is left
out: `OnePayoutPerKey` is about retries of a request, not about keys used again later.

### Customers

`made` is Stripe's customers, `owner` the table. `task[t]` is a `create` or an import; an
import holds the feed it read, the rows `todo`, and its counts. Each row is a look-up
(`ImportRow`), a call (`CreateCall`) and an insert (`Insert`), between which other requests
run. What fails inside the `try` is counted and the import goes on (`Throw`); the look-up
is outside it, so its error ends the import (`Abort`). Names and phones are left out.

### Invoices

`file` is what is on disk, `row` and `paid` the table. An upload writes the file and then
inserts; a removal unlinks, passing over a missing file and an unlink that fails, and then
deletes. `Attach` is the `attachToPayment` that ends a `create` of a payment, once per
payment. `PaymentRead` and `SavePayment` are any request of `Payments` that reads a payment
with its invoices and saves it. A removed row that an attach held in memory comes back
(`SaveInvoice`). What `create` rejects before it writes is left out. What the database rejects
after it is an `Abort`: `create` does not look for the payment an upload names, the foreign
key does, once the file is on disk. So a client that names no payment there is leaves an orphan
file each time; `OrphansAreFaults` counts it with the other failed steps.

### Accounts

`row[a]` is a tenant's or a user's row, with its credentials as numbers: `cred` is the API
key (its hash and its last four together) or the password, `secret` the webhook secret.
An update or a rotation (`Update`, `RotateApiKey`, `RotateWebhookSecret`, `UpdateSelf`) changes
a copy and saves it whole (`Save`). What was created or rotated is shown by a step of its own,
`Answer`, after the save; `RevealWebhookSecret` reads a row and answers with its secret.
`given[a]` is, for each of the two credentials, the one an answer showed last. An error or a
crash may come before the answer, and the answer may be lost: `Owed` is what is saved and not
yet answered, `lost` what was saved and never answered. `SeedTenant` is one round of
`onModuleInit`, in the order of the list (`SeedAt`), before any request; `Restart` boots again. Users are made by `bootstrap` alone (`createUser` has no other
caller): count, look-up and insert are `Bootstrap`, `LookupUser`, `InsertUser`. Roles, and
tenants' other columns, are left out.

### Reports

`payments` is the table, changed by `CreatePayment`, `SyncPayment` and `RefundPayment`. These
leave in its columns whatever `Payments` and `Refunds` can, which is more than one would
think: an amount received beside a status other than `succeeded`, and a refunded total above
what was received (below). `Unpaid` is the set of the statuses but `succeeded`, which
`Summary` counts one by one and the revenue leaves out. `QueryRows(y, n)` is the grouped query
of a year, `MonthlyRevenue` the fold of its rows into months, in every order the database may
return them; `Summary` the headline, which asks for no year. The months of one year therefore
do not add up to it: `MonthsAddUpToHeadline` takes the reports of all years together, and
compares amounts within a currency, since the headline adds up unlike ones. The property's own
sums are the reference.

## Runs

| Run | Specification | Expected | Shows |
|---|---|---|---|
| `payments` | `Spec` | pass | `NoPhantomOutcome`, `NoFalseNotice`, `RecordBeforeObject`, `SessionLinkKept` |
| `payments_sync` | `FairSpec` | pass | `EventuallyMirrors` |
| `payments_failed` | `Spec` | violation | `FailedIsNotCharged` |
| `refunds` | `Spec` | pass | `Implements` (of `StatusMirror`), `TotalIsOfRefunds`, `AgreesInTurn` |
| `refunds_total` | `Spec` | violation | `RefundedTotalAgrees` |
| `intake` | `FairSpec` | pass | `HandlerAtMostOnce`, `LostOnlyByFault`, `Implements` (of `WebhookDispatch`), `RetriesEnd` |
| `outbound` | `FairSpec` | pass | `DeliveredWasAcked`, `AttemptsAreUsed`, `EventuallySettled`, `QueuedIsPosted` |
| `payouts` | `Spec` | pass | `OnePayoutPerKey`, `Implements` (of `StatusMirror`), `KeyedIsRecorded` |
| `customers` | `Spec` | pass | `RepeatsAreSafe`, `ReportIsTrue`, `EveryEmailArrives` |
| `invoices` | `Spec` | pass | `FileBeforeRow`, `InTurnConsistent`, `OrphansAreFaults`, `RemovalCompletes` |
| `accounts` | `Spec` | pass | `CredentialsStay`, `OneSetup`, `BootCompletes` |
| `reports` | `ReportsSpec` | pass | `MonthsAreOfOneCurrency`, `MonthsAddUpToHeadline` |

Every passing run also checks `TypeOK` (in `Reports`, `ReportsTypeOK`), except `payments_sync`,
a second instance of the module of `payments`. In `Payouts`, `Customers`, `Invoices` and
`Accounts` the fairness is part of `Spec`.

Each violation is a sentence of the documentation or of a comment, quoted in
`PROJECT.json`, that the code does not meet:

- `payments_failed`: the answer of a charge is lost; the row is failed and sync-all skips
  it, so the charge stays untracked.
- `refunds_total`: a handler reads the payment, a refund is made, recorded and counted, and
  the handler's save puts the old total back. No fault is involved (`Faults = FALSE`), and the
  total stays wrong until the next refund changes. Stripe still refuses to refund too much.

### Known limits of the code, stated as conditions

Where the code keeps a promise only under a condition, the property states the condition,
and the rest is a divergence that needs no run to be seen:

- An event whose handler throws is lost: its id was recorded first, and the retry is taken
  for a duplicate. schema.sql:274-275 calls that exactly-once; `LostOnlyByFault` says
  what is true, that it takes a fault.
- sync-all takes the newest 200 rows that are neither canceled nor failed, paid ones
  included, so an older row in flight is never reconciled (payments.service.ts:377-406).
- When the event of an authorized PaymentIntent is handled before the session's, it finds no
  row; the session's then sets `processing`, and capture refuses the payment until somebody
  syncs it (INTEGRATION.md:54-55 promises `requires_capture`).
- The refund endpoint documents an `Idempotency-Key` (refunds.controller.ts:32) and does not
  read it: a retried refund is made again.
- Two overlapping attempts of one notice each count one on their own copy, and the platform
  can be posted to more often than the limit (INTEGRATION.md:122-123).
- `RepeatsAreSafe` needs imports of a platform not to overlap; two that do create an e-mail
  twice.
- The comment on a payment's `amountRefunded` says "Running total of succeeded refunds"
  (payment.entity.ts:119); `recalculateRefunded` counts the pending ones too
  (payments.service.ts:578-580). `AgreesInTurn` and `TotalIsOfRefunds` take the code's
  definition, which is the one the cap on new refunds needs: money on its way back must not be
  given back twice. The property by the comment's words is false as soon as Stripe makes a
  refund pending.
- `OneSetup` needs bootstraps not to overlap. The count, the look-up and the insert are three
  awaits, and only the e-mail is unique: two bootstraps with two e-mails that both count first
  make two administrators, where auth.service.ts:45-47 says "Only works while the users table is
  empty".
- `CredentialsStay` needs no rotation to overlap another request on the same account: a change
  of name that read the tenant before its key was rotated saves the whole row, the old key with
  it (tenants.service.ts:63-69), where line 72 says "invalidating the old one immediately". No
  fault is needed: the old key works again, and the one just shown does not. It also excepts what was saved and not answered: between the save of a
  rotated key and its answer, and for good if the answer is lost or the process dies there, the
  tenant has a key nobody was shown, and the one it was shown last is dead. The webhook secret can
  be revealed then, the key only be rotated again.
- The headline has no year and the months have one, so a console that shows both shows
  different payments (reports.service.ts:36 and 76-82). And the headline adds up the amounts of
  all currencies under the code of the first (lines 93-96), where lines 47-48 say "totals across
  currencies are never summed"; that holds of the months only.
- `InTurnConsistent` needs requests not to overlap: a payment saved with an old list detaches
  an invoice attached meanwhile. `FileBeforeRow` excepts invoices somebody asked to remove,
  which a fault after the unlink, or an attach that overlaps, leaves with a row alone; so it says
  nothing of a row such an attach brings back.
- `KeyedIsRecorded` is for callers with a key that ask again; a payout made without one can
  stay unrecorded for ever.

Four properties that look as natural do not hold and are not claimed. A settled row does
not stay settled: a stale save may put `processing` over `succeeded` until the next sync.
And the intent id may be lost again: a task that read the row before the id was known
writes null over it. (The session id cannot, which is `SessionLinkKept`: only `create` sets
it, and nothing can read the row as a checkout payment before that.) What a sync does about
both is `EventuallyMirrors`. An amount received does not mean that the row says `succeeded`: a
create that fails after its first save, or an unpaid session's event handled late, changes the
status only. The refunded total may exceed what was received: a refund that has failed counts
until its event is handled, and Stripe already accepts others in its place. Both take a few
steps only; `Reports` takes such rows in.

### Bounds, and why they are enough

- **payments**: one payment, two tasks. Rows do not interact except through sync-all's
  limit (which one payment cannot meet), and a stale copy needs one reader and one
  writer. `Total = 2` tells a partial capture from a full one. `MaxMoves = 2` lets the
  payer or the bank move an intent twice after it was created or paid, enough for
  action, then processing or failure, and for every order of the events about them.
  All three flows and all endpoints are on. About 1.6 million states.
- **payments_sync**: a checkout payment, the only kind that must be found through its
  session, with captures; cancels are left to `payments`. About 280 thousand states.
- **refunds**: two refunds of a payment of two units, so that both fit, or one takes all and
  the other is refused; two tasks. About 640 thousand states with task symmetry.
- **intake**: three posts of two events: two that race and one of another event. One
  repeated post of an acknowledged event, two faults.
- **outbound**: two deliveries, two workers (an attempt and a sweep, or two sweeps), a
  limit of two attempts, a longest wait of one minute, one crash. The theorems hold for
  every limit. `Counted` stops the count of posts just above the limit.
- **payouts**: two payouts, one key and requests without one, two tasks, one fault. The second
  payout is there for a retry to pay out wrongly, or for a request without a key. About
  180 thousand states.
- **customers**: feeds of up to two rows from an e-mail Stripe takes, one it refuses and a
  blank, so that a row may repeat and a refused one precede; two platforms (one with a
  feed, the other creating by hand), one key, two tasks, one failing step. `MaxCustomer = 2`
  is one more than a feed's e-mail needs; `EveryEmailArrives` counts an account that is full
  as excused, the others do not. About 520 thousand states.
- **invoices**: one invoice, two payments to move it between, three requests (a
  removal, an attach and a save of a payment can all overlap), one fault.
- **accounts**: three tenants, two of them seeds, so that a boot can die between the two; two
  users, so that one is updated while another is made; two e-mails to swap; two tasks; four
  credentials; one fault (an error, a lost answer or a reboot). About 1.2 million states. What
  takes a second fault or a fifth credential is left to the theorems.
- **reports**: three payments: two that share a month and one beside them, or all three in
  one; two years, months, platforms and currencies; amounts up to 1, which three payments add up
  to sums that tell them apart; one status beside `succeeded`, since the revenue treats them
  alike. The zero-fill has as many months as the instance. About 46 thousand tables up to
  symmetry, each with every order of the rows of each year. The theorems hold for all of these
  sizes.
- Task symmetry is used in `payments` and `refunds`, symmetry of payments, platforms,
  years and months in `reports`. None of these has liveness properties.

### Fairness

- `Payments!FairSpec`. An await is answered or fails (weak fairness of `Progress`). Sync-all is
  run again and again (it is meant for "after a webhook outage",
  `payments.controller.ts:54`), and not every sync of a payment is hit by a fault at the
  same step (strong fairness of its steps, per payment). No event need be delivered.
- `WebhookIntake!FairSpec`. A post being served goes on unless a fault ends it; Stripe posts
  again what was not acknowledged (strong, since a post needs a free slot). Faults are
  bounded.
- `Outbound!FairSpec`. A started attempt goes on, the interval fires, time passes. A post is
  cut off after ten seconds (`TIMEOUT_MS`), so no minute passes within an attempt
  (`TimelyTick`); a whole sweep may take many minutes. Safety is proved and checked without
  that timing (`Spec` lets time pass anywhere).
- `Payouts`, `Customers`, `Invoices`, `Accounts`: a request in progress goes on (weak
  fairness of `Continue`; a fault may end it instead, and faults are bounded). Callers try
  again: who sent a key to `POST /payouts` and has no answer asks again whenever there is
  room for its request; a feed that lists an e-mail is imported again and again; who wants
  an invoice removed asks again until it is not found. These are strong, because other
  requests may take the room in between. They are what the endpoints are documented for
  (retries with a key, an import "safe to run repeatedly"), not what the server does by
  itself. A boot goes on by itself (weak).

## Proofs

All theorems are of the form `Spec => []P`, `Spec => AbstractSpec` or, for an action
property, `Spec => [][A]_v`, and hold for every value of the constants allowed by the named
assumptions: any number of payments, tasks, posts, workers and faults, feeds of any length,
any amounts and limits. Every safety and action property of the passing runs is a theorem.

**Payments_proofs.** `Invariance` proves `IInv`, four parts. `StripeInv`: an intent that
succeeded or was canceled never moves again, and amounts agree with statuses. `RowInv`,
`TaskInv`, `ToldInv`: every row, every copy in memory, every event's snapshot and every
notice makes only claims that are true of the Stripe object. The properties speak of rows
and notices alone, which is not inductive: a false copy in memory would make a false row one step
later. The key fact is that claims are compared only with outcomes Stripe never
takes back (`Claim`, `Grows`): every step lets the object only grow, so what a stale copy
claims stays true however late it is saved. From it follow `TypeCorrect`, `NoPhantom`,
`NoticesAreTrue` and `RecordedFirst`. The action property `SessionLinkKept` has an
invariant of its own, `LinkInv`: a copy in memory never lacks the session id its row has.
That holds because one create at most works on a payment, everybody else comes to work on
a row only when it has a link already, and a row that got an intent id without a session
id belongs to a payment that never gets a session. From it `SessionStays`.

**WebhookIntake_proofs.** The invariant says that a post past its insert is the only one
for its event, that its event is recorded and not handled yet, and that whatever was
called, handled or acknowledged was recorded first. From it `AtMostOnce`, and `Refinement`:
the stage of an event is read off the table and the post that holds it (`Stage`); the
insert, the dispatch, the return and the two 200s map to the abstract steps, an error
or a crash to the loss of the events in hand, every other step to a stutter.

**Outbound_proofs.** The invariant says of every row and of every copy a worker holds that
the count suits the status, and that a copy marked delivered belongs to a delivery that
was acknowledged. Again copies must be in it, since a save makes them rows. From it
`TypeCorrect`, `DeliveredIsAcknowledged`, `GivesUpAtTheLimit`.

**Refunds_proofs.** The invariant says that the status in every refund's row, and every
status a request or an event holds in memory on its way to a row, is one the refund has had
at Stripe; the set of those only grows (`Grows`). From it `Refinement`: a move of Stripe
maps to `Reach`, a save to `Show`, the rest to stutters. The totals have an invariant of
their own, `SumInv`: the payment's total, and each total a request is about to save, is the
sum of some set of refunds on record; and while nothing has overlapped or failed, the one
request in progress is about to restore agreement, or there is none and it holds. The
argument needs little of the sum: that of no refunds it is 0 (`EmptySum`), and it depends
only on the amounts of the refunds in the set, which never change once made. From it
`TotalOfRecorded` and `RightInTurn`. `TypeCorrect` needs that a total is a natural number,
and the sum is a fold over a set, so this is a fact about all finite sets. The library's
induction theorems take a predicate as parameter, which the provers cannot instantiate;
`AllOfNat` and `AllSubsets` state induction for a *set* of numbers, or of subsets of a finite
set, instead, from a least member of its complement (`WFMin`). With them `FoldExists` builds a
function that gives the fold of every subset, whatever a step of the fold does, which makes
the CHOOSE in the fold's definition a choice among something. `SumExists`, `SumUnique` and
`SumIs` say so for sums, and `SumIsNat` follows.

**Reports, in Refunds_proofs.** The reports add such totals up, so their theorems stand on the
same lemmas and in the same module, which extends both; that is why the names of `Reports`
carry its own. It assumes a finite payments table, finitely many years and months and the default
currency among the currencies. The type invariant, with a platform, a year and a month for
every payment made, is inductive and enough, because the two properties are facts about data: they
compare a fold over a sequence of grouped rows with sums over sets of payments, for every
order of the sequence. The argument has three parts. `FoldFills`, by induction on how many rows were read: a month holds its last row, or the
zero-fill if it has none. `ListsAll`: an order of the rows lists every group, so a month in
which something was received does have a row; with the first, `MonthFigures` and `OneCurrency`.
For the headline, sums and cardinalities are measures: they give two disjoint sets together
what they give each (`SumIsMeasure`, `CardinalityIsMeasure`, `DifferenceIsMeasure`). By
induction on the sets of months, `MonthByMonth`, figures given month by month sum to the
measure of all the payments that some month counts. `MonthsSum` applies it to the months of all
years and to any set of payments to look at, all of them or those in a currency;
`CountOfMonths` and `NetOfMonths` follow. Without a month of two currencies the months count
everything that succeeded (`UnmixedCountsAll`); with one they count a proper subset, whose count
is less (`HeadlineAgrees`). From these
`ReportsTypeCorrect`, `MonthsOfOneCurrency` and `MonthsAndHeadline`.

**Payouts_proofs.** The invariant has the same part about rows and copies, and says that two
payouts made for one key are one and that the faults and answered keys keep their types. From it `TypeCorrect`, `OneForAKey` and
`Refinement`, the same abstract specification as for refunds.

**Invoices_proofs.** `FileBeforeRow` speaks of rows alone; a request writes a row later from
the invoice it holds. The invariant says the same of what requests hold: an upload about to
insert and an attach have an invoice whose file is there or whose removal was asked for,
and only removals are about to delete. From it `TypeCorrect` and `NoRowWithoutFile`. The
other two properties have a second invariant, `Ledger`. An upload between its file and its
row is the only request on its invoice. The files that no row leads to, and that no upload
is about to give one, and those of rows about to be deleted, are no more than the faults:
only an aborted step makes one of them stay. While nothing has overlapped or failed, the
one request in progress is about to restore agreement of files, rows and payments. From it
`OrphansCostFaults` and `ConsistentInTurn`.

**Customers_proofs.** `ReportIsTrue` speaks of an import at its end. The invariant says of
an import on its way what part of the feed it has dealt with (`Progress`), that the rows
among these whose e-mail the platform does not have are at most those it counts as failed
(`Missed`), and that what it counts as imported are customers it may claim (`Brought`).
Two requests may name one customer, so both are cardinalities, and both only improve when
others record customers. From it `TypeCorrect` and `ReportsAreTrue`. `RepeatsAreSafe`
speaks of the table only, and a check followed by an insert is not inductive; `Turns` adds
that, as long as imports of a platform have not overlapped, there is one of them, and what
it has looked up and not found is still not on record. Customers created by hand may come
in between. From it `RepeatsRecordOnce`.

**Accounts_proofs.** `CredentialsStay` depends on the copies updates save whole, so the
invariant says that on an account no rotation has raced on, a copy has the row's credentials
but for the one its rotation is about to save (`Current`), and that a rotation there is alone
(`Alone`). A request that saves a new credential owes its answer from that step on, and it goes
from owed to shown or to lost, so no excuse is dropped (`StayOK`, `OwedKept`). Users are
numbered without gaps, so an insert writes over nobody; and while no two bootstraps have
overlapped, one is in progress only before there is a user or about to answer, and there is at
most user 1. From it `TypeCorrect`, `CredentialsLast` and `OneSetupOnly`.

**Only model-checked**: the liveness properties (`EventuallyMirrors`, `RetriesEnd`,
`EventuallySettled`, `QueuedIsPosted`, `KeyedIsRecorded`, `EveryEmailArrives`,
`RemovalCompletes`, `BootCompletes`), which rest on fairness and are out of the prover's
reach.

## Not modelled

- **customer sources**: create, update and delete of single rows, which promise no more than
  the last save; an import reads one, and `Customers` takes its feed from there.
- **setup intents and stored payment methods** (`customers.service.ts:56-138`): calls to
  Stripe that change no local state.
- **idempotency keys of payments**: a retried `create` inserts a second row and sends the
  same key with other metadata, which Stripe refuses. `Payments` has one row per payment.
- Signature verification, password hashing, tokens and key look-up (cryptography), the list
  endpoints, the live detail and the download (they only read), DTO validation, and the
  application shell.

## Plan

1. *(done)* `StripeObjects` and `Payments`; `WebhookIntake` over `WebhookDispatch`; `Outbound`; their
   type and safety invariants proved, the refinement of the dispatcher proved.
2. *(done)* `Refunds` with `recalculateRefunded`; `Payouts`; both implement `StatusMirror`,
   proved.
3. *(done)* `Customers`, `Invoices`, `Accounts`, `Reports`.
4. *(done)* The safety of `Invoices`, `Accounts` and `Customers`, `SessionLinkKept`, the
   types of `Refunds` and the figures of `Reports` proved.
5. Idempotency keys in `Payments`: a retried `create`.
