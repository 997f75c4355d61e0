# Verification of backendformobileapp

TLA+ models, TLC runs and TLAPS proofs for the FastAPI backend in `src/`. The backend sells eSIMs and
top-ups: customers pay through FIB (First Iraqi Bank), the backend buys from the eSIM Access provider, and
everything is recorded in a Postgres database. The models are about what is hard to test there: requests,
webhooks, cron sweeps and admins working on the same rows with provider calls in between, answers that are
late, lost or repeated, and processes that end half way.

Contents: [the system](#the-system) · [modules](#modules) · [runs](#runs) ·
[what disagrees with the code's own words](#disagreements) · [proofs](#proofs) ·
[only model-checked, not modelled](#limits) · [plan](#plan)

## The system

One Python process (several replicas are possible) with synchronous SQLAlchemy sessions in worker threads
and asynchronous HTTP clients. Sessions are closed before each call to a provider, so **every provider call
separates two database transactions** and any other handler may run in between. No handler keeps state
across requests, except caches and the in-memory rate limiter; rows and the `custom_fields` /
`metadata` JSON in them are the state.

| Component | State | Operations | Talks to | Hard because |
|---|---|---|---|---|
| FIB payment attempts (`fib_payment_api.py`, `supabase_store.py`) | `payment_attempts`, `payment_provider_events` | checkout, status webhook, poll, confirm | FIB; read by fulfilment | FIB is called between check and insert; callbacks repeat and are overtaken |
| Fulfilment (`esim_access_api.py`, cron in `admin.py`) | claims, `topupApplied` and order link of an attempt; `customer_orders`, `order_items` | `POST /orders/managed`, `POST /topups/managed`, recovery sweep | FIB, eSIM provider, attempts | paid once, bought once, delivered in the end, across crashes and lost answers |
| eSIM profile lifecycle (`supabase_store.py`, `esim_access_api.py`, `admin.py`) | `esim_profiles`, mirrored `order_items.item_status` and `customer_orders.order_status` | notices, status and usage syncs, install, managed actions, refund | eSIM provider | several late sources of truth for one status |
| Managed order records and pricing (`supabase_store.py`) | order rows, snapshots, rates, rules, discounts | `save_managed_order`, quotes | fulfilment | the price is computed twice, while its configuration changes |
| Admin configuration (`supabase_store.py`, `admin.py`) | pricing, discount, exchange and featured rows, with windows of validity | save | pricing, caches | one active row per key, without a constraint; scheduled successors |
| Featured-location cache (`admin.py`) | the copy of a public page, per process | read, refill, drop | admin configuration | reads that overlap an edit; outages of the database |
| eSIM provider client (`esim_access_api.py`) | rate limiter, caches of packages and locations | signed HTTP | provider | slots reserved under a lock and slept for outside it; misses that overtake each other |
| FIB client (`fib_payment_api.py`) | token, rate limiter | authorised HTTP | FIB | sleeps under a lock, and a token fetched under another; retry after 401 |
| Usage sync and broken-placeholder recovery (`esim_access_api.py`, `admin.py`) | a lock per process, batches, used-data counters | worker, cron, user and admin syncs | lifecycle | batches that fail, handlers that write without the lock |
| Accounts and sessions (`auth.py`, `users.py`, `supabase_store.py`) | `app_users`, `admin_users`, signed tokens | signup, login, reset, self-service, admin edits, `ensure_user` | OTP, orders | read then write over two tables; stateless tokens; orders write the account back |
| Phone verification (`verifyway.py`) | none: signed challenges and proofs | send, verify | accounts, limiter | codes outlive the process that counts their tries |
| Rate limiting (`rate_limit.py`) | in-memory windows | `enforce_rate_limit` | accounts, OTP | clocks read before the lock; sweep of old buckets |
| Push notifications (`push_notification.py`, `supabase_store.py`) | `push_devices`, `push_notifications` | register, unregister, campaigns, purges | FCM | devices that change hands during a campaign; sent before recorded |
| Travelers, application shell, version info, flight proxy, migrations, scripts | little or none | – | – | – |

How the core interacts:

```
 customer ──checkout──▶ backend ──create──▶ FIB ──callback / poll──▶ payment_attempts (paid, refunded)
                                                                      │
 app ──orders|topups/managed──▶ verify ─▶ FIB ─▶ claim ─▶ eSIM call ─▶ persist ──▶ order item, profile
 cron ──sweep──────────────────▶   (the same steps)                                        │
 eSIM provider ──notices──┐                                                                ▼
 cron, users, admins ─────┴── queries, usage, install, cancel, refund ─────────▶ profile, item status
```

What makes each component correct, in a sentence: a payment FIB reports as paid gets exactly one row per
transaction and follows FIB; a paid and correctly priced payment buys one thing, is recorded only for what
was bought, and is delivered in the end although nobody comes back; a profile is called active or ended only
when it is, and an order shows as many cards as it has eSIMs. Around this core: a session does not outlive
its account by more than a token's lifetime, and an account changes only by who may change it; a code is
tried a bounded number of times; a campaign reaches whom it was asked to and counts what it reached; the
price shown is the price charged; clients end every call and execute it once; caches serve what is recent;
usage is not turned back.

`PROJECT.json` lists every component, the hazards at their lines and the properties that cover them.

## Modules

| Module | What it is |
|---|---|
| `PaymentLedger` | abstract: rows never run ahead of FIB, only paid becomes refunded |
| `SingleUsePayment` | abstract: a payment is reserved for one purchase, which alone is executed, and a failed call lets in at most one more |
| `PaymentAttempts` | checkout, webhook, poll and confirm; implements `PaymentLedger` |
| `Fulfilment` | managed orders, top-ups, both finalizers and the sweep; its environment moves rows as `PaymentLedger` allows |
| `FulfilmentHistory` | `Fulfilment` with a history of the provider calls that failed; implements `SingleUsePayment` |
| `ESimLifecycle` | one profile, its item, and everything that reads and writes their status, without locks |
| `ProfileRows` | how an order gets its order item, and each of its eSIMs a row |
| `Accounts` | the rows of customers and administrators, sessions, proofs, and who changes what |
| `PhoneVerification` | the sliding-window limiter of one process, and the codes it guards |
| `PushNotifications` | devices, audiences and campaigns |
| `Catalogue` | rates, rules and discounts, the price they amount to, and a purchase while they change |
| `PublicCaches` | the copy of the featured locations, served while the database is away |
| `FibClient` | the token, the limiter and the retry of the FIB client |
| `ESimClient` | the slots and the caches of the eSIM client |
| `UsageSync` | the handlers that copy data counters, with and without the lock |
| `MC…` | constants for TLC, and the composition of modules that one run checks |
| `…Proofs` | theorems checked by TLAPS |

Definitions named `…Never`, `…Unchecked`, `…Blind` and the like, marked "Mutant", are plausible bugs; no
specification uses them. They show that each property can fail.

### PaymentAttempts

A step is a FIB call or a stretch of a transaction. `markers` and `context` are the two
`payment_provider_events` rows a checkout commits (`checkout_tx:…`, `checkout_payment:…`), `row` is
`payment_attempts.status` (a row exists only once FIB said paid or refunded), `processed` are the callback
events. `CheckoutReads`, `FibCreates`/`CreateFails`, `PersistContext`, `Answer` are
`_create_checkout_attempt` around its awaits; `WebhookReads` is the part of `receive_webhook` that finds
the row locked, or finds none and goes on to `Insert`, where the unique constraints on transaction and
payment decide; `PollAnswered`, `PollReads` are the poll before and after its await; `Transition` is
`apply_payment_status_transition`. `Restart` ends any set of handlers.

Taken as given: FIB's callback carries only the payment and its status, so the webhook's search by a
transaction hint has nothing to find; the two lookups of the webhook are one step; the references in polls
and confirmations match. Attempts without a checkout context (created by the admin routes) and loyalty
payments, which never involve FIB, are left out.

### Fulfilment

`Payments` are the attempts with a checkout; `Intent` is the purchase in its metadata, `Uses` what clients
submit. `orderClaim`, `topupClaim`, `applied`, `bound` are the JSON claims, `topupApplied` and the
link to the order; `orders` are the saved order items; `spent` is what the provider executed for a payment
(a set: the provider dedupes by transaction id, see the comment at `esim_access_api.py:1775`). Each handler
has a `pc`:

| Step | Code |
|---|---|
| `Request`, `Sweep`, `SweepNext` | the endpoint; `_candidates` of the sweep (oldest first, `Limit`); `_load` of both finalizers |
| `Verify` | the first transaction of `_verify_fib_payment_for_managed_order` / `…_topup` (row, quote, guard) |
| `FibConfirms`, `FibFails` | the call to FIB and the checks of its answer |
| `ClaimOrder`, `ClaimTopup` | the guard again on the locked row, and the claim |
| `CallSucceeds`, `CallRejected`, `CallLost` | the provider call; a lost answer is one the provider executed |
| `Release…Claim`, `ReleaseFails` | dropping the claim after a failed call, best effort |
| `ClientPersistsOrder`, `FinalizerPersistsOrder`, `PersistCollides`, `PersistFails` | `save_managed_order` and the link, with the unique constraint of the order item and database errors |
| `ClientAnswersTopup`, `MarkApplied` | the end of a top-up: only the finalizer records it |
| `Restart(H)` | a process ends with the handlers it runs |

`paidAt` keeps the order in which rows became paid, which the sweep sorts by; `aged` is the grace window.
`Priced` stands for the comparison of FIB's amount with the server's quote, and for the eligibility of a
top-up (ownership of the profile, re-quote). A claim transaction that fails is a handler that ends before
it claimed.

`FulfilmentHistory` adds `failures`, how many provider calls of each payment failed so far. It is a history
variable: no step reads it, and every behaviour of `Fulfilment` has exactly one history. With it the promise
that a payment buys one thing can be stated as the code keeps it. `SingleUsePayment` reserves a payment for one
purchase, and only that is executed; after a failed call of the payment the reservation may be withdrawn, and
another purchase may be executed, at most one for each failure (`SpendsWithinFailures`).

### ESimLifecycle

`prov` is the provider's profile, `inbox` its notices on the way, `pending` the managed action the provider
executed and the backend has still to apply. `profile` is the row: `app` is `app_status`; `smdp` is
`provider_status`; `esim` and `evidence` are `providerEsimStatus` and `providerInstallEvidence` in
`custom_fields`; `stamps` are `canceled_at`, `revoked_at`, `refunded_at`. `item` is `item_status`;
`order_status` is always written with it.

None of the handlers locks what it reads. It loads profile and item, resolves, and commits later, and
SQLAlchemy writes the columns alone that differ from what was loaded; `custom_fields` is one column, written
whole or not at all. So each handler is two steps. The first reads and decides (`Writes`), which leaves in
`change[h]` the columns it will write; `Commit` writes them into the row as it is by then. Between the two
any other handler may read or commit, and two handlers may each write one of the two rows.

| Step | Code |
|---|---|
| `CronQueries`, `UserQueries`, then `SyncResolves` | a query, whose answer waits in `answer[h]`, and `sync_profiles` up to its commit |
| `ResyncReads`, `ResyncAnswered` | the resync of an administrator, whose session holds the profile (`seen[h]`) it loaded before the query |
| `SyncUsage` | `sync_usage_records`, which resolves from the stored `esimStatus` |
| `NoticeReads`, `OrderNoticeReads` | `record_webhook` up to its commit; the notice stays in `inbox` until then, so a second delivery may overlap |
| `Install`, `ApplyManaged`, `Refund` | `apply_profile_action` up to its commit |
| `Commit` | the `commit` of each of them |

`Resolve`, `Activated`, `StampedTerminal` are `_resolve_profile_app_status`, `_apply_active_side_effects`,
`_apply_terminal_side_effects`, and `Synced`, `Noticed`, `Reassess`, `Managed` are composed of them as in
the code. The spellings of one status (`ONBOARD`, `ONBOARDING`, `IN_USE`, …) are represented by one of each
class. Taken together are the `SELECT`s of one transaction, which load the profile and its item, and those of
a notice and of the `notifyId` it looks up. The row is found (iccid known; how it comes to be is
`ProfileRows`); data counters and `expires_at`, which is written with the activation, are left out.

Profile and item need *not* agree: a refund that commits between the read and the commit of a sync leaves the
item `REFUNDED` beside a live profile. `EndedItemIsTrue` says what does hold of the item, and
`ActiveComesIntoStep` that cron repairs an `ACTIVE` profile.

### ProfileRows

`placed` and `allocated` are the provider's orders and eSIMs; `saved` is the order item (`"stray"` when
`sync_profiles` stored it, without a customer), `cards` are the rows of `esim_profiles`: their order, their
eSIM (`Missing` in a placeholder) and whether they have the order's customer. A save is `SaveReads` and
`SaveCommits` (`save_managed_order` with `ensure_profile_placeholder_for_order_item`), a query is one of
`OrderAsks`, `UserRecovers`, `AdminResyncs`, `AdminAsks`, `CronRecovers` and `CronRefreshes`, and what follows
is `SyncReads` and `SyncCommits` (`sync_profiles`), which roll back on the unique order and eSIM columns.
`Shown` is `list_profiles_for_user`. An answer is taken to name its order and transaction, and to fit a page
(the pager asks for 50 entries). The resync of a row by an administrator asks for the *latest* order of the
customer: `getattr(profile, "provider_order_no")` (`admin.py:796`) names a column the row does not have.

What `OrdersKeepTheirCards` has to admit: an eSIM loses its row when two overlapping syncs with different
answers fill one placeholder, and of an order that a sync stored before its own request did, only one row is
handed over to the customer.

### Accounts

`row[t][p]` is the row of a phone in `app_users` or `admin_users`, by its `status`, `blocked_at`,
`deleted_at` and e-mail; `session` and `proof` count the ticks that the last token of a row and the last proof
of a phone have left, and `quiet` those a row has been out of use. Handlers that read a row, wait and write
hold what they read in `work`: signup, the edits of one's own profile, and an order, which passes the account
as it was to `ensure_user` after the round trips to FIB and the eSIM provider. `ensure_user` overwrites
`status`, `blocked_at` and `deleted_at`: an order revives an account that was ended meanwhile, which
`AccountsChangeInTurn` admits and bounds.

### PhoneVerification

A login is `waiting` between reading the clock and taking the limiter's lock, so buckets fill out of order;
the code endpoints run on the event loop. `Restart` forgets the windows; codes stay valid. `MaxDelay` bounds
the wait for the lock; without a bound no window could be promised, and `AtMostLimitPerWindow` is stated for
the window shortened by it (not for the codes, which do not wait).

### PushNotifications

`device` are the rows of the tokens, `writing` what registrations and unregistrations read, `campaign` the
one being sent, `record` its committed row, `reached` the devices that did get it. A second insert of one
token fails with 500; the check constraint `ck_push_devices_has_owner` keeps a row from losing both owners.
An audience that matches nobody addresses *every* customer's device, also of those who opted out
(`supabase_store.py:2057`); a campaign that ends with an error counts 0 although batches were delivered.
`CampaignsAreHonest` names the first as its exception and bounds the counts from above for the second.

### Catalogue

`rows` are the rows of the three configuration tables (at first at most one active row per key, as the
migrations leave them), `saving` what each editor has flushed or read and not committed. A `key` is what the
`key_fields` of the saves hold: of a rule its scope, with the code it names; what it `applies_to`; and in `rest`
the currency and the codes its scope does not name, none of which a price looks at. So two discounts of one
scope, one of the total and one of the cost, are different keys, and both may be in force; the later one wins.
`Quote` is the computation with the rules in memory, `OrderTotal` the one of `save_managed_order`,
`GlobalMarkup` the third one. The purchase is quoted, paid, verified against the price of the moment and
recorded; `GateHolds` says of a purchase whose price was changed meanwhile that it is bought only if it would be
recorded at the price that was paid. The three table reads of a quote are one step. A successor scheduled for
later ends the present value at once; `KeysKeepOneValue` names it among the ways a key loses its value.

### PublicCaches, FibClient, ESimClient, UsageSync

`PublicCaches`: contents are numbered by the edits so far; a reader that read before an edit may fill the
dropped copy again, so a copy carries when the request that filled it began (`began`) beside what it read.
`AnsweredEditsAreShown` then says that whoever asks after an answered edit sees that edit, or a copy filled
since by a request that had begun before it.
`FibClient`: queues of the two locks, relative time, tokens by the order they were issued in.
`ESimClient`: callers sleep for a reserved slot outside the lock; the two caches (`packages`, `locations`)
each keep their entries in the order they were stored. `UsageSync`: runs of the four kinds, over two processes
with a lock each; a run (`Runs`) holds its list, its batch and the answer, a map from eSIMs to counters
(`Reports`). Recovery, refresh and other processes write counters read before newer ones were stored, so usage
may go back; under one lock it does not (`SyncsKeepUsage`). The writers without the lock stand for all others
that store a profile's usage (polls and resyncs of profiles through `sync_profiles`). A record that holds no
counter, for which `sync_usage_records` stores `None` (`supabase_store.py:3300`), is left out: the provider's
records are taken to have one.

## Runs

Each question is one run; the properties are listed in the cfg and explained above their definitions.

| Run | Instance | Shows |
|---|---|---|
| `faults` | 2 payments, one contended by two orders and a top-up and one unpriced, 2 clients, 1 sweep, all faults, 2 of them | claims exclude each other; only confirmed and priced payments spend; a payment buys at most one thing more than its calls failed; deliveries were bought; links are final; the steps implement `SingleUsePayment` |
| `recovery` | an order and a top-up payment, 1 client, 1 sweep, 2 faults of any kind, fairness | paid orders are delivered; paid top-ups too, or a claim was left behind |
| `races` | 2 payments of 1 transaction, 2 checkouts, 1 webhook, 1 poll, 1 restart, fairness | acknowledged callbacks are recorded, rows are unique, follow FIB, and appear in the end |
| `statuses` | `ESimLifecycle` in three parts, `queries`, `notices`, `actions`: cron and 1 other handler that overlaps it, the notice of the allocation and one more, fairness | installed, stamped and true statuses, ends of items that did happen, and cron brings an `ACTIVE` profile into step |
| `accounts` | `Accounts`: 1 phone in both tables, 1 overlapping handler. `PhoneVerification`: 2 threads, 1 code, 1 restart, 3 ticks. `PushNotifications`: 2 tokens, 1 customer, 1 administrator, 1 writer | sessions end with their account and accounts change only by who may; windows, tries and proofs are bounded; campaigns address and count what they should, and devices follow their owner |
| `providers` | `Catalogue`: 4 rows, 2 editors, 1 purchase. `PublicCaches`: 2 requests, 2 edits. `FibClient`: 2 calls, 4 tokens. `ESimClient`: 2 callers, 2 queries. `UsageSync`: 2 handlers, 2 processes | keys keep one value, and what is shown is charged; answered edits are shown; calls are sound; slots and caches are used as meant; syncs keep the usage |
| `waiting` | `ProfileRows`: an order of 2 eSIMs, 2 saves, cron and another query, 1 failure. `FibClient`: 2 calls. `UsageSync`: 2 handlers, 2 processes. Fairness | no duplicate cards, rows are lost to overlapping partial answers only, and placeholders are filled; every call ends, and syncs get their lock |
| `rejected_rival`, `crashed_topup`, `full_window`, `unrecorded`, `revived` | the smallest instance of the case | a statement of the repository that the code does not keep (next section) |

`accounts`, `providers` and `waiting` check several components that share no state: a variable `part`, chosen by the first state, says
which of them moves, and the others stand still, so the run visits the sum of their states and not the
product. A component that stands still satisfies its properties in its initial state, and its fairness asks
for nothing there. `statuses` has a `part` too: there it chooses the kind of trouble, of one component. `FibClient` and `UsageSync` are in two runs: the safety of all their steps is checked in `providers`,
and that nobody waits for ever, under fairness, in `waiting`. In these runs a property may be the conjunction of a few named ones that belong together
(`CallsAreSound`, `AccountsChangeInTurn`, …); each part has its own comment and its own mutant.

Bounds, and why they are enough:

* *Handlers.* Two clients and a sweep give every pair of order, top-up and finalizer on one payment; a
  third handler adds no new pair of steps, and the safety theorems below hold for any number.
* *Payments.* Claims and links are per payment; a second payment matters for the order item they may share
  (`DeliveryIsBought`), for the sweep's window, and for the transaction two checkouts share. `MintAssumption`:
  the app mints a transaction id for one checkout.
* *Faults.* `MaxFaults = 2` allows a failure and a failure of its repair (a lost call and a failed release, a
  crash and an overtaking rival). FIB's refunds are in `recovery` and `races`; `faults` leaves them out
  (`Refundable = {}`), as none of its properties is about them and the theorems hold with them. `MaxRestarts = 1` ends any set of handlers of the attempts at once.
* *Statuses.* One cron refresh and one other handler: every pair of a query and another handler, or two
  commits of a pair in either order. The parts split what else may happen. `queries`: late answers, resyncs and
  refunds, and profiles the provider cancels; `notices`: notices beside installations, usage syncs and the
  refresh, and profiles that are used up; `actions`: managed actions. The notice of the allocation, usage syncs
  and installations are in each. `MaxNotices = 1`: any one change is announced, and the others are missed; the
  notice may stay in the inbox for ever. `Downloads = {"DELETED"}` in `statuses` is the healthy post-install
  answer that must not be read as an end; `revived` adds `ENABLED`. All at once, any number of handlers and any
  number of notices are what the proofs are about.
* *Rows of an order.* Two eSIMs are the least that leave one without a placeholder; rows of different orders
  never meet, as an answer concerns one order. Two saves race for the item, cron and one other query for the
  placeholder, and one failure may end any of them.
* *Accounts.* One phone in both tables lets a customer and an administrator compete for an e-mail; phones meet
  nowhere else. `SessionTTL = 2` separates a token that was renewed from one that was not.
* *Limiter.* `SweepEvery` and `Horizon` are small, so the sweep runs between two events; `MaxDelay = 1` puts
  events out of order.
* *Catalogue.* The drafts hold each kind of value and of window, and two discounts of one scope that differ in
  what they apply to; four rows are the configured two and two saves that overlap. `Cost` and `Step` make roundings differ where the two computations could.
* *Clients.* The FIB client has 2 calls, which need at most 4 tokens. That no token is sent after its expiry
  needs `Margin` to be at least the number of calls times the limiter's interval: the code's 10 s at 8 calls a
  second cover 80 waiting calls. `Ttl = 2` and `MaxLag = 1` let an answer arrive after another one was stored
  and before it expires.
* *Usage.* `BatchSize = 1` splits every list; one eSIM counts and the other does not. In `waiting` no counter
  moves, since nobody waits for one.
* *Symmetry* is used in safety runs only: of the two clients in `faults`, of threads and of
  device tokens in `accounts`.
* `rejected_rival` and the like are violation runs: TLC stops at the counterexample.

Deadlock checking is on in the runs of `Fulfilment`, `PaymentAttempts` and `ESimLifecycle`: the sweep, a repeated
checkout and a query can always begin. It is off in `accounts`, `providers` and `waiting`, where bounded parts come
to their end (all calls are answered, all ticks have passed, all rows are there); that nobody waits for ever is a
property there (`NobodyWaitsForEver`).

Fairness. Handlers run on once begun, because nothing in the code waits for ever: clients have timeouts and
locks are row locks of short transactions (`WF`). Cron starts sweeps and refreshes for ever
(`.github/workflows/finalize-unprovisioned-orders.yml`, `refresh-esim-usage.yml`; `WF`), and the grace
window passes (`WF`). What a refresh was answered is resolved and committed, unless the process ends every
time (`SF` of its `SyncResolves` and `Commit`). FIB repeats a callback until it is answered 202, and an answer is applied unless the
process ends every time, so these are `SF`: restarts may interrupt them again and again, not always. Nobody
has to pay, to check out, to poll, to install or to act as an admin; no eSIM notice has to arrive; the usage
worker is off by default and is not relied on. The refresh of cron asks for every order it loaded, between its
other queries (`SF` of `CronRecovers`). In the clients time passes and `httpx` gives up on a call after its
timeout, so a call under way and a handler that holds or is handed a lock go on (`WF`).

<a name="disagreements"></a>
## Where the code disagrees with its own words

Five runs expect a violation; each finding quotes the line it contradicts.

1. `rejected_rival`: a claim names a transaction, not a handler. A client and the sweep that work on the same
   transaction share it, and the one whose call is refused drops it while the other's call is under way; a
   rival purchase of the payment may then claim and be executed too.
2. `crashed_topup`: the finalizer of top-ups skips an attempt that holds any `topupClaim`, so a process that
   ends between claim and call leaves a paid top-up nobody delivers. `PaidTopupDeliveredOrOrphaned` is what
   does hold.
3. `full_window`: a delivered top-up never gets a `customer_order_id`, stays a candidate of the sweep for
   ever, and `limit` of them fill the oldest-first window.
4. `unrecorded`: two concurrent checkouts of one transaction answer two payable payments. The second one
   that is paid violates the unique transaction at flush, at every delivery of its callback.
   `TransactionIsRecorded` is what does hold.
5. `revived`: the usage sync hands the *stored* `esimStatus` to the resolver, where it overrides a terminal
   status as only a fresh answer should: a refunded profile comes back.

More divergences are in the models without a run of their own. Item and profile part, against "mirrors profile
app_status" (`docs/DATABASE.md:213`): a late allocation notice writes `item_status` to `INACTIVE` although the
profile has ended; a sync that read before a refund and commits after it leaves the item `REFUNDED` over a live
profile; an installation that read before a `CANCEL` notice committed writes `ACTIVE` beside the stored
`CANCEL`.
The cron refresh's second test compares `provider_status`, which holds the `smdpStatus`, with `esimStatus`
values, so a profile whose first-connection notice was missed is not loaded. The resync of a profile "looks up
the parent order_item's provider_order_no" (`admin.py:782`) and in fact takes the customer's latest order.

## Proofs

For every value of the constants, checked by TLAPS. Every safety property of a passing run, invariant or
action property, is the statement of one of these theorems.

| Theorem | Assumes | Inductive invariant |
|---|---|---|
| `FulfilmentProofs!TypeCorrect`, `ClaimsAreExclusive` | – | `TypeOK`, `ClaimsExclusive` |
| `FulfilmentProofs!OneSpendUnlessItsCallFails` | no call for *that* payment is refused or lost (a hypothesis on the behaviour) | `Reservation` of the payment |
| `FulfilmentProofs!OneSpend` | the provider refuses and loses nothing (`Faults ∩ {"reject", "lost"} = {}`) | from the former |
| `FulfilmentProofs!SpendsAreBounded` | – | `BalanceInv`, `BoughtInv` |
| `FulfilmentProofs!Refinement` | – | `ReservationInv`, with the bound of the former |
| `FulfilmentProofs!SpendsArePaidFor` | – | `GateInv` |
| `FulfilmentProofs!DeliveriesAreBought`, `LinksAreFinal` | – | `BoughtInv` |
| `PaymentAttemptsProofs!TypeCorrect`, `AcceptedAreRecorded`, `RowsAreUnique`, `Refinement` | – | `ContextInv`, `RecordInv` |
| `PaymentAttemptsProofs!NothingIsForgotten` | – | the same, with `SentInv` |
| `ESimLifecycleProofs!TypeCorrect`, `ActiveInstalled`, `TerminalsAreStamped`, `TerminalsAreTrue`, `EndedItemsAreTrue` | – | `IInv`: `TypeOK`, `ActiveInv`, `StampInv`, `TrueInv`, `ItemInv` |
| `ESimLifecycleProofs!RowsTypeCorrect`, `RowsKept` | – | `RowsInvs`: `RowsTyped`, `CardsInv`, `TasksInv`, `CardsBelongToCustomer` |
| `AccountsProofs!AccountsTypeCorrect`, `SessionsEnd`, `AccountsInTurn` | – | `AccountsTypeOK`, `SessionInv`, `WorkInv` |
| `PhoneVerificationProofs!VerificationTypeCorrect`, `LimitHolds` | – | `LimiterInv`: `WaitInv`, `RestartInv`, `AllAligned` |
| `PhoneVerificationProofs!CodesProve` | – | `LimiterInv`, `InForce`, `Capped`, `Counted`, `ProofInv` |
| `PushNotificationsProofs!PushTypeCorrect`, `DevicesHaveOwners`, `CampaignsHonest` | – | `Idle`, `HeldInv`, `CampaignInv` |
| `CatalogueProofs!CatalogueTypeCorrect`, `KeysKeepOne`, `ShownCharged` | – | `RowsInv`, `SavingInv`, `PurchaseInv` |
| `ProvidersProofs!CachesTypeCorrect`, `EditsAreShown` | – | `PagesInv`, `CopiesInv` |
| `ProvidersProofs!SyncTypeCorrect`, `SyncsKeep` | – | `CountersInv`, `LockInv`, `WritesInv` |
| `ProvidersProofs!FibTypeCorrect`, `CallsExecuteOnce` | – | `QueueInv`, `TokensInv`, `CallsInv` |
| `ProvidersProofs!CallsSound` | `Slack`: no more calls at once than the margin has ticks, and tokens live longer than the margin | the same, with `LivesInv` |
| `ProvidersProofs!ClientTypeCorrect`, `LimiterUsesSlots`, `CachesRecent` | – | `PendingInv`, `SlotsInv`, `EntriesInv`, `OverlapInv` |
| `PushNotificationsProofs!PartsTypeCorrect`, `ProvidersProofs!PartsTypeCorrect` | – | the type invariants of the parts that one run composes |

Every theorem also uses the named assumptions of its module, which say of the constants that handlers are
disjoint, sentinels are no values, transactions are minted for one checkout, bounds are numbers, and the sets
that are counted are finite (eSIMs of an order, callers, eSIMs of a sync). `DraftAssumption` is the one that
speaks of data: at first, a key has at most one active row. `Slack` is what the code's numbers amount to: the
margin of 10 s at 8 calls a second covers 80 calls that wait at once.

Why the strengthenings are needed:

* `Reservation(p)`: one spend per payment is not inductive, because a handler at `call` is about to spend. It
  adds that what is being bought and what was bought with the payment is claimed, and that nothing is released.
  A failed call of the payment makes it false, which is the case `rejected_rival` shows; faults of other payments,
  restarts and database errors do not. `ReservationInv` says it of the payments without a failed call.
* `BalanceInv`: how wrong it can go with failed calls. It counts what was bought, is claimed or is about to be
  bought, and the handlers that may still drop a claim: together at most the failed calls of the payment, and one
  more while a claim is held. A new purchase enters only an unclaimed payment, and only a handler whose call
  failed leaves one unclaimed.
* The refinement maps `reserved` to the claim and `executed` to `spent`. A claim is `Reserve`, a released claim
  `Withdraw`, a provider call `Execute` or `Fail`; `ReservationInv` says that the executed purchase is the reserved
  one, `BalanceInv` that the bound of `SingleUsePayment` is kept.
* `GateInv`: the row's status, FIB's confirmation and the price are checked in steps before the spend; it
  says they cannot be undone in between.
* `BoughtInv`: a handler at `persist` has bought what it saves, and purchases belong to one checkout; this
  survives released claims, so deliveries and links need no claim.
* `ContextInv`, `RecordInv`: whatever customers can pay has a committed context, and whatever is on its way to
  a row is known at FIB; so an accepted callback finds what it needs. `NothingIsForgotten` is the safety half of
  `TransactionIsRecorded`: what FIB charged or refunded is in the payment's row, or its callback was not accepted
  and will come again.
* `ActiveInv`, `StampInv`, `TrueInv`, `ItemInv`: each says of what handlers have read or will still commit what
  the property says of the rows, and why it stays true until the commit. `ActiveInv`: whoever will write
  `ACTIVE` finds the installation and the activation in the row, or writes them with it; both are never taken
  back. `StampInv`: the usage sync and the install action resolve a terminal status without stamping it, so a
  *stored* terminal `esimStatus` must have been stamped when it was stored, or be with the same commit.
  `TrueInv`: every notice, every answer in flight, the stored `esimStatus`, the managed action in flight and
  every change to be committed tell the truth if they say "ended", because an end is final at the provider.
  `ItemInv`: an end that is written to the item is the provider's, or a refund that is stamped by then.
* `CardsInv`: that a customer sees no duplicate needs that a placeholder is the *only* row of its order, that a
  row's eSIM is of its order, and that an order is stored exactly if it has rows.
* `TasksInv`: saves and syncs commit what they read earlier. It says which part of that stays true: rows are
  never deleted, and no placeholder comes to a stored order; so a sync that found the order and gives rows to
  eSIMs fills the placeholder, if there is one still. What does *not* stay true (an eSIM without a row) is left
  to the unique constraint at the commit. The same facts give `RowsLostOnlyToPartialAnswers`.
* `SessionInv`: a token's remaining ticks and the ticks its account has been out of use add up to at most a
  token's lifetime, and an account in use has been out of it for none. A token is issued for a row in use only,
  so both are restored wherever a token is issued or an account revived.
* `WorkInv`: what a handler will write is what its kind makes of the row it read, which ties the write after
  the await to the read before it.
* `AllAligned`: counted from their ends, a bucket and the history of accepted events hold the same events,
  each at most the wait for the lock apart, and what the bucket lost is out of the window. Clocks are read
  before the lock, so the bucket need not be sorted; the history is. `WaitInv` bounds the wait; `RestartInv`
  counts the lives of the process.
* `InForce`, `Capped`, `Counted`: while a code is in force the last events of the window of its endpoint are its
  tries of this life, so the limiter's bound is the code's; after that the count stands still. `ProofInv`: a
  proof was earned by a code in force then.
* `HeldInv`, `CampaignInv`: an unregistration silences rows it read as the subject's; the devices a campaign has
  sent to, has yet to send to, and has found invalid are disjoint, what it counts was reached, and without
  trouble what was reached is counted. `Idle`: nothing is reached between campaigns.
* `SavingInv`: a save knows each active row of its key that was visible when it flushed, but for those ended
  since; two rows of a key are then both active only if neither saw the other. `PurchaseInv`: while no price
  changes, the price of the purchase is what would be quoted now; whatever changes, the gate compares with the
  quote of the moment, which is the total of an order of the moment (`QuoteIsTotal`). `ShownIsCharged` rests on lemmas about the
  computations: a finite non-empty set of rows in force has a first one (`FiniteHasFirst`, `BestRule`,
  `LatestRule`), and the in-memory and the SQL choice agree (`SameRule`, `QuoteIsTotal`, `MarkupIsApplied`).
* `CopiesInv`: what filled a copy had read what was there when it began, and the present copy was filled since
  the last edit.
* `LockInv`, `WritesInv`: who is inside holds the lock of its process, and the answer it is about to write is no
  older than what another run under the lock stored last.
* `QueueInv`, `TokensInv`, `CallsInv`: queues hold exactly who waits, once each; the token is fetched by the head
  of the token queue; a second try has a token younger than the refusal of the first. `LivesInv`: the token of
  the i-th call in the queue lives i ticks more, which is where `Slack` comes from.
* `SlotsInv`: the slots reserved and to come are those of the sleeping calls, one each, without a gap.
  `OverlapInv`: a call since whose question no answer was stored will find no entry of its query, so only an
  overlapping answer can replace newer content by older.

The proofs are laid out one step per action; what the shared rules and each handler do to a row is stated
once as a lemma (`ResolveRule`, `SyncedRule`, `NoticedRule`, `WritesRule`, `CommitRule`, `BalanceMoves`, …).

<a name="limits"></a>
## What is only model-checked, and what is not modelled

Only model-checked: liveness (`PaidOrderDelivered`, `PaidTopupDeliveredOrOrphaned`, `TransactionIsRecorded`,
`RefundIsRecorded`, `ActiveComesIntoStep`, `PlaceholderIsFilled`, `NobodyWaitsForEver`), since liveness under
fairness is out of the prover's reach, and the disagreements, which are counterexamples. `UnrecordedIsRepeated`,
in turn, is proved and belongs to no run. No module uses a recursive definition.

Not modelled in the modelled components:

* payments and fulfilment: loyalty orders and top-ups (no payment to spend), admin-created FIB payments,
  cancellation and refund requests to FIB (their effect, FIB's status, is), deleted rows, the contents and
  snapshots of orders;
* profiles: data counters beside `UsageSync`, expiry dates, audit events, and a transaction that loads the
  profile and its item on two sides of another's commit; the eSIMs of an order that are listed only after its
  placeholder was filled get a row by a query for the order alone, which nothing in the code promises;
* accounts: roles, permissions, passwords, preferences and listings; signups of one phone in the two tables at
  once, the tokens a password reset leaves valid, and a login worker that outlives its `wait_for` have no
  property;
* push: texts, fetch caps, the per-administrator send limit, summary and diagnostics pages;
* catalogue: purchases in other currencies than dinars, other pairs of currencies, the copy of the exchange
  settings, listings, and a quote whose three table reads straddle a commit;
* clients: signing, HTTP, parsing, and the switches that turn limiter and caches off.

Not modelled at all: travelers (create, update and delete of a user's own rows), the application shell
(wiring, error handlers, readiness), version info (one row, read and updated), the flight proxy (a stateless
translation), migrations and scripts (run once by an operator; the unique constraints they create are guards
of the models). None of them has a protocol, a lock or a second writer to get wrong.

## Plan

The modules of the plan are written and checked, and the safety properties of the runs are proved. What is left:

1. `ProfileRows`: that an order whose placeholder was filled keeps a row for each eSIM that was listed then,
   but for the overlaps `RowsLostOnlyToPartialAnswers` names.
2. `Fulfilment`: that the bound of `SpendsWithinFailures` is reached for each number of failed calls
   (`rejected_rival` shows it for one).
3. The tokens a password reset leaves valid, and the revived profile that the cron refresh does not load
   (`PROJECT.json` lists both as hazards without a property).
