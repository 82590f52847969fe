# Formal model of gopay-autosms

TLA+ modules, TLC configurations and TLAPS proofs for `gopay-autosms`: the Go
backend, which buys phone numbers from SMS providers in batches, drives a GoPay
login and PIN workflow on each number and runs independent HeroSMS number tasks,
and the Vue frontend, whose pages edit, order, watch and end all of that through
HTTP requests. All durable state is in PostgreSQL; several scheduler processes
may share one database (the storage tests start several managers), and several
pages may be open on it.

Contents: [the system](#the-system), [the modules](#the-modules),
[how the model corresponds to the code](#how-the-model-corresponds-to-the-code),
[the runs](#the-runs), [fairness](#fairness), [the proofs](#the-proofs),
[divergences](#divergences-found), [what is not modelled](#what-is-not-modelled),
[the plan](#the-plan).

## The system

The backend (`src/internal`):

| Component | State | Operations | What makes it correct |
|---|---|---|---|
| **Batch purchase protocol** (`workflow/manager.go`, `storage/postgres_batches.go`, `storage/postgres_activations.go`, `workflow/startup_cleanup.go`) | `batches` row (status, four counters), `batch_purchase_attempts` rows | create, reserve, mark sent, GetNumber, persist, freeze, release, stop, fail on exhausted proxies, startup recovery | never more than `quantity` slots in use, no second purchase while one is unresolved, no slot given back for a number that may have been bought, every sent request is decided |
| **Purchase cleanup queue** (same files) | cleanup columns of an attempt | claim, setStatus(cancel), complete, retry | only numbers without an activation are cancelled, and each is cancelled in the end |
| **Activation leases and control** (`manager.go`, `postgres_activations.go`) | `activations` row: status, lease owner/until/version, control action, slot | claim, transition, fulfil, finalize, MarkSuccess, Delete, Stop | a worker that lost its lease writes nothing; a control request is executed exactly as last given |
| **OTP workflow** (`manager.go`, `gopay/login.go`, `gopay/pin.go`) | encrypted session with checkpoints, `sms_cycle`, verifications | login, OTP wait, resend, advance cycle, PIN | the non-idempotent setStatus=3 and each OTP dispatch survive a crash without repetition or loss |
| **Webhook inbox** (`workflow/hero_sms_webhook.go`, `storage/postgres_herosms_webhooks.go`) | `hero_sms_webhook_events`, `webhook_wakeup_at` | ingest, claim, complete, ignore, fail | callbacks are stored once, reach their activation whichever is first, and always wake it |
| **HeroSMS tasks** (`herotask/manager.go`, `storage/postgres_hero_sms_tasks.go`) | `hero_sms_number_tasks`, messages | create, begin/commit/release purchase, append, continue, settle, stop, restart | at most one number per task and purchase token, refund only without a message, every stop ends |
| **Account session lock** (`manager.go`, `postgres_account_locks.go`) | map of gates with reference counts, advisory lock | acquire, release, cancel a wait | one session per phone across processes, entries deleted only when unused |
| **Login status** (`workflow/login_status.go`) | cache, flights, credentials | probe, publish, rotate | no stale view, no lost refresh token |
| **Proxy pool** (`proxy/pool.go`, `manager.go`) | entries in `batches.config` | parse, claim, fail | an endpoint serves one activation |
| **Provider clients** (`smsbower`, `herosms`) | none | GetNumber, setStatus, parse | an answer that does not prove refusal is "unknown" |
| **Settings and batch draft** (`storage/postgres_settings.go`) | encrypted settings, the draft | read, replace | what is read is what was last replaced |
| **HTTP API, secure storage, configuration** | none | views, encryption, parsing | |

The frontend (`src/frontend/src`), one page of one thread each:

| Component | State | Operations | What makes it correct |
|---|---|---|---|
| **Workbench: batch draft** (`App.vue:246-420`, `persistenceErrors.ts`, `api.ts`) | the form, its signatures (persisted, queued), the pending draft, three timers | read the draft, edit, debounce, save, retry, `online`, link to `/hero-sms`, `pagehide` | no edit forgotten, defaults never stored over an unread draft, the link waits for the save |
| **Workbench: catalogue form** (`App.vue:421-916`, `normalizers.ts`, `priceOptions.ts`) | provider settings, services, countries, prices, six version counters, loading flags | pick, refresh, save the key, restore a draft, and their answers | an order carries a quotation of what is selected; lists and flags belong to the selection |
| **Workbench: batch and numbers** (`App.vue:918-1260`, `ActivationTable.vue`, `ActivationCard.vue`, `ActivationCodeSection.vue`, `loginStatus.ts`) | the batch on show, its rows, login statuses, `dashboardGeneration` | restore, poll, start, stop, Success, Delete, login poll | rows are those of the batch on show, which never goes back; buttons offered where the server takes them |
| **HeroSMS page** (`HeroSmsPurchasePage.vue`, `HeroSmsNumberTask.vue`, `heroSmsNormalizers.ts`, `heroSmsCountdown.ts`) | tasks on show, pending purchase and its idempotency key, requests in flight | purchase, retry, task buttons, paged list, merge | one purchase per intent, no task goes back, no task missed by the list, refund offered while the server gives it |
| **Presentation** (tables, icons, clipboard, styles) | none | | |

Components interact through the database: each storage call is a transaction
that locks the batch row, then the attempt, then the provider identity, then
the activation, so a stop, a purchase and a finishing worker are serialized per
batch and cannot deadlock. In a process, `Manager.purchase` serializes the
purchaser and Stop; across processes only the rows do. A scheduler tick claims
purchase cleanups, lists the active batches and purchases for each that is
ready, then claims activations and starts a worker for each. The frontend meets the
backend at the HTTP API only: what `SlotQuota` promises of a batch (fulfilled and
in-flight numbers fit the quantity) is what `ActivationRules` takes a batch to be,
and the tasks that `HeroRules` evaluates its rules on are the rows of `HeroTask`.

The hard behaviours: a COMMIT whose receipt is lost (`ErrCommitUnknown`), an
answer of the provider that never arrives, a number the provider hands out
twice, a crash between two transactions, recovery while another instance runs,
Stop at any moment of a purchase, leases that expire during a provider call,
callbacks that arrive before the row they belong to, duplicated callbacks.
On the pages: an answer that comes after the selection, the batch or the form it
was asked for has changed, two requests whose answers overtake each other, a
request that hangs, a page that goes away with a save in flight, a purchase asked
for again after its answer was lost, and rules that page and server each work out
by themselves. `PROJECT.json` lists them under `hazards`, each at its line, with the property
that covers it or the planned module that will.

## The modules

| Module | What it is |
|---|---|
| `SlotQuota` | abstract specification: a batch hands out at most `Quantity` slots, each taken by a request, filled or dropped once; a closed batch hands out nothing |
| `BatchPurchase` | the purchase protocol, with its properties, the inductive invariant, and beside some actions a *mutant*: the same action with a plausible mistake, used to show that a property can fail |
| `BatchPurchaseQuota` | the refinement mapping from `BatchPurchase` to `SlotQuota` |
| `BatchPurchaseProofs` | theorems about `BatchPurchase` for every value of the constants, its refinement of `SlotQuota` included |
| `HeroTask` | one receive-only HeroSMS number task: the leased row, its workers and the provider |
| `HeroTaskProofs` | theorems about `HeroTask` |
| `CodeLog` | abstract specification: each SMS cycle shows one code, a code is shown once, the next cycle opens only after the current one has its code |
| `WebhookInbox` | the callback inbox of one HeroSMS activation and the leased worker that serves it; implements `CodeLog` |
| `WebhookInboxProofs` | theorems about `WebhookInbox`, its refinement of `CodeLog` included |
| `DraftSync` | the workbench's batch form and its copy on the server |
| `DraftSyncProofs` | theorems about `DraftSync` |
| `CatalogForm` | provider settings, service, country and price lists, and the restore of a saved form |
| `CatalogFormProofs` | theorems about `CatalogForm` and `PriceRules` |
| `PriceRules` | pure operators: the order and tiers of quotations, and how a selected one is found again |
| `Dashboard` | the workbench's view of the running batch, its rows and the login statuses |
| `DashboardProofs` | theorems about `Dashboard` and `ActivationRules` |
| `ActivationRules` | pure operators: a row's buttons and labels, the batch's counters, the login and the codes of a number |
| `HeroPage` | the purchase, the list and the buttons of the `/hero-sms` page, against tasks that change |
| `HeroRules` | pure operators: refund windows and buttons, the offer of a selection |
| `HeroPageProofs` | theorems about `HeroPage` and `HeroRules` |
| `MCBatchPurchase`, `MCHeroTask`, `MCWebhookInbox`, `MCDraftSync`, `MCCatalogForm`, `MCDashboard`, `MCHeroPage` | values of the constants for TLC, symmetry; the last three join a page to the rules it shows its answers by |

## How the model corresponds to the code

State. `status`, `reserved`, `purchased`, `fulfilled`, `inflight` are the columns
of a `batches` row (`purchase_reserved_count` and so on), `proxyFree` the number
of available entries in its `config`. `attempt`, `providerId`, `cleanup` are the
`batch_purchase_attempts` row of a token; `batchOf` is the batch a token was
generated for, which the process knows before the row exists. `act`, `slot`,
`control` are the `activations` row the token created: an activation is named by
the token because `CreateActivationAtomically` creates at most one per token.
`order` and `alloc` are the provider's side: what became of the request sent
with a token. `pc`, `tok`, `tries`, `todo` are the volatile state of a process.

`act` keeps of the activation's status what the batch depends on: `open`,
`protected` (the statuses `cancelBatchActivationsSQL` leaves alone because a
provider completion is already decided) and `finished`. `slot` is
`slot_reserved` with `ever_fulfilled`.

Steps. A storage transaction is one step, as it holds the batch row lock from
its first statement. `XRefused` holds the checks that make it return an error
without effect, `XTx` its effect. `purchaseOne` is the program counter of an
instance: `StartPurchase` (the re-read batch is ready; a fresh token),
`ReservePurchase`, `MarkPurchaseSent`, `SendGetNumber`, `ReceiveNumber` or
`ReceiveRefusal` or `ReceiveUnknown`, `PersistPurchase`, `FreezePurchase`,
`ReleasePurchase`. Each storage call may commit, commit with the receipt lost,
fail without effect and be retried (at most `MaxTries`; 3 in the code), or fail
with an error that is not retried (`HardErrors`); what `purchaseOne` does next in
each case is the place given to `Goto`, `TryAgain` or `Fail`. Cancelling the
context of a first try is one of these outcomes.

Waiting for the provider (`await`) ends with its answer or, at any time, with
`ErrPurchaseUnknown`: a timeout may hit before or after the provider allocated.
The provider (external) may allocate a number it has given before (`Repeats`).

Crash and restart: a crash forgets the process state; `Restart` lists the active
batches, `RecoverBatchPurchase` recovers each, `StartScheduler` starts the loop
only when all succeeded, and a failure ends the process, as `Run` does.
`RecoverTx` writes every sent attempt of the batch where the code selects one
with `LIMIT 1`: `OneUnresolved` says these are the same.

Abstractions, all of them widening what the model may do: times
(`next_purchase_at`, back-offs) are "any moment"; cleanup leases are left out, so
any instance may cancel or complete a pending cleanup at any time; an
activation's workflow is any order of claiming a proxy, being classified, being
fulfilled and finishing after its provider order concluded; the user's
MarkSuccess (control action `success`) is one of the ways an order concludes.
The recovery of several batches continues after one failed before the process
exits; the model exits at once, which leaves fewer steps and the same rows.
`ClaimProxy` reads the free proxies and writes the claim in one step. Of the
unique indexes, the one on active batches is the guard of `CreateBatch`, and the
one on the provider ids of attempts (`migrations.go:244-246`) is the clause of
`PersistRefused` on an id that another attempt has: `CreateActivationAtomically`
itself looks at activations only. The one on unresolved attempts is not used; the
guards of the code suffice without it.

### The number task

State. `row` holds the columns of `hero_sms_number_tasks` that decide anything:
`number` is `provider_activation_id` (a number is named by the token that bought
it), `continued` and `pending` are `continuation_count` and
`continuation_pending_count`, `stop` is `stop_requested`, `wake` says that
`webhook_wakeup_at` is set, `dated` that the purchase times are. `holder` and
`lapsed` are the lease: a version that a worker holds is never issued again, so
the worker it names stands for owner and version. `attached` and `stored` are the
message rows with and without `task_id`. `clock` is the phase of the purchase
(refund window open, closed, number expired). `sold`, `texts`, `unread`,
`passed`, `lost`, `verbs` are the provider's side. `pc` and `seen` are a worker's
place and its copy of the row, on which it decides; only the condition of a
statement (`Owns` and the rest) protects the row from an outdated copy.

Steps. Each UPDATE or transaction is one step, each provider call one step that
chooses the effect and the answer. `Claim` is `ClaimDueHeroSMSTasks` and the
dispatch of `processTask` (`Route`); then `Begin`, `Buy`, `Release` or `Commit`,
`Recover`, `MarkUnknown` (`processWaitingNumber`), `Poll`, `PollAppend`,
`Schedule` (`processActive`), `BeginNext`, `Ask`, `Complete`, `Abort`
(`continueActivation`), `Prepare`, `Call`, `Finish` (`processSettlement`).
`Callback`, `RequestStop` and `Restart` are the requests of others. A statement
that matches no row is the branch with the row unchanged. A storage error the code
acts on (a failed or unacknowledged commit, begin of a continuation, or append)
is a fault; one it only logs ends the worker with its lease kept, which is
`Crash`.

Abstractions. `next_run_at` is "any moment". A repeated report of a message is
recognised, as message *i* of a number is the *i*-th SMS; the matching of a poll
and a callback by cycle, code and time is not modelled. An activation's poll
returns its current code, a rental's all messages, and an activation receives its
next SMS once status=3 was applied; the comments at `classifyContinuationRequest`
and `classifyProviderFinalization` are taken at their word: BAD_STATUS to a
settlement call comes only from a number that is closed. Distinct orders get distinct
provider ids.

### The callback inbox

State. One HeroSMS activation from `pin_changed` on: `status`, `control`, `next`,
`wake`, `cycle` are `status`, `control_action`, `next_run_at`,
`webhook_wakeup_at`, `sms_cycle` of its row (`subsequent` stands for
`awaiting_subsequent_code` and `active`, which are handled alike). `holder` and
`lapsed` are the lease: the owner string holds the version, so a worker stands
for both. `inbox` are the `hero_sms_webhook_events` of the activation, numbered in
the order of `provider_received_at` (`at` is `next_attempt_at`, `claim` the
claimed lease), `rows` its `verification_codes` by `cycle_no`, which is unique.
`session` is what the account session knows of status=3
(`sms_cycle`, `verification_cycle_request`), `gate` the account session lock.
`sent`, `unread`, `settled` are the provider's side; `pc`, `seen`, `job`, `mem`,
`drained`, `due` a worker's place, the row it claimed, its event, its copy of
the session, its place in the drain and the `next_run_at` it read.

Steps. Each statement or transaction is one step, each provider call one step.
`Lease` is `ClaimRunnableActivations` and the start of the goroutine, `Lock` the
account lock with the dispatch of `processActivation` (`Branch`), `Look` and
`Release` its end. `Claim`, `IgnoreBlank`, `IgnoreOccupied`, `Complete`,
`FailEvent` are the inbox transactions with the refresh of the wake-up marker
they contain; `Examine` to `SaveLocal` are `waitHeroSMSFollowupCode` with a code,
`Ensure` and `Sync` `ensureHeroSMSFollowupCycle`, `Advance` to `Checkpoint`
`advanceVerificationSMSCycle` and the save that follows it, `Conclude` and
`Finish` `processControl` and `expireAndCancel`. A call may take effect and lose
its answer (`Answered`) or fail without effect (`CallFails`); `OnError` is where
the code goes then. A context cancelled by `runTick` or `StopBatch` ends the
worker at any place (`Cancelled`).

Time. A time is its distance from now: due, a poll interval or retry delay away
(`Soon`), the provider's deadline (`Late`), or NULL. That is what the properties
tell apart: who wakes up within seconds and who sleeps until the number expires.

Abstractions. `provider_expires_at` is known (a NULL takes the purchase time
plus the activation TTL, which is as late). The account lock has no other user
here; a login probe that holds it only delays a worker. Consecutive reads
(session, verifications) are one step, as only the holder of the account lock
writes them. A save that is retried is one that succeeded or failed. Hiding a
deleted activation and its quota slot are left out. status=3 is applied when an
SMS arrived since it was last applied and refused with BAD_STATUS otherwise, as the
comment at `advanceVerificationSMSCycle` has it. Two callbacks may stand for one
SMS (another fingerprint): the second is dropped as the code of an occupied
cycle, and so is a callback that overtakes the continuation of the code before.
The request a cancelled worker left on the wire is taken to have ended with it.

### The pages

A page is one thread: a handler, timer or answer runs to its next `await` as one
step, which is an action here. A request is then served by the server in a second
step and its answer is taken in a third, so the server changes in between, and
answers may be old and overtake one another. An error, a lost answer and an
aborted request are a fault step; whether the server had done what was asked is
part of the choice. A comparison of version counters captured before an `await` is
a set (`fresh`) of the counters that have not moved since, or a Boolean where
there is one counter: it tells apart what the code tells apart, and needs no bound.

### The batch draft

State. `form` is the watched form and provider, `ready`
`batchDraftPersistenceReady`, `debounce`, `retryTimer`, `loadTimer` the three
timers (set or not), `persisted`, `queued`, `pending`, `sending` the signatures
and drafts of `App.vue:246-270`, `leaving` the navigation to `/hero-sms`. A draft
is named by its signature; `Normal` is `normalizeBatchForm`, and the form `cut`
of the instance one that it changes. `stored` is the server's copy. `foreign`,
`reloaded`, `entered` record what the properties speak of.

Steps. `Edit`, `Debounced`, `Enqueue` with `Flush`, `RetrySave`, `Saved`,
`SaveFails`, `Loaded`, `LoadFails`, `RetryLoad`, `Mounted`, `Online`,
`OpenHeroSms`, `PageHide` are the functions of the same purpose. A PUT whose page
has closed, or whose answer was given up, is `detached`: it may still be stored
(`StoreDetached`), or never. A new page is opened on the same server (`Reopen`).

### The catalogue form

State. A call in `calls` is a handler suspended at an `await`: its operation, what
it awaits, the form it captured and the counters (`settingsRequestVersion` and
the like) that have not moved since. A list carries the selection it was asked
for, so that a stale list is visible. `stranded` says that a late draft replaced
the selection under the lists (see the divergences).

Steps. `PickProvider`, `PickService`, `PickCountry`, `PickOffer`, `Refresh`, `Save`
are the handlers of the selects and buttons, guarded as the template disables
them (only `PickOffer` may also pick an offer that is out of stock); `Late` is a
draft read after mounting; `SettingsAnswered` to `PricesFail` resume a call, with
everything it does up to its next request (`AskRestore`, `AskCountries`,
`AskPrices`). The server may answer with any list. A behaviour begins after the first
read of the draft, which is in `DraftSync`; `Dropped` is a provider that is not
configured.

`PriceRules` is `normalizePrices`, `deriveMissingPriceTiers` and
`findRefreshedPrice` as operators; `PricesAreSound` evaluates them on every pair of
lists of up to two quotations, and on up to twelve different prices. It is about a
refresh and about a draft that has the snapshot of its price. One without is found by its
exact key (`App.vue:823-832`); for `AfterPrices` both mean that the offer is found or dropped.

### Batch and numbers

State. `status`, `created`, `rows`, `bought`, `login` are the server's side, as the
pages see it; `currentId`, `current`, `activations` what is on show. A request
holds whether `dashboardGeneration` moved since it was sent (`fresh`), and the view
it was answered. `mount` is where `onMounted` is.

Steps. `Restored`, `MountRefresh`, `StartPolling` are `onMounted`, `Poll` the
two-second timer, `Refreshed` the end of `refreshDashboard`, `Start`, `Started`,
`Stop`, `Stopped`, `Control`, `Controlled` the buttons, `AskLogin` to
`LoseLogin` the login poll with its abort after 20 seconds. The server buys,
hides, ends and erases at any moment; its own rules are those of `BatchPurchase`,
of which a page sees only the status and the rows. A Stop of a batch that has ended is
answered with the batch as it is. The click on Stop and the dialog it opens are one
step. There is one page: a batch started in another tab is not modelled.

`ActivationRules` has what a page and the server each decide about a number: which
statuses offer Success and Delete, which look alive, when a number is called
cancelled, the counters and the rounded progress, whose login a row shows, which
codes it lists.

### The HeroSMS page

State. `rows` are the tasks with the true order of their changes (`ver`) beside
`updated_at` in milliseconds (`stamp`), which may tie and, as `now()` is the start of
a transaction that may have waited for the row, may go back (`back`). The clock moves
with the changes, and a change may be stamped up to `MaxLag` behind it. A phase is a
status with `stop_requested`; `doubtful` is a stopped task whose purchase is unknown, which
a late recovery makes active. `shown` is the merged list, `pending` the
purchase without an answer and its idempotency key, `stray` the requests given up
that may still arrive.

Steps. `Press`, `Bought`, `BuyFails` are `startPurchase`, `Click`, `Acted`,
`ActionFails` a task's buttons, `Poll`, `ServeRows`, `ServeMessages`, `Listed`,
`ListFails` the paged list, whose tasks and messages are two queries. `MergeTask` is
`mergeHeroSmsTasks`, which takes the newer record whole (the code keeps optional fields
that it lacks; none is modelled). Changes that keep the phase are messages and stops, no
others, and a purchase buys one number, where the code may create several rows in one
transaction. `HeroRules` has the refund window, the buttons and the
selection of an offer.

## The runs

A run checks one or a few statements of a component together; a property named
after its parts is their conjunction, and each part is a definition of its own in
the module.

The backend. `MaxFaults` bounds failed or unacknowledged storage calls,
`MaxCrashes` crashes, the number of tokens the purchase attempts of a behaviour.

| Run | Bounds | Checks |
|---|---|---|
| `purchase_one_instance` | 1 instance, batches of 2 (one proxy) and 1 (direct), 2 tokens, 2 numbers, 2 tries, 2 faults, 1 crash, hard errors, repeated ids | `OrderTracked`, `StoppedBatchDrains`, `NoRequestAfterStop`; liveness: `PurchaseResolves` |
| `purchase_two_instances` | 2 instances, 1 batch of 2 with 2 proxies, 3 tokens, 2 numbers, 3 tries, 1 fault, 1 crash, hard errors, repeated ids | `SlotsAccounted`, `NeverOverbuys`, `CleanupSparesActivations`, the refinement `ImplementsSlotQuota` |
| `stop_under_recovery` | 2 instances, 1 crash | `NoRequestAfterStop` is violated |
| `hero_activation` | 2 workers, 1 token, 2 SMS, 1 lapsed lease, 1 fault, 2 stops | `EndIsSound`, `ContinuationSound`, `RefundIsUnread` |
| `hero_rebuy` | rental, 2 workers, 2 tokens, 1 SMS, 1 lost callback, 1 crash, 1 lapsed lease, 1 fault, 2 stops | `OneAllocation`, `NumberIsKept` |
| `hero_stop_ends` | 2 workers, 1 token, 1 SMS, 1 crash, 1 lapsed lease, 1 stop | liveness: `StopEnds` |
| `inbox_codes` | from `subsequent`: 2 workers, 2 callbacks, the first with or without a code, 1 crash, 1 lapsed lease, 1 fault | `CallbacksAreKept`, the refinement `ShowsAsLog`, `StaleWritesNothing`, `AskIsRecorded` |
| `inbox_end` | from `pin_changed`: 2 workers, 1 callback, 1 crash, 1 click, 1 stop | `InboxCloses`, `StopIsDue`; liveness: `ClaimEnds`, `StopEnds` |

The frontend. `MaxFaults` bounds requests that fail or lose their answer.

| Run | Bounds | Checks |
|---|---|---|
| `draft_sync` | 4 forms, one of them normalised to another, 2 pages, 2 edits, 2 faults, 1 `online`, 2 reads after the first of each page | `NothingForgotten`, `OnlyLoadedFormsStored`, `LeavesSaved`; liveness: `DraftSettles` |
| `catalog` | 2 providers, 2 services, 1 country, 1 offer, 2 actions, 1 fault, 1 late draft; lists of up to 2 quotations of 12 | `OfferIsCurrent`, `FormIsHonest`, `PricesAreSound`; liveness: `CatalogSettles` |
| `dashboard` | 2 batches, 1 number, 1 fault, 1 click, 1 change of login; quantities up to 100, 2 phone numbers, 3 codes, 3 follow-up codes | `RowsBelong`, `RunningIsShown`, `RulesAgree`, `NeverGoesBack`; liveness: `DashboardSettles` |
| `hero_page` | 2 inputs, 2 tasks, pages of 1, 3 changes, stamps up to 2 behind the clock, 1 message, 2 presses, 1 button, 1 fault; 5 instants, a window of 2, 2 countries, 2 rental durations | `RetryBuysOnce`, `RulesAgree`, `ShownNeverOlder`, `ListIsComplete`; liveness: `ListCatchesUp` |

Behaviours end when the bounds are used up and all work is done, so deadlock is not
checked, except in the inbox runs, where time goes on.

Why the purchase bounds suffice. With three tokens a batch of quantity 2 makes a
purchase after one that was released or replaced, with a slot still in use; two
tokens do so for the batch of quantity 1. One fault is a lost receipt, a failed
try that is retried or, with hard errors, one that is given up. One crash is
enough for the recovery to meet every state of an attempt, in the second run with
a live peer. Two numbers let the provider repeat an id for a stored, an unknown
or a conflicted attempt. The run with liveness has a second fault, and a call gives up
after two tries there: a number that arrives and cannot be stored is then frozen, with
the freeze failing once or not, queued for cancellation and cancelled, and a freeze may
fail for good as well. That leaves the attempt sent until the next restart, which is
what the code does (hazard at `manager.go:801`); no fairness makes a storage error end.

For the number task, two workers are a late one and the one that claimed after
it; one lapsed lease makes the late one, one fault the recovery after a commit
that succeeded. Two SMS make a message that arrives while the first is being
acknowledged. A second token is needed only where a second purchase might happen.
A stop request on a waiting row takes the lease from its worker each time, so the
stops are bounded.

For the inbox, one lapsed lease makes a worker that is late and one that took
over, one crash leaves an event claimed and a session between two checkpoints,
one fault loses the answer to any one call. Two callbacks make one arrive while
the other is claimed, waits for its retry or has its cycle opened. One worker
more could only be a second late one, which is refused in the same way.

For the draft, two edits make one that comes while the other is queued, in flight
or failed, two faults a read and a save that fail or two tries of one of them, two
pages a save of the first that arrives after the second has read. For the catalogue,
two actions and a late draft are three handlers that interrupt one another,
besides the one of the start; two providers and services let each be picked away
from and back to. For the dashboard, two batches are one that ended and one that
was started over it; one click is one start, stop or row action against polls,
the restore and the server. For `/hero-sms`, two tasks on pages of one are a list
that shifts while it is read, two presses a purchase and its repetition or two
different ones. The rules are evaluated on all inputs within the bounds, in the
first states that show a row, a price or a task.

What the properties are for:

- `SlotsAccounted`: the counters are changed by seven handlers, each retried after
  lost receipts; they always equal the rows they count (`CountersMatch`), stay
  within the quota (`QuotaRespected`), one purchase is undecided at a time
  (`OneUnresolved`) and a batch completes only when it is full (`CompletedIsFull`).
- `OrderTracked`, `NeverOverbuys`: money. A number that may have been bought keeps
  a slot, so no replacement is bought for it.
- `ImplementsSlotQuota`: all of the protocol, with its crashes and retries, is
  invisible at the level of slots.
- `CleanupSparesActivations`: the automatic cancellation of an unpersisted number
  never hits a number in use, even if the provider repeats ids.
- `StoppedBatchDrains`: no unfinished number of a stopped batch is left without a queued
  deletion or conclusion. (None can be stored after the Stop: it is refused while an
  attempt is sent, and an attempt recovered as unknown is frozen, not stored.)
- `NoRequestAfterStop`: with one instance, no request leaves after Stop answered.
- `PurchaseResolves`: a sent attempt is decided, which lets Stop succeed, or was left
  sent by a freeze or release whose last try failed, and by nothing else
  (`SentResolves`); a number that arrived is stored or cancelled, unless a crash forgets it
  (`ReceivedNumberHandled`); a queued cancellation is carried out (`CleanupEnds`).
- `OneAllocation`: money. A purchase whose outcome is not known is never tried
  again, whoever finds the row.
- `NumberIsKept`: an allocated number is written to the row although the lease
  expired, another worker marked the purchase unknown, or a stop finished the row.
- `EndIsSound`, `RefundIsUnread`: a number is either cancelled or finished
  (`OneVerb`), a refund is shown only for a cancelled number (`EndIsReal`), and no
  message stored for a number is followed by a refund.
- `ContinuationSound`: early callbacks are adopted by each of the three transactions
  that set the number (`MessagesCounted`), a message counts as continued only after
  the provider moved past it (`AcknowledgedWasAdvanced`), and the CHECK constraints
  of the row never fail (`PendingIsSound`).
- `StopEnds`: a stop ends the task, in every status it may hit; in the inbox, it
  ends the activation.
- `CallbacksAreKept`: the wake-up marker is lowered by each callback, recomputed by
  each inbox transaction and consumed by the release, and a stored callback is never
  left to the provider deadline (`WakeIsKept`); an event taken again after a crash
  at any step of the advance is not lost (`CodeIsKept`).
- `ShowsAsLog`: nor is it shown twice, and it opens one cycle only.
- `AskIsRecorded`: the provider is moved on only between the two checkpoints.
- `StaleWritesNothing`: after a fence or a takeover, the late worker changes neither
  the row nor its inbox nor its codes. (It may still save the session, which no
  lease guards; the account lock orders these saves.)
- `StopIsDue`, `InboxCloses`: Stop takes the lease with it, so that the release of
  the fenced worker cannot put the deletion off; a finished activation leaves no
  event to claim.
- `ClaimEnds`: the event of a dead worker makes the activation runnable again.
- `NothingForgotten`: three signatures, three timers and two ways to start a save
  decide together whether an edit will be saved.
- `OnlyLoadedFormsStored`: a page that could not read the draft never stores its
  defaults over it, however often it retries, edits, closes or leaves.
- `LeavesSaved`, `DraftSettles`: the link waits for the save; what the form shows ends
  up on the server.
- `OfferIsCurrent`: an order is never placed with the quotation of another selection,
  in whatever order the lists come back.
- `FormIsHonest`: lists on show are those of the selection (`ListsBelong`), and a flag
  says loading exactly while the request that counts is out (`LoadingIsReal`).
- `PricesAreSound`: a refreshed selection, or one restored with the price it was saved
  with, pays the same provider the same price, and is kept while it is still quoted; tiers
  follow prices.
- `CatalogSettles`: no restore is left half done by handlers that interrupt it.
- `RowsBelong`, `NeverGoesBack`, `RunningIsShown`: late answers never mix two batches,
  revive one that ended or hide the one that runs.
- `RulesAgree` (`dashboard`): a row offers what the server takes, says cancelled only
  after the provider was told, shows its own login and all of its codes, and the
  counters add up, rounding included.
- `DashboardSettles`: nothing stays busy and what is shown is what there is, although
  requests fail, hang or are overtaken.
- `RetryBuysOnce`: money. A purchase asked for again is bought once, even if the first
  request arrives after the second.
- `ShownNeverOlder`, `ListIsComplete`, `ListCatchesUp`: whichever answer comes last, a
  task does not go back, none is missed, and all are shown as they are in the end.
- `RulesAgree` (`hero_page`): as long as a task does not change, a refund is offered exactly
  while the server would ask for one, and Start while it would restart the task, however
  long ago the answer on show was given; the price on show is that of what Start buys.

Each of these fails in a mutant of the code beside the modelled action (`mutants` in
`PROJECT.json`): a dropped guard, a missing reset, a swapped order.

## Fairness

Weak fairness of `Purchaser(i)` (a goroutine in `purchaseOne` runs on; a provider
call ends because the HTTP client has a timeout), of `Startup(i)` (the Compose
restart policy restarts a process, `src/README.md:145`, and `Run` recovers before
it schedules), and of the two cleanup steps (each tick claims pending cleanups;
the provider concludes a cancellation in the end). Nothing is assumed about the
provider's allocation, workers, Stop or new purchases.

For the number task: weak fairness of `Claim(w)` (the ticker of `loop` claims
what is due) and of `Work(w)` (a started goroutine runs on), strong fairness of a
settlement call that is not answered by a retry (the provider does not fail
for ever), weak fairness of `LeaseExpires` (time passes). A worker that outlives
its lease, a crash and a storage error are never assumed to happen or not to.

For the inbox: weak fairness of `Lease(w)` and `Work(w)` for the same reasons (the
select in `acquireAccountSessionLock` gets the lock in the end: its holder's steps
end), of `LeaseExpires` and of `Tick` (time passes). The deadline, callbacks,
clicks and stops need not come; failures are finitely many.

On the pages: timers fire, `onMounted` goes on, and a request is answered or fails;
failures are finitely many. `DraftSync`: weak fairness of the timers, of reads and saves and of their
answers. `CatalogForm`: weak fairness of taking some answer (a call that is answered
again and again is one that asks again, and the actions that make it ask are
bounded). `Dashboard`: weak fairness of the mount steps, the poll and, for each kind
of request, of serving and taking it; the login request is aborted after 20 seconds, so
that it is served and shown in time only sometimes: strong fairness of these two.
`HeroPage`: weak fairness of serving and taking a purchase, a button and the list, and
of its timer. No user action is fair: nobody need press anything.

## The proofs

Every theorem holds for all values of the constants that satisfy the assumptions of
its module, the bounds included.

`BatchPurchaseProofs`, for every set of batches, tokens, numbers and instances,
quantities and fault bounds:

| Theorem | States |
|---|---|
| `Invariance` | `Spec => []IInv` |
| `TypeCorrect` | `Spec => []TypeOK` |
| `QuotaSafe` | `Spec => []QuotaRespected` |
| `SinglePurchase` | `Spec => []OneUnresolved` |
| `CountersAgree` | `Spec => []CountersMatch` |
| `LedgerInOrder` | `Spec => []SlotsAccounted` |
| `OrdersTracked` | `Spec => []OrderTracked` |
| `NoOverbuying` | `Spec => []NeverOverbuys` |
| `RefinesSlotQuota` | `Spec => ImplementsSlotQuota`, the refinement of `SlotQuota` |
| `StopDrains` | `Spec => []StoppedBatchDrains` |
| `CleanupSpares` | `Spec => []CleanupSparesActivations` |
| `OneProcessStops` | `Spec => NoRequestAfterStop`, if there is one instance |

`HeroTaskProofs`, for every set of workers and tokens, product kind and bound:

| Theorem | States |
|---|---|
| `TaskInvariance` | `Spec => []TaskInv` |
| `TaskTypeCorrect` | `Spec => []TypeOK` |
| `SingleAllocation` | `Spec => []OneAllocation` |
| `BoughtNumberIsKept` | `Spec => NumberIsKept` |
| `NumberEndsOnce` | `Spec => []EndIsSound` |
| `CountingFits` | `Spec => []ContinuationSound` |
| `RefundedUnread` | `Spec => RefundIsUnread` |

`WebhookInboxProofs`, for every set of workers, number of callbacks, drain limit and
bound:

| Theorem | States |
|---|---|
| `InboxTypeCorrect` | `Spec => []TypeOK` |
| `CopyIsCurrent` | `Spec => []LockInv` |
| `CyclesInOrder` | `Spec => []CycleInv` |
| `LateWritesNothing` | `Spec => StaleWritesNothing` |
| `AskOnlyRecorded` | `Spec => AskIsRecorded` |
| `RefinesCodeLog` | `Spec => ShowsAsLog`, the refinement of `CodeLog` |
| `FinishedInboxCloses` | `Spec => []InboxCloses` |
| `StoppedIsDue` | `Spec => []StopIsDue` |
| `CodesKept` | `Spec => []CodeIsKept` |
| `CollectingWakes` | `Spec => []WakeIsKept`, if `Starts = {"subsequent"}` |
| `CollectingKeepsCallbacks` | `Spec => []CallbacksAreKept`, if `Starts = {"subsequent"}` |

`DraftSyncProofs`, for every set of forms, way to normalise them, and number of pages,
edits, reads and failures:

| Theorem | States |
|---|---|
| `DraftInvariance` | `Spec => []IInv` |
| `EditsAreKept` | `Spec => []NothingForgotten` |
| `SavedIsStored` | `Spec => []PersistedIsStored` |
| `DefaultsAreNotStored` | `Spec => []OnlyLoadedFormsStored` |
| `LinkWaits` | `Spec => LeavesSaved` |

`CatalogFormProofs`, for every set of providers, services, countries, offers and drafts
and every bound on what the user does, what fails and what is read late:

| Theorem | States |
|---|---|
| `FormInvariant` | `Spec => []FormInv` |
| `FormTypes` | `Spec => []TypeOK` |
| `FormShowsWhatItAsked` | `Spec => []FormIsHonest` |
| `OrderCarriesItsQuotation` | `Spec => []OfferIsCurrent` |
| `PricesWereSound` | `Spec => []PricesAreSound` |

`DashboardProofs`, for every number of batches, clicks and faults and every set of
numbers:

| Theorem | States |
|---|---|
| `DashboardInvariance` | `Spec => []DashInv` |
| `DashboardTypes` | `Spec => []TypeOK` |
| `RowsOfTheBatch` | `Spec => []RowsBelong` |
| `ShownGoesForward` | `Spec => NeverGoesBack` |
| `RunningOnShow` | `Spec => []RunningIsShown` |
| `RowsReadTheServer` | `Spec => []RulesAgree`, if `MaxQuantity < 200` |

`HeroPageProofs`, for every number of tasks, changes, messages, presses, buttons and
faults, every page size and every set of inputs:

| Theorem | States |
|---|---|
| `PageInvariance` | `Spec => []PageInv` |
| `PageTypes` | `Spec => []TypeOK` |
| `BoughtOnce` | `Spec => []RetryBuysOnce` |
| `ShownGoesOn` | `Spec => ShownNeverOlder` |
| `ReadToTheEnd` | `Spec => ListIsComplete` |
| `RulesOfThePage` | `Spec => []RulesAgree` |

Assumptions for `BatchPurchase`: quantities are positive, pool sizes natural numbers, the bounds
naturals, the set of tokens is finite (a behaviour makes finitely many
purchases), and the null values are not members of the sets they stand beside.

Argument for `BatchPurchase`. No property is inductive alone. `IInv` adds: `RowsConsistent` (an
attempt is committed exactly when it has an activation and a slot),
`OrderConsistent` (nothing was ordered with a token before its fence; a released
attempt was never ordered or was refused; a slot is given back without success
only after the provider concluded) and `PurchaserConsistent` (what a process knows about
its token at each place: two processes never share a token; before the request
nothing was ordered; at `request` and `await` the attempt is sent, or unknown
because another instance recovered it; at `release_refused` the order was
refused). `CountersMatch` ties the counters to cardinalities; a handler's guard on a
counter then says which rows exist, which is how the quota and `OneUnresolved`
follow. `SlotsAccounted` is the conjunction of these statements and of what follows from
them about a completed batch (`LedgerInOrder`). The step proof has one lemma per action; the cardinality facts (one
attempt more, one less) are lemmas of their own. `NeverOverbuys` follows from the
invariant: each open order is either the one unresolved attempt or a slot in use.

Three arguments build on `IInv`. `SettleInv` joins `StoppedBatchDrains` and
`CleanupSparesActivations` with `CleanupOwned` (a queued cancellation is that of an
unknown attempt with its number recorded): a stopped batch and its activations, a
queued cancellation and the activation of another token are rows of different
transactions, and each is written under a condition that looks at the other. The
refinement of `SlotQuota` maps a token to its slot; every transaction changes one token
(`TokenRefines`) or ends a batch, and the sets of the abstract module and of the counters
are the same in size (`SameCardinality`). `OneProcessStops` needs `SendReady`: between the
send fence and the request the batch of the token is active, as every way to end it
finds the sent attempt and refuses. The hypothesis of one instance stands for what the
code lacks: with two, the recovery of one takes the sent attempt of the other for
lost, which the run `stop_under_recovery` shows.

For `HeroTask` (assumptions: the product kind is one of two, bounds are natural
numbers, null values are not members) the invariant is `TaskInv`: types and
`Fence`. `Fence` says that a worker from the purchase fence to the stored outcome
holds the row's token in its copy, that there is one such worker at most, that an
allocation's token is the row's, and what the provider knows of the token before
the call (nothing) and at a release (a refusal). Type correctness needs it, as the
token of a copy is a token only by `Fence`. Most steps are `Aside`: they keep the
token, buy nothing and put no worker into the purchase; one lemma covers them,
and `Begin`, `Buy`, `Release` have one each.

`NumberedInv` adds what a number is: the row's number is what its token allocated,
which statuses have one (`NumberInv`), and of a worker's copy what may be relied on
(`CopyInv`): status and number of a copy are the row's while the lease is held, the
number of any copy is the row's whoever holds it. `BoughtNumberIsKept` follows, and the rest rests on it.
`EndIsSound` is not inductive, as `Call` sends what an outdated copy says: `EndInv` names
one verb for the task, which the settling row, the copies about to call and the
provider's record of calls all agree on, and what a worker about to store the end has
seen of the provider. `CountInv` for `ContinuationSound` follows a message over three
places: what the provider sent (`ReceivedInv`), the rows attached and the counter
(`RowCount`), and the target a worker holds in its copy, which a worker about to
acknowledge saw the provider pass (`CopyCount`).

For `WebhookInbox` (assumptions: bounds are natural numbers, at least one callback,
null values are not members) the invariant is `InboxInv`: types, `LockInv` and
`CycleInv`. `LockInv` is inductive with types because every place at which the
session is read or written lies between taking and giving back the account lock;
most steps go `Apart` from the places where the copy counts, and one lemma covers
them. `CycleInv` needs `LockInv`: what `Examine` found in the code rows is still true
when `Append` writes, as only the holder of the lock appends. That `AdvanceSMSCycle`
advances past a stored code, and stays within the cycles, follows from it: the
cycles up to the current one hold distinct codes, and there are only so many
(`RoomForCycle`, a pigeonhole argument). For the refinement each step is a `Show`, an
`Open`, a `Close` or `Unlogged`. `LateWritesNothing` needs no more than the types of
`pc`: at most one worker moves in a step, and each of its writes to the row, the
inbox or the codes has the lease in its condition.

`StopIsDue` needs `StopInv`: from a Stop on the request stays, and a worker with the
lease claimed it together with the request, so that it is on its way through
`processControl`. `CodeIsKept` needs `CodeInv`, which says for each place of `Serve` what
its worker knows of its event and of the cycle (`Level`, `Known`, `Fits`), under the
account lock. `WakeIsKept` needs `WakeInv`: a worker past its claim leaves the marker for
its release, one before it will look itself. The last holds from `subsequent` only: from
`pin_changed` `WakeIsKept` is false ([divergences](#divergences-found)), and the
hypothesis `Starts = {"subsequent"}` is that of the run `inbox_codes`.

For `DraftSync` (assumptions: normalising a normalised draft changes nothing, the
default is a draft, null values are none, bounds are naturals) `NothingForgotten` is
nearly inductive, but a step that saves or retries must also know what the queue is.
`IInv` adds to the types `Waiting` (a page that has not read the draft saves nothing; what
is in flight is pending; what is pending is in flight or has its timer), `Queued` (the
signature queued last is that of what waits, or else of what is saved), `Kept` (the
server has what the page takes for saved, or another PUT came after it) and `Sourced`
(every draft held anywhere, read answers and detached PUTs included, comes from a form
that was edited after reading, or was on the server before). `LinkWaits`
follows: the location is assigned only when nothing is pending, so the form is what
was last saved, and `PersistedIsStored` says where that is.

For `CatalogForm` (assumptions: nothing selected is no provider, service, country or offer, a
draft is a form, bounds are naturals) the invariant is `FormInv`. Neither property is
inductive: whether an answer may still be written depends on what else was asked for since,
which only the version counters know. `Fresh` says what they know: a call holds no counter
its request does not ask about (`Where`); a counter that has not moved is held by one call
at most, as whoever reads it moves it (`Unique`); a restore that awaits its services has
given up every other list (`First`), and one that awaits its countries gives up with
them (`Second`). `Flags` and `Waits` tie each loading flag to such a call, of the provider on
show. `BehindServices` and `BehindCountries` say that the lists behind one that is asked for
are empty, so that an answer which changes the selection leaves no list that was asked for
under the old one. `ListsBelong` is part of the invariant; a late draft may break it
(`stranded`), and then `Offered` still says why no wrong offer can be sent: the prices are
those of the selection, or the provider is not configured, or the page waits to restore
its draft. A step is described by the calls it leaves, the counters it moves and the call it
adds (`Turn`); one lemma (`FormGoes`) carries the invariant over any such step that meets
a few conditions on these, and each action is shown to meet them.

For `Dashboard` (assumptions: bounds are naturals, the null status is no status) the
invariant `DashInv` has the types and three parts. `Shown`: what is on show is a batch
that was created, with its own rows, and a batch shown as ended is one that will not
run again. `Sound`, for each request: what it is about and what its answer may still
say; an answered refresh that would be shown knows of the end that is on show, an
answered start is later than what is on show, a stop's answer has ended. `Alone`: one
start, one request for the batches and one refresh are out at a time, and no refresh
ends the handler of a start that is still out. The server moves `Onward` (what ended or
was erased stays so), which carries every request over a step it does not take part
in; a handler that changes what is on show sets the others aside (`Stale`), which is
why a late answer is harmless. `Latest` is the maximum of a set, for which a
well-foundedness theorem of the library is used instead of induction. `RunningIsShown`
adds `Finding`: two running batches are one (the server starts none beside another), and
every request that is still out tells of it: an answered start is of the running batch,
an answered request for the batches shows it, if none was lost, and a refresh
says that its batch is over only if it is.

For `HeroPage` (assumptions: bounds are naturals, at least one change and one press and
pages that are not empty, the null value is neither a row nor a view) the invariant
`PageInv` has two halves. For the purchases, `Linked`: a key stands for one intent and
one input and an intent for one key, over every place a key can be in (the tasks, the
request under way, the requests given up that may still arrive, and the purchase that
waits for its answer); `Issued` says that all of them were given out before, so that a
new key is new. With `OneForKey` (a key has one task; the server looks it up first)
this is `RetryBuysOnce`. A step either keeps the uses of keys (`UsesStay`) or is a
press. For the views, `Past`: whatever is shown or under way of a task is of its past;
`InOrder`: two such views have times in the order of their versions, unless the task's
own time once went back. The server moves `Onward`, a merge keeps version and time of
one of the two views (`Merging`), and so what is seen after a step was seen before or
is the row as it is (`SeenFrom`). `ShownNeverOlder` follows: the page compares times,
and `InOrder` says that they tell of the versions. `ListIsComplete` is about several
requests: `Reading` says that a task is behind the cursor only if it was read already, for a page
asked for (`SentCovers`), one answered with more to come (`MoreCovers`) and the last one
(`LastCovers`), and that what was read of it is not older than its state at the
beginning. Tasks created meanwhile push the others to later positions, never to earlier
ones, so that a task may be read twice and is never skipped; a page that is not full
reaches the first task (`PageReaches`).

The rules (`ActivationRules`, `HeroRules`, `PriceRules`) are operators, so that their theorems
need no induction over behaviours; the runs evaluate them over all inputs within
bounds, the theorems hold of every input. `RowsReadTheServer` is a case distinction over the
statuses, a uniqueness argument for the account of a number (the phones of two accounts
have different digits) and an estimate of the rounded quotient: one number short of the
quantity is rounded up to 100 per cent only from 200 numbers on, and `createBatch` takes 100
at most. `RulesOfThePage` rests on what a bought task is like (`Owned`: its refund
window ends with the number at the latest) and, for the offer, on one lemma
(`LoadStands`): a catalogue loaded for what is picked contains exactly one offer of that
pick, also when the rentals do not. It assumes that no rental lasts `Unset` hours, which stands for
no duration. `PricesWereSound` assumes that prices and stocks are numbers. Its main step is
`AheadIs`: quotations have different positions in the sorted list, by comparing the sets
of those ahead of each; a quotation that comes again is therefore found at its own
position, and `findRefreshedPrice` sees it.

Only model-checked: the liveness properties (`PurchaseResolves`, the two `StopEnds`,
`ClaimEnds`, `DraftSettles`, `CatalogSettles`, `DashboardSettles`, `ListCatchesUp`), as liveness
under fairness is out of the prover's reach.

## Divergences found

- `stop_under_recovery`. The comment in `CancelBatch` promises that Stop does not
  succeed before a provider allocation of another instance can no longer arrive.
  The startup recovery of one instance turns the live sent attempt of another into
  unknown; Stop then succeeds, and the other instance sends GetNumber afterwards.
  The quota stays respected (`purchase_two_instances`): the number is found to be
  unpersistable and queued for cancellation.

The following statements are definitions of the modules too, and false. No run keeps
them; to see one fail, add it as an `INVARIANT` (or `PROPERTY`) to a copy of the named
configuration with the bounds given here.

- `OnlySentKeepsQuota` (`BatchPurchase`; 1 instance, 1 crash). `src/README.md:147` says
  that after an upgrade or restart only requests that were *sent* without a stored
  outcome keep their quota. `RecoverBatchPurchaseOnStartup` leaves a *reserved* attempt
  as it is: a crash between reservation and send fence keeps `purchase_reserved_count` at
  1, and the batch buys nothing until it is stopped.
- `LostCallbackIsRead` (`HeroTask`; 1 worker, 2 SMS, 1 lost callback). `src/README.md:107`
  puts a poll every 45 seconds behind the callbacks. `processActive` does not poll while
  a continuation is pending: after a status=3 that was applied with its answer lost, the
  next SMS may become current, its callback may be lost, and the repeated status=3 moves
  the provider past it unread.
- `WakeIsKept` from `pin_changed` (`WebhookInbox`; 1 callback, nothing fails). A callback
  that is stored while no worker holds the activation moves `next_run_at` and sets no
  marker. The step it wakes, `transitionToSubsequentPolling`, claims no event and
  schedules the provider deadline, and the release keeps it: the code stays unread until
  the next callback or the expiry. It takes an SMS between an attempt of status=3 whose
  answer or checkpoint failed and the next one, or a late callback for the PIN's SMS.
  `src/README.md:95` says a callback wakes the worker of its number.
- `ControlIsDue` (`WebhookInbox`; from `subsequent`, 1 callback, 1 click). `SetControlAction`
  only sets `next_run_at`; if a worker holds the lease, its poll update or release writes
  the provider deadline over it. The Success or Delete (`src/README.md:93`) is then carried
  out at the next callback or at the expiry, where it still takes precedence. A Stop is
  not exposed to this, as it takes the lease (`StopIsDue`).
- `DraftSurvivesClose` (`DraftSync`). `src/README.md:87` says the complete draft is
  restored after a reload. `persistBatchDraftOnPageHide` sends nothing while an ordinary
  PUT is in flight, and that PUT carries the form before the last edit.
- `MountRestores` (`Dashboard`, from `InitOpening`). The comment at `App.vue:456` says the
  regular dashboard request restores a persisted task when the request for the batches
  failed. It asks for the activations of no batch, and the running one stays hidden until
  the page is reloaded; starting another is then refused by the server.

Smaller observations, met while modelling and visible as the exceptions of a property:

- `normalizeCodeList` (`normalizers.ts:406`) takes one of the first two follow-up codes for
  the login or PIN code if it is the same, because the API sends no phase; `CodesReadTrue`
  claims a line of its own only from the third on.
- A late draft with another provider leaves loading flags set and, with
  `handleSMSProviderChange` still waiting for the settings, is overwritten by its restore
  (`stranded`). An `online` event during the first read of the draft schedules a second one,
  which replaces edits made meanwhile (`reloaded`).
- After a failed request for the services, a price refresh may set `catalogReady` while the
  services are empty.
- `updated_at` may go back (any transaction that began before the change it waited for:
  a callback's, a stop's, a worker's), and the page then keeps the newer state off until the next change (`back`).
- A deleted row reappears with the next poll until the worker hides it.
- `refreshDashboard` and `refreshTasks` have no time limit: one hanging request stops the
  polling of its list. The login poll has one.
- A finished number with the status `login_failed` or `zero_balance_used` keeps its
  countdown.
- On `/hero-sms`, once a rental duration is picked the option of a single activation is gone
  until type or country change (`OfferIsBought` follows the order country, type, duration).

## What is not modelled

The GoPay HTTP client, signing and device data, encryption, schema migrations,
configuration parsing, HTTP decoding: input and output without protocol state.
`TransitionBatch` and `UpdateBatchConfig` outside the purchase path. The login and PIN
codes with their resends, the cleanup leases, the account session lock, the login probe
with its rotation of credentials, the proxy pool beyond its count of free entries, the
commit order of a callback and its activation: see the plan.

Of the frontend: messages, toasts, dialogs, sorting, columns, icons, clipboard, styles
and the search in the catalogue (`catalogSearch.ts`), which change no state that is sent or
decided on; the field-by-field validation of payloads (`api.ts`, the normalizers) beyond
the fields the rules read; the clock of the page, which may lag. `App.vue` is the root
component and is never unmounted, so its `onBeforeUnmount` is left out, and so is the one
of the HeroSMS page, which is left by loading another page.

## The plan

Done: the purchase protocol with its refinement, the number task, the callback inbox
with its refinement, and the four interactive parts of the frontend with the rules they
share with the server. Left, in this order:

1. `CallbackAttach`: a callback against the transaction that creates its
   activation, whichever commits first.
2. `OtpCycle`: the waits for the login and PIN codes, resends and their budget,
   dispatch checkpoints, the reconciliation of consumed events, SMSBower polling.
3. `PurchaseCleanup`: the cleanup lease with versions, as a refinement of the
   cleanup steps of `BatchPurchase`.
4. `AccountSessionLock`, `LoginStatus`, `ProxyPool`.
