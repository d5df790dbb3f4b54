# chainpay verification

TLA+ models, TLC runs and TLAPS proofs of chainpay: a checkout that takes
payment in an ERC-20 token or in a native coin, verifies the payer's
transaction on chain and tells the merchant.  Every definition is translated
from the TypeScript and SQL in `src/`; `PROJECT.json` maps each to its lines.

## 1. The system

| Component | State | Operations | Talks to |
|---|---|---|---|
| Payments API (`payments.service.ts`) | `payments`, outbox | create (idempotent), detail, list (cursor) | database |
| Checkout authentication (`checkout-auth.service.ts`) | `checkout_challenges`, `payer_bindings`, `checkout_sessions`, checkout token | payment, snapshot, issue, challenge, verify, authorize | database, chain (start block) |
| Transactions API (`transaction.service.ts`) | `payment_attempts`, outbox | submit, retry | database |
| Worker verification (`processor.ts`, `settlement.ts`) | `payment_attempts`, `settlements`, `payments`, `payer_bindings.allocation_key`, outbox | claim, verify, record a verdict, settle | database, verifier |
| Chain verifier (`blockchain/src/index.ts`) | none; a sequence of RPC reads | verify, getStartBlock | chain |
| Outbox dispatcher (`dispatcher.ts`) | outbox leases, BullMQ queue | dispatch, recover | database, Redis |
| Worker lifecycle (`app.module.ts`) | the tick in flight, queue worker | one tick a second, shutdown | dispatcher, processor |
| Merchant sessions (`session.service.ts`) | `merchant_sessions`, login window | login, revoke, authorize | database |
| Merchant event stream (`merchant-events.service.ts`) | Redis subscription, connected clients | connect, deliver, close | Redis, database |
| Web checkout (`features/checkout`) | recovery record in local storage, tab lock, wallet, shown snapshot | authenticate, send, submit, recover, poll | API, wallet |
| Web dashboard (`features/dashboard`) | shown rows, newest versions per payment, poll budget, creation key | create, fetch, apply events, poll | API, event stream |
| Migrations (`migrate.ts`) | schema | apply under a lock | database |

The interactions: the API and the workers never call each other.  They share
the rows of the database and leave each other outbox rows; the dispatcher turns
`VERIFY_ATTEMPT` rows into queue jobs and `PAYMENT_UPDATED` rows into Redis
messages, which every API process fans out to its connected dashboards.

What is hard: a worker spends seconds on RPC reads between claiming an attempt
and recording its outcome, and meanwhile its lease may run out, another worker
may claim the attempt, the merchant may resume it and another payment may
settle with the same transaction; a process may die between any two
transactions; Redis may lose jobs that the outbox calls delivered; the chain may
reorganise between two reads; browsers reload between broadcasting a transfer
and saving its hash, and their wallets keep a prompt open that nobody waits for any
more.  `PROJECT.json` lists these hazards at their lines, each with the properties
that cover it; two have a note instead.

## 2. The modules
| Module | Models | Checked by |
|---|---|---|
| `PaymentLedger` | abstract specification: claims that a transaction pays a payment are refused or accepted once and for all | through `Verification` (`ImplementsLedger`) |
| `Verification` | the core: submit, retry, claim, verdicts, settle, as transactions on the rows of `payments`, `payment_attempts`, `settlements`, `payer_bindings.allocation_key` and `outbox` | `MCVerification` |
| `VerificationProofs` | theorems about `Verification` for all constants: types, the agreement of payments, attempts, settlements and claims; it implements `PaymentLedger`, and its feed of events is exact | the prover |
| `WorkerProofs` | what stale workers remember: one writer, blocks never switched; final outcomes, reasons of reviews, wake-ups, version counts; `Delivery` implements `Verification`, and nothing is acknowledged unsent | the prover |
| `Delivery` | extends `Verification` with the dispatcher, its leases and batches, the recovery scan, and a queue that loses jobs | `MCDelivery` |
| `Verifier` | `RpcVerifier.verify` read by read on a chain that grows and reorganises | `MCVerifier` |
| `VerifierProofs` | what is attested was paid, in one block, that stays | the prover |
| `Checkout` | tokens, challenges, binding, allocation claims, sessions | `MCCheckout` |
| `CheckoutProofs` | tokens, sessions, claims, challenges and start blocks | the prover |
| `Payments` | idempotent creation by overlapping transactions; the list and its cursor | through `CreationForm` |
| `CreationForm` | extends `Payments` with the dashboard's form and its idempotency key | `MCPayments` |
| `PaymentProofs` | one payment per key, and per form; the walk is complete; the form is one client of the API | the prover |
| `MerchantEvents` | the shared Redis subscription, streams, deliveries, heartbeats | `MCMerchantEvents` |
| `EventProofs` | whom an update reaches, and who may miss it | the prover |
| `CheckoutClient` | the tabs of a payer's browser, their lock, the recovery record, the wallet | `MCCheckoutClient` |
| `ClientProofs` | one transfer per browser; what is shown advances | the prover |
| `Dashboard` | the dashboard's queries, events, cache of versions and polling | `MCDashboard` |
| `DashboardProofs` | nothing older replaces what is shown; the cache and polling keep their limits | the prover |

How they compose.  `Delivery` contains `Verification` (`EXTENDS`) and is shown to
implement it *with its fairness* (`ImplementsVerification`): `Verification` says
that a due attempt is eventually claimed, `Delivery` lets a worker claim only what
it takes from the queue and shows that outbox and recovery scan make it so.
`Verification` implements `PaymentLedger` under the mapping at its end.  `Verifier`
computes what `Verification` takes as given: `EvidenceMatchesRecord` is exactly the
assumption `Evidence` of `Verification`, and `OneWriter` of `Verification` is the
reason why `Verifier` may run one check at a time.  `Checkout` and `Payments` end
where `Verification` starts: with payments created and bound.  `CreationForm`
contains `Payments` (`EXTENDS`): a request the form has given up goes on in it.
`Dashboard` takes for granted that a stream that is up delivers, and
`GapOnlyWhileOpening` of `MerchantEvents` says when it does.  `CheckoutClient` sees the
server through the snapshots that `Verification` gives rise to: versions grow, a
payment leaves `AWAITING_PAYMENT` and may come back to it, and ends `CONFIRMED`.

Conventions.  An action is a committed database transaction, an autocommit
statement, or one awaited read of the code that can be stale when it is used; what
a handler remembers across an `await` is in a variable of its own (`running`,
`request`, `batch`, `scan`, `seen`, `deliveries`, `hand`, `answer`, `reply`, `fetch`).  Time is not counted: a lease,
an expiry or a due date is a fact that becomes true at some moment (`ExpireLease`,
`NextCheckDue`, `ExpireChallenge`).  History variables and fields say so where they
are declared and never guard an action.  An operator whose comment begins with
"Fault:" is not part of the model: it is a plausible mistake in the operator after
it, and `PROJECT.json` ("mutants") names for each property of a passing run one
such mistake that violates it.

### Verification

| State | Code |
|---|---|
| `payment` | `payments.status`, `payments.version` |
| `attempt` | `payment_attempts`: status, version, `retry_count`, `block_hash`, `error_code`, `lease_until` and `next_check_at` against the clock |
| `settlement` | `settlements`, with `UNIQUE(payment_id)` and `UNIQUE(chain_id, tx_hash)` |
| `allocated` | `payer_bindings.allocation_key IS NOT NULL` |
| `updates`, `wakeups` | outbox rows `PAYMENT_UPDATED`, `VERIFY_ATTEMPT` |
| `running` | the row a worker got from `RETURNING *` and uses after seconds of RPC |

| Action | Code |
|---|---|
| `Submit`, `Retry` | `TransactionService.submit`, `retry`, each one transaction |
| `Claim` | the claiming `UPDATE` of `VerificationProcessor.process` |
| `Reschedule` | its recording transaction for every verdict but `VERIFIED`, with the retry budget, the payment's new status, its event and the wake-up |
| `SettleWin`, `SettleConflict` | `settle`, by whether the `INSERT INTO settlements` wins |
| `Discard`, `Crash` | the fenced statement finds no row; the process or the transaction fails |
| `ExpireLease`, `NextCheckDue` | the clock passes `lease_until`, `next_check_at` |

### Delivery

`row` holds the columns of outbox rows that matter to the dispatcher (`holder` stands
for the `attempts` counter that fences the acknowledgement), `tick`, `batch`, `sent`
and `scan` where each dispatcher is in its tick, `queue` the BullMQ jobs.  A tick
claims a batch, then for each row enqueues or publishes and acknowledges in
separate steps, then scans for due attempts; any step may throw, which ends the
tick and skips the scan.  Redis may lose any job.

### Verifier

A block is represented by the chain that ends in it, so that a hash names its
ancestors.  A check reads in the order of the code: receipt, canonical hash of its
block, head, codes by height, and the rereads; `Grow` and `Rewind` may come
between any two reads.  `recorded` is the attempt's `block_hash`, `Forget` its
clearing by verdicts that carry no evidence.

### Checkout

Requests read before they write: `AskChallenge` and `InsertChallenge`, then
`AskVerify`, `ReadHead`, and `Accept` (the binding transaction with its row locks,
its fence on token and challenge, and the unique allocation key) or `Refuse`.
`Issue` rotates the token, unless a payer is bound.

### Payments

`Begin`, `Insert`, `Commit` and `Abort` are the steps of the creating transaction:
`ON CONFLICT DO NOTHING` waits for an uncommitted row with the same key.
`ReadWinner` is the second statement of the loser.  `created_at` is the time of
`Begin`, so a payment may appear below the cursor of a walk; times tie, and ids are
random.  `NextPage` is one call of `list`; `InOrder` is its `ORDER BY`, by what it
returns: the sequence of the rows in which each is newer than those after it.

### MerchantEvents

`redis`, `remembered` and `channel` are the connection as the client library keeps it
(it reconnects by itself and restores the subscription); `subscribed` is the
service's shared promise, `stream` what each request has come to.  `RedisCloses` is
the `close` handler, which runs for a lost connection and for every failed attempt
to reconnect, `Recheck` the second session check together with the registration,
`CheckSession` and `Write` the two steps of a delivery.

### CreationForm

`form` is `creation.current` of `usePaymentActions` with what the page waits for.
`Submit` sends the key the form has kept, or a new one; `LoseAnswer` is the time-out
or a lost connection, after which the request goes on in `Payments`; `Refused` is the
400 that drops the key, which the same request gets every time; `Leave` reloads the
page and forgets the key.  `OtherClient` is whoever else uses the merchant's API.

### CheckoutClient

| State | Code |
|---|---|
| `storage`, `notify` | the recovery record in `localStorage`; tabs with a `storage` event to come |
| `lock` | the Web Lock `chainpay:send:<id>`; held from `Send` until the tab is idle again |
| `step`, `hand` | the await each tab is at (`idle` is `running.current = false`), and what it has in hand |
| `prompt` | what became of the transfers the wallet was asked for; it outlives the tab |
| `view`, `shown` | the React state, the snapshot of the query |
| `answer`, `reply` | the answers of a tab's poll and of its refresh on their way |

Each `await refresh()` is two steps, `RefreshRead` at the server and `Refresh`, which
merges the answer; `RefreshStatus` is the button that starts one, polls are `Poll` and
`Polled`.  `Send`, `Refresh`, `Prepare`, `Ask`, `Sent` and `Declined` are `send` between
its awaits; `SendRequested` is the guard of the wallet's transport, which keeps the
wallet library from asking a second time.  `Post`, `Refresh` and `Prepare` are `submit`, with the renewal of the session;
`RecoverHash` and `SubmitSaved` start `submit` from the panel, which takes no lock.
`Fail` is any await that throws, `Crash` a reload or the end of a tab.

### Dashboard

`fetch` is where each query's request is, so that a request may be cancelled, or
answered with rows that were read before a newer event: `Read` and `Answered` are apart.
`marks` is the cache of `rememberVersion`, a `Map` in the order of its insertions: for
each payment its version, and the payments that were remembered after it (`after`).
The rows of an answer move to the end, and an entry with a full cache after it is
the one that the code evicts (`WithinCap`); `budget` what polling may still ask.
`Deliver` is `acceptPaymentEvent` with `refreshQuery`, `Ready` the stream's `ready`,
`Poll` the interval, `Focus` and `RefreshPayments` what a user does.

`creation` is how far `create` of `usePaymentActions` is for each payment: `CreatePayment`
is its commit at the API, `Created` the answer, which opens the details (`onCreated`)
although the list need not have the payment, and `Linked` the end of the request for
a checkout link with the plain `invalidateQueries` after it.  `ShowDetails` is shared by
`Created` and `OpenDetail`.  What the form does when the answer is lost is the subject of
`CreationForm`; here the answer may just never come.

## 3. What the runs show

| Run | Instance | Shows |
|---|---|---|
| `attempts` | 1 payment, 2 hashes, 2 blocks, budget 1, `MaxVersion` 4, fair clocks and claims | `TypeOK`, `RowsAgree`, `OneWriter`, `OutcomesAreFinal`, `InclusionNeverSwitches`, `NeverStuck` |
| `race` | 2 payments, the same hash, budget 2, `MaxVersion` 5 | `SettledOnce`, `AllocatedUntilPaid`, `FeedExact`, `ReviewHasReason`, `WaitingHasWakeup`, `ImplementsLedger` |
| `delivery` | 1 dispatcher, batches of 1, 1 failure, fair ticks | `DTypeOK`, `EveryUpdatePublished`, `ImplementsVerification` |
| `verifier` | 2 confirmations, height 3, 2 faults, checks for ever | `VTypeOK`, `VerifiedIsFinal`, `VerifiedIsPaid`, `EvidenceMatchesRecord`, `PaidIsDecided` |
| `verifier_rejected` | the same, 1 reorganisation | a violation, see below |
| `checkout` | 2 payments of the same terms, 2 payers, 2 requests at a time, 1 rotation, 2 challenges, 2 heights | `CTypeOK`, `OldTokensAreDead`, `SessionsOfThePayer`, `ClaimsAreExclusive`, `ChallengeUsedOnce`, `StartBlockIsFresh` |
| `payments` | 1 form, 2 requests at a time, 2 keys, 3 requests' contents of which one is malformed, pages of 1, 2 clock readings | `FTypeOK`, `OnePaymentPerKey`, `OnePaymentPerForm`, `WalkIsComplete` |
| `events` | 2 dashboards of 2 merchants, 1 update, fair heartbeats and queries | `ETypeOK`, `SentIsScoped`, `GapOnlyWhileOpening`, `DeadStreamsClose` |
| `events_gap` | 1 dashboard, 2 updates | a violation, see below |
| `client` | 2 tabs, 2 transfers, 1 foreign hash, `MaxVersion` 2, 1 poll at a time | `ClientTypeOK`, `OneTransfer`, `ShownAdvances` |
| `saved_hash` | 2 tabs, 1 transfer, 1 foreign hash | a violation, see below |
| `dashboard` | a list of 2 payments, of which the page may create 1 and show its details, a cache of 1, 1 polled request, 1 failure or refresh | `DashboardTypeOK`, `NothingOlder`, `NeverSilentlyStale` |

Every property of a passing run can be broken: `PROJECT.json` ("mutants") names a
mistake in one mapped definition with which TLC refutes it in the same instance.

### The bounds

* `MaxVersion` bounds claims and retries: an attempt that has reached it is claimed
  and resumed no more, while what is under way may still be recorded.  A claim and
  its verdict raise the version by two, a retry by one.  `attempts` has a budget of
  one, so that four admits a technical failure that leads to the review, the merchant's
  retry and another claim, with a worker of the first claim still about, or two checks
  that fail for other reasons.  `race` has a budget of two and five versions: two
  technical failures with a wake-up between them, the review, and the retry; and a
  conflict with the other payment at any point.  The theorems hold for every
  `MaxVersion`, every budget, any number of payments, hashes and chains, which is how
  conflicts are told apart by chain.
  In `CheckoutClient` it bounds the payment's changes: two lead to `CONFIRMED`, or
  back to `AWAITING_PAYMENT`, which is when a tab may want to pay again.
* `MaxPolls` bounds the polls under way in all tabs together: what a tab shows depends
  on its own answers only, of which a poll's and a refresh's are the two that overtake
  each other.
* `delivery` has one dispatcher, since the interleavings of several make no
  difference to liveness; what several do to each other's rows is the subject of
  `DeliveryImplements` and `AckMeansHandedAlways`, for any number of them.
* `MaxFaults` bounds failures of Redis and processes in `Delivery`, reorganisations
  and failing reads in `Verifier`.  Two reorganisations suffice to leave a block and
  to come back to it between two reads, which is the case `VerifiedIsPaid` is about.
* `MaxHeight` bounds the chain: it is one more than the confirmations, so that
  there is a block with enough of them and one with one too few.
* `MaxToken`, `MaxChallenges` and `MaxHead` bound rotations, challenges and the head
  `getStartBlock` returns.  One rotation makes the token of a request under way an old
  one; two challenges are what two payers need to compete for a payment, and one
  payer to claim two payments; two requests meet in every order.
* `MaxTime` gives two clock readings: payments of the same millisecond and of
  different ones, which with random ids is enough to insert a payment on either side
  of a cursor.
* `MaxForms` and the keys: one form with a key, repeated as long as requests last, and
  another client that uses the other key, or the one the form has used.
* `MaxEvents` bounds published updates: with one, each update is either on its way
  or lost; deliveries of two updates share nothing but the stream they may close.
* Two tabs: one that is in the send flow and one that recovers, pays or shows.  With
  two transfers the second one that must not be asked for is there to be asked for.
* `Final`, `Cap`, `PollBudget` and `MaxFaults` of `Dashboard`: a payment is created and
  changes once; a cache of one makes every second payment evict the
  other; one polled request leaves the page to the stream afterwards.  One
  payment exists (`Existing`); the other is created while the page is open, by the page
  itself, which opens its details, or by another client of the API.  Details are
  opened, closed and opened again without a bound.
* Deadlock is not checked: every instance ends when its bounds are reached, and
  the system itself rests once all payments are confirmed.

Symmetry is used for sets of model values in runs of safety properties only.

### Fairness

* `Verification` (`attempts`): leases run out and checks come due because clocks run;
  that a due attempt is claimed is an assumption there and a result in `Delivery`.
* `Delivery` (`delivery`): a tick is started every second by `setInterval`
  and the code of a tick goes on or fails, so each of its steps is weakly fair; the
  queue worker takes jobs, so claims of queued attempts are.  Failures are not
  fair: they happen `MaxFaults` times, or not at all.
* `Verifier` (`verifier`): the worker checks an undecided attempt again and
  again, by `NeverStuck`.  The chain need not grow.
* `MerchantEvents` (`events`): the heartbeat is a `setInterval`, queries are
  answered or fail.  No fairness is assumed of Redis, clients or merchants.
* `Dashboard` (`dashboard`): requests are answered or fail, the page reconnects its
  stream, events are published or lost, and the interval runs, which it does in the
  foreground only.  `NeverSilentlyStale` excepts the page that has announced that
  polling is paused, as the code does.  `Linked` is fair because the request for a link
  times out after 20 seconds, and the code goes on either way; that the answer to a
  creation comes is not assumed.
* `CheckoutClient` and `CreationForm` state none: payers, merchants and wallets are
  never assumed to do anything.

### Assumptions about the browser

* `localStorage` is not cleared, and a Web Lock is released when its tab is gone; the
  repository's `README.md:101` lists the first as a limit.
* Each tab polls any number of times: the budget of 60 requests is left out of
  `CheckoutClient`, which allows more behaviours, and is kept in `Dashboard`, where a
  property depends on it.
* `Dashboard` has one filter and one page, to which all payments belong; cached
  answers are not garbage collected.

### Disagreements with the documents

* `verifier_rejected`: `docs/spec.md:51` says that a changed block hash returns the
  attempt to `PENDING_CHAIN` for full re-verification.  The code rejects for good on
  the first inclusion it sees, with no confirmations
  (`packages/blockchain/src/index.ts:260`).  In the trace, the receipt shows the
  transaction without effect (`void`: it reverted, or has not exactly one matching
  log) in a block after the start block; the attempt is rejected for that; a
  reorganisation, during or after the check, replaces the block; another one holds the
  transaction with its effect and gets its confirmations; and the attempt stays
  `REJECTED`.
* `events_gap`: the repository's `README.md:107` says that a Redis disconnection
  closes streams so that the reconnection triggers an HTTP refetch.  A stream between
  `connect()` and its registration (`merchant-events.service.ts:62-98`) is in no set
  that the `close` handler looks at: it opens without a subscription and misses what
  is published until Redis is back.  `GapOnlyWhileOpening` shows that this is the
  only way to miss an update silently.
* `saved_hash`: `README.md:97` says that a known saved hash is never silently
  discarded.  The recovery panel takes no lock, and the send flow saves its marker
  (`use-checkout-actions.ts:161`) without looking at the storage again: a hash that
  another tab saved between the flow's first look and the wallet's prompt is
  overwritten.  `OneTransfer` shows that no second transfer *of this browser* follows
  from it.

Three more limits show in the models, without a sentence of the documents that they
contradict.

* The page shares one version per payment between its queries: an event whose version
  another query's answer has already raised is dropped, so a visible query whose own
  fetch failed, or was cancelled, stays as it is until polling or the user asks again;
  that is why `NeverSilentlyStale` excepts a page with an error or without budget
  (compare `docs/spec.md:83`).
* The same sharing, without an error: the merchant creates a payment while the answer
  to the list's *first* request is on its way without it.  The details open at once,
  their answer raises the shared version, the creation event is dropped for that
  (`realtime.ts:22`), and the `invalidateQueries` after the creation
  (`use-payment-actions.ts:68`) is deduplicated with the request under way: the comment
  at `use-payment-updates.ts:17-18` names this for events, which is why they cancel
  first.  The list then lacks the payment, with no error.  Polling repairs it while the
  created payment's details are open and pending; once they are closed, or the payment
  is confirmed, and nothing listed is pending, no poll runs.  The model marks such a payment `overlooked`, and
  `Current` excepts it: that one row may be missing from the list, while the details
  and all other rows must be right.  Without the exception TLC finds
  `NeverSilentlyStale` violated by this sequence.  A later accepted event for
  any payment, a refocus or a reconnection of the stream repairs it too.
* A saved hash that was mistyped or rejected cannot be replaced in that browser: the
  panel asks for a hash only while none is saved.

## 4. What is proved

Each theorem holds for every value of the constants: any number of payments, hashes,
blocks, workers, dispatchers, payers, requests, keys, dashboards and tabs, every retry
budget, and every bound.  They rest on the named ASSUMEs of the modules they are
about, which say that the marks for "none" are not among the real values and that
numbers are numbers, and which the runs evaluate.

| Theorem | Module | Property |
|---|---|---|
| `TypeCorrect` | `VerificationProofs` | `TypeOK` |
| `RowsAgreeAlways` | `VerificationProofs` | `RowsAgree` |
| `SettledOnceAlways` | `VerificationProofs` | `SettledOnce` |
| `AllocatedUntilPaidAlways` | `VerificationProofs` | `AllocatedUntilPaid` |
| `OneWriterAlways` | `WorkerProofs` | `OneWriter` |
| `InclusionNeverSwitchesAlways` | `WorkerProofs` | `InclusionNeverSwitches` |
| `OutcomesAreFinalAlways` | `WorkerProofs` | `OutcomesAreFinal` |
| `ReviewHasReasonAlways` | `WorkerProofs` | `ReviewHasReason` |
| `WaitingHasWakeupAlways` | `WorkerProofs` | `WaitingHasWakeup` |
| `VersionsCountWritesAlways` | `WorkerProofs` | every write raises the row's version by one |
| `Refinement` | `VerificationProofs` | `ImplementsLedger` |
| `FeedExactAlways` | `VerificationProofs` | `FeedExact` |
| `DeliveryImplements` | `WorkerProofs` | `Delivery` does to the rows what `Verification` does |
| `DeliveryTypeCorrect` | `WorkerProofs` | `DTypeOK` |
| `AckMeansHandedAlways` | `WorkerProofs` | a row is acknowledged only after it was handed over |
| `VerifierTypeCorrect` | `VerifierProofs` | `VTypeOK` |
| `VerifiedIsFinalAlways` | `VerifierProofs` | `VerifiedIsFinal` |
| `VerifiedIsPaidAlways` | `VerifierProofs` | `VerifiedIsPaid` |
| `EvidenceMatchesRecordAlways` | `VerifierProofs` | `EvidenceMatchesRecord` |
| `CheckoutTypeCorrect` | `CheckoutProofs` | `CTypeOK` |
| `OldTokensAreDeadAlways` | `CheckoutProofs` | `OldTokensAreDead` |
| `SessionsOfThePayerAlways` | `CheckoutProofs` | `SessionsOfThePayer` |
| `ClaimsAreExclusiveAlways` | `CheckoutProofs` | `ClaimsAreExclusive` |
| `ChallengeUsedOnceAlways` | `CheckoutProofs` | `ChallengeUsedOnce` |
| `StartBlockIsFreshAlways` | `CheckoutProofs` | `StartBlockIsFresh` |
| `OnePaymentPerKeyAlways` | `PaymentProofs` | `OnePaymentPerKey` |
| `OnePaymentPerFormAlways` | `PaymentProofs` | `OnePaymentPerForm` |
| `WalkIsCompleteAlways` | `PaymentProofs` | `WalkIsComplete` |
| `PaymentsTypeCorrect` | `PaymentProofs` | `PTypeOK`, the part of `FTypeOK` that is about the API |
| `FormImplementsApi` | `PaymentProofs` | `CreationForm` does to the API what `Payments` does |
| `ApiKeepsItsPromises` | `PaymentProofs` | `OnePaymentPerKey` and `WalkIsComplete`, with the form |
| `FormTypeCorrect` | `PaymentProofs` | `FTypeOK` |
| `EventTypeCorrect` | `EventProofs` | `ETypeOK` |
| `SentIsScopedAlways` | `EventProofs` | `SentIsScoped` |
| `GapOnlyWhileOpeningAlways` | `EventProofs` | `GapOnlyWhileOpening` |
| `ClientTypeCorrect` | `ClientProofs` | `ClientTypeOK` |
| `OneTransferAlways` | `ClientProofs` | `OneTransfer` |
| `ShownAdvancesAlways` | `ClientProofs` | `ShownAdvances` |
| `DashboardTypeCorrect` | `DashboardProofs` | `DashboardTypeOK` |
| `NothingOlderAlways` | `DashboardProofs` | `NothingOlder` |

The arguments, and the invariants they need:

* `Agreement` (`VerificationProofs`).  `RowsAgree` is not inductive: to see that
  `settle` may confirm, one has to know that a payment with an active attempt is
  unpaid and still holds its claim.  `Agreement` joins `TypeOK`, `RowsAgree`,
  `SettledOnce` and `AllocatedUntilPaid`.  It does not mention `running`: every write
  of a worker is guarded by the fence, which re-establishes all it needs to know of
  the row, namely that the attempt is `VERIFYING`.  This is why the rows stay
  consistent whatever stale jobs there are.
* `JobsKnow` (`WorkerProofs`).  `OneWriter` speaks of jobs that pass the fence, and a
  job whose lease ran out does not; the invariant drops the lease: two jobs of an
  attempt have different versions, and a row that still has the version of a job
  is the row that job claimed.  Versions only grow, so a write makes every other
  job stale for good.  The evidence a fenced job may record follows: it names the
  block of the row, if the row has one (`InclusionNeverSwitches`).
* `ReviewHasReason` adds nothing to `Agreement` and `JobsKnow`: a recorded retry
  count is one more than the row's, which was below the budget, so it never jumps
  past it; and settlements are never withdrawn, so the other payment a conflict
  names stays settled.
* `LeaseOfClaim` (`WorkerProofs`): only a `VERIFYING` row has a lease, so the
  clock cannot touch an outcome.  With `Agreement`, each step is shown to rewrite
  an attempt without outcome, of an unconfirmed payment.
* `Refinement` maps `Submit` to `Propose`, a rejection to `Refuse`, `SettleWin` to
  `Pay`, and every other step to a stutter.  `Agreement` provides the guards:
  `Propose` asks for an unpaid payment, `Pay` for a claim under examination.
* `FeedExact` rests on `SetPayment` never being reached for a confirmed payment:
  the event numbered with the current version tells the current status, so a
  payment that is not confirmed has no `CONFIRMED` event.
* `DeliveryImplements` needs `NamesAttempts`: jobs of the queue and rows of a recovery
  scan name attempts, so that working on one is a `Claim`, or nothing.  With it every
  theorem about the safety of `Verification` holds of `Delivery`.  `DTypeInv` adds
  `Dispatching`, what a dispatcher has on its way at each point of its tick; and
  `OnlyHanded` carries `AckMeansHanded` through batches that two dispatchers claim one
  after the other.
* `CInv` (`CheckoutProofs`): a verification under way remembers a challenge that exists
  and a head read after it was issued (`RequestInv`); a binding keeps its claim until
  the payment is confirmed (`ClaimInv`), so the unique key is never vacated by a
  payment that is still open; `NumberedInv` keeps challenges apart, of which
  `ChallengeUsedOnce` speaks.
* `VInv` (`VerifierProofs`).  `ChainInv`: the height up to which blocks are final
  trails the head by less than `Finality`, which is the promise of the network.
  `CheckInv` says what a check may rely on at each of its reads (`Trusted`, `Counted`,
  `Recoded`).  The codes are read by height, and the chain may be another one at that
  moment; but once the head has been counted, the height of the receipt is final, so
  codes read from then on are those of one block, and it is the receipt's if the
  receipt is found there again.  `RecordInv`: an attempt that is `verified` has recorded
  a block that is final, canonical, and pays.
* `KeyInv` (`PaymentProofs`): a transaction that has inserted holds its key alone, and
  the key has no row; one that lost can see the row it lost to (`HoldsKey`).  `FormInv`
  collects whatever key was used with whatever request, in rows, in creations under
  way or answered, and in the form: a key of a form is used with one request only,
  hence no answer to it is a conflict.  `PageInv` ties the request the page waits
  for to the form it shows.
* `WalkInv` (`PaymentProofs`): what the walk has listed lies above its cursor, newest
  first, and each payment it promises is a row that still matches and is either
  listed or below the cursor.  A payment that appears above the cursor is not
  promised, one below it does no harm.  The step of a page needs to know of its
  rows that they leave none out.  `SortingExists` shows that a finite set has an order at
  all, without induction: the sets without one would have a smallest one by
  inclusion, which has an oldest element and, less that element, an order;
  `SortingIsOnto` that an order leaves out no element, since it repeats none.
* `FormImplementsApi` maps each step of the page to the step of the API in it, or to a
  stutter, so what `Payments` promises holds behind the form.  `IdInv` keeps ids
  apart, also those of transactions that have not committed.
* `SessionInv` (`EventProofs`): a delivery past its session check carries an update
  from before that session's end, whatever happens before its write.  `GapInv`: a
  stream that is open without a subscription is one that Redis overtook.
* `ClientInv` (`ClientProofs`): the storage is empty only while there is no transfer;
  a tab between the lock and the prompt holds the lock and knows there is none
  (`TabInv`); and no tab but the holder of the lock ever empties the storage.  The
  holder does so only for the transfer that was declined.
* `DInv` (`DashboardProofs`).  `CacheInv`: the cache is totally ordered by `after`, and
  its oldest entry has all others after it, hence the limit.  `QueryInv`: a request's
  rows are no older than what its own query shows, since it was sent later, and a
  query that is not visible has none under way.  `CrossInv` is what
  `NothingOlder` needs: rows on their way that are at least as new as the cache's
  version are at least as new as what any query shows.  An event keeps it because
  it cancels every request for its payment; an answer, because its rows then are
  the cache's version.  It says nothing of a payment the cache has dropped, and there
  the page may go back.

Each preservation proof has one step or lemma per action, and under it a step per
conjunct the action can disturb.

Only model-checked: liveness (`NeverStuck`, `EveryUpdatePublished`, `PaidIsDecided`,
`DeadStreamsClose`, `NeverSilentlyStale`, and the fairness part of
`ImplementsVerification`), which is out of the prover's reach, as is what a recursive
definition computes for every input.  Every invariant and every action property
that a run checks is the subject of a theorem.

## 5. What could follow

1. `SettlementTx`: `settle` statement by statement, with row locks and
   `READ COMMITTED`, shown to implement `SettleWin`, `SettleConflict` and `Discard`.
2. Several filters and pages in `Dashboard`, composed with the cursor of `Payments`.
3. `Amounts`: decimal parsing and formatting as recursive functions on short inputs.

## 6. What is not modelled, and why

* `detail`, `snapshot` and other reads that feed one response: no later step of the
  server uses them.
* The login window and the checkout's request limits: maps in one process, read and
  written without an `await` in between, which sequential tests reach.
* The migration runner: it applies everything in one transaction under an advisory
  lock, so that runners take turns and a crash leaves nothing.
* In the checkout page: connecting, switching the chain, and showing balances; each is
  repeated by `send`, whose failures at any of these checks are `Fail`.
* In the dashboard: signing in, the choice of filters and pages, and issuing further
  links.
* Wording and layout, HTTP parsing, origin checks, cookies, password hashing, the
  configuration and health modules, the benchmark, and the React components: no
  protocol.
* Graceful shutdown of the worker: it can only end what a crash may end at any
  moment, and crashes are modelled.
* Signatures: `AskVerify` accepts a challenge of whoever signed it; that the signer is
  the challenge's payer is the library's promise.
* Amounts: a transaction meets the payment's terms or does not (`meets` and `effective`
  in `Verifier`).
