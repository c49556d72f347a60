# A TLA+ model of trx_simulator

`trx_simulator` is a Django application for a retail broker: clients deposit
into a wallet, fund trading accounts, trade against live prices, buy
challenges, introduce other clients for a commission, and withdraw in crypto
through a payment provider (NowPayments). This directory models the parts of it
that move money across processes, checks them with TLC on small instances and
proves the main results with TLAPS.

## The system and its components

| Component | State it keeps | Operations | Hard behaviour | Must hold | Module |
|---|---|---|---|---|---|
| Withdrawal requests and approvals (`views.py`, `admin.py`) | `WithdrawalRequest` rows | create with debit, first and second approval, retry, reject with refund | two admins, a client and a retry racing | no submission above $1,000 without two administrators; one refund at most | `Payout` |
| Payout attempts (`payout_state_machine.py`, `payout_orchestrator.py`, `payout_providers.py`) | `PayoutAttempt` rows | submit (TXN1, POST, TXN2), appliers, lookup, aging | timeouts, late answers, crashes between transactions | one order per withdrawal; refund only what was not paid; rows agree with the provider | `Payout` |
| Payout webhook inbox (`payout_orchestrator.py`, `views.py`, `tasks.py`) | `PayoutWebhookEvent` rows | store, correlate, apply, mark, replay | duplicates, reordering, crash between TXN1 and TXN2, notices before their reference | RESOLVED means applied; nothing is applied twice; every terminal notice is handled | `PayoutInbox` |
| One-time codes and verified wallets (`withdrawal_otp.py`, `verified_wallets.py`) | challenges, addresses | issue, resend, verify, expire, use | double submit, expiry racing verification | a code is used once, before it expires | `WithdrawalOtp` |
| Wallet ledger (`wallet_ledger.py`) | `Wallet`, `WalletTransaction`, `InternalTransfer` | credit, debit, transfer to/from a trading account | partial failure of a transfer | no money appears or is lost | `Wallet` |
| Deposits (`nowpayments.py`, `views.py`) | `Deposit` | create, callback, poll, fulfil a purchase | duplicated and reordered callbacks, stale polls, a creating view that is late | credited once, and in the end | `Wallet` |
| Challenges (`challenge_engine.py`, `risk_engine.py`) | `ChallengeEnrollment`, one account per stage | activate, evaluate, advance, fail | evaluation between trades, repeated activation | one account trades; phases only advance; each ends | `Challenge` |
| Funded payouts (`funded_payouts.py`, `views.py`) | `FundedPayoutRequest`, its `WithdrawalRequest` | request, approve (simulated or real), submit, webhook | ambiguous submission, crash, a webhook faster than the rows | paid or given back, never both; profit shared once | `FundedPayout` |
| Treasury (`treasury_requests.py`, `treasury_execution_recovery.py`) | `TreasuryOperationRequest`, its audit events | submit, approve, reject, cancel, execute, recover | crash inside an execution, recovery of one that is only slow | money moves once; three people | `Treasury` |
| IB commissions (`ib_treasury_settlement.py`, `ib_commission_reversal.py`, `ib_risk_holds.py`) | obligations, adjustments, freezes | hold, approve, link, sync, reverse | any order of all of them and of the request | paid once; taken back no more than paid | `IBSettlement` |
| IB accrual (`ib_commission*.py`, `ib_network.py`, `ib_admin_ops.py`) | rules, links, obligations, carries | execute, sweep, change a rate, link | rates and links that change before the sweep | paid at the rate of the event; shares add up | `IBAccrual` |
| Trading engine (`consumers.py`, `tasks.py`, `risk_engine.py`, `admin.py`) | positions, pending orders, the account; each panel's copies | open, net, edit, close, stop-out, scan, force-close | panel, daemon and desk on the same rows | every lot realized once; balance is the ledger | `Trading` |
| Exposure, routing, pricing, market data | caches and policies | look up, decide | stale caches | decisions within policy | - |
| Audit, monitoring, reports, support, UI | append-only rows, pages | record, show | none that moves money | - | - |

The components interact through the database (row locks taken with
`select_for_update()`, unique constraints) and through calls that hold no lock:
HTTP requests to the provider, its signed callbacks, and the events a commit
sends to the panels. Celery beat starts the periodic tasks.

## Modules

| Module | Models |
|---|---|
| `WithdrawalPromise` | what a withdrawal promises its client: held once, then paid or returned, never both (abstract) |
| `Payout` | requests, approvals, payout attempts, the provider, reconciliation |
| `PayoutInbox` | the durable webhook inbox and its replay, composed with `Payout` (EXTENDS it) |
| `WithdrawalOtp` | the e-mailed codes that confirm a withdrawal or a new address, and the life of verified addresses |
| `Wallet` | deposits, purchases and transfers of one client |
| `FundedPayout`, `Challenge` | payouts of a funded account; the phases before it, composed with them (EXTENDS) |
| `Treasury` | requests that move the wallet of an IB or of the house, their execution and its recovery |
| `CommissionPromise` | what a commission promises: paid once and in full, taken back at most once over (abstract) |
| `IBSettlement` | obligations and adjustments, composed with the Treasury requests that settle them (EXTENDS) |
| `IBAccrual` | how an executed lot becomes obligations of its IB and of the IBs above |
| `Trading` | one account and all that trades it |
| `*_proofs` | inductive invariants and theorems of `Payout` with `PayoutInbox`, `WithdrawalOtp`, `IBSettlement`, `IBAccrual`, `Wallet`, `Challenge`, `Trading` |
| `SumLemmas` | lemmas about sums over finite sets, which the proofs about money rest on |
| `MC_*` | instances for TLC |

```
 WithdrawalPromise  <== implemented by ==  Payout        <== implemented by ==  PayoutInbox
 CommissionPromise  <== implemented by ==  IBSettlement  (EXTENDS Treasury)
                                           Challenge     (EXTENDS FundedPayout)
```

One database transaction is one action wherever every decision in it is taken
under a row lock. What a handler reads before its lock, and what it does between
two transactions, are steps of their own. Operators named `M_...`, placed before
the definition they would replace, are plausible mistakes (a dropped guard, a stale
read, a swapped order) which show that each property can be violated; they are not
part of the model.

### Payout

| Variable | In the code |
|---|---|
| `wr`, `approvals` | `WithdrawalRequest.status`, `first_approved_by` / `second_approved_by` |
| `wallet` | `Wallet.available_balance` |
| `refunds` | the `TX_CORRECTION` rows that refund a withdrawal |
| `feeRevenue` | the `REV_WITHDRAW_FEE` rows of `BrokerLedger` |
| `status`, `ref` | `PayoutAttempt.status`; whether `provider_reference` is not empty |
| `sub` | where each thread is in `submit_withdrawal_to_provider()` |
| `rec` | where each worker is in `reconcile_unknown_payouts_task` |
| `provider` | what the provider has really done with the order (environment) |

One database transaction is one action, because every decision in it is taken
again under `select_for_update()`. What happens between transactions is not
atomic: `submit_withdrawal_to_provider()` is the steps `SubmitPreview` (unlocked
read and `estimate()`), `SubmitClaim` or `SubmitRefused` (TXN1),
`SubmitAuthFails` or `SubmitPost`, `SubmitResponse` (step 4, HTTP), and
`SubmitSuccess`, `SubmitUnknown` or `SubmitRejected` (TXN2). `SubmitRaises` is a
TXN2 that rolled back because `transition_payout_attempt()` refused the change.
`SubmitCrash` may come between any two of them. A reconciliation run reads its
three lists without locks (`RecStart`, `RecListUnknown`, `RecListProcessing`) and
then applies their rows one at a time.

A POST is `inflight` until the provider takes it, which may happen after the
client has timed out, or never. `WebhookApplied` applies any notice that is or
was true, any number of times, in any order: loss is a notice never applied.

`PayoutAttempt.CREATED` is written and replaced inside one transaction, so it is
never visible; `WithdrawalRequest.APPROVED` is written by no code path modelled.
The estimate, amounts in crypto, e-mails and audit rows have no effect on the
properties. Amounts are naturals, gross of the fee as they are debited and
refunded.

### PayoutInbox

`event` is the `correlation_status` and `retry_count` of a row, identified as
`event_fingerprint` does by attempt and status; `arrival` is `received_at`;
`proc` is where each callback thread and each replay run is in
`process_webhook_event()`: `Correlate` (TXN0), `Apply` or `ApplyRaises` (TXN1),
`MarkResolved` (TXN2), or `MarkUnresolved`. A replay run takes the due rows
(`ReplayStart`: due are all rows that never failed, and any of those whose
`next_retry_at` may have come), newest first, at most `BatchSize` of them.

A callback thread that meets an exception answers and forgets; a replay run ends
with it, as the task has no handler. `retry_count` saturates at
`MaxAutoRetries`, beyond which its value makes no difference.

### WithdrawalOtp

| Variable | In the code |
|---|---|
| `st`, `attempts`, `late`, `code`, `payload` | a `WithdrawalEmailOTPChallenge` row: `status`, `attempts`, whether `expires_at` has passed, how many codes were sent (only the last matches `code_hash`), the frozen payload |
| `session` | the two session keys that hold a challenge id |
| `made` | the `WithdrawalRequest` with this `otp_challenge`: pending, or past it |
| `vw` | the `VerifiedWithdrawalWallet` created by this challenge |
| `balance` | `Wallet.available_balance` |
| `req` | where each web request is |

A web request of the second step reads the challenge without a lock (`Load`),
verifies the code in one transaction (`Verify`) and creates the object in another
(`FinalizeWithdrawal`, `FinalizeAddress`, `FinalizeRefused`), then clears the
session key (`PopSession`); a resend is a check of what was read (`ResendCheck`) and
a save without a lock (`ResendSave`). Any two requests interleave at these points,
and a request may die at each. `withdraw_view` is two steps, since its checks are
made before `create_challenge()` takes the lock. A code is a number: the n-th
one sent, or 0 for a wrong one; hashing is left out. "due" is a
`pending_cooldown` address whose `cooldown_until` has passed. A cooldown lasts
hours, so `CooldownEnds` waits for the requests that hold its challenge.

`FinalizeWithdrawal` is the `CreateWithdrawal` of `Payout` seen from the side of the
code; what `Payout` does next is the one action `WithdrawalLeavesPending` here.
All other movements of the wallet are `WalletMoves`.

### Wallet

A `Deposit` row is written by the view that creates the payment
(`CreateDeposit`, `SavePayment`, `CreationFails`), by the provider's callback
(`Callback`), and by the status page (`PollAsk`, `PollWrite`, an unlocked write of
whatever was read). `ipn` holds every status the provider has ever sent, and any
of them may arrive at any time, any number of times. `Finds` is the look-up by the
payment's id and then by the order id, which is why a callback may come before the
creating view has saved the payment. A purchase that meets the constraint on
active enrollments rolls its callback back: `Callback` is disabled for it. A
transfer is a PENDING row and then one transaction.

### FundedPayout and Challenge

`Challenge` keeps the account the enrollment is on in detail, and of earlier ones
only the status. An evaluation holds the enrollment's lock but not the
account's: `EvaluateRead` takes balance and peak, `EvaluateDecide` everything
else, and closes and midnights happen in between. `CloseTrade` includes
`check_and_enforce_risk()`. Money is in cents or whole units, percentages are
rounded as the code rounds them (`Quantize` half to even, `PctHalfUp`).
`FundedPayout` has the view's unlocked read (`ReadCycle`) and its locked insert
(`CreatePayout`), the one-transaction approval of a simulated payout, and for a
real one the debit, the POST, two separate updates and the webhook, with a stop
possible between any of them.

### Treasury and IBSettlement

`exec` is where the executing thread is: Step A committed (`StartExecution`), the
audit event on record (`RecordStarted`), Step B (`MoveMoney` or `StepBRaises`), and
the failure path (`MarkFailed`). `Crash` may come at each. The recovery service
passes an unlocked gate (`RecoverInspect`) and decides again under the lock
(`RecoverApply`, `RecoverBlocked`). `IBSettlement` links obligations and adjustments to
requests whose life it does not share; `SyncObligation` and `SyncAdjustment` are the
beat tasks that look for executed ones, in batches (`FirstRows`).
`IBSettlement!Promise` instantiates `CommissionPromise` with the sums that requests
have moved for each commission.

### IBAccrual

Timestamps come from `clock`. A `LotExecutionEvent` carries the rate that was in force
(a ghost: the code resolves it again when it sweeps, `RateAt` at the event's time).
`SweepPerLot` reads a sliding window, oldest first and `BatchSize` rows;
`ProcessExecution` is one event of `sweep_network`, all its levels in one
transaction. Money is in `Cent` equal parts of a cent, fine enough for
the halvings of the budget to be exact at the depth of the instance.

### Trading

| Variable | In the code |
|---|---|
| `qty`, `symbolOf`, `opened`, `traded` | the `Position` rows, their `LotExecutionEvent` and `Trade` rows |
| `panel`, `inbox` | a connection's mirror of positions and status, and the events on their way to it |
| `stopout`, `edit` | what its liquidation loop has yet to do; a row its stop edit has read |
| `daemon` | the scan under way, with the rows and prices it took at its start |
| `ledger`, `revived` | sums of `LedgerEntry`; lots a stale save has put back (both ghosts) |

A close takes its quantity from the row it has locked, whatever its caller believes.
A panel's balance is read from the row where it matters, so the model keeps no copy
of it. The feed is `Tick`: a price or none, at any time. The price a step uses is the
one of that moment (a price may be 1.2 seconds old in the code). The day does not change,
so the daily loss is the realized loss. `RefuseOrder` is the check before a market order:
a transaction of its own, which blocks the account ('Violado') when charges or the desk
have carried it beyond a limit; the opening that follows checks the status again.
`OrderNew` and an order's check are separate steps, as in the code. The dealing desk (`ForceClose`) writes a
balance without the floor at zero and checks no loss limit; so does the model.

### WithdrawalPromise

Its three variables are the fate of a withdrawal, the wallets, and the set of
withdrawals whose money reached the client. `Payout!Promise` instantiates it
with the fate read off the status of the request and `transferred` read off the
provider.

## What TLC checks

| Run | Instance | Shows |
|---|---|---|
| `payout` | 2 withdrawals of one user (one automatic, one under dual control), 2 administrators, 2 submitting threads, 1 reconciliation worker, 2 attempts; ~380,000 states | the safety of `Payout`, and that it implements `WithdrawalPromise` |
| `inbox` | 1 withdrawal, failure and progress notices, 1 callback thread, 1 replay worker that takes one row at a time, 1 reconciler; ~156,000 states | RESOLVED means applied; the inbox refines `Payout`; every stored final notice is handled in the end (`TerminalNoticesAreReplayed`), also when a newer row ends the replay runs for a while; a referenced attempt ends though its webhooks are lost. Unrecognized statuses are left to the theorem `UnrecognizedStays` |
| `inbox_poison` | the same, reconciler and fairness included, with progress and completion notices and replay runs of two rows | finding 1 |
| `otp` | 1 user, 1 route, 2 tabs, 2 challenges, 2 attempts, 2 codes each; ~780,000 states | the safety of codes and addresses under every interleaving of two tabs, and that the sweep puts due addresses in use |
| `ib_settlement` | 1 commission, 2 adjustments, 3 requests (one typed in by hand), 3 members of staff with overlapping permissions; ~610,000 states | money moves once, three people, rows agree with requests, `CommissionPromise` holds, what is paid gets credited |
| `ib_accrual` | 2 executions, 3 IBs, 2 possible rate changes, links in any order, a batch of one row; ~120,000 states | amounts, shares, links, and that no event is forgotten by the network |
| `trading` | 1 position key of 2 lots, 1 pending order, 1 panel, daemon and desk, prices that gain nothing and lose most; ~350,000 states | every lot realized once, balance equal to the ledger, suspension is final, the daemon liquidates |
| `trading_stale_save` | the same | finding 4 |
| `challenge` | a challenge of 100 with targets of 8 and 5, wins of 8 and losses of 6, deadline of 1 day, 2 payout requests of either kind, 2 views; ~950,000 states | phases, deadlines, the funded balance, paid or given back |
| `challenge_target` | the same with wins of 1 | finding 2 |
| `challenge_shared` | the same with wins only and simulated payouts | finding 3 |
| `wallet` | 1 top-up and 1 purchase of 2 units, 1 transfer, challenges that cost 1; ~1,690,000 states | credited once, conserved, and credited in the end |

The bounds are named constants. Two withdrawals of one user are what it takes for
a shared wallet and for a request refused because another is pending; two
submitters race for one row; a second attempt must never appear. The inbox run
takes one row per replay, so a second due row is always kept waiting by a newer one.
Two rows per run are what it takes for one to end the run of the other (`inbox_poison`).
Two tabs are what the races of `WithdrawalOtp` are between. Two adjustments share
one commission, and a third request lets the wallet be emptied from
under them. Three IBs are the shortest chain with a grandparent, and two events of
fractions are what it takes to carry a cent. One position key is enough for lots that are
closed by three parties, netted, partly closed and put back; a mark of -60 on a
balance of 100 crosses the stop-out line with one lot and zero with two. Wins and losses of a
challenge are such that one win passes a phase and losses break
either limit. `MaxGains`, `MinBalance`, `MaxBalance` and `MaxPending` end what trading
and repeated notices may drive without end; `MaxPending` leaves room for both deposits
of its instance to be confirming at once.

Types are not checked by these runs: they are proved (`TypeCorrect`). Deadlock is checked except in the runs of `IBAccrual`,
`IBSettlement`, `Challenge` and `Wallet`, whose instances may have done all there is
to do.

### Fairness

Safety needs none. What is assumed where a property is a liveness property:

* `inbox`: `ReconcileFairness` assumes that celery beat goes on starting the task and
  that its calls end (their timeouts are 15 s); that workers do not crash for ever;
  that an attempt once old enough is listed again and again (strong fairness of
  the list containing it, since the list is emptied between runs); and that a
  provider asked for the same payout again and again some day answers with a
  status. `ReplayFairness` is the same for the replay task: a row's `next_retry_at`
  comes. Nothing is assumed of submitting threads, callbacks, or redelivery.
  `TerminalNoticesAreReplayed` needs both tasks: a row whose transition raises holds up
  the replay until reconciliation has ended its attempt.
* `otp`: requests end, time passes and the 15-minute sweep runs; users may never come
  back.
* `ib_settlement`, `ib_accrual`: weak fairness of the beat tasks, none of staff.
* `trading`: the daemon's scan is started, and neither the whole scan nor the close
  of one position is killed every time (strong fairness, since a killed
  scan begins again). Nothing of the panels, which may all be closed.
* `challenge`: the beat task evaluates, and days pass; the trader may stop trading.
* `wallet`: the provider repeats the final notice of a payment until it is answered with 200.

## Findings

1. **One notice ends a replay run** (`OneFailureSparesTheBatch`). A ROLLING or
   CREATED notice of an attempt already PROCESSING raises in TXN1. The replay
   loop (`tasks.py:293`) does not catch it, does not count a retry, and takes rows
   newest first: the older rows of the batch are picked and not run. The docstring
   (`tasks.py:270`) says that the picked rows are run through the pipeline of the live
   callback, of which `views.py:3430` says that one failing event never breaks the rest
   of its batch. Every later run ends at the same row, whatever it would have done
   for the payouts of other clients behind it, until the PROCESSING reconciliation
   ends that attempt and the row becomes a no-op. So the older rows are delayed, not lost:
   `TerminalNoticesAreReplayed` holds of the `inbox` run, with both beat tasks running.
2. **A phase is passed with a fraction of its target** (`PassedAtTheTarget`).
   `_profit_pct()` (`challenge_engine.py:129`) is the progress towards the dollar
   target in percent; `evaluate_phase()` (line 306) compares it with the target in
   percent of the account. With a target of 8% the phase is passed at 8% of the
   target. `models.py:1296` and the comment of `test_challenge_engine.py:893` say
   that the target is the profit itself.
3. **A profit is shared twice** (`ProfitSharedOnce`). The view computes the profit before it
   locks the account (`views.py:2602`) and checks afterwards only that no request is
   open. Two submissions that read the same profit, the second one recorded
   after the first was paid, share it twice, the second time out of the account's
   capital. `funded_economics.py:28` says that what is retained is never split again.
4. **A stop edit puts closed lots back** (`NeverRealizedTwice`). `_db_mirror_update_sl_tp()`
   (`consumers.py:6121`) saves a whole `Position` read without a lock. A partial close
   committed in between is undone in the row but not in the ledger. It can also
   wipe out lots added in between. `consumers.py:5738` describes the same effect of
   another stale copy, which was repaired.

### Further divergences

These were met while modelling. No run states them: each is a reading of a few
lines, or has a theorem.

* A 2xx answer whose `withdrawals[]` is empty, or without an id, is accepted by
  `create_payout()` (`payout_providers.py:282`) with an empty reference, while
  `models.py:4169` defines PROCESSING as acknowledged "with a reference". Such a row
  is excluded from reconciliation and matches no webhook.
* `lookup_payout()` (`payout_providers.py:359`) says the reference is there for the
  UNKNOWN attempts. It is saved only with the move to PROCESSING, which never goes
  back (theorem `UnknownUnreferenced`): reconciliation never ends an UNKNOWN attempt.
* Only PENDING challenges are normalized (`withdrawal_otp.py:117`), but VERIFIED ones
  block new challenges too (`withdrawal_otp.py:205`): one whose finalization never
  succeeds blocks its user, whom `views.py:2829` tells to wait until it expires.
* `forms.py:166` says its look-up of active addresses is the one used at submission;
  `_finalize()` uses the address frozen in the challenge.
* A stop-out by a panel skips a position without a price, which "the next tick
  retries" (`consumers.py:3869`). If the close of another one suspended the account
  meanwhile, neither the panel's check nor the daemon's scan looks at it again.
* The docstring of `_fulfill_challenge_purchase()` (`views.py:1639`) says that its caller
  catches and logs an IntegrityError. `deposit_callback` does not: when the user has another
  active enrollment the whole callback rolls back, and so does every redelivery.
* `pending_balance` may become negative: the status page writes "confirming" without
  adding to it (`views.py:2390`), and the final callback subtracts what it takes to have
  been added (`views.py:2207`). `models.py:31` says the field is for display only.

## What is proved

All theorems hold for every value of the constants that satisfies the named
assumptions: any number of withdrawals, users, staff, threads, tabs, panels, positions,
deposits, requests and prices. Every safety property of the passing runs is a theorem.
Each proof module states an inductive invariant `IInv`, proves `Init => IInv` and its
preservation with one step per action, and concludes; sums of money and links get
invariants of their own on top of it.

**Assumptions.** What the constants must satisfy is named in the module that declares
them (`...Assumption`, `InboxConstants`) and evaluated by TLC for every instance. Sets whose
rows are summed are finite, as the rows of a table are (withdrawals, deposits, payout
requests, treasury requests and adjustments, positions, events, IBs); primary keys are natural numbers,
those of obligations positive; a deposit is either a top-up or the purchase of a
challenge; amounts, limits and rates are natural numbers.

**Sums.** Sums are folds, and the library's induction principles take an operator as
parameter, which no prover here can instantiate. `SumLemmas` states induction with sets
instead: a set of subsets that has the empty set, and a set whenever it has that
set without each of its elements, has all of them (`FiniteInduction`; `UpTo` for `0..N`). From
it: a sum changes at one point by what that point changes (`SumPoint`), splits and agrees
(`SumSplit`, `SumAgree`), adds up by classes (`SumClasses`), is bounded by a sum that
covers it (`SumCovered`), and functions defined by recursion over `0..N` exist (`Iteration`).

**Payout.** `IInv` is `TypeInv` (types, and what a thread past its start knows), `BooksInv`
(at most one attempt per withdrawal, its row derived from it, a refund exactly
for what was returned and a fee for what was paid), `ThreadsInv` (no two threads own one
attempt), `ProviderInv` (what rows and program counters imply about the provider),
`LookupInv` (what a run is about to apply is true) and `ApprovalsInv` (a submitting
thread has both approvals behind it). That a refund is never made for a payable order
needs the ownership of attempts, else the refused owner of one could post after
another's refund, and the truth of what is looked up. `SettleKeeps` and
`SettleKeepsProvider` show once what all seven callers of the appliers need. From it follow
`RefundsSafe`, `BooksFollow` and their parts, `TwoAdministrators`,
`UnknownUnreferenced`, and the refinement `PromiseKept`. `WalletsBalance` is inductive
relative to `IInv`: a step either leaves the set of outstanding withdrawals of a user
and his wallet alone, or moves one withdrawal into or out of it with its amount.

**PayoutInbox.** `InboxInv`: a stored row is truthful, a process between two transactions
holds a stored row, at TXN1 one whose attempt has its reference, at TXN2 one that has
been applied. It rests on `KeepsEvidence`: no step takes back a reference, an answer of
the provider or the end of an attempt. Hence `InboxRefines` (`InboxSpec => Spec` of
`Payout`, so all of the above holds of the inbox: `InboxIsSafe`), `ResolvedIsApplied`,
`UnrecognizedStays`, `RowsAdvance`. These proofs are the second half of `Payout_proofs`.

**WithdrawalOtp.** `IInv` adds to the safety properties that a row has its payload
(`RowsInv`), that sessions point at rows (`SessionInv`), and what a request in flight
knows (`RequestsInv`). The heart is `FinalizesVerified`: although
`mark_challenge_used()` looks at a copy in memory, a tab that passes the checks under
the lock always finds the row VERIFIED, because a used one has its withdrawal
(OneToOne key) or its waiting address (constraint).

**IBSettlement.** `IInv` joins `MovesMoneyOnce` to the people each status of a request
implies (`Roles`), to the one request of every row (`OneRequestPerRow`), and to what
CREDITED and EXECUTED rows say of theirs (`Settled`: not only that money moved, but
that the request is and stays EXECUTED, without which the property is not inductive).
Steps are grouped into those of Treasury, those that link (`LinksNew`), and those that leave
requests alone (`RowsOnly`). From it `MoneyMovesOnce`, `ThreePeople`, `RowsMatch`,
`EndedStays`.
`ReversalsShare` bounds the live adjustments of a commission by the commission; it needs
`Links` (a linked commission's request is about it; an adjustment, once asked for, is of a
credited commission, and has a request only when it was approved). `CommissionPromiseKept` is the refinement: what was paid for a commission is the
commission as soon as one of its requests is executed, by `OneRequestPerRow` the only one;
what was taken back is the sum over the executed requests of its adjustments, each
of which is covered by a live adjustment (`SumCovered`), so never more than the commission. That
nothing is taken back of an unpaid commission comes from `Settled`.

**IBAccrual.** The rules of an IB never overlap and no change reaches back behind the clock,
so the rate resolved at a sweep is the one recorded with the event
(`PaidAtEventRate`). Links are stamped later than every event that has happened,
so ancestors at its time are fixed (`AncestorsStay`).
`LinksHaveNoCycles`: `Chain` is shown to return exactly the IBs that can be reached by links
(`Up`, defined by closed sets), for which a new link to an IB outside makes no
cycle; the chain then has no IB twice. `SharesAddUp` is about money: the shares of the levels stay within
the budget, level by level (`SharesWithinBudget`), the shares of each ancestor
are the same sum by classes, a budget of the past stays what it was (`BudgetStays`,
from the history of rates), and an event not yet processed has shares for nobody
(`Processed`). `TypeCorrect` includes that the carried fraction stays below a cent.

**Wallet.** `EachDepositOnce`, `MoneyComesFromDeposits` (only the credit of one deposit adds
to what a client has, every other step conserves it), and from the two `MoneyIsConserved`.

**Challenge.** `IInv` says which accounts exist at which stage and what a payout's program
counter implies about provider and rows. From it `OneAccountTrades`, `PhasesInOrder`,
`NeverBoth`. `BalanceBooked` needs `PayoutsOpen` besides: a withdrawal in flight belongs to
a request that is still open, and no request exists before the account is funded.

**Trading.** `LotsAreConserved` (opened and revived lots are open or traded, position by
position), `FilledOnce`, `SuspendedStays`. `LedgerBalances` follows the balance through
opening charges, floored closes and the desk's sums (`MoneyStep`). A close books an
amount only if the price it uses is one, so the invariant says that every position a scan has still to close was
priced when the scan began and cannot have changed its symbol since (`TodoPriced`,
`EverOpened`). `TypeCorrect` covers the panels' copies as well.

Model-checked only: liveness under fairness (`TerminalNoticesAreReplayed`,
`ReferencedAttemptsSettle`, `DueWalletsActivate`, `PaidGetsCredited`, `EveryEventProcessed`,
`ActiveUnderwaterIsLiquidated`, `EveryPhaseEnds`, `FinishedIsCredited`), which the provers do not
reach, and the findings, which are counterexamples.

## Not modelled

The larger part of the repository moves no money: templates, forms, admin pages, feed
adapters, reports, audit trails, e-mails, authentication. The share of its lines
that the modules stand for stays small for that reason, and raising it would mean to
specify formatting.

* Code hashing, rate limits, TOTP and KYC gates, e-mails, address checksums: they decide
  whether a step is taken, never what it does.
* `ChallengeExpired` out of a resend is caught by neither view; the answer is an
  error page, and the state is that of `ResendCheck` ending the request.
* `submit_payout_verification()`: it changes no state the properties read, but keeps its row
  locked across the provider's call.
* Legacy withdrawals without an attempt (`_apply_legacy_withdrawal_webhook`), which lock
  `WithdrawalRequest` before `Wallet`, against the order documented elsewhere.
* Notices without an individual id, ambiguous and contradictory correlations: ids are unique in
  the model and the provider's notices carry them.
* The batch limits (100) of payout reconciliation; the replay run's is `BatchSize`.
* `_apply_lookup_outcome()` reads the status of the attempt just before it
  applies the outcome, in a read of its own; the model reads it in the same step.
* The append-only copy of deposit webhooks, and `external_challenge_activate` (a
  purchase confirmed by another site).
* Revenue rows of challenges and funded payouts.
* The commissions on challenges, deposits and revenue shares, whose sweeps have the form of the
  per-lot one.
* Edits by hand in the admin forms. The form of
  `Deposit` leaves `credited` editable, and that of `FundedPayoutRequest` its `status`
  (hence its states REJECTED and CANCELLED, which no service writes): an edit of either
  can break `CreditedOnce` or `PaidOrGivenBack`, and the page saves all the fields it has read.
* `evaluate_phase()` reads the account, then its ledger, its trades and the date. The
  account is read in a step of its own (`EvaluateRead`), the other three together
  with the verdict.
* After "confirmed" a payment of the model only finishes. A provider that failed it then
  would change no credit: a credited row takes no more callbacks, and one that has missed the
  notice is a payment that did not finish.
* Retail margin liquidation, opening spreads and per-symbol charges, routing and liquidity
  records of an order, the netting switch, new days in `Trading`.

## Plan

1. Compose `WithdrawalOtp` with `Payout`: `FinalizeWithdrawal` as `CreateWithdrawal`,
   so that a challenge leads to one order of the provider at most.
2. Compose `Trading` with `Challenge`: the account of a phase as the account that is
   traded, with days.
3. Retail liquidation in `Trading`, with its margin levels.
4. The other commission sweeps in `IBAccrual`, and its obligations as those of
   `IBSettlement`.
5. `submit_payout_verification()` and the legacy webhook paths in `Payout`.
