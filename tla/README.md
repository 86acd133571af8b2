# PayFlow backend: TLA+ models and proofs

PayFlow is a payroll and payments service: businesses hold a wallet, fund it by bank
transfer, pay employees and third parties through payment providers (Paystack, Korapay,
VFD), and run payroll with Nigerian or Ghanaian deductions. This directory holds TLA+
models of its code, the configurations that check them with TLC, and proofs checked by
TLAPS. Paths are relative to the repository.

## Inventory

State lives in PostgreSQL unless said otherwise. `cmd/server/main.go` wires everything:
the wallet service has a ledger and, with Redis, a cache; the transfer service uses the
wallet service and the provider manager; payroll and its scheduler know each other; two
goroutines run the daily and the weekly reconciliation.

| component | state | operations | what makes it correct |
|---|---|---|---|
| Wallet store (`repository/postgres/wallet_repo.go`, `wallet_transaction_repo.go`, `ledger_repo.go`) | balance, locked balance, transactions (unique reference), ledger entries | conditional UPDATEs, inserts | each statement is atomic; nothing spans two |
| Wallet service (`service/wallet_service.go`, `ledger_service.go`) | none of its own | RecordDeposit, RecordWithdrawal, LockBalance, UnlockBalance, GetBalance | money moves exactly with its recorded transactions; the ledger agrees with the history |
| Balance cache (`platform/cache`) | Redis key, 30 s to live | GetOrLoad, Invalidate | it converges to the balance |
| Single transfers (`service/transfer_service.go`) | transfers (unique reference) | ExecuteTransfer, RetryTransfer | one payment leaves at most once; locks are given back or used once; only what is paid is charged |
| Webhooks (`api/handler/paystack_webhook_handler.go`, `wallet_webhook_handler.go`) | none | deposit notifications, transfer status changes; the answer is always 200 | late, repeated and reordered events do no harm |
| Provider manager (`service/provider/manager.go`) | none | default and fallback chain, bulk: native, split, or five concurrent workers | no item of a batch is lost, paid twice or misreported |
| Circuit breaker (`service/provider/circuit_breaker.go`) | state, failures, last failure, in memory under a mutex | Allow, RecordSuccess, RecordFailure | a failing provider is blocked and probed again |
| Provider clients (`platform/*`) | the provider's own | submit, query | every answer is read as success, processing, failed or error |
| Batch transfers (`service/transfer_batch.go`, `bulk_transfer_service.go`) | transfers | ExecuteBatchTransfer | as for single transfers, per item |
| Payroll runs (`service/payroll_service.go`, `payroll_processing.go`) | payroll_runs: draft, pending_approval, approved, processing, completed, rejected, failed | submit, approve, reject, amend, reverse, process, verify | an approved run is paid exactly once; statuses follow the documented order |
| Payroll scheduler (`platform/scheduler`) | Asynq tasks in Redis, or gocron jobs in memory | SchedulePayout, ProcessApprovedPayroll | an approved run is eventually processed |
| Payroll and tax calculation (`service/payroll_calculation.go`, `service/tax/*`) | none; it reads employees, cadres, rules and loans in several statements | gross to net, PAYE, pension, NHF, NSITF, Ghana | every active employee is paid once; lines, totals and returns agree; each unit of income is taxed at its own rate |
| Loans (`service/loan_service.go`) | loans and repayments | create, cancel, deduct by payroll, settle | the sum repaid never exceeds the loan |
| Leave (`service/leave_service.go`) | types, requests, balances | submit, approve, reject | no balance is overdrawn; what is used was approved |
| Billing (`service/platform/billing_service.go`, `platform_service.go`) | subscriptions, invoices | subscribe, cancel, suspend, activate | one subscription per business |
| Authentication and onboarding (`service/auth_service.go`) | users, businesses, tokens | register, log in, invite, accept, verify, reset | a registration is all or nothing; one account per e-mail address; what is confirmed stays confirmed |
| Employees, cadres and deduction rules (`service/employee_service.go`, `cadre_service.go`, `deduction_rule_service.go`) | their tables, lists cached for 5 minutes | create, import, update, deactivate, delete | names and e-mail addresses are unique where the schema says so |
| Reports and dashboard (`service/report`, `dashboard_service.go`) | none | schedules, register, payslips, counts | they come to the sums of the run |
| Velocity and rate limits (`api/middleware`) | counters in memory under a mutex | check and count | no more than the limit in a window |
| Reconciliation (`service/reconciliation_service.go`) | none | compare wallets with ledgers and with Paystack | a quiet system shows no discrepancy |
| VFD legacy transfers (`service/vfd`) | transfer_records, in one database transaction around the call to VFD | transfer, enquire, webhook | what is on record was taken |
| E-mail, SMS, notifications, audit trail, anomaly log | rows nobody reads back | write only | |

How they interact: handlers call services on a goroutine per request; services call each
other directly; providers call back by webhook, at least once and in any order; the
database is the only shared state, except for the cache and the in-memory counters and
breakers. Only the registration of a business and the legacy VFD transfer run in a database
transaction; the wallet, transfers and payroll do without, and no lock is held between
requests. That is where the hard behaviour is: several statements per operation,
compensation by hand, failures and crashes between statements, repeated and racing
notifications, retries of transfers whose answer was lost. `PROJECT.json` lists these
hazards with their lines and the properties that watch them.

## Modules

| module | models |
|---|---|
| `WalletStore` | the rows of one business's wallet and the repository statements on them, each an operator usable as (part of) an atomic step |
| `Wallet` | the wallet service, its ledger postings and its cache, one action per statement |
| `Journal` | abstract specification of the book of transactions, which `Wallet` implements |
| `Transfer` | single transfers and retries over `WalletStore`, with the provider chain, the providers and their status webhooks |
| `Payroll` | payroll runs, the scheduler's jobs, the batch transfer and its wallet records over `WalletStore`, and loans |
| `Breaker` | the circuit breakers, each method an operator usable in an atomic step |
| `Providers` | over `Breaker`: the manager's chain, bulk transfers, the clients, the VFD token, the legacy VFD service |
| `Database` | the tables behind the tenant's pages, the repositories' statements on them with GORM's ways of updating, and the control that all handlers share |
| `Accounts`, `Staff` | over `Database`: users, businesses and subscriptions; employees, cadres, rules, leave and loans |
| `Tax`, `Payslip`, `Reports` | the pure parts: statutory deductions, the entry of one employee, schedules and registers, as functions |
| `Office` | composes `Accounts`, `Staff` and `Reports` over one database, adds what only reads, the calculation of a run, faults and crashes |
| `MCWallet`, `MCTransfer`, `MCPayroll`, `MCProviders`, `MCOffice` | values for TLC |
| `WalletProofs`, `TransferProofs`, `PayrollProofs`, `ProvidersProofs` | the theorems about `Wallet`, `Transfer`, `Payroll` and `Providers` |
| `SumTheorems` | what the sums over finite sets of the community modules are, for the proofs about balances and counts |
| `OfficeProofs`, `StaffProofs`, `SlipProofs` | the theorems about `Office`: users and businesses; unique names, leave balances and whom a run pays; what payslips, reports and taxes come to, and the columns of every row |

### WalletStore and Wallet

An element of `Calls` is one running method call with fixed arguments `req[c]`, at the
statement `pc[c]`. The labels follow the code: `d_find` is the idempotency lookup of
RecordDeposit, `d_increment` its UPDATE, `d_reread` the SELECT that ends
`IncrementBalance`, `d_create` and `d_retry` its two attempts at the insert, `d_rollback`
the compensation. `w_...` are the statements of RecordWithdrawal, `g_...` those of
GetBalance with the cache. `txs` is a function of the reference because the column is
unique; a row keeps its kind, its amount and, as history, the call that made it.

`Faults` says what may go wrong: a statement fails without effect (`error`), takes effect
but its reply is lost (`lost_reply`), or the process stops before the next one (`crash`).
`CheckConstraint` tells the two schemas apart: `migrations/` adds
`CHECK (balance >= 0)` (000011), the AutoMigrate fallback of `cmd/server/main.go:84` does
not.

Not kept: the columns `balance_before` and `balance_after`, descriptions, other
businesses (independent but for the unique index), account creation.

### Transfer

A call of ExecuteTransfer locks its amount, creates its row, submits to the providers in
order, saves the answer, and then records a withdrawal if the answer was `success`, or
runs the deferred unlock on every other return. A call of RetryTransfer first reads the
status of its row and then executes a transfer under the reference with `-retry` appended.
`remote[p][r]` is what provider `p` has done for reference `r`: `Settle` lets it pay, fail
or reverse what it accepted, and `HandleTransferStatus` delivers any event it may have
sent by then, so also late, again or after a newer one. An event that is never delivered
needs no action.

Folded: a read whose only use is to refuse early goes with the write that repeats its
test (CheckBalance into LockBalance, the lookup and the balance check of RecordWithdrawal
into its UPDATE), since the refusal is then the write's. A webhook's read and save are one
step, for it overwrites the status without looking at it. Any status but success and
failed counts as accepted. An open circuit breaker is an error of its provider. The ledger
and its errors, which callers never see, are left to `Wallet`.

Assumed of clients: an amount belongs to a reference (`AmountOf`), so a reference is not
submitted again with another amount, and nobody chooses a reference that ends in `-retry`.

### Payroll

An actor is a request `<<c, "request">>`, with its arguments in `req[c]`, or the job that
this request scheduled, `<<c, "job">>`. Labels beginning with `s_`, `a_`, `r_`, `m_`, `v_`
are the statements of submit, approve, reject, amend and reverse; `p_find` and `p_start`
read a run and save it as processing; `b_...` are the steps of ExecuteBatchTransfer;
`verify` and `finish` end a run; `l_...` deduct loans, `c_save` saves a cancelled one.
`mem` holds what an actor has read, above all the entries of the run, and so what may be
stale. `Saved` writes the whole row of the run: whatever was stored in between is gone.

`config` is the business (two flags), the scheduler (`durable`: Asynq, which keeps a job
and runs it again after an error or a crash; else gocron, which does neither) and the
employees whose bank can be mapped to a code. `InitiateBulkTransfer` lets the provider
take any of the items and answer for all, some or none of them, which covers the native,
split and concurrent strategies; the strategies themselves are in `Providers`.
`Kobo` is `parseAmountToKobo`: payroll hands it an amount in kobo, which it takes for
naira, so the wallet is charged a hundred times the pay.

Folded: users, businesses and employees, which are only read to refuse early, into the
read of the run, except what `config` says; the updates of transfer records that have an
id, since nothing in the model reads the columns they change. The calculation of a run
yields any pay in `Pays` for each employee (`Office` has the calculation itself). An employee has one loan at most. Any call may
fail early by a fault of its read.

### Breaker and Providers

A goroutine is `<<c, 0>>`, the one that serves call `c`, or `<<c, w>>`, worker `w` of its
pool. A single transfer goes through `AttemptTransfer` (Allow, under the mutex), `Submit`
(for VFD the token under its read lock, `FetchNewToken` under its write lock, then the
requests) and `RecordOutcome` (RecordSuccess or RecordFailure, then the answer or the next
provider of the chain). A bulk transfer is dispatched by the default provider's capability
and the batch sizes: `NativeBulk`, `SplitAndProcessBulk` chunk by chunk, or a pool whose
workers take from one channel and put into another that has room for every result. A
legacy transfer inserts its row in an open transaction (`CreateRecord`; a second insert of
the reference waits), calls VFD and commits or rolls back (`FinishRecord`).

`Replies` are what a client can tell apart: nothing readable, a no, a yes. The operators
`MapPaystackResponse`, `DoRequest` and the like say what each client makes of them: a
refusal is a result for two of the providers and an error for VFD. A provider takes a
reference once. A `Fault` is an answer that is lost after the provider took the transfer,
or a commit that fails or whose reply is lost; `hurt` remembers the calls that met one.

Folded: the requests that only prepare a transfer into the one that sends it; amounts,
accounts and names are left out. A VFD token does not expire: the client never looks at
the time. The reset timeout of a breaker is `Cool`, at any time while it blocks.

### Database, Accounts, Staff and Office

An element of `Calls` is one HTTP request `req[c]`, at the step `pc[c]`, with what it read
in `mem[c]` and its answer in `answer[c]`. A step is one SQL statement or one request to
somebody else; what Go computes between goes with the statement that uses it. `Handle` is
the part that all handlers have: the role that the route admits, the checks of the
request, then the service. A row that a call creates has the call as its id, and so have
the tokens it draws, so rows and tokens of different calls differ.

Of a row the columns are kept that some operation looks at; its flags that are on are one
set. `Updates` is GORM's update with a struct, which skips zero values: it can switch a
flag on and never off, and cannot clear a column. `SaveCadre` writes every column and adds
components to those there are (`docs/API_REFERENCE.md:1132` has a full replacement in
mind). `open` are the calls with an open transaction, the registrations: their business
and their admin are seen by nobody else (`Sees`), and an insertion of the same e-mail
address waits for them (`EmailPending`). The default cadre and the free plan are written
on other connections meanwhile, so a rollback leaves them. `config.migrated` tells the
schema of `migrations/`, with its foreign keys and unique indexes, from that of
AutoMigrate.

`Breaks`: a statement fails and its error ends the call. `Ignored`: its error is ignored
or only logged, and the call goes on, for instance without the loans it could not read.
`RegisterAborts`: an ignored error inside the registration's transaction, after which
PostgreSQL refuses everything up to the commit. `Crash`: every call in progress is gone,
open transactions are rolled back, the process comes back.

`CalculateReads...` are the statements that CalculatePayrollRun reads with, one after the
other while other calls change the rows; `CreateAndStorePayrollRun` computes the entries
(`Entry` of `Payslip`, over `Tax`) and stores the run. `dropped` and `had` are history: the
cadres that were at some time deleted, empty or saved by another business, and the cadres
that each employee of the start has had.

Abstracted: passwords are compared and not hashed; a token may have expired whenever it is
used; the content of pages, paging, and the 5 minutes for which lists of cadres and rules
are cached; rule amounts are integers where the code multiplies float64 and truncates;
errors of statements are one answer, `error`. A rule of no cadre is stored and applied to
nobody, as in the code. If two identifiers of an adjustment stand for one employee, the
order of Go's map decides, so any does. The currency of a business is never set to GHS by
a request; `Tax` has the Ghanaian tables for rows that have it.

## Runs

| run | question | bounds | result |
|---|---|---|---|
| `wallet` | do concurrent calls without faults keep balance, history, ledger and cache together? | 3 calls, 7 requests, 3 references | passes, 72 000 states |
| `wallet_faults` | what still holds under any fault and without the CHECK? does Wallet implement Journal? | 3 calls, symmetric | passes, 147 000 states |
| `wallet_duplicates` | are duplicate deposits without effect, as the guide says? | 3 calls: two deliveries of one deposit, a withdrawal | violated |
| `transfer` | without faults, are locks exact and drained, and payments made once? | 3 calls, 2 providers, one with webhooks, a fee of 0 or 1 | passes, 593 000 states |
| `transfer_faults` | what do failing statements and lost replies leave true? | 2 calls, symmetric | passes, 609 000 states |
| `transfer_unlock` | does the flag prevent a double unlock, as its comment says? | 2 calls | violated |
| `payroll` | what do an approval, a batch, its records, the wallet, the loans and the status keep of each other? | 2 requests with their jobs, 1 run, 2 employees, 5 configurations, 1 fault, 1 amendment, 1 retry | passes, 2 540 000 states |
| `providers` | do the answers of single, bulk and legacy transfers say what the providers did? does everything return? | 3 calls, 3 references, 3 providers in 2 chains, 2 workers, batches of 2, threshold 2, 1 fault | passes, 97 000 states |
| `office` | what do the tables keep of each other while requests interleave, statements fail and the process crashes? | 74 sets of up to 3 requests, 2 schemas, 1 fault | passes, 48 000 states |
| `office_deactivated` | is a deactivated employee left out of the next run? | a deactivation, then a calculation, no faults | violated |
| `payroll_completed` | are all transfers of a completed run made? | as `payroll`, without faults | violated |
| `payroll_amend` | does an amended run have one item per employee? | as `payroll`, without faults | violated |

What they show:

* `DriftIsLogged`: without faults the balance is the initial balance, the recorded
  transactions, the running calls, and the deposits whose rollback was refused, which were
  logged CRITICAL. Nothing else drifts.
* `DriftNeedsFailure`: with faults, drift needs a call that returned an error or died.
* `LedgerReconciles`, `LedgerFollowsHistory`: the ledger equals the history once calls
  have ended, and under any fault never runs ahead of it.
* `DepositsLand`: racing deliveries of one deposit never all give up.
* `CacheConverges`: a stale entry left by a read that raced with a write goes away.
* `JournalSpec`: a reference is entered at most once, as its call asked, never changed,
  and before any call answers ok for it.
* `LocksAccounted`: the locked balance is what running transfers hold, give or take one
  amount per call that met a fault. `LocksCovered`: without faults and fees the balance
  covers the locks, so that a payment already made is not refused by the wallet.
  `LocksDrain`: without faults nothing stays locked.
* `PaidOnce`: a payment, its resubmissions and its retry, reaches a provider that accepts
  it at most once, unless a fault hid an earlier outcome from one of its calls.
* `ChargedMeansPaid`: under any fault, the wallet is charged only for what was paid.
* `PaysOnlyApproved`, `SentOnce`: where approval is required and nobody uses process-now,
  which needs none, no batch is sent for a run that was not approved, and one that was
  approved once is sent at most once, through any one fault: a job run again, an approval
  taken back, a crash.
* `ChargesAccounted`: without faults the wallet pays exactly the withdrawals on record,
  also when two processors race for one run. (Neither stops the other from sending.)
* `CompletedHasRecords`: without faults, a completed run has a record for each of its
  transfers, also when the batch insert failed because an amended run has items twice.
* `RepaidByCompletions`: a loan is repaid at most once per completion and entry.
* `NoRunLeftBehind`: without faults and where approval is required, no run stays approved
  or processing. Where it is not required this fails: SubmitForApproval schedules the job
  before it saves the status the job looks for.
* `AnswerIsTrue`: unless a reply was lost, a single transfer that returned success was
  taken by exactly one provider of the chain and any other by none, and the results of a
  bulk transfer say success exactly of what was taken. The latter is said of batches that
  name each reference once: of a reference named twice the provider takes the first and
  refuses the second, so that one of its two results says failed of what was taken.
  Nothing keeps such a batch from the provider, for ExecuteBatchTransfer only logs that its
  rows were not inserted (`transfer_batch.go:60`).
* `OneResultPerItem`: no item of such a batch has two results, and through a pool each has
  one.
* `TokenFetchedOnce`: racing goroutines fetch one access token.
* `RecordedMeansTaken`: a committed legacy record is a transfer that VFD took; a legacy
  call without a fault answers what VFD did.
* `CallsReturn`, `ProbeDecides`: every call returns, no worker blocks on a full channel;
  a half-open breaker does not stay half-open.
* `RegistrationAtomic`: through conflicts, ignored errors, failed commits and crashes, a
  business is seen with its admin or not at all, and every user has a business.
* `OneAccountPerEmail`: racing registrations, invitations and logins make one account, and
  one caller at most hears of success.
* `FlagsStick`: a write-back of a user that was read earlier takes no confirmation away.
* `LeaveAccounted`: racing approvals never overdraw a balance, and what is used is the sum
  of some of the approvals. (Not of all: two may both read and both write.)
* `UniqueNames`: in a migrated database check-then-insert makes no duplicates.
* `PayslipsAddUp`, `PAYEIsMarginal`: lines, totals, register and returns agree for every
  run that any of the requests makes; PAYE is the tax of each unit of income at the rate
  of its bracket, up to the rounding, which favours the employee.
* `NobodyLeftOut`: an active employee has one entry in a run, whatever changes between the
  statements of its calculation, unless a cadre it has had was deleted, empty or taken over.
* `CallsAnswered`: every request is answered, also those that wait for the e-mail address
  of another transaction.

Bounds. Three calls suffice for the known races: two deliveries of one deposit and a
withdrawal between them, a transfer, its retry and another transfer beside them. The
initial balances (1 and 3) make some requests fit together and others not. Two providers
are a default and a fallback. For payroll two requests are two approvers, or an approval
and a rejection, or two processors, each with its job; pays of 1 and 2 are below and at the
minimum amount, one employee has a loan of which the second repayment is smaller than the
first, and one fault reaches every error path once. The fault runs use symmetry, which is sound since they check
only safety and no formula names a call. Deadlock is not checked because calls end.

For `providers` the two chains put each kind of client first but one, and skip a name that
is not configured; three items are one more than a batch, so that a chunk of one is left;
the threshold of two is reached by two calls; two workers compete for the jobs. For
`office` each set of requests is about one hazard: three openings of one e-mail address, a
reset while the token is replaced, two acceptances of one invitation, approvals of one or
two requests beside a rejection, hires and an import with one address, three cadres of one
name, and a calculation while cadres, employees, bank details, loans or flags change.
Amounts are in units of 10,000 naira with the real brackets and rates, one employee well
paid and one just above the minimum wage; one fault reaches each error path, and a crash
comes at each step.

Five runs show where the code does less than is said of it:

* `wallet_duplicates`: `docs/WALLET_GUIDE.md:182` says duplicates are silently ignored.
  Two racing deliveries both add the amount; when a withdrawal spends the second credit
  before the loser takes it back, the CHECK refuses the rollback and the business has
  been credited twice.
* `transfer_unlock`: `transfer_service.go:147` tracks whether a withdrawal was recorded
  "to prevent double unlock". When RecordWithdrawal fails after its UPDATE, which released
  the lock, the deferred unlock releases the amount once more, from another transfer's
  lock.
* `payroll_completed`: `docs/PAYROLL_GUIDE.md:38` says that all transfers of a completed
  run are successful. The provider refuses the batch; the verification then counts the
  records that were inserted as pending before the call, and completes the run.
* `payroll_amend`: `payroll_service.go:258` says that an amendment recalculates the run.
  The save adds the new entries and keeps the old ones, so each employee has two items.
* `office_deactivated`: `docs/API_REFERENCE.md:1116` says that a deactivated employee is
  excluded from future payroll runs. The update skips the flag because its new value is
  Go's zero value, so the employee stays active and is paid.

Fairness. `FairSpec` gives every call weak fairness: a goroutine goes on unless its
process dies. In `Wallet` Redis also expires its keys. Providers and webhooks get none.
The liveness runs of `Wallet`, `Transfer` and `Payroll` have no faults; in `Spec` any call
may stop anywhere. In `Providers` a call has weak fairness because each of its requests
ends, by the client's timeout of 30 s at the latest; breakers get none, since one that
nobody asks need not cool. In `Office` a call has weak fairness too: its statements end,
and a lock of the database is held only by a registration that goes on. For the last step
of a calculation, which is always enabled, that is stated as `[]<>~At(c,
"calculate.store")`, so that TLC need not compute a run to see that the step is enabled.
Faults are allowed in both runs, and no fairness makes them happen.

## Theorems

`WalletProofs` proves, for any sets of calls, references and requests, any fault set and
both schemas, assuming only what the modules' ASSUMEs say (amounts are positive, only
withdrawals carry fees, no row equals the absence of a row):

* `TypeCorrect`: `TypeOK`, with `balance >= 0` where the CHECK exists. It is inductive.
* `InvCorrect`: the inductive invariant `Inv`. `LedgerFollowsHistory` alone is not
  inductive: a ledger step would have to know that the row it posts for exists and is its
  own. So `Inv` adds that a call is at a statement of its own method (`AtOwnMethod`), that
  a row is the one its creator asked for (`RowsAreAskedFor`), and that a call past its
  insert owns the row of its reference (`PastInsertOwnsRow`), which the unique index makes
  true and which no later step can undo. The lemmas `InsertKeeps` and `PairKeeps` carry the
  two kinds of step that matter.
* `LedgerFollows`: `LedgerFollowsHistory`, a consequence.
* `ImplementsJournal`: every step of `Wallet` is a step of `Journal` or leaves its
  variables alone (`StepMapsToJournal`), by case on the actions, from `Inv`.
* `DriftOnlyAfterFailure` and `DriftLogged`: `DriftNeedsFailure` under any faults, and
  `DriftIsLogged` if `Faults` is empty, as in the run that checks it. `DriftInv` adds to
  `Inv` that a call does not own the row of its reference before its insert (`Unowned`) and,
  without faults, that a call that rolls back has lost to another call's row (`Raced`).
  From it every step of a call moves the balance, the recorded transactions and what the
  call has still to record by the same amount, unless it ends in failure (`Shifts`). With
  the CHECK the rollback may be refused, and then the step is the one that is logged.
* `LedgerReconciled`: `LedgerReconciles` if `Faults` is empty, from `LedgerInv`: what the
  ledger lacks of the history is at every moment the sum of what the calls have yet to
  post (`Unposted`), which is zero once they have all returned.

`TransferProofs` proves, for any calls, references, retry references, provider chain, fees
and faults, under `TransferAssumption` (providers come in a non-empty sequence, retry
references are distinct and chosen by no client):

* `TypeCorrect`: `TypeOK`, from `Typed`, which adds that a call about to submit has a
  provider of its chain left.
* `OnlyPaidIsCharged`: `ChargedMeansPaid`, from `Charging` (`ChargingCorrect`). The unique
  index gives a row one owner (`OneOwner`); nothing is known at a provider or in the wallet
  before the row exists (`RowFirst`), so no other call can charge under it; and the owner
  charges only after an answer `success`, which comes from a provider that paid
  (`PaidFirst`) and stays paid or becomes reversed.
* `PaysOnce`: `PaidOnce`, from `Paying`. While a call has only been refused no provider
  knows its reference (`RefusedMeansUntouched`), so a reference reaches one provider
  (`OneProvider`); a reference marked failed is dead (`FailedMeansDead`) and a dead one
  stays so (`DeadStays`); the retry reads `failed` before it inserts its own row
  (`RetryAfterDeath`), so that what it retries is dead when it reaches a provider
  (`RetriedMeansDead`). All of it is said of references that no faulty call touched, which
  is what the code's retry rule relies on.

* `LocksAreAccounted`: `LocksAccounted`, from `Locking` (`LockingCorrect`). A call that met
  a fault may have left its amount locked, or released it twice, so the locked balance is
  not a function of where the calls are; but it lies between the sums of what each call has
  on it at the least and at the most (`Least`, `Most`, `Bracketed`). Both are its amount
  while a call that met no fault holds its lock, and zero when it is done. `AtLeastZero`,
  the `GREATEST` of the UPDATE, may leave more than the subtraction would, but never more
  than the upper sum, since nobody has less than nothing there.
* `LocksAreCovered`: `LocksCovered`. An UPDATE that locks tests `balance - locked`, and a
  withdrawal without a fee takes the same from both.

The lemmas `StepEffects` and `MoveKeepsCharging` say what every step does to rows,
providers and ownership; the invariants are proved from them and not once per action.

`PayrollProofs` proves, for any runs, staff, requests, configurations and faults:

* `TypeCorrect`: `TypeOK`, from `Typed`, which adds what an actor has in mind at the
  statements that rely on it (`InMind`).
* `OnlyApprovedIsPaid` and `ApprovedOnceSentOnce`: `PaysOnlyApproved` and `SentOnce`, from
  `PayoutInv` (`PayoutInvCorrect`). Both speak of runs that nobody asks to process at once
  in a business that requires approval (`Gated`). Neither is inductive: the number of
  batches sent depends on who may still send one. An approval licenses one actor, the
  approver until it has scheduled its job and the job from then on, wherever that is, since
  it can be run again (`Live`). Whoever is about to send has saved the run as processing,
  so a second attempt finds it no longer approved (`Licensed`); and a request is only ever
  on the path of its own operation (`OwnPath`), so nothing else reaches the batch.
  `MoveKeepsOnePayout` covers all steps that grant, schedule and send nothing; the approval,
  the scheduling, the sending and the restart each have a lemma.
* `ChargesAreAccounted`: `ChargesAccounted`, from `ChargesInv`. A step moves only its own
  actor's share, and the job that it schedules, which has none (`MovesOwn`); a job is not
  scheduled twice, because only a request schedules, and only while its job is unscheduled
  (`JobsInOrder`).
* `NoRunIsLeftBehind`: `NoRunLeftBehind`, by responsibility: without faults an approved run
  has an actor on its way to process it and a processing one an actor that will end it
  (`Attended`). Who leaves these labels moves the run on or has handed it to its job
  (`HandsOn`), which uses `PayoutInv` for the status an actor finds and `CarriedInv` for the
  entries, which are never empty.
* `CompletedRunsHaveRecords`: `CompletedHasRecords`. The verification compares the number of
  records with the number of items, so it proves that the records are those of the items
  only because there is no record of anything else (`Listed`): then as many as there are
  payable employees means all of them. `Knows` says what an actor knows of the records at
  each label, also after the batch insert failed and every record was updated on its own.
* `RepaidOncePerCompletion`: `RepaidByCompletions`, from `RepaidInv`. A loan that was read
  is saved later over whatever is stored, so the bound must hold of the copies as well; and
  since two processors may deduct at once, it is a budget from which the deductions that
  the actors have still ahead are taken first (`Budget`, `Within`).

`ProvidersProofs` proves, for any calls, references, requests, chains, batch sizes, workers
(one at least) and faults, under `ProvidersAssumption` and `OrderAssumption` (the chain of a
configuration is a non-empty sequence of names: it begins with the default. That follows
from the definition of `Order`, but only by induction over `SelectSeq`, so it is assumed,
and TLC evaluates it):

* `TypeCorrect`: `TypeOK`, from `TypeInv`, which adds what the threads hold and that the
  results in a channel and the items in the hands of workers leave room in it.
* `TokenOnce`: `TokenFetchedOnce`, from `TokenInv`: one token was fetched exactly if the
  client holds one, so whoever holds the write lock either sees it or is the first.
* `RecordsAreTrue`: `RecordedMeansTaken`, from `LegacyInv`. A legacy call has no pool and
  stays with its one reference (`OneTransfer`), so only its own request can take the
  reference at VFD in its name; `Knows` says at each label what VFD has done and what the
  call has heard of it; and what a provider has taken is never taken back.
* `AnswersAreTrue` and `ResultsAreUnique`: `AnswerIsTrue` and `OneResultPerItem`, from
  `AnswerInv`. A single transfer is taken by nobody until the provider at hand says yes
  (`Ending`, `TookAs`), so that the next of the chain is asked only after a true no. Of a bulk transfer each reference is still to do, in the hands of one worker, or
  in the results (`Todo`, `Hands`, `Log`), never in two of these places (`Apart`), and
  through a pool always in one (`Complete`); where it is tells what the providers did with
  it (`Truthful`). The native call, a chunk of the split and a step of a worker move
  references from one place to the next. References that other calls use are no obstacle:
  a provider remembers for whom it took a transfer, and refuses anybody else.

`OfficeProofs` proves, for any tables that satisfy `OfficeAssumption` (rows have the
columns of their tables, users have a business and an e-mail address of their own, who
invites is of a business that is there, the names of calls are not yet ids), any requests
and any number of faults and crashes, and given `NullIsNoRow` (NULL is not a row; it is a
hypothesis of the theorems and not an ASSUME because TLC cannot evaluate the domain of a
model value):

* `RegistrationIsAtomic`: `RegistrationAtomic`. It is not inductive: the commit publishes
  what earlier statements wrote. `Inv` adds what a registration has inserted at each of
  its labels (`Registration`), that the row a call is about to write back is of a user or
  business that anybody sees, with the business and the address that row has now
  (`Memory`), and that a request stays on the path of its own operation (`OwnPath`).
* `AccountsDiffer`: `OneAccountPerEmail`. `EmailsDiffer` counts the rows of open
  transactions too: the index makes an insertion wait for them (`InsertDiffers`). Who was
  answered ok still has its user.
* `ConfirmedForGood`: `FlagsStick`. What a step or a rollback leaves of the rows that
  anybody sees is `Kept`, proved of every step along with `Inv` (`NextKeeps`).

The proof sorts steps by what they do to users and businesses: nothing (`QuietKeeps`, for
all of `Staff`, the pages and the calculation), reading a row (`RereadsKeep`), writing it
back (`WritesBackKeeps`), inserting a user (`InsertedKeeps`), rolling back (`UndoneKeeps`,
for errors and crashes), and the statements of an open registration.

`StaffProofs` proves `NamesStayUnique`, which is `UniqueNames`, under `NamesAssumption`: the
tables satisfy the indexes before the program starts. A step either leaves the three
tables alone (`Untouched`) or writes one row under a name that the index found free at that
very statement (`Claims`); the checks that handlers make before play no part in the proof,
which is the point: they could be dropped. `Named` adds that rows have a name, so that a
deletion, which writes one column, keeps it.

`StaffProofs` also proves two theorems under `LeaveAssumption`: the balances are right at the
start, and the ids that requests for leave will get are still free.

* `NothingOverdrawn`: in no state is a balance below zero or at odds with its columns
  (`BalancesHold`, the first half of `LeaveAccounted`). The row an approval writes is not
  computed of the row that is there, but of the one it has read; so `LeaveInv` says of
  each call between the check and the write that what it holds is a balance with days
  enough (`LeaveCall`).
* `LeaveIsAccounted`: `LeaveAccounted`, given that NULL is not a row (`NullIsNoLeave`).
  Two approvals that read the same balance both write it, and the second loses the days of
  the first, so what is used is not the sum of all approvals and no equation over them is
  invariant. `UsedInv` says of every balance that *is stored* and of every balance that an
  approval *has in hand* that its days are those of the start and of some set of approvals
  that were answered (`Counts`). An approval answers and writes in one step: it adds
  itself to the set its own copy counts, and the stored balance takes that set over,
  whatever the stored one had counted before. `CountsStay` shows that no later step takes
  an approval out of such a set or changes its days, for requests keep their balance and
  their days (`RowsStay`) and an answered approval stays answered (`Granted`).

`StaffProofs` proves at last `EverybodyIsPaid`, which is `NobodyLeftOut`, under `PayAssumption` (runs and
employees get ids that are not taken, the employees of the start have a cadre of their own
business, an update is of the caller's business) and given that NULL is no row
(`NullIsNoStaff`). A calculation reads the employees, then their cadres, then loans, and
stores the run in a fourth statement. Proving it corrected the property: with one more
concurrent call than TLC's instance has, an employee who is moved from one cadre to
another after it was read is left out when the *first* cadre is then deleted, or when an
update from another business saves it, for a cadre is saved by its id. So the property
asks about every cadre that the employee *has had* (`had`), and `dropped` counts the
cadres that changed their business. `PayInv` then has three parts. The rows of the
employees keep business, flags and a cadre that is there or dropped (`PayRows`, `Good`);
the copy of a row that another call is about to write back would keep that too (`Saving`);
and whom a calculation still has to pay it has in hand at each label (`Paying`), with a
cadre that the employee has had. Dropping only grows (`HistoryGrows`), so whoever has to
be paid at the end had to be paid at every read.

`SlipProofs` proves the rest of what the run `office` checks as invariants, under
`SlipAssumption` (tables are finite, amounts are whole numbers, what is owed and repaid is
not negative, the runs of the start add up, requests bring rows of the kinds that the
handlers bind), and given that NULL has not the columns of an employee
(`NullIsNoEmployee`):

* `OfficeTypes`: `TypeOK`. Rows are written back late, over what other calls have written
  meanwhile, or by an id that nobody has looked up; each keeps the columns of its table.
* `SlipsAddUp`: `PayslipsAddUp`, given `NaturalAmounts`: amounts of cadres and values of
  rules are not negative. That is a hypothesis and not an ASSUME because the handlers check
  neither. With a negative rule the column of other deductions of the register, which is
  cut off at zero, no longer adds up; adjustments may have either sign.
* `TaxIsMarginal`: `PAYEIsMarginal` for all amounts, negative ones too, given
  `TaxedInNigeria`: no business is of Ghana at the start, and the runs of the start are
  taxed by the brackets. Registrations make Nigerian businesses, and no handler changes
  the currency.

The first half is about the calculation alone. `EntryFits` shows for any components, rules,
loans and adjustments that the nine lists of lines (`NineLists`), joined one after the
other (`LinesJoin`, `TellsJoin`), come by type to the sums that are kept beside them, and
that what the reports look for among the lines by name is what was deducted. `RunFits`
carries that over the entries to the totals and to each report: a report has a row of its
own for each entry (`ReportTotal`), so its columns add up to those of the entries.
`EntryTaxed` shows that each bracket taxes the units between its floor and its ceiling
(`UnitsOfBracket`) and that rounding takes less than one unit of each bracket and of the
month (`TaxedUnits`). The brackets are those that `TaxAssumption` admits: the ceilings
rise, and only the last bracket has none.

The second half is the invariant `SlipInv`: the rows that a calculation reads are good
(`SlipRows`); a row in the hand of a call that will write it back is good (`RowInHand`);
what a calculation has read by now is good at each of its labels, whether the tables still
have it or not (`SlipInHand`); and requests stay at labels of their own (`OwnRequest`). A
step leaves each row, makes it good or rolls it back (`Tidy`), and `TidyKeeps` then asks
only for what the one call has in hand. TLC finds `SlipInv` kept on the instance of the
run `office`, in which `NaturalAmounts` and `TaxedInNigeria` hold.

`SumTheorems` has what these proofs use of `SumFunctionOnSet`, which the community modules
define by a recursive function with CHOOSE: it is the term of any member and the sum of the
others (`SumSplits`), it follows a change of one term (`SumChanges`), a new member
(`SumGrows`), and so on; for lists, the sum of two that are joined (`SumOfBoth`) and of all
but the last (`SumOfLast`). Induction over finite sets takes an operator as a parameter,
which no installed prover can instantiate. Here each statement is proved of a smallest
counterexample instead (`LeastSubset`, `LeastNumber`), which exists because inclusion is
well-founded on the subsets of a finite set. For the sums the calls, references, runs and
employees are assumed to be finite, as they are.

So every invariant that a passing run checks is a theorem. Only model-checked is what needs
ENABLED: everything temporal under fairness (`DepositsLand`, `CacheConverges`,
`LocksDrain`, `CallsReturn`, `ProbeDecides`, `CallsAnswered`).

## Not modelled

* Code that nothing reaches: `bulk_transfer_service.go`, `platform/vfd/mock_service.go`,
  `platform/korapay/payout.go`, `employeeRepo.Deactivate`, the middlewares of
  `plan_limit.go` with CheckEmployeeLimit, and SuspensionMiddleware: a suspension is
  stored and stops nobody.
* Operations without an effect: `UpdateBusinessPayrollConfig` is a stub, the billing
  webhook only logs, and the VFD webhook service rolls every delivery back because it
  cannot find a business by account number.
* Velocity and rate limits (`middleware/velocity.go`, `rate_limiter.go`): counters in
  memory under one mutex, which refuse a request before any modelled operation begins.
* Reconciliation: it reads, compares and mails. `LedgerReconciles` is what it compares.
* The audit trail, the anomaly log, notifications, e-mail and SMS: output only.
* The PDF payslips and the register show no bonuses although the net pay has them; layout
  is left out, their sums are in `Reports`.
* Of the dashboard, the wallet's balance and which of several paid runs is the latest.
* The pool of 100 database connections, of which a registration needs two at a time.
* CreateVirtualAccount and the lists of banks and accounts; CORS, metrics, health checks,
  JSON, and the wiring of `main.go` but for the choice of schema and of scheduler.

## Plan

What is left, in this order: the creation of virtual accounts, which asks a provider
between a check and an insert; the velocity limits with their windows; the reads of the
reconciliation beside running postings.
