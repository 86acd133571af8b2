-------------------------------- MODULE Wallet --------------------------------
(***************************************************************************)
(* The wallet service (internal/service/wallet_service.go) at the grain of *)
(* database statements.  Each element of Calls is one running call of a    *)
(* WalletService method, made by a webhook handler, a transfer or an API   *)
(* request on a goroutine of its own.  Nothing spans a call: no database   *)
(* transaction, no lock, no retry of the call itself.  The calls meet only *)
(* in the rows of WalletStore and in the balance cache.                    *)
(***************************************************************************)
EXTENDS WalletStore, FiniteSets, Functions

CONSTANTS
    Calls,           \* the concurrent calls
    Requests,        \* the arguments a call may have
    InitialBalance,
    Faults,          \* what may go wrong, a subset of FaultKinds
    Miss             \* no entry in the cache

\* "error": a statement fails without effect.  "lost_reply": a write takes effect but
\* the client sees an error (connection lost, request context cancelled).  "crash": the
\* process stops, or is killed, between two statements.
FaultKinds == {"error", "lost_reply", "crash"}

Kinds == {"deposit", "withdrawal", "lock", "unlock", "get_balance"}

RequestType == [kind : Kinds, ref : Refs, amount : Nat \ {0}, fee : Nat]

RowType == [type : Kinds, amount : Nat \ {0}, by : Calls]

\* Only a withdrawal carries a fee; no row looks like the absence of a row; only finitely
\* many calls are made, under finitely many references.
ASSUME WalletAssumption ==
    /\ Requests \subseteq RequestType
    /\ \A q \in Requests : q.kind # "withdrawal" => q.fee = 0
    /\ NoTx \notin RowType
    /\ InitialBalance \in Nat
    /\ Faults \subseteq FaultKinds
    /\ Miss \notin Int
    /\ IsFiniteSet(Calls) /\ IsFiniteSet(Refs)

VARIABLES
    cached,   \* Redis key wallet:balance:<business>
    req,      \* the arguments of each call
    pc,       \* the statement each call runs next
    loaded,   \* the balance a GetBalance call read from the database
    answer,   \* what each call returned: "none" while it runs, then "ok" or "error"
    critical  \* the calls that logged "CRITICAL: Deposit rollback failed"

callVars == <<req, loaded, critical>>
vars == <<storeVars, cached, req, pc, loaded, answer, critical>>

Ref(c) == req[c].ref
Amount(c) == req[c].amount
\* A withdrawal takes the transfer's fee too.
Total(c) == req[c].amount + req[c].fee

CanFail == "error" \in Faults
CanLoseReply == "lost_reply" \in Faults

FirstStep == [deposit |-> "d_find", withdrawal |-> "w_find", lock |-> "lock",
              unlock |-> "unlock", get_balance |-> "g_get"]

Labels == {"d_find", "d_read", "d_increment", "d_reread", "d_create", "d_retry", "d_rollback",
           "d_ledger", "w_find", "w_read", "w_decrement", "w_reread", "w_create",
           "w_rollback", "w_ledger", "w_fee", "invalidate", "lock", "l_reread", "unlock",
           "g_get", "g_load", "g_set", "done", "crashed"}

Init ==
    /\ balance = InitialBalance
    /\ locked = 0
    /\ txs = [r \in Refs |-> NoTx]
    /\ ledger = {}
    /\ cached = Miss
    /\ req \in [Calls -> Requests]
    /\ pc = [c \in Calls |-> FirstStep[req[c].kind]]
    /\ loaded = [c \in Calls |-> 0]
    /\ answer = [c \in Calls |-> "none"]
    /\ critical = {}

\* Control flow of call c: to the next statement, or back to the caller.
Goto(c, label) ==
    /\ pc' = [pc EXCEPT ![c] = label]
    /\ UNCHANGED answer

Return(c, result) ==
    /\ pc' = [pc EXCEPT ![c] = "done"]
    /\ answer' = [answer EXCEPT ![c] = result]

Row(c) == [type |-> req[c].kind, amount |-> Total(c), by |-> c]

-----------------------------------------------------------------------------
(* RecordDeposit *)

\* Mutant: a reference that another call is working on counts as recorded.
DepositFind_InProgress(c) ==
    /\ pc[c] = "d_find"
    /\ IF Recorded(Ref(c)) \/ \E o \in Calls \ {c} : Ref(o) = Ref(c) /\ pc[o] # "done"
       THEN Return(c, "ok")
       ELSE Goto(c, "d_read")
    /\ UNCHANGED <<storeVars, cached, callVars>>

\* A failed lookup counts as "not found": the code tests err == nil && tx != nil.
DepositFind(c) ==
    /\ pc[c] = "d_find"
    /\ \/ Recorded(Ref(c)) /\ Return(c, "ok")
       \/ ~Recorded(Ref(c)) /\ Goto(c, "d_read")
       \/ CanFail /\ Goto(c, "d_read")
    /\ UNCHANGED <<storeVars, cached, callVars>>

\* The balance before, for the record only.
DepositRead(c) ==
    /\ pc[c] = "d_read"
    /\ \/ Goto(c, "d_increment")
       \/ CanFail /\ Return(c, "error")
    /\ UNCHANGED <<storeVars, cached, callVars>>

DepositIncrement(c) ==
    /\ pc[c] = "d_increment"
    /\ \/ IncrementBalance(Amount(c)) /\ Goto(c, "d_reread")
       \/ CanFail /\ UNCHANGED storeVars /\ Return(c, "error")
       \/ CanLoseReply /\ IncrementBalance(Amount(c)) /\ Return(c, "error")
    /\ UNCHANGED <<cached, callVars>>

\* IncrementBalance ends by reading the wallet again; when that read fails the deposit
\* returns its error with the increment in place.
DepositReread(c) ==
    /\ pc[c] = "d_reread"
    /\ \/ Goto(c, "d_create")
       \/ CanFail /\ Return(c, "error")
    /\ UNCHANGED <<storeVars, cached, callVars>>

\* One attempt to insert the transaction; a duplicate reference is an error like any other.
CreateAttempt(c, onSuccess, onError) ==
    /\ \/ CreateTransaction(Ref(c), Row(c)) /\ Goto(c, onSuccess)
       \/ (Recorded(Ref(c)) \/ CanFail) /\ UNCHANGED storeVars /\ Goto(c, onError)
       \/ CanLoseReply /\ CreateTransaction(Ref(c), Row(c)) /\ Goto(c, onError)
    /\ UNCHANGED <<cached, callVars>>

\* Mutant: the deposit is taken as recorded when the insert fails.
DepositCreate_IgnoreError(c) ==
    /\ pc[c] = "d_create"
    /\ CreateAttempt(c, "d_ledger", "d_ledger")

DepositCreate(c) ==
    /\ pc[c] = "d_create"
    /\ CreateAttempt(c, "d_ledger", "d_retry")

\* Mutant: a duplicate reference is taken for success, as if the retry had inserted it.
DepositRetry_ConflictIsSuccess(c) ==
    /\ pc[c] = "d_retry"
    /\ Recorded(Ref(c))
    /\ UNCHANGED storeVars
    /\ Goto(c, "d_ledger")
    /\ UNCHANGED <<cached, callVars>>

DepositRetry(c) ==
    /\ pc[c] = "d_retry"
    /\ CreateAttempt(c, "d_ledger", "d_rollback")

\* Mutant: the failure of the rollback is not logged.
DepositRollback_Silent(c) ==
    /\ pc[c] = "d_rollback"
    /\ \/ IncrementBalance(-Amount(c))
       \/ RefusedByCheck(-Amount(c)) /\ UNCHANGED storeVars
    /\ Return(c, "error")
    /\ UNCHANGED <<cached, callVars>>

\* The compensating increment.  A failure, the CHECK's refusal included, is only logged.
DepositRollback(c) ==
    /\ pc[c] = "d_rollback"
    /\ \/ IncrementBalance(-Amount(c)) /\ UNCHANGED critical
       \/ /\ RefusedByCheck(-Amount(c)) \/ CanFail
          /\ critical' = critical \cup {c}
          /\ UNCHANGED storeVars
       \/ /\ CanLoseReply \/ CanFail  \* CanFail: the read after the update
          /\ IncrementBalance(-Amount(c))
          /\ critical' = critical \cup {c}
    /\ Return(c, "error")
    /\ UNCHANGED <<cached, req, loaded>>

\* Errors of the ledger are logged and ignored.
DepositLedger(c) ==
    /\ pc[c] = "d_ledger"
    /\ \/ LedgerDeposit(c, Ref(c), Amount(c))
       \/ CanFail /\ UNCHANGED storeVars
    /\ Goto(c, "invalidate")
    /\ UNCHANGED <<cached, callVars>>

-----------------------------------------------------------------------------
(* RecordWithdrawal *)

WithdrawFind(c) ==
    /\ pc[c] = "w_find"
    /\ \/ Recorded(Ref(c)) /\ Return(c, "ok")
       \/ ~Recorded(Ref(c)) /\ Goto(c, "w_read")
       \/ CanFail /\ Goto(c, "w_read")
    /\ UNCHANGED <<storeVars, cached, callVars>>

WithdrawRead(c) ==
    /\ pc[c] = "w_read"
    /\ \/ balance >= Total(c) /\ Goto(c, "w_decrement")
       \/ balance < Total(c) /\ Return(c, "error")
       \/ CanFail /\ Return(c, "error")
    /\ UNCHANGED <<storeVars, cached, callVars>>

\* Releases the lock on the amount, not on the fee, which was never locked.
WithdrawDecrement(c) ==
    /\ pc[c] = "w_decrement"
    /\ \/ DecrementBalanceAndLocked(Total(c), Amount(c)) /\ Goto(c, "w_reread")
       \/ balance < Total(c) /\ UNCHANGED storeVars /\ Return(c, "error")
       \/ CanFail /\ UNCHANGED storeVars /\ Return(c, "error")
       \/ CanLoseReply /\ DecrementBalanceAndLocked(Total(c), Amount(c)) /\ Return(c, "error")
    /\ UNCHANGED <<cached, callVars>>

WithdrawReread(c) ==
    /\ pc[c] = "w_reread"
    /\ \/ Goto(c, "w_create")
       \/ CanFail /\ Return(c, "error")
    /\ UNCHANGED <<storeVars, cached, callVars>>

\* A single attempt here, and no retry.
WithdrawCreate(c) ==
    /\ pc[c] = "w_create"
    /\ CreateAttempt(c, "w_ledger", "w_rollback")

\* Gives the balance back but not the lock; its result is ignored.
WithdrawRollback(c) ==
    /\ pc[c] = "w_rollback"
    /\ \/ IncrementBalance(Total(c))
       \/ CanFail /\ UNCHANGED storeVars
    /\ Return(c, "error")
    /\ UNCHANGED <<cached, callVars>>

\* Mutant: the wallet's entry includes the fee, which RecordFee posts again.
WithdrawLedger_Total(c) ==
    /\ pc[c] = "w_ledger"
    /\ LedgerWithdrawal(c, Ref(c), Total(c))
    /\ Goto(c, IF req[c].fee > 0 THEN "w_fee" ELSE "invalidate")
    /\ UNCHANGED <<cached, callVars>>

WithdrawLedger(c) ==
    /\ pc[c] = "w_ledger"
    /\ \/ LedgerWithdrawal(c, Ref(c), Amount(c))
       \/ CanFail /\ UNCHANGED storeVars
    /\ Goto(c, IF req[c].fee > 0 THEN "w_fee" ELSE "invalidate")
    /\ UNCHANGED <<cached, callVars>>

WithdrawFee(c) ==
    /\ pc[c] = "w_fee"
    /\ \/ LedgerFee(c, Ref(c), req[c].fee)
       \/ CanFail /\ UNCHANGED storeVars
    /\ Goto(c, "invalidate")
    /\ UNCHANGED <<cached, callVars>>

-----------------------------------------------------------------------------
(* The balance cache *)

\* The last step of a recorded deposit or withdrawal; a failing Redis is only logged.
InvalidateBalanceCache(c) ==
    /\ pc[c] = "invalidate"
    /\ \/ cached' = Miss
       \/ CanFail /\ UNCHANGED cached
    /\ Return(c, "ok")
    /\ UNCHANGED <<storeVars, callVars>>

\* GetBalance: a hit answers at once, a miss and an error of Redis go to the database.
BalanceGet(c) ==
    /\ pc[c] = "g_get"
    /\ \/ cached # Miss /\ Return(c, "ok")
       \/ cached = Miss /\ Goto(c, "g_load")
       \/ CanFail /\ Goto(c, "g_load")
    /\ UNCHANGED <<storeVars, cached, callVars>>

BalanceLoad(c) ==
    /\ pc[c] = "g_load"
    /\ \/ loaded' = [loaded EXCEPT ![c] = balance] /\ Goto(c, "g_set")
       \/ CanFail /\ UNCHANGED loaded /\ Return(c, "error")
    /\ UNCHANGED <<storeVars, cached, req, critical>>

\* Stores what was read, however old it is by now.
BalanceSet(c) ==
    /\ pc[c] = "g_set"
    /\ \/ cached' = loaded[c]
       \/ CanFail /\ UNCHANGED cached
    /\ Return(c, "ok")
    /\ UNCHANGED <<storeVars, callVars>>

\* Mutant: entries are stored without a time to live.
CacheExpire_Never == FALSE /\ UNCHANGED vars

\* Redis drops the entry 30 seconds after it was stored.
CacheExpire ==
    /\ cached # Miss
    /\ cached' = Miss
    /\ UNCHANGED <<storeVars, callVars, pc, answer>>

-----------------------------------------------------------------------------
(* LockBalance and UnlockBalance *)

LockBalance(c) ==
    /\ pc[c] = "lock"
    /\ \/ IncrementLocked(Amount(c)) /\ Goto(c, "l_reread")
       \/ balance - locked < Amount(c) /\ UNCHANGED storeVars /\ Return(c, "error")
       \/ CanFail /\ UNCHANGED storeVars /\ Return(c, "error")
       \/ CanLoseReply /\ IncrementLocked(Amount(c)) /\ Return(c, "error")
    /\ UNCHANGED <<cached, callVars>>

\* The lock stays when reading the wallet back fails, and the caller is told it failed.
LockReread(c) ==
    /\ pc[c] = "l_reread"
    /\ \/ Return(c, "ok")
       \/ CanFail /\ Return(c, "error")
    /\ UNCHANGED <<storeVars, cached, callVars>>

UnlockBalance(c) ==
    /\ pc[c] = "unlock"
    /\ \/ DecrementLocked(Amount(c)) /\ Return(c, "ok")
       \/ CanFail /\ UNCHANGED storeVars /\ Return(c, "error")
       \/ (CanFail \/ CanLoseReply) /\ DecrementLocked(Amount(c)) /\ Return(c, "error")
    /\ UNCHANGED <<cached, callVars>>

-----------------------------------------------------------------------------
Crash(c) ==
    /\ "crash" \in Faults
    /\ pc[c] \notin {"done", "crashed"}
    /\ Goto(c, "crashed")
    /\ UNCHANGED <<storeVars, cached, callVars>>

RecordDeposit(c) ==
    \/ DepositFind(c) \/ DepositRead(c) \/ DepositIncrement(c) \/ DepositReread(c)
    \/ DepositCreate(c) \/ DepositRetry(c) \/ DepositRollback(c) \/ DepositLedger(c)

RecordWithdrawal(c) ==
    \/ WithdrawFind(c) \/ WithdrawRead(c) \/ WithdrawDecrement(c) \/ WithdrawReread(c)
    \/ WithdrawCreate(c) \/ WithdrawRollback(c) \/ WithdrawLedger(c) \/ WithdrawFee(c)

GetBalance(c) == BalanceGet(c) \/ BalanceLoad(c) \/ BalanceSet(c)

Step(c) ==
    \/ RecordDeposit(c) \/ RecordWithdrawal(c) \/ InvalidateBalanceCache(c)
    \/ GetBalance(c) \/ LockBalance(c) \/ LockReread(c) \/ UnlockBalance(c)

Next == (\E c \in Calls : Step(c) \/ Crash(c)) \/ CacheExpire

Spec == Init /\ [][Next]_vars

\* A goroutine keeps running unless its process stops, and Redis expires its keys.
Fairness == (\A c \in Calls : WF_vars(Step(c))) /\ WF_vars(CacheExpire)

FairSpec == Spec /\ Fairness

-----------------------------------------------------------------------------
(* Properties *)

EntryType ==
    [call : Calls, op : {"deposit", "withdrawal", "fee"},
     account : {"wallet", "external", "revenue"}, type : {"debit", "credit"},
     amount : Nat, ref : Refs]

\* Every variable keeps its type, whatever the calls, faults and interleavings.
TypeOK ==
    /\ balance \in Int
    /\ CheckConstraint => balance >= 0
    /\ locked \in Nat
    /\ txs \in [Refs -> RowType \cup {NoTx}]
    /\ ledger \subseteq EntryType
    /\ cached \in Int \cup {Miss}
    /\ req \in [Calls -> Requests]
    /\ pc \in [Calls -> Labels]
    /\ loaded \in [Calls -> Int]
    /\ answer \in [Calls -> {"none", "ok", "error"}]
    /\ critical \subseteq Calls

\* The sum of all recorded transactions, deposits counting up and withdrawals down.
Posting(r) ==
    CASE ~Recorded(r) -> 0
      [] Recorded(r) /\ txs[r].type = "deposit" -> txs[r].amount
      [] OTHER -> -txs[r].amount

Posted == SumFunction([r \in Refs |-> Posting(r)])

OwnRow(c) == Recorded(Ref(c)) /\ txs[Ref(c)].by = c

\* What a running call has put on, or taken off, the balance and not yet recorded.
Unrecorded(c) ==
    CASE ~OwnRow(c) /\ pc[c] \in {"d_reread", "d_create", "d_retry", "d_rollback"} -> Amount(c)
      [] ~OwnRow(c) /\ pc[c] \in {"w_reread", "w_create", "w_rollback"} -> -Total(c)
      [] OTHER -> 0

\* Money on the balance that nothing accounts for.
Drift == balance - InitialBalance - Posted - SumFunction([c \in Calls |-> Unrecorded(c)])

\* Without faults the balance differs from the recorded transactions and the running calls
\* exactly by the deposits whose rollback was refused and logged CRITICAL: deliveries that
\* race on one reference lose and create no money silently (RecordDeposit's rollback).
DriftIsLogged == Drift = SumFunction([c \in critical |-> Amount(c)])

\* Under any fault, calls that all answered "ok" or still run have not moved the balance
\* away from its record: drift needs a call that failed (error paths of RecordDeposit and
\* RecordWithdrawal).
DriftNeedsFailure ==
    (\A c \in Calls : answer[c] # "error" /\ pc[c] # "crashed") => Drift = 0

\* What LedgerService.Reconcile computes: wallet credits less wallet debits.
WalletEntries == {e \in ledger : e.account = "wallet"}
LedgerBalance ==
    SumFunction([e \in WalletEntries |-> IF e.type = "credit" THEN e.amount ELSE -e.amount])

\* Without faults, once all calls have returned, the ledger and the transaction history
\* tell the same story, fees included (the daily reconciliation compares the two views).
LedgerReconciles == (\A c \in Calls : pc[c] = "done") => LedgerBalance = Posted

\* Under any fault, a ledger entry stands for a recorded transaction of the call that
\* posted it, is of the transaction's kind (a fee belongs to a withdrawal), and is of the
\* amount asked, never zero (the table's CHECK (amount > 0) refuses none): the ledger lags
\* behind the history and never runs ahead of it.
LedgerFollowsHistory ==
    \A e \in ledger :
        /\ e.amount > 0
        /\ Recorded(e.ref)
        /\ txs[e.ref].by = e.call
        /\ e.op = "deposit" <=> txs[e.ref].type = "deposit"
        /\ txs[e.ref].amount = (IF e.op = "fee" THEN e.amount + req[e.call].amount
                               ELSE e.amount + req[e.call].fee)

\* The wallet keeps the promises of Journal, in every fault model.
J == INSTANCE Journal WITH book <- txs
JournalSpec == J!Spec

\* Without faults every deposit call eventually has its reference recorded, also when
\* deliveries race for it: they never all give up.
DepositsLand ==
    \A c \in Calls : (req[c].kind = "deposit") ~> Recorded(Ref(c))

\* Once the calls have ended the cache ends up, and stays, agreeing with the balance: the
\* time to live bounds what a GetBalance that raced with an update left behind.
CacheConverges == <>[](cached \in {Miss, balance})

\* docs/WALLET_GUIDE.md:182 "duplicate deposits with the same reference are silently
\* ignored": when all calls have returned the balance is what the recorded transactions
\* make it, each reference counted once (RecordDeposit).
DuplicateDepositsIgnored ==
    (\A c \in Calls : pc[c] = "done") => balance = InitialBalance + Posted
=============================================================================
