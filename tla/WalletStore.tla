----------------------------- MODULE WalletStore -----------------------------
(***************************************************************************)
(* The database rows that hold the money of one business, and the          *)
(* repository operations on them.  Every operator below is ONE statement   *)
(* (or one SQL transaction) of PostgreSQL and so an atomic step; what the  *)
(* services built on it are not is atomic across statements.               *)
(*                                                                         *)
(* Rows of different businesses are independent except for the unique      *)
(* index on a transaction's reference, so one business shows everything.   *)
(***************************************************************************)
EXTENDS Integers

CONSTANTS
    Refs,            \* values of wallet_transactions.reference
    NoTx,            \* "no such row"
    CheckConstraint  \* TRUE: schema from migrations/, which has CHECK (balance >= 0);
                     \* FALSE: schema from AutoMigrate, which has not

ASSUME StoreAssumption == CheckConstraint \in BOOLEAN

VARIABLES
    balance,  \* business_wallets.balance
    locked,   \* business_wallets.locked_balance
    txs,      \* wallet_transactions: its unique index makes it a function of the reference
    ledger    \* ledger_entries

storeVars == <<balance, locked, txs, ledger>>

\* GREATEST(n, 0)
AtLeastZero(n) == IF n >= 0 THEN n ELSE 0

-----------------------------------------------------------------------------
\* business_wallets

\* SET balance = balance + amount, also with a negative amount.
IncrementBalance(amount) ==
    /\ CheckConstraint => balance + amount >= 0
    /\ balance' = balance + amount
    /\ UNCHANGED <<locked, txs, ledger>>

\* Whether IncrementBalance(amount) violates the CHECK and so fails.
RefusedByCheck(amount) == CheckConstraint /\ balance + amount < 0

\* Mutant: the fee is taken for locked, too.
DecrementBalanceAndLocked_Fee(balanceAmount, lockedAmount) ==
    /\ balance >= balanceAmount
    /\ balance' = balance - balanceAmount
    /\ locked' = AtLeastZero(locked - balanceAmount)
    /\ UNCHANGED <<txs, ledger>>

\* SET balance = balance - .., locked = GREATEST(locked - .., 0) WHERE balance >= ..
DecrementBalanceAndLocked(balanceAmount, lockedAmount) ==
    /\ balance >= balanceAmount
    /\ balance' = balance - balanceAmount
    /\ locked' = AtLeastZero(locked - lockedAmount)
    /\ UNCHANGED <<txs, ledger>>

\* Mutant: the WHERE clause ignores what is locked already.
IncrementLocked_IgnoreLocks(amount) ==
    /\ balance >= amount
    /\ locked' = locked + amount
    /\ UNCHANGED <<balance, txs, ledger>>

\* SET locked = locked + amount WHERE balance - locked >= amount
IncrementLocked(amount) ==
    /\ balance - locked >= amount
    /\ locked' = locked + amount
    /\ UNCHANGED <<balance, txs, ledger>>

\* Mutant: no GREATEST.
DecrementLocked_NoFloor(amount) ==
    /\ locked' = locked - amount
    /\ UNCHANGED <<balance, txs, ledger>>

\* SET locked = GREATEST(locked - amount, 0)
DecrementLocked(amount) ==
    /\ locked' = AtLeastZero(locked - amount)
    /\ UNCHANGED <<balance, txs, ledger>>

-----------------------------------------------------------------------------
\* wallet_transactions

\* FindByReference
Recorded(ref) == txs[ref] # NoTx

\* Mutant: no unique index on the reference.
CreateTransaction_Upsert(ref, row) ==
    /\ txs' = [txs EXCEPT ![ref] = row]
    /\ UNCHANGED <<balance, locked, ledger>>

\* INSERT under UNIQUE (reference)
CreateTransaction(ref, row) ==
    /\ ~Recorded(ref)
    /\ txs' = [txs EXCEPT ![ref] = row]
    /\ UNCHANGED <<balance, locked, ledger>>

-----------------------------------------------------------------------------
\* ledger_entries

\* The pair of entries of one ledger transaction, posted by call c.
Entry(c, op, account, type, amount, ref) ==
    [call |-> c, op |-> op, account |-> account, type |-> type, amount |-> amount, ref |-> ref]

\* Both entries in one SQL transaction.
CreatePair(debit, credit) ==
    /\ ledger' = ledger \cup {debit, credit}
    /\ UNCHANGED <<balance, locked, txs>>

LedgerDeposit(c, ref, amount) ==
    CreatePair(Entry(c, "deposit", "external", "debit", amount, ref),
               Entry(c, "deposit", "wallet", "credit", amount, ref))

LedgerWithdrawal(c, ref, amount) ==
    CreatePair(Entry(c, "withdrawal", "wallet", "debit", amount, ref),
               Entry(c, "withdrawal", "external", "credit", amount, ref))

\* A reference of its own in the code (reference + "-fee"), told apart by op here.
LedgerFee(c, ref, amount) ==
    CreatePair(Entry(c, "fee", "wallet", "debit", amount, ref),
               Entry(c, "fee", "revenue", "credit", amount, ref))
=============================================================================
