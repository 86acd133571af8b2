----------------------------- MODULE WalletProofs -----------------------------
(***************************************************************************)
(* Theorems about Wallet, for every set of calls, requests and faults.     *)
(***************************************************************************)
EXTENDS Wallet, SumTheorems, TLAPS

\* Each action's parameters in the types its leaf steps need.
LEMMA RequestTyped ==
    ASSUME TypeOK, NEW c \in Calls
    PROVE  /\ req[c].kind \in Kinds
           /\ Ref(c) \in Refs
           /\ Amount(c) \in Nat \ {0}
           /\ req[c].fee \in Nat
           /\ Total(c) \in Nat \ {0}
           /\ Row(c) \in RowType
           /\ req[c].kind # "withdrawal" => req[c].fee = 0
<1>1. req[c] \in RequestType /\ req[c] \in Requests
    BY WalletAssumption DEF TypeOK
<1>2. req[c].kind \in Kinds /\ Ref(c) \in Refs /\ Amount(c) \in Nat \ {0} /\ req[c].fee \in Nat
    BY <1>1 DEF RequestType, Ref, Amount
<1>3. Total(c) \in Nat \ {0}
    BY <1>2 DEF Total, Amount
<1>4. QED
    BY <1>1, <1>2, <1>3, WalletAssumption DEF Row, RowType

\* Every variable keeps its type (all of wallet_service.go).
THEOREM TypeCorrect == Spec => []TypeOK
<1> USE DEF TypeOK, storeVars, callVars, Goto, Return
<1>1. Init => TypeOK
    BY WalletAssumption DEF Init, FirstStep, Labels, RequestType, Kinds
<1>2. TypeOK /\ [Next]_vars => TypeOK'
  <2> SUFFICES ASSUME TypeOK, [Next]_vars
               PROVE  TypeOK'
      OBVIOUS
  <2> USE DEF Labels
  <2>1. ASSUME NEW c \in Calls, DepositFind(c) PROVE TypeOK'
      BY <2>1, RequestTyped DEF DepositFind
  <2>2. ASSUME NEW c \in Calls, DepositRead(c) PROVE TypeOK'
      BY <2>2, RequestTyped DEF DepositRead
  <2>3. ASSUME NEW c \in Calls, DepositIncrement(c) PROVE TypeOK'
      BY <2>3, RequestTyped DEF DepositIncrement, IncrementBalance
  <2>4. ASSUME NEW c \in Calls, DepositReread(c) PROVE TypeOK'
      BY <2>4, RequestTyped DEF DepositReread
  <2>5. ASSUME NEW c \in Calls, DepositCreate(c) PROVE TypeOK'
      BY <2>5, RequestTyped DEF DepositCreate, CreateAttempt, CreateTransaction
  <2>6. ASSUME NEW c \in Calls, DepositRetry(c) PROVE TypeOK'
      BY <2>6, RequestTyped DEF DepositRetry, CreateAttempt, CreateTransaction
  <2>7. ASSUME NEW c \in Calls, DepositRollback(c) PROVE TypeOK'
      BY <2>7, RequestTyped DEF DepositRollback, IncrementBalance
  <2>8. ASSUME NEW c \in Calls, DepositLedger(c) PROVE TypeOK'
      BY <2>8, RequestTyped DEF DepositLedger, LedgerDeposit, CreatePair, Entry, EntryType
  <2>9. ASSUME NEW c \in Calls, WithdrawFind(c) PROVE TypeOK'
      BY <2>9, RequestTyped DEF WithdrawFind
  <2>10. ASSUME NEW c \in Calls, WithdrawRead(c) PROVE TypeOK'
      BY <2>10, RequestTyped DEF WithdrawRead
  <2>11. ASSUME NEW c \in Calls, WithdrawDecrement(c) PROVE TypeOK'
      BY <2>11, RequestTyped DEF WithdrawDecrement, DecrementBalanceAndLocked, AtLeastZero
  <2>12. ASSUME NEW c \in Calls, WithdrawReread(c) PROVE TypeOK'
      BY <2>12, RequestTyped DEF WithdrawReread
  <2>13. ASSUME NEW c \in Calls, WithdrawCreate(c) PROVE TypeOK'
      BY <2>13, RequestTyped DEF WithdrawCreate, CreateAttempt, CreateTransaction
  <2>14. ASSUME NEW c \in Calls, WithdrawRollback(c) PROVE TypeOK'
      BY <2>14, RequestTyped DEF WithdrawRollback, IncrementBalance
  <2>15. ASSUME NEW c \in Calls, WithdrawLedger(c) PROVE TypeOK'
      BY <2>15, RequestTyped DEF WithdrawLedger, LedgerWithdrawal, CreatePair, Entry, EntryType
  <2>16. ASSUME NEW c \in Calls, WithdrawFee(c) PROVE TypeOK'
      BY <2>16, RequestTyped DEF WithdrawFee, LedgerFee, CreatePair, Entry, EntryType
  <2>17. ASSUME NEW c \in Calls, InvalidateBalanceCache(c) PROVE TypeOK'
      BY <2>17, RequestTyped DEF InvalidateBalanceCache
  <2>18. ASSUME NEW c \in Calls, BalanceGet(c) PROVE TypeOK'
      BY <2>18, RequestTyped DEF BalanceGet
  <2>19. ASSUME NEW c \in Calls, BalanceLoad(c) PROVE TypeOK'
      BY <2>19, RequestTyped DEF BalanceLoad
  <2>20. ASSUME NEW c \in Calls, BalanceSet(c) PROVE TypeOK'
      BY <2>20, RequestTyped DEF BalanceSet
  <2>21. ASSUME NEW c \in Calls, LockBalance(c) PROVE TypeOK'
      BY <2>21, RequestTyped DEF LockBalance, IncrementLocked
  <2>22. ASSUME NEW c \in Calls, LockReread(c) PROVE TypeOK'
      BY <2>22, RequestTyped DEF LockReread
  <2>23. ASSUME NEW c \in Calls, UnlockBalance(c) PROVE TypeOK'
      BY <2>23, RequestTyped DEF UnlockBalance, DecrementLocked, AtLeastZero
  <2>24. ASSUME NEW c \in Calls, Crash(c) PROVE TypeOK'
      BY <2>24, RequestTyped DEF Crash
  <2>25. CASE CacheExpire
      BY <2>25 DEF CacheExpire
  <2>26. CASE UNCHANGED vars
      BY <2>26 DEF vars
  <2>27. QED
      BY <2>1, <2>2, <2>3, <2>4, <2>5, <2>6, <2>7, <2>8, <2>9, <2>10, <2>11, <2>12, <2>13, <2>14, <2>15, <2>16, <2>17, <2>18, <2>19, <2>20, <2>21, <2>22, <2>23, <2>24, <2>25, <2>26
      DEF Next, Step, RecordDeposit, RecordWithdrawal, GetBalance
<1>3. QED
    BY <1>1, <1>2, PTL DEF Spec
-----------------------------------------------------------------------------
(* The inductive invariant *)

\* A call is at a statement of the method it runs, and has answered only at its end.
AtOwnMethod ==
    \A c \in Calls :
        /\ pc[c] \in {"d_find", "d_read", "d_increment", "d_reread", "d_create", "d_retry",
                      "d_rollback", "d_ledger"} => req[c].kind = "deposit"
        /\ pc[c] \in {"w_find", "w_read", "w_decrement", "w_reread", "w_create",
                      "w_rollback", "w_ledger", "w_fee"} => req[c].kind = "withdrawal"
        /\ pc[c] = "invalidate" => req[c].kind \in {"deposit", "withdrawal"}
        /\ pc[c] \in {"lock", "l_reread"} => req[c].kind = "lock"
        /\ pc[c] = "unlock" => req[c].kind = "unlock"
        /\ pc[c] \in {"g_get", "g_load", "g_set"} => req[c].kind = "get_balance"
        /\ pc[c] = "w_fee" => req[c].fee > 0
        /\ pc[c] # "done" => answer[c] = "none"

\* A recorded row is the one its creator asked for.
RowsAreAskedFor ==
    \A r \in Refs : Recorded(r) => r = Ref(txs[r].by) /\ txs[r] = Row(txs[r].by)

\* Only the call that created the row gets past the insert.
PastInsertOwnsRow ==
    \A c \in Calls :
        pc[c] \in {"d_ledger", "w_ledger", "w_fee", "invalidate"} => OwnRow(c)

Inv == TypeOK /\ AtOwnMethod /\ RowsAreAskedFor /\ PastInsertOwnsRow /\ LedgerFollowsHistory

\* Inserting the row a call asks for keeps every row as it was asked for, every owner an
\* owner, and the ledger behind the history.
LEMMA InsertKeeps ==
    ASSUME Inv, NEW c \in Calls, UNCHANGED req, CreateTransaction(Ref(c), Row(c))
    PROVE  /\ RowsAreAskedFor'
           /\ OwnRow(c)'
           /\ \A d \in Calls : OwnRow(d) => OwnRow(d)'
           /\ LedgerFollowsHistory'
<1> USE DEF Inv
<1>1. /\ Ref(c) \in Refs
      /\ Row(c) \in RowType
      /\ Row(c).by = c
    BY RequestTyped DEF Row
<1>2. Row(c) # NoTx
    BY <1>1, WalletAssumption
<1>3. /\ txs' = [txs EXCEPT ![Ref(c)] = Row(c)]
      /\ txs[Ref(c)] = NoTx
      /\ ledger' = ledger
    BY DEF CreateTransaction, Recorded
<1>4. /\ txs'[Ref(c)] = Row(c)
      /\ \A r \in Refs : r # Ref(c) => txs'[r] = txs[r]
    BY <1>1, <1>3 DEF TypeOK
<1>5. \A d \in Calls : Ref(d)' = Ref(d) /\ Row(d)' = Row(d)
    BY DEF Ref, Row, Total
<1>6. \A d \in Calls : Ref(d) \in Refs
    BY RequestTyped
<1>7. ASSUME NEW r \in Refs, Recorded(r)'
      PROVE  (r = Ref(txs[r].by) /\ txs[r] = Row(txs[r].by))'
  <2>1. CASE r = Ref(c)
      BY <2>1, <1>1, <1>4, <1>5
  <2>2. CASE r # Ref(c)
    <3>1. txs'[r] = txs[r] /\ Recorded(r)
        BY <2>2, <1>4, <1>7 DEF Recorded
    <3>2. txs[r].by \in Calls
        BY <3>1 DEF TypeOK, RowType, Recorded
    <3>3. QED
        BY <3>1, <3>2, <1>5 DEF RowsAreAskedFor
  <2>3. QED
      BY <2>1, <2>2
<1>8. OwnRow(c)'
    BY <1>1, <1>2, <1>4, <1>5 DEF OwnRow, Recorded
<1>9. ASSUME NEW d \in Calls, OwnRow(d)
      PROVE  OwnRow(d)'
    BY <1>3, <1>4, <1>5, <1>6, <1>9 DEF OwnRow, Recorded
<1>10. LedgerFollowsHistory'
  <2>1. \A e \in ledger : e.ref \in Refs
      BY DEF TypeOK, EntryType
  <2>2. QED
      BY <2>1, <1>3, <1>4 DEF LedgerFollowsHistory, Recorded
<1>11. QED
    BY <1>7, <1>8, <1>9, <1>10 DEF RowsAreAskedFor

\* A pair of entries of the right amount, posted by the owner of the row, follows it.
LEMMA PairKeeps ==
    ASSUME Inv, NEW c \in Calls, UNCHANGED req, OwnRow(c),
           NEW debit, NEW credit, CreatePair(debit, credit),
           \A e \in {debit, credit} :
               /\ e.amount > 0 /\ e.call = c /\ e.ref = Ref(c)
               /\ e.op = "deposit" <=> req[c].kind = "deposit"
               /\ Total(c) = (IF e.op = "fee" THEN e.amount + req[c].amount
                                              ELSE e.amount + req[c].fee)
    PROVE  LedgerFollowsHistory'
<1>1. txs[Ref(c)].by = c /\ Recorded(Ref(c)) /\ Ref(c) \in Refs
    BY RequestTyped DEF OwnRow, Inv
<1>2. txs[Ref(c)] = Row(c)
    BY <1>1 DEF Inv, RowsAreAskedFor
<1>3. txs' = txs /\ ledger' = ledger \cup {debit, credit}
    BY DEF CreatePair
<1>4. QED
    BY <1>1, <1>2, <1>3 DEF Inv, LedgerFollowsHistory, Recorded, Row

\* Inv holds throughout (the control flow of RecordDeposit and RecordWithdrawal, whose
\* insert under the unique index decides which call goes on to the ledger).
THEOREM InvCorrect == Spec => []Inv
<1> USE DEF storeVars, callVars, Goto, Return
<1>1. Init => Inv
  <2> SUFFICES ASSUME Init PROVE Inv
      OBVIOUS
  <2>1. TypeOK
      BY WalletAssumption DEF Init, TypeOK, FirstStep, Labels, RequestType, Kinds
  <2>2. ASSUME NEW c \in Calls PROVE req[c].kind \in Kinds
      BY <2>1, WalletAssumption DEF TypeOK, RequestType
  <2>3. AtOwnMethod
      BY <2>2 DEF AtOwnMethod, Init, FirstStep, Kinds
  <2>4. PastInsertOwnsRow
      BY <2>2 DEF PastInsertOwnsRow, Init, FirstStep, Kinds
  <2>5. RowsAreAskedFor /\ LedgerFollowsHistory
      BY DEF Init, RowsAreAskedFor, LedgerFollowsHistory, Recorded
  <2>6. QED
      BY <2>1, <2>3, <2>4, <2>5 DEF Inv
<1>2. Inv /\ TypeOK' /\ [Next]_vars => Inv'
  <2> SUFFICES ASSUME Inv, TypeOK', [Next]_vars
               PROVE  Inv'
      OBVIOUS
  <2>1. ASSUME NEW c \in Calls, DepositCreate(c) PROVE Inv'
    <3>1. UNCHANGED req /\ req[c].kind \in {"deposit", "withdrawal"}
        BY <2>1 DEF DepositCreate, CreateAttempt, Inv, AtOwnMethod
    <3>2. AtOwnMethod'
        BY <2>1, <3>1 DEF DepositCreate, CreateAttempt, Inv, TypeOK, AtOwnMethod
    <3>3. CASE CreateTransaction(Ref(c), Row(c))
      <4>1. /\ RowsAreAskedFor' /\ OwnRow(c)' /\ LedgerFollowsHistory'
            /\ \A d \in Calls : OwnRow(d) => OwnRow(d)'
          BY <3>1, <3>3, InsertKeeps
      <4>2. PastInsertOwnsRow'
          BY <2>1, <4>1 DEF DepositCreate, CreateAttempt, Inv, TypeOK, PastInsertOwnsRow
      <4>3. QED
          BY <3>2, <4>1, <4>2 DEF Inv
    <3>4. CASE UNCHANGED storeVars /\ ~CreateTransaction(Ref(c), Row(c))
        BY <2>1, <3>1, <3>2, <3>4 DEF DepositCreate, CreateAttempt, Inv, TypeOK,
           RowsAreAskedFor, PastInsertOwnsRow, LedgerFollowsHistory, Recorded, OwnRow,
           Ref, Row, Total
    <3>5. QED
        BY <2>1, <3>3, <3>4 DEF DepositCreate, CreateAttempt
  <2>2. ASSUME NEW c \in Calls, DepositRetry(c) PROVE Inv'
    <3>1. UNCHANGED req /\ req[c].kind \in {"deposit", "withdrawal"}
        BY <2>2 DEF DepositRetry, CreateAttempt, Inv, AtOwnMethod
    <3>2. AtOwnMethod'
        BY <2>2, <3>1 DEF DepositRetry, CreateAttempt, Inv, TypeOK, AtOwnMethod
    <3>3. CASE CreateTransaction(Ref(c), Row(c))
      <4>1. /\ RowsAreAskedFor' /\ OwnRow(c)' /\ LedgerFollowsHistory'
            /\ \A d \in Calls : OwnRow(d) => OwnRow(d)'
          BY <3>1, <3>3, InsertKeeps
      <4>2. PastInsertOwnsRow'
          BY <2>2, <4>1 DEF DepositRetry, CreateAttempt, Inv, TypeOK, PastInsertOwnsRow
      <4>3. QED
          BY <3>2, <4>1, <4>2 DEF Inv
    <3>4. CASE UNCHANGED storeVars /\ ~CreateTransaction(Ref(c), Row(c))
        BY <2>2, <3>1, <3>2, <3>4 DEF DepositRetry, CreateAttempt, Inv, TypeOK,
           RowsAreAskedFor, PastInsertOwnsRow, LedgerFollowsHistory, Recorded, OwnRow,
           Ref, Row, Total
    <3>5. QED
        BY <2>2, <3>3, <3>4 DEF DepositRetry, CreateAttempt
  <2>3. ASSUME NEW c \in Calls, WithdrawCreate(c) PROVE Inv'
    <3>1. UNCHANGED req /\ req[c].kind \in {"deposit", "withdrawal"}
        BY <2>3 DEF WithdrawCreate, CreateAttempt, Inv, AtOwnMethod
    <3>2. AtOwnMethod'
        BY <2>3, <3>1 DEF WithdrawCreate, CreateAttempt, Inv, TypeOK, AtOwnMethod
    <3>3. CASE CreateTransaction(Ref(c), Row(c))
      <4>1. /\ RowsAreAskedFor' /\ OwnRow(c)' /\ LedgerFollowsHistory'
            /\ \A d \in Calls : OwnRow(d) => OwnRow(d)'
          BY <3>1, <3>3, InsertKeeps
      <4>2. PastInsertOwnsRow'
          BY <2>3, <4>1 DEF WithdrawCreate, CreateAttempt, Inv, TypeOK, PastInsertOwnsRow
      <4>3. QED
          BY <3>2, <4>1, <4>2 DEF Inv
    <3>4. CASE UNCHANGED storeVars /\ ~CreateTransaction(Ref(c), Row(c))
        BY <2>3, <3>1, <3>2, <3>4 DEF WithdrawCreate, CreateAttempt, Inv, TypeOK,
           RowsAreAskedFor, PastInsertOwnsRow, LedgerFollowsHistory, Recorded, OwnRow,
           Ref, Row, Total
    <3>5. QED
        BY <2>3, <3>3, <3>4 DEF WithdrawCreate, CreateAttempt
  <2>4. ASSUME NEW c \in Calls, DepositLedger(c) PROVE Inv'
    <3>1. UNCHANGED <<req, txs>> /\ OwnRow(c)
        BY <2>4 DEF DepositLedger, LedgerDeposit, CreatePair, Inv, PastInsertOwnsRow
    <3>2. AtOwnMethod' /\ PastInsertOwnsRow' /\ RowsAreAskedFor'
        BY <2>4, <3>1, RequestTyped DEF DepositLedger, Inv, TypeOK, AtOwnMethod, PastInsertOwnsRow,
           RowsAreAskedFor, Recorded, OwnRow, Ref, Row, Total
    <3>3. CASE LedgerDeposit(c, Ref(c), Amount(c))
      <4>1. Amount(c) \in Nat \ {0} /\ req[c].fee \in Nat /\ (req[c].kind = "deposit" => req[c].fee = 0)
          BY RequestTyped DEF Inv
      <4>2. req[c].kind = "deposit"
          BY <2>4 DEF DepositLedger, Inv, AtOwnMethod
      <4>3. LedgerFollowsHistory'
          BY <3>1, <3>3, <4>1, <4>2, PairKeeps DEF LedgerDeposit, Entry, Amount, Total
      <4>4. QED
          BY <3>2, <4>3 DEF Inv
    <3>4. CASE UNCHANGED storeVars
        BY <3>1, <3>2, <3>4 DEF Inv, LedgerFollowsHistory, Recorded
    <3>5. QED
        BY <2>4, <3>3, <3>4 DEF DepositLedger
  <2>5. ASSUME NEW c \in Calls, WithdrawLedger(c) PROVE Inv'
    <3>1. UNCHANGED <<req, txs>> /\ OwnRow(c)
        BY <2>5 DEF WithdrawLedger, LedgerWithdrawal, CreatePair, Inv, PastInsertOwnsRow
    <3>2. AtOwnMethod' /\ PastInsertOwnsRow' /\ RowsAreAskedFor'
        BY <2>5, <3>1, RequestTyped DEF WithdrawLedger, Inv, TypeOK, AtOwnMethod, PastInsertOwnsRow,
           RowsAreAskedFor, Recorded, OwnRow, Ref, Row, Total
    <3>3. CASE LedgerWithdrawal(c, Ref(c), Amount(c))
      <4>1. Amount(c) \in Nat \ {0} /\ req[c].fee \in Nat /\ (req[c].kind = "deposit" => req[c].fee = 0)
          BY RequestTyped DEF Inv
      <4>2. req[c].kind # "deposit"
          BY <2>5 DEF WithdrawLedger, Inv, AtOwnMethod
      <4>3. LedgerFollowsHistory'
          BY <3>1, <3>3, <4>1, <4>2, PairKeeps DEF LedgerWithdrawal, Entry, Amount, Total
      <4>4. QED
          BY <3>2, <4>3 DEF Inv
    <3>4. CASE UNCHANGED storeVars
        BY <3>1, <3>2, <3>4 DEF Inv, LedgerFollowsHistory, Recorded
    <3>5. QED
        BY <2>5, <3>3, <3>4 DEF WithdrawLedger
  <2>6. ASSUME NEW c \in Calls, WithdrawFee(c) PROVE Inv'
    <3>1. UNCHANGED <<req, txs>> /\ OwnRow(c)
        BY <2>6 DEF WithdrawFee, LedgerFee, CreatePair, Inv, PastInsertOwnsRow
    <3>2. AtOwnMethod' /\ PastInsertOwnsRow' /\ RowsAreAskedFor'
        BY <2>6, <3>1, RequestTyped DEF WithdrawFee, Inv, TypeOK, AtOwnMethod, PastInsertOwnsRow,
           RowsAreAskedFor, Recorded, OwnRow, Ref, Row, Total
    <3>3. CASE LedgerFee(c, Ref(c), req[c].fee)
      <4>1. Amount(c) \in Nat \ {0} /\ req[c].fee \in Nat /\ (req[c].kind = "deposit" => req[c].fee = 0)
          BY RequestTyped DEF Inv
      <4>2. req[c].kind # "deposit" /\ req[c].fee > 0
          BY <2>6 DEF WithdrawFee, Inv, AtOwnMethod
      <4>3. LedgerFollowsHistory'
          BY <3>1, <3>3, <4>1, <4>2, PairKeeps DEF LedgerFee, Entry, Amount, Total
      <4>4. QED
          BY <3>2, <4>3 DEF Inv
    <3>4. CASE UNCHANGED storeVars
        BY <3>1, <3>2, <3>4 DEF Inv, LedgerFollowsHistory, Recorded
    <3>5. QED
        BY <2>6, <3>3, <3>4 DEF WithdrawFee
  <2> USE DEF Inv, TypeOK, AtOwnMethod, RowsAreAskedFor, PastInsertOwnsRow,
              LedgerFollowsHistory, Recorded, OwnRow, Ref, Row, Total
  <2>7. ASSUME NEW c \in Calls, DepositFind(c) PROVE Inv'
      BY <2>7, RequestTyped DEF DepositFind
  <2>8. ASSUME NEW c \in Calls, DepositRead(c) PROVE Inv'
      BY <2>8, RequestTyped DEF DepositRead
  <2>9. ASSUME NEW c \in Calls, DepositIncrement(c) PROVE Inv'
      BY <2>9, RequestTyped DEF DepositIncrement, IncrementBalance
  <2>10. ASSUME NEW c \in Calls, DepositReread(c) PROVE Inv'
      BY <2>10, RequestTyped DEF DepositReread
  <2>11. ASSUME NEW c \in Calls, DepositRollback(c) PROVE Inv'
      BY <2>11, RequestTyped DEF DepositRollback, IncrementBalance
  <2>12. ASSUME NEW c \in Calls, WithdrawFind(c) PROVE Inv'
      BY <2>12, RequestTyped DEF WithdrawFind
  <2>13. ASSUME NEW c \in Calls, WithdrawRead(c) PROVE Inv'
      BY <2>13, RequestTyped DEF WithdrawRead
  <2>14. ASSUME NEW c \in Calls, WithdrawDecrement(c) PROVE Inv'
      BY <2>14, RequestTyped DEF WithdrawDecrement, DecrementBalanceAndLocked, AtLeastZero
  <2>15. ASSUME NEW c \in Calls, WithdrawReread(c) PROVE Inv'
      BY <2>15, RequestTyped DEF WithdrawReread
  <2>16. ASSUME NEW c \in Calls, WithdrawRollback(c) PROVE Inv'
      BY <2>16, RequestTyped DEF WithdrawRollback, IncrementBalance
  <2>17. ASSUME NEW c \in Calls, InvalidateBalanceCache(c) PROVE Inv'
      BY <2>17, RequestTyped DEF InvalidateBalanceCache
  <2>18. ASSUME NEW c \in Calls, BalanceGet(c) PROVE Inv'
      BY <2>18, RequestTyped DEF BalanceGet
  <2>19. ASSUME NEW c \in Calls, BalanceLoad(c) PROVE Inv'
      BY <2>19, RequestTyped DEF BalanceLoad
  <2>20. ASSUME NEW c \in Calls, BalanceSet(c) PROVE Inv'
      BY <2>20, RequestTyped DEF BalanceSet
  <2>21. ASSUME NEW c \in Calls, LockBalance(c) PROVE Inv'
      BY <2>21, RequestTyped DEF LockBalance, IncrementLocked
  <2>22. ASSUME NEW c \in Calls, LockReread(c) PROVE Inv'
      BY <2>22, RequestTyped DEF LockReread
  <2>23. ASSUME NEW c \in Calls, UnlockBalance(c) PROVE Inv'
      BY <2>23, RequestTyped DEF UnlockBalance, DecrementLocked, AtLeastZero
  <2>24. ASSUME NEW c \in Calls, Crash(c) PROVE Inv'
      BY <2>24, RequestTyped DEF Crash
  <2>25. CASE CacheExpire
      BY <2>25 DEF CacheExpire
  <2>26. CASE UNCHANGED vars
      BY <2>26 DEF vars
  <2>27. QED
      BY <2>1, <2>2, <2>3, <2>4, <2>5, <2>6, <2>7, <2>8, <2>9, <2>10, <2>11, <2>12, <2>13, <2>14, <2>15, <2>16, <2>17, <2>18, <2>19, <2>20, <2>21, <2>22, <2>23, <2>24, <2>25, <2>26
      DEF Next, Step, RecordDeposit, RecordWithdrawal, GetBalance
<1>3. QED
    BY <1>1, <1>2, TypeCorrect, PTL DEF Spec

\* Under any fault, a ledger entry stands for a recorded transaction of the call that
\* posted it, of its kind and amount (RecordDeposit's and RecordWithdrawal's last steps).
THEOREM LedgerFollows == Spec => []LedgerFollowsHistory
<1>1. Inv => LedgerFollowsHistory
    BY DEF Inv
<1>2. QED
    BY <1>1, InvCorrect, PTL

-----------------------------------------------------------------------------
(* The wallet implements Journal *)

\* Every step of the wallet enters a call's row, answers a call, or leaves both alone.
LEMMA StepMapsToJournal ==
    ASSUME Inv, [Next]_vars
    PROVE  [J!Next]_(J!vars)
<1> USE DEF J!vars, J!Next, J!Enter, J!Reply, J!Posting, storeVars, callVars, Goto, Return
<1>1. CASE UNCHANGED <<txs, req, answer>>
    BY <1>1
<1>2. ASSUME NEW c \in Calls, UNCHANGED <<req, answer>>, answer[c] = "none",
             req[c].kind \in {"deposit", "withdrawal"},
             CreateTransaction(Ref(c), Row(c))
      PROVE  J!Next
  <2>1. J!EntryOf(c) = Row(c)
      BY DEF J!EntryOf, Row, Total
  <2>2. QED
      BY <1>2, <2>1 DEF CreateTransaction, Recorded, Ref
<1>3. ASSUME NEW c \in Calls, UNCHANGED <<req, txs>>, answer[c] = "none",
             \/ answer' = [answer EXCEPT ![c] = "error"]
             \/ /\ answer' = [answer EXCEPT ![c] = "ok"]
                /\ req[c].kind \in {"deposit", "withdrawal"} => Recorded(Ref(c))
      PROVE  J!Next
    BY <1>3 DEF Recorded, Ref
<1>4. ASSUME NEW c \in Calls, DepositFind(c) PROVE [J!Next]_(J!vars)
    BY <1>4, <1>1, <1>3 DEF DepositFind, Inv, AtOwnMethod, PastInsertOwnsRow, OwnRow
<1>5. ASSUME NEW c \in Calls, DepositRead(c) PROVE [J!Next]_(J!vars)
    BY <1>5, <1>1, <1>3 DEF DepositRead, Inv, AtOwnMethod, PastInsertOwnsRow, OwnRow
<1>6. ASSUME NEW c \in Calls, DepositIncrement(c) PROVE [J!Next]_(J!vars)
    BY <1>6, <1>1, <1>3 DEF DepositIncrement, IncrementBalance, Inv, AtOwnMethod, PastInsertOwnsRow, OwnRow
<1>7. ASSUME NEW c \in Calls, DepositReread(c) PROVE [J!Next]_(J!vars)
    BY <1>7, <1>1, <1>3 DEF DepositReread, Inv, AtOwnMethod, PastInsertOwnsRow, OwnRow
<1>8. ASSUME NEW c \in Calls, DepositCreate(c) PROVE [J!Next]_(J!vars)
    BY <1>8, <1>1, <1>2 DEF DepositCreate, CreateAttempt, Inv, AtOwnMethod
<1>9. ASSUME NEW c \in Calls, DepositRetry(c) PROVE [J!Next]_(J!vars)
    BY <1>9, <1>1, <1>2 DEF DepositRetry, CreateAttempt, Inv, AtOwnMethod
<1>10. ASSUME NEW c \in Calls, DepositRollback(c) PROVE [J!Next]_(J!vars)
    BY <1>10, <1>1, <1>3 DEF DepositRollback, IncrementBalance, Inv, AtOwnMethod, PastInsertOwnsRow, OwnRow
<1>11. ASSUME NEW c \in Calls, DepositLedger(c) PROVE [J!Next]_(J!vars)
    BY <1>11, <1>1, <1>3 DEF DepositLedger, LedgerDeposit, CreatePair, Entry, EntryType, Inv, AtOwnMethod, PastInsertOwnsRow, OwnRow
<1>12. ASSUME NEW c \in Calls, WithdrawFind(c) PROVE [J!Next]_(J!vars)
    BY <1>12, <1>1, <1>3 DEF WithdrawFind, Inv, AtOwnMethod, PastInsertOwnsRow, OwnRow
<1>13. ASSUME NEW c \in Calls, WithdrawRead(c) PROVE [J!Next]_(J!vars)
    BY <1>13, <1>1, <1>3 DEF WithdrawRead, Inv, AtOwnMethod, PastInsertOwnsRow, OwnRow
<1>14. ASSUME NEW c \in Calls, WithdrawDecrement(c) PROVE [J!Next]_(J!vars)
    BY <1>14, <1>1, <1>3 DEF WithdrawDecrement, DecrementBalanceAndLocked, AtLeastZero, Inv, AtOwnMethod, PastInsertOwnsRow, OwnRow
<1>15. ASSUME NEW c \in Calls, WithdrawReread(c) PROVE [J!Next]_(J!vars)
    BY <1>15, <1>1, <1>3 DEF WithdrawReread, Inv, AtOwnMethod, PastInsertOwnsRow, OwnRow
<1>16. ASSUME NEW c \in Calls, WithdrawCreate(c) PROVE [J!Next]_(J!vars)
    BY <1>16, <1>1, <1>2 DEF WithdrawCreate, CreateAttempt, Inv, AtOwnMethod
<1>17. ASSUME NEW c \in Calls, WithdrawRollback(c) PROVE [J!Next]_(J!vars)
    BY <1>17, <1>1, <1>3 DEF WithdrawRollback, IncrementBalance, Inv, AtOwnMethod, PastInsertOwnsRow, OwnRow
<1>18. ASSUME NEW c \in Calls, WithdrawLedger(c) PROVE [J!Next]_(J!vars)
    BY <1>18, <1>1, <1>3 DEF WithdrawLedger, LedgerWithdrawal, CreatePair, Entry, EntryType, Inv, AtOwnMethod, PastInsertOwnsRow, OwnRow
<1>19. ASSUME NEW c \in Calls, WithdrawFee(c) PROVE [J!Next]_(J!vars)
    BY <1>19, <1>1, <1>3 DEF WithdrawFee, LedgerFee, CreatePair, Entry, EntryType, Inv, AtOwnMethod, PastInsertOwnsRow, OwnRow
<1>20. ASSUME NEW c \in Calls, InvalidateBalanceCache(c) PROVE [J!Next]_(J!vars)
    BY <1>20, <1>1, <1>3 DEF InvalidateBalanceCache, Inv, AtOwnMethod, PastInsertOwnsRow, OwnRow
<1>21. ASSUME NEW c \in Calls, BalanceGet(c) PROVE [J!Next]_(J!vars)
    BY <1>21, <1>1, <1>3 DEF BalanceGet, Inv, AtOwnMethod, PastInsertOwnsRow, OwnRow
<1>22. ASSUME NEW c \in Calls, BalanceLoad(c) PROVE [J!Next]_(J!vars)
    BY <1>22, <1>1, <1>3 DEF BalanceLoad, Inv, AtOwnMethod, PastInsertOwnsRow, OwnRow
<1>23. ASSUME NEW c \in Calls, BalanceSet(c) PROVE [J!Next]_(J!vars)
    BY <1>23, <1>1, <1>3 DEF BalanceSet, Inv, AtOwnMethod, PastInsertOwnsRow, OwnRow
<1>24. ASSUME NEW c \in Calls, LockBalance(c) PROVE [J!Next]_(J!vars)
    BY <1>24, <1>1, <1>3 DEF LockBalance, IncrementLocked, Inv, AtOwnMethod, PastInsertOwnsRow, OwnRow
<1>25. ASSUME NEW c \in Calls, LockReread(c) PROVE [J!Next]_(J!vars)
    BY <1>25, <1>1, <1>3 DEF LockReread, Inv, AtOwnMethod, PastInsertOwnsRow, OwnRow
<1>26. ASSUME NEW c \in Calls, UnlockBalance(c) PROVE [J!Next]_(J!vars)
    BY <1>26, <1>1, <1>3 DEF UnlockBalance, DecrementLocked, AtLeastZero, Inv, AtOwnMethod, PastInsertOwnsRow, OwnRow
<1>27. ASSUME NEW c \in Calls, Crash(c) PROVE [J!Next]_(J!vars)
    BY <1>27, <1>1, <1>3 DEF Crash, Inv, AtOwnMethod, PastInsertOwnsRow, OwnRow
<1>28. CASE CacheExpire
    BY <1>28, <1>1 DEF CacheExpire
<1>29. CASE UNCHANGED vars
    BY <1>29, <1>1 DEF vars
<1>30. QED
    BY <1>4, <1>5, <1>6, <1>7, <1>8, <1>9, <1>10, <1>11, <1>12, <1>13, <1>14, <1>15, <1>16, <1>17, <1>18, <1>19, <1>20, <1>21, <1>22, <1>23, <1>24, <1>25, <1>26, <1>27, <1>28, <1>29
    DEF Next, Step, RecordDeposit, RecordWithdrawal, GetBalance

\* Under any fault the wallet keeps Journal's promises: a reference is entered at most
\* once and for good, as its call asked, and "ok" means entered (RecordDeposit and
\* RecordWithdrawal with their idempotency checks).
THEOREM ImplementsJournal == Spec => JournalSpec
<1>1. Init => J!Init
    BY DEF Init, J!Init
<1>2. QED
    BY <1>1, StepMapsToJournal, InvCorrect, PTL DEF Spec, JournalSpec, J!Spec

-----------------------------------------------------------------------------
(* The drift of the balance *)

\* A call owns a row only from its insert on, and has given up only at its end.
Unowned ==
    \A c \in Calls :
        /\ pc[c] \in {"d_find", "d_read", "d_increment", "d_reread", "d_create",
                      "w_find", "w_read", "w_decrement", "w_reread", "w_create"} => ~OwnRow(c)
        /\ c \in critical => pc[c] = "done"

\* Without faults an insert fails only because of another call's row.
Raced ==
    Faults = {} =>
        \A c \in Calls :
            /\ pc[c] \in {"d_retry", "d_rollback", "w_rollback"} => Recorded(Ref(c)) /\ ~OwnRow(c)
            /\ pc[c] # "crashed"

DriftInv == Inv /\ Unowned /\ Raced

PostingOf(c) == IF req[c].kind = "deposit" THEN Total(c) ELSE -Total(c)
AllUnrecorded == SumFunction([c \in Calls |-> Unrecorded(c)])

\* What a step of call c leaves of the other calls and of the rows.
Moves(c) ==
    /\ UNCHANGED req
    /\ \A d \in Calls \ {c} : pc'[d] = pc[d] /\ answer'[d] = answer[d]
    /\ txs' = txs \/ CreateTransaction(Ref(c), Row(c))

LEMMA StepMoves ==
    ASSUME Inv, NEW c \in Calls, Step(c) \/ Crash(c)
    PROVE  Moves(c)
<1> USE DEF Moves, Goto, Return, storeVars, callVars, Inv, TypeOK
<1>1. CASE RecordDeposit(c)
    BY <1>1 DEF RecordDeposit, DepositFind, DepositRead, DepositIncrement, DepositReread,
        DepositCreate, DepositRetry, CreateAttempt, DepositRollback, DepositLedger,
        IncrementBalance, LedgerDeposit, CreatePair
<1>2. CASE RecordWithdrawal(c)
    BY <1>2 DEF RecordWithdrawal, WithdrawFind, WithdrawRead, WithdrawDecrement, WithdrawReread,
        WithdrawCreate, CreateAttempt, WithdrawRollback, WithdrawLedger, WithdrawFee,
        IncrementBalance, DecrementBalanceAndLocked, LedgerWithdrawal, LedgerFee, CreatePair
<1>3. CASE InvalidateBalanceCache(c) \/ GetBalance(c) \/ LockBalance(c) \/ LockReread(c)
           \/ UnlockBalance(c) \/ Crash(c)
    BY <1>3 DEF InvalidateBalanceCache, GetBalance, BalanceGet, BalanceLoad, BalanceSet,
        LockBalance, LockReread, UnlockBalance, Crash, IncrementLocked, DecrementLocked
<1> QED
    BY <1>1, <1>2, <1>3 DEF Step

\* An insert makes its call the owner of the row and changes nobody else's ownership.
LEMMA OwnersMove ==
    ASSUME Inv, NEW c \in Calls, Moves(c)
    PROVE  /\ \A d \in Calls \ {c} : OwnRow(d)' <=> OwnRow(d)
           /\ txs' = txs => (OwnRow(c)' <=> OwnRow(c))
           /\ CreateTransaction(Ref(c), Row(c)) => OwnRow(c)' /\ ~OwnRow(c)
<1>1. \A d \in Calls : Ref(d)' = Ref(d) /\ Ref(d) \in Refs
    BY RequestTyped DEF Moves, Ref, Inv
<1>2. CASE txs' = txs /\ ~CreateTransaction(Ref(c), Row(c))
    BY <1>1, <1>2 DEF OwnRow, Recorded
<1>3. CASE CreateTransaction(Ref(c), Row(c))
    <2>1. /\ ~Recorded(Ref(c))
          /\ txs' = [txs EXCEPT ![Ref(c)] = Row(c)]
          /\ DOMAIN txs = Refs
          /\ Row(c).by = c
          /\ Row(c) # NoTx
        BY <1>3, RequestTyped, WalletAssumption DEF CreateTransaction, Inv, TypeOK, Row
    <2>2. OwnRow(c)' /\ ~OwnRow(c)
        BY <1>1, <2>1 DEF OwnRow, Recorded
    <2>3. ASSUME NEW d \in Calls \ {c}
          PROVE  OwnRow(d)' <=> OwnRow(d)
        BY <1>1, <2>1 DEF OwnRow, Recorded
    <2>4. txs' # txs
        BY <1>1, <2>1 DEF Recorded
    <2> QED
        BY <2>2, <2>3, <2>4
<1> QED
    BY <1>2, <1>3 DEF Moves

LEMMA UnrecordedTyped ==
    ASSUME TypeOK, NEW c \in Calls
    PROVE  Unrecorded(c) \in Int
<1>1. Amount(c) \in Int /\ -Total(c) \in Int
    BY RequestTyped
<1> QED
    BY <1>1 DEF Unrecorded

\* The sum over the calls moves by the share of the call that takes the step.
LEMMA UnrecordedMoves ==
    ASSUME Inv, TypeOK', NEW c \in Calls, Moves(c)
    PROVE  /\ AllUnrecorded \in Int
           /\ AllUnrecorded' = AllUnrecorded + (Unrecorded(c)' - Unrecorded(c))
<1> DEFINE f == [d \in Calls |-> Unrecorded(d)]
           g == [d \in Calls |-> Unrecorded(d)']
<1>1. AllUnrecorded = SumFunctionOnSet(f, Calls) /\ AllUnrecorded' = SumFunctionOnSet(g, Calls)
    BY DEF AllUnrecorded, SumFunction
<1>2. \A d \in Calls : f[d] \in Int /\ g[d] \in Int
    <2>1. \A d \in Calls : Unrecorded(d) \in Int
        BY UnrecordedTyped DEF Inv
    <2>2. ASSUME NEW d \in Calls PROVE Unrecorded(d)' \in Int
        <3>1. (Amount(d) \in Int)' /\ (-Total(d) \in Int)'
            <4>1. Amount(d) \in Int /\ -Total(d) \in Int
                BY RequestTyped DEF Inv
            <4> QED
                BY <4>1 DEF Moves, Amount, Total
        <3> QED
            BY <3>1 DEF Unrecorded
    <2> QED
        BY <2>1, <2>2
<1>3. ASSUME NEW d \in Calls, d # c
      PROVE  g[d] = f[d]
    <2>1. OwnRow(d)' <=> OwnRow(d)
        BY <1>3, OwnersMove
    <2>2. pc'[d] = pc[d] /\ Amount(d)' = Amount(d) /\ Total(d)' = Total(d)
        BY <1>3 DEF Moves, Amount, Total
    <2> QED
        BY <2>1, <2>2 DEF Unrecorded
<1>4. IsFiniteSet(Calls)
    BY WalletAssumption
<1>5. g[c] = Unrecorded(c)' /\ f[c] = Unrecorded(c)
    OBVIOUS
<1> HIDE DEF f, g
<1> QED
    BY <1>1, <1>2, <1>3, <1>4, <1>5, SumChanges

\* The history moves by the row that is inserted.
LEMMA PostedMoves ==
    ASSUME Inv, NEW c \in Calls, Moves(c)
    PROVE  /\ Posted \in Int
           /\ txs' = txs => Posted' = Posted
           /\ CreateTransaction(Ref(c), Row(c)) => Posted' = Posted + PostingOf(c)
<1> DEFINE f == [r \in Refs |-> Posting(r)]
           g == [r \in Refs |-> Posting(r)']
<1>1. Posted = SumFunctionOnSet(f, Refs) /\ Posted' = SumFunctionOnSet(g, Refs)
    BY DEF Posted, SumFunction
<1>2. IsFiniteSet(Refs)
    BY WalletAssumption
<1>3. \A r \in Refs : f[r] \in Int
    <2>1. ASSUME NEW r \in Refs PROVE Posting(r) \in Int
        <3>1. Recorded(r) => txs[r].amount \in Nat
            BY DEF Inv, TypeOK, RowType, Recorded
        <3> QED
            BY <3>1 DEF Posting
    <2> QED
        BY <2>1
<1>4. Posted \in Int
    <2> HIDE DEF f
    <2> QED
        BY <1>1, <1>2, <1>3, SumIsInt
<1>5. CASE txs' = txs
    <2>1. Posted' = Posted
        <3>1. \A r \in Refs : f[r] = g[r]
            BY <1>5 DEF Posting, Recorded
        <3> HIDE DEF f, g
        <3> QED
            BY <3>1, <1>1, <1>2, SumSame
    <2>2. ~CreateTransaction(Ref(c), Row(c))
        BY <1>5, OwnersMove
    <2> QED
        BY <1>4, <2>1, <2>2
<1>6. CASE CreateTransaction(Ref(c), Row(c))
    <2>1. /\ Ref(c) \in Refs /\ Total(c) \in Nat
          /\ ~Recorded(Ref(c))
          /\ txs' = [txs EXCEPT ![Ref(c)] = Row(c)]
          /\ DOMAIN txs = Refs
          /\ Row(c).type = req[c].kind /\ Row(c).amount = Total(c)
          /\ Row(c) # NoTx
        BY <1>6, RequestTyped, WalletAssumption DEF CreateTransaction, Inv, TypeOK, Row
    <2>2. f[Ref(c)] = 0 /\ g[Ref(c)] = PostingOf(c) /\ PostingOf(c) \in Int
        <3>1. Posting(Ref(c)) = 0
            BY <2>1 DEF Posting
        <3>2. txs'[Ref(c)] = Row(c)
            BY <2>1
        <3>3. PostingOf(c) \in Int
            BY <2>1 DEF PostingOf
        <3> DEFINE r == Ref(c)
        <3>4. g[r] = PostingOf(c)
            <4>1. r \in Refs /\ txs'[r] = Row(c)
                BY <2>1, <3>2
            <4> HIDE DEF r
            <4> QED
                BY <4>1, <2>1 DEF Posting, PostingOf, Recorded
        <3> QED
            BY <2>1, <3>1, <3>3, <3>4
    <2>3. \A r \in Refs : r # Ref(c) => g[r] = f[r]
        BY <2>1 DEF Posting, Recorded
    <2>4. \A r \in Refs : g[r] \in Int
        BY <1>3, <2>2, <2>3
    <2> HIDE DEF f, g
    <2>5. Posted' = Posted + (g[Ref(c)] - f[Ref(c)])
        BY <1>1, <1>2, <1>3, <2>1, <2>3, <2>4, SumChanges
    <2>6. Posted' = Posted + PostingOf(c)
        BY <1>4, <2>2, <2>5
    <2>7. txs' # txs
        BY <2>1 DEF Recorded
    <2> QED
        BY <1>4, <2>6, <2>7
<1> QED
    BY <1>4, <1>5, <1>6 DEF Moves

\* What a call at a label has on the balance without a record, unless it owns a row.
Share(c, label) ==
    CASE label \in {"d_reread", "d_create", "d_retry", "d_rollback"} -> Amount(c)
      [] label \in {"w_reread", "w_create", "w_rollback"} -> -Total(c)
      [] OTHER -> 0

LEMMA UnrecordedIsShare ==
    ASSUME Inv, NEW c \in Calls, Moves(c)
    PROVE  /\ Unrecorded(c) = IF OwnRow(c) THEN 0 ELSE Share(c, pc[c])
           /\ Unrecorded(c)' = IF OwnRow(c)' THEN 0 ELSE Share(c, pc'[c])
           /\ \A label : Share(c, label) \in Int
<1>1. Amount(c)' = Amount(c) /\ Total(c)' = Total(c)
    BY DEF Moves, Amount, Total
<1>2. Amount(c) \in Int /\ -Total(c) \in Int
    BY RequestTyped DEF Inv
<1>3. Unrecorded(c) = IF OwnRow(c) THEN 0 ELSE Share(c, pc[c])
    BY DEF Unrecorded, Share
<1>4. Unrecorded(c)' = IF OwnRow(c)' THEN 0 ELSE Share(c, pc'[c])
    BY <1>1 DEF Unrecorded, Share
<1>5. \A label : Share(c, label) \in Int
    BY <1>2 DEF Share
<1> QED
    BY <1>3, <1>4, <1>5

\* How far a step moves the drift.
LEMMA DriftMoves ==
    ASSUME Inv, TypeOK', NEW c \in Calls, Moves(c)
    PROVE  /\ Drift \in Int
           /\ txs' = txs /\ OwnRow(c) => Drift' = Drift + (balance' - balance)
           /\ txs' = txs /\ ~OwnRow(c) =>
                Drift' = Drift + (balance' - balance) - (Share(c, pc'[c]) - Share(c, pc[c]))
           /\ CreateTransaction(Ref(c), Row(c)) =>
                Drift' = Drift + (balance' - balance) - PostingOf(c) + Share(c, pc[c])
<1>1. Drift = balance - InitialBalance - Posted - AllUnrecorded
    BY DEF Drift, AllUnrecorded
<1>2. Drift' = balance' - InitialBalance - Posted' - AllUnrecorded'
    BY DEF Drift, AllUnrecorded
<1>3. balance \in Int /\ balance' \in Int /\ InitialBalance \in Int
    BY WalletAssumption DEF Inv, TypeOK
<1>4. Share(c, pc[c]) \in Int /\ Share(c, pc'[c]) \in Int
    BY UnrecordedIsShare
<1>5. Posted \in Int /\ AllUnrecorded \in Int /\ Drift \in Int
    BY <1>1, <1>3, PostedMoves, UnrecordedMoves
<1>6. AllUnrecorded' = AllUnrecorded + (Unrecorded(c)' - Unrecorded(c))
    BY UnrecordedMoves
<1>7. PostingOf(c) \in Int
    BY RequestTyped DEF PostingOf, Inv
<1>8. CASE txs' = txs
    <2>1. Posted' = Posted /\ (OwnRow(c)' <=> OwnRow(c)) /\ ~CreateTransaction(Ref(c), Row(c))
        BY <1>8, PostedMoves, OwnersMove
    <2>2. CASE OwnRow(c)
        <3>1. Unrecorded(c) = 0 /\ Unrecorded(c)' = 0
            BY <2>1, <2>2, UnrecordedIsShare
        <3> QED
            BY <1>1, <1>2, <1>3, <1>5, <1>6, <2>1, <2>2, <3>1
    <2>3. CASE ~OwnRow(c)
        <3>1. Unrecorded(c) = Share(c, pc[c]) /\ Unrecorded(c)' = Share(c, pc'[c])
            BY <2>1, <2>3, UnrecordedIsShare
        <3> QED
            BY <1>1, <1>2, <1>3, <1>4, <1>5, <1>6, <2>1, <2>3, <3>1
    <2> QED
        BY <2>2, <2>3
<1>9. CASE CreateTransaction(Ref(c), Row(c))
    <2>1. Posted' = Posted + PostingOf(c) /\ OwnRow(c)' /\ ~OwnRow(c)
        BY <1>9, PostedMoves, OwnersMove
    <2>2. Unrecorded(c)' = 0 /\ Unrecorded(c) = Share(c, pc[c])
        BY <2>1, UnrecordedIsShare
    <2>3. txs' # txs
        BY <1>9, <2>1, OwnersMove
    <2> QED
        BY <1>1, <1>2, <1>3, <1>4, <1>5, <1>6, <1>7, <2>1, <2>2, <2>3
<1> QED
    BY <1>8, <1>9 DEF Moves

\* A step that does not end in failure leaves the drift alone; without faults one that
\* does moves it at most by the deposit whose rollback it logs.
Shifts(c) ==
    /\ answer'[c] = "error" \/ pc'[c] = "crashed" \/ Drift' = Drift
    /\ Faults = {} =>
        \/ Drift' = Drift /\ critical' = critical
        \/ /\ Drift' = Drift + Amount(c)
           /\ critical' = critical \cup {c}
           /\ c \notin critical

LEMMA StepShifts ==
    ASSUME DriftInv, TypeOK', NEW c \in Calls, Step(c) \/ Crash(c)
    PROVE  Shifts(c)
<1>1. Moves(c)
    BY StepMoves DEF DriftInv
<1>2. Drift \in Int
    BY <1>1, DriftMoves DEF DriftInv
<1>3. /\ Amount(c) \in Nat /\ Total(c) \in Nat /\ balance \in Int
      /\ pc \in [Calls -> Labels] /\ answer \in [Calls -> {"none", "ok", "error"}]
    BY RequestTyped DEF DriftInv, Inv, TypeOK
<1>4. req[c].kind = "deposit" => Total(c) = Amount(c)
    BY RequestTyped DEF DriftInv, Inv, Total, Amount
<1>5. /\ txs' = txs /\ OwnRow(c) => Drift' = Drift + (balance' - balance)
      /\ txs' = txs /\ ~OwnRow(c) =>
           Drift' = Drift + (balance' - balance) - (Share(c, pc'[c]) - Share(c, pc[c]))
      /\ CreateTransaction(Ref(c), Row(c)) =>
           Drift' = Drift + (balance' - balance) - PostingOf(c) + Share(c, pc[c])
    BY <1>1, DriftMoves DEF DriftInv
<1> USE DEF Shifts, Goto, Return, storeVars, callVars, Share, CanFail, CanLoseReply
<1>6. ASSUME DepositFind(c) \/ DepositRead(c) \/ DepositReread(c) \/ DepositLedger(c)
             \/ WithdrawFind(c) \/ WithdrawRead(c) \/ WithdrawReread(c) \/ WithdrawLedger(c)
             \/ WithdrawFee(c) \/ InvalidateBalanceCache(c) \/ GetBalance(c)
             \/ LockBalance(c) \/ LockReread(c) \/ UnlockBalance(c)
      PROVE  Shifts(c)
    <2>1. txs' = txs /\ balance' = balance /\ critical' = critical
        BY <1>6 DEF DepositFind, DepositRead, DepositReread, DepositLedger, WithdrawFind,
            WithdrawRead, WithdrawReread, WithdrawLedger, WithdrawFee, InvalidateBalanceCache,
            GetBalance, BalanceGet, BalanceLoad, BalanceSet, LockBalance, LockReread,
            UnlockBalance, IncrementLocked, DecrementLocked, LedgerDeposit, LedgerWithdrawal,
            LedgerFee, CreatePair
    <2>2. Share(c, pc'[c]) = Share(c, pc[c]) \/ (CanFail /\ answer'[c] = "error")
        BY <1>3, <1>6 DEF DepositFind, DepositRead, DepositReread, DepositLedger, WithdrawFind,
            WithdrawRead, WithdrawReread, WithdrawLedger, WithdrawFee, InvalidateBalanceCache,
            GetBalance, BalanceGet, BalanceLoad, BalanceSet, LockBalance, LockReread, UnlockBalance
    <2>3. Share(c, pc[c]) \in Int
        BY <1>1, UnrecordedIsShare DEF DriftInv
    <2> HIDE DEF Share
    <2> QED
        BY <1>2, <1>3, <1>5, <2>1, <2>2, <2>3
<1>7. CASE DepositIncrement(c)
    BY <1>2, <1>3, <1>4, <1>5, <1>7 DEF DepositIncrement, IncrementBalance, DriftInv, Unowned
<1>8. CASE WithdrawDecrement(c)
    BY <1>2, <1>3, <1>4, <1>5, <1>8 DEF WithdrawDecrement, DecrementBalanceAndLocked, DriftInv, Unowned
<1>9. CASE DepositCreate(c) \/ DepositRetry(c) \/ WithdrawCreate(c)
    <2>1. /\ balance' = balance /\ critical' = critical
          /\ req[c].kind = "deposit" <=> (DepositCreate(c) \/ DepositRetry(c))
        BY <1>9 DEF DepositCreate, DepositRetry, WithdrawCreate, CreateAttempt, CreateTransaction,
            DriftInv, Inv, AtOwnMethod
    <2>2. CASE CreateTransaction(Ref(c), Row(c))
        BY <1>2, <1>3, <1>4, <1>5, <1>9, <2>1, <2>2 DEF DepositCreate, DepositRetry, WithdrawCreate, PostingOf
    <2>3. CASE UNCHANGED storeVars /\ ~CreateTransaction(Ref(c), Row(c))
        BY <1>2, <1>3, <1>4, <1>5, <1>9, <2>1, <2>3 DEF DepositCreate, DepositRetry, WithdrawCreate,
            CreateAttempt
    <2> QED
        BY <1>9, <2>2, <2>3 DEF DepositCreate, DepositRetry, WithdrawCreate, CreateAttempt
<1>10. CASE DepositRollback(c)
    BY <1>2, <1>3, <1>4, <1>5, <1>10 DEF DepositRollback, IncrementBalance, DriftInv, Unowned, Raced
<1>11. CASE WithdrawRollback(c)
    BY <1>2, <1>3, <1>4, <1>5, <1>11 DEF WithdrawRollback, IncrementBalance, DriftInv, Raced
<1>12. CASE Crash(c)
    BY <1>2, <1>3, <1>12 DEF Crash
<1> QED
    BY <1>6, <1>7, <1>8, <1>9, <1>10, <1>11, <1>12 DEF Step, RecordDeposit, RecordWithdrawal

\* What was recorded stays so, and who owns a row keeps it.
LEMMA RecordedStays ==
    ASSUME Inv, NEW c \in Calls, Moves(c), NEW d \in Calls, Recorded(Ref(d))
    PROVE  Recorded(Ref(d))'
<1>1. Ref(d)' = Ref(d) /\ Ref(d) \in Refs
    BY RequestTyped DEF Moves, Ref, Inv
<1>2. CreateTransaction(Ref(c), Row(c)) => Ref(d) # Ref(c)
    BY DEF CreateTransaction
<1>3. DOMAIN txs = Refs
    BY DEF Inv, TypeOK
<1> QED
    BY <1>1, <1>2, <1>3 DEF Moves, CreateTransaction, Recorded

\* Where the call that steps may go, and what it must then know of its row.
LEMMA StepOwns ==
    ASSUME DriftInv, NEW c \in Calls, Step(c) \/ Crash(c)
    PROVE  /\ pc'[c] \in {"d_find", "d_read", "d_increment", "d_reread", "d_create",
                          "w_find", "w_read", "w_decrement", "w_reread", "w_create"} =>
                 txs' = txs /\ ~OwnRow(c)
           /\ critical' \subseteq critical \cup {c} /\ (c \in critical' => pc'[c] = "done")
           /\ Faults = {} =>
                 /\ pc'[c] # "crashed"
                 /\ pc'[c] \in {"d_retry", "d_rollback", "w_rollback"} =>
                       txs' = txs /\ ~OwnRow(c) /\ Recorded(Ref(c))
<1>1. /\ pc \in [Calls -> Labels]
      /\ c \in critical => pc[c] = "done"
      /\ pc[c] \in {"d_find", "d_read", "d_increment", "d_reread", "d_create",
                    "w_find", "w_read", "w_decrement", "w_reread", "w_create"} => ~OwnRow(c)
      /\ Faults = {} /\ pc[c] \in {"d_retry", "d_rollback", "w_rollback"} =>
            Recorded(Ref(c)) /\ ~OwnRow(c)
    BY DEF DriftInv, Unowned, Raced, Inv, TypeOK
<1> USE DEF Goto, Return, storeVars, callVars, CanFail, CanLoseReply
<1>2. CASE RecordDeposit(c)
    BY <1>1, <1>2 DEF RecordDeposit, DepositFind, DepositRead, DepositIncrement, DepositReread,
        DepositCreate, DepositRetry, CreateAttempt, DepositRollback, DepositLedger,
        IncrementBalance, LedgerDeposit, CreatePair
<1>3. CASE RecordWithdrawal(c)
    BY <1>1, <1>3 DEF RecordWithdrawal, WithdrawFind, WithdrawRead, WithdrawDecrement,
        WithdrawReread, WithdrawCreate, CreateAttempt, WithdrawRollback, WithdrawLedger,
        WithdrawFee, IncrementBalance, DecrementBalanceAndLocked, LedgerWithdrawal, LedgerFee,
        CreatePair
<1>4. CASE InvalidateBalanceCache(c) \/ GetBalance(c) \/ LockBalance(c) \/ LockReread(c)
           \/ UnlockBalance(c) \/ Crash(c)
    BY <1>1, <1>4 DEF InvalidateBalanceCache, GetBalance, BalanceGet, BalanceLoad, BalanceSet,
        LockBalance, LockReread, UnlockBalance, Crash, IncrementLocked, DecrementLocked
<1> QED
    BY <1>2, <1>3, <1>4 DEF Step

LEMMA DriftInvKeeps ==
    ASSUME DriftInv, Inv', [Next]_vars
    PROVE  DriftInv'
<1>1. CASE UNCHANGED vars \/ CacheExpire
    BY <1>1 DEF vars, CacheExpire, storeVars, callVars, DriftInv, Unowned, Raced, OwnRow, Recorded, Ref
<1>2. ASSUME NEW c \in Calls, Step(c) \/ Crash(c)
      PROVE  DriftInv'
    <2>1. Inv /\ Moves(c)
        BY <1>2, StepMoves DEF DriftInv
    <2>2. /\ \A d \in Calls \ {c} : pc'[d] = pc[d] /\ (OwnRow(d)' <=> OwnRow(d))
          /\ txs' = txs => (OwnRow(c)' <=> OwnRow(c))
        BY <2>1, OwnersMove DEF Moves
    <2>3. \A d \in Calls : Recorded(Ref(d)) => Recorded(Ref(d))'
        BY <2>1, RecordedStays
    <2>4. Unowned'
        BY <1>2, <2>2, StepOwns DEF DriftInv, Unowned
    <2>5. Raced'
        BY <1>2, <2>2, <2>3, StepOwns DEF DriftInv, Raced
    <2> QED
        BY <2>4, <2>5 DEF DriftInv
<1> QED
    BY <1>1, <1>2 DEF Next

\* Nothing is recorded at first.
LEMMA PostedAtInit ==
    ASSUME Init
    PROVE  Posted = 0
<1> DEFINE f == [r \in Refs |-> Posting(r)]
<1>1. \A r \in Refs : f[r] = 0
    BY DEF Init, Posting, Recorded
<1>2. Posted = SumFunctionOnSet(f, Refs)
    BY DEF Posted, SumFunction
<1> HIDE DEF f
<1> QED
    BY <1>1, <1>2, SumOfZeros, WalletAssumption

LEMMA DriftInvInit ==
    ASSUME Init, Inv
    PROVE  DriftInv /\ Drift = 0 /\ critical = {}
<1>1. DriftInv
    <2>1. \A c \in Calls : pc[c] # "crashed" /\ pc[c] \notin {"d_retry", "d_rollback", "w_rollback"}
        <3>1. \A c \in Calls : req[c].kind \in Kinds
            BY RequestTyped DEF Inv
        <3> QED
            BY <3>1 DEF Init, FirstStep, Kinds
    <2>2. \A c \in Calls : ~OwnRow(c)
        BY RequestTyped DEF Init, OwnRow, Recorded, Inv
    <2> QED
        BY <2>1, <2>2 DEF DriftInv, Unowned, Raced, Init
<1>2. Posted = 0
    BY PostedAtInit
<1>3. AllUnrecorded = 0
    <2> DEFINE f == [c \in Calls |-> Unrecorded(c)]
    <2>1. \A c \in Calls : f[c] = 0
        <3>1. \A c \in Calls : req[c].kind \in Kinds
            BY RequestTyped DEF Inv
        <3> QED
            BY <3>1 DEF Init, Unrecorded, FirstStep, Kinds
    <2>2. AllUnrecorded = SumFunctionOnSet(f, Calls)
        BY DEF AllUnrecorded, SumFunction
    <2> HIDE DEF f
    <2> QED
        BY <2>1, <2>2, SumOfZeros, WalletAssumption
<1> QED
    BY <1>1, <1>2, <1>3, WalletAssumption DEF Drift, AllUnrecorded, Init

\* A step that changes nothing of the rows and the calls keeps the drift.
LEMMA DriftStays ==
    ASSUME UNCHANGED <<balance, txs, req, pc>>
    PROVE  Drift' = Drift
BY DEF Drift, Posted, Posting, Unrecorded, OwnRow, Recorded, Ref, Amount, Total

\* Under any fault, as long as every call runs or answered "ok", the balance is what the
\* record and the running calls make it (the error paths of RecordDeposit and
\* RecordWithdrawal are the only ones that lose or create money).
THEOREM DriftOnlyAfterFailure == Spec => []DriftNeedsFailure
<1>1. Init /\ Inv => DriftInv /\ DriftNeedsFailure
    BY DriftInvInit DEF DriftNeedsFailure
<1>2. DriftInv /\ DriftNeedsFailure /\ Inv' /\ [Next]_vars => DriftInv' /\ DriftNeedsFailure'
    <2> SUFFICES ASSUME DriftInv, DriftNeedsFailure, Inv', [Next]_vars
                 PROVE  DriftNeedsFailure'
        BY DriftInvKeeps
    <2>1. CASE UNCHANGED vars \/ CacheExpire
        BY <2>1, DriftStays DEF vars, CacheExpire, storeVars, callVars, DriftNeedsFailure
    <2>2. ASSUME NEW c \in Calls, Step(c) \/ Crash(c)
          PROVE  DriftNeedsFailure'
        <3> SUFFICES ASSUME \A d \in Calls : answer'[d] # "error" /\ pc'[d] # "crashed"
                     PROVE  Drift' = 0
            BY DEF DriftNeedsFailure
        <3>1. Moves(c) /\ Shifts(c)
            BY <2>2, StepMoves, StepShifts DEF DriftInv, Inv
        <3>2. Drift' = Drift
            BY <3>1 DEF Shifts
        <3>3. answer[c] # "error" /\ pc[c] # "crashed"
            BY <2>2 DEF DriftInv, Inv, AtOwnMethod, TypeOK, Step, RecordDeposit, RecordWithdrawal,
                GetBalance, DepositFind, DepositRead, DepositIncrement, DepositReread,
                DepositCreate, DepositRetry, DepositRollback, DepositLedger, WithdrawFind,
                WithdrawRead, WithdrawDecrement, WithdrawReread, WithdrawCreate, WithdrawRollback,
                WithdrawLedger, WithdrawFee, InvalidateBalanceCache, BalanceGet, BalanceLoad,
                BalanceSet, LockBalance, LockReread, UnlockBalance, Crash
        <3>4. \A d \in Calls : answer[d] # "error" /\ pc[d] # "crashed"
            BY <3>1, <3>3 DEF Moves
        <3> QED
            BY <3>2, <3>4 DEF DriftNeedsFailure
    <2> QED
        BY <2>1, <2>2 DEF Next
<1> QED
    BY <1>1, <1>2, InvCorrect, PTL DEF Spec

Logged == SumFunction([c \in critical |-> Amount(c)])

\* A deposit more that is logged is its amount more.
LEMMA LoggedMoves ==
    ASSUME Inv, NEW c \in Calls, Moves(c)
    PROVE  /\ critical' = critical => Logged' = Logged
           /\ critical' = critical \cup {c} /\ c \notin critical => Logged' = Logged + Amount(c)
<1> DEFINE f == [d \in critical |-> Amount(d)]
           g == [d \in critical' |-> Amount(d)']
<1>1. Logged = SumFunctionOnSet(f, critical) /\ Logged' = SumFunctionOnSet(g, critical')
    BY DEF Logged, SumFunction
<1>2. IsFiniteSet(critical) /\ critical \subseteq Calls
    BY WalletAssumption, FS_Subset DEF Inv, TypeOK
<1>3. \A d \in Calls : Amount(d)' = Amount(d) /\ Amount(d) \in Int
    BY RequestTyped DEF Moves, Amount, Inv
<1>4. CASE critical' = critical
    <2>1. \A d \in critical : f[d] = g[d]
        BY <1>2, <1>3, <1>4
    <2>2. Logged' = Logged
        <3> HIDE DEF f, g
        <3> QED
            BY <1>1, <1>2, <1>4, <2>1, SumSame
    <2> QED
        BY <1>4, <2>2
<1>5. CASE critical' = critical \cup {c} /\ c \notin critical
    <2>1. /\ \A d \in critical : g[d] \in Int /\ g[d] = f[d]
          /\ g[c] \in Int /\ g[c] = Amount(c)
        BY <1>2, <1>3, <1>5
    <2> HIDE DEF f, g
    <2>2. Logged' = Logged + Amount(c)
        BY <1>1, <1>2, <1>5, <2>1, SumGrows
    <2> QED
        BY <1>5, <2>2
<1> QED
    BY <1>4, <1>5

\* Without faults the balance is off the record by the refused rollbacks that were logged
\* CRITICAL, and by nothing else (RecordDeposit's rollback).
THEOREM DriftLogged ==
    ASSUME Faults = {}
    PROVE  Spec => []DriftIsLogged
<1>1. Init /\ Inv => DriftInv /\ DriftIsLogged
    <2> SUFFICES ASSUME Init, Inv
                 PROVE  DriftIsLogged
        BY DriftInvInit
    <2>1. Drift = 0 /\ critical = {}
        BY DriftInvInit
    <2>2. Logged = 0
        BY <2>1, SumEmpty DEF Logged, SumFunction
    <2> QED
        BY <2>1, <2>2 DEF DriftIsLogged, Logged
<1>2. DriftInv /\ DriftIsLogged /\ Inv' /\ [Next]_vars => DriftInv' /\ DriftIsLogged'
    <2> SUFFICES ASSUME DriftInv, DriftIsLogged, Inv', [Next]_vars
                 PROVE  DriftIsLogged'
        BY DriftInvKeeps
    <2>1. CASE UNCHANGED vars \/ CacheExpire
        <3>1. UNCHANGED <<balance, txs, req, pc, critical>>
            BY <2>1 DEF vars, CacheExpire, storeVars, callVars
        <3> QED
            BY <3>1, DriftStays DEF DriftIsLogged, Amount
    <2>2. ASSUME NEW c \in Calls, Step(c) \/ Crash(c)
          PROVE  DriftIsLogged'
        <3>1. Moves(c) /\ Shifts(c) /\ Inv
            BY <2>2, StepMoves, StepShifts DEF DriftInv, Inv
        <3>2. Drift = Logged
            BY DEF DriftIsLogged, Logged
        <3>3. Drift' = Logged'
            BY <3>1, <3>2, LoggedMoves DEF Shifts
        <3> QED
            BY <3>3 DEF DriftIsLogged, Logged
    <2> QED
        BY <2>1, <2>2 DEF Next
<1> QED
    BY <1>1, <1>2, InvCorrect, PTL DEF Spec

-----------------------------------------------------------------------------
(* The ledger and the history *)

\* What a call has recorded and not yet posted to the ledger.
Unposted(c) ==
    CASE pc[c] = "d_ledger" -> Amount(c)
      [] pc[c] = "w_ledger" -> -Total(c)
      [] pc[c] = "w_fee" -> -req[c].fee
      [] OTHER -> 0

AllUnposted == SumFunction([c \in Calls |-> Unposted(c)])

\* No call has posted what it is about to post, and without faults the ledger lacks of the
\* history just what the calls have yet to post.
LedgerInv ==
    /\ IsFiniteSet(ledger)
    /\ \A c \in Calls :
        /\ pc[c] \notin {"w_fee", "invalidate", "done", "crashed"} => \A e \in ledger : e.call # c
        /\ pc[c] = "w_fee" => \A e \in ledger : e.call = c => e.op # "fee"
    /\ Faults = {} => LedgerBalance + AllUnposted = Posted

Signed(e) == IF e.type = "credit" THEN e.amount ELSE -e.amount

\* A pair of new entries moves the wallet's account by its half that is the wallet's.
LEMMA LedgerMoves ==
    ASSUME Inv, IsFiniteSet(ledger)
    PROVE  /\ LedgerBalance \in Int
           /\ ledger' = ledger => LedgerBalance' = LedgerBalance
           /\ \A w, o : /\ w.account = "wallet" /\ o.account # "wallet" /\ w \notin ledger
                        /\ Signed(w) \in Int
                        /\ ledger' = ledger \cup {w, o}
                        => /\ IsFiniteSet(ledger')
                           /\ LedgerBalance' = LedgerBalance + Signed(w)
<1> DEFINE f == [e \in WalletEntries |-> Signed(e)]
           g == [e \in WalletEntries' |-> Signed(e)]
<1>1. /\ LedgerBalance = SumFunctionOnSet(f, WalletEntries)
      /\ LedgerBalance' = SumFunctionOnSet(g, WalletEntries')
    BY DEF LedgerBalance, SumFunction, Signed
<1>2. IsFiniteSet(WalletEntries)
    BY FS_Subset DEF WalletEntries
<1>3. \A e \in WalletEntries : f[e] \in Int
    BY DEF WalletEntries, Signed, Inv, TypeOK, EntryType
<1>4. LedgerBalance \in Int
    <2> HIDE DEF f
    <2> QED
        BY <1>1, <1>2, <1>3, SumIsInt
<1>5. ledger' = ledger => LedgerBalance' = LedgerBalance
    BY DEF LedgerBalance, WalletEntries
<1>6. ASSUME NEW w, NEW o, w.account = "wallet", o.account # "wallet", w \notin ledger,
             Signed(w) \in Int, ledger' = ledger \cup {w, o}
      PROVE  /\ IsFiniteSet(ledger')
             /\ LedgerBalance' = LedgerBalance + Signed(w)
    <2>1. ledger' = (ledger \cup {w}) \cup {o}
        BY <1>6
    <2>2. IsFiniteSet(ledger')
        BY <2>1, FS_AddElement
    <2>3. WalletEntries' = WalletEntries \cup {w} /\ w \notin WalletEntries
        BY <1>6 DEF WalletEntries
    <2>4. /\ \A e \in WalletEntries : g[e] \in Int /\ g[e] = f[e]
          /\ g[w] \in Int /\ g[w] = Signed(w)
        BY <1>3, <1>6, <2>3
    <2>5. LedgerBalance' = LedgerBalance + Signed(w)
        <3> HIDE DEF f, g
        <3> QED
            BY <1>1, <1>2, <2>3, <2>4, SumGrows
    <2> QED
        BY <2>2, <2>5
<1> QED
    BY <1>4, <1>5, <1>6

LEMMA UnpostedMoves ==
    ASSUME Inv, NEW c \in Calls, Moves(c)
    PROVE  /\ AllUnposted \in Int
           /\ AllUnposted' = AllUnposted + (Unposted(c)' - Unposted(c))
<1> DEFINE f == [d \in Calls |-> Unposted(d)]
           g == [d \in Calls |-> Unposted(d)']
<1>1. AllUnposted = SumFunctionOnSet(f, Calls) /\ AllUnposted' = SumFunctionOnSet(g, Calls)
    BY DEF AllUnposted, SumFunction
<1>2. \A d \in Calls : f[d] \in Int /\ g[d] \in Int
    <2>1. ASSUME NEW d \in Calls
          PROVE  Unposted(d) \in Int /\ Unposted(d)' \in Int
        <3>1. Amount(d) \in Int /\ -Total(d) \in Int /\ -req[d].fee \in Int
            BY RequestTyped DEF Inv
        <3>2. Amount(d)' = Amount(d) /\ Total(d)' = Total(d) /\ req' = req
            BY DEF Moves, Amount, Total
        <3> QED
            BY <3>1, <3>2 DEF Unposted
    <2> QED
        BY <2>1
<1>3. ASSUME NEW d \in Calls, d # c
      PROVE  g[d] = f[d]
    BY <1>3 DEF Moves, Unposted, Amount, Total
<1>4. IsFiniteSet(Calls)
    BY WalletAssumption
<1>5. g[c] = Unposted(c)' /\ f[c] = Unposted(c)
    OBVIOUS
<1> HIDE DEF f, g
<1> QED
    BY <1>1, <1>2, <1>3, <1>4, <1>5, SumChanges


\* A step that is not one of the ledger's: an insert leaves just its row to be posted.
Quiet(c) ==
    /\ ledger' = ledger
    /\ pc'[c] # "w_fee"
    /\ pc'[c] \notin {"invalidate", "done", "crashed"} =>
          pc[c] \notin {"w_fee", "invalidate", "done", "crashed"}
    /\ Faults = {} =>
        \/ txs' = txs /\ Unposted(c)' = Unposted(c)
        \/ CreateTransaction(Ref(c), Row(c)) /\ Unposted(c)' = Unposted(c) + PostingOf(c)

LEMMA StepQuiet ==
    ASSUME Inv, NEW c \in Calls, Step(c) \/ Crash(c)
    PROVE  Quiet(c) \/ DepositLedger(c) \/ WithdrawLedger(c) \/ WithdrawFee(c)
<1>1. /\ pc \in [Calls -> Labels] /\ req' = req
      /\ Amount(c) \in Nat /\ Total(c) \in Nat
      /\ req[c].kind = "deposit" => Total(c) = Amount(c)
    BY StepMoves, RequestTyped DEF Inv, TypeOK, Moves, Total, Amount
<1>2. Amount(c)' = Amount(c) /\ Total(c)' = Total(c)
    BY <1>1 DEF Amount, Total
<1> USE DEF Quiet, Unposted, Goto, Return, storeVars, callVars, CanFail, CanLoseReply
<1>3. CASE DepositFind(c) \/ DepositRead(c) \/ DepositIncrement(c) \/ DepositReread(c)
           \/ DepositRollback(c) \/ WithdrawFind(c) \/ WithdrawRead(c) \/ WithdrawDecrement(c)
           \/ WithdrawReread(c) \/ WithdrawRollback(c)
    BY <1>1, <1>3 DEF DepositFind, DepositRead, DepositIncrement, DepositReread, DepositRollback,
        WithdrawFind, WithdrawRead, WithdrawDecrement, WithdrawReread, WithdrawRollback,
        IncrementBalance, DecrementBalanceAndLocked
<1>4. CASE InvalidateBalanceCache(c) \/ GetBalance(c) \/ LockBalance(c) \/ LockReread(c)
           \/ UnlockBalance(c) \/ Crash(c)
    BY <1>1, <1>4 DEF InvalidateBalanceCache, GetBalance, BalanceGet, BalanceLoad, BalanceSet,
        LockBalance, LockReread, UnlockBalance, Crash, IncrementLocked, DecrementLocked
<1>5. CASE DepositCreate(c) \/ DepositRetry(c) \/ WithdrawCreate(c)
    <2>1. req[c].kind = "deposit" <=> (DepositCreate(c) \/ DepositRetry(c))
        BY <1>5 DEF DepositCreate, DepositRetry, WithdrawCreate, Inv, AtOwnMethod
    <2>2. ledger' = ledger
        BY <1>5 DEF DepositCreate, DepositRetry, WithdrawCreate, CreateAttempt, CreateTransaction
    <2>3. PostingOf(c) = IF DepositCreate(c) \/ DepositRetry(c) THEN Amount(c) ELSE -Total(c)
        BY <1>1, <2>1 DEF PostingOf
    <2>4. CASE CreateTransaction(Ref(c), Row(c)) /\ pc'[c] \in {"d_ledger", "w_ledger"}
        BY <1>1, <1>2, <1>5, <2>2, <2>3, <2>4 DEF DepositCreate, DepositRetry, WithdrawCreate,
            CreateAttempt
    <2>5. CASE pc'[c] \notin {"d_ledger", "w_ledger"}
        BY <1>1, <1>2, <1>5, <2>2, <2>5 DEF DepositCreate, DepositRetry, WithdrawCreate,
            CreateAttempt
    <2> QED
        BY <1>1, <1>5, <2>4, <2>5 DEF DepositCreate, DepositRetry, WithdrawCreate, CreateAttempt
<1> QED
    BY <1>3, <1>4, <1>5 DEF Step, RecordDeposit, RecordWithdrawal

\* A ledger step posts its call's pair, or, under a fault, nothing.
LEMMA LedgerStep ==
    ASSUME Inv, LedgerInv, NEW c \in Calls, DepositLedger(c) \/ WithdrawLedger(c) \/ WithdrawFee(c)
    PROVE  /\ txs' = txs
           /\ pc'[c] \in {"w_fee", "invalidate"}
           /\ \/ Faults # {} /\ ledger' = ledger
              \/ \E w, o :
                    /\ ledger' = ledger \cup {w, o}
                    /\ w.account = "wallet" /\ o.account # "wallet" /\ w \notin ledger
                    /\ w.call = c /\ o.call = c
                    /\ pc'[c] = "w_fee" => w.op # "fee" /\ o.op # "fee"
                    /\ Signed(w) \in Int /\ Signed(w) = Unposted(c) - Unposted(c)'
           /\ pc'[c] = "w_fee" => \A e \in ledger : e.call # c
<1>1. /\ pc \in [Calls -> Labels] /\ req' = req
      /\ Amount(c) \in Nat /\ Total(c) = Amount(c) + req[c].fee /\ req[c].fee \in Nat
    BY StepMoves, RequestTyped DEF Inv, TypeOK, Moves, Total, Amount, Step, RecordDeposit,
       RecordWithdrawal
<1>2. Amount(c)' = Amount(c) /\ Total(c)' = Total(c)
    BY <1>1 DEF Amount, Total
<1> USE DEF Unposted, Goto, Return, storeVars, callVars, CanFail, CreatePair
<1>3. CASE DepositLedger(c)
    <2> DEFINE w == Entry(c, "deposit", "wallet", "credit", Amount(c), Ref(c))
               o == Entry(c, "deposit", "external", "debit", Amount(c), Ref(c))
    <2>1. /\ w.account = "wallet" /\ o.account # "wallet" /\ w.call = c /\ o.call = c
          /\ Signed(w) = Amount(c) /\ w \notin ledger
        BY <1>3 DEF DepositLedger, LedgerInv, Entry, Signed
    <2>2. pc[c] = "d_ledger" /\ pc'[c] = "invalidate" /\ txs' = txs
        BY <1>1, <1>3 DEF DepositLedger, LedgerDeposit
    <2>3. ledger' = ledger \cup {w, o} \/ (Faults # {} /\ ledger' = ledger)
        BY <1>3 DEF DepositLedger, LedgerDeposit
    <2> HIDE DEF w, o
    <2> QED
        BY <1>1, <1>2, <2>1, <2>2, <2>3
<1>4. CASE WithdrawLedger(c)
    <2> DEFINE w == Entry(c, "withdrawal", "wallet", "debit", Amount(c), Ref(c))
               o == Entry(c, "withdrawal", "external", "credit", Amount(c), Ref(c))
    <2>1. /\ w.account = "wallet" /\ o.account # "wallet" /\ w.call = c /\ o.call = c
          /\ w.op # "fee" /\ o.op # "fee"
          /\ Signed(w) = -Amount(c) /\ \A e \in ledger : e.call # c
        BY <1>4 DEF WithdrawLedger, LedgerInv, Entry, Signed
    <2>2. /\ pc[c] = "w_ledger" /\ txs' = txs
          /\ pc'[c] = IF req[c].fee > 0 THEN "w_fee" ELSE "invalidate"
        BY <1>1, <1>4 DEF WithdrawLedger, LedgerWithdrawal
    <2>3. ledger' = ledger \cup {w, o} \/ (Faults # {} /\ ledger' = ledger)
        BY <1>4 DEF WithdrawLedger, LedgerWithdrawal
    <2>4. w \notin ledger
        BY <2>1
    <2> HIDE DEF w, o
    <2> QED
        BY <1>1, <1>2, <2>1, <2>2, <2>3, <2>4
<1>5. CASE WithdrawFee(c)
    <2> DEFINE w == Entry(c, "fee", "wallet", "debit", req[c].fee, Ref(c))
               o == Entry(c, "fee", "revenue", "credit", req[c].fee, Ref(c))
    <2>1. /\ w.account = "wallet" /\ o.account # "wallet" /\ w.call = c /\ o.call = c
          /\ Signed(w) = -req[c].fee /\ w \notin ledger
        BY <1>5 DEF WithdrawFee, LedgerInv, Entry, Signed
    <2>2. pc[c] = "w_fee" /\ pc'[c] = "invalidate" /\ txs' = txs
        BY <1>1, <1>5 DEF WithdrawFee, LedgerFee
    <2>3. ledger' = ledger \cup {w, o} \/ (Faults # {} /\ ledger' = ledger)
        BY <1>5 DEF WithdrawFee, LedgerFee
    <2> HIDE DEF w, o
    <2> QED
        BY <1>1, <1>2, <2>1, <2>2, <2>3
<1> QED
    BY <1>3, <1>4, <1>5

LEMMA LedgerInvKeeps ==
    ASSUME Inv, LedgerInv, Inv', [Next]_vars
    PROVE  LedgerInv'
<1>1. CASE UNCHANGED vars \/ CacheExpire
    <2>1. UNCHANGED <<ledger, txs, req, pc>>
        BY <1>1 DEF vars, CacheExpire, storeVars, callVars
    <2> QED
        BY <2>1 DEF LedgerInv, LedgerBalance, WalletEntries, AllUnposted, Unposted, Amount, Total,
           Posted, Posting, Recorded
<1>2. ASSUME NEW c \in Calls, Step(c) \/ Crash(c)
      PROVE  LedgerInv'
    <2>1. Moves(c)
        BY <1>2, StepMoves
    <2>2. /\ AllUnposted \in Int /\ Posted \in Int /\ LedgerBalance \in Int
          /\ AllUnposted' = AllUnposted + (Unposted(c)' - Unposted(c))
          /\ txs' = txs => Posted' = Posted
          /\ CreateTransaction(Ref(c), Row(c)) => Posted' = Posted + PostingOf(c)
        BY <2>1, UnpostedMoves, PostedMoves, LedgerMoves DEF LedgerInv
    <2>3. /\ Unposted(c) \in Int /\ Unposted(c)' \in Int /\ PostingOf(c) \in Int
        <3>1. Amount(c) \in Int /\ -Total(c) \in Int /\ -req[c].fee \in Int /\ Total(c) \in Int
            BY RequestTyped DEF Inv
        <3>2. Amount(c)' = Amount(c) /\ Total(c)' = Total(c) /\ req' = req
            BY <2>1 DEF Moves, Amount, Total
        <3> QED
            BY <3>1, <3>2 DEF Unposted, PostingOf
    <2>4. CASE Quiet(c)
        <3>1. LedgerBalance' = LedgerBalance
            BY <2>4, LedgerMoves DEF Quiet, LedgerInv
        <3>2. Faults = {} => LedgerBalance' + AllUnposted' = Posted'
            BY <2>2, <2>3, <2>4, <3>1 DEF Quiet, LedgerInv
        <3> QED
            BY <2>1, <2>4, <3>2 DEF Quiet, LedgerInv, Moves
    <2>5. CASE DepositLedger(c) \/ WithdrawLedger(c) \/ WithdrawFee(c)
        <3>1. /\ txs' = txs
              /\ pc'[c] \in {"w_fee", "invalidate"}
              /\ pc'[c] = "w_fee" => \A e \in ledger : e.call # c
            BY <2>5, LedgerStep
        <3>2. CASE Faults # {} /\ ledger' = ledger
            BY <2>1, <3>1, <3>2 DEF LedgerInv, Moves
        <3>3. CASE \E w, o :
                    /\ ledger' = ledger \cup {w, o}
                    /\ w.account = "wallet" /\ o.account # "wallet" /\ w \notin ledger
                    /\ w.call = c /\ o.call = c
                    /\ pc'[c] = "w_fee" => w.op # "fee" /\ o.op # "fee"
                    /\ Signed(w) \in Int /\ Signed(w) = Unposted(c) - Unposted(c)'
            <4>1. PICK w, o :
                    /\ ledger' = ledger \cup {w, o}
                    /\ w.account = "wallet" /\ o.account # "wallet" /\ w \notin ledger
                    /\ w.call = c /\ o.call = c
                    /\ pc'[c] = "w_fee" => w.op # "fee" /\ o.op # "fee"
                    /\ Signed(w) \in Int /\ Signed(w) = Unposted(c) - Unposted(c)'
                BY <3>3
            <4>2. IsFiniteSet(ledger') /\ LedgerBalance' = LedgerBalance + Signed(w)
                BY <4>1, LedgerMoves DEF LedgerInv
            <4>3. Faults = {} => LedgerBalance' + AllUnposted' = Posted'
                <5>1. Posted' = Posted
                    BY <2>2, <3>1
                <5>2. LedgerBalance' = LedgerBalance + (Unposted(c) - Unposted(c)')
                    BY <4>1, <4>2
                <5>3. LedgerBalance' + AllUnposted' = LedgerBalance + AllUnposted
                    BY <2>2, <2>3, <5>2
                <5> QED
                    BY <5>1, <5>3 DEF LedgerInv
            <4>4. ASSUME NEW d \in Calls
                  PROVE  (/\ pc[d] \notin {"w_fee", "invalidate", "done", "crashed"} =>
                                \A e \in ledger : e.call # d
                          /\ pc[d] = "w_fee" => \A e \in ledger : e.call = d => e.op # "fee")'
                BY <2>1, <3>1, <4>1 DEF LedgerInv, Moves
            <4> QED
                BY <4>2, <4>3, <4>4 DEF LedgerInv
        <3> QED
            BY <2>5, <3>2, <3>3, LedgerStep
    <2> QED
        BY <1>2, <2>4, <2>5, StepQuiet
<1> QED
    BY <1>1, <1>2 DEF Next

\* Without faults, once all calls have returned, the ledger's balance of the wallet is what
\* the recorded transactions sum to (LedgerService.Reconcile against the history).
THEOREM LedgerReconciled ==
    ASSUME Faults = {}
    PROVE  Spec => []LedgerReconciles
<1>1. Init /\ Inv => LedgerInv
    <2> SUFFICES ASSUME Init, Inv PROVE LedgerInv
        OBVIOUS
    <2>1. Posted = 0
        BY PostedAtInit
    <2>2. AllUnposted = 0
        <3> DEFINE f == [c \in Calls |-> Unposted(c)]
        <3>1. \A c \in Calls : f[c] = 0
            <4>1. \A c \in Calls : req[c].kind \in Kinds
                BY RequestTyped DEF Inv
            <4> QED
                BY <4>1 DEF Init, Unposted, FirstStep, Kinds
        <3>2. AllUnposted = SumFunctionOnSet(f, Calls)
            BY DEF AllUnposted, SumFunction
        <3> HIDE DEF f
        <3> QED
            BY <3>1, <3>2, SumOfZeros, WalletAssumption
    <2>3. LedgerBalance = 0 /\ IsFiniteSet(ledger)
        <3>1. WalletEntries = {} /\ ledger = {}
            BY DEF Init, WalletEntries
        <3> QED
            BY <3>1, SumEmpty, FS_EmptySet DEF LedgerBalance, SumFunction
    <2>4. \A c \in Calls : \A e \in ledger : FALSE
        BY DEF Init
    <2> QED
        BY <2>1, <2>2, <2>3, <2>4 DEF LedgerInv
<1>2. Inv /\ LedgerInv /\ Inv' /\ [Next]_vars => LedgerInv'
    BY LedgerInvKeeps
<1>3. Inv /\ LedgerInv => LedgerReconciles
    <2> SUFFICES ASSUME Inv, LedgerInv, \A c \in Calls : pc[c] = "done"
                 PROVE  LedgerBalance = Posted
        BY DEF LedgerReconciles
    <2> DEFINE f == [c \in Calls |-> Unposted(c)]
    <2>1. \A c \in Calls : f[c] = 0
        BY DEF Unposted
    <2>2. AllUnposted = SumFunctionOnSet(f, Calls)
        BY DEF AllUnposted, SumFunction
    <2> HIDE DEF f
    <2>3. AllUnposted = 0
        BY <2>1, <2>2, SumOfZeros, WalletAssumption
    <2> QED
        BY <2>3, LedgerMoves DEF LedgerInv
<1> QED
    BY <1>1, <1>2, <1>3, InvCorrect, PTL DEF Spec
=============================================================================
