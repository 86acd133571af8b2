---------------------------- MODULE TransferProofs ----------------------------
(***************************************************************************)
(* Theorems about Transfer, for every set of calls, references, requests   *)
(* and faults and every chain of providers.                                *)
(***************************************************************************)
EXTENDS Transfer, SumTheorems, TLAPS

(* The invariants *)

\* A call starts at the head of its chain, has a provider left when it is about to
\* submit, and an answer when it is about to save it.
ProviderLeft ==
    \A c \in Calls :
        /\ pc[c] \in {"find", "lock", "create"} => tried[c] = 0
        /\ pc[c] = "send" => req[c].prefers # Unavailable /\ tried[c] < Len(Chain(c))
        /\ pc[c] = "save" => result[c].status \in Statuses

Typed == TypeOK /\ ProviderLeft

\* The calls that inserted the row of their reference, know it, and have more to do.
Owns(c) == pc[c] \in {"send", "fail", "save", "debit", "record", "rollback"}

\* UNIQUE (reference) gives a reference one owner.
OneOwner == \A c, d \in Calls : Owns(c) /\ Owns(d) /\ Ref(c) = Ref(d) => c = d

Untouched(r) == \A p \in ProviderNames : remote[p][r] = "unknown"

\* Nothing happens under a reference without its row.
RowFirst ==
    /\ \A c \in Calls : Owns(c) => transfers[Ref(c)] # NoTransfer
    /\ \A r \in Refs : transfers[r] = NoTransfer => ~Recorded(r) /\ Untouched(r)

\* A reference that is still being submitted has not been charged.
SubmitFirst == \A c \in Calls : pc[c] = "send" => ~Recorded(Ref(c))

PaidOut(r) == \E p \in ProviderNames : remote[p][r] \in {"paid", "reversed"}

\* A call that is going to charge has been told of a payment.
PaidFirst ==
    \A c \in Calls :
        pc[c] \in {"debit", "record"} \/ (pc[c] = "save" /\ result[c].status = "success")
            => PaidOut(Ref(c))

Charging == OneOwner /\ RowFirst /\ SubmitFirst /\ PaidFirst /\ ChargedMeansPaid

\* No call for the reference met a fault.
Unhurt(r) == \A c \in hurt : Ref(c) # r

\* No provider pays the reference out, or will.
Dead(r) ==
    /\ transfers[r] # NoTransfer
    /\ \A p \in ProviderNames : remote[p][r] \in {"unknown", "failed", "reversed"}
    /\ \A c \in Calls : Ref(c) = r => pc[c] # "send"

\* The providers that call c has asked, if any, have refused.
Refused(c) == pc[c] \in {"send", "fail"} \/ (pc[c] = "save" /\ result[c].status = "failed")

\* As long as a call has only been refused no provider knows its reference.
RefusedMeansUntouched == \A c \in Calls \ hurt : Refused(c) => Untouched(Ref(c))

OneProvider ==
    \A r \in Refs : Unhurt(r) =>
        \A p, q \in ProviderNames : remote[p][r] # "unknown" /\ remote[q][r] # "unknown" => p = q

FailedMeansDead == \A r \in Refs : Unhurt(r) /\ transfers[r] = "failed" => Dead(r)

\* A retry goes on only when what it retries is dead ...
RetryAfterDeath ==
    \A c \in Calls :
        req[c].kind = "retry" /\ pc[c] \notin {"find", "done"} /\ Unhurt(req[c].ref)
            => Dead(req[c].ref)

\* ... and nothing is submitted under its reference before.
RetriedMeansDead ==
    \A r \in DOMAIN RetryRef : Unhurt(r) /\ ~Untouched(RetryRef[r]) => Dead(r)

Paying ==
    RefusedMeansUntouched /\ OneProvider /\ FailedMeansDead /\ RetryAfterDeath /\ RetriedMeansDead

-----------------------------------------------------------------------------
(* Types *)

\* What a call's parameters are.
LEMMA CallTyped ==
    ASSUME TypeOK, NEW c \in Calls
    PROVE  /\ req[c] \in Requests
           /\ req[c].kind \in {"transfer", "retry"}
           /\ req[c].prefers \in ProviderNames \cup {Unavailable, NoPreference}
           /\ req[c].kind = "retry" => req[c].ref \in DOMAIN RetryRef /\ req[c].prefers = NoPreference
           /\ Ref(c) \in Refs
           /\ Amount(c) \in Nat \ {0}
           /\ result[c].fee \in Nat
           /\ Total(c) \in Nat \ {0}
<1>1. req[c] \in Requests
    BY DEF TypeOK
<1>2. /\ req[c].kind \in {"transfer", "retry"}
      /\ req[c].ref \in Refs
      /\ req[c].prefers \in ProviderNames \cup {Unavailable, NoPreference}
      /\ req[c].kind = "retry" => req[c].ref \in DOMAIN RetryRef /\ req[c].prefers = NoPreference
    BY <1>1, TransferAssumption
<1>3. Ref(c) \in Refs
    BY <1>2, TransferAssumption DEF Ref
<1>4. Amount(c) \in Nat \ {0}
    BY <1>3, TransferAssumption DEF Amount
<1>5. result[c].fee \in Nat
  <2>1. result[c].fee \in Fees \cup {0}
      BY DEF TypeOK
  <2>2. \A fee \in Fees : fee \in Nat
      BY TransferAssumption
  <2>3. QED
      BY <2>1, <2>2
<1>6. QED
    BY <1>1, <1>2, <1>3, <1>4, <1>5 DEF Total

\* The provider a call submits to next.
LEMMA ChainTyped ==
    ASSUME Typed, NEW c \in Calls, req[c].prefers # Unavailable
    PROVE  /\ Len(Chain(c)) \in 1 .. Len(Providers)
           /\ pc[c] = "send" => Chain(c)[tried[c] + 1] \in ProviderNames
<1>1. /\ tried[c] \in Nat
      /\ pc[c] = "send" => tried[c] < Len(Chain(c))
    BY DEF Typed, TypeOK, ProviderLeft
<1>2. Len(Providers) \in Nat \ {0} /\ DOMAIN Providers = 1 .. Len(Providers)
    BY TransferAssumption
<1>3. req[c].prefers \in ProviderNames \cup {NoPreference}
    BY CallTyped DEF Typed
<1>4. CASE req[c].prefers = NoPreference
  <2>1. Chain(c) = Providers
      BY <1>4 DEF Chain
  <2>2. pc[c] = "send" => tried[c] + 1 \in DOMAIN Providers
      BY <1>1, <1>2, <2>1
  <2>3. QED
      BY <1>2, <2>1, <2>2 DEF ProviderNames
<1>5. CASE req[c].prefers # NoPreference
  <2>1. Chain(c) = <<req[c].prefers>> /\ req[c].prefers \in ProviderNames
      BY <1>3, <1>5 DEF Chain
  <2>2. Len(Chain(c)) = 1
      BY <2>1
  <2>3. pc[c] = "send" => tried[c] = 0
      BY <1>1, <2>2
  <2>4. QED
      BY <1>2, <2>1, <2>2, <2>3
<1>6. QED
    BY <1>4, <1>5

\* Every variable keeps its type, and no call runs off the end of its chain (all of
\* transfer_service.go and tryTransfer).
THEOREM TypedCorrect == Spec => []Typed
<1> USE DEF Typed, TypeOK, walletVars, Goto, Fault, NoFault
<1>1. Init => Typed
  <2> SUFFICES ASSUME Init PROVE Typed
      OBVIOUS
  <2>1. balance \in Nat /\ locked \in Nat /\ hurt \subseteq Calls
      BY TransferAssumption DEF Init
  <2>2. /\ txs \in [Refs -> RowType \cup {NoTx}]
        /\ transfers \in [Refs -> Statuses \cup {NoTransfer}]
        /\ remote \in [ProviderNames -> [Refs -> RemoteStates]]
      BY DEF Init, RemoteStates
  <2>3. req \in [Calls -> Requests] /\ pc \in [Calls -> Labels]
      BY DEF Init, Labels
  <2>4. tried \in [Calls -> 0 .. Len(Providers)]
      BY TransferAssumption DEF Init
  <2>5. result \in [Calls -> [success : BOOLEAN, status : Statuses \cup {"none"}, fee : Fees \cup {0}]]
      BY DEF Init, NoResult
  <2>6. ProviderLeft
      BY <2>3 DEF Init, ProviderLeft
  <2>7. QED
      BY <2>1, <2>2, <2>3, <2>4, <2>5, <2>6
<1>2. Typed /\ [Next]_vars => Typed'
  <2> SUFFICES ASSUME Typed, [Next]_vars
               PROVE  Typed'
      OBVIOUS
  <2> USE DEF Labels, Statuses
  <2>1. ASSUME NEW c \in Calls, RetryTransfer(c) PROVE Typed'
      BY <2>1, CallTyped DEF RetryTransfer, ProviderLeft, Chain
  <2>2. ASSUME NEW c \in Calls, LockBalance(c) PROVE Typed'
    <3>1. (balance \in Nat /\ locked \in Nat /\ txs \in [Refs -> RowType \cup {NoTx}])'
        BY <2>2, CallTyped DEF LockBalance, IncrementLocked
    <3>2. pc' \in [Calls -> Labels] /\ hurt' \subseteq Calls
        BY <2>2 DEF LockBalance
    <3>3. UNCHANGED <<transfers, remote, req, tried, result>>
        BY <2>2 DEF LockBalance
    <3>4. ProviderLeft'
        BY <2>2, <3>3 DEF LockBalance, ProviderLeft, Chain
    <3>5. QED
        BY <3>1, <3>2, <3>3, <3>4
  <2>3. ASSUME NEW c \in Calls, CreateTransfer(c) PROVE Typed'
    <3>1. req[c].prefers # Unavailable => Len(Chain(c)) \in Nat \ {0}
        BY ChainTyped, TransferAssumption
    <3>2. TypeOK'
        BY <2>3, CallTyped DEF CreateTransfer, Save
    <3>3. ProviderLeft'
        BY <2>3, <3>1 DEF CreateTransfer, ProviderLeft, Chain
    <3>4. QED
        BY <3>2, <3>3
  <2>4. ASSUME NEW c \in Calls, InitiateTransfer(c) PROVE Typed'
    <3>1. /\ Chain(c)[tried[c] + 1] \in ProviderNames
          /\ Len(Chain(c)) \in 1 .. Len(Providers)
          /\ tried[c] \in Nat /\ tried[c] < Len(Chain(c))
          /\ Len(Providers) \in Nat
        BY <2>4, ChainTyped, TransferAssumption DEF InitiateTransfer, ProviderLeft
    <3>2. TypeOK'
      <4>1. remote' \in [ProviderNames -> [Refs -> RemoteStates]]
        <5> DEFINE p == Chain(c)[tried[c] + 1]
        <5>1. \/ UNCHANGED remote
              \/ \E state \in RemoteStates : remote' = [remote EXCEPT ![p][Ref(c)] = state]
            BY <2>4 DEF InitiateTransfer, Submission, RemoteStates
        <5>2. p \in ProviderNames /\ Ref(c) \in Refs
            BY <3>1, CallTyped
        <5>3. remote \in [ProviderNames -> [Refs -> RemoteStates]]
            OBVIOUS
        <5> HIDE DEF p
        <5>4. QED
            BY ONLY <5>1, <5>2, <5>3
      <4>2. pc' \in [Calls -> Labels] /\ hurt' \subseteq Calls
          BY <2>4 DEF InitiateTransfer, Answered, TryNext
      <4>3. tried' \in [Calls -> 0 .. Len(Providers)]
          BY <2>4, <3>1 DEF InitiateTransfer, Answered, TryNext
      <4>4. result' \in [Calls -> [success : BOOLEAN, status : Statuses \cup {"none"}, fee : Fees \cup {0}]]
        <5>1. \/ UNCHANGED result
              \/ \E success \in BOOLEAN, status \in Statuses, fee \in Fees \cup {0} :
                    result' = [result EXCEPT ![c] = [success |-> success, status |-> status, fee |-> fee]]
            BY <2>4 DEF InitiateTransfer, Answered, TryNext
        <5>2. result \in [Calls -> [success : BOOLEAN, status : Statuses \cup {"none"}, fee : Fees \cup {0}]]
            OBVIOUS
        <5>3. QED
            BY ONLY <5>1, <5>2
      <4>5. UNCHANGED <<walletVars, transfers, req>>
          BY <2>4 DEF InitiateTransfer
      <4>6. QED
          BY <4>1, <4>2, <4>3, <4>4, <4>5
    <3>3. ProviderLeft'
        BY <2>4, <3>1 DEF InitiateTransfer, Answered, TryNext, ProviderLeft, Chain
    <3>4. QED
        BY <3>2, <3>3
  <2>5. ASSUME NEW c \in Calls, MarkFailed(c) PROVE Typed'
      BY <2>5, CallTyped DEF MarkFailed, Save, ProviderLeft, Chain
  <2>6. ASSUME NEW c \in Calls, SaveResult(c) PROVE Typed'
      BY <2>6, CallTyped DEF SaveResult, Save, ProviderLeft, Chain
  <2>7. ASSUME NEW c \in Calls, Debit(c) PROVE Typed'
    <3>1. (balance \in Nat /\ locked \in Nat /\ txs \in [Refs -> RowType \cup {NoTx}])'
        BY <2>7, CallTyped DEF Debit, DecrementBalanceAndLocked, AtLeastZero
    <3>2. pc' \in [Calls -> Labels] /\ hurt' \subseteq Calls
        BY <2>7 DEF Debit
    <3>3. UNCHANGED <<transfers, remote, req, tried, result>>
        BY <2>7 DEF Debit
    <3>4. ProviderLeft'
        BY <2>7, <3>3 DEF Debit, ProviderLeft, Chain
    <3>5. QED
        BY <3>1, <3>2, <3>3, <3>4
  <2>8. ASSUME NEW c \in Calls, RecordWithdrawal(c) PROVE Typed'
    <3>1. (balance \in Nat /\ locked \in Nat /\ txs \in [Refs -> RowType \cup {NoTx}])'
      <4>1. [type |-> "withdrawal", amount |-> Total(c), by |-> c] \in RowType
          BY CallTyped DEF RowType
      <4>2. UNCHANGED <<balance, locked>>
          BY <2>8 DEF RecordWithdrawal, CreateTransaction
      <4>3. \/ UNCHANGED txs
            \/ txs' = [txs EXCEPT ![Ref(c)] = [type |-> "withdrawal", amount |-> Total(c), by |-> c]]
          BY <2>8 DEF RecordWithdrawal, CreateTransaction
      <4>4. QED
          BY <4>1, <4>2, <4>3
    <3>2. pc' \in [Calls -> Labels] /\ hurt' \subseteq Calls
        BY <2>8 DEF RecordWithdrawal
    <3>3. UNCHANGED <<transfers, remote, req, tried, result>>
        BY <2>8 DEF RecordWithdrawal
    <3>4. ProviderLeft'
        BY <2>8, <3>3 DEF RecordWithdrawal, ProviderLeft, Chain
    <3>5. QED
        BY <3>1, <3>2, <3>3, <3>4
  <2>9. ASSUME NEW c \in Calls, RollbackWithdrawal(c) PROVE Typed'
      BY <2>9, CallTyped DEF RollbackWithdrawal, IncrementBalance, ProviderLeft, Chain
  <2>10. ASSUME NEW c \in Calls, UnlockBalance(c) PROVE Typed'
      BY <2>10, CallTyped DEF UnlockBalance, DecrementLocked, AtLeastZero, ProviderLeft, Chain
  <2>11. ASSUME NEW p \in ProviderNames, NEW r \in Refs, Settle(p, r) PROVE Typed'
      BY <2>11 DEF Settle, Outcomes, RemoteStates, ProviderLeft, Chain
  <2>12. ASSUME NEW p \in ProviderNames, NEW r \in Refs, HandleTransferStatus(p, r) PROVE Typed'
      BY <2>12 DEF HandleTransferStatus, Events, RemoteStates, Save, ProviderLeft, Chain
  <2>13. CASE UNCHANGED vars
      BY <2>13 DEF vars, ProviderLeft, Chain
  <2>14. QED
      BY <2>1, <2>2, <2>3, <2>4, <2>5, <2>6, <2>7, <2>8, <2>9, <2>10, <2>11, <2>12, <2>13
      DEF Next, Step, ExecuteTransfer
<1>3. QED
    BY <1>1, <1>2, PTL DEF Spec

-----------------------------------------------------------------------------
(* Charging *)

\* What a step of one call leaves alone.
OthersStay(c) == UNCHANGED req /\ \A d \in Calls \ {c} : pc'[d] = pc[d]

LEMMA RefStays ==
    ASSUME Typed, UNCHANGED req
    PROVE  \A d \in Calls : Ref(d)' = Ref(d) /\ Ref(d) \in Refs
BY CallTyped DEF Typed, Ref

\* A call moves on among the steps of an owner, or away from them, and saves what it likes
\* in its row.
LEMMA MoveKeepsCharging ==
    ASSUME Typed, Charging, NEW c \in Calls, OthersStay(c),
           UNCHANGED <<remote, txs, result>>,
           \A r \in Refs : transfers'[r] = NoTransfer <=> transfers[r] = NoTransfer,
           Owns(c)' => Owns(c),
           pc'[c] \notin {"send", "save"},
           pc'[c] \in {"debit", "record"} => PaidOut(Ref(c))
    PROVE  Charging'
<1>1. \A d \in Calls : Ref(d)' = Ref(d) /\ Ref(d) \in Refs
    BY RefStays DEF OthersStay
<1>2. \A d \in Calls : Owns(d)' => Owns(d)
    BY DEF Owns, OthersStay
<1>3. OneOwner'
    BY <1>1, <1>2 DEF Charging, OneOwner
<1>4. RowFirst'
    BY <1>1, <1>2 DEF Charging, RowFirst, Untouched, Recorded
<1>5. SubmitFirst'
    BY <1>1 DEF Charging, SubmitFirst, Recorded, OthersStay
<1>6. PaidFirst'
    BY <1>1 DEF Charging, PaidFirst, PaidOut, OthersStay
<1>7. ChargedMeansPaid'
    BY DEF Charging, ChargedMeansPaid, Recorded
<1>8. QED
    BY <1>3, <1>4, <1>5, <1>6, <1>7 DEF Charging

\* Nothing is charged that was not paid: a call gets past its insert only as the owner of
\* the row, and only it submits and charges (ExecuteTransfer under UNIQUE (reference)).
THEOREM ChargingCorrect == Spec => []Charging
<1>1. Init => Charging
    BY DEF Init, Charging, OneOwner, Owns, RowFirst, Untouched, SubmitFirst, PaidFirst,
       ChargedMeansPaid, Recorded
<1>2. Typed /\ Typed' /\ Charging /\ [Next]_vars => Charging'
  <2> SUFFICES ASSUME Typed, Typed', Charging, [Next]_vars
               PROVE  Charging'
      OBVIOUS
  <2> USE DEF Goto, walletVars, Typed, TypeOK
  <2>1. ASSUME NEW c \in Calls, RetryTransfer(c) PROVE Charging'
    <3>1. OthersStay(c) /\ UNCHANGED <<remote, txs, result, transfers>>
        BY <2>1 DEF OthersStay, RetryTransfer
    <3>2. pc'[c] \notin {"send", "save", "debit", "record"} /\ (Owns(c)' => Owns(c))
        BY <2>1 DEF Owns, RetryTransfer
    <3>3. QED
        BY <3>1, <3>2, MoveKeepsCharging
  <2>2. ASSUME NEW c \in Calls, LockBalance(c) PROVE Charging'
    <3>1. OthersStay(c) /\ UNCHANGED <<remote, txs, result, transfers>>
        BY <2>2 DEF OthersStay, LockBalance, IncrementLocked
    <3>2. pc'[c] \notin {"send", "save", "debit", "record"} /\ (Owns(c)' => Owns(c))
        BY <2>2 DEF Owns, LockBalance
    <3>3. QED
        BY <3>1, <3>2, MoveKeepsCharging
  <2>3. ASSUME NEW c \in Calls, CreateTransfer(c) PROVE Charging'
    <3>1. OthersStay(c) /\ UNCHANGED <<remote, txs, result>> /\ pc[c] = "create"
        BY <2>3 DEF OthersStay, CreateTransfer
    <3>2. \A d \in Calls : Ref(d)' = Ref(d) /\ Ref(d) \in Refs
        BY <3>1, RefStays DEF OthersStay
    <3>3. CASE UNCHANGED transfers
      <4>1. pc'[c] = "unlock"
          BY <2>3, <3>2, <3>3 DEF CreateTransfer, Save, NoTransfer
      <4>2. QED
          BY <3>1, <3>3, <4>1, MoveKeepsCharging DEF Owns
    <3>4. CASE ~UNCHANGED transfers
      <4>1. /\ transfers[Ref(c)] = NoTransfer
            /\ transfers' = [transfers EXCEPT ![Ref(c)] = "pending"]
            /\ pc'[c] \in {"send", "fail", "unlock"}
          BY <2>3, <3>4 DEF CreateTransfer, Save
      <4>2. \A d \in Calls : Owns(d) => Ref(d) # Ref(c)
          BY <4>1 DEF Charging, RowFirst
      <4>3. \A d \in Calls \ {c} : Owns(d)' => Owns(d)
          BY <3>1 DEF Owns, OthersStay
      <4>4. OneOwner'
          BY <3>2, <4>2, <4>3 DEF Charging, OneOwner
      <4>5. /\ transfers'[Ref(c)] # NoTransfer
            /\ \A r \in Refs : r # Ref(c) => transfers'[r] = transfers[r]
          BY <3>2, <4>1 DEF NoTransfer
      <4>6. RowFirst'
          BY <3>1, <3>2, <4>3, <4>5 DEF Charging, RowFirst, Untouched, Recorded
      <4>7. SubmitFirst'
          BY <3>1, <3>2, <4>1 DEF Charging, SubmitFirst, RowFirst, Recorded, OthersStay
      <4>8. PaidFirst'
          BY <3>1, <3>2, <4>1 DEF Charging, PaidFirst, PaidOut, OthersStay
      <4>9. ChargedMeansPaid'
          BY <3>1 DEF Charging, ChargedMeansPaid, Recorded
      <4>10. QED
          BY <4>4, <4>6, <4>7, <4>8, <4>9 DEF Charging
    <3>5. QED
        BY <3>3, <3>4
  <2>4. ASSUME NEW c \in Calls, InitiateTransfer(c) PROVE Charging'
    <3> DEFINE p == Chain(c)[tried[c] + 1]
    <3>1. OthersStay(c) /\ UNCHANGED <<txs, transfers>> /\ pc[c] = "send"
        BY <2>4 DEF OthersStay, InitiateTransfer, Answered, TryNext
    <3>2. \A d \in Calls : Ref(d)' = Ref(d) /\ Ref(d) \in Refs
        BY <3>1, RefStays DEF OthersStay
    <3>3. p \in ProviderNames
        BY <3>1, ChainTyped DEF ProviderLeft
    <3>4. /\ pc'[c] \in {"send", "fail", "save"}
          /\ \A d \in Calls \ {c} : result'[d] = result[d]
        BY <2>4 DEF InitiateTransfer, Answered, TryNext
    <3>5. \/ UNCHANGED remote
          \/ \E state \in RemoteStates : remote' = [remote EXCEPT ![p][Ref(c)] = state]
        BY <2>4 DEF InitiateTransfer, Submission, RemoteStates
    <3>6. pc'[c] = "save" /\ result'[c].status = "success" => remote'[p][Ref(c)] = "paid"
        BY <2>4, <3>2, <3>3 DEF InitiateTransfer, Submission, Answered, TryNext
    <3> HIDE DEF p
    <3>7. \A q \in ProviderNames, r \in Refs : r # Ref(c) => remote'[q][r] = remote[q][r]
        BY <3>2, <3>3, <3>5
    <3>8. \A d \in Calls : Owns(d)' => Owns(d)
        BY <3>1 DEF Owns, OthersStay
    <3>9. \A d \in Calls : Owns(d) /\ Ref(d) = Ref(c) => d = c
        BY <3>1 DEF Owns, Charging, OneOwner
    <3>10. transfers[Ref(c)] # NoTransfer /\ ~Recorded(Ref(c))
        BY <3>1 DEF Owns, Charging, RowFirst, SubmitFirst
    <3>11. OneOwner'
        BY <3>2, <3>8 DEF Charging, OneOwner
    <3>12. RowFirst'
      <4>1. \A d \in Calls : Owns(d)' => transfers'[Ref(d)'] # NoTransfer
          BY <3>1, <3>2, <3>8 DEF Charging, RowFirst
      <4>2. ASSUME NEW r \in Refs, transfers'[r] = NoTransfer
            PROVE  ~Recorded(r)' /\ Untouched(r)'
        <5>1. r # Ref(c) /\ ~Recorded(r) /\ Untouched(r)
            BY <3>1, <3>10, <4>2 DEF Charging, RowFirst
        <5>2. QED
            BY <3>1, <3>7, <5>1 DEF Recorded, Untouched
      <4>3. QED
          BY <4>1, <4>2 DEF RowFirst
    <3>13. SubmitFirst'
        BY <3>1, <3>2, <3>10 DEF Charging, SubmitFirst, Recorded, OthersStay
    <3>14. ASSUME NEW d \in Calls,
                  pc'[d] \in {"debit", "record"} \/ (pc'[d] = "save" /\ result'[d].status = "success")
           PROVE  PaidOut(Ref(d))'
      <4>1. CASE d = c
          BY <3>2, <3>3, <3>4, <3>6, <3>14, <4>1 DEF PaidOut
      <4>2. CASE d # c
        <5>1. PaidOut(Ref(d)) /\ Owns(d)
            BY <3>1, <3>4, <3>14, <4>2 DEF OthersStay, Charging, PaidFirst, Owns
        <5>2. QED
            BY <3>2, <3>7, <3>9, <4>2, <5>1 DEF PaidOut
      <4>3. QED
          BY <4>1, <4>2
    <3>15. ChargedMeansPaid'
        BY <3>1, <3>7, <3>10 DEF Charging, ChargedMeansPaid, Recorded
    <3>16. QED
        BY <3>11, <3>12, <3>13, <3>14, <3>15 DEF Charging, PaidFirst
  <2>5. ASSUME NEW c \in Calls, MarkFailed(c) PROVE Charging'
    <3>1. OthersStay(c) /\ UNCHANGED <<remote, txs, result>>
        BY <2>5 DEF OthersStay, MarkFailed
    <3>2. transfers[Ref(c)] # NoTransfer
        BY <2>5 DEF MarkFailed, Owns, Charging, RowFirst
    <3>3. \A r \in Refs : transfers'[r] = NoTransfer <=> transfers[r] = NoTransfer
        BY <2>5, <3>2 DEF MarkFailed, Save, NoTransfer
    <3>4. pc'[c] = "unlock"
        BY <2>5 DEF MarkFailed
    <3>5. QED
        BY <3>1, <3>3, <3>4, MoveKeepsCharging DEF Owns
  <2>6. ASSUME NEW c \in Calls, SaveResult(c) PROVE Charging'
    <3>1. OthersStay(c) /\ UNCHANGED <<remote, txs, result>>
        BY <2>6 DEF OthersStay, SaveResult
    <3>2. transfers[Ref(c)] # NoTransfer /\ result[c].status \in Statuses
        BY <2>6 DEF SaveResult, Owns, Charging, RowFirst, ProviderLeft
    <3>3. \A r \in Refs : transfers'[r] = NoTransfer <=> transfers[r] = NoTransfer
        BY <2>6, <3>2 DEF SaveResult, Save, NoTransfer, Statuses
    <3>4. pc[c] = "save" /\ pc'[c] \in {"debit", "unlock"}
        BY <2>6 DEF SaveResult
    <3>5. pc'[c] = "debit" => PaidOut(Ref(c))
        BY <2>6 DEF SaveResult, Charging, PaidFirst
    <3>6. QED
        BY <3>1, <3>3, <3>4, <3>5, MoveKeepsCharging DEF Owns
  <2>7. ASSUME NEW c \in Calls, Debit(c) PROVE Charging'
    <3>1. OthersStay(c) /\ UNCHANGED <<remote, txs, result, transfers>>
        BY <2>7 DEF OthersStay, Debit, DecrementBalanceAndLocked
    <3>2. pc[c] = "debit" /\ pc'[c] \in {"record", "unlock", "done"}
        BY <2>7 DEF Debit
    <3>3. PaidOut(Ref(c))
        BY <3>2 DEF Charging, PaidFirst
    <3>4. QED
        BY <3>1, <3>2, <3>3, MoveKeepsCharging DEF Owns
  <2>8. ASSUME NEW c \in Calls, RecordWithdrawal(c) PROVE Charging'
    <3>1. OthersStay(c) /\ UNCHANGED <<remote, result, transfers>>
        BY <2>8 DEF OthersStay, RecordWithdrawal
    <3>2. pc[c] = "record" /\ pc'[c] \in {"rollback", "done"} /\ PaidOut(Ref(c))
        BY <2>8 DEF RecordWithdrawal, Charging, PaidFirst
    <3>3. CASE UNCHANGED txs
        BY <3>1, <3>2, <3>3, MoveKeepsCharging DEF Owns
    <3>4. CASE txs' = [txs EXCEPT ![Ref(c)] = [type |-> "withdrawal", amount |-> Total(c), by |-> c]]
      <4>1. \A d \in Calls : Ref(d)' = Ref(d) /\ Ref(d) \in Refs
          BY <3>1, RefStays DEF OthersStay
      <4>2. \A d \in Calls : Owns(d)' => Owns(d)
          BY <3>1, <3>2 DEF Owns, OthersStay
      <4>3. \A r \in Refs : r # Ref(c) => txs'[r] = txs[r]
          BY <3>4
      <4>4. OneOwner'
          BY <4>1, <4>2 DEF Charging, OneOwner
      <4>5. transfers[Ref(c)] # NoTransfer
          BY <3>2 DEF Owns, Charging, RowFirst
      <4>6. RowFirst'
          BY <3>1, <4>1, <4>2, <4>3, <4>5 DEF Charging, RowFirst, Untouched, Recorded
      <4>7. ASSUME NEW d \in Calls, pc'[d] = "send" PROVE ~Recorded(Ref(d))'
        <5>1. d # c /\ pc[d] = "send"
            BY <3>1, <3>2, <4>7 DEF OthersStay
        <5>2. Ref(d) # Ref(c)
            BY <3>2, <5>1 DEF Charging, OneOwner, Owns
        <5>3. QED
            BY <4>1, <4>3, <5>1, <5>2 DEF Charging, SubmitFirst, Recorded
      <4>8. PaidFirst'
          BY <3>1, <3>2, <4>1 DEF Charging, PaidFirst, PaidOut, OthersStay
      <4>9. ChargedMeansPaid'
          BY <3>1, <3>2, <4>1, <4>3 DEF Charging, ChargedMeansPaid, Recorded, PaidOut
      <4>10. QED
          BY <4>4, <4>6, <4>7, <4>8, <4>9 DEF Charging, SubmitFirst
    <3>5. QED
        BY <2>8, <3>3, <3>4 DEF RecordWithdrawal, CreateTransaction
  <2>9. ASSUME NEW c \in Calls, RollbackWithdrawal(c) PROVE Charging'
    <3>1. OthersStay(c) /\ UNCHANGED <<remote, txs, result, transfers>>
        BY <2>9 DEF OthersStay, RollbackWithdrawal, IncrementBalance
    <3>2. pc'[c] \notin {"send", "save", "debit", "record"} /\ (Owns(c)' => Owns(c))
        BY <2>9 DEF Owns, RollbackWithdrawal
    <3>3. QED
        BY <3>1, <3>2, MoveKeepsCharging
  <2>10. ASSUME NEW c \in Calls, UnlockBalance(c) PROVE Charging'
    <3>1. OthersStay(c) /\ UNCHANGED <<remote, txs, result, transfers>>
        BY <2>10 DEF OthersStay, UnlockBalance, DecrementLocked
    <3>2. pc'[c] \notin {"send", "save", "debit", "record"} /\ (Owns(c)' => Owns(c))
        BY <2>10 DEF Owns, UnlockBalance
    <3>3. QED
        BY <3>1, <3>2, MoveKeepsCharging
  <2>11. ASSUME NEW p \in ProviderNames, NEW r \in Refs, Settle(p, r) PROVE Charging'
    <3>1. UNCHANGED <<txs, transfers, pc, req, result>>
        BY <2>11 DEF Settle
    <3>2. PICK state \in Outcomes[remote[p][r]] : remote' = [remote EXCEPT ![p][r] = state]
        BY <2>11 DEF Settle
    <3>3. \A q \in ProviderNames, t \in Refs :
              /\ remote[q][t] = "unknown" => remote'[q][t] = "unknown"
              /\ remote[q][t] \in {"paid", "reversed"} => remote'[q][t] \in {"paid", "reversed"}
        BY <3>2 DEF Outcomes, RemoteStates
    <3>4. OneOwner' /\ RowFirst' /\ SubmitFirst'
        BY <3>1, <3>3 DEF Charging, OneOwner, Owns, RowFirst, Untouched, SubmitFirst, Recorded, Ref
    <3>5. PaidFirst' /\ ChargedMeansPaid'
        BY <3>1, <3>3, RefStays DEF Charging, PaidFirst, PaidOut, ChargedMeansPaid, Recorded
    <3>6. QED
        BY <3>4, <3>5 DEF Charging
  <2>12. ASSUME NEW p \in ProviderNames, NEW r \in Refs, HandleTransferStatus(p, r) PROVE Charging'
    <3>1. UNCHANGED <<txs, remote, pc, req, result>> /\ transfers[r] # NoTransfer
        BY <2>12 DEF HandleTransferStatus
    <3>2. \A t \in Refs : transfers'[t] = NoTransfer <=> transfers[t] = NoTransfer
      <4>1. PICK status \in Events[remote[p][r]] : transfers' = [transfers EXCEPT ![r] = status]
          BY <2>12 DEF HandleTransferStatus, Save
      <4>2. remote[p][r] \in RemoteStates
          OBVIOUS
      <4>3. \A state \in RemoteStates : NoTransfer \notin Events[state]
        <5>1. /\ Events["unknown"] = {} /\ Events["accepted"] = {}
              /\ Events["paid"] = {"success"} /\ Events["failed"] = {"failed"}
              /\ Events["reversed"] = {"success", "reversed"}
            BY DEF Events
        <5>2. \A state \in RemoteStates : Events[state] \subseteq Statuses
            BY ONLY <5>1 DEF RemoteStates, Statuses
        <5>3. NoTransfer \notin Statuses
            BY DEF NoTransfer, Statuses
        <5>4. QED
            BY <5>2, <5>3
      <4>4. QED
          BY <3>1, <4>1, <4>2, <4>3
    <3>3. RowFirst'
        BY <3>1, <3>2, RefStays DEF Charging, RowFirst, Owns, Untouched, Recorded
    <3>4. QED
        BY <3>1, <3>3 DEF Charging, OneOwner, Owns, SubmitFirst, PaidFirst, PaidOut, ChargedMeansPaid, Recorded, Ref
  <2>13. CASE UNCHANGED vars
      BY <2>13 DEF vars, Charging, OneOwner, Owns, RowFirst, Untouched, SubmitFirst, PaidFirst,
         PaidOut, ChargedMeansPaid, Recorded, Ref
  <2>14. QED
      BY <2>1, <2>2, <2>3, <2>4, <2>5, <2>6, <2>7, <2>8, <2>9, <2>10, <2>11, <2>12, <2>13
      DEF Next, Step, ExecuteTransfer
<1>3. QED
    BY <1>1, <1>2, TypedCorrect, PTL DEF Spec

\* Under any fault, the wallet is charged under a reference only when a provider had paid
\* it out (RecordWithdrawal's condition in ExecuteTransfer).
THEOREM OnlyPaidIsCharged == Spec => []ChargedMeansPaid
<1>1. Charging => ChargedMeansPaid
    BY DEF Charging
<1>2. QED
    BY <1>1, ChargingCorrect, PTL

-----------------------------------------------------------------------------
(* Paying *)

(* What a step may do to the state that Paying is about. *)

\* Rows stay, faults stay known.
Grows ==
    /\ UNCHANGED req
    /\ hurt \subseteq hurt'
    /\ \A r \in Refs : transfers[r] # NoTransfer => transfers'[r] # NoTransfer

\* A call starts to submit once its row is new.
SubmitsNew ==
    \A c \in Calls : pc'[c] = "send" => pc[c] = "send" \/ transfers[Ref(c)] = NoTransfer

\* A reference reaches one more provider by a call that is submitting it, and otherwise
\* moves on where it was taken.
ReachesOne ==
    \A r \in Refs :
        \/ \A p \in ProviderNames :
              \/ remote'[p][r] = remote[p][r]
              \/ remote[p][r] \in {"accepted", "paid"} /\ remote'[p][r] \in {"paid", "failed", "reversed"}
        \/ \E c \in Calls, q \in ProviderNames :
              /\ pc[c] = "send" /\ Ref(c) = r
              /\ \A p \in ProviderNames \ {q} : remote'[p][r] = remote[p][r]

\* A call is refused only by providers that do not learn of its reference by that.
RefusalsLeaveNoTrace ==
    \A c \in Calls \ hurt' :
        Refused(c)' => /\ Refused(c) \/ transfers[Ref(c)] = NoTransfer
                       /\ Untouched(Ref(c)) => Untouched(Ref(c))'

\* A transfer becomes failed because it was refused, or failed at a provider.
FailsForAReason ==
    \A r \in Refs :
        transfers'[r] = "failed" =>
            \/ transfers[r] = "failed"
            \/ \E c \in Calls : Ref(c) = r /\ Refused(c) /\ pc[c] # "send"
            \/ \E p \in ProviderNames : remote[p][r] = "failed"

\* A retry starts from a failed transfer.
RetriesFailed ==
    \A c \in Calls :
        req[c].kind = "retry" /\ pc'[c] \notin {"find", "done"} =>
            pc[c] \notin {"find", "done"} \/ transfers[req[c].ref] = "failed"

Effects ==
    /\ Grows /\ SubmitsNew /\ ReachesOne /\ RefusalsLeaveNoTrace /\ FailsForAReason
    /\ RetriesFailed

\* Steps that touch neither the transfers nor the providers.
LEMMA QuietEffects ==
    ASSUME Typed, NEW c \in Calls, OthersStay(c), UNCHANGED <<transfers, remote, result>>,
           hurt \subseteq hurt', pc'[c] \notin {"send", "fail", "save"},
           pc'[c] \notin {"find", "done"} =>
               pc[c] \notin {"find", "done"} \/ transfers[req[c].ref] = "failed"
    PROVE  Effects
<1>1. \A d \in Calls : Ref(d)' = Ref(d) /\ Ref(d) \in Refs
    BY RefStays DEF OthersStay
<1>2. Grows /\ SubmitsNew /\ ReachesOne /\ FailsForAReason
    BY DEF OthersStay, Grows, SubmitsNew, ReachesOne, FailsForAReason
<1>3. RefusalsLeaveNoTrace
    BY <1>1 DEF OthersStay, RefusalsLeaveNoTrace, Refused, Untouched
<1>4. RetriesFailed
    BY DEF OthersStay, RetriesFailed
<1>5. QED
    BY <1>2, <1>3, <1>4 DEF Effects

\* What every step does, and none does more.
LEMMA StepEffects ==
    ASSUME Typed, Charging, [Next]_vars
    PROVE  Effects
<1> USE DEF Goto, walletVars, Fault, NoFault
<1>1. ASSUME NEW c \in Calls,
             RetryTransfer(c) \/ LockBalance(c) \/ Debit(c) \/ RecordWithdrawal(c)
                 \/ RollbackWithdrawal(c) \/ UnlockBalance(c)
      PROVE  Effects
  <2>1. OthersStay(c) /\ UNCHANGED <<transfers, remote, result>> /\ hurt \subseteq hurt'
      BY <1>1 DEF OthersStay, Typed, TypeOK, RetryTransfer, LockBalance, Debit, RecordWithdrawal,
         RollbackWithdrawal, UnlockBalance
  <2>2. /\ pc'[c] \notin {"send", "fail", "save"}
        /\ pc'[c] \notin {"find", "done"} =>
               pc[c] \notin {"find", "done"} \/ transfers[req[c].ref] = "failed"
      BY <1>1 DEF Typed, TypeOK, RetryTransfer, LockBalance, Debit, RecordWithdrawal,
         RollbackWithdrawal, UnlockBalance
  <2>3. QED
      BY <2>1, <2>2, QuietEffects
<1>2. ASSUME NEW c \in Calls, CreateTransfer(c) PROVE Effects
  <2>1. /\ OthersStay(c) /\ UNCHANGED <<remote, result>> /\ hurt \subseteq hurt'
        /\ pc[c] = "create"
      BY <1>2 DEF OthersStay, Typed, TypeOK, CreateTransfer
  <2>2. \A d \in Calls : Ref(d)' = Ref(d) /\ Ref(d) \in Refs
      BY <2>1, RefStays DEF OthersStay
  <2>3. \/ UNCHANGED transfers /\ pc'[c] = "unlock"
        \/ /\ transfers[Ref(c)] = NoTransfer
           /\ transfers' = [transfers EXCEPT ![Ref(c)] = "pending"]
      BY <1>2 DEF Typed, TypeOK, CreateTransfer, Save
  <2>4. Grows /\ FailsForAReason
      BY <2>1, <2>2, <2>3 DEF Typed, TypeOK, Grows, FailsForAReason, OthersStay, NoTransfer
  <2>5. SubmitsNew
      BY <2>1, <2>3 DEF SubmitsNew, OthersStay
  <2>6. ReachesOne
      BY <2>1 DEF ReachesOne
  <2>7. RefusalsLeaveNoTrace
      BY <2>1, <2>2, <2>3 DEF RefusalsLeaveNoTrace, Refused, Untouched, OthersStay
  <2>8. RetriesFailed
      BY <2>1 DEF RetriesFailed, OthersStay
  <2>9. QED
      BY <2>4, <2>5, <2>6, <2>7, <2>8 DEF Effects
<1>3. ASSUME NEW c \in Calls, InitiateTransfer(c) PROVE Effects
  <2> DEFINE p == Chain(c)[tried[c] + 1]
  <2>1. /\ OthersStay(c) /\ UNCHANGED transfers /\ hurt \subseteq hurt'
        /\ pc[c] = "send" /\ pc'[c] \in {"send", "fail", "save"}
        /\ \A d \in Calls \ {c} : result'[d] = result[d]
      BY <1>3 DEF OthersStay, Typed, TypeOK, InitiateTransfer, Answered, TryNext
  <2>2. \A d \in Calls : Ref(d)' = Ref(d) /\ Ref(d) \in Refs
      BY <2>1, RefStays DEF OthersStay
  <2>3. p \in ProviderNames
      BY <2>1, ChainTyped DEF Typed, ProviderLeft
  <2>4. \/ UNCHANGED remote
        \/ \E state \in RemoteStates : remote' = [remote EXCEPT ![p][Ref(c)] = state]
      BY <1>3 DEF InitiateTransfer, Submission, RemoteStates
  <2>5. c \notin hurt' /\ Refused(c)' => UNCHANGED remote
      BY <1>3 DEF InitiateTransfer, Submission, Answered, TryNext, Typed, TypeOK, Refused
  <2> HIDE DEF p
  <2>6. \A q \in ProviderNames, r \in Refs :
            q # p \/ r # Ref(c) => remote'[q][r] = remote[q][r]
      BY <2>2, <2>3, <2>4 DEF Typed, TypeOK
  <2>7. Grows /\ SubmitsNew /\ FailsForAReason
      BY <2>1 DEF Grows, SubmitsNew, FailsForAReason, OthersStay
  <2>8. ReachesOne
      BY <2>1, <2>3, <2>6 DEF ReachesOne
  <2>9. ASSUME NEW d \in Calls \ hurt', Refused(d)'
        PROVE  Refused(d) /\ (Untouched(Ref(d)) => Untouched(Ref(d))')
    <3>1. CASE d = c
        BY <2>1, <2>2, <2>5, <2>9, <3>1 DEF Refused, Untouched
    <3>2. CASE d # c
      <4>1. Refused(d)
          BY <2>1, <2>9, <3>2 DEF Refused, OthersStay
      <4>2. Ref(d) # Ref(c)
          BY <2>1, <3>2, <4>1 DEF Refused, Owns, Charging, OneOwner
      <4>3. QED
          BY <2>2, <2>6, <4>1, <4>2 DEF Untouched
    <3>3. QED
        BY <3>1, <3>2
  <2>10. RetriesFailed
      BY <2>1 DEF RetriesFailed, OthersStay
  <2>11. QED
      BY <2>7, <2>8, <2>9, <2>10 DEF Effects, RefusalsLeaveNoTrace
<1>4. ASSUME NEW c \in Calls, MarkFailed(c) \/ SaveResult(c) PROVE Effects
  <2>1. /\ OthersStay(c) /\ UNCHANGED <<remote, result>> /\ hurt \subseteq hurt'
        /\ pc[c] \in {"fail", "save"} /\ pc'[c] \in {"unlock", "debit"}
      BY <1>4 DEF OthersStay, Typed, TypeOK, MarkFailed, SaveResult
  <2>2. \A d \in Calls : Ref(d)' = Ref(d) /\ Ref(d) \in Refs
      BY <2>1, RefStays DEF OthersStay
  <2>3. \/ UNCHANGED transfers
        \/ \E status \in Statuses :
              /\ transfers' = [transfers EXCEPT ![Ref(c)] = status]
              /\ status = "failed" => Refused(c)
      BY <1>4 DEF Typed, ProviderLeft, MarkFailed, SaveResult, Save, Refused, Statuses
  <2>4. Grows
      BY <2>1, <2>2, <2>3 DEF Typed, TypeOK, Grows, OthersStay, NoTransfer, Statuses
  <2>5. FailsForAReason
      BY <2>1, <2>2, <2>3 DEF Typed, TypeOK, FailsForAReason
  <2>6. SubmitsNew /\ ReachesOne /\ RetriesFailed
      BY <2>1 DEF SubmitsNew, ReachesOne, RetriesFailed, OthersStay
  <2>7. RefusalsLeaveNoTrace
      BY <2>1, <2>2 DEF RefusalsLeaveNoTrace, Refused, Untouched, OthersStay
  <2>8. QED
      BY <2>4, <2>5, <2>6, <2>7 DEF Effects
<1>5. ASSUME NEW p \in ProviderNames, NEW r \in Refs, Settle(p, r) PROVE Effects
  <2>1. UNCHANGED <<transfers, pc, req, result, hurt>>
      BY <1>5 DEF Settle
  <2>2. PICK state \in Outcomes[remote[p][r]] : remote' = [remote EXCEPT ![p][r] = state]
      BY <1>5 DEF Settle
  <2>3. \A q \in ProviderNames, t \in Refs :
            \/ remote'[q][t] = remote[q][t]
            \/ /\ remote[q][t] \in {"accepted", "paid"}
               /\ remote'[q][t] \in {"paid", "failed", "reversed"}
      BY <2>2 DEF Typed, TypeOK, Outcomes, RemoteStates
  <2>4. Grows /\ SubmitsNew /\ FailsForAReason /\ RetriesFailed
      BY <2>1 DEF Grows, SubmitsNew, FailsForAReason, RetriesFailed
  <2>5. ReachesOne
      BY <2>3 DEF ReachesOne
  <2>6. RefusalsLeaveNoTrace
      BY <2>1, <2>3, RefStays DEF RefusalsLeaveNoTrace, Refused, Untouched
  <2>7. QED
      BY <2>4, <2>5, <2>6 DEF Effects
<1>6. ASSUME NEW p \in ProviderNames, NEW r \in Refs, HandleTransferStatus(p, r) PROVE Effects
  <2>1. UNCHANGED <<remote, pc, req, result, hurt>> /\ transfers[r] # NoTransfer
      BY <1>6 DEF HandleTransferStatus
  <2>2. PICK status \in Events[remote[p][r]] : transfers' = [transfers EXCEPT ![r] = status]
      BY <1>6 DEF HandleTransferStatus, Save
  <2>3. status \in Statuses /\ (status = "failed" => remote[p][r] = "failed")
    <3>1. /\ Events["unknown"] = {} /\ Events["accepted"] = {}
          /\ Events["paid"] = {"success"} /\ Events["failed"] = {"failed"}
          /\ Events["reversed"] = {"success", "reversed"}
        BY DEF Events
    <3>2. remote[p][r] \in RemoteStates
        BY DEF Typed, TypeOK
    <3>3. \A state \in RemoteStates : \A event \in Events[state] :
              event \in Statuses /\ (event = "failed" => state = "failed")
        BY ONLY <3>1 DEF RemoteStates, Statuses
    <3>4. QED
        BY <3>2, <3>3
  <2>4. Grows /\ SubmitsNew /\ ReachesOne /\ RetriesFailed
      BY <2>1, <2>2, <2>3 DEF Typed, TypeOK, Grows, SubmitsNew, ReachesOne, RetriesFailed, NoTransfer, Statuses
  <2>5. FailsForAReason
      BY <2>1, <2>2, <2>3 DEF Typed, TypeOK, FailsForAReason
  <2>6. RefusalsLeaveNoTrace
      BY <2>1, RefStays DEF RefusalsLeaveNoTrace, Refused, Untouched
  <2>7. QED
      BY <2>4, <2>5, <2>6 DEF Effects
<1>7. CASE UNCHANGED vars
    BY <1>7, RefStays DEF vars, Effects, Grows, SubmitsNew, ReachesOne, RefusalsLeaveNoTrace,
       FailsForAReason, RetriesFailed, Refused, Untouched
<1>8. QED
    BY <1>1, <1>2, <1>3, <1>4, <1>5, <1>6, <1>7 DEF Next, Step, ExecuteTransfer

\* What is dead stays dead, also under late webhooks and resubmissions.
LEMMA DeadStays ==
    ASSUME Typed, Effects, NEW r \in Refs, Dead(r)
    PROVE  Dead(r)'
<1>1. transfers'[r] # NoTransfer
    BY DEF Effects, Grows, Dead
<1>2. \A c \in Calls : Ref(c)' = Ref(c)
    BY RefStays DEF Effects, Grows
<1>3. \A c \in Calls : Ref(c)' = r => pc'[c] # "send"
    BY <1>2 DEF Effects, SubmitsNew, Dead
<1>4. ASSUME NEW p \in ProviderNames PROVE remote'[p][r] \in {"unknown", "failed", "reversed"}
  <2>1. remote'[p][r] = remote[p][r]
      BY DEF Effects, ReachesOne, Dead
  <2>2. QED
      BY <2>1 DEF Dead
<1>5. QED
    BY <1>1, <1>3, <1>4 DEF Dead

\* A reference that a call without a fault is submitting is unknown to all providers.
LEMMA SubmittingMeansUntouched ==
    ASSUME Paying, NEW c \in Calls, pc[c] = "send", Unhurt(Ref(c))
    PROVE  Untouched(Ref(c))
BY DEF Paying, RefusedMeansUntouched, Refused, Unhurt

\* A payment without faults goes to one provider, and on to a retry only when it is dead
\* (the provider chain, RetryTransfer, HandleTransferStatus).
THEOREM PayingCorrect == Spec => []Paying
<1>1. Init => Paying
  <2> SUFFICES ASSUME Init PROVE Paying
      OBVIOUS
  <2>1. \A r \in Refs : Untouched(r)
      BY DEF Init, Untouched
  <2>2. RefusedMeansUntouched /\ RetryAfterDeath
      BY DEF Init, RefusedMeansUntouched, Refused, RetryAfterDeath
  <2>3. OneProvider
      BY <2>1 DEF OneProvider, Untouched
  <2>4. FailedMeansDead
      BY DEF Init, FailedMeansDead, NoTransfer
  <2>5. RetriedMeansDead
      BY <2>1, TransferAssumption DEF RetriedMeansDead
  <2>6. QED
      BY <2>2, <2>3, <2>4, <2>5 DEF Paying
<1>2. Typed /\ Charging /\ Paying /\ [Next]_vars => Paying'
  <2> SUFFICES ASSUME Typed, Charging, Paying, [Next]_vars
               PROVE  Paying'
      OBVIOUS
  <2>1. Effects
      BY StepEffects
  <2>2. \A c \in Calls : Ref(c)' = Ref(c) /\ Ref(c) \in Refs
      BY <2>1, RefStays DEF Effects, Grows
  <2>3. \A r : Unhurt(r)' => Unhurt(r)
      BY <2>1, <2>2 DEF Effects, Grows, Unhurt, Typed, TypeOK
  <2>4. \A r \in Refs : Dead(r) => Dead(r)'
      BY <2>1, DeadStays
  <2>5. RefusedMeansUntouched'
    <3> SUFFICES ASSUME NEW c \in Calls, c \notin hurt', Refused(c)'
                 PROVE  Untouched(Ref(c))'
        BY DEF RefusedMeansUntouched
    <3>1. c \notin hurt
        BY <2>1 DEF Effects, Grows
    <3>2. Untouched(Ref(c))
        BY <2>1, <2>2, <3>1 DEF Effects, RefusalsLeaveNoTrace, Paying, RefusedMeansUntouched,
           Charging, RowFirst
    <3>3. QED
        BY <2>1, <3>2 DEF Effects, RefusalsLeaveNoTrace
  <2>6. OneProvider'
    <3> SUFFICES ASSUME NEW r \in Refs, Unhurt(r)',
                        NEW p \in ProviderNames, NEW q \in ProviderNames,
                        remote'[p][r] # "unknown", remote'[q][r] # "unknown"
                 PROVE  p = q
        BY DEF OneProvider
    <3>1. Unhurt(r)
        BY <2>3
    <3>2. CASE \A s \in ProviderNames :
                  \/ remote'[s][r] = remote[s][r]
                  \/ /\ remote[s][r] \in {"accepted", "paid"}
                     /\ remote'[s][r] \in {"paid", "failed", "reversed"}
        BY <3>1, <3>2 DEF Paying, OneProvider
    <3>3. ASSUME NEW c \in Calls, NEW o \in ProviderNames, pc[c] = "send", Ref(c) = r,
                 \A s \in ProviderNames \ {o} : remote'[s][r] = remote[s][r]
          PROVE  p = q
      <4>1. Untouched(r)
          BY <3>1, <3>3, SubmittingMeansUntouched
      <4>2. QED
          BY <3>3, <4>1 DEF Untouched
    <3>4. QED
        BY <2>1, <3>2, <3>3 DEF Effects, ReachesOne
  <2>7. FailedMeansDead'
    <3> SUFFICES ASSUME NEW r \in Refs, Unhurt(r)', transfers'[r] = "failed"
                 PROVE  Dead(r)
        BY <2>4 DEF FailedMeansDead
    <3>1. Unhurt(r)
        BY <2>3
    <3>2. CASE transfers[r] = "failed"
        BY <3>1, <3>2 DEF Paying, FailedMeansDead
    <3>3. ASSUME NEW c \in Calls, Ref(c) = r, Refused(c), pc[c] # "send"
          PROVE  Dead(r)
      <4>1. Untouched(r)
          BY <3>1, <3>3 DEF Paying, RefusedMeansUntouched, Unhurt
      <4>2. Owns(c) /\ transfers[r] # NoTransfer
          BY <3>3 DEF Refused, Owns, Charging, RowFirst
      <4>3. \A d \in Calls : Ref(d) = r => pc[d] # "send"
          BY <3>3, <4>2 DEF Owns, Charging, OneOwner
      <4>4. QED
          BY <4>1, <4>2, <4>3 DEF Dead, Untouched
    <3>4. ASSUME NEW p \in ProviderNames, remote[p][r] = "failed"
          PROVE  Dead(r)
      <4>1. ~Untouched(r)
          BY <3>4 DEF Untouched
      <4>2. transfers[r] # NoTransfer
          BY <4>1 DEF Charging, RowFirst
      <4>3. \A q \in ProviderNames \ {p} : remote[q][r] = "unknown"
          BY <3>1, <3>4 DEF Paying, OneProvider
      <4>4. \A c \in Calls : Ref(c) = r => pc[c] # "send"
          BY <3>1, <4>1, SubmittingMeansUntouched
      <4>5. QED
          BY <3>4, <4>2, <4>3, <4>4 DEF Dead
    <3>5. QED
        BY <2>1, <3>2, <3>3, <3>4 DEF Effects, FailsForAReason
  <2>8. RetryAfterDeath'
    <3> SUFFICES ASSUME NEW c \in Calls, req[c].kind = "retry", pc'[c] \notin {"find", "done"},
                        Unhurt(req[c].ref)'
                 PROVE  Dead(req[c].ref)'
        BY <2>1 DEF RetryAfterDeath, Effects, Grows
    <3>1. Unhurt(req[c].ref) /\ req[c].ref \in Refs
        BY <2>1, <2>3, CallTyped, TransferAssumption DEF Typed, Effects, Grows
    <3>2. Dead(req[c].ref)
        BY <2>1, <3>1 DEF Effects, RetriesFailed, Paying, RetryAfterDeath, FailedMeansDead
    <3>3. QED
        BY <2>1, <2>4, <3>1, <3>2 DEF Effects, Grows
  <2>9. RetriedMeansDead'
    <3> SUFFICES ASSUME NEW r \in DOMAIN RetryRef, Unhurt(r)', ~Untouched(RetryRef[r])'
                 PROVE  Dead(r)
        BY <2>4, TransferAssumption DEF RetriedMeansDead
    <3>1. Unhurt(r) /\ r \in Refs /\ RetryRef[r] \in Refs
        BY <2>3, TransferAssumption
    <3>2. CASE ~Untouched(RetryRef[r])
        BY <3>1, <3>2 DEF Paying, RetriedMeansDead
    <3>3. CASE Untouched(RetryRef[r])
      <4>1. PICK c \in Calls : pc[c] = "send" /\ Ref(c) = RetryRef[r]
          BY <2>1, <3>1, <3>3 DEF Effects, ReachesOne, Untouched
      <4>2. req[c].kind = "retry"
          BY <4>1, CallTyped, TransferAssumption DEF Typed, Ref
      <4>3. req[c].ref = r
          BY <4>1, <4>2, CallTyped, TransferAssumption DEF Typed, Ref
      <4>4. QED
          BY <3>1, <4>1, <4>2, <4>3 DEF Paying, RetryAfterDeath
    <3>4. QED
        BY <3>2, <3>3
  <2>10. QED
      BY <2>5, <2>6, <2>7, <2>8, <2>9 DEF Paying
<1>3. QED
    BY <1>1, <1>2, TypedCorrect, ChargingCorrect, PTL DEF Spec

\* A payment is made at most once, over all providers, resubmissions and retries, whatever
\* the webhooks do, unless a fault hid from one of its calls what had been done (the
\* provider chain, RetryTransfer's status check, UNIQUE (reference)).
THEOREM PaysOnce == Spec => []PaidOnce
<1>1. Paying => PaidOnce
  <2> SUFFICES ASSUME Paying, NEW r \in Refs, \A c \in hurt : Ref(c) \notin Payment(r),
                      NEW x \in Live(r), NEW y \in Live(r)
               PROVE  x = y
      BY DEF PaidOnce
  <2>1. /\ x \in ProviderNames \X Payment(r) /\ y \in ProviderNames \X Payment(r)
        /\ remote[x[1]][x[2]] \in {"accepted", "paid"}
        /\ remote[y[1]][y[2]] \in {"accepted", "paid"}
      BY DEF Live
  <2>2. \A s \in Payment(r) : Unhurt(s)
      BY DEF Unhurt
  <2>3. \A s \in Payment(r) : s = r \/ (r \in DOMAIN RetryRef /\ s = RetryRef[r])
      BY DEF Payment
  <2>4. r \in Payment(r) /\ Payment(r) \subseteq Refs
      BY <2>3, TransferAssumption DEF Payment
  <2>5. CASE x[2] = y[2]
    <3>1. x[1] = y[1]
        BY <2>1, <2>2, <2>4, <2>5 DEF Paying, OneProvider
    <3>2. QED
        BY <2>1, <2>5, <3>1
  <2>6. ASSUME NEW u \in Live(r), NEW v \in Live(r), u[2] = r, v[2] # r
        PROVE  FALSE
    <3>1. /\ u[1] \in ProviderNames /\ v[1] \in ProviderNames /\ v[2] \in Payment(r)
          /\ remote[u[1]][r] \in {"accepted", "paid"}
          /\ remote[v[1]][v[2]] \in {"accepted", "paid"}
        BY <2>6 DEF Live
    <3>2. r \in DOMAIN RetryRef /\ v[2] = RetryRef[r]
        BY <2>3, <2>6, <3>1
    <3>3. ~Untouched(RetryRef[r])
        BY <3>1, <3>2 DEF Untouched
    <3>4. Dead(r)
        BY <2>2, <2>4, <3>2, <3>3 DEF Paying, RetriedMeansDead
    <3>5. QED
        BY <3>1, <3>4 DEF Dead
  <2>7. CASE x[2] # y[2]
      BY <2>1, <2>3, <2>6, <2>7
  <2>8. QED
      BY <2>5, <2>7
<1>2. QED
    BY <1>1, PayingCorrect, PTL

\* Every variable keeps its type.
THEOREM TypeCorrect == Spec => []TypeOK
<1>1. Typed => TypeOK
    BY DEF Typed
<1>2. QED
    BY <1>1, TypedCorrect, PTL

-----------------------------------------------------------------------------
(* Locks *)

\* Until its withdrawal is recorded, nothing is under the reference of an owner.
Uncharged == \A c \in Calls : pc[c] \in {"send", "save", "debit", "record"} => ~Recorded(Ref(c))

\* A call that has yet to lock met no fault, one that rolls back has, and a fee is only
\* known from a provider's answer.
FaultsKnown ==
    \A c \in Calls :
        /\ pc[c] \in {"find", "lock"} => c \notin hurt
        /\ pc[c] = "rollback" => c \in hurt
        /\ pc[c] \in {"find", "lock", "create", "send"} => result[c].fee = 0

\* The least and the most that a call contributes to the locked balance: a call that met a
\* fault may have released its lock before "unlock", and may have left it or released it
\* twice when it is done.
Least(c) ==
    IF pc[c] \in {"create", "send", "fail", "save", "debit"} THEN Amount(c)
    ELSE IF pc[c] = "unlock" THEN (IF c \in hurt THEN 0 ELSE Amount(c))
    ELSE IF pc[c] = "done" THEN (IF c \in hurt THEN -Amount(c) ELSE 0)
    ELSE 0

Most(c) ==
    IF pc[c] \in {"create", "send", "fail", "save", "debit", "unlock"} THEN Amount(c)
    ELSE IF pc[c] = "done" THEN (IF c \in hurt THEN Amount(c) ELSE 0)
    ELSE 0

AllLeast == SumFunction([c \in Calls |-> Least(c)])
AllMost == SumFunction([c \in Calls |-> Most(c)])

Bracketed == AllLeast <= locked /\ locked <= AllMost

Locking == Uncharged /\ FaultsKnown /\ Bracketed

\* What a step of call c leaves alone.
OwnStep(c) == OthersStay(c) /\ hurt \subseteq hurt' /\ hurt' \subseteq hurt \cup {c}

LEMMA StepIsOwn ==
    ASSUME Typed, NEW c \in Calls, Step(c)
    PROVE  OwnStep(c)
<1> USE DEF OwnStep, OthersStay, Typed, TypeOK, Goto, Fault, NoFault
<1>1. CASE RetryTransfer(c) \/ LockBalance(c) \/ CreateTransfer(c) \/ MarkFailed(c)
           \/ SaveResult(c) \/ Debit(c) \/ RecordWithdrawal(c) \/ RollbackWithdrawal(c)
           \/ UnlockBalance(c)
    BY <1>1 DEF RetryTransfer, LockBalance, CreateTransfer, MarkFailed, SaveResult, Debit,
       RecordWithdrawal, RollbackWithdrawal, UnlockBalance
<1>2. CASE InitiateTransfer(c)
    BY <1>2 DEF InitiateTransfer, Answered, TryNext
<1> QED
    BY <1>1, <1>2 DEF Step, ExecuteTransfer

LEMMA SharesTyped ==
    ASSUME Typed, NEW c \in Calls
    PROVE  /\ Amount(c) \in Nat
           /\ Least(c) \in Int /\ Most(c) \in Nat
<1>1. Amount(c) \in Nat
    BY CallTyped DEF Typed
<1> QED
    BY <1>1 DEF Least, Most

\* The sums move by the share of the call that takes the step.
LEMMA BracketMoves ==
    ASSUME Typed, Typed', NEW c \in Calls, OwnStep(c)
    PROVE  /\ AllLeast \in Int /\ AllMost \in Int
           /\ AllLeast' = AllLeast + (Least(c)' - Least(c))
           /\ AllMost' = AllMost + (Most(c)' - Most(c))
           /\ AllMost' >= 0
<1> DEFINE l == [d \in Calls |-> Least(d)]
           m == [d \in Calls |-> Most(d)]
           k == [d \in Calls |-> Least(d)']
           n == [d \in Calls |-> Most(d)']
           zero == [d \in Calls |-> 0]
<1>1. /\ AllLeast = SumFunctionOnSet(l, Calls) /\ AllLeast' = SumFunctionOnSet(k, Calls)
      /\ AllMost = SumFunctionOnSet(m, Calls) /\ AllMost' = SumFunctionOnSet(n, Calls)
    BY DEF AllLeast, AllMost, SumFunction
<1>2. \A d \in Calls : Amount(d)' = Amount(d) /\ Amount(d) \in Nat
    BY SharesTyped, RefStays DEF OwnStep, OthersStay, Amount
<1>3. \A d \in Calls : l[d] \in Int /\ m[d] \in Int /\ k[d] \in Int /\ n[d] \in Int /\ n[d] >= 0
    <2>1. \A d \in Calls : Least(d) \in Int /\ Most(d) \in Nat
        BY SharesTyped
    <2>2. \A d \in Calls : Least(d)' \in Int /\ Most(d)' \in Nat
        BY <1>2 DEF Least, Most
    <2> QED
        BY <2>1, <2>2
<1>4. \A d \in Calls : d # c => k[d] = l[d] /\ n[d] = m[d]
    BY <1>2 DEF OwnStep, OthersStay, Least, Most
<1>5. IsFiniteSet(Calls)
    BY TransferAssumption
<1>6. /\ l[c] = Least(c) /\ k[c] = Least(c)' /\ m[c] = Most(c) /\ n[c] = Most(c)'
      /\ \A d \in Calls : zero[d] = 0
    OBVIOUS
<1> HIDE DEF l, m, k, n, zero
<1>7. AllLeast \in Int /\ AllLeast' = AllLeast + (Least(c)' - Least(c))
    BY <1>1, <1>3, <1>4, <1>5, <1>6, SumChanges
<1>8. AllMost \in Int /\ AllMost' = AllMost + (Most(c)' - Most(c))
    BY <1>1, <1>3, <1>4, <1>5, <1>6, SumChanges
<1>9. AllMost' >= 0
    <2>1. SumFunctionOnSet(zero, Calls) = 0
        BY <1>5, <1>6, SumOfZeros
    <2>2. SumFunctionOnSet(zero, Calls) <= SumFunctionOnSet(n, Calls)
        BY <1>3, <1>5, <1>6, SumAtMost
    <2>3. SumFunctionOnSet(n, Calls) \in Int
        BY <1>3, <1>5, SumIsInt
    <2> QED
        BY <1>1, <2>1, <2>2, <2>3
<1> QED
    BY <1>7, <1>8, <1>9

\* A step moves the locked balance within what it moves of the call's shares.
Within(c) ==
    /\ Least(c)' - Least(c) <= locked' - locked
    /\ locked' - locked <= Most(c)' - Most(c) \/ locked' = 0

LEMMA StepWithin ==
    ASSUME Typed, Locking, NEW c \in Calls, Step(c)
    PROVE  Within(c)
<1>1. /\ Amount(c) \in Nat /\ Amount(c)' = Amount(c) /\ locked \in Nat
      /\ pc \in [Calls -> Labels]
      /\ hurt \subseteq hurt'
    BY SharesTyped, StepIsOwn, RefStays DEF OwnStep, OthersStay, Amount, Typed, TypeOK
<1>2. /\ pc[c] \in {"find", "lock"} => c \notin hurt
      /\ pc[c] = "rollback" => c \in hurt
      /\ pc[c] = "debit" => ~Recorded(Ref(c))
    BY DEF Locking, FaultsKnown, Uncharged
<1> USE DEF Within, Least, Most, Goto, Fault, NoFault, walletVars
<1>3. CASE RetryTransfer(c) \/ CreateTransfer(c) \/ MarkFailed(c) \/ SaveResult(c)
           \/ RecordWithdrawal(c) \/ RollbackWithdrawal(c)
    <2>1. locked' = locked
        BY <1>3 DEF RetryTransfer, CreateTransfer, MarkFailed, SaveResult, RecordWithdrawal,
           RollbackWithdrawal, CreateTransaction, IncrementBalance
    <2>2. \/ pc[c] = "find" /\ pc'[c] \in {"lock", "done"} /\ (hurt' = hurt \/ c \in hurt')
          \/ pc[c] \in {"create", "fail", "save"} /\ pc'[c] \in {"send", "fail", "debit", "unlock"}
          \/ pc[c] = "record" /\ pc'[c] \in {"done", "rollback"}
          \/ pc[c] = "rollback" /\ pc'[c] = "unlock"
        BY <1>1, <1>3 DEF RetryTransfer, CreateTransfer, MarkFailed, SaveResult, RecordWithdrawal,
           RollbackWithdrawal
    <2> QED
        BY <1>1, <1>2, <2>1, <2>2
<1>4. CASE InitiateTransfer(c)
    BY <1>1, <1>4 DEF InitiateTransfer, Answered, TryNext
<1>5. CASE LockBalance(c)
    BY <1>1, <1>2, <1>5 DEF LockBalance, IncrementLocked
<1>6. CASE Debit(c)
    BY <1>1, <1>2, <1>6 DEF Debit, DecrementBalanceAndLocked, AtLeastZero
<1>7. CASE UnlockBalance(c)
    BY <1>1, <1>7 DEF UnlockBalance, DecrementLocked, AtLeastZero
<1> QED
    BY <1>3, <1>4, <1>5, <1>6, <1>7 DEF Step, ExecuteTransfer

LEMMA UnchargedKeeps ==
    ASSUME Typed, Charging, Uncharged, NEW c \in Calls, Step(c)
    PROVE  Uncharged'
<1>1. OthersStay(c) /\ pc \in [Calls -> Labels] /\ DOMAIN txs = Refs
    BY StepIsOwn DEF OwnStep, Typed, TypeOK
<1>2. \A d \in Calls : Ref(d)' = Ref(d) /\ Ref(d) \in Refs
    BY <1>1, RefStays DEF OthersStay
<1> USE DEF Goto
<1>3. CASE RecordWithdrawal(c)
    <2>1. /\ pc[c] = "record" /\ pc'[c] \in {"done", "rollback"}
          /\ txs' = txs \/ \E row : txs' = [txs EXCEPT ![Ref(c)] = row]
        BY <1>1, <1>3 DEF RecordWithdrawal, CreateTransaction, walletVars
    <2>2. ASSUME NEW d \in Calls, pc'[d] \in {"send", "save", "debit", "record"}
          PROVE  ~Recorded(Ref(d))'
        <3>1. d # c /\ pc[d] = pc'[d]
            BY <1>1, <2>1, <2>2 DEF OthersStay
        <3>2. Ref(d) # Ref(c)
            BY <2>1, <2>2, <3>1 DEF Charging, OneOwner, Owns
        <3>3. ~Recorded(Ref(d))
            BY <2>2, <3>1 DEF Uncharged
        <3> QED
            BY <1>1, <1>2, <2>1, <3>2, <3>3 DEF Recorded
    <2> QED
        BY <2>2 DEF Uncharged
<1>4. CASE CreateTransfer(c)
    <2>1. /\ pc[c] = "create" /\ txs' = txs
          /\ pc'[c] \in {"send", "save", "debit", "record"} => transfers[Ref(c)] = NoTransfer
        BY <1>1, <1>4 DEF CreateTransfer, walletVars
    <2>2. transfers[Ref(c)] = NoTransfer => ~Recorded(Ref(c))
        BY <1>2 DEF Charging, RowFirst
    <2> QED
        BY <1>1, <1>2, <2>1, <2>2 DEF Uncharged, OthersStay, Recorded
<1>5. CASE RetryTransfer(c) \/ LockBalance(c) \/ InitiateTransfer(c) \/ MarkFailed(c)
           \/ SaveResult(c) \/ Debit(c) \/ RollbackWithdrawal(c) \/ UnlockBalance(c)
    <2>1. /\ txs' = txs
          /\ pc'[c] \in {"send", "save", "debit", "record"} => pc[c] \in {"send", "save", "debit", "record"}
        BY <1>1, <1>5 DEF RetryTransfer, LockBalance, InitiateTransfer, Answered, TryNext, MarkFailed,
           SaveResult, Debit, RollbackWithdrawal, UnlockBalance, IncrementLocked, IncrementBalance,
           DecrementBalanceAndLocked, DecrementLocked, walletVars
    <2> QED
        BY <1>1, <1>2, <2>1 DEF Uncharged, OthersStay, Recorded
<1> QED
    BY <1>3, <1>4, <1>5 DEF Step, ExecuteTransfer

LEMMA FaultsKnownKeeps ==
    ASSUME Typed, Uncharged, FaultsKnown, NEW c \in Calls, Step(c)
    PROVE  FaultsKnown'
<1>1. OwnStep(c) /\ pc \in [Calls -> Labels] /\ DOMAIN result = Calls
    BY StepIsOwn DEF Typed, TypeOK
<1>2. /\ pc[c] \in {"find", "lock"} => c \notin hurt
      /\ pc[c] = "record" => ~Recorded(Ref(c))
      /\ pc[c] \in {"find", "lock", "create", "send"} => result[c].fee = 0
    BY DEF FaultsKnown, Uncharged
<1> USE DEF Goto, Fault, NoFault
<1>3. /\ pc'[c] \in {"find", "lock"} => c \notin hurt'
      /\ pc'[c] = "rollback" => c \in hurt'
      /\ pc'[c] \in {"find", "lock", "create", "send"} => result'[c].fee = 0
      /\ \A d \in Calls \ {c} : result'[d] = result[d]
    <2>1. CASE InitiateTransfer(c)
        BY <1>1, <1>2, <2>1 DEF InitiateTransfer, Answered, TryNext
    <2>2. CASE RetryTransfer(c) \/ LockBalance(c) \/ CreateTransfer(c) \/ MarkFailed(c)
               \/ SaveResult(c) \/ Debit(c) \/ RecordWithdrawal(c) \/ RollbackWithdrawal(c)
               \/ UnlockBalance(c)
        BY <1>1, <1>2, <2>2 DEF RetryTransfer, LockBalance, CreateTransfer, MarkFailed, SaveResult,
           Debit, RecordWithdrawal, RollbackWithdrawal, UnlockBalance
    <2> QED
        BY <2>1, <2>2 DEF Step, ExecuteTransfer
<1> QED
    BY <1>1, <1>3 DEF FaultsKnown, OwnStep, OthersStay

\* The provider's and the webhook's steps move no lock and no call.
LEMMA WorldKeepsLocking ==
    ASSUME Locking, UNCHANGED <<walletVars, req, pc, result, hurt>>
    PROVE  Locking'
BY DEF Locking, Uncharged, FaultsKnown, Bracketed, AllLeast, AllMost, Least, Most, Amount, Ref,
   Recorded, walletVars

\* A transfer leaks at most its own lock and releases at most one that is not its own
\* (ExecuteTransfer's deferred unlock beside RecordWithdrawal's).
THEOREM LockingCorrect == Spec => []Locking
<1>1. Init => Locking
    <2> SUFFICES ASSUME Init PROVE Locking
        OBVIOUS
    <2>1. Uncharged /\ FaultsKnown
        BY DEF Init, Uncharged, FaultsKnown, NoResult
    <2>2. AllLeast = 0 /\ AllMost = 0
        <3> DEFINE l == [c \in Calls |-> Least(c)]
                   m == [c \in Calls |-> Most(c)]
        <3>1. \A c \in Calls : l[c] = 0 /\ m[c] = 0
            BY DEF Init, Least, Most
        <3>2. AllLeast = SumFunctionOnSet(l, Calls) /\ AllMost = SumFunctionOnSet(m, Calls)
            BY DEF AllLeast, AllMost, SumFunction
        <3> HIDE DEF l, m
        <3> QED
            BY <3>1, <3>2, SumOfZeros, TransferAssumption
    <2>3. Bracketed
        BY <2>2 DEF Bracketed, Init
    <2> QED
        BY <2>1, <2>3 DEF Locking
<1>2. Typed /\ Typed' /\ Charging /\ Locking /\ [Next]_vars => Locking'
    <2> SUFFICES ASSUME Typed, Typed', Charging, Locking, [Next]_vars
                 PROVE  Locking'
        OBVIOUS
    <2>1. ASSUME NEW c \in Calls, Step(c)
          PROVE  Locking'
        <3>1. Uncharged' /\ FaultsKnown'
            BY <2>1, UnchargedKeeps, FaultsKnownKeeps DEF Locking
        <3>2. Within(c) /\ OwnStep(c)
            BY <2>1, StepWithin, StepIsOwn
        <3>3. /\ AllLeast \in Int /\ AllMost \in Int
              /\ AllLeast' = AllLeast + (Least(c)' - Least(c))
              /\ AllMost' = AllMost + (Most(c)' - Most(c))
              /\ AllMost' >= 0
            BY <3>2, BracketMoves
        <3>4. /\ locked \in Nat /\ locked' \in Nat
              /\ Least(c) \in Int /\ Most(c) \in Int
              /\ Least(c)' \in Int /\ Most(c)' \in Int
            <4>1. Amount(c) \in Nat /\ Amount(c)' = Amount(c)
                BY <3>2, SharesTyped, RefStays DEF OwnStep, OthersStay, Amount
            <4> QED
                BY <4>1 DEF Least, Most, Typed, TypeOK
        <3>5. Bracketed'
            BY <3>2, <3>3, <3>4 DEF Locking, Bracketed, Within
        <3> QED
            BY <3>1, <3>5 DEF Locking
    <2>2. ASSUME NEW p \in ProviderNames, NEW r \in Refs, Settle(p, r) \/ HandleTransferStatus(p, r)
          PROVE  Locking'
        <3>1. UNCHANGED <<walletVars, req, pc, result, hurt>>
            BY <2>2 DEF Settle, HandleTransferStatus
        <3> QED
            BY <3>1, WorldKeepsLocking
    <2>3. CASE UNCHANGED vars
        <3>1. UNCHANGED <<walletVars, req, pc, result, hurt>>
            BY <2>3 DEF vars, walletVars
        <3> QED
            BY <3>1, WorldKeepsLocking
    <2> QED
        BY <2>1, <2>2, <2>3 DEF Next
<1> QED
    BY <1>1, <1>2, TypedCorrect, ChargingCorrect, PTL DEF Spec

\* The locked balance is what the running calls hold, give or take the amounts of the calls
\* that met a fault.
THEOREM LocksAreAccounted == Spec => []LocksAccounted
<1>1. Typed /\ Locking => LocksAccounted
    <2> SUFFICES ASSUME Typed, Locking PROVE LocksAccounted
        OBVIOUS
    <2> DEFINE held == [c \in Calls |-> Held(c)]
               part == [c \in hurt |-> Amount(c)]
               slack == [c \in Calls |-> IF c \in hurt THEN Amount(c) ELSE 0]
               l == [c \in Calls |-> Least(c)]
               m == [c \in Calls |-> Most(c)]
               up == [c \in Calls |-> held[c] + slack[c]]
               low == [c \in Calls |-> l[c] + slack[c]]
    <2>1. \A c \in Calls : Amount(c) \in Nat
        BY SharesTyped
    <2>2. /\ AllLeast = SumFunctionOnSet(l, Calls)
          /\ AllMost = SumFunctionOnSet(m, Calls)
        BY DEF AllLeast, AllMost, SumFunction
    <2>3. \A c \in Calls :
              /\ held[c] \in Int /\ slack[c] \in Int /\ l[c] \in Int /\ m[c] \in Int
              /\ up[c] \in Int /\ low[c] \in Int
              /\ up[c] = held[c] + slack[c] /\ low[c] = l[c] + slack[c]
              /\ m[c] <= up[c] /\ held[c] <= low[c]
        <3> SUFFICES ASSUME NEW c \in Calls
                     PROVE  /\ held[c] \in Int /\ slack[c] \in Int /\ l[c] \in Int /\ m[c] \in Int
                            /\ m[c] <= held[c] + slack[c] /\ held[c] <= l[c] + slack[c]
            OBVIOUS
        <3>1. /\ held[c] = Held(c) /\ l[c] = Least(c) /\ m[c] = Most(c)
              /\ slack[c] = IF c \in hurt THEN Amount(c) ELSE 0
            OBVIOUS
        <3>2. pc[c] \in Labels
            BY DEF Typed, TypeOK
        <3> HIDE DEF held, slack, l, m
        <3> QED
            BY <2>1, <3>1, <3>2 DEF Held, Least, Most, Labels
    <2>4. /\ \A c \in hurt : part[c] \in Int /\ slack[c] = part[c]
          /\ \A c \in Calls \ hurt : slack[c] = 0
        BY <2>1 DEF Typed, TypeOK
    <2>5. LocksAccounted <=>
              locked \in (SumFunctionOnSet(held, Calls) - SumFunctionOnSet(part, hurt)) ..
                         (SumFunctionOnSet(held, Calls) + SumFunctionOnSet(part, hurt))
        BY DEF LocksAccounted, SumFunction
    <2>6. IsFiniteSet(Calls) /\ hurt \subseteq Calls
        BY TransferAssumption DEF Typed, TypeOK
    <2> HIDE DEF held, part, slack, l, m, up, low
    <2>7. SumFunctionOnSet(part, hurt) = SumFunctionOnSet(slack, Calls)
        BY <2>4, <2>6, SumOfPart
    <2>8. SumFunctionOnSet(up, Calls) = SumFunctionOnSet(held, Calls) + SumFunctionOnSet(slack, Calls)
        BY <2>3, <2>6, SumAdds
    <2>9. SumFunctionOnSet(low, Calls) = SumFunctionOnSet(l, Calls) + SumFunctionOnSet(slack, Calls)
        BY <2>3, <2>6, SumAdds
    <2>10. SumFunctionOnSet(m, Calls) <= SumFunctionOnSet(up, Calls)
        BY <2>3, <2>6, SumAtMost
    <2>11. SumFunctionOnSet(held, Calls) <= SumFunctionOnSet(low, Calls)
        BY <2>3, <2>6, SumAtMost
    <2>12. /\ SumFunctionOnSet(held, Calls) \in Int
           /\ SumFunctionOnSet(slack, Calls) \in Int
           /\ SumFunctionOnSet(l, Calls) \in Int
           /\ SumFunctionOnSet(m, Calls) \in Int
        <3>1. SumFunctionOnSet(held, Calls) \in Int
            BY <2>3, <2>6, SumIsInt
        <3>2. SumFunctionOnSet(slack, Calls) \in Int
            BY <2>3, <2>6, SumIsInt
        <3>3. SumFunctionOnSet(l, Calls) \in Int
            BY <2>3, <2>6, SumIsInt
        <3>4. SumFunctionOnSet(m, Calls) \in Int
            BY <2>3, <2>6, SumIsInt
        <3> QED
            BY <3>1, <3>2, <3>3, <3>4
    <2>13. locked \in Nat
        BY DEF Typed, TypeOK
    <2>14. /\ SumFunctionOnSet(l, Calls) <= locked
           /\ locked <= SumFunctionOnSet(m, Calls)
        BY <2>2 DEF Locking, Bracketed
    <2>15. /\ locked <= SumFunctionOnSet(held, Calls) + SumFunctionOnSet(slack, Calls)
           /\ SumFunctionOnSet(held, Calls) - SumFunctionOnSet(slack, Calls) <= locked
        BY <2>8, <2>9, <2>10, <2>11, <2>12, <2>13, <2>14
    <2> QED
        BY <2>5, <2>7, <2>12, <2>13, <2>15
<1> QED
    BY <1>1, TypedCorrect, LockingCorrect, PTL

\* As long as no fault happens and no provider reports a fee, the balance covers every lock
\* (LockBalance's WHERE clause, and what a withdrawal takes from both columns).
THEOREM LocksAreCovered == Spec => []LocksCovered
<1>1. Init => LocksCovered
    BY TransferAssumption DEF Init, LocksCovered
<1>2. Typed /\ Typed' /\ Locking /\ LocksCovered /\ [Next]_vars => LocksCovered'
    <2> SUFFICES ASSUME Typed, Typed', Locking, LocksCovered, [Next]_vars,
                        hurt' = {}, \A c \in Calls : result'[c].fee = 0
                 PROVE  locked' <= balance'
        BY DEF LocksCovered
    <2>1. ASSUME NEW c \in Calls, Step(c)
          PROVE  locked' <= balance'
        <3>1. OwnStep(c) /\ hurt = {} /\ c \notin hurt'
            BY <2>1, StepIsOwn DEF OwnStep
        <3>2. /\ pc[c] # "rollback"
              /\ pc[c] = "send" => result[c].fee = 0
              /\ pc[c] = "debit" => ~Recorded(Ref(c))
            BY <3>1 DEF Locking, FaultsKnown, Uncharged
        <3>3. \A d \in Calls \ {c} : result'[d] = result[d]
            BY <2>1 DEF Typed, TypeOK, Step, ExecuteTransfer, RetryTransfer, LockBalance,
               CreateTransfer, InitiateTransfer, Answered, TryNext, MarkFailed, SaveResult, Debit,
               RecordWithdrawal, RollbackWithdrawal, UnlockBalance
        <3>4. pc[c] # "send" => result' = result
            BY <2>1 DEF Step, ExecuteTransfer, RetryTransfer, LockBalance,
               CreateTransfer, InitiateTransfer, MarkFailed, SaveResult, Debit,
               RecordWithdrawal, RollbackWithdrawal, UnlockBalance
        <3>5. \A d \in Calls : result[d].fee = 0
            BY <3>2, <3>3, <3>4
        <3>6. locked <= balance
            BY <3>1, <3>5 DEF LocksCovered
        <3>7. /\ locked \in Nat /\ balance \in Nat /\ balance' \in Nat
              /\ Amount(c) \in Nat /\ Total(c) = Amount(c)
            BY <3>5, SharesTyped DEF Typed, TypeOK, Total
        <3>8. CASE RetryTransfer(c) \/ CreateTransfer(c) \/ InitiateTransfer(c) \/ MarkFailed(c)
                   \/ SaveResult(c) \/ RecordWithdrawal(c) \/ RollbackWithdrawal(c)
            <4>1. locked' = locked /\ balance' = balance
                BY <3>2, <3>8 DEF RetryTransfer, CreateTransfer, InitiateTransfer, MarkFailed,
                   SaveResult, RecordWithdrawal, RollbackWithdrawal, CreateTransaction, walletVars
            <4> QED
                BY <3>6, <4>1
        <3>9. CASE LockBalance(c)
            BY <3>1, <3>6, <3>7, <3>9 DEF LockBalance, IncrementLocked, Fault, walletVars
        <3>10. CASE Debit(c)
            BY <3>1, <3>6, <3>7, <3>10 DEF Debit, DecrementBalanceAndLocked, AtLeastZero, Fault, walletVars
        <3>11. CASE UnlockBalance(c)
            BY <3>1, <3>6, <3>7, <3>11 DEF UnlockBalance, DecrementLocked, AtLeastZero, Fault, walletVars
        <3> QED
            BY <2>1, <3>8, <3>9, <3>10, <3>11 DEF Step, ExecuteTransfer
    <2>2. ASSUME NEW p \in ProviderNames, NEW r \in Refs, Settle(p, r) \/ HandleTransferStatus(p, r)
          PROVE  locked' <= balance'
        BY <2>2 DEF Settle, HandleTransferStatus, LocksCovered, walletVars
    <2>3. CASE UNCHANGED vars
        BY <2>3 DEF vars, LocksCovered
    <2> QED
        BY <2>1, <2>2, <2>3 DEF Next
<1> QED
    BY <1>1, <1>2, TypedCorrect, LockingCorrect, PTL DEF Spec
=============================================================================
