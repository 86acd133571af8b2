------------------------------- MODULE Transfer -------------------------------
(***************************************************************************)
(* Single transfers and their retries                                      *)
(* (internal/service/transfer_service.go), with the payment providers and  *)
(* the status webhooks they send.  A transfer locks its amount in the      *)
(* wallet, creates its row, submits to the providers in order, saves their *)
(* answer, and either records a withdrawal or gives the lock back.         *)
(*                                                                         *)
(* Each step is one database statement or one call of a provider, except   *)
(* that a read whose only use is to refuse early is folded into the write  *)
(* that makes the same test: CheckBalance into LockBalance, the lookup and *)
(* balance check of RecordWithdrawal into its decrement.  The ledger is    *)
(* left to module Wallet, whose errors its callers never see.              *)
(***************************************************************************)
EXTENDS Integers, Sequences, FiniteSets, Functions

CONSTANTS
    Refs, NoTx, CheckConstraint,  \* see WalletStore
    Calls,           \* concurrent calls of ExecuteTransfer and RetryTransfer
    Requests,        \* the arguments a call may have
    AmountOf,        \* the amount each reference is for
    RetryRef,        \* reference + "-retry", where that is in Refs
    Providers,       \* the default provider, then the fallbacks in order
    Notifying,       \* the providers that send status webhooks
    Fees,            \* the fees a provider may report
    InitialBalance,
    Faults           \* what may go wrong: "error" and "lost_reply", as in Wallet

\* A preference that no configured provider has.
Unavailable == "unavailable"
NoPreference == "none"

ProviderNames == {Providers[i] : i \in DOMAIN Providers}

\* A retry has its row's amount and no preference; a client does not ask for a reference
\* that a retry makes.  Only finitely many calls are made.
ASSUME TransferAssumption ==
    /\ Requests \subseteq [kind : {"transfer", "retry"}, ref : Refs,
                           prefers : ProviderNames \cup {Unavailable, NoPreference}]
    /\ \A q \in Requests : q.kind = "retry" => q.ref \in DOMAIN RetryRef /\ q.prefers = NoPreference
    /\ AmountOf \in [Refs -> Nat \ {0}]
    /\ \A q \in Requests : q.kind = "transfer" => \A r \in DOMAIN RetryRef : q.ref # RetryRef[r]
    /\ DOMAIN RetryRef \subseteq Refs
    /\ \A r \in DOMAIN RetryRef : RetryRef[r] \in Refs /\ AmountOf[RetryRef[r]] = AmountOf[r]
    /\ \A r, s \in DOMAIN RetryRef : RetryRef[r] = RetryRef[s] => r = s
    /\ Providers \in Seq(ProviderNames) /\ Len(Providers) > 0
    /\ Notifying \subseteq ProviderNames
    /\ Fees \subseteq Nat
    /\ InitialBalance \in Nat
    /\ IsFiniteSet(Calls)

VARIABLES
    balance, locked, txs,  \* rows of WalletStore
    transfers,  \* the status of each reference's row of transfers, or NoTransfer
    remote,     \* what each provider has done for each reference
    req, pc,    \* the arguments of each call and the step it takes next
    tried,      \* how many providers a call has tried
    result,     \* the provider's answer to a call
    hurt        \* history: the calls that met a fault

vars == <<balance, locked, txs, transfers, remote, req, pc, tried, result, hurt>>
walletVars == <<balance, locked, txs>>

INSTANCE WalletStore WITH ledger <- {}

NoTransfer == "absent"
Statuses == {"pending", "processing", "success", "failed", "reversed"}
RemoteStates == {"unknown", "accepted", "paid", "failed", "reversed"}
NoResult == [success |-> FALSE, status |-> "none", fee |-> 0]
Labels == {"find", "lock", "create", "send", "fail", "save", "debit", "record", "rollback",
           "unlock", "done"}

Ref(c) == IF req[c].kind = "retry" THEN RetryRef[req[c].ref] ELSE req[c].ref
Amount(c) == AmountOf[Ref(c)]
Total(c) == Amount(c) + result[c].fee

Init ==
    /\ balance = InitialBalance
    /\ locked = 0
    /\ txs = [r \in Refs |-> NoTx]
    /\ transfers = [r \in Refs |-> NoTransfer]
    /\ remote = [p \in ProviderNames |-> [r \in Refs |-> "unknown"]]
    /\ req \in [Calls -> Requests]
    /\ pc = [c \in Calls |-> IF req[c].kind = "retry" THEN "find" ELSE "lock"]
    /\ tried = [c \in Calls |-> 0]
    /\ result = [c \in Calls |-> NoResult]
    /\ hurt = {}

Goto(c, label) == pc' = [pc EXCEPT ![c] = label]

\* A fault of the kind happens to call c.
Fault(c, kind) ==
    /\ kind \in Faults
    /\ hurt' = hurt \cup {c}

NoFault == UNCHANGED hurt

-----------------------------------------------------------------------------
(* RetryTransfer *)

\* Mutant: a transfer that is still processing can be retried too.
RetryTransfer_Processing(c) ==
    /\ pc[c] = "find"
    /\ Goto(c, IF transfers[req[c].ref] \in {"failed", "processing"} THEN "lock" ELSE "done")
    /\ NoFault
    /\ UNCHANGED <<walletVars, transfers, remote, req, tried, result>>

\* The row is read once, and not touched: ExecuteTransfer works on the retry's own row.
RetryTransfer(c) ==
    /\ pc[c] = "find"
    /\ \/ transfers[req[c].ref] = "failed" /\ Goto(c, "lock") /\ NoFault
       \/ transfers[req[c].ref] # "failed" /\ Goto(c, "done") /\ NoFault
       \/ Fault(c, "error") /\ Goto(c, "done")
    /\ UNCHANGED <<walletVars, transfers, remote, req, tried, result>>

-----------------------------------------------------------------------------
(* ExecuteTransfer *)

\* The fee is not known yet and not locked.  "error" covers the read after the update.
LockBalance(c) ==
    /\ pc[c] = "lock"
    /\ \/ IncrementLocked(Amount(c)) /\ Goto(c, "create") /\ NoFault
       \/ balance - locked < Amount(c) /\ UNCHANGED walletVars /\ Goto(c, "done") /\ NoFault
       \/ Fault(c, "error") /\ UNCHANGED walletVars /\ Goto(c, "done")
       \/ (Fault(c, "lost_reply") \/ Fault(c, "error")) /\ IncrementLocked(Amount(c)) /\ Goto(c, "done")
    /\ UNCHANGED <<transfers, remote, req, tried, result>>

Save(ref, status) == transfers' = [transfers EXCEPT ![ref] = status]

\* Mutant: no unique index on transfers.reference.
CreateTransfer_Upsert(c) ==
    /\ pc[c] = "create"
    /\ Save(Ref(c), "pending")
    /\ Goto(c, IF req[c].prefers = Unavailable THEN "fail" ELSE "send")
    /\ NoFault
    /\ UNCHANGED <<walletVars, remote, req, tried, result>>

\* INSERT under UNIQUE (reference); then the preferred provider is looked up.
CreateTransfer(c) ==
    /\ pc[c] = "create"
    /\ \/ /\ transfers[Ref(c)] = NoTransfer
          /\ Save(Ref(c), "pending")
          /\ \/ Goto(c, IF req[c].prefers = Unavailable THEN "fail" ELSE "send") /\ NoFault
             \/ Fault(c, "lost_reply") /\ Goto(c, "unlock")
       \/ /\ UNCHANGED transfers
          /\ Goto(c, "unlock")
          /\ \/ transfers[Ref(c)] # NoTransfer /\ NoFault
             \/ Fault(c, "error")
    /\ UNCHANGED <<walletVars, remote, req, tried, result>>

\* The providers call c may submit to: the preferred one or the whole chain.
Chain(c) ==
    IF req[c].prefers = NoPreference THEN Providers ELSE <<req[c].prefers>>

Submission(c, p, state) == remote' = [remote EXCEPT ![p][Ref(c)] = state]

Answered(c, success, status, fee) ==
    /\ result' = [result EXCEPT ![c] = [success |-> success, status |-> status, fee |-> fee]]
    /\ Goto(c, "save")
    /\ UNCHANGED tried

\* On to the next provider of the chain, or to the failure of the transfer.
TryNext(c) ==
    /\ tried' = [tried EXCEPT ![c] = @ + 1]
    /\ Goto(c, IF tried[c] + 1 < Len(Chain(c)) THEN "send" ELSE "fail")
    /\ UNCHANGED result

\* The next provider pays at once, accepts, refuses with an answer, or fails with an error
\* (an open circuit breaker too).  An answer "failed" counts as a refusal, any other status
\* but "success" as accepted.  An error may hide that the provider took the transfer.
InitiateTransfer(c) ==
    /\ pc[c] = "send"
    /\ LET p == Chain(c)[tried[c] + 1] IN
       \/ Submission(c, p, "paid") /\ NoFault /\ \E fee \in Fees : Answered(c, TRUE, "success", fee)
       \/ Submission(c, p, "accepted") /\ Answered(c, TRUE, "processing", 0) /\ NoFault
       \/ UNCHANGED remote /\ Answered(c, FALSE, "failed", 0) /\ NoFault
       \/ UNCHANGED remote /\ TryNext(c) /\ NoFault
       \/ Submission(c, p, "accepted") /\ TryNext(c) /\ Fault(c, "lost_reply")
    /\ UNCHANGED <<walletVars, transfers, req>>

\* All providers failed, or the preferred one does not exist.  An error of the save is
\* logged or ignored.
MarkFailed(c) ==
    /\ pc[c] = "fail"
    /\ \/ Save(Ref(c), "failed") /\ NoFault
       \/ Fault(c, "error") /\ UNCHANGED transfers
    /\ Goto(c, "unlock")
    /\ UNCHANGED <<walletVars, remote, req, tried, result>>

\* Mutant: any successful answer is charged, also one that is still processing.
SaveResult_ChargeAny(c) ==
    /\ pc[c] = "save"
    /\ Save(Ref(c), result[c].status)
    /\ NoFault
    /\ Goto(c, IF result[c].success THEN "debit" ELSE "unlock")
    /\ UNCHANGED <<walletVars, remote, req, tried, result>>

\* Saves the whole row, over whatever a webhook wrote meanwhile.  Only a transfer reported
\* paid is charged; one that is processing just gives its lock back.
SaveResult(c) ==
    /\ pc[c] = "save"
    /\ \/ Save(Ref(c), result[c].status) /\ NoFault
       \/ Fault(c, "error") /\ UNCHANGED transfers
    /\ Goto(c, IF result[c].success /\ result[c].status = "success" THEN "debit" ELSE "unlock")
    /\ UNCHANGED <<walletVars, remote, req, tried, result>>

\* RecordWithdrawal.  A transaction under the reference counts as this withdrawal, and
\* then the lock stays.  The amount's lock goes with the balance, so that "unlock" after a
\* later failure releases it a second time.
Debit(c) ==
    /\ pc[c] = "debit"
    /\ \/ Recorded(Ref(c)) /\ UNCHANGED walletVars /\ Goto(c, "done") /\ NoFault
       \/ ~Recorded(Ref(c)) /\ balance < Total(c) /\ UNCHANGED walletVars /\ Goto(c, "unlock") /\ NoFault
       \/ ~Recorded(Ref(c)) /\ DecrementBalanceAndLocked(Total(c), Amount(c)) /\ Goto(c, "record") /\ NoFault
       \/ Fault(c, "error") /\ UNCHANGED walletVars /\ Goto(c, "unlock")
       \/ /\ ~Recorded(Ref(c))
          /\ Fault(c, "lost_reply") \/ Fault(c, "error")  \* the read after the update
          /\ DecrementBalanceAndLocked(Total(c), Amount(c))
          /\ Goto(c, "unlock")
    /\ UNCHANGED <<transfers, remote, req, tried, result>>

\* Once the row is in, RecordWithdrawal succeeds and the transfer returns.
RecordWithdrawal(c) ==
    LET row == [type |-> "withdrawal", amount |-> Total(c), by |-> c] IN
    /\ pc[c] = "record"
    /\ \/ CreateTransaction(Ref(c), row) /\ Goto(c, "done") /\ NoFault
       \/ Recorded(Ref(c)) /\ UNCHANGED walletVars /\ Goto(c, "rollback") /\ NoFault
       \/ Fault(c, "error") /\ UNCHANGED walletVars /\ Goto(c, "rollback")
       \/ Fault(c, "lost_reply") /\ CreateTransaction(Ref(c), row) /\ Goto(c, "rollback")
    /\ UNCHANGED <<transfers, remote, req, tried, result>>

RollbackWithdrawal(c) ==
    /\ pc[c] = "rollback"
    /\ \/ IncrementBalance(Total(c)) /\ NoFault
       \/ Fault(c, "error") /\ UNCHANGED walletVars
    /\ Goto(c, "unlock")
    /\ UNCHANGED <<transfers, remote, req, tried, result>>

\* Mutant: the deferred unlock is forgotten.
UnlockBalance_Forgotten(c) ==
    /\ pc[c] = "unlock"
    /\ Goto(c, "done")
    /\ NoFault
    /\ UNCHANGED <<walletVars, transfers, remote, req, tried, result>>

\* The deferred unlock of every return on which no withdrawal was recorded.
UnlockBalance(c) ==
    /\ pc[c] = "unlock"
    /\ \/ DecrementLocked(Amount(c)) /\ NoFault
       \/ Fault(c, "error") /\ UNCHANGED walletVars
    /\ Goto(c, "done")
    /\ UNCHANGED <<transfers, remote, req, tried, result>>

-----------------------------------------------------------------------------
(* The providers *)

\* What may become of a transfer at a provider.
Outcomes == [unknown |-> {}, accepted |-> {"paid", "failed"}, paid |-> {"reversed"},
             failed |-> {}, reversed |-> {}]

Settle(p, r) ==
    /\ \E state \in Outcomes[remote[p][r]] : remote' = [remote EXCEPT ![p][r] = state]
    /\ UNCHANGED <<walletVars, transfers, req, pc, tried, result, hurt>>

\* The events a provider has sent by the time a transfer is in a state.
Events == [unknown |-> {}, accepted |-> {}, paid |-> {"success"}, failed |-> {"failed"},
           reversed |-> {"success", "reversed"}]

\* An event arrives: late, again or after a newer one.  The handler overwrites the status
\* whatever it is, and leaves the wallet alone.  Events that never arrive need no action.
HandleTransferStatus(p, r) ==
    /\ p \in Notifying
    /\ transfers[r] # NoTransfer
    /\ \E status \in Events[remote[p][r]] : Save(r, status)
    /\ UNCHANGED <<walletVars, remote, req, pc, tried, result, hurt>>

-----------------------------------------------------------------------------
ExecuteTransfer(c) ==
    \/ LockBalance(c) \/ CreateTransfer(c) \/ InitiateTransfer(c) \/ MarkFailed(c)
    \/ SaveResult(c) \/ Debit(c) \/ RecordWithdrawal(c) \/ RollbackWithdrawal(c)
    \/ UnlockBalance(c)

Step(c) == RetryTransfer(c) \/ ExecuteTransfer(c)

Next ==
    \/ \E c \in Calls : Step(c)
    \/ \E p \in ProviderNames, r \in Refs : Settle(p, r) \/ HandleTransferStatus(p, r)

Spec == Init /\ [][Next]_vars

\* In Spec a call may stop anywhere, as it does when its process dies.  Here the process
\* lives on, and so does each call; providers owe nothing.
FairSpec == Spec /\ \A c \in Calls : WF_vars(Step(c))

-----------------------------------------------------------------------------
(* Properties *)

RowType == [type : {"withdrawal"}, amount : Nat \ {0}, by : Calls]

\* Every variable keeps its type, whatever the calls, providers and faults do.
TypeOK ==
    /\ balance \in Nat
    /\ locked \in Nat
    /\ txs \in [Refs -> RowType \cup {NoTx}]
    /\ transfers \in [Refs -> Statuses \cup {NoTransfer}]
    /\ remote \in [ProviderNames -> [Refs -> RemoteStates]]
    /\ req \in [Calls -> Requests]
    /\ pc \in [Calls -> Labels]
    /\ tried \in [Calls -> 0 .. Len(Providers)]
    /\ result \in [Calls -> [success : BOOLEAN, status : Statuses \cup {"none"}, fee : Fees \cup {0}]]
    /\ hurt \subseteq Calls

\* The amount call c has locked and not yet released, if nothing went wrong.
Held(c) ==
    IF pc[c] \in {"create", "send", "fail", "save", "debit", "unlock"} THEN Amount(c) ELSE 0

\* The locked balance is what the running calls hold, give or take the amounts of calls
\* that met a fault: a transfer leaks at most its own lock, and releases at most one that
\* is not its own (ExecuteTransfer's deferred unlock beside RecordWithdrawal's).
LocksAccounted ==
    LET held == SumFunction([c \in Calls |-> Held(c)])
        slack == SumFunction([c \in hurt |-> Amount(c)])
    IN  locked \in (held - slack) .. (held + slack)

\* As long as no fault happens and no provider reports a fee, the balance covers every
\* lock: a transfer that was paid is never refused by the wallet (LockBalance's WHERE
\* clause, and the amount a withdrawal takes from both columns).
LocksCovered ==
    hurt = {} /\ (\A c \in Calls : result[c].fee = 0) => locked <= balance

\* The references that stand for one payment: the transfer's and its retry's.
Payment(r) == {r} \cup {RetryRef[s] : s \in {r} \cap DOMAIN RetryRef}

\* The submissions of a payment that took, or may still take, money out.
Live(r) ==
    {x \in ProviderNames \X Payment(r) : remote[x[1]][x[2]] \in {"accepted", "paid"}}

\* A payment is made at most once, over all providers, resubmissions and retries, whatever
\* the webhooks do, unless a fault hid from one of its calls what a provider or the database
\* had done (the provider chain, RetryTransfer's status check, UNIQUE (reference)).
PaidOnce ==
    \A r \in Refs :
        (\A c \in hurt : Ref(c) \notin Payment(r)) => \A x, y \in Live(r) : x = y

\* Under any fault, the wallet is charged under a reference only when a provider had paid
\* it out (RecordWithdrawal's condition in ExecuteTransfer).
ChargedMeansPaid ==
    \A r \in Refs : Recorded(r) => \E p \in ProviderNames : remote[p][r] \in {"paid", "reversed"}

\* As long as no fault happens, every lock is given back or used: with the calls ended
\* nothing stays locked.
LocksDrain == [](hurt = {}) => <>[](locked = 0)

\* transfer_service.go:147 "Track if withdrawal was recorded (to prevent double unlock)":
\* the amounts locked by calls that met no fault stay locked until they release them.
NoDoubleUnlock ==
    locked >= SumFunction([c \in Calls \ hurt |-> Held(c)])
=============================================================================
