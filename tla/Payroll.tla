------------------------------- MODULE Payroll -------------------------------
(***************************************************************************)
(* Payroll runs from their submission to their payout                      *)
(* (internal/service/payroll_service.go, payroll_processing.go), the jobs  *)
(* of the scheduler, the batch transfer that pays a run                    *)
(* (transfer_batch.go) with its wallet records, and the loans a completed  *)
(* run repays.                                                             *)
(*                                                                         *)
(* Every operation reads the row of its run, checks the status it read,    *)
(* and later saves the whole row: no lock, version or transaction is held  *)
(* in between.  Each step is one database statement, one call of the       *)
(* scheduler or one call of the provider; the lookups of the user, the     *)
(* business and the employees, which only refuse early, are part of the    *)
(* read of the run.  As in Transfer, the ledger is left out and a check    *)
(* that the next update repeats is part of it.                             *)
(***************************************************************************)
EXTENDS Integers, FiniteSets, Functions

CONSTANTS
    Runs, Staff,     \* payroll runs and employees of one business
    Calls,           \* concurrent requests
    Requests,        \* what a request may ask: [op, run, emp]
    Configs,         \* what may be given: the business flags, the scheduler (durable: Asynq,
                     \* else gocron), the employees whose bank name has a code (mapped)
    Borrowers,       \* the employees with an active loan at the start
    Pays,            \* the net pays a calculation may yield
    MinAmount,       \* the smallest amount a transfer may have
    Monthly, Principal,         \* of each loan
    NoTx, CheckConstraint,      \* see WalletStore
    InitialBalance, InitialLocked,
    MaxAmends,       \* bound: how often entries are added to a run
    MaxRetry,        \* asynq.MaxRetry
    Faults,          \* what may go wrong: "error", "lost_reply" (see Wallet) and "crash"
    MaxFaults        \* bound: how often

Ops == {"submit", "approve", "reject", "amend", "reverse", "process", "cancel"}

\* The system has finitely many runs, employees and requests.
ASSUME PayrollAssumption ==
    /\ IsFiniteSet(Runs) /\ IsFiniteSet(Staff) /\ IsFiniteSet(Calls)
    /\ Requests \subseteq [op : Ops, run : Runs, emp : Staff]
    /\ Configs \subseteq [requiresApproval : BOOLEAN, autoProcess : BOOLEAN, durable : BOOLEAN,
                           mapped : SUBSET Staff]
    /\ Borrowers \subseteq Staff
    /\ Pays \subseteq Nat \ {0}
    /\ {MinAmount, Monthly, Principal} \subseteq Nat \ {0}
    /\ {InitialBalance, InitialLocked, MaxAmends, MaxRetry, MaxFaults} \subseteq Nat
    /\ NoTx \notin [amount : Nat]

VARIABLES
    balance, locked, txs,  \* rows of WalletStore
    config,     \* one of Configs, fixed
    status,     \* payroll_runs.status
    entries,    \* payroll_run_entries of each run
    transfers,  \* the references that have a row of transfers
    remote,     \* the references the provider has taken
    loans,      \* employee_loans
    req, pc,    \* the arguments of each request, and the step each actor takes next
    retried,    \* how often a job was run again
    mem,        \* the local variables of each actor
    grants, batches, completions,  \* history: approvals, batches sent and completions of each run
    faults      \* history: how many faults have happened

walletVars == <<balance, locked, txs>>
runVars == <<status, entries>>
payVars == <<transfers, remote>>
history == <<grants, batches, completions>>
control == <<pc, retried, mem>>
vars == <<walletVars, config, runVars, payVars, loans, req, control, history, faults>>

\* The references of a run's transfers, PAYROLL-<run>-EMP-<employee>, and with a prefix
\* those of their withdrawals.
Refs == Runs \X Staff

INSTANCE WalletStore WITH ledger <- {}

Statuses == {"draft", "pending_approval", "approved", "processing", "completed", "rejected", "failed"}

\* An entry of a run.  An amendment stores new entries beside the old ones (version).
RunEntry == [emp : Staff, version : 0 .. MaxAmends, pay : Pays]

\* parseAmountToKobo: the transfer takes the amount, which is in kobo, for naira.
Kobo(amount) == 100 * amount

\* An actor is a request, or the job that the request scheduled.
Request(c) == <<c, "request">>
Job(c) == <<c, "job">>
Actors == Calls \X {"request", "job"}
IsJob(a) == a[2] = "job"
Run(a) == req[a[1]].run
Emp(a) == req[a[1]].emp
Ref(a, entry) == <<Run(a), entry.emp>>

NoEntry == [emp |-> "none"]
NoLoan == [status |-> "none", remaining |-> 0, repaid |-> 0]
Answers == {"accepted", "failed", "missing"}
Idle == [entries |-> {}, stored |-> FALSE, answers |-> [e \in Staff |-> "missing"],
         all |-> FALSE, todo |-> {}, item |-> NoEntry, verdict |-> "none", loan |-> NoLoan]

\* buildTransferRequests: the entries of the run, as it was read, that can be transferred.
Items(a) == {i \in mem[a].entries : i.emp \in config.mapped}

Init ==
    /\ balance = InitialBalance
    /\ locked = InitialLocked
    /\ txs = [r \in Refs |-> NoTx]
    /\ config \in Configs
    /\ status \in [Runs -> {"draft"} \cup IF config.requiresApproval THEN {"pending_approval"} ELSE {}]
    /\ \E pay \in [Runs -> [Staff -> Pays]] :
           entries = [r \in Runs |-> {[emp |-> e, version |-> 0, pay |-> pay[r][e]] : e \in Staff}]
    /\ transfers = {}
    /\ remote = {}
    /\ loans = [e \in Staff |-> IF e \in Borrowers
                                THEN [status |-> "active", remaining |-> Principal, repaid |-> 0]
                                ELSE NoLoan]
    /\ req \in [Calls -> Requests]
    /\ pc = [a \in Actors |-> IF IsJob(a) THEN "unscheduled" ELSE req[a[1]].op]
    /\ retried = [a \in Actors |-> 0]
    /\ mem = [a \in Actors |-> Idle]
    /\ grants = [r \in Runs |-> 0]
    /\ batches = [r \in Runs |-> 0]
    /\ completions = [r \in Runs |-> 0]
    /\ faults = 0

NoFault == UNCHANGED faults
Fault(kind) == kind \in Faults /\ faults < MaxFaults /\ faults' = faults + 1

Count(counter, r) == counter' = [counter EXCEPT ![r] = @ + 1]

\* On to a label with local variables m; those of an actor that is done are gone.
Goto(a, label, m) ==
    /\ pc' = [pc EXCEPT ![a] = label]
    /\ mem' = [mem EXCEPT ![a] = IF label = "done" THEN Idle ELSE m]
    /\ UNCHANGED retried

Retryable(a) == IsJob(a) /\ config.durable /\ retried[a] < MaxRetry

\* The actor returns an error.  Asynq runs a job again that returned one, gocron logs it.
Fail(a) ==
    /\ pc' = [pc EXCEPT ![a] = IF Retryable(a) THEN "waiting" ELSE "done"]
    /\ retried' = [retried EXCEPT ![a] = IF Retryable(a) THEN @ + 1 ELSE @]
    /\ mem' = [mem EXCEPT ![a] = Idle]

-----------------------------------------------------------------------------
(* Status changes *)

\* FindByID, and the check of the status.
Find(a, labels, wanted, next, m) ==
    /\ pc[a] \in labels
    /\ \/ status[Run(a)] \in wanted /\ Goto(a, next, m) /\ NoFault
       \/ status[Run(a)] \notin wanted /\ Fail(a) /\ NoFault
       \/ Fault("error") /\ Fail(a)
    /\ UNCHANGED <<walletVars, config, runVars, payVars, loans, req, history>>

\* Save of the whole row: the status the actor has in mind goes over whatever is stored.
Saved(a, new, next) ==
    /\ status' = [status EXCEPT ![Run(a)] = new]
    /\ \/ Goto(a, next, mem[a]) /\ NoFault
       \/ Fault("lost_reply") /\ Fail(a)

NotSaved(a) == Fault("error") /\ UNCHANGED status /\ Fail(a)

SaveRun(a, new, next) == Saved(a, new, next) \/ NotSaved(a)

\* SchedulePayout: the job is enqueued, or else the actor goes on at other.
SchedulePayout(a, next, other) ==
    /\ \/ pc' = [pc EXCEPT ![a] = next, ![Job(a[1])] = "waiting"] /\ NoFault
       \/ Fault("error") /\ pc' = [pc EXCEPT ![a] = other]
       \/ Fault("lost_reply") /\ pc' = [pc EXCEPT ![a] = other, ![Job(a[1])] = "waiting"]
    /\ UNCHANGED <<retried, mem>>

\* Mutant: whether to process at once is asked before whether approval is required.
SubmitForApproval_AutoProcessFirst(a) ==
    Find(a, {"submit"}, {"draft"},
         IF config.autoProcess THEN "p_find"
         ELSE IF config.requiresApproval THEN "s_pending" ELSE "s_schedule", Idle)

\* Without approval the run is approved in memory; with auto-processing it is processed
\* from its row, which still says draft.
SubmitForApproval(a) ==
    Find(a, {"submit"}, {"draft"},
         IF config.requiresApproval THEN "s_pending"
         ELSE IF config.autoProcess THEN "p_find" ELSE "s_schedule", Idle)

\* The job is enqueued before the status it waits for is saved.
SubmitSchedule(a) ==
    /\ pc[a] = "s_schedule"
    /\ SchedulePayout(a, "s_approved", "done")
    /\ UNCHANGED <<walletVars, config, runVars, payVars, loans, req, history>>

SubmitSave(a) ==
    /\ \/ pc[a] = "s_pending" /\ SaveRun(a, "pending_approval", "done") /\ UNCHANGED grants
       \/ pc[a] = "s_approved" /\ Saved(a, "approved", "done") /\ Count(grants, Run(a))
       \/ pc[a] = "s_approved" /\ NotSaved(a) /\ UNCHANGED grants
    /\ UNCHANGED <<walletVars, config, entries, payVars, loans, req, batches, completions>>

ApprovePayrollRun(a) == Find(a, {"approve"}, {"pending_approval"}, "a_save", Idle)

\* Mutant: the job is enqueued before the approval is saved.
ApproveSave_AfterSchedule(a) ==
    /\ pc[a] = "a_save"
    /\ ~config.autoProcess
    /\ \/ pc[Job(a[1])] = "unscheduled" /\ SchedulePayout(a, "a_save", "done") /\ UNCHANGED <<status, grants>>
       \/ pc[Job(a[1])] # "unscheduled" /\ Saved(a, "approved", "done") /\ Count(grants, Run(a))
    /\ UNCHANGED <<walletVars, config, entries, payVars, loans, req, batches, completions>>

ApproveSave(a) ==
    /\ pc[a] = "a_save"
    /\ \/ Saved(a, "approved", IF config.autoProcess THEN "p_find" ELSE "a_schedule") /\ Count(grants, Run(a))
       \/ NotSaved(a) /\ UNCHANGED grants
    /\ UNCHANGED <<walletVars, config, entries, payVars, loans, req, batches, completions>>

ApproveSchedule(a) ==
    /\ pc[a] = "a_schedule"
    /\ SchedulePayout(a, "done", "a_revert")
    /\ UNCHANGED <<walletVars, config, runVars, payVars, loans, req, history>>

\* The approval is taken back when the job could not be enqueued.
ApproveRevert(a) ==
    /\ pc[a] = "a_revert"
    /\ SaveRun(a, "pending_approval", "done")
    /\ UNCHANGED <<walletVars, config, entries, payVars, loans, req, history>>

RejectPayrollRun(a) == Find(a, {"reject"}, {"pending_approval"}, "r_save", Idle)

RejectSave(a) ==
    /\ pc[a] = "r_save"
    /\ SaveRun(a, "rejected", "done")
    /\ UNCHANGED <<walletVars, config, entries, payVars, loans, req, history>>

AmendPayrollRun(a) == Find(a, {"amend"}, {"draft"}, "m_save", Idle)

\* The recalculated entries are stored with the run.  Saving a row inserts the new rows of
\* its associations and removes none, so the old entries stay; a
\* higher version tells the new ones from them.
AmendSave(a) ==
    /\ pc[a] = "m_save"
    /\ \E version \in 1 .. MaxAmends, pay \in [Staff -> Pays] :
          LET calculated == {[emp |-> e, version |-> version, pay |-> pay[e]] : e \in Staff} IN
          /\ \A i \in entries[Run(a)] : i.version < version
          /\ \/ Saved(a, "draft", "done") /\ entries' = [entries EXCEPT ![Run(a)] = @ \cup calculated]
             \/ NotSaved(a) /\ UNCHANGED entries
    /\ UNCHANGED <<walletVars, config, payVars, loans, req, history>>

ReversePayrollRun(a) == Find(a, {"reverse"}, {"completed"}, "v_save", Idle)

\* Neither the transfers nor the loans are touched.
ReverseSave(a) ==
    /\ pc[a] = "v_save"
    /\ SaveRun(a, "rejected", "done")
    /\ UNCHANGED <<walletVars, config, entries, payVars, loans, req, history>>

-----------------------------------------------------------------------------
(* Processing *)

\* The job of a request.  A run that is not approved is skipped, which is no error.
ProcessApprovedPayroll(a) ==
    /\ pc[a] = "waiting"
    /\ \/ status[Run(a)] = "approved" /\ Goto(a, "p_find", Idle) /\ NoFault
       \/ status[Run(a)] # "approved" /\ Goto(a, "done", Idle) /\ NoFault
       \/ Fault("error") /\ Fail(a)
    /\ UNCHANGED <<walletVars, config, runVars, payVars, loans, req, history>>

\* The read of ProcessPayrollRunInstantly, which the request "process" (process-now), the
\* auto-processing requests and the jobs share.
ProcessPayrollRunInstantly(a) ==
    Find(a, {"process", "p_find"}, {"approved", "draft"}, "p_start", [Idle EXCEPT !.entries = entries[Run(a)]])

\* Mutant: the status stays as it is until the end.
StartProcessing_Unsaved(a) ==
    LET next == IF \E i \in Items(a) : i.pay < MinAmount THEN "verify" ELSE "b_create" IN
    /\ pc[a] = "p_start"
    /\ IF Items(a) # {} THEN Goto(a, next, mem[a]) ELSE Fail(a)
    /\ NoFault
    /\ UNCHANGED <<walletVars, config, runVars, payVars, loans, req, history>>

\* After the status is saved: without transfers the call ends, with an error and with the
\* run left processing; when an amount is out of the limits the batch is not sent.
StartProcessing(a) ==
    LET next == IF \E i \in Items(a) : i.pay < MinAmount THEN "verify" ELSE "b_create" IN
    /\ pc[a] = "p_start"
    /\ \/ Items(a) # {} /\ SaveRun(a, "processing", next)
       \/ /\ Items(a) = {}
          /\ NoFault \/ Fault("lost_reply")
          /\ status' = [status EXCEPT ![Run(a)] = "processing"]
          /\ Fail(a)
       \/ Items(a) = {} /\ NotSaved(a)
    /\ UNCHANGED <<walletVars, config, entries, payVars, loans, req, history>>

-----------------------------------------------------------------------------
(* ExecuteBatchTransfer *)

ItemRefs(a) == {Ref(a, i) : i \in Items(a)}

\* One insert for all items, under UNIQUE (reference).  An error is logged; the records then
\* have no id, so that their later update inserts them.
CreateBatch(a) ==
    LET unique == Cardinality(ItemRefs(a)) = Cardinality(Items(a)) /\ ItemRefs(a) \cap transfers = {} IN
    /\ pc[a] = "b_create"
    /\ \/ /\ unique
          /\ transfers' = transfers \cup ItemRefs(a)
          /\ \/ Goto(a, "b_send", [mem[a] EXCEPT !.stored = TRUE]) /\ NoFault
             \/ Goto(a, "b_send", mem[a]) /\ Fault("lost_reply")
       \/ /\ (~unique /\ NoFault) \/ Fault("error")
          /\ UNCHANGED transfers
          /\ Goto(a, "b_send", mem[a])
    /\ UNCHANGED <<walletVars, config, runVars, remote, loans, req, history>>

\* The answers to a batch of which the provider took some references: an item accepted was
\* taken, one that failed was not, unless a reply was lost.
Answered(a, taken, lost) ==
    {answers \in [Staff -> Answers] : \A e \in Staff :
        /\ answers[e] = "accepted" => <<Run(a), e>> \in taken
        /\ answers[e] = "failed" => <<Run(a), e>> \in ItemRefs(a) \ (taken \ lost)}

\* The provider takes some of the references it does not know yet, and answers for each
\* item, for some, or for none: native bulk answers for the batch only, and as nobody looks
\* at that answer a refused batch looks like an accepted one.  Or the whole call fails.
InitiateBulkTransfer(a) ==
    /\ pc[a] = "b_send"
    /\ \E taken, lost \in SUBSET (ItemRefs(a) \ remote) :
          /\ lost \subseteq taken
          /\ (lost = {} /\ NoFault) \/ (lost # {} /\ Fault("lost_reply"))
          /\ remote' = remote \cup taken
          /\ \/ taken = lost /\ Goto(a, "verify", mem[a])
             \/ \E answers \in Answered(a, taken, lost) :
                   Goto(a, IF mem[a].stored THEN "b_charge" ELSE "b_update",
                        [mem[a] EXCEPT !.answers = answers, !.todo = Items(a)])
    /\ Count(batches, Run(a))
    /\ UNCHANGED <<walletVars, config, runVars, transfers, loans, req, grants, completions>>

\* Mutant: a record is only updated, never inserted.
UpdateRecord_NoInsert(a) ==
    /\ pc[a] = "b_update"
    /\ Goto(a, "b_charge", [mem[a] EXCEPT !.todo = Items(a)])
    /\ UNCHANGED <<walletVars, config, runVars, payVars, loans, req, history, faults>>

\* The updates of records with an id change columns that nothing here reads; that of a
\* record without one inserts it.  Errors are logged.
UpdateRecord(a) ==
    /\ pc[a] = "b_update"
    /\ \E i \in mem[a].todo :
          LET todo == mem[a].todo \ {i} IN
          /\ \/ transfers' = transfers \cup {Ref(a, i)} /\ NoFault
             \/ UNCHANGED transfers /\ Fault("error")
          /\ IF todo # {}
             THEN Goto(a, "b_update", [mem[a] EXCEPT !.todo = todo])
             ELSE Goto(a, "b_charge", [mem[a] EXCEPT !.todo = Items(a)])
    /\ UNCHANGED <<walletVars, config, runVars, remote, loans, req, history>>

\* An item without an answer counts as successful.
Success(a, i) == mem[a].answers[i.emp] # "failed"

\* On to the next item, or out of the loop with the number of successes.
ItemDone(a, i) ==
    LET todo == mem[a].todo \ {i} IN
    IF todo # {}
    THEN Goto(a, "b_charge", [mem[a] EXCEPT !.todo = todo, !.item = NoEntry])
    ELSE Goto(a, "verify", [Idle EXCEPT !.entries = mem[a].entries,
                                        !.all = \A j \in Items(a) : Success(a, j)])

\* The wallet is charged for an item that succeeded; for one that failed an amount is
\* unlocked, though a batch has locked none.  Errors are ignored.
ChargeItem(a) ==
    /\ pc[a] = "b_charge"
    /\ \E i \in mem[a].todo :
          \/ /\ Success(a, i) /\ ~Recorded(Ref(a, i))
             /\ DecrementBalanceAndLocked(Kobo(i.pay), Kobo(i.pay))
             /\ \/ Goto(a, "b_record", [mem[a] EXCEPT !.item = i]) /\ NoFault
                \/ ItemDone(a, i) /\ (Fault("lost_reply") \/ Fault("error"))
          \/ /\ ~Success(a, i)
             /\ DecrementLocked(Kobo(i.pay)) /\ NoFault
             /\ ItemDone(a, i)
          \/ /\ UNCHANGED walletVars
             /\ ItemDone(a, i)
             /\ \/ Success(a, i) /\ (Recorded(Ref(a, i)) \/ balance < Kobo(i.pay)) /\ NoFault
                \/ Fault("error")
    /\ UNCHANGED <<config, runVars, payVars, loans, req, history>>

RecordItem(a) ==
    LET i == mem[a].item
        row == [amount |-> Kobo(i.pay)]
    IN
    /\ pc[a] = "b_record"
    /\ \/ /\ CreateTransaction(Ref(a, i), row)
          /\ \/ ItemDone(a, i) /\ NoFault
             \/ Goto(a, "b_rollback", mem[a]) /\ Fault("lost_reply")
       \/ /\ (Recorded(Ref(a, i)) /\ NoFault) \/ Fault("error")
          /\ UNCHANGED walletVars
          /\ Goto(a, "b_rollback", mem[a])
    /\ UNCHANGED <<config, runVars, payVars, loans, req, history>>

\* Mutant: the charge of a withdrawal that is not recorded is not given back.
RollbackItem_Forgotten(a) ==
    /\ pc[a] = "b_rollback"
    /\ ItemDone(a, mem[a].item)
    /\ UNCHANGED <<walletVars, config, runVars, payVars, loans, req, history, faults>>

RollbackItem(a) ==
    /\ pc[a] = "b_rollback"
    /\ \/ IncrementBalance(Kobo(mem[a].item.pay)) /\ NoFault
       \/ UNCHANGED walletVars /\ Fault("error")
    /\ ItemDone(a, mem[a].item)
    /\ UNCHANGED <<config, runVars, payVars, loans, req, history>>

-----------------------------------------------------------------------------
(* The end of a run *)

\* A run is completed when every item succeeded, or when as many records of its transfers
\* as it has items exist, whatever their status.  Only the 200 newest transfers of the last
\* two minutes are looked at, so that records may be missed.
VerifyTransfers(a) ==
    LET found == Cardinality({ref \in transfers : ref[1] = Run(a)})
        Judge(verdict) == Goto(a, "finish", [mem[a] EXCEPT !.verdict = verdict])
    IN
    /\ pc[a] = "verify"
    /\ \/ mem[a].all /\ Judge("completed") /\ NoFault
       \/ found >= Cardinality(Items(a)) /\ Judge("completed") /\ NoFault
       \/ ~mem[a].all /\ Judge("failed") /\ NoFault
       \/ ~mem[a].all /\ Judge("failed") /\ Fault("error")
    /\ UNCHANGED <<walletVars, config, runVars, payVars, loans, req, history>>

\* The entries whose employee may have a loan.
Repaying(a) == {i \in mem[a].entries : loans[i.emp] # NoLoan}

\* Mutant: the loans are repaid whether the run is completed or failed.
FinishRun_RepayAlways(a) ==
    /\ pc[a] = "finish"
    /\ status' = [status EXCEPT ![Run(a)] = mem[a].verdict]
    /\ Goto(a, IF Repaying(a) # {} THEN "l_find" ELSE "done", [mem[a] EXCEPT !.todo = Repaying(a)])
    /\ IF mem[a].verdict = "completed" THEN Count(completions, Run(a)) ELSE UNCHANGED completions
    /\ UNCHANGED <<walletVars, config, entries, payVars, loans, req, grants, batches, faults>>

FinishRun(a) ==
    LET completed == mem[a].verdict = "completed"
        next == IF completed /\ Repaying(a) # {} THEN "l_find" ELSE "done"
        m == [mem[a] EXCEPT !.todo = Repaying(a)]
    IN
    /\ pc[a] = "finish"
    /\ \/ /\ status' = [status EXCEPT ![Run(a)] = mem[a].verdict]
          /\ \/ Goto(a, next, m) /\ NoFault
             \/ Fail(a) /\ Fault("lost_reply")
          /\ IF completed THEN Count(completions, Run(a)) ELSE UNCHANGED completions
       \/ NotSaved(a) /\ UNCHANGED completions
    /\ UNCHANGED <<walletVars, config, entries, payVars, loans, req, grants, batches>>

-----------------------------------------------------------------------------
(* Loans *)

Smaller(m, n) == IF m <= n THEN m ELSE n

\* The loan after the deduction of one payroll.
Repay(loan) ==
    LET amount == Smaller(Monthly, loan.remaining) IN
    [status |-> IF loan.remaining - amount <= 0 THEN "completed" ELSE loan.status,
     remaining |-> loan.remaining - amount,
     repaid |-> loan.repaid + amount]

LoanDone(a, i) ==
    LET todo == mem[a].todo \ {i} IN
    Goto(a, IF todo = {} THEN "done" ELSE "l_find",
         [mem[a] EXCEPT !.todo = todo, !.item = NoEntry, !.loan = NoLoan])

\* updateLoanBalances goes through the entries; an error skips one.
FindLoan(a) ==
    /\ pc[a] = "l_find"
    /\ \E i \in mem[a].todo :
          LET loan == loans[i.emp] IN
          \/ /\ loan.status = "active" /\ loan.remaining > 0 /\ NoFault
             /\ Goto(a, "l_save", [mem[a] EXCEPT !.item = i, !.loan = loan])
          \/ (loan.status # "active" \/ loan.remaining <= 0) /\ LoanDone(a, i) /\ NoFault
          \/ LoanDone(a, i) /\ Fault("error")
    /\ UNCHANGED <<walletVars, config, runVars, payVars, loans, req, history>>

SaveLoan(a) ==
    LET i == mem[a].item IN
    /\ pc[a] = "l_save"
    /\ \/ loans' = [loans EXCEPT ![i.emp] = Repay(mem[a].loan)] /\ NoFault
       \/ UNCHANGED loans /\ Fault("error")
    /\ LoanDone(a, i)
    /\ UNCHANGED <<walletVars, config, runVars, payVars, req, history>>

\* LoanService.Cancel reads a loan and saves the whole row.
FindLoanToCancel(a) ==
    /\ pc[a] = "cancel"
    /\ LET loan == loans[Emp(a)] IN
       \/ loan.status = "active" /\ Goto(a, "c_save", [Idle EXCEPT !.loan = loan]) /\ NoFault
       \/ loan.status # "active" /\ Fail(a) /\ NoFault
       \/ Fail(a) /\ Fault("error")
    /\ UNCHANGED <<walletVars, config, runVars, payVars, loans, req, history>>

CancelLoan(a) ==
    /\ pc[a] = "c_save"
    /\ \/ /\ loans' = [loans EXCEPT ![Emp(a)] = [mem[a].loan EXCEPT !.status = "cancelled"]]
          /\ NoFault
       \/ UNCHANGED loans /\ Fault("error")
    /\ Goto(a, "done", Idle)
    /\ UNCHANGED <<walletVars, config, runVars, payVars, req, history>>

-----------------------------------------------------------------------------
(* Crashes *)

\* Requests that have not begun, and jobs that are not running.
NotStarted == Ops \cup {"unscheduled", "waiting", "done"}

\* The server stops.  Asynq keeps its jobs and hands out those that were running again;
\* gocron keeps them in memory.  Requests that have not begun find the restarted server.
Crash ==
    /\ Fault("crash")
    /\ \E a \in Actors : pc[a] \notin NotStarted \/ (pc[a] = "waiting" /\ ~config.durable)
    /\ pc' = [a \in Actors |->
                 IF pc[a] \notin NotStarted
                 THEN IF Retryable(a) THEN "waiting" ELSE "done"
                 ELSE IF pc[a] = "waiting" /\ ~config.durable THEN "done" ELSE pc[a]]
    /\ retried' = [a \in Actors |->
                      IF pc[a] \notin NotStarted /\ Retryable(a) THEN retried[a] + 1 ELSE retried[a]]
    /\ mem' = [a \in Actors |-> Idle]
    /\ UNCHANGED <<walletVars, config, runVars, payVars, loans, req, history>>

-----------------------------------------------------------------------------
StatusChange(a) ==
    \/ SubmitForApproval(a) \/ SubmitSchedule(a) \/ SubmitSave(a)
    \/ ApprovePayrollRun(a) \/ ApproveSave(a) \/ ApproveSchedule(a) \/ ApproveRevert(a)
    \/ RejectPayrollRun(a) \/ RejectSave(a) \/ AmendPayrollRun(a) \/ AmendSave(a)
    \/ ReversePayrollRun(a) \/ ReverseSave(a)

ExecuteBatchTransfer(a) ==
    \/ CreateBatch(a) \/ InitiateBulkTransfer(a) \/ UpdateRecord(a)
    \/ ChargeItem(a) \/ RecordItem(a) \/ RollbackItem(a)

Processing(a) ==
    \/ ProcessApprovedPayroll(a) \/ ProcessPayrollRunInstantly(a) \/ StartProcessing(a)
    \/ ExecuteBatchTransfer(a) \/ VerifyTransfers(a) \/ FinishRun(a)

LoanStep(a) == FindLoan(a) \/ SaveLoan(a) \/ FindLoanToCancel(a) \/ CancelLoan(a)

Step(a) == StatusChange(a) \/ Processing(a) \/ LoanStep(a)

Next == (\E a \in Actors : Step(a)) \/ Crash

Spec == Init /\ [][Next]_vars

-----------------------------------------------------------------------------
(* Properties *)

Labels == NotStarted \cup
    {"s_pending", "s_schedule", "s_approved", "a_save", "a_schedule", "a_revert", "r_save",
     "m_save", "v_save", "p_find", "p_start", "b_create", "b_send", "b_update", "b_charge",
     "b_record", "b_rollback", "verify", "finish", "l_find", "l_save", "c_save"}

LoanType == [status : {"none", "active", "completed", "cancelled"}, remaining : Nat, repaid : Nat]

MemType ==
    [entries : SUBSET RunEntry, stored : BOOLEAN, answers : [Staff -> Answers], all : BOOLEAN,
     todo : SUBSET RunEntry, item : RunEntry \cup {NoEntry},
     verdict : {"none", "completed", "failed"}, loan : LoanType]

\* Every variable keeps its type, and every request and job its label.
TypeOK ==
    /\ balance \in Nat
    /\ locked \in Nat
    /\ txs \in [Refs -> [amount : Nat] \cup {NoTx}]
    /\ config \in Configs
    /\ status \in [Runs -> Statuses]
    /\ entries \in [Runs -> SUBSET RunEntry]
    /\ transfers \subseteq Refs
    /\ remote \subseteq Refs
    /\ loans \in [Staff -> LoanType]
    /\ req \in [Calls -> Requests]
    /\ pc \in [Actors -> Labels]
    /\ retried \in [Actors -> 0 .. MaxRetry]
    /\ mem \in [Actors -> MemType]
    /\ grants \in [Runs -> Nat] /\ batches \in [Runs -> Nat] /\ completions \in [Runs -> Nat]
    /\ faults \in 0 .. MaxFaults

\* The requests to process run r at once, which need no approval.
Immediate(r) == {c \in Calls : req[c].op = "process" /\ req[c].run = r}

\* Where approval is required and nobody asks for a run to be processed at once, no batch
\* is sent for a run that was not approved, whatever fails (ProcessApprovedPayroll's and
\* ApprovePayrollRun's checks).
PaysOnlyApproved ==
    \A r \in Runs :
        config.requiresApproval /\ Immediate(r) = {} /\ grants[r] = 0 => batches[r] = 0

\* A run approved once is sent at most once, through crashes, lost replies and repeated
\* jobs: the status "processing" is saved before anything is sent.
SentOnce ==
    \A r \in Runs :
        config.requiresApproval /\ Immediate(r) = {} /\ grants[r] <= 1 => batches[r] <= 1

\* As long as no fault happens, the wallet has paid exactly the withdrawals on record and
\* those about to be recorded or given back, also when two processors pay the same run.
Taken(a) == IF pc[a] \in {"b_record", "b_rollback"} THEN Kobo(mem[a].item.pay) ELSE 0
Withdrawn(ref) == IF Recorded(ref) THEN txs[ref].amount ELSE 0
ChargesAccounted ==
    faults = 0 => balance + SumFunction([a \in Actors |-> Taken(a)])
                          + SumFunction([ref \in Refs |-> Withdrawn(ref)]) = InitialBalance

\* As long as no fault happens, a run marked completed has a record of the transfer of each
\* of its entries as they were sent, so that what became of it can be followed up.
CompletedHasRecords ==
    faults = 0 => \A r \in Runs :
        status[r] = "completed" => {<<r, e>> : e \in config.mapped} \subseteq transfers

\* A loan is repaid at most once per entry of its employee by each completion of a run.
Deductible(e) ==
    SumFunction([r \in Runs |-> completions[r] * Cardinality({i \in entries[r] : i.emp = e})])
RepaidByCompletions == \A e \in Borrowers : loans[e].repaid <= Monthly * Deductible(e)

\* Without faults and where approval is required, no run is left approved or processing once
\* whatever has begun is over: its job comes after its status, and each end of processing
\* saves another (ApprovePayrollRun, ProcessPayrollRunInstantly).
Quiet == \A a \in Actors : pc[a] \in Ops \cup {"unscheduled", "done"}
NoRunLeftBehind ==
    faults = 0 /\ config.requiresApproval /\ config.mapped # {} /\ Quiet =>
        \A r \in Runs : status[r] \notin {"approved", "processing"}

\* PAYROLL_GUIDE.md:38: "All transfers have been successfully completed."
CompletedMeansPaid ==
    \A r \in Runs : status[r] = "completed" => {<<r, e>> : e \in config.mapped} \subseteq remote

\* AmendPayrollRun "recalculates a draft payroll run with updated adjustments": what is sent
\* for a run has one item for each employee.
OneItemPerEmployee ==
    \A a \in Actors : \A i, j \in Items(a) : i.emp = j.emp => i = j
=============================================================================
