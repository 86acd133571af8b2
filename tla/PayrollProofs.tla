----------------------------- MODULE PayrollProofs -----------------------------
(***************************************************************************)
(* Theorems about Payroll, for every set of runs, employees, requests,     *)
(* business configurations and faults.                                     *)
(***************************************************************************)
EXTENDS Payroll, SumTheorems, TLAPS

(* Types *)

\* What an actor has in mind when a step relies on it.
InMind ==
    \A a \in Actors :
        /\ pc[a] \in {"b_record", "b_rollback"} => mem[a].item \in RunEntry
        /\ pc[a] = "finish" => mem[a].verdict # "none"

ControlTyped ==
    /\ pc \in [Actors -> Labels]
    /\ retried \in [Actors -> 0 .. MaxRetry]
    /\ mem \in [Actors -> MemType]
    /\ faults \in 0 .. MaxFaults
    /\ InMind

Typed == TypeOK /\ InMind

\* The labels at which a step relies on nothing in mind.
Plain == Labels \ {"b_record", "b_rollback", "finish"}

\* What an actor works on.
LEMMA ActorTyped ==
    ASSUME TypeOK, NEW a \in Actors
    PROVE  /\ a[1] \in Calls
           /\ Run(a) \in Runs /\ Emp(a) \in Staff
           /\ mem[a] \in MemType
           /\ Items(a) \subseteq RunEntry
           /\ ItemRefs(a) \subseteq Refs
           /\ Job(a[1]) \in Actors
<1>1. a[1] \in Calls /\ Job(a[1]) \in Actors
    BY DEF Actors, Job
<1>2. req[a[1]] \in Requests
    BY <1>1 DEF TypeOK
<1>3. Run(a) \in Runs /\ Emp(a) \in Staff
    BY <1>2, PayrollAssumption DEF Run, Emp
<1>4. mem[a] \in MemType
    BY DEF TypeOK
<1>5. Items(a) \subseteq RunEntry
    BY <1>4 DEF Items, MemType
<1>6. ItemRefs(a) \subseteq Refs
    BY <1>3, <1>5 DEF ItemRefs, Ref, Refs, RunEntry
<1>7. QED
    BY <1>1, <1>3, <1>4, <1>5, <1>6

\* An actor with nothing in mind.
LEMMA IdleTyped == Idle \in MemType
    BY DEF Idle, MemType, NoLoan, LoanType, Answers

\* The counter of faults stays in its bound.
LEMMA FaultTyped ==
    ASSUME TypeOK, NEW kind, NoFault \/ Fault(kind)
    PROVE  faults' \in 0 .. MaxFaults
<1>1. MaxFaults \in Nat
    BY PayrollAssumption
<1>2. QED
    BY <1>1 DEF TypeOK, NoFault, Fault

\* An actor goes on with typed variables, or is done.
LEMMA GotoTyped ==
    ASSUME Typed, faults' \in 0 .. MaxFaults, NEW a \in Actors, NEW label \in Labels, NEW m \in MemType,
           label \in {"b_record", "b_rollback"} => m.item \in RunEntry,
           label = "finish" => m.verdict # "none",
           Goto(a, label, m)
    PROVE  ControlTyped'
<1>1. pc' = [pc EXCEPT ![a] = label] /\ UNCHANGED retried
    BY DEF Goto
<1>2. PICK n \in MemType : mem' = [mem EXCEPT ![a] = n] /\ (label # "done" => n = m)
    BY IdleTyped DEF Goto
<1>3. pc' \in [Actors -> Labels] /\ retried' \in [Actors -> 0 .. MaxRetry] /\ mem' \in [Actors -> MemType]
    BY <1>1, <1>2 DEF Typed, TypeOK
<1>4. pc'[a] = label /\ mem'[a] = n
    BY <1>1, <1>2 DEF Typed, TypeOK
<1>5. \A b \in Actors \ {a} : pc'[b] = pc[b] /\ mem'[b] = mem[b]
    BY <1>1, <1>2 DEF Typed, TypeOK
<1>6. InMind'
    BY <1>2, <1>4, <1>5 DEF Typed, InMind
<1>7. QED
    BY <1>3, <1>6 DEF ControlTyped

\* The same when it returns an error.
LEMMA FailTyped ==
    ASSUME Typed, faults' \in 0 .. MaxFaults, NEW a \in Actors, Fail(a)
    PROVE  ControlTyped'
<1>1. PICK label \in {"waiting", "done"} : pc' = [pc EXCEPT ![a] = label]
    BY DEF Fail
<1>2. label \in Labels
    BY DEF Labels, NotStarted
<1>3. mem' = [mem EXCEPT ![a] = Idle]
    BY DEF Fail
<1>4. retried' \in [Actors -> 0 .. MaxRetry]
  <2>1. MaxRetry \in Nat
      BY PayrollAssumption
  <2>2. CASE Retryable(a)
    <3>1. retried' = [retried EXCEPT ![a] = @ + 1] /\ retried[a] < MaxRetry
        BY <2>2 DEF Fail, Retryable
    <3>2. retried[a] + 1 \in 0 .. MaxRetry
        BY <2>1, <3>1 DEF Typed, TypeOK
    <3>3. QED
        BY <3>1, <3>2 DEF Typed, TypeOK
  <2>3. CASE ~Retryable(a)
      BY <2>3 DEF Fail, Typed, TypeOK
  <2>4. QED
      BY <2>2, <2>3
<1>5. pc' \in [Actors -> Labels] /\ mem' \in [Actors -> MemType]
    BY <1>1, <1>2, <1>3, IdleTyped DEF Typed, TypeOK
<1>6. \A b \in Actors : pc'[b] = IF b = a THEN label ELSE pc[b]
    BY <1>1 DEF Typed, TypeOK
<1>7. \A b \in Actors \ {a} : mem'[b] = mem[b]
    BY <1>3 DEF Typed, TypeOK
<1>8. InMind'
    BY <1>1, <1>6, <1>7 DEF Typed, InMind
<1>9. QED
    BY <1>4, <1>5, <1>8 DEF ControlTyped

\* A plain read of the run.
LEMMA FindTyped ==
    ASSUME Typed, NEW a \in Actors, NEW labels, NEW wanted, NEW next \in Plain, NEW m \in MemType,
           Find(a, labels, wanted, next, m)
    PROVE  Typed'
<1>1. faults' \in 0 .. MaxFaults
    BY FaultTyped DEF Find, Typed
<1>2. next \in Labels /\ next \notin {"b_record", "b_rollback", "finish"}
    BY DEF Plain
<1>3. ControlTyped'
    BY <1>1, <1>2, GotoTyped, FailTyped DEF Find
<1>4. UNCHANGED <<walletVars, config, runVars, payVars, loans, req, history>>
    BY DEF Find
<1>5. QED
    BY <1>3, <1>4 DEF Typed, TypeOK, ControlTyped, walletVars, runVars, payVars, history

\* A save of the run, after which the actor is at a plain label.
LEMMA SaveTyped ==
    ASSUME Typed, NEW a \in Actors, NEW new \in Statuses, NEW next \in Plain,
           SaveRun(a, new, next)
    PROVE  /\ status' \in [Runs -> Statuses]
           /\ ControlTyped'
<1>1. faults' \in 0 .. MaxFaults
    BY FaultTyped DEF SaveRun, Saved, NotSaved, Typed
<1>2. next \in Labels /\ next \notin {"b_record", "b_rollback", "finish"} /\ mem[a] \in MemType
    BY ActorTyped DEF Plain, Typed
<1>3. ControlTyped'
    BY <1>1, <1>2, GotoTyped, FailTyped DEF SaveRun, Saved, NotSaved
<1>4. status' \in [Runs -> Statuses]
    BY DEF SaveRun, Saved, NotSaved, Typed, TypeOK
<1>5. QED
    BY <1>3, <1>4

\* The scheduling of a job.
LEMMA ScheduleTyped ==
    ASSUME Typed, NEW a \in Actors, NEW next \in Plain, NEW other \in Plain,
           SchedulePayout(a, next, other)
    PROVE  ControlTyped'
<1>1. faults' \in 0 .. MaxFaults
    BY FaultTyped DEF SchedulePayout, Typed
<1>2. UNCHANGED <<retried, mem>>
    BY DEF SchedulePayout
<1>3. /\ "waiting" \in Plain
      /\ Plain \subseteq Labels /\ \A l \in Plain : l \notin {"b_record", "b_rollback", "finish"}
    BY DEF Plain, Labels, NotStarted
<1>4. PICK l \in Plain :
          pc' = [pc EXCEPT ![a] = l] \/ pc' = [pc EXCEPT ![a] = l, ![Job(a[1])] = "waiting"]
    BY DEF SchedulePayout
<1>5. \A b \in Actors : pc'[b] = pc[b] \/ pc'[b] \in Plain
    BY <1>3, <1>4 DEF Typed, TypeOK
<1>6. pc' \in [Actors -> Labels]
  <2>1. DOMAIN pc' = Actors /\ pc' = [b \in Actors |-> pc'[b]]
      BY <1>4 DEF Typed, TypeOK
  <2>2. QED
      BY <1>3, <1>5, <2>1 DEF Typed, TypeOK
<1>7. InMind'
    BY <1>2, <1>3, <1>5 DEF Typed, InMind
<1>8. QED
    BY <1>1, <1>2, <1>6, <1>7 DEF ControlTyped, Typed, TypeOK

\* An approval is counted, or another event of a run.
LEMMA CountTyped ==
    ASSUME NEW counter, NEW next, NEW r \in Runs, counter \in [Runs -> Nat],
           next = [counter EXCEPT ![r] = @ + 1]
    PROVE  next \in [Runs -> Nat]
    OBVIOUS

\* The requests on a run: submission, approval, rejection, amendment, reversal.
LEMMA StatusChangeTyped ==
    ASSUME Typed, NEW a \in Actors, StatusChange(a)
    PROVE  Typed'
<1> USE DEF walletVars, runVars, payVars, history
<1>1. Run(a) \in Runs /\ mem[a] \in MemType /\ Idle \in MemType
    BY ActorTyped, IdleTyped DEF Typed
<1>2. /\ {"s_pending", "p_find", "s_schedule", "s_approved", "a_save", "a_schedule", "a_revert"} \subseteq Plain
      /\ {"r_save", "m_save", "v_save", "done"} \subseteq Plain
    BY DEF Plain, Labels, NotStarted
<1>3. {"draft", "pending_approval", "approved", "rejected"} \subseteq Statuses
    BY DEF Statuses
<1>4. CASE \/ SubmitForApproval(a) \/ ApprovePayrollRun(a) \/ RejectPayrollRun(a)
           \/ AmendPayrollRun(a) \/ ReversePayrollRun(a)
    BY <1>1, <1>2, <1>4, FindTyped
       DEF SubmitForApproval, ApprovePayrollRun, RejectPayrollRun, AmendPayrollRun, ReversePayrollRun
<1>5. CASE SubmitSchedule(a) \/ ApproveSchedule(a)
  <2>1. ControlTyped'
      BY <1>2, <1>5, ScheduleTyped DEF SubmitSchedule, ApproveSchedule
  <2>2. UNCHANGED <<walletVars, config, runVars, payVars, loans, req, history>>
      BY <1>5 DEF SubmitSchedule, ApproveSchedule
  <2>3. QED
      BY <2>1, <2>2 DEF Typed, TypeOK, ControlTyped
<1>6. CASE ApproveRevert(a) \/ RejectSave(a) \/ ReverseSave(a)
  <2>1. status' \in [Runs -> Statuses] /\ ControlTyped'
      BY <1>2, <1>3, <1>6, SaveTyped DEF ApproveRevert, RejectSave, ReverseSave
  <2>2. UNCHANGED <<walletVars, config, entries, payVars, loans, req, history>>
      BY <1>6 DEF ApproveRevert, RejectSave, ReverseSave
  <2>3. QED
      BY <2>1, <2>2 DEF Typed, TypeOK, ControlTyped
<1>7. CASE SubmitSave(a) \/ ApproveSave(a)
  <2>1. status' \in [Runs -> Statuses] /\ ControlTyped'
      BY <1>2, <1>3, <1>7, SaveTyped DEF SubmitSave, ApproveSave, SaveRun
  <2>2. grants' \in [Runs -> Nat]
      BY <1>1, <1>7, CountTyped DEF SubmitSave, ApproveSave, Count, Typed, TypeOK
  <2>3. UNCHANGED <<walletVars, config, entries, payVars, loans, req, batches, completions>>
      BY <1>7 DEF SubmitSave, ApproveSave
  <2>4. QED
      BY <2>1, <2>2, <2>3 DEF Typed, TypeOK, ControlTyped
<1>8. CASE AmendSave(a)
  <2>1. status' \in [Runs -> Statuses] /\ ControlTyped'
      BY <1>2, <1>3, <1>8, SaveTyped DEF AmendSave, SaveRun
  <2>2. entries' \in [Runs -> SUBSET RunEntry]
    <3>1. PICK version \in 1 .. MaxAmends, pay \in [Staff -> Pays] :
              \/ entries' = [entries EXCEPT ![Run(a)] =
                     @ \cup {[emp |-> e, version |-> version, pay |-> pay[e]] : e \in Staff}]
              \/ UNCHANGED entries
        BY <1>8 DEF AmendSave
    <3>2. MaxAmends \in Nat
        BY PayrollAssumption
    <3>3. {[emp |-> e, version |-> version, pay |-> pay[e]] : e \in Staff} \subseteq RunEntry
        BY <3>2 DEF RunEntry
    <3>4. QED
        BY <1>1, <3>1, <3>3 DEF Typed, TypeOK
  <2>3. UNCHANGED <<walletVars, config, payVars, loans, req, history>>
      BY <1>8 DEF AmendSave
  <2>4. QED
      BY <2>1, <2>2, <2>3 DEF Typed, TypeOK, ControlTyped
<1>9. QED
    BY <1>4, <1>5, <1>6, <1>7, <1>8 DEF StatusChange

\* A job, or an immediate request, up to the batch.
LEMMA ProcessingTyped ==
    ASSUME Typed, NEW a \in Actors,
           \/ ProcessApprovedPayroll(a) \/ ProcessPayrollRunInstantly(a) \/ StartProcessing(a)
           \/ VerifyTransfers(a) \/ FinishRun(a)
    PROVE  Typed'
<1> USE DEF walletVars, runVars, payVars, history
<1>1. Run(a) \in Runs /\ mem[a] \in MemType /\ Idle \in MemType
    BY ActorTyped, IdleTyped DEF Typed
<1>2. {"p_find", "p_start", "b_create", "verify", "l_find", "done"} \subseteq Plain
    BY DEF Plain, Labels, NotStarted
<1>3. \A l \in Plain : l \in Labels /\ l \notin {"b_record", "b_rollback", "finish"}
    BY DEF Plain
<1>4. CASE ProcessApprovedPayroll(a)
  <2>1. faults' \in 0 .. MaxFaults
      BY <1>4, FaultTyped DEF ProcessApprovedPayroll, Typed
  <2>2. ControlTyped'
      BY <1>1, <1>2, <1>3, <1>4, <2>1, GotoTyped, FailTyped DEF ProcessApprovedPayroll
  <2>3. UNCHANGED <<walletVars, config, runVars, payVars, loans, req, history>>
      BY <1>4 DEF ProcessApprovedPayroll
  <2>4. QED
      BY <2>2, <2>3 DEF Typed, TypeOK, ControlTyped
<1>5. CASE ProcessPayrollRunInstantly(a)
  <2>1. entries[Run(a)] \in SUBSET RunEntry
      BY <1>1 DEF Typed, TypeOK
  <2>2. [Idle EXCEPT !.entries = entries[Run(a)]] \in MemType
      BY <1>1, <2>1 DEF MemType
  <2>3. QED
      BY <1>2, <1>5, <2>2, FindTyped DEF ProcessPayrollRunInstantly
<1>6. CASE StartProcessing(a)
  <2>1. "processing" \in Statuses
      BY DEF Statuses
  <2>2. status' \in [Runs -> Statuses] /\ ControlTyped'
    <3>1. CASE Items(a) # {}
        BY <1>2, <1>6, <2>1, <3>1, SaveTyped DEF StartProcessing
    <3>2. CASE Items(a) = {}
      <4>1. faults' \in 0 .. MaxFaults
          BY <1>6, <3>2, FaultTyped DEF StartProcessing, NotSaved, Typed
      <4>2. Fail(a)
          BY <1>6, <3>2 DEF StartProcessing, NotSaved
      <4>3. status' \in [Runs -> Statuses]
          BY <1>6, <2>1, <3>2 DEF StartProcessing, NotSaved, Typed, TypeOK
      <4>4. QED
          BY <4>1, <4>2, <4>3, FailTyped
    <3>3. QED
        BY <3>1, <3>2
  <2>3. UNCHANGED <<walletVars, config, entries, payVars, loans, req, history>>
      BY <1>6 DEF StartProcessing
  <2>4. QED
      BY <2>2, <2>3 DEF Typed, TypeOK, ControlTyped
<1>7. CASE VerifyTransfers(a)
  <2>1. faults' \in 0 .. MaxFaults
      BY <1>7, FaultTyped DEF VerifyTransfers, Typed
  <2>2. PICK verdict \in {"completed", "failed"} :
            Goto(a, "finish", [mem[a] EXCEPT !.verdict = verdict])
      BY <1>7 DEF VerifyTransfers
  <2>3. /\ [mem[a] EXCEPT !.verdict = verdict] \in MemType
        /\ [mem[a] EXCEPT !.verdict = verdict].verdict # "none"
      BY <1>1 DEF MemType
  <2>4. "finish" \in Labels
      BY DEF Labels
  <2>5. ControlTyped'
      BY <2>1, <2>2, <2>3, <2>4, GotoTyped
  <2>6. UNCHANGED <<walletVars, config, runVars, payVars, loans, req, history>>
      BY <1>7 DEF VerifyTransfers
  <2>7. QED
      BY <2>5, <2>6 DEF Typed, TypeOK, ControlTyped
<1>8. CASE FinishRun(a)
  <2>1. faults' \in 0 .. MaxFaults
      BY <1>8, FaultTyped DEF FinishRun, NotSaved, Typed
  <2>2. [mem[a] EXCEPT !.todo = Repaying(a)] \in MemType
      BY <1>1 DEF MemType, Repaying
  <2>3. ControlTyped'
    <3>1. CASE Fail(a)
        BY <2>1, <3>1, FailTyped
    <3>2. CASE \E next \in {"l_find", "done"} : Goto(a, next, [mem[a] EXCEPT !.todo = Repaying(a)])
        BY <1>2, <1>3, <2>1, <2>2, <3>2, GotoTyped
    <3>3. QED
        BY <1>8, <3>1, <3>2 DEF FinishRun, NotSaved
  <2>4. status' \in [Runs -> Statuses]
    <3>1. mem[a].verdict \in {"completed", "failed"}
        BY <1>1, <1>8 DEF FinishRun, Typed, InMind, MemType
    <3>2. mem[a].verdict \in Statuses
        BY <3>1 DEF Statuses
    <3>3. QED
        BY <1>8, <3>2 DEF FinishRun, NotSaved, Typed, TypeOK
  <2>5. completions' \in [Runs -> Nat]
      BY <1>1, <1>8, CountTyped DEF FinishRun, Count, Typed, TypeOK
  <2>6. UNCHANGED <<walletVars, config, entries, payVars, loans, req, grants, batches>>
      BY <1>8 DEF FinishRun
  <2>7. QED
      BY <2>3, <2>4, <2>5, <2>6 DEF Typed, TypeOK, ControlTyped
<1>9. QED
    BY <1>4, <1>5, <1>6, <1>7, <1>8

\* The next item of the batch is taken up, or none is left and the transfers are verified.
LEMMA ItemDoneTyped ==
    ASSUME Typed, faults' \in 0 .. MaxFaults, NEW a \in Actors, NEW i, ItemDone(a, i)
    PROVE  ControlTyped'
<1>1. mem[a] \in MemType /\ Idle \in MemType
    BY ActorTyped, IdleTyped DEF Typed
<1>2. /\ {"b_charge", "verify"} \subseteq Labels
      /\ \A l \in {"b_charge", "verify"} : l \notin {"b_record", "b_rollback", "finish"}
    BY DEF Labels
<1>3. CASE mem[a].todo \ {i} # {}
  <2>1. [mem[a] EXCEPT !.todo = mem[a].todo \ {i}, !.item = NoEntry] \in MemType
      BY <1>1 DEF MemType
  <2>2. QED
      BY <1>2, <1>3, <2>1, GotoTyped DEF ItemDone
<1>4. CASE mem[a].todo \ {i} = {}
  <2>1. \A all \in BOOLEAN : [Idle EXCEPT !.entries = mem[a].entries, !.all = all] \in MemType
      BY <1>1 DEF MemType
  <2>2. PICK all \in BOOLEAN : Goto(a, "verify", [Idle EXCEPT !.entries = mem[a].entries, !.all = all])
      BY <1>4 DEF ItemDone
  <2>3. QED
      BY <1>2, <2>1, <2>2, GotoTyped
<1>5. QED
    BY <1>3, <1>4

\* An amount in kobo is a number.
LEMMA KoboTyped == \A i \in RunEntry : Kobo(i.pay) \in Nat
<1>1. \A pay \in Pays : pay \in Nat
    BY PayrollAssumption
<1>2. \A i \in RunEntry : i.pay \in Nat
    BY <1>1 DEF RunEntry
<1>3. QED
    BY <1>2 DEF Kobo

\* The batch transfer: its rows, its submission, its records and its completion.
LEMMA BatchTyped ==
    ASSUME Typed, NEW a \in Actors, ExecuteBatchTransfer(a)
    PROVE  Typed'
<1> USE DEF walletVars, runVars, payVars, history
<1>1. /\ Run(a) \in Runs /\ mem[a] \in MemType
      /\ Items(a) \subseteq RunEntry /\ ItemRefs(a) \subseteq Refs
      /\ \A i \in RunEntry : Ref(a, i) \in Refs
    BY ActorTyped DEF Typed, Ref, Refs, RunEntry
<1>2. /\ {"b_send", "verify", "b_charge", "b_update", "done"} \subseteq Plain
      /\ {"b_record", "b_rollback"} \subseteq Labels
    BY DEF Plain, Labels, NotStarted
<1>3. \A l \in Plain : l \in Labels /\ l \notin {"b_record", "b_rollback", "finish"}
    BY DEF Plain
<1>4. CASE CreateBatch(a)
  <2>1. faults' \in 0 .. MaxFaults
      BY <1>4, FaultTyped DEF CreateBatch, Typed
  <2>2. [mem[a] EXCEPT !.stored = TRUE] \in MemType
      BY <1>1 DEF MemType
  <2>3. ControlTyped'
      BY <1>1, <1>2, <1>3, <1>4, <2>1, <2>2, GotoTyped DEF CreateBatch
  <2>4. transfers' \subseteq Refs
      BY <1>1, <1>4 DEF CreateBatch, Typed, TypeOK
  <2>5. UNCHANGED <<walletVars, config, runVars, remote, loans, req, history>>
      BY <1>4 DEF CreateBatch
  <2>6. QED
      BY <2>3, <2>4, <2>5 DEF Typed, TypeOK, ControlTyped
<1>5. CASE InitiateBulkTransfer(a)
  <2>1. faults' \in 0 .. MaxFaults
      BY <1>5, FaultTyped DEF InitiateBulkTransfer, Typed
  <2>2. PICK taken \in SUBSET (ItemRefs(a) \ remote) :
            /\ remote' = remote \cup taken
            /\ \/ Goto(a, "verify", mem[a])
               \/ \E answers \in [Staff -> Answers], next \in {"b_charge", "b_update"} :
                     Goto(a, next, [mem[a] EXCEPT !.answers = answers, !.todo = Items(a)])
      BY <1>5 DEF InitiateBulkTransfer, Answered
  <2>3. \A answers \in [Staff -> Answers] :
            [mem[a] EXCEPT !.answers = answers, !.todo = Items(a)] \in MemType
      BY <1>1 DEF MemType
  <2>4. ControlTyped'
      BY <1>1, <1>2, <1>3, <2>1, <2>2, <2>3, GotoTyped
  <2>5. remote' \subseteq Refs
      BY <1>1, <2>2 DEF Typed, TypeOK
  <2>6. batches' \in [Runs -> Nat]
    <3>1. Count(batches, Run(a))
        BY <1>5 DEF InitiateBulkTransfer
    <3>2. QED
        BY <1>1, <3>1, CountTyped DEF Count, Typed, TypeOK
  <2>7. UNCHANGED <<walletVars, config, runVars, transfers, loans, req, grants, completions>>
      BY <1>5 DEF InitiateBulkTransfer
  <2>8. QED
      BY <2>4, <2>5, <2>6, <2>7 DEF Typed, TypeOK, ControlTyped
<1>6. CASE UpdateRecord(a)
  <2>1. faults' \in 0 .. MaxFaults
      BY <1>6, FaultTyped DEF UpdateRecord, Typed
  <2>2. PICK i \in mem[a].todo :
            /\ transfers' = transfers \cup {Ref(a, i)} \/ UNCHANGED transfers
            /\ \/ Goto(a, "b_update", [mem[a] EXCEPT !.todo = mem[a].todo \ {i}])
               \/ Goto(a, "b_charge", [mem[a] EXCEPT !.todo = Items(a)])
      BY <1>6 DEF UpdateRecord
  <2>3. i \in RunEntry
      BY <1>1 DEF MemType
  <2>4. \A S \in SUBSET RunEntry : [mem[a] EXCEPT !.todo = S] \in MemType
      BY <1>1 DEF MemType
  <2>5. mem[a].todo \ {i} \in SUBSET RunEntry
      BY <1>1 DEF MemType
  <2>6. ControlTyped'
      BY <1>1, <1>2, <1>3, <2>1, <2>2, <2>4, <2>5, GotoTyped
  <2>7. transfers' \subseteq Refs
      BY <1>1, <2>2, <2>3 DEF Typed, TypeOK
  <2>8. UNCHANGED <<walletVars, config, runVars, remote, loans, req, history>>
      BY <1>6 DEF UpdateRecord
  <2>9. QED
      BY <2>6, <2>7, <2>8 DEF Typed, TypeOK, ControlTyped
<1>7. CASE ChargeItem(a)
  <2>1. faults' \in 0 .. MaxFaults
      BY <1>7, FaultTyped DEF ChargeItem, Typed
  <2>2. PICK i \in mem[a].todo :
            /\ \/ DecrementBalanceAndLocked(Kobo(i.pay), Kobo(i.pay))
               \/ DecrementLocked(Kobo(i.pay))
               \/ UNCHANGED walletVars
            /\ Goto(a, "b_record", [mem[a] EXCEPT !.item = i]) \/ ItemDone(a, i)
      BY <1>7 DEF ChargeItem
  <2>3. i \in RunEntry
      BY <1>1 DEF MemType
  <2>4. [mem[a] EXCEPT !.item = i] \in MemType /\ [mem[a] EXCEPT !.item = i].item = i
      BY <1>1, <2>3 DEF MemType
  <2>5. ControlTyped'
      BY <1>2, <2>1, <2>2, <2>3, <2>4, GotoTyped, ItemDoneTyped
  <2>6. balance' \in Nat /\ locked' \in Nat /\ UNCHANGED txs
    <3>1. balance \in Nat /\ locked \in Nat /\ Kobo(i.pay) \in Nat
        BY <2>3, KoboTyped DEF Typed, TypeOK
    <3>2. QED
        BY <2>2, <3>1 DEF DecrementBalanceAndLocked, DecrementLocked, AtLeastZero
  <2>7. UNCHANGED <<config, runVars, payVars, loans, req, history>>
      BY <1>7 DEF ChargeItem
  <2>8. QED
      BY <2>5, <2>6, <2>7 DEF Typed, TypeOK, ControlTyped
<1>8. CASE RecordItem(a)
  <2>1. faults' \in 0 .. MaxFaults
      BY <1>8, FaultTyped DEF RecordItem, Typed
  <2>2. mem[a].item \in RunEntry
      BY <1>8 DEF RecordItem, Typed, InMind
  <2>3. ControlTyped'
      BY <1>1, <1>2, <1>8, <2>1, <2>2, GotoTyped, ItemDoneTyped DEF RecordItem
  <2>4. balance' \in Nat /\ locked' \in Nat /\ txs' \in [Refs -> [amount : Nat] \cup {NoTx}]
    <3>1. [amount |-> Kobo(mem[a].item.pay)] \in [amount : Nat]
        BY <2>2, KoboTyped
    <3>2. QED
        BY <1>8, <3>1 DEF RecordItem, CreateTransaction, Typed, TypeOK
  <2>5. UNCHANGED <<config, runVars, payVars, loans, req, history>>
      BY <1>8 DEF RecordItem
  <2>6. QED
      BY <2>3, <2>4, <2>5 DEF Typed, TypeOK, ControlTyped
<1>9. CASE RollbackItem(a)
  <2>1. faults' \in 0 .. MaxFaults
      BY <1>9, FaultTyped DEF RollbackItem, Typed
  <2>2. mem[a].item \in RunEntry
      BY <1>9 DEF RollbackItem, Typed, InMind
  <2>3. ControlTyped'
      BY <1>9, <2>1, ItemDoneTyped DEF RollbackItem
  <2>4. balance' \in Nat /\ UNCHANGED <<locked, txs>>
    <3>1. balance \in Nat /\ Kobo(mem[a].item.pay) \in Nat
        BY <2>2, KoboTyped DEF Typed, TypeOK
    <3>2. QED
        BY <1>9, <3>1 DEF RollbackItem, IncrementBalance
  <2>5. UNCHANGED <<config, runVars, payVars, loans, req, history>>
      BY <1>9 DEF RollbackItem
  <2>6. QED
      BY <2>3, <2>4, <2>5 DEF Typed, TypeOK, ControlTyped
<1>10. QED
    BY <1>4, <1>5, <1>6, <1>7, <1>8, <1>9 DEF ExecuteBatchTransfer

\* A loan after a deduction.
LEMMA RepayTyped == \A loan \in LoanType : Repay(loan) \in LoanType
<1> SUFFICES ASSUME NEW loan \in LoanType PROVE Repay(loan) \in LoanType
    OBVIOUS
<1>1. loan.remaining \in Nat /\ loan.repaid \in Nat
      /\ loan.status \in {"none", "active", "completed", "cancelled"} /\ Monthly \in Nat
    BY PayrollAssumption DEF LoanType
<1>2. PICK amount \in Nat : amount <= loan.remaining /\ amount = Smaller(Monthly, loan.remaining)
    BY <1>1 DEF Smaller
<1>3. loan.remaining - amount \in Nat /\ loan.repaid + amount \in Nat
    BY <1>1, <1>2
<1>4. QED
    BY <1>1, <1>2, <1>3 DEF Repay, LoanType

\* The deductions for the loans.
LEMMA LoanTyped ==
    ASSUME Typed, NEW a \in Actors, LoanStep(a)
    PROVE  Typed'
<1> USE DEF walletVars, runVars, payVars, history
<1>1. mem[a] \in MemType /\ Idle \in MemType /\ NoLoan \in LoanType /\ mem[a].loan \in LoanType
    BY ActorTyped, IdleTyped DEF Typed, NoLoan, LoanType, MemType
<1>2. /\ {"l_find", "l_save", "c_save", "done"} \subseteq Labels
      /\ \A l \in {"l_find", "l_save", "c_save", "done"} : l \notin {"b_record", "b_rollback", "finish"}
    BY DEF Labels, NotStarted
<1>3. \A S \in SUBSET RunEntry, loan \in LoanType, i \in RunEntry \cup {NoEntry} :
          /\ [mem[a] EXCEPT !.todo = S, !.item = i, !.loan = loan] \in MemType
          /\ [mem[a] EXCEPT !.item = i, !.loan = loan] \in MemType
          /\ [Idle EXCEPT !.loan = loan] \in MemType
    BY <1>1 DEF MemType
<1>4. \A i : LoanDone(a, i) /\ faults' \in 0 .. MaxFaults => ControlTyped'
  <2> SUFFICES ASSUME NEW i, LoanDone(a, i), faults' \in 0 .. MaxFaults PROVE ControlTyped'
      OBVIOUS
  <2>1. mem[a].todo \ {i} \in SUBSET RunEntry
      BY <1>1 DEF MemType
  <2>2. [mem[a] EXCEPT !.todo = mem[a].todo \ {i}, !.item = NoEntry, !.loan = NoLoan] \in MemType
      BY <1>1, <1>3, <2>1
  <2>3. QED
      BY <1>2, <2>2, GotoTyped DEF LoanDone
<1>5. CASE FindLoan(a)
  <2>1. faults' \in 0 .. MaxFaults
      BY <1>5, FaultTyped DEF FindLoan, Typed
  <2>2. PICK i \in mem[a].todo :
            \/ Goto(a, "l_save", [mem[a] EXCEPT !.item = i, !.loan = loans[i.emp]])
            \/ LoanDone(a, i)
      BY <1>5 DEF FindLoan
  <2>3. i \in RunEntry
      BY <1>1 DEF MemType
  <2>4. loans[i.emp] \in LoanType
      BY <2>3 DEF RunEntry, Typed, TypeOK
  <2>5. ControlTyped'
      BY <1>2, <1>3, <1>4, <2>1, <2>2, <2>3, <2>4, GotoTyped
  <2>6. UNCHANGED <<walletVars, config, runVars, payVars, loans, req, history>>
      BY <1>5 DEF FindLoan
  <2>7. QED
      BY <2>5, <2>6 DEF Typed, TypeOK, ControlTyped
<1>6. CASE SaveLoan(a)
  <2>1. faults' \in 0 .. MaxFaults
      BY <1>6, FaultTyped DEF SaveLoan, Typed
  <2>2. ControlTyped'
      BY <1>4, <1>6, <2>1 DEF SaveLoan
  <2>3. loans' \in [Staff -> LoanType]
      BY <1>1, <1>6, RepayTyped DEF SaveLoan, Typed, TypeOK
  <2>4. UNCHANGED <<walletVars, config, runVars, payVars, req, history>>
      BY <1>6 DEF SaveLoan
  <2>5. QED
      BY <2>2, <2>3, <2>4 DEF Typed, TypeOK, ControlTyped
<1>7. CASE FindLoanToCancel(a)
  <2>1. faults' \in 0 .. MaxFaults
      BY <1>7, FaultTyped DEF FindLoanToCancel, Typed
  <2>2. loans[Emp(a)] \in LoanType
      BY ActorTyped DEF Typed, TypeOK
  <2>3. ControlTyped'
      BY <1>2, <1>3, <1>7, <2>1, <2>2, GotoTyped, FailTyped DEF FindLoanToCancel
  <2>4. UNCHANGED <<walletVars, config, runVars, payVars, loans, req, history>>
      BY <1>7 DEF FindLoanToCancel
  <2>5. QED
      BY <2>3, <2>4 DEF Typed, TypeOK, ControlTyped
<1>8. CASE CancelLoan(a)
  <2>1. faults' \in 0 .. MaxFaults
      BY <1>8, FaultTyped DEF CancelLoan, Typed
  <2>2. ControlTyped'
      BY <1>1, <1>2, <1>8, <2>1, GotoTyped DEF CancelLoan
  <2>3. [mem[a].loan EXCEPT !.status = "cancelled"] \in LoanType
      BY <1>1 DEF LoanType
  <2>4. loans' \in [Staff -> LoanType]
      BY <1>8, <2>3 DEF CancelLoan, Typed, TypeOK
  <2>5. UNCHANGED <<walletVars, config, runVars, payVars, req, history>>
      BY <1>8 DEF CancelLoan
  <2>6. QED
      BY <2>2, <2>4, <2>5 DEF Typed, TypeOK, ControlTyped
<1>9. QED
    BY <1>5, <1>6, <1>7, <1>8 DEF LoanStep

\* A restart, after which jobs are run again.
LEMMA CrashTyped ==
    ASSUME Typed, Crash
    PROVE  Typed'
<1> USE DEF walletVars, runVars, payVars, history
<1>1. faults' \in 0 .. MaxFaults
    BY FaultTyped DEF Crash, Typed
<1>2. \A a \in Actors : pc'[a] \in Labels /\ pc'[a] \notin {"b_record", "b_rollback", "finish"}
    BY DEF Crash, Typed, TypeOK, Labels, NotStarted, Ops
<1>3. \A a \in Actors : retried'[a] \in 0 .. MaxRetry
  <2>1. MaxRetry \in Nat
      BY PayrollAssumption
  <2>2. QED
      BY <2>1 DEF Crash, Retryable, Typed, TypeOK
<1>4. pc' \in [Actors -> Labels] /\ retried' \in [Actors -> 0 .. MaxRetry] /\ mem' \in [Actors -> MemType]
    BY <1>2, <1>3, IdleTyped DEF Crash
<1>5. InMind'
    BY <1>2 DEF InMind
<1>6. UNCHANGED <<walletVars, config, runVars, payVars, loans, req, history>>
    BY DEF Crash
<1>7. QED
    BY <1>1, <1>4, <1>5, <1>6 DEF Typed, TypeOK

\* The initial states are typed.
LEMMA InitTyped == Init => Typed
<1> SUFFICES ASSUME Init PROVE Typed
    OBVIOUS
<1>1. /\ balance \in Nat /\ locked \in Nat /\ faults \in 0 .. MaxFaults
      /\ txs \in [Refs -> [amount : Nat] \cup {NoTx}]
      /\ config \in Configs /\ transfers \subseteq Refs /\ remote \subseteq Refs
      /\ grants \in [Runs -> Nat] /\ batches \in [Runs -> Nat] /\ completions \in [Runs -> Nat]
      /\ req \in [Calls -> Requests]
    BY PayrollAssumption DEF Init
<1>2. status \in [Runs -> Statuses]
    BY DEF Init, Statuses
<1>3. entries \in [Runs -> SUBSET RunEntry]
  <2>1. PICK pay \in [Runs -> [Staff -> Pays]] :
            entries = [r \in Runs |-> {[emp |-> e, version |-> 0, pay |-> pay[r][e]] : e \in Staff}]
      BY DEF Init
  <2>2. \A r \in Runs, e \in Staff : [emp |-> e, version |-> 0, pay |-> pay[r][e]] \in RunEntry
    <3>1. \A r \in Runs, e \in Staff : pay[r][e] \in Pays
        BY <2>1
    <3>2. 0 \in 0 .. MaxAmends
        BY PayrollAssumption
    <3>3. QED
        BY <3>1, <3>2 DEF RunEntry
  <2>3. QED
      BY <2>1, <2>2
<1>4. loans \in [Staff -> LoanType]
  <2>1. [status |-> "active", remaining |-> Principal, repaid |-> 0] \in LoanType /\ NoLoan \in LoanType
      BY PayrollAssumption DEF LoanType, NoLoan
  <2>2. QED
      BY <2>1 DEF Init
<1>5. \A a \in Actors : pc[a] \in Ops \cup {"unscheduled"}
  <2>1. \A a \in Actors : a[1] \in Calls
      BY DEF Actors
  <2>2. \A c \in Calls : req[c].op \in Ops
      BY <1>1, PayrollAssumption
  <2>3. QED
      BY <2>1, <2>2 DEF Init
<1>6. pc \in [Actors -> Labels]
    BY <1>5 DEF Init, Labels, NotStarted
<1>7. retried \in [Actors -> 0 .. MaxRetry] /\ mem \in [Actors -> MemType]
    BY IdleTyped, PayrollAssumption DEF Init
<1>8. InMind
    BY <1>5 DEF InMind, Ops
<1>9. QED
    BY <1>1, <1>2, <1>3, <1>4, <1>6, <1>7, <1>8 DEF Typed, TypeOK

\* Every step keeps the types.
LEMMA NextTyped == Typed /\ [Next]_vars => Typed'
<1> SUFFICES ASSUME Typed, [Next]_vars PROVE Typed'
    OBVIOUS
<1>1. CASE \E a \in Actors : Step(a)
    BY <1>1, StatusChangeTyped, ProcessingTyped, BatchTyped, LoanTyped DEF Step, Processing
<1>2. CASE Crash
    BY <1>2, CrashTyped
<1>3. CASE UNCHANGED vars
    BY <1>3 DEF vars, walletVars, runVars, payVars, history, control, Typed, TypeOK, InMind
<1>4. QED
    BY <1>1, <1>2, <1>3 DEF Next

\* Every variable keeps its type (TypeOK), for any runs, staff, requests, configurations and faults.
THEOREM TypeCorrect == Spec => []TypeOK
<1>1. Init => Typed
    BY InitTyped
<1>2. Typed /\ [Next]_vars => Typed'
    BY NextTyped
<1>3. Typed => TypeOK
    BY DEF Typed
<1>4. QED
    BY <1>1, <1>2, <1>3, PTL DEF Spec

-----------------------------------------------------------------------------
(* Approvals and payouts *)

\* A run that only an approval leads to a payout.
Gated(r) == config.requiresApproval /\ Immediate(r) = {}

\* From the approval to the sending of the batch.
Sending == {"b_create", "b_send"}
Ahead == {"a_schedule", "p_find", "p_start"} \cup Sending

\* The actors that may still send a batch: a job may be run again from wherever it is.
Live(a) == pc[a] \in Ahead \/ (IsJob(a) /\ pc[a] \notin {"unscheduled", "done"})

\* Only requests begin operations, their own, only jobs wait to be run, and where approval
\* is required nothing is approved by its submission.
OwnPath ==
    \A a \in Actors :
        /\ pc[a] \in Ops => a[2] = "request" /\ req[a[1]].op = pc[a]
        /\ pc[a] = "waiting" => IsJob(a)
        /\ config.requiresApproval => pc[a] \notin {"s_schedule", "s_approved"}

\* What one approval of a run allows.
Licensed(r) ==
    /\ \A a, b \in Actors : Run(a) = r /\ Run(b) = r /\ Live(a) /\ Live(b) => a = b
    /\ grants[r] = 0 => batches[r] = 0 /\ \A a \in Actors : Run(a) = r => ~Live(a)
    /\ batches[r] <= 1
    /\ batches[r] = 1 => status[r] # "approved" /\ \A a \in Actors : Run(a) = r => pc[a] \notin Ahead
    /\ \A a \in Actors : Run(a) = r /\ pc[a] \in Sending => status[r] # "approved"

OnePayout == \A r \in Runs : Gated(r) /\ grants[r] <= 1 => Licensed(r)

PayoutInv == Typed /\ OwnPath /\ OnePayout

\* A request to process a run at once lifts its gate.
LEMMA ImmediateLiftsGate ==
    ASSUME Typed, OwnPath, NEW a \in Actors, pc[a] = "process"
    PROVE  ~Gated(Run(a))
<1>1. a[1] \in Calls /\ req[a[1]].op = "process"
    BY ActorTyped DEF OwnPath, Ops, Typed
<1>2. QED
    BY <1>1 DEF Gated, Immediate, Run

\* A step that moves one actor and grants and sends nothing.
LEMMA MoveKeepsOnePayout ==
    ASSUME PayoutInv, NEW a \in Actors, NEW label,
           UNCHANGED <<req, config, grants, batches>>,
           pc' = [pc EXCEPT ![a] = label],
           \A r \in Runs : status'[r] = "approved" => status[r] = "approved",
           Gated(Run(a)) =>
               /\ label \in Ahead => pc[a] \in Ahead \/ (Live(a) /\ status[Run(a)] = "approved")
               /\ label \in Sending => pc[a] \in Sending \/ status'[Run(a)] # "approved"
               /\ IsJob(a) /\ label \notin {"unscheduled", "done"} => Live(a)
    PROVE  OnePayout'
<1> SUFFICES ASSUME NEW r \in Runs, Gated(r)', grants'[r] <= 1
             PROVE  Licensed(r)'
    BY DEF OnePayout
<1>1. Gated(r) /\ Licensed(r)
    BY DEF Gated, Immediate, PayoutInv, OnePayout
<1>2. \A b \in Actors : pc'[b] = IF b = a THEN label ELSE pc[b]
    BY DEF PayoutInv, Typed, TypeOK
<1>3. \A b \in Actors : (Run(b) = r)' <=> Run(b) = r
    BY DEF Run
<1>4. \A b \in Actors : Run(b) = r /\ Live(b)' => Live(b)
    BY <1>1, <1>2 DEF Live
<1>5. \A b \in Actors : Run(b) = r /\ pc'[b] \in Ahead =>
          pc[b] \in Ahead \/ status[r] = "approved"
    BY <1>1, <1>2
<1>6. \A b \in Actors : Run(b) = r /\ pc'[b] \in Sending => pc[b] \in Sending \/ status'[r] # "approved"
    BY <1>1, <1>2
<1>7. QED
    BY <1>1, <1>3, <1>4, <1>5, <1>6 DEF Licensed

\* An approval of a run gives one actor a license.
LEMMA GrantKeepsOnePayout ==
    ASSUME PayoutInv, NEW a \in Actors, NEW label,
           UNCHANGED <<req, config, batches>>,
           pc' = [pc EXCEPT ![a] = label], label \notin Sending,
           grants' = [grants EXCEPT ![Run(a)] = @ + 1],
           \A r \in Runs \ {Run(a)} : status'[r] = status[r]
    PROVE  OnePayout'
<1> SUFFICES ASSUME NEW r \in Runs, Gated(r)', grants'[r] <= 1
             PROVE  Licensed(r)'
    BY DEF OnePayout
<1>1. grants[r] \in Nat /\ batches[r] \in Nat
    BY DEF PayoutInv, Typed, TypeOK
<1>2. \A b \in Actors : pc'[b] = IF b = a THEN label ELSE pc[b]
    BY DEF PayoutInv, Typed, TypeOK
<1>3. \A b \in Actors : (Run(b) = r)' <=> Run(b) = r
    BY DEF Run
<1>4. CASE r = Run(a)
  <2>1. grants'[r] = grants[r] + 1
      BY <1>4 DEF PayoutInv, Typed, TypeOK
  <2>2. grants[r] = 0
      BY <1>1, <2>1
  <2>3. Licensed(r)
      BY <2>2 DEF Gated, Immediate, PayoutInv, OnePayout
  <2>4. batches[r] = 0 /\ \A b \in Actors : Run(b) = r => ~Live(b)
      BY <2>2, <2>3 DEF Licensed
  <2>5. \A b \in Actors : Run(b) = r /\ Live(b)' => b = a
      BY <1>2, <2>4 DEF Live
  <2>6. \A b \in Actors : Run(b) = r => pc'[b] \notin Sending
      BY <1>2, <2>4 DEF Live, Ahead
  <2>7. QED
      BY <1>1, <1>3, <2>1, <2>2, <2>4, <2>5, <2>6 DEF Licensed
<1>5. CASE r # Run(a)
  <2>1. grants'[r] = grants[r] /\ status'[r] = status[r]
      BY <1>5 DEF PayoutInv, Typed, TypeOK
  <2>2. Licensed(r)
      BY <2>1 DEF Gated, Immediate, PayoutInv, OnePayout
  <2>3. \A b \in Actors : Run(b) = r => pc'[b] = pc[b]
      BY <1>2, <1>5
  <2>4. QED
      BY <1>3, <2>1, <2>2, <2>3 DEF Licensed, Live
<1>6. QED
    BY <1>4, <1>5

\* The license goes from the approver to its job.
LEMMA ScheduleKeepsOnePayout ==
    ASSUME PayoutInv, NEW a \in Actors, SubmitSchedule(a) \/ ApproveSchedule(a)
    PROVE  OnePayout'
<1> SUFFICES ASSUME NEW r \in Runs, Gated(r)', grants'[r] <= 1
             PROVE  Licensed(r)'
    BY DEF OnePayout
<1>1. UNCHANGED <<status, config, req, grants, batches>>
    BY DEF SubmitSchedule, ApproveSchedule, runVars, history
<1>2. Gated(r) /\ Licensed(r)
    BY <1>1 DEF Gated, Immediate, PayoutInv, OnePayout
<1>3. pc[a] = "a_schedule" /\ SchedulePayout(a, "done", "a_revert")
    BY <1>2 DEF SubmitSchedule, ApproveSchedule, Gated, PayoutInv, OwnPath
<1>4. a[1] \in Calls /\ Job(a[1]) \in Actors /\ Run(Job(a[1])) = Run(a)
    BY DEF Actors, Job, Run
<1>5. \A b \in Actors : pc'[b] \in {pc[b], "waiting", "done", "a_revert"} /\ (b # a /\ b # Job(a[1]) => pc'[b] = pc[b])
    BY <1>3, <1>4 DEF SchedulePayout, PayoutInv, Typed, TypeOK
<1>6. pc'[a] \in {"waiting", "done", "a_revert"}
    BY <1>3, <1>4 DEF SchedulePayout, PayoutInv, Typed, TypeOK
<1>7. \A b \in Actors : (Run(b) = r)' <=> Run(b) = r
    BY <1>1 DEF Run
<1>8. \A b \in Actors : pc'[b] \in Ahead => pc[b] \in Ahead /\ pc'[b] = pc[b]
    BY <1>5 DEF Ahead, Sending
<1>9. CASE r = Run(a)
  <2>1. Live(a)
      BY <1>3 DEF Live, Ahead
  <2>2. grants[r] # 0 /\ \A b \in Actors : Run(b) = r /\ Live(b) => b = a
      BY <1>2, <1>9, <2>1 DEF Licensed
  <2>3. \A b \in Actors : Run(b) = r /\ Live(b)' => b = Job(a[1])
    <3> SUFFICES ASSUME NEW b \in Actors, Run(b) = r, Live(b)', b # Job(a[1]) PROVE FALSE
        OBVIOUS
    <3>1. CASE b = a
      <4>1. ~IsJob(a)
          BY <3>1, <1>4 DEF IsJob, Job, Actors
      <4>2. QED
          BY <1>6, <3>1, <4>1 DEF Live, Ahead, Sending
    <3>2. CASE b # a
        BY <1>5, <2>2, <3>2 DEF Live
    <3>3. QED
        BY <3>1, <3>2
  <2>4. QED
      BY <1>1, <1>2, <1>7, <1>8, <2>2, <2>3 DEF Licensed, Ahead
<1>10. CASE r # Run(a)
  <2>1. \A b \in Actors : Run(b) = r => pc'[b] = pc[b]
      BY <1>4, <1>5, <1>10
  <2>2. QED
      BY <1>1, <1>2, <1>7, <2>1 DEF Licensed, Live
<1>11. QED
    BY <1>9, <1>10

\* The batch is sent by the one actor that may, which then cannot send another.
LEMMA SendKeepsOnePayout ==
    ASSUME PayoutInv, NEW a \in Actors, InitiateBulkTransfer(a)
    PROVE  OnePayout'
<1> SUFFICES ASSUME NEW r \in Runs, Gated(r)', grants'[r] <= 1
             PROVE  Licensed(r)'
    BY DEF OnePayout
<1>1. UNCHANGED <<status, config, req, grants>> /\ pc[a] = "b_send"
    BY DEF InitiateBulkTransfer, runVars
<1>2. Gated(r) /\ Licensed(r)
    BY <1>1 DEF Gated, Immediate, PayoutInv, OnePayout
<1>3. PICK label \in {"verify", "b_charge", "b_update"} : pc' = [pc EXCEPT ![a] = label]
    BY DEF InitiateBulkTransfer, Goto
<1>4. \A b \in Actors : pc'[b] = IF b = a THEN label ELSE pc[b]
    BY <1>3 DEF PayoutInv, Typed, TypeOK
<1>5. \A b \in Actors : (Run(b) = r)' <=> Run(b) = r
    BY <1>1 DEF Run
<1>6. Live(a) /\ pc[a] \in Ahead /\ pc[a] \in Sending
    BY <1>1 DEF Live, Ahead, Sending
<1>7. label \notin Ahead /\ label \notin Sending
    BY DEF Ahead, Sending
<1>8. \A b \in Actors : Live(b)' => Live(b)
    BY <1>1, <1>4, <1>6, <1>7 DEF Live
<1>9. Count(batches, Run(a)) /\ batches[r] \in Nat
    BY DEF InitiateBulkTransfer, PayoutInv, Typed, TypeOK
<1>10. CASE r = Run(a)
  <2>1. grants[r] # 0 /\ batches[r] # 1 /\ status[r] # "approved"
      BY <1>2, <1>6, <1>10 DEF Licensed
  <2>2. batches[r] = 0
      BY <1>2, <1>9, <2>1 DEF Licensed
  <2>3. batches'[r] = 1
      BY <1>9, <1>10, <2>2 DEF Count, PayoutInv, Typed, TypeOK
  <2>4. \A b \in Actors : Run(b) = r => pc'[b] \notin Ahead
    <3>1. \A b \in Actors : Run(b) = r /\ Live(b) => b = a
        BY <1>2, <1>6, <1>10 DEF Licensed
    <3>2. QED
        BY <1>4, <1>7, <3>1 DEF Live
  <2>5. QED
      BY <1>1, <1>2, <1>5, <1>8, <2>1, <2>3, <2>4 DEF Licensed
<1>11. CASE r # Run(a)
  <2>1. batches'[r] = batches[r]
      BY <1>9, <1>11 DEF Count, PayoutInv, Typed, TypeOK
  <2>2. \A b \in Actors : Run(b) = r => pc'[b] = pc[b]
      BY <1>4, <1>11
  <2>3. QED
      BY <1>1, <1>2, <1>5, <2>1, <2>2 DEF Licensed, Live
<1>12. QED
    BY <1>10, <1>11

\* A restart takes licenses away, but for those of the jobs that are run again.
LEMMA CrashKeepsOnePayout ==
    ASSUME PayoutInv, Crash
    PROVE  OnePayout'
<1> SUFFICES ASSUME NEW r \in Runs, Gated(r)', grants'[r] <= 1
             PROVE  Licensed(r)'
    BY DEF OnePayout
<1>1. UNCHANGED <<status, config, req, grants, batches>>
    BY DEF Crash, runVars, history
<1>2. Gated(r) /\ Licensed(r)
    BY <1>1 DEF Gated, Immediate, PayoutInv, OnePayout
<1>3. \A b \in Actors : pc'[b] \in NotStarted
    BY DEF Crash, NotStarted
<1>4. \A b \in Actors : pc'[b] # pc[b] /\ pc'[b] # "done" => IsJob(b) /\ pc[b] \notin NotStarted
    BY DEF Crash, Retryable
<1>5. \A b \in Actors : pc'[b] \notin Ahead
    BY <1>3 DEF NotStarted, Ops, Ahead, Sending
<1>6. \A b \in Actors : Live(b)' => Live(b)
    BY <1>4, <1>5 DEF Live, NotStarted
<1>7. \A b \in Actors : (Run(b) = r)' <=> Run(b) = r
    BY <1>1 DEF Run
<1>8. QED
    BY <1>1, <1>2, <1>5, <1>6, <1>7 DEF Licensed, Ahead

\* An actor that goes on, or fails, moves itself only.
LEMMA GotoMoves ==
    ASSUME NEW a, NEW label, NEW m, Goto(a, label, m)
    PROVE  pc' = [pc EXCEPT ![a] = label]
    BY DEF Goto

\* The same for an actor that fails.
LEMMA FailMoves ==
    ASSUME NEW a, Fail(a)
    PROVE  \E label \in {"waiting", "done"} :
               pc' = [pc EXCEPT ![a] = label] /\ (label = "waiting" => IsJob(a))
    BY DEF Fail, Retryable

\* Every step of an actor that grants, schedules and sends nothing is such a move.
LEMMA MovesKeepOnePayout ==
    ASSUME PayoutInv, NEW a \in Actors, Step(a),
           ~SubmitSchedule(a), ~SubmitSave(a), ~ApproveSave(a), ~ApproveSchedule(a),
           ~InitiateBulkTransfer(a)
    PROVE  OnePayout'
<1> DEFINE Same == UNCHANGED <<req, config, grants, batches>>
           Calm == \A r \in Runs : status'[r] = "approved" => status[r] = "approved"
           Mine(label) == pc' = [pc EXCEPT ![a] = label]
           Afterwards == {"b_update", "b_charge", "b_record", "b_rollback", "verify", "finish",
                          "l_find", "l_save", "c_save", "waiting", "done"}
<1>1. status \in [Runs -> Statuses] /\ Run(a) \in Runs
    BY ActorTyped DEF PayoutInv, Typed, TypeOK
<1>2. \A new : (\/ Saved(a, new, "done") \/ NotSaved(a)) /\ new # "approved" =>
          Calm /\ \E label \in {"waiting", "done"} : Mine(label) /\ (label = "waiting" => IsJob(a))
    BY <1>1, GotoMoves, FailMoves DEF Saved, NotSaved
<1>3. CASE \/ SubmitForApproval(a) \/ ApprovePayrollRun(a) \/ RejectPayrollRun(a)
           \/ AmendPayrollRun(a) \/ ReversePayrollRun(a)
  <2>1. pc[a] \in Ops /\ ~IsJob(a)
      BY <1>3 DEF SubmitForApproval, ApprovePayrollRun, RejectPayrollRun, AmendPayrollRun,
                  ReversePayrollRun, Find, Ops, PayoutInv, OwnPath, IsJob
  <2>2. PICK label : Mine(label) /\ (config.requiresApproval => label \notin Ahead)
      BY <1>3, GotoMoves, FailMoves
         DEF SubmitForApproval, ApprovePayrollRun, RejectPayrollRun, AmendPayrollRun,
             ReversePayrollRun, Find, Ahead, Sending
  <2>3. Same /\ Calm
      BY <1>3 DEF SubmitForApproval, ApprovePayrollRun, RejectPayrollRun, AmendPayrollRun,
                  ReversePayrollRun, Find, runVars, history
  <2>4. QED
      BY <2>1, <2>2, <2>3, MoveKeepsOnePayout DEF Gated, Ahead
<1>4. CASE ApproveRevert(a) \/ RejectSave(a) \/ AmendSave(a) \/ ReverseSave(a)
  <2>1. Calm /\ \E label \in {"waiting", "done"} : Mine(label) /\ (label = "waiting" => IsJob(a))
      BY <1>2, <1>4 DEF ApproveRevert, RejectSave, AmendSave, ReverseSave, SaveRun
  <2>2. Same /\ pc[a] \in {"a_revert", "r_save", "m_save", "v_save"}
      BY <1>4 DEF ApproveRevert, RejectSave, AmendSave, ReverseSave, history
  <2>3. QED
      BY <2>1, <2>2, MoveKeepsOnePayout DEF Live, Ahead, Sending
<1>5. CASE ProcessApprovedPayroll(a)
  <2>1. PICK label \in {"p_find", "done", "waiting"} :
            Mine(label) /\ (label = "p_find" => status[Run(a)] = "approved") /\ (label = "waiting" => IsJob(a))
      BY <1>5, GotoMoves, FailMoves DEF ProcessApprovedPayroll
  <2>2. Same /\ Calm /\ pc[a] = "waiting" /\ IsJob(a)
      BY <1>5 DEF ProcessApprovedPayroll, runVars, history, PayoutInv, OwnPath
  <2>3. QED
      BY <2>1, <2>2, MoveKeepsOnePayout DEF Live, Ahead, Sending
<1>6. CASE ProcessPayrollRunInstantly(a)
  <2>1. PICK label \in {"p_start", "done", "waiting"} : Mine(label) /\ (label = "waiting" => IsJob(a))
      BY <1>6, GotoMoves, FailMoves DEF ProcessPayrollRunInstantly, Find
  <2>2. Same /\ Calm /\ pc[a] \in {"process", "p_find"}
      BY <1>6 DEF ProcessPayrollRunInstantly, Find, runVars, history
  <2>3. Gated(Run(a)) => pc[a] = "p_find"
      BY <2>2, ImmediateLiftsGate DEF PayoutInv
  <2>4. QED
      BY <2>1, <2>2, <2>3, MoveKeepsOnePayout DEF Live, Ahead, Sending
<1>7. CASE StartProcessing(a)
  <2>1. PICK label \in {"b_create", "verify", "done", "waiting"} :
            Mine(label) /\ Calm /\ (label = "b_create" => status'[Run(a)] = "processing")
      BY <1>1, <1>7, GotoMoves, FailMoves DEF StartProcessing, SaveRun, Saved, NotSaved
  <2>2. Same /\ pc[a] = "p_start"
      BY <1>7 DEF StartProcessing, history
  <2>3. QED
      BY <2>1, <2>2, MoveKeepsOnePayout DEF Live, Ahead, Sending
<1>8. CASE CreateBatch(a)
  <2>1. Mine("b_send") /\ Same /\ Calm /\ pc[a] = "b_create"
      BY <1>8, GotoMoves DEF CreateBatch, runVars, history
  <2>2. QED
      BY <2>1, MoveKeepsOnePayout DEF Live, Ahead, Sending
<1>9. CASE \/ UpdateRecord(a) \/ ChargeItem(a) \/ RecordItem(a) \/ RollbackItem(a)
           \/ VerifyTransfers(a) \/ FinishRun(a) \/ LoanStep(a)
  <2>1. \A i : (ItemDone(a, i) \/ LoanDone(a, i)) => \E label \in Afterwards \ {"waiting"} : Mine(label)
      BY GotoMoves DEF ItemDone, LoanDone
  <2>2. PICK label \in Afterwards : Mine(label) /\ (label = "waiting" => IsJob(a))
    <3>1. CASE UpdateRecord(a) \/ VerifyTransfers(a)
        BY <3>1, GotoMoves DEF UpdateRecord, VerifyTransfers
    <3>2. CASE ChargeItem(a)
        BY <2>1, <3>2, GotoMoves DEF ChargeItem
    <3>3. CASE RecordItem(a) \/ RollbackItem(a)
        BY <2>1, <3>3, GotoMoves DEF RecordItem, RollbackItem
    <3>4. CASE FinishRun(a)
        BY <3>4, GotoMoves, FailMoves DEF FinishRun, NotSaved
    <3>5. CASE FindLoan(a) \/ SaveLoan(a)
        BY <2>1, <3>5, GotoMoves DEF FindLoan, SaveLoan
    <3>6. CASE FindLoanToCancel(a) \/ CancelLoan(a)
        BY <3>6, GotoMoves, FailMoves DEF FindLoanToCancel, CancelLoan
    <3>7. QED
        BY <1>9, <3>1, <3>2, <3>3, <3>4, <3>5, <3>6 DEF LoanStep
  <2>3. pc[a] \in (Afterwards \ {"waiting", "done"}) \cup {"cancel"}
      BY <1>9 DEF UpdateRecord, ChargeItem, RecordItem, RollbackItem, VerifyTransfers, FinishRun,
                  LoanStep, FindLoan, SaveLoan, FindLoanToCancel, CancelLoan
  <2>4. Same
      BY <1>9 DEF UpdateRecord, ChargeItem, RecordItem, RollbackItem, VerifyTransfers, FinishRun,
                  LoanStep, FindLoan, SaveLoan, FindLoanToCancel, CancelLoan, history
  <2>5. Calm
    <3>1. CASE FinishRun(a)
      <4>1. mem[a].verdict # "approved"
          BY ActorTyped DEF PayoutInv, Typed, MemType
      <4>2. QED
          BY <1>1, <3>1, <4>1 DEF FinishRun, NotSaved
    <3>2. CASE ~FinishRun(a)
        BY <1>9, <3>2 DEF UpdateRecord, ChargeItem, RecordItem, RollbackItem, VerifyTransfers,
                  LoanStep, FindLoan, SaveLoan, FindLoanToCancel, CancelLoan, runVars
    <3>3. QED
        BY <3>1, <3>2
  <2>6. label \notin Ahead /\ label \notin Sending
      BY DEF Ahead, Sending
  <2>7. IsJob(a) /\ label \notin {"unscheduled", "done"} => Live(a)
      BY <2>3 DEF Live
  <2>8. QED
      BY <2>2, <2>4, <2>5, <2>6, <2>7, MoveKeepsOnePayout
<1>10. QED
    BY <1>3, <1>4, <1>5, <1>6, <1>7, <1>8, <1>9
       DEF Step, StatusChange, Processing, ExecuteBatchTransfer

\* Every step of an actor keeps the invariant of payouts, by the kinds of step above.
LEMMA StepKeepsOnePayout ==
    ASSUME PayoutInv, NEW a \in Actors, Step(a)
    PROVE  OnePayout'
<1>1. CASE SubmitSchedule(a) \/ ApproveSchedule(a)
    BY <1>1, ScheduleKeepsOnePayout
<1>2. CASE InitiateBulkTransfer(a)
    BY <1>2, SendKeepsOnePayout
<1>3. CASE SubmitSave(a) \/ ApproveSave(a)
  <2>1. PICK label \in {"done", "waiting", "p_find", "a_schedule"} :
            pc' = [pc EXCEPT ![a] = label] /\ (label = "waiting" => IsJob(a))
      BY <1>3, GotoMoves, FailMoves DEF SubmitSave, ApproveSave, SaveRun, Saved, NotSaved
  <2>2. UNCHANGED <<req, config, batches>>
      BY <1>3 DEF SubmitSave, ApproveSave
  <2>3. CASE Count(grants, Run(a))
    <3>1. \A r \in Runs \ {Run(a)} : status'[r] = status[r]
        BY <1>3 DEF SubmitSave, ApproveSave, SaveRun, Saved, NotSaved, PayoutInv, Typed, TypeOK
    <3>2. label \notin Sending
        BY DEF Sending
    <3>3. QED
        BY <2>1, <2>2, <2>3, <3>1, <3>2, GrantKeepsOnePayout DEF Count
  <2>4. CASE ~Count(grants, Run(a))
    <3>1. UNCHANGED grants /\ pc[a] \in {"s_pending", "s_approved", "a_save"}
        BY <1>3, <2>4 DEF SubmitSave, ApproveSave
    <3>2. SaveRun(a, "pending_approval", "done") \/ NotSaved(a)
        BY <1>3, <2>4 DEF SubmitSave, ApproveSave
    <3>3. \A r \in Runs : status'[r] = "approved" => status[r] = "approved"
        BY <3>2 DEF SaveRun, Saved, NotSaved, PayoutInv, Typed, TypeOK
    <3>4. PICK after \in {"done", "waiting"} :
              pc' = [pc EXCEPT ![a] = after] /\ (after = "waiting" => IsJob(a))
        BY <3>2, GotoMoves, FailMoves DEF SaveRun, Saved, NotSaved
    <3>5. QED
        BY <2>2, <3>1, <3>3, <3>4, MoveKeepsOnePayout DEF Live, Ahead, Sending
  <2>5. QED
      BY <2>3, <2>4
<1>4. QED
    BY <1>1, <1>2, <1>3, MovesKeepOnePayout

\* Where an actor is after a step of its own, or of the request that scheduled it.
LEMMA StepKeepsOwnPath ==
    ASSUME PayoutInv, NEW a \in Actors, Step(a)
    PROVE  OwnPath'
<1> DEFINE Fits(b, label) ==
        /\ label \notin Ops
        /\ label = "waiting" => IsJob(b)
        /\ config.requiresApproval => label \notin {"s_schedule", "s_approved"}
<1>1. UNCHANGED <<req, config>>
  <2>1. CASE StatusChange(a)
      BY <2>1 DEF StatusChange, SubmitForApproval, SubmitSchedule, SubmitSave, ApprovePayrollRun,
             ApproveSave, ApproveSchedule, ApproveRevert, RejectPayrollRun, RejectSave,
             AmendPayrollRun, AmendSave, ReversePayrollRun, ReverseSave, Find
  <2>2. CASE Processing(a)
      BY <2>2 DEF Processing, ProcessApprovedPayroll, ProcessPayrollRunInstantly, StartProcessing,
             VerifyTransfers, FinishRun, ExecuteBatchTransfer, CreateBatch, InitiateBulkTransfer,
             UpdateRecord, ChargeItem, RecordItem, RollbackItem, Find
  <2>3. CASE LoanStep(a)
      BY <2>3 DEF LoanStep, FindLoan, SaveLoan, FindLoanToCancel, CancelLoan
  <2>4. QED
      BY <2>1, <2>2, <2>3 DEF Step
<1>2. SUFFICES \A b \in Actors : pc'[b] = pc[b] \/ Fits(b, pc'[b])
    BY <1>1 DEF PayoutInv, OwnPath, IsJob
<1>3. \A label : pc' = [pc EXCEPT ![a] = label] /\ Fits(a, label) =>
          \A b \in Actors : pc'[b] = pc[b] \/ Fits(b, pc'[b])
    BY DEF PayoutInv, Typed, TypeOK
<1>4. Fail(a) => \A b \in Actors : pc'[b] = pc[b] \/ Fits(b, pc'[b])
    BY <1>3, FailMoves DEF Ops
<1>5. \A label, m : Goto(a, label, m) /\ Fits(a, label) =>
          \A b \in Actors : pc'[b] = pc[b] \/ Fits(b, pc'[b])
    BY <1>3, GotoMoves
<1>6. \A new, next : SaveRun(a, new, next) /\ Fits(a, next) =>
          \A b \in Actors : pc'[b] = pc[b] \/ Fits(b, pc'[b])
    BY <1>4, <1>5 DEF SaveRun, Saved, NotSaved
<1>7. \A labels, wanted, next, m : Find(a, labels, wanted, next, m) /\ Fits(a, next) =>
          \A b \in Actors : pc'[b] = pc[b] \/ Fits(b, pc'[b])
    BY <1>4, <1>5 DEF Find
<1>8. \A label \in {"s_pending", "a_save", "a_schedule", "a_revert", "r_save", "m_save", "v_save",
                     "p_find", "p_start", "b_create", "b_send", "b_update", "b_charge", "b_record",
                     "b_rollback", "verify", "finish", "l_find", "l_save", "c_save", "done"} : Fits(a, label)
    BY DEF Ops
<1>9. CASE StatusChange(a)
  <2>1. CASE SubmitForApproval(a)
      BY <1>7, <2>1 DEF SubmitForApproval, Ops
  <2>2. CASE ApprovePayrollRun(a) \/ RejectPayrollRun(a) \/ AmendPayrollRun(a) \/ ReversePayrollRun(a)
      BY <1>7, <1>8, <2>2 DEF ApprovePayrollRun, RejectPayrollRun, AmendPayrollRun, ReversePayrollRun
  <2>3. CASE SubmitSchedule(a) \/ ApproveSchedule(a)
    <3>1. PICK label \in {"s_approved", "done", "a_revert"} :
              /\ \/ pc' = [pc EXCEPT ![a] = label]
                 \/ pc' = [pc EXCEPT ![a] = label, ![Job(a[1])] = "waiting"]
              /\ label = "s_approved" => pc[a] = "s_schedule"
        BY <2>3 DEF SubmitSchedule, ApproveSchedule, SchedulePayout
    <3>2. Fits(a, label)
        BY <3>1 DEF Ops, PayoutInv, OwnPath
    <3>3. Fits(Job(a[1]), "waiting")
        BY DEF IsJob, Job, Ops
    <3>4. QED
        BY <3>1, <3>2, <3>3 DEF PayoutInv, Typed, TypeOK
  <2>4. CASE SubmitSave(a) \/ ApproveSave(a) \/ ApproveRevert(a) \/ RejectSave(a) \/ AmendSave(a) \/ ReverseSave(a)
      BY <1>6, <1>8, <2>4
         DEF SubmitSave, ApproveSave, ApproveRevert, RejectSave, AmendSave, ReverseSave, SaveRun
  <2>5. QED
      BY <1>9, <2>1, <2>2, <2>3, <2>4 DEF StatusChange
<1>10. CASE Processing(a)
  <2>1. \A i : ItemDone(a, i) => \A b \in Actors : pc'[b] = pc[b] \/ Fits(b, pc'[b])
      BY <1>5, <1>8 DEF ItemDone
  <2>2. CASE ProcessApprovedPayroll(a) \/ ProcessPayrollRunInstantly(a) \/ VerifyTransfers(a)
      BY <1>4, <1>5, <1>7, <1>8, <2>2 DEF ProcessApprovedPayroll, ProcessPayrollRunInstantly, VerifyTransfers
  <2>3. CASE StartProcessing(a)
      BY <1>4, <1>6, <1>8, <2>3 DEF StartProcessing, NotSaved
  <2>4. CASE FinishRun(a)
      BY <1>4, <1>5, <1>8, <2>4 DEF FinishRun, NotSaved
  <2>5. CASE CreateBatch(a) \/ InitiateBulkTransfer(a) \/ UpdateRecord(a)
    <3>1. \E label \in {"b_send", "verify", "b_charge", "b_update"} : pc' = [pc EXCEPT ![a] = label]
        BY <2>5, GotoMoves DEF CreateBatch, InitiateBulkTransfer, UpdateRecord
    <3>2. QED
        BY <1>3, <1>8, <3>1
  <2>6. CASE ChargeItem(a)
      BY <1>5, <1>8, <2>1, <2>6 DEF ChargeItem
  <2>7. CASE RecordItem(a) \/ RollbackItem(a)
      BY <1>5, <1>8, <2>1, <2>7 DEF RecordItem, RollbackItem
  <2>8. QED
      BY <1>10, <2>2, <2>3, <2>4, <2>5, <2>6, <2>7 DEF Processing, ExecuteBatchTransfer
<1>11. CASE LoanStep(a)
  <2>1. \A i : LoanDone(a, i) => \A b \in Actors : pc'[b] = pc[b] \/ Fits(b, pc'[b])
      BY <1>5, <1>8 DEF LoanDone
  <2>2. QED
      BY <1>4, <1>5, <1>8, <1>11, <2>1 DEF LoanStep, FindLoan, SaveLoan, FindLoanToCancel, CancelLoan
<1>12. QED
    BY <1>9, <1>10, <1>11 DEF Step

\* Every step, a restart included, keeps the inductive invariant.
LEMMA NextKeepsPayoutInv == PayoutInv /\ [Next]_vars => PayoutInv'
<1> SUFFICES ASSUME PayoutInv, [Next]_vars PROVE PayoutInv'
    OBVIOUS
<1>1. Typed'
    BY NextTyped DEF PayoutInv
<1>2. CASE \E a \in Actors : Step(a)
    BY <1>1, <1>2, StepKeepsOnePayout, StepKeepsOwnPath DEF PayoutInv
<1>3. CASE Crash
  <2>1. OwnPath'
    <3>1. \A a \in Actors : pc'[a] = pc[a] \/ pc'[a] = "done" \/ (pc'[a] = "waiting" /\ IsJob(a))
        BY <1>3 DEF Crash, Retryable
    <3>2. UNCHANGED <<req, config>>
        BY <1>3 DEF Crash
    <3>3. QED
        BY <3>1, <3>2 DEF PayoutInv, OwnPath, IsJob, Ops
  <2>2. QED
      BY <1>1, <1>3, <2>1, CrashKeepsOnePayout DEF PayoutInv
<1>4. CASE UNCHANGED vars
    BY <1>1, <1>4
       DEF vars, runVars, history, control, PayoutInv, OwnPath, OnePayout, Licensed, Live, Gated, Immediate, Run
<1>5. QED
    BY <1>2, <1>3, <1>4 DEF Next

\* Nothing is approved, scheduled or sent at the start.
LEMMA InitPayoutInv == Init => PayoutInv
<1> SUFFICES ASSUME Init PROVE PayoutInv
    OBVIOUS
<1>1. Typed
    BY InitTyped
<1>2. \A a \in Actors : /\ a[2] \in {"request", "job"}
                        /\ IsJob(a) => pc[a] = "unscheduled"
                        /\ ~IsJob(a) => pc[a] = req[a[1]].op /\ pc[a] \in Ops
  <2>1. \A a \in Actors : a[1] \in Calls /\ a[2] \in {"request", "job"}
      BY DEF Actors
  <2>2. \A c \in Calls : req[c].op \in Ops
      BY <1>1, PayrollAssumption DEF Typed, TypeOK
  <2>3. QED
      BY <2>1, <2>2 DEF Init, IsJob
<1>3. OwnPath
    BY <1>2 DEF OwnPath, IsJob, Ops
<1>4. \A a \in Actors : ~Live(a) /\ pc[a] \notin Ahead /\ pc[a] \notin Sending
    BY <1>2 DEF Live, Ahead, Sending, Ops
<1>5. OnePayout
    BY <1>4 DEF Init, OnePayout, Licensed
<1>6. QED
    BY <1>1, <1>3, <1>5 DEF PayoutInv

\* The inductive invariant of payouts (PayoutInv): an approval of a run that nobody may pay
\* at once licenses one actor, the approver or its job, to send one batch, and whoever is
\* sending has saved the run as processing.
THEOREM PayoutInvCorrect == Spec => []PayoutInv
    BY InitPayoutInv, NextKeepsPayoutInv, PTL DEF Spec

\* No batch is sent for a run that was not approved (PaysOnlyApproved): the checks of
\* ProcessApprovedPayroll and ApprovePayrollRun, under any faults.
THEOREM OnlyApprovedIsPaid == Spec => []PaysOnlyApproved
<1>1. PayoutInv => PaysOnlyApproved
  <2> SUFFICES ASSUME PayoutInv, NEW r \in Runs,
                      config.requiresApproval, Immediate(r) = {}, grants[r] = 0
               PROVE  batches[r] = 0
      BY DEF PaysOnlyApproved
  <2>1. Gated(r) /\ grants[r] <= 1
      BY DEF Gated
  <2>2. QED
      BY <2>1 DEF PayoutInv, OnePayout, Licensed
<1>2. QED
    BY <1>1, PayoutInvCorrect, PTL

\* A run approved once is sent at most once (SentOnce), through any number of crashes,
\* lost replies and repeated jobs.
THEOREM ApprovedOnceSentOnce == Spec => []SentOnce
<1>1. PayoutInv => SentOnce
  <2> SUFFICES ASSUME PayoutInv, NEW r \in Runs,
                      config.requiresApproval, Immediate(r) = {}, grants[r] <= 1
               PROVE  batches[r] <= 1
      BY DEF SentOnce
  <2>1. Gated(r)
      BY DEF Gated
  <2>2. QED
      BY <2>1 DEF PayoutInv, OnePayout, Licensed
<1>2. QED
    BY <1>1, PayoutInvCorrect, PTL
-----------------------------------------------------------------------------
(* What a step moves *)

OthersStay(a) == \A b \in Actors \ {a} : pc'[b] = pc[b] /\ mem'[b] = mem[b]

\* Where the actor of a step is afterwards, and with what in mind.
LEMMA GotoOwn ==
    ASSUME Typed, NEW a \in Actors, NEW label, NEW m, Goto(a, label, m)
    PROVE  pc'[a] = label /\ mem'[a] = (IF label = "done" THEN Idle ELSE m) /\ OthersStay(a)
    BY DEF Goto, OthersStay, Typed, TypeOK

\* The same when it returns an error.
LEMMA FailOwn ==
    ASSUME Typed, NEW a \in Actors, Fail(a)
    PROVE  /\ pc'[a] \in {"waiting", "done"} /\ (pc'[a] = "waiting" => IsJob(a))
           /\ mem'[a] = Idle /\ OthersStay(a)
    BY DEF Fail, Retryable, OthersStay, Typed, TypeOK

\* The labels of a request up to the scheduling of its job.
Planning == Ops \cup {"s_schedule", "a_save", "a_schedule"}

\* The job of a request is scheduled by that request, and once.
JobsInOrder == \A a \in Actors : pc[a] \in Planning => ~IsJob(a) /\ pc[Job(a[1])] = "unscheduled"

\* The labels of those that repay or cancel a loan.
Lending == {"l_find", "l_save", "c_save"}

\* A step moves its own actor, and the job it schedules.
MovesOwn(a) ==
    /\ UNCHANGED <<config, req>>
    /\ pc'[a] \in Lending => pc[a] \in Lending \cup {"finish", "cancel"}
    /\ pc[a] \notin {"unscheduled", "done"}
    /\ pc'[a] \in Planning => pc[a] \in Planning
    /\ \/ OthersStay(a)
       \/ /\ pc[a] \in {"s_schedule", "a_schedule"} /\ pc'[a] \in {"s_approved", "a_revert", "done"}
          /\ pc[Job(a[1])] = "unscheduled" /\ pc'[Job(a[1])] = "waiting"
          /\ \A b \in Actors \ {a, Job(a[1])} : pc'[b] = pc[b]
          /\ mem' = mem

\* The steps of the three groups of actions.
LEMMA StatusChangeIsOwn ==
    ASSUME Typed, JobsInOrder, NEW a \in Actors, StatusChange(a)
    PROVE  MovesOwn(a)
<1> USE GotoOwn, FailOwn
<1>1. CASE SubmitForApproval(a) \/ ApprovePayrollRun(a)
    BY <1>1 DEF SubmitForApproval, ApprovePayrollRun, Find, MovesOwn, Planning, Ops, Lending
<1>2. CASE RejectPayrollRun(a) \/ AmendPayrollRun(a) \/ ReversePayrollRun(a)
    BY <1>2 DEF RejectPayrollRun, AmendPayrollRun, ReversePayrollRun, Find, MovesOwn, Planning, Ops, Lending
<1>3. CASE SubmitSchedule(a) \/ ApproveSchedule(a)
  <2>1. pc[a] \in {"s_schedule", "a_schedule"} /\ UNCHANGED <<config, req, mem>>
      BY <1>3 DEF SubmitSchedule, ApproveSchedule, SchedulePayout
  <2>2. pc[Job(a[1])] = "unscheduled" /\ ~IsJob(a)
      BY <2>1 DEF JobsInOrder, Planning
  <2>3. Job(a[1]) \in Actors /\ Job(a[1]) # a
      BY <2>1, <2>2, ActorTyped DEF Typed
  <2>4. PICK label \in {"s_approved", "a_revert", "done"} :
            pc' = [pc EXCEPT ![a] = label] \/ pc' = [pc EXCEPT ![a] = label, ![Job(a[1])] = "waiting"]
      BY <1>3 DEF SubmitSchedule, ApproveSchedule, SchedulePayout
  <2>5. label \notin Planning \cup Lending
      BY DEF Planning, Ops, Lending
  <2>6. pc \in [Actors -> Labels]
      BY DEF Typed, TypeOK
  <2>7. CASE pc' = [pc EXCEPT ![a] = label]
      BY <2>1, <2>5, <2>6, <2>7 DEF MovesOwn, OthersStay
  <2>8. CASE pc' = [pc EXCEPT ![a] = label, ![Job(a[1])] = "waiting"]
    <3>1. pc'[a] = label /\ pc'[Job(a[1])] = "waiting"
        BY <2>3, <2>6, <2>8
    <3>2. \A b \in Actors \ {a, Job(a[1])} : pc'[b] = pc[b]
        BY <2>6, <2>8
    <3>3. QED
        BY <2>1, <2>2, <2>5, <3>1, <3>2 DEF MovesOwn
  <2>9. QED
      BY <2>4, <2>7, <2>8
<1>4. CASE SubmitSave(a) \/ ApproveSave(a)
    BY <1>4 DEF SubmitSave, ApproveSave, SaveRun, Saved, NotSaved, MovesOwn, Planning, Ops, Lending
<1>5. CASE ApproveRevert(a) \/ RejectSave(a) \/ AmendSave(a) \/ ReverseSave(a)
    BY <1>5 DEF ApproveRevert, RejectSave, AmendSave, ReverseSave, SaveRun, Saved, NotSaved,
                MovesOwn, Planning, Ops, Lending
<1> QED
    BY <1>1, <1>2, <1>3, <1>4, <1>5 DEF StatusChange

\* Those of processing and of the batch.
LEMMA ProcessingIsOwn ==
    ASSUME Typed, NEW a \in Actors, Processing(a)
    PROVE  MovesOwn(a) /\ OthersStay(a) /\ pc'[a] \notin Planning
<1> USE GotoOwn, FailOwn DEF MovesOwn, Planning, Ops, Lending
<1>1. CASE ProcessApprovedPayroll(a) \/ ProcessPayrollRunInstantly(a)
    BY <1>1 DEF ProcessApprovedPayroll, ProcessPayrollRunInstantly, Find
<1>2. CASE StartProcessing(a)
    BY <1>2 DEF StartProcessing, SaveRun, Saved, NotSaved
<1>3. CASE VerifyTransfers(a) \/ FinishRun(a)
    BY <1>3 DEF VerifyTransfers, FinishRun, NotSaved
<1>4. \A i : ItemDone(a, i) => pc'[a] \in {"b_charge", "verify"} /\ OthersStay(a)
    BY DEF ItemDone
<1>5. CASE CreateBatch(a) \/ UpdateRecord(a)
  <2>1. PICK label \in {"b_send", "b_update", "b_charge"} : \E m : Goto(a, label, m)
      BY <1>5 DEF CreateBatch, UpdateRecord
  <2>2. pc[a] \in {"b_create", "b_update"} /\ UNCHANGED <<config, req>>
      BY <1>5 DEF CreateBatch, UpdateRecord
  <2>3. QED
      BY <2>1, <2>2
<1>6. CASE InitiateBulkTransfer(a)
  <2>1. PICK label \in {"verify", "b_charge", "b_update"} : \E m : Goto(a, label, m)
      BY <1>6 DEF InitiateBulkTransfer
  <2>2. pc[a] = "b_send" /\ UNCHANGED <<config, req>>
      BY <1>6 DEF InitiateBulkTransfer
  <2>3. QED
      BY <2>1, <2>2
<1>7. CASE ChargeItem(a)
    BY <1>4, <1>7 DEF ChargeItem
<1>8. CASE RecordItem(a) \/ RollbackItem(a)
    BY <1>4, <1>8 DEF RecordItem, RollbackItem
<1> QED
    BY <1>1, <1>2, <1>3, <1>5, <1>6, <1>7, <1>8 DEF Processing, ExecuteBatchTransfer

\* Those of the loans.
LEMMA LoanIsOwn ==
    ASSUME Typed, NEW a \in Actors, LoanStep(a)
    PROVE  MovesOwn(a) /\ OthersStay(a) /\ pc'[a] \notin Planning
<1> USE GotoOwn, FailOwn DEF MovesOwn, Planning, Ops, Lending
<1>1. \A i : LoanDone(a, i) => pc'[a] \in {"l_find", "done"} /\ OthersStay(a)
    BY DEF LoanDone
<1>2. CASE FindLoan(a)
    BY <1>1, <1>2 DEF FindLoan
<1>3. CASE SaveLoan(a)
    BY <1>1, <1>3 DEF SaveLoan
<1>4. CASE FindLoanToCancel(a) \/ CancelLoan(a)
    BY <1>4 DEF FindLoanToCancel, CancelLoan
<1> QED
    BY <1>2, <1>3, <1>4 DEF LoanStep

LEMMA StepIsOwn ==
    ASSUME Typed, JobsInOrder, NEW a \in Actors, Step(a)
    PROVE  MovesOwn(a)
    BY StatusChangeIsOwn, ProcessingIsOwn, LoanIsOwn DEF Step

\* A restart moves actors to the end of their work, or to the start of their job.
LEMMA CrashMoves ==
    ASSUME Crash
    PROVE  /\ \A a \in Actors : /\ mem'[a] = Idle
                                /\ pc'[a] = pc[a] \/ (pc[a] # "unscheduled" /\ pc'[a] \in {"waiting", "done"})
           /\ \A a \in Actors : pc'[a] \in NotStarted
           /\ UNCHANGED <<walletVars, config, runVars, payVars, loans, req, history>>
           /\ faults' = faults + 1
    BY DEF Crash, Fault, NotStarted

\* Every step keeps the jobs in order.
LEMMA NextKeepsOrder == Typed /\ JobsInOrder /\ [Next]_vars => JobsInOrder'
<1> SUFFICES ASSUME Typed, JobsInOrder, [Next]_vars, NEW b \in Actors, pc'[b] \in Planning
             PROVE  ~IsJob(b) /\ pc'[Job(b[1])] = "unscheduled"
    BY DEF JobsInOrder, IsJob, Job
<1>1. CASE \E a \in Actors : Step(a)
  <2>1. PICK a \in Actors : MovesOwn(a)
      BY <1>1, StepIsOwn
  <2>2. /\ b[1] \in Calls /\ a[1] \in Calls /\ Job(b[1]) \in Actors /\ Job(a[1]) \in Actors
        /\ a = <<a[1], a[2]>> /\ b = <<b[1], b[2]>> /\ {a[2], b[2]} \subseteq {"request", "job"}
      BY DEF Actors, Job
  <2>3. "waiting" \notin Planning
      BY DEF Planning, Ops
  <2>4. pc[b] \in Planning
      BY <2>1, <2>3 DEF MovesOwn, OthersStay
  <2>5. ~IsJob(b) /\ pc[Job(b[1])] = "unscheduled"
      BY <2>4 DEF JobsInOrder
  <2>6. Job(b[1]) # a
      BY <2>1, <2>5 DEF MovesOwn
  <2>7. CASE OthersStay(a)
      BY <2>2, <2>5, <2>6, <2>7 DEF OthersStay
  <2>8. CASE ~OthersStay(a)
    <3>1. ~IsJob(a) /\ pc'[a] \notin Planning
        BY <2>1, <2>8 DEF MovesOwn, JobsInOrder, Planning, Ops
    <3>2. b # a
        BY <3>1
    <3>3. b[1] # a[1]
        BY <2>2, <2>5, <3>1, <3>2 DEF IsJob
    <3>4. Job(b[1]) # Job(a[1])
        BY <3>3 DEF Job
    <3>5. QED
        BY <2>1, <2>2, <2>5, <2>6, <2>8, <3>4 DEF MovesOwn
  <2>9. QED
      BY <2>7, <2>8
<1>2. CASE Crash
  <2>1. pc[b] \in Planning
      BY <1>2, CrashMoves DEF Planning, Ops
  <2>2. QED
      BY <1>2, <2>1, CrashMoves, ActorTyped DEF JobsInOrder, Typed
<1>3. CASE UNCHANGED vars
    BY <1>3 DEF vars, control, JobsInOrder
<1> QED
    BY <1>1, <1>2, <1>3 DEF Next

\* Jobs are unscheduled at the start.
LEMMA InitOrder == Init => JobsInOrder
<1> SUFFICES ASSUME Init, NEW a \in Actors, pc[a] \in Planning
             PROVE  ~IsJob(a) /\ pc[Job(a[1])] = "unscheduled"
    BY DEF JobsInOrder
<1>1. Job(a[1]) \in Actors /\ IsJob(Job(a[1]))
    BY DEF Actors, Job, IsJob
<1> QED
    BY <1>1 DEF Init, Planning, Ops

-----------------------------------------------------------------------------
(* What the wallet pays *)

AllTaken == SumFunction([a \in Actors |-> Taken(a)])
AllWithdrawn == SumFunction([ref \in Refs |-> Withdrawn(ref)])

\* There are finitely many actors and references.
LEMMA FiniteWorld == IsFiniteSet(Actors) /\ IsFiniteSet(Refs)
<1>1. {"request", "job"} = {"request"} \cup {"job"} /\ IsFiniteSet({"request"})
    BY FS_EmptySet, FS_AddElement
<1>2. IsFiniteSet({"request", "job"})
    BY <1>1, FS_AddElement
<1> QED
    BY <1>2, PayrollAssumption, FS_Product DEF Actors, Refs

\* What is taken and withdrawn are amounts.
LEMMA ChargesTyped ==
    ASSUME Typed
    PROVE  /\ \A a \in Actors : Taken(a) \in Nat
           /\ \A ref \in Refs : Withdrawn(ref) \in Nat
<1>1. \A a \in Actors : Taken(a) \in Nat
    BY KoboTyped DEF Taken, Typed, InMind
<1>2. \A ref \in Refs : Withdrawn(ref) \in Nat
    BY DEF Withdrawn, Recorded, Typed, TypeOK
<1> QED
    BY <1>1, <1>2

\* A step changes what its own actor has taken.
LEMMA TakenMoves ==
    ASSUME Typed, Typed', NEW a \in Actors, MovesOwn(a)
    PROVE  /\ AllTaken \in Int
           /\ AllTaken' = AllTaken + (Taken(a)' - Taken(a))
<1> DEFINE f == [b \in Actors |-> Taken(b)]
           g == [b \in Actors |-> Taken(b)']
<1>1. AllTaken = SumFunctionOnSet(f, Actors) /\ AllTaken' = SumFunctionOnSet(g, Actors)
    BY DEF AllTaken, SumFunction
<1>2. \A b \in Actors : f[b] \in Int /\ g[b] \in Int
  <2>1. \A b \in Actors : Taken(b) \in Nat
      BY ChargesTyped
  <2>2. \A b \in Actors : Taken(b)' \in Nat
      BY KoboTyped DEF Taken, Typed, InMind
  <2> QED
      BY <2>1, <2>2
<1>3. \A b \in Actors : b # a => g[b] = f[b]
  <2> SUFFICES ASSUME NEW b \in Actors, b # a PROVE Taken(b)' = Taken(b)
      OBVIOUS
  <2>1. CASE OthersStay(a)
      BY <2>1 DEF OthersStay, Taken, Kobo
  <2>2. CASE ~OthersStay(a)
      BY <2>2 DEF MovesOwn, Taken, Kobo
  <2> QED
      BY <2>1, <2>2
<1>4. f[a] = Taken(a) /\ g[a] = Taken(a)'
    OBVIOUS
<1> HIDE DEF f, g
<1> QED
    BY <1>1, <1>2, <1>3, <1>4, FiniteWorld, SumChanges

\* A record changes what is withdrawn.
LEMMA WithdrawnMoves ==
    ASSUME Typed, Typed', NEW ref \in Refs, \A s \in Refs \ {ref} : txs'[s] = txs[s]
    PROVE  /\ AllWithdrawn \in Int
           /\ AllWithdrawn' = AllWithdrawn + (Withdrawn(ref)' - Withdrawn(ref))
<1> DEFINE f == [s \in Refs |-> Withdrawn(s)]
           g == [s \in Refs |-> Withdrawn(s)']
<1>1. AllWithdrawn = SumFunctionOnSet(f, Refs) /\ AllWithdrawn' = SumFunctionOnSet(g, Refs)
    BY DEF AllWithdrawn, SumFunction
<1>2. \A s \in Refs : f[s] \in Int /\ g[s] \in Int
  <2>1. \A s \in Refs : Withdrawn(s) \in Nat
      BY ChargesTyped
  <2>2. \A s \in Refs : Withdrawn(s)' \in Nat
      BY DEF Withdrawn, Recorded, Typed, TypeOK
  <2> QED
      BY <2>1, <2>2
<1>3. \A s \in Refs : s # ref => g[s] = f[s]
    BY DEF Withdrawn, Recorded
<1>4. f[ref] = Withdrawn(ref) /\ g[ref] = Withdrawn(ref)'
    OBVIOUS
<1> HIDE DEF f, g
<1> QED
    BY <1>1, <1>2, <1>3, <1>4, FiniteWorld, SumChanges

\* A sum does not move where nothing of it does.
LEMMA WithdrawnStays ==
    ASSUME Typed, UNCHANGED txs
    PROVE  AllWithdrawn \in Int /\ AllWithdrawn' = AllWithdrawn
<1>1. AllWithdrawn' = AllWithdrawn
    BY DEF AllWithdrawn, Withdrawn, Recorded
<1> DEFINE f == [s \in Refs |-> Withdrawn(s)]
<1>2. AllWithdrawn = SumFunctionOnSet(f, Refs)
    BY DEF AllWithdrawn, SumFunction
<1>3. \A s \in Refs : f[s] \in Int
    BY ChargesTyped
<1> HIDE DEF f
<1> QED
    BY <1>1, <1>2, <1>3, FiniteWorld, SumIsInt

\* No fault now means none before.
LEMMA FaultFree ==
    ASSUME Typed, faults' = 0
    PROVE  /\ ~ \E kind : Fault(kind)
           /\ NoFault => faults = 0
    BY DEF Fault, NoFault, Typed, TypeOK

\* A step counts at most one fault.
LEMMA StepFaults ==
    ASSUME NEW a \in Actors, Step(a)
    PROVE  NoFault \/ \E kind : Fault(kind)
<1>1. CASE StatusChange(a)
    BY <1>1 DEF StatusChange, SubmitForApproval, SubmitSchedule, SubmitSave, ApprovePayrollRun,
           ApproveSave, ApproveSchedule, ApproveRevert, RejectPayrollRun, RejectSave,
           AmendPayrollRun, AmendSave, ReversePayrollRun, ReverseSave, Find, SchedulePayout,
           SaveRun, Saved, NotSaved
<1>2. CASE Processing(a)
    BY <1>2 DEF Processing, ProcessApprovedPayroll, ProcessPayrollRunInstantly, StartProcessing,
           VerifyTransfers, FinishRun, ExecuteBatchTransfer, CreateBatch, InitiateBulkTransfer,
           UpdateRecord, ChargeItem, RecordItem, RollbackItem, Find, SaveRun, Saved, NotSaved
<1>3. CASE LoanStep(a)
    BY <1>3 DEF LoanStep, FindLoan, SaveLoan, FindLoanToCancel, CancelLoan
<1> QED
    BY <1>1, <1>2, <1>3 DEF Step

\* Where a step neither moves money nor takes any, nor gives any up, the sum stays.
LEMMA PaysNothing ==
    ASSUME Typed, Typed', NEW a \in Actors, MovesOwn(a), UNCHANGED <<balance, txs>>,
           pc[a] \notin {"b_record", "b_rollback"}, pc'[a] \notin {"b_record", "b_rollback"}
    PROVE  AllTaken' = AllTaken /\ AllWithdrawn' = AllWithdrawn /\ balance' = balance
<1>1. Taken(a) = 0 /\ Taken(a)' = 0
    BY DEF Taken
<1> QED
    BY <1>1, TakenMoves, WithdrawnStays

\* The records of the batch: each step moves what was taken between the wallet, the actor
\* and the record.
LEMMA RecordKeepsCharges ==
    ASSUME Typed, Typed', ChargesAccounted, faults = 0, faults' = 0, NEW a \in Actors, MovesOwn(a),
           ChargeItem(a) \/ RecordItem(a) \/ RollbackItem(a)
    PROVE  ChargesAccounted'
<1> DEFINE Total == balance + AllTaken + AllWithdrawn
<1>1. SUFFICES balance' + AllTaken' + AllWithdrawn' = balance + AllTaken + AllWithdrawn
  <2>1. Total = InitialBalance
      BY DEF ChargesAccounted, AllTaken, AllWithdrawn
  <2> QED
      BY <2>1 DEF ChargesAccounted, AllTaken, AllWithdrawn
<1>2. AllTaken \in Int /\ AllTaken' = AllTaken + (Taken(a)' - Taken(a))
    BY TakenMoves
<1>3. balance \in Nat /\ balance' \in Nat /\ Taken(a) \in Nat
    BY ChargesTyped DEF Typed, TypeOK
<1>4. \A i : ItemDone(a, i) => pc'[a] \in {"b_charge", "verify"}
    BY GotoOwn DEF ItemDone
<1>5. \A i : ItemDone(a, i) => Taken(a)' = 0
    BY <1>4 DEF Taken
<1>6. CASE ChargeItem(a)
  <2>1. Taken(a) = 0
      BY <1>6 DEF ChargeItem, Taken
  <2>2. UNCHANGED txs
      BY <1>6 DEF ChargeItem, DecrementBalanceAndLocked, DecrementLocked, walletVars
  <2>3. AllWithdrawn \in Int /\ AllWithdrawn' = AllWithdrawn
      BY <2>2, WithdrawnStays
  <2>4. PICK i \in mem[a].todo :
            \/ /\ DecrementBalanceAndLocked(Kobo(i.pay), Kobo(i.pay))
               /\ Goto(a, "b_record", [mem[a] EXCEPT !.item = i])
            \/ DecrementLocked(Kobo(i.pay)) /\ ItemDone(a, i)
            \/ UNCHANGED walletVars /\ ItemDone(a, i)
      BY <1>6, FaultFree DEF ChargeItem
  <2>5. mem[a] \in MemType
      BY DEF Typed, TypeOK
  <2>6. CASE /\ DecrementBalanceAndLocked(Kobo(i.pay), Kobo(i.pay))
             /\ Goto(a, "b_record", [mem[a] EXCEPT !.item = i])
    <3>1. mem'[a] = [mem[a] EXCEPT !.item = i] /\ pc'[a] = "b_record"
        BY <2>6, GotoOwn
    <3>2. mem'[a].item = i
        BY <2>5, <3>1 DEF MemType
    <3>3. Taken(a)' = Kobo(i.pay)
        BY <3>1, <3>2 DEF Taken, Kobo
    <3>4. balance' = balance - Kobo(i.pay)
        BY <2>6 DEF DecrementBalanceAndLocked
    <3>5. Kobo(i.pay) \in Nat
        BY <2>5, KoboTyped DEF MemType
    <3> QED
        BY <1>2, <1>3, <2>1, <2>3, <3>3, <3>4, <3>5
  <2>7. CASE DecrementLocked(Kobo(i.pay)) /\ ItemDone(a, i)
    <3>1. balance' = balance /\ Taken(a)' = 0
        BY <1>5, <2>7 DEF DecrementLocked
    <3> QED
        BY <1>2, <1>3, <2>1, <2>3, <3>1
  <2>8. CASE UNCHANGED walletVars /\ ItemDone(a, i)
    <3>1. balance' = balance /\ Taken(a)' = 0
        BY <1>5, <2>8 DEF walletVars
    <3> QED
        BY <1>2, <1>3, <2>1, <2>3, <3>1
  <2> QED
      BY <2>4, <2>6, <2>7, <2>8
<1>7. CASE RecordItem(a)
  <2>i. PICK i \in RunEntry : i = mem[a].item
      BY <1>7 DEF RecordItem, Typed, InMind
  <2>1. Taken(a) = Kobo(i.pay) /\ Kobo(i.pay) \in Nat
      BY <1>7, <2>i, KoboTyped DEF RecordItem, Taken
  <2>2. PICK ref \in Refs : ref = Ref(a, i)
      BY ActorTyped DEF Ref, Refs, RunEntry, Typed
  <2>3. \/ CreateTransaction(ref, [amount |-> Kobo(i.pay)]) /\ ItemDone(a, i)
        \/ UNCHANGED walletVars /\ Goto(a, "b_rollback", mem[a])
      BY <1>7, <2>i, <2>2, FaultFree DEF RecordItem
  <2>4. CASE CreateTransaction(ref, [amount |-> Kobo(i.pay)]) /\ ItemDone(a, i)
    <3>1. txs' = [txs EXCEPT ![ref] = [amount |-> Kobo(i.pay)]] /\ Withdrawn(ref) = 0 /\ balance' = balance
        BY <2>4 DEF CreateTransaction, Withdrawn
    <3>2. txs'[ref] = [amount |-> Kobo(i.pay)] /\ \A s \in Refs \ {ref} : txs'[s] = txs[s]
        BY <2>2, <3>1 DEF Typed, TypeOK
    <3>3. AllWithdrawn \in Int /\ AllWithdrawn' = AllWithdrawn + (Withdrawn(ref)' - 0)
        BY <2>2, <3>1, <3>2, WithdrawnMoves
    <3>4. Withdrawn(ref)' = Kobo(i.pay)
      <4>1. txs'[ref] # NoTx
          BY <2>1, <3>2, PayrollAssumption
      <4> QED
          BY <3>2, <4>1 DEF Withdrawn, Recorded
    <3>5. Taken(a)' = 0
        BY <1>5, <2>4
    <3> QED
        BY <1>2, <1>3, <2>1, <3>1, <3>3, <3>4, <3>5
  <2>5. CASE UNCHANGED walletVars /\ Goto(a, "b_rollback", mem[a])
    <3>1. mem'[a] = mem[a] /\ pc'[a] = "b_rollback"
        BY <2>5, GotoOwn
    <3>2. Taken(a)' = Kobo(i.pay)
        BY <2>i, <3>1 DEF Taken, Kobo
    <3>3. balance' = balance /\ txs' = txs
        BY <2>5 DEF walletVars
    <3>4. AllWithdrawn \in Int /\ AllWithdrawn' = AllWithdrawn
        BY <3>3, WithdrawnStays
    <3> QED
        BY <1>2, <1>3, <2>1, <3>2, <3>3, <3>4
  <2> QED
      BY <2>3, <2>4, <2>5
<1>8. CASE RollbackItem(a)
  <2> DEFINE i == mem[a].item
  <2>1. i \in RunEntry /\ Taken(a) = Kobo(i.pay) /\ Kobo(i.pay) \in Nat
      BY <1>8, KoboTyped DEF RollbackItem, Typed, InMind, Taken
  <2>2. IncrementBalance(Kobo(i.pay)) /\ ItemDone(a, i)
      BY <1>8, FaultFree DEF RollbackItem
  <2>3. balance' = balance + Kobo(i.pay) /\ txs' = txs
      BY <2>2 DEF IncrementBalance
  <2>4. Taken(a)' = 0
      BY <1>5, <2>2
  <2>5. AllWithdrawn \in Int /\ AllWithdrawn' = AllWithdrawn
      BY <2>3, WithdrawnStays
  <2> HIDE DEF i
  <2> QED
      BY <1>2, <1>3, <2>1, <2>3, <2>4, <2>5
<1> QED
    BY <1>6, <1>7, <1>8

\* Every other step leaves the wallet alone.
LEMMA OthersPayNothing ==
    ASSUME Typed, NEW a \in Actors, MovesOwn(a),
           Step(a), ~ChargeItem(a), ~RecordItem(a), ~RollbackItem(a)
    PROVE  /\ UNCHANGED walletVars
           /\ pc[a] \notin {"b_record", "b_rollback"} /\ pc'[a] \notin {"b_record", "b_rollback"}
<1> USE GotoOwn, FailOwn
<1>1. CASE StatusChange(a)
  <2>1. CASE \/ SubmitForApproval(a) \/ ApprovePayrollRun(a) \/ RejectPayrollRun(a)
             \/ AmendPayrollRun(a) \/ ReversePayrollRun(a)
      BY <2>1 DEF SubmitForApproval, ApprovePayrollRun, RejectPayrollRun, AmendPayrollRun,
                  ReversePayrollRun, Find
  <2>2. CASE SubmitSchedule(a) \/ ApproveSchedule(a)
    <3>1. UNCHANGED walletVars /\ pc[a] \in {"s_schedule", "a_schedule"}
        BY <2>2 DEF SubmitSchedule, ApproveSchedule
    <3>2. pc'[a] \notin {"b_record", "b_rollback"}
      <4>1. PICK next \in {"s_approved", "done"}, other \in {"done", "a_revert"} :
                SchedulePayout(a, next, other)
          BY <2>2 DEF SubmitSchedule, ApproveSchedule
      <4>2. \E label \in {"s_approved", "a_revert", "done"} :
                pc' = [pc EXCEPT ![a] = label] \/ pc' = [pc EXCEPT ![a] = label, ![Job(a[1])] = "waiting"]
          BY <4>1 DEF SchedulePayout
      <4> QED
          BY <4>2 DEF Typed, TypeOK
    <3> QED
        BY <3>1, <3>2
  <2>3. CASE SubmitSave(a) \/ ApproveSave(a)
      BY <2>3 DEF SubmitSave, ApproveSave, SaveRun, Saved, NotSaved
  <2>4. CASE ApproveRevert(a) \/ RejectSave(a) \/ AmendSave(a) \/ ReverseSave(a)
      BY <2>4 DEF ApproveRevert, RejectSave, AmendSave, ReverseSave, SaveRun, Saved, NotSaved
  <2> QED
      BY <1>1, <2>1, <2>2, <2>3, <2>4 DEF StatusChange
<1>2. CASE Processing(a)
  <2>1. CASE ProcessApprovedPayroll(a) \/ ProcessPayrollRunInstantly(a)
      BY <2>1 DEF ProcessApprovedPayroll, ProcessPayrollRunInstantly, Find
  <2>2. CASE StartProcessing(a)
      BY <2>2 DEF StartProcessing, SaveRun, Saved, NotSaved
  <2>3. CASE VerifyTransfers(a) \/ FinishRun(a)
      BY <2>3 DEF VerifyTransfers, FinishRun, NotSaved
  <2>4. CASE CreateBatch(a) \/ InitiateBulkTransfer(a) \/ UpdateRecord(a)
    <3>1. PICK label \in {"b_send", "verify", "b_charge", "b_update"} : \E m : Goto(a, label, m)
        BY <2>4 DEF CreateBatch, InitiateBulkTransfer, UpdateRecord
    <3>2. UNCHANGED walletVars /\ pc[a] \in {"b_create", "b_send", "b_update"}
        BY <2>4 DEF CreateBatch, InitiateBulkTransfer, UpdateRecord
    <3> QED
        BY <3>1, <3>2
  <2> QED
      BY <1>2, <2>1, <2>2, <2>3, <2>4 DEF Processing, ExecuteBatchTransfer
<1>3. CASE LoanStep(a)
  <2>1. \A i : LoanDone(a, i) => pc'[a] \in {"l_find", "done"}
      BY DEF LoanDone
  <2> QED
      BY <1>3, <2>1 DEF LoanStep, FindLoan, SaveLoan, FindLoanToCancel, CancelLoan
<1> QED
    BY <1>1, <1>2, <1>3 DEF Step

ChargesInv == Typed /\ JobsInOrder /\ ChargesAccounted

\* Every step keeps the sum.
LEMMA NextKeepsCharges == ChargesInv /\ [Next]_vars => ChargesInv'
<1> SUFFICES ASSUME ChargesInv, [Next]_vars PROVE ChargesInv'
    OBVIOUS
<1>1. Typed' /\ JobsInOrder'
    BY NextTyped, NextKeepsOrder DEF ChargesInv
<1>2. Typed /\ JobsInOrder /\ ChargesAccounted
    BY DEF ChargesInv
<1>3. SUFFICES ASSUME faults' = 0 PROVE ChargesAccounted'
    BY <1>1 DEF ChargesInv, ChargesAccounted
<1>4. CASE \E a \in Actors : Step(a)
  <2>1. PICK a \in Actors : Step(a)
      BY <1>4
  <2>2. MovesOwn(a)
      BY <1>2, <2>1, StepIsOwn
  <2>3. faults = 0
      BY <1>2, <1>3, <2>1, StepFaults, FaultFree
  <2>4. CASE ChargeItem(a) \/ RecordItem(a) \/ RollbackItem(a)
      BY <1>1, <1>2, <1>3, <2>2, <2>3, <2>4, RecordKeepsCharges
  <2>5. CASE ~ChargeItem(a) /\ ~RecordItem(a) /\ ~RollbackItem(a)
    <3>1. UNCHANGED <<balance, txs>>
        BY <1>2, <2>1, <2>2, <2>5, OthersPayNothing DEF walletVars
    <3>2. AllTaken' = AllTaken /\ AllWithdrawn' = AllWithdrawn /\ balance' = balance
        BY <1>1, <1>2, <2>1, <2>2, <2>5, <3>1, OthersPayNothing, PaysNothing
    <3> QED
        BY <1>2, <2>3, <3>2 DEF ChargesAccounted, AllTaken, AllWithdrawn
  <2> QED
      BY <2>4, <2>5
<1>5. CASE Crash
    BY <1>2, <1>3, <1>5, FaultFree DEF Crash
<1>6. CASE UNCHANGED vars
  <2>1. AllTaken' = AllTaken /\ AllWithdrawn' = AllWithdrawn /\ balance' = balance /\ faults' = faults
      BY <1>6 DEF vars, walletVars, control, AllTaken, AllWithdrawn, Taken, Withdrawn, Recorded, Kobo
  <2> QED
      BY <1>2, <1>3, <2>1 DEF ChargesAccounted, AllTaken, AllWithdrawn
<1> QED
    BY <1>4, <1>5, <1>6 DEF Next

\* Nothing is taken or withdrawn at the start.
LEMMA InitCharges == Init => ChargesInv
<1> SUFFICES ASSUME Init PROVE ChargesInv
    OBVIOUS
<1>1. Typed /\ JobsInOrder
    BY InitTyped, InitOrder
<1> DEFINE f == [a \in Actors |-> Taken(a)]
           g == [ref \in Refs |-> Withdrawn(ref)]
<1>2. AllTaken = SumFunctionOnSet(f, Actors) /\ AllWithdrawn = SumFunctionOnSet(g, Refs)
    BY DEF AllTaken, AllWithdrawn, SumFunction
<1>3. \A a \in Actors : f[a] = 0
  <2>1. \A a \in Actors : a[1] \in Calls /\ req[a[1]].op \in Ops
      BY PayrollAssumption DEF Init, Actors
  <2>2. \A a \in Actors : pc[a] \notin {"b_record", "b_rollback"}
      BY <2>1 DEF Init, Ops
  <2> QED
      BY <2>2 DEF Taken
<1>4. \A ref \in Refs : g[ref] = 0
    BY DEF Init, Withdrawn, Recorded
<1>5. AllTaken = 0 /\ AllWithdrawn = 0
  <2> HIDE DEF f, g
  <2> QED
      BY <1>2, <1>3, <1>4, FiniteWorld, SumOfZeros
<1>6. balance = InitialBalance /\ InitialBalance \in Nat
    BY PayrollAssumption DEF Init
<1> QED
    BY <1>1, <1>5, <1>6 DEF ChargesInv, ChargesAccounted, AllTaken, AllWithdrawn

\* As long as no fault happens the wallet has paid exactly the withdrawals on record and those
\* about to be recorded or given back (ChargesAccounted), for any number of processors.
THEOREM ChargesAreAccounted == Spec => []ChargesAccounted
<1>1. ChargesInv => ChargesAccounted
    BY DEF ChargesInv
<1> QED
    BY <1>1, InitCharges, NextKeepsCharges, PTL DEF Spec

-----------------------------------------------------------------------------
(* The entries a run is processed with *)

\* The labels between the start of processing and the end of the run.
Underway == {"b_create", "b_send", "b_update", "b_charge", "b_record", "b_rollback", "verify", "finish"}

\* The labels at which an actor works on the entries it has read.
Carrying == {"p_start", "l_find", "l_save"} \cup Underway

Covers(set) == \A e \in Staff : \E i \in set : i.emp = e

\* A run always has finitely many entries, one at least for every employee, and so have the
\* entries an actor has read, which the run still has.
Carried ==
    /\ \A r \in Runs : Covers(entries[r]) /\ IsFiniteSet(entries[r])
    /\ \A a \in Actors : pc[a] \in Carrying =>
           Covers(mem[a].entries) /\ mem[a].entries \subseteq entries[Run(a)]

\* The entries that an actor has in mind come from its read of the run.
LEMMA EntriesCarried ==
    ASSUME Typed, NEW a \in Actors, MovesOwn(a), Step(a), pc'[a] \in Carrying
    PROVE  \/ pc[a] \in Carrying /\ mem'[a].entries = mem[a].entries
           \/ mem'[a].entries = entries[Run(a)]
<1> USE DEF Carrying, Underway
<1>1. mem[a] \in MemType
    BY DEF Typed, TypeOK
<1>2. ~Fail(a)
    BY FailOwn
<1>3. \A label, m : Goto(a, label, m) /\ label # "done" => mem'[a] = m
    BY GotoOwn
<1>4. \A label, m : Goto(a, label, m) => pc'[a] = label
    BY GotoOwn
<1>5. CASE StatusChange(a)
  <2>1. \A new, next : SaveRun(a, new, next) => pc'[a] = next
      BY <1>2, <1>4 DEF SaveRun, Saved, NotSaved
  <2>2. CASE SubmitSchedule(a) \/ ApproveSchedule(a)
    <3>1. \E label \in {"s_approved", "a_revert", "done"} :
              pc' = [pc EXCEPT ![a] = label] \/ pc' = [pc EXCEPT ![a] = label, ![Job(a[1])] = "waiting"]
        BY <2>2 DEF SubmitSchedule, ApproveSchedule, SchedulePayout
    <3> QED
        BY <3>1 DEF Typed, TypeOK
  <2> QED
      BY <1>2, <1>4, <1>5, <2>1, <2>2
         DEF StatusChange, SubmitForApproval, SubmitSave, ApprovePayrollRun, ApproveSave,
             ApproveRevert, RejectPayrollRun, RejectSave, AmendPayrollRun, AmendSave,
             ReversePayrollRun, ReverseSave, Find, Saved, NotSaved, SaveRun
<1>6. CASE Processing(a)
  <2>1. CASE ProcessApprovedPayroll(a)
      BY <1>2, <1>4, <2>1 DEF ProcessApprovedPayroll
  <2>2. CASE ProcessPayrollRunInstantly(a)
    <3>1. mem'[a] = [Idle EXCEPT !.entries = entries[Run(a)]]
        BY <1>2, <1>3, <2>2 DEF ProcessPayrollRunInstantly, Find
    <3> QED
        BY <3>1 DEF Idle
  <2>3. CASE StartProcessing(a)
    <3>1. pc[a] = "p_start" /\ mem'[a] = mem[a]
        BY <1>2, <1>3, <2>3 DEF StartProcessing, SaveRun, Saved, NotSaved
    <3> QED
        BY <3>1
  <2>4. CASE VerifyTransfers(a)
    <3>1. pc[a] = "verify" /\ \E verdict : mem'[a] = [mem[a] EXCEPT !.verdict = verdict]
        BY <1>3, <2>4 DEF VerifyTransfers
    <3> QED
        BY <1>1, <3>1 DEF MemType
  <2>5. CASE FinishRun(a)
    <3>1. pc[a] = "finish" /\ mem'[a] = [mem[a] EXCEPT !.todo = Repaying(a)]
      <4>1. PICK label : Goto(a, label, [mem[a] EXCEPT !.todo = Repaying(a)])
          BY <1>2, <2>5 DEF FinishRun, NotSaved
      <4>2. label # "done"
          BY <1>4, <4>1
      <4> QED
          BY <1>3, <2>5, <4>1, <4>2 DEF FinishRun
    <3> QED
        BY <1>1, <3>1 DEF MemType
  <2>6. \A i : ItemDone(a, i) => mem'[a].entries = mem[a].entries
    <3> SUFFICES ASSUME NEW i, ItemDone(a, i) PROVE mem'[a].entries = mem[a].entries
        OBVIOUS
    <3>1. \/ \E todo : mem'[a] = [mem[a] EXCEPT !.todo = todo, !.item = NoEntry]
          \/ \E all : mem'[a] = [Idle EXCEPT !.entries = mem[a].entries, !.all = all]
        BY <1>3 DEF ItemDone
    <3> QED
        BY <1>1, <3>1 DEF MemType, Idle
  <2>7. CASE CreateBatch(a)
    <3>1. pc[a] = "b_create" /\ (mem'[a] = mem[a] \/ mem'[a] = [mem[a] EXCEPT !.stored = TRUE])
        BY <1>3, <2>7 DEF CreateBatch
    <3> QED
        BY <1>1, <3>1 DEF MemType
  <2>8. CASE InitiateBulkTransfer(a)
    <3>1. PICK m : /\ \E label \in {"verify", "b_charge", "b_update"} : Goto(a, label, m)
                   /\ m = mem[a] \/ \E answers : m = [mem[a] EXCEPT !.answers = answers, !.todo = Items(a)]
        BY <2>8 DEF InitiateBulkTransfer
    <3>2. pc[a] = "b_send" /\ mem'[a] = m
        BY <1>3, <2>8, <3>1 DEF InitiateBulkTransfer
    <3> QED
        BY <1>1, <3>1, <3>2 DEF MemType
  <2>9. CASE UpdateRecord(a)
    <3>1. PICK m : /\ \E label \in {"b_update", "b_charge"} : Goto(a, label, m)
                   /\ \E todo : m = [mem[a] EXCEPT !.todo = todo]
        BY <2>9 DEF UpdateRecord
    <3>2. pc[a] = "b_update" /\ mem'[a] = m
        BY <1>3, <2>9, <3>1 DEF UpdateRecord
    <3> QED
        BY <1>1, <3>1, <3>2 DEF MemType
  <2>10. CASE ChargeItem(a) \/ RecordItem(a) \/ RollbackItem(a)
    <3>1. pc[a] \in {"b_charge", "b_record", "b_rollback"}
        BY <2>10 DEF ChargeItem, RecordItem, RollbackItem
    <3>2. \/ \E i : ItemDone(a, i)
          \/ \E i : Goto(a, "b_record", [mem[a] EXCEPT !.item = i])
          \/ Goto(a, "b_rollback", mem[a])
        BY <2>10 DEF ChargeItem, RecordItem, RollbackItem
    <3>3. \/ mem'[a].entries = mem[a].entries
          \/ \E i : mem'[a] = [mem[a] EXCEPT !.item = i]
          \/ mem'[a] = mem[a]
        BY <1>3, <2>6, <3>2
    <3> QED
        BY <1>1, <3>1, <3>3 DEF MemType
  <2> QED
      BY <1>6, <2>1, <2>2, <2>3, <2>4, <2>5, <2>7, <2>8, <2>9, <2>10
         DEF Processing, ExecuteBatchTransfer
<1>7. CASE LoanStep(a)
  <2>1. CASE FindLoanToCancel(a) \/ CancelLoan(a)
      BY <1>2, <1>4, <2>1 DEF FindLoanToCancel, CancelLoan
  <2>2. CASE FindLoan(a) \/ SaveLoan(a)
    <3>1. pc[a] \in {"l_find", "l_save"}
        BY <2>2 DEF FindLoan, SaveLoan
    <3>2. PICK m, label : /\ Goto(a, label, m)
                          /\ \/ \E todo : m = [mem[a] EXCEPT !.todo = todo, !.item = NoEntry, !.loan = NoLoan]
                             \/ \E i, loan : m = [mem[a] EXCEPT !.item = i, !.loan = loan]
        BY <2>2 DEF FindLoan, SaveLoan, LoanDone
    <3>3. mem'[a] = m
        BY <1>3, <1>4, <3>2
    <3> QED
        BY <1>1, <3>1, <3>2, <3>3 DEF MemType
  <2> QED
      BY <1>7, <2>1, <2>2 DEF LoanStep
<1> QED
    BY <1>5, <1>6, <1>7 DEF Step

\* The image of a finite set under a function is finite and not larger.
LEMMA ImageFinite ==
    ASSUME NEW S, IsFiniteSet(S), NEW T, NEW f \in [S -> T], \A t \in T : \E s \in S : f[s] = t
    PROVE  IsFiniteSet(T) /\ Cardinality(T) <= Cardinality(S)
<1>1. f \in Surjection(S, T)
    BY DEF Surjection
<1> QED
    BY <1>1, FS_Surjection

\* A calculation yields finitely many entries.
LEMMA CalculatedFinite ==
    ASSUME NEW version, NEW pay
    PROVE  IsFiniteSet({[emp |-> e, version |-> version, pay |-> pay[e]] : e \in Staff})
<1> DEFINE T == {[emp |-> e, version |-> version, pay |-> pay[e]] : e \in Staff}
           f == [e \in Staff |-> [emp |-> e, version |-> version, pay |-> pay[e]]]
<1>1. f \in [Staff -> T] /\ \A t \in T : \E e \in Staff : f[e] = t
    OBVIOUS
<1> HIDE DEF f, T
<1>2. IsFiniteSet(T)
    BY <1>1, PayrollAssumption, ImageFinite
<1> QED
    BY <1>2 DEF T

\* No entry of a run is ever removed, and finitely many are added.
LEMMA EntriesGrow ==
    ASSUME Typed, NEW a \in Actors, Step(a)
    PROVE  \A r \in Runs : /\ entries[r] \subseteq entries'[r]
                           /\ IsFiniteSet(entries[r]) => IsFiniteSet(entries'[r])
<1>1. CASE AmendSave(a)
  <2>1. PICK version \in 1 .. MaxAmends, pay \in [Staff -> Pays] :
            \/ entries' = [entries EXCEPT ![Run(a)] =
                   @ \cup {[emp |-> e, version |-> version, pay |-> pay[e]] : e \in Staff}]
            \/ UNCHANGED entries
      BY <1>1 DEF AmendSave
  <2> DEFINE calculated == {[emp |-> e, version |-> version, pay |-> pay[e]] : e \in Staff}
  <2>2. IsFiniteSet(calculated)
      BY CalculatedFinite
  <2>3. \A r \in Runs : entries'[r] = entries[r] \/ entries'[r] = entries[r] \cup calculated
      BY <2>1 DEF Typed, TypeOK
  <2> HIDE DEF calculated
  <2> QED
      BY <2>2, <2>3, FS_Union
<1>2. CASE ~AmendSave(a)
  <2>1. UNCHANGED entries
    <3>1. CASE StatusChange(a)
        BY <1>2, <3>1 DEF StatusChange, SubmitForApproval, SubmitSchedule, SubmitSave, ApprovePayrollRun,
               ApproveSave, ApproveSchedule, ApproveRevert, RejectPayrollRun, RejectSave,
               AmendPayrollRun, ReversePayrollRun, ReverseSave, Find, runVars
    <3>2. CASE Processing(a)
        BY <3>2 DEF Processing, ProcessApprovedPayroll, ProcessPayrollRunInstantly, StartProcessing,
               VerifyTransfers, FinishRun, ExecuteBatchTransfer, CreateBatch, InitiateBulkTransfer,
               UpdateRecord, ChargeItem, RecordItem, RollbackItem, Find, runVars
    <3>3. CASE LoanStep(a)
        BY <3>3 DEF LoanStep, FindLoan, SaveLoan, FindLoanToCancel, CancelLoan, runVars
    <3> QED
        BY <3>1, <3>2, <3>3 DEF Step
  <2> QED
      BY <2>1
<1> QED
    BY <1>1, <1>2

\* Every step keeps the entries.
LEMMA NextKeepsCarried == Typed /\ JobsInOrder /\ Carried /\ [Next]_vars => Carried'
<1> SUFFICES ASSUME Typed, JobsInOrder, Carried, [Next]_vars PROVE Carried'
    OBVIOUS
<1>1. CASE \E a \in Actors : Step(a)
  <2>1. PICK a \in Actors : Step(a)
      BY <1>1
  <2>2. MovesOwn(a)
      BY <2>1, StepIsOwn
  <2>3. \A r \in Runs : entries[r] \subseteq entries'[r] /\ Covers(entries'[r]) /\ IsFiniteSet(entries'[r])
      BY <2>1, EntriesGrow DEF Carried, Covers
  <2>4. \A b \in Actors : Run(b)' = Run(b) /\ Run(b) \in Runs
      BY <2>2, ActorTyped DEF MovesOwn, Run, Typed
  <2>5. ASSUME NEW b \in Actors, pc'[b] \in Carrying
        PROVE  Covers(mem'[b].entries) /\ mem'[b].entries \subseteq entries'[Run(b)]
    <3>1. CASE b = a
      <4>1. \/ pc[a] \in Carrying /\ mem'[a].entries = mem[a].entries
            \/ mem'[a].entries = entries[Run(a)]
          BY <2>1, <2>2, <2>5, <3>1, EntriesCarried
      <4> QED
          BY <2>3, <2>4, <3>1, <4>1 DEF Carried, Covers
    <3>2. CASE b # a
      <4>1. pc'[b] = pc[b] /\ mem'[b] = mem[b]
        <5>1. "waiting" \notin Carrying
            BY DEF Carrying, Underway
        <5> QED
            BY <2>2, <2>5, <3>2, <5>1 DEF MovesOwn, OthersStay
      <4> QED
          BY <2>3, <2>4, <2>5, <4>1 DEF Carried
    <3> QED
        BY <3>1, <3>2
  <2> QED
      BY <2>3, <2>4, <2>5 DEF Carried, Covers
<1>2. CASE Crash
  <2>1. \A a \in Actors : pc'[a] \notin Carrying
      BY <1>2, CrashMoves DEF NotStarted, Ops, Carrying, Underway
  <2> QED
      BY <1>2, <2>1, CrashMoves DEF Carried, Covers, runVars
<1>3. CASE UNCHANGED vars
    BY <1>3 DEF vars, runVars, control, Carried, Covers, Run
<1> QED
    BY <1>1, <1>2, <1>3 DEF Next

\* A calculation has one entry for every employee.
LEMMA InitCarried == Init => Carried
<1> SUFFICES ASSUME Init PROVE Carried
    OBVIOUS
<1>1. \A r \in Runs : Covers(entries[r]) /\ IsFiniteSet(entries[r])
  <2>1. PICK pay \in [Runs -> [Staff -> Pays]] :
            entries = [r \in Runs |-> {[emp |-> e, version |-> 0, pay |-> pay[r][e]] : e \in Staff}]
      BY DEF Init
  <2>3. \A r \in Runs : IsFiniteSet(entries[r])
    <3> TAKE r \in Runs
    <3> DEFINE p == pay[r]
    <3>1. entries[r] = {[emp |-> e, version |-> 0, pay |-> p[e]] : e \in Staff}
        BY <2>1
    <3> HIDE DEF p
    <3>2. IsFiniteSet({[emp |-> e, version |-> 0, pay |-> p[e]] : e \in Staff})
        BY CalculatedFinite
    <3> QED
        BY <3>1, <3>2
  <2> SUFFICES ASSUME NEW r \in Runs, NEW e \in Staff PROVE \E i \in entries[r] : i.emp = e
      BY <2>3 DEF Covers
  <2> DEFINE i == [emp |-> e, version |-> 0, pay |-> pay[r][e]]
  <2>2. i \in entries[r] /\ i.emp = e
      BY <2>1
  <2> QED
      BY <2>2
<1>2. \A a \in Actors : a[1] \in Calls /\ req[a[1]].op \in Ops
    BY PayrollAssumption DEF Init, Actors
<1>3. \A a \in Actors : pc[a] \notin Carrying
    BY <1>2 DEF Init, Ops, Carrying, Underway
<1> QED
    BY <1>1, <1>3 DEF Carried

CarriedInv == Typed /\ JobsInOrder /\ Carried

\* Whoever processes a run has read an entry of every employee.
LEMMA CarriedCorrect == Spec => []CarriedInv
<1>1. Init => CarriedInv
    BY InitTyped, InitOrder, InitCarried DEF CarriedInv
<1>2. CarriedInv /\ [Next]_vars => CarriedInv'
    BY NextTyped, NextKeepsOrder, NextKeepsCarried DEF CarriedInv
<1> QED
    BY <1>1, <1>2, PTL DEF Spec

-----------------------------------------------------------------------------
(* Runs that are attended to *)

\* The labels at which an actor is on its way to process an approved run.
Following == {"a_schedule", "waiting", "p_find", "p_start"}

\* Somebody sees to it that run r does not stay approved, or processing.
Attended(r) ==
    /\ status[r] = "approved" => \E a \in Actors : Run(a) = r /\ pc[a] \in Following
    /\ status[r] = "processing" => \E a \in Actors : Run(a) = r /\ pc[a] \in Underway

Sound == faults = 0 /\ config.requiresApproval /\ config.mapped # {}

AllAttended == Sound => \A r \in Runs : Attended(r)

\* What the actor of a step hands on: its run is attended by itself or by its job afterwards.
HandsOn(a) ==
    /\ \A r \in Runs \ {Run(a)} : status'[r] = status[r]
    /\ status'[Run(a)] = "approved" =>
           \/ pc'[a] \in Following
           \/ Job(a[1]) \in Actors /\ pc'[Job(a[1])] = "waiting"
           \/ status[Run(a)] = "approved" /\ pc[a] \notin Following
    /\ status'[Run(a)] = "processing" =>
           pc'[a] \in Underway \/ (status[Run(a)] = "processing" /\ pc[a] \notin Underway)

\* Handing on keeps the runs attended.
LEMMA HandsOnAttends ==
    ASSUME Typed, NEW a \in Actors, MovesOwn(a), HandsOn(a), \A r \in Runs : Attended(r)
    PROVE  \A r \in Runs : Attended(r)'
<1>1. \A b \in Actors : Run(b)' = Run(b) /\ Run(b) \in Runs
    BY ActorTyped DEF MovesOwn, Run, Typed
<1>2. \A b \in Actors \ {a} : pc[b] \in Following \cup Underway => pc'[b] = pc[b]
  <2>1. "unscheduled" \notin Following \cup Underway
      BY DEF Following, Underway
  <2> QED
      BY <2>1 DEF MovesOwn, OthersStay
<1>3. "waiting" \in Following
    BY DEF Following
<1> SUFFICES ASSUME NEW r \in Runs PROVE Attended(r)'
    OBVIOUS
<1>4. ASSUME status'[r] = "approved"
      PROVE  \E b \in Actors : Run(b) = r /\ pc'[b] \in Following
  <2>1. CASE r # Run(a)
    <3>1. status[r] = "approved"
        BY <1>4, <2>1 DEF HandsOn
    <3>2. PICK b \in Actors : Run(b) = r /\ pc[b] \in Following
        BY <3>1 DEF Attended
    <3> QED
        BY <1>2, <2>1, <3>2
  <2>2. CASE r = Run(a)
    <3>1. CASE pc'[a] \in Following
        BY <2>2, <3>1
    <3>2. CASE Job(a[1]) \in Actors /\ pc'[Job(a[1])] = "waiting"
        BY <1>3, <2>2, <3>2 DEF Job, Run
    <3>3. CASE status[Run(a)] = "approved" /\ pc[a] \notin Following
      <4>1. PICK b \in Actors : Run(b) = r /\ pc[b] \in Following
          BY <2>2, <3>3 DEF Attended
      <4> QED
          BY <1>2, <3>3, <4>1
    <3> QED
        BY <1>4, <2>2, <3>1, <3>2, <3>3 DEF HandsOn
  <2> QED
      BY <2>1, <2>2
<1>5. ASSUME status'[r] = "processing"
      PROVE  \E b \in Actors : Run(b) = r /\ pc'[b] \in Underway
  <2>1. CASE r # Run(a)
    <3>1. status[r] = "processing"
        BY <1>5, <2>1 DEF HandsOn
    <3>2. PICK b \in Actors : Run(b) = r /\ pc[b] \in Underway
        BY <3>1 DEF Attended
    <3> QED
        BY <1>2, <2>1, <3>2
  <2>2. CASE r = Run(a)
    <3>1. CASE pc'[a] \in Underway
        BY <2>2, <3>1
    <3>2. CASE status[Run(a)] = "processing" /\ pc[a] \notin Underway
      <4>1. PICK b \in Actors : Run(b) = r /\ pc[b] \in Underway
          BY <2>2, <3>2 DEF Attended
      <4> QED
          BY <1>2, <3>2, <4>1
    <3> QED
        BY <1>5, <2>2, <3>1, <3>2 DEF HandsOn
  <2> QED
      BY <2>1, <2>2
<1> QED
    BY <1>1, <1>4, <1>5 DEF Attended

\* Every step of a sound system hands on its run.
LEMMA StepHandsOn ==
    ASSUME PayoutInv, JobsInOrder, Carried, Sound, faults' = 0, NEW a \in Actors, Step(a)
    PROVE  HandsOn(a)
<1> USE DEF Following, Underway
<1>1. /\ Typed /\ MovesOwn(a) /\ ~ \E kind : Fault(kind)
      /\ status \in [Runs -> Statuses] /\ Run(a) \in Runs
    BY StepIsOwn, FaultFree, ActorTyped DEF PayoutInv, Typed, TypeOK
<1>2. \A label, m : Goto(a, label, m) => pc'[a] = label
    BY <1>1, GotoOwn
<1>3. \A new, next : SaveRun(a, new, next) \/ Saved(a, new, next) =>
          status' = [status EXCEPT ![Run(a)] = new] /\ pc'[a] = next
    BY <1>1, <1>2 DEF SaveRun, Saved, NotSaved
<1>4. ~NotSaved(a)
    BY <1>1 DEF NotSaved
<1>5. CASE StatusChange(a)
  <2>1. CASE \/ SubmitForApproval(a) \/ ApprovePayrollRun(a) \/ RejectPayrollRun(a)
             \/ AmendPayrollRun(a) \/ ReversePayrollRun(a)
    <3>1. status' = status /\ pc[a] \notin Following \cup Underway
        BY <2>1 DEF SubmitForApproval, ApprovePayrollRun, RejectPayrollRun, AmendPayrollRun,
                    ReversePayrollRun, Find, runVars
    <3> QED
        BY <3>1 DEF HandsOn
  <2>2. CASE SubmitSchedule(a) \/ ApproveSchedule(a)
    <3>1. status' = status /\ pc[a] = "a_schedule" /\ SchedulePayout(a, "done", "a_revert")
        BY <1>1, <2>2 DEF SubmitSchedule, ApproveSchedule, runVars, PayoutInv, OwnPath, Sound
    <3>2. pc' = [pc EXCEPT ![a] = "done", ![Job(a[1])] = "waiting"]
        BY <1>1, <3>1 DEF SchedulePayout
    <3>3. Job(a[1]) \in Actors /\ pc'[Job(a[1])] = "waiting"
        BY <1>1, <3>2, ActorTyped DEF Typed, TypeOK
    <3> QED
        BY <3>1, <3>3 DEF HandsOn
  <2>3. CASE SubmitSave(a)
    <3>1. pc[a] = "s_pending" /\ SaveRun(a, "pending_approval", "done")
        BY <2>3 DEF SubmitSave, PayoutInv, OwnPath, Sound
    <3> QED
        BY <1>1, <1>3, <3>1 DEF HandsOn
  <2>4. CASE ApproveSave(a)
    <3>1. \E next \in {"p_find", "a_schedule"} : Saved(a, "approved", next)
        BY <1>4, <2>4 DEF ApproveSave
    <3> QED
        BY <1>1, <1>3, <3>1 DEF HandsOn
  <2>5. CASE ApproveRevert(a) \/ RejectSave(a) \/ AmendSave(a) \/ ReverseSave(a)
    <3>1. \E new \in {"pending_approval", "rejected", "draft"} : SaveRun(a, new, "done")
        BY <2>5 DEF ApproveRevert, RejectSave, AmendSave, ReverseSave, SaveRun
    <3> QED
        BY <1>1, <1>3, <3>1 DEF HandsOn
  <2> QED
      BY <1>5, <2>1, <2>2, <2>3, <2>4, <2>5 DEF StatusChange
<1>6. CASE Processing(a)
  <2>1. CASE ProcessApprovedPayroll(a)
    <3>1. status' = status /\ pc[a] = "waiting" /\ (status[Run(a)] = "approved" => pc'[a] = "p_find")
        BY <1>1, <1>2, <2>1 DEF ProcessApprovedPayroll, runVars
    <3> QED
        BY <3>1 DEF HandsOn
  <2>2. CASE ProcessPayrollRunInstantly(a)
    <3>1. status' = status /\ pc[a] \in {"process", "p_find"} /\ (status[Run(a)] = "approved" => pc'[a] = "p_start")
        BY <1>1, <1>2, <2>2 DEF ProcessPayrollRunInstantly, Find, runVars
    <3> QED
        BY <3>1 DEF HandsOn
  <2>3. CASE StartProcessing(a)
    <3>1. Items(a) # {}
      <4>1. PICK e : e \in config.mapped
          BY DEF Sound
      <4>2. config.mapped \subseteq Staff
          BY <1>1, PayrollAssumption DEF Typed, TypeOK
      <4>3. PICK i \in mem[a].entries : i.emp = e
          BY <2>3, <4>1, <4>2 DEF StartProcessing, Carried, Covers, Carrying
      <4> QED
          BY <4>1, <4>3 DEF Items
    <3>2. \E next \in {"verify", "b_create"} : SaveRun(a, "processing", next)
        BY <2>3, <3>1 DEF StartProcessing
    <3> QED
        BY <1>1, <1>3, <3>2 DEF HandsOn
  <2>4. CASE VerifyTransfers(a)
    <3>1. status' = status /\ pc[a] = "verify" /\ pc'[a] = "finish"
        BY <1>2, <2>4 DEF VerifyTransfers, runVars
    <3> QED
        BY <3>1 DEF HandsOn
  <2>5. CASE FinishRun(a)
    <3>1. status' = [status EXCEPT ![Run(a)] = mem[a].verdict]
        BY <1>4, <2>5 DEF FinishRun
    <3>2. mem[a].verdict \in {"completed", "failed"}
        BY <1>1, <2>5, ActorTyped DEF FinishRun, Typed, InMind, MemType
    <3> QED
        BY <1>1, <3>1, <3>2 DEF HandsOn
  <2>6. CASE CreateBatch(a) \/ InitiateBulkTransfer(a) \/ UpdateRecord(a)
    <3>1. PICK label \in {"b_send", "verify", "b_charge", "b_update"} : \E m : Goto(a, label, m)
        BY <2>6 DEF CreateBatch, InitiateBulkTransfer, UpdateRecord
    <3>2. status' = status /\ pc[a] \in {"b_create", "b_send", "b_update"}
        BY <2>6 DEF CreateBatch, InitiateBulkTransfer, UpdateRecord, runVars
    <3> QED
        BY <1>2, <3>1, <3>2 DEF HandsOn
  <2>7. CASE ChargeItem(a) \/ RecordItem(a) \/ RollbackItem(a)
    <3>1. status' = status /\ pc[a] \in {"b_charge", "b_record", "b_rollback"}
        BY <2>7 DEF ChargeItem, RecordItem, RollbackItem, runVars
    <3>2. \A i : ItemDone(a, i) => pc'[a] \in {"b_charge", "verify"}
        BY <1>2 DEF ItemDone
    <3>3. pc'[a] \in {"b_charge", "verify", "b_record", "b_rollback"}
        BY <1>2, <2>7, <3>2 DEF ChargeItem, RecordItem, RollbackItem
    <3> QED
        BY <3>1, <3>3 DEF HandsOn
  <2> QED
      BY <1>6, <2>1, <2>2, <2>3, <2>4, <2>5, <2>6, <2>7 DEF Processing, ExecuteBatchTransfer
<1>7. CASE LoanStep(a)
  <2>1. status' = status /\ pc[a] \in {"l_find", "l_save", "cancel", "c_save"}
      BY <1>7 DEF LoanStep, FindLoan, SaveLoan, FindLoanToCancel, CancelLoan, runVars
  <2> QED
      BY <2>1 DEF HandsOn
<1> QED
    BY <1>5, <1>6, <1>7 DEF Step

\* Every step keeps the runs attended.
LEMMA NextKeepsAttended == PayoutInv /\ CarriedInv /\ AllAttended /\ [Next]_vars => AllAttended'
<1> SUFFICES ASSUME PayoutInv, CarriedInv, AllAttended, [Next]_vars, Sound'
             PROVE  \A r \in Runs : Attended(r)'
    BY DEF AllAttended
<1>1. Typed /\ JobsInOrder /\ Carried /\ faults' = 0
    BY DEF CarriedInv, Sound
<1>2. CASE \E a \in Actors : Step(a)
  <2>1. PICK a \in Actors : Step(a) /\ MovesOwn(a)
      BY <1>1, <1>2, StepIsOwn
  <2>2. faults = 0
      BY <1>1, <2>1, StepFaults, FaultFree
  <2>3. Sound
      BY <2>1, <2>2 DEF Sound, MovesOwn
  <2>4. HandsOn(a)
      BY <1>1, <2>1, <2>3, StepHandsOn
  <2> QED
      BY <1>1, <2>1, <2>3, <2>4, HandsOnAttends DEF AllAttended
<1>3. CASE Crash
    BY <1>1, <1>3, FaultFree DEF Crash
<1>4. CASE UNCHANGED vars
    BY <1>4 DEF vars, runVars, control, AllAttended, Sound, Attended, Run
<1> QED
    BY <1>2, <1>3, <1>4 DEF Next

\* Without faults, where approval is required and some entry can be paid, no run is left
\* approved or processing once whatever has begun is over (NoRunLeftBehind): whoever approves
\* a run hands it on to a job, and whoever saves it as processing saves another status.
THEOREM NoRunIsLeftBehind == Spec => []NoRunLeftBehind
<1>1. Init => AllAttended
    BY DEF Init, AllAttended, Attended
<1>2. AllAttended => NoRunLeftBehind
  <2> SUFFICES ASSUME AllAttended, Sound, Quiet, NEW r \in Runs
               PROVE  status[r] \notin {"approved", "processing"}
      BY DEF NoRunLeftBehind, Sound
  <2>1. \A a \in Actors : pc[a] \notin Following \cup Underway
      BY DEF Quiet, Ops, Following, Underway
  <2> QED
      BY <2>1 DEF AllAttended, Attended
<1> QED
    BY <1>1, <1>2, PayoutInvCorrect, CarriedCorrect, NextKeepsAttended, PTL DEF Spec

-----------------------------------------------------------------------------
(* Records of the transfers *)

\* The references of the transfers that a run asks for.
Wanted(r) == {<<r, e>> : e \in config.mapped}

\* The labels at which an actor relies on records.
Relying == {"b_update", "b_charge", "b_record", "b_rollback", "finish"}

\* What an actor knows of the records.
Knows(a) ==
    /\ mem[a].stored \/ mem[a].all => ItemRefs(a) \subseteq transfers
    /\ pc[a] \in {"b_charge", "b_record", "b_rollback"} => ItemRefs(a) \subseteq transfers
    /\ pc[a] = "b_update" => \A i \in Items(a) : i \in mem[a].todo \/ Ref(a, i) \in transfers
    /\ pc[a] = "finish" /\ mem[a].verdict = "completed" => Wanted(Run(a)) \subseteq transfers

\* The items of an actor are those of the entries it has read.
LEMMA ItemsSame ==
    ASSUME NEW a, mem'[a].entries = mem[a].entries, UNCHANGED <<config, req>>
    PROVE  /\ Items(a)' = Items(a) /\ ItemRefs(a)' = ItemRefs(a) /\ Run(a)' = Run(a)
           /\ Wanted(Run(a))' = Wanted(Run(a))
           /\ \A i : Ref(a, i)' = Ref(a, i)
    BY DEF Items, ItemRefs, Ref, Run, Wanted

\* Records only become more.
LEMMA KnowsOn ==
    ASSUME NEW a, Knows(a), transfers \subseteq transfers', UNCHANGED <<config, req>>,
           \/ mem'[a] = mem[a] /\ pc'[a] = pc[a]
           \/ /\ pc'[a] \notin Relying
              /\ \/ ~mem'[a].stored /\ ~mem'[a].all
                 \/ /\ mem'[a].entries = mem[a].entries
                    /\ mem'[a].stored = mem[a].stored /\ mem'[a].all = mem[a].all
    PROVE  Knows(a)'
<1>1. CASE mem'[a].entries = mem[a].entries
    BY <1>1, ItemsSame DEF Knows, Relying
<1>2. CASE mem'[a].entries # mem[a].entries
    BY <1>2 DEF Knows, Relying
<1> QED
    BY <1>1, <1>2

\* What a step that inserts no records leaves in mind.
Forgets(a) ==
    /\ UNCHANGED transfers
    /\ pc'[a] \notin Relying
    /\ \/ ~mem'[a].stored /\ ~mem'[a].all
       \/ /\ mem'[a].entries = mem[a].entries
          /\ mem'[a].stored = mem[a].stored /\ mem'[a].all = mem[a].all

\* Every step that inserts no records but those below forgets what it does not take along.
LEMMA PlainForgets ==
    ASSUME Typed, NEW a \in Actors, MovesOwn(a),
           StatusChange(a) \/ LoanStep(a) \/ ProcessApprovedPayroll(a)
           \/ ProcessPayrollRunInstantly(a) \/ StartProcessing(a) \/ FinishRun(a)
    PROVE  Forgets(a)
<1> USE DEF Relying
<1>1. mem[a] \in MemType /\ ~Idle.stored /\ ~Idle.all
    BY DEF Typed, TypeOK, Idle
<1>2. \A label, m : Goto(a, label, m) => pc'[a] = label /\ (mem'[a] = m \/ mem'[a] = Idle)
    BY GotoOwn
<1>3. Fail(a) => pc'[a] \notin Relying /\ mem'[a] = Idle
    BY FailOwn
<1>4. \A new, next : SaveRun(a, new, next) /\ next \notin Relying =>
          pc'[a] \notin Relying /\ (mem'[a] = mem[a] \/ mem'[a] = Idle)
    BY <1>2, <1>3 DEF SaveRun, Saved, NotSaved
<1>5. CASE StatusChange(a)
  <2>1. CASE SubmitSchedule(a) \/ ApproveSchedule(a)
    <3>1. mem' = mem /\ UNCHANGED transfers
        BY <2>1 DEF SubmitSchedule, ApproveSchedule, SchedulePayout, payVars
    <3>2. \E label \in {"s_approved", "a_revert", "done"} :
              pc' = [pc EXCEPT ![a] = label] \/ pc' = [pc EXCEPT ![a] = label, ![Job(a[1])] = "waiting"]
        BY <2>1 DEF SubmitSchedule, ApproveSchedule, SchedulePayout
    <3>3. pc'[a] \in {"s_approved", "a_revert", "done", "waiting"}
        BY <3>2 DEF Typed, TypeOK
    <3> QED
        BY <3>1, <3>3 DEF Forgets
  <2>2. CASE \/ SubmitForApproval(a) \/ ApprovePayrollRun(a) \/ RejectPayrollRun(a)
             \/ AmendPayrollRun(a) \/ ReversePayrollRun(a)
      BY <1>1, <1>2, <1>3, <2>2 DEF SubmitForApproval, ApprovePayrollRun, RejectPayrollRun,
         AmendPayrollRun, ReversePayrollRun, Find, Forgets, payVars
  <2>3. CASE \/ SubmitSave(a) \/ ApproveSave(a) \/ ApproveRevert(a) \/ RejectSave(a)
             \/ AmendSave(a) \/ ReverseSave(a)
    <3>1. UNCHANGED transfers
        BY <2>3 DEF SubmitSave, ApproveSave, ApproveRevert, RejectSave, AmendSave, ReverseSave, payVars
    <3>2. \E new, next : next \notin Relying /\ SaveRun(a, new, next)
        BY <2>3 DEF SubmitSave, ApproveSave, ApproveRevert, RejectSave, AmendSave, ReverseSave, SaveRun
    <3> QED
        BY <1>1, <1>4, <3>1, <3>2 DEF Forgets
  <2> QED
      BY <1>5, <2>1, <2>2, <2>3 DEF StatusChange
<1>6. CASE LoanStep(a)
  <2>1. CASE FindLoanToCancel(a) \/ CancelLoan(a)
    <3>1. UNCHANGED transfers
        BY <2>1 DEF FindLoanToCancel, CancelLoan, payVars
    <3>2. \/ Fail(a) \/ Goto(a, "done", Idle)
          \/ \E loan : Goto(a, "c_save", [Idle EXCEPT !.loan = loan])
        BY <2>1 DEF FindLoanToCancel, CancelLoan
    <3>3. CASE Fail(a) \/ Goto(a, "done", Idle)
        BY <1>1, <1>2, <1>3, <3>1, <3>3 DEF Forgets
    <3>4. CASE ~Fail(a) /\ ~Goto(a, "done", Idle)
      <4>1. PICK loan : Goto(a, "c_save", [Idle EXCEPT !.loan = loan])
          BY <3>2, <3>4
      <4>2. pc'[a] = "c_save" /\ (mem'[a] = [Idle EXCEPT !.loan = loan] \/ mem'[a] = Idle)
          BY <1>2, <4>1
      <4> QED
          BY <1>1, <3>1, <4>2 DEF Forgets, Idle
    <3> QED
        BY <3>3, <3>4
  <2>2. CASE FindLoan(a) \/ SaveLoan(a)
    <3>1. UNCHANGED transfers
        BY <2>2 DEF FindLoan, SaveLoan, payVars
    <3>2. PICK m, label : /\ Goto(a, label, m) /\ label \in {"l_find", "l_save", "done"}
                          /\ \/ \E todo : m = [mem[a] EXCEPT !.todo = todo, !.item = NoEntry, !.loan = NoLoan]
                             \/ \E i, loan : m = [mem[a] EXCEPT !.item = i, !.loan = loan]
        BY <2>2 DEF FindLoan, SaveLoan, LoanDone
    <3>3. pc'[a] = label /\ (mem'[a] = m \/ mem'[a] = Idle)
        BY <1>2, <3>2
    <3>4. m.entries = mem[a].entries /\ m.stored = mem[a].stored /\ m.all = mem[a].all
        BY <1>1, <3>2 DEF MemType
    <3> QED
        BY <1>1, <3>1, <3>2, <3>3, <3>4 DEF Forgets
  <2> QED
      BY <1>6, <2>1, <2>2 DEF LoanStep
<1>7. CASE ProcessApprovedPayroll(a)
    BY <1>1, <1>2, <1>3, <1>7 DEF ProcessApprovedPayroll, Forgets, payVars
<1>8. CASE ProcessPayrollRunInstantly(a)
  <2>1. UNCHANGED transfers
      BY <1>8 DEF ProcessPayrollRunInstantly, Find, payVars
  <2>2. Goto(a, "p_start", [Idle EXCEPT !.entries = entries[Run(a)]]) \/ Fail(a)
      BY <1>8 DEF ProcessPayrollRunInstantly, Find
  <2>3. pc'[a] \notin Relying /\ ~mem'[a].stored /\ ~mem'[a].all
      BY <1>1, <1>2, <1>3, <2>2 DEF Idle
  <2> QED
      BY <2>1, <2>3 DEF Forgets
<1>9. CASE StartProcessing(a)
  <2>1. UNCHANGED transfers
      BY <1>9 DEF StartProcessing, payVars
  <2>2. Fail(a) \/ \E next \in {"verify", "b_create"} : SaveRun(a, "processing", next)
      BY <1>9 DEF StartProcessing, NotSaved
  <2> QED
      BY <1>1, <1>3, <1>4, <2>1, <2>2 DEF Forgets
<1>10. CASE FinishRun(a)
  <2>1. UNCHANGED transfers
      BY <1>10 DEF FinishRun, payVars
  <2>2. Fail(a) \/ \E next \in {"l_find", "done"} : Goto(a, next, [mem[a] EXCEPT !.todo = Repaying(a)])
      BY <1>10 DEF FinishRun, NotSaved
  <2>3. pc'[a] \notin Relying /\ (mem'[a] = Idle \/ mem'[a] = [mem[a] EXCEPT !.todo = Repaying(a)])
      BY <1>2, <1>3, <2>2
  <2> QED
      BY <1>1, <2>1, <2>3 DEF Forgets, MemType
<1> QED
    BY <1>5, <1>6, <1>7, <1>8, <1>9, <1>10

\* As many records of a run as it has items are all it asks for.
LEMMA EnoughIsAll ==
    ASSUME NEW M, IsFiniteSet(M), NEW items, IsFiniteSet(items), NEW r,
           \A i \in items : i.emp \in M, \A e \in M : \E i \in items : i.emp = e,
           NEW found, found \subseteq {<<r, e>> : e \in M}, Cardinality(found) >= Cardinality(items)
    PROVE  found = {<<r, e>> : e \in M}
<1> DEFINE D == {<<r, e>> : e \in M}
           f == [e \in M |-> <<r, e>>]
           g == [i \in items |-> i.emp]
<1>1. IsFiniteSet(D) /\ Cardinality(D) <= Cardinality(M)
  <2>1. f \in [M -> D] /\ \A d \in D : \E e \in M : f[e] = d
      OBVIOUS
  <2> HIDE DEF f, D
  <2> QED
      BY <2>1, ImageFinite
<1>2. Cardinality(M) <= Cardinality(items)
  <2>1. g \in [items -> M] /\ \A e \in M : \E i \in items : g[i] = e
      OBVIOUS
  <2> HIDE DEF g
  <2> QED
      BY <2>1, ImageFinite
<1>3. found \in SUBSET D
    OBVIOUS
<1> HIDE DEF D
<1>4. /\ IsFiniteSet(found) /\ Cardinality(found) <= Cardinality(D)
      /\ Cardinality(D) = Cardinality(found) => D = found
    BY <1>1, <1>3, FS_Subset
<1>5. {Cardinality(D), Cardinality(M), Cardinality(items), Cardinality(found)} \subseteq Nat
    BY <1>1, <1>4, FS_CardinalityType
<1>6. Cardinality(D) = Cardinality(found)
    BY <1>1, <1>2, <1>4, <1>5
<1> QED
    BY <1>4, <1>6 DEF D

\* The records still to be updated are those of items.
Payable(a) == pc[a] = "b_update" => mem[a].todo \subseteq Items(a)

\* The records, as long as no fault happens.
Listed ==
    /\ transfers \subseteq Runs \X config.mapped
    /\ \A a \in Actors : Payable(a)
    /\ faults = 0 =>
           /\ \A a \in Actors : Knows(a)
           /\ \A r \in Runs : status[r] = "completed" => Wanted(r) \subseteq transfers

\* The rows and the records of a batch.
LEMMA BatchLists ==
    ASSUME Typed, Carried, Listed, faults = 0, faults' = 0, NEW a \in Actors, MovesOwn(a),
           ExecuteBatchTransfer(a)
    PROVE  Knows(a)' /\ transfers \subseteq transfers'
<1>1. /\ mem[a] \in MemType /\ Knows(a) /\ UNCHANGED <<config, req>>
      /\ ~ \E kind : Fault(kind)
    BY FaultFree DEF Typed, TypeOK, Listed, MovesOwn
<1>2. \A label, m : Goto(a, label, m) => pc'[a] = label /\ (label # "done" => mem'[a] = m)
    BY GotoOwn
<1>3. CASE CreateBatch(a)
  <2>1. PICK m : Goto(a, "b_send", m)
                 /\ \/ transfers' = transfers \cup ItemRefs(a) /\ m = [mem[a] EXCEPT !.stored = TRUE]
                    \/ UNCHANGED transfers /\ m = mem[a]
      BY <1>1, <1>3 DEF CreateBatch
  <2>2. pc'[a] = "b_send" /\ mem'[a] = m
      BY <1>2, <2>1
  <2>3. m.entries = mem[a].entries /\ m.all = mem[a].all
      BY <1>1, <2>1 DEF MemType
  <2>4. ItemRefs(a)' = ItemRefs(a)
      BY <1>1, <2>2, <2>3, ItemsSame
  <2>5. m.stored => ItemRefs(a) \subseteq transfers'
      BY <1>1, <2>1 DEF MemType, Knows
  <2> QED
      BY <1>1, <2>1, <2>2, <2>3, <2>4, <2>5 DEF Knows
<1>4. CASE InitiateBulkTransfer(a)
  <2>1. UNCHANGED transfers
      BY <1>4 DEF InitiateBulkTransfer
  <2>2. PICK m, label :
            /\ Goto(a, label, m)
            /\ \/ m = mem[a] /\ label = "verify"
               \/ /\ \E answers : m = [mem[a] EXCEPT !.answers = answers, !.todo = Items(a)]
                  /\ label = IF mem[a].stored THEN "b_charge" ELSE "b_update"
      BY <1>4 DEF InitiateBulkTransfer
  <2>3. pc'[a] = label /\ mem'[a] = m
      BY <1>2, <2>2
  <2>4. m.entries = mem[a].entries /\ m.all = mem[a].all /\ m.stored = mem[a].stored
      BY <1>1, <2>2 DEF MemType
  <2>5. /\ ItemRefs(a)' = ItemRefs(a) /\ Items(a)' = Items(a)
        /\ \A i : Ref(a, i)' = Ref(a, i)
      BY <1>1, <2>3, <2>4, ItemsSame
  <2>6. label = "b_update" => m.todo = Items(a)
      BY <1>1, <2>2 DEF MemType
  <2>7. label \in {"verify", "b_charge", "b_update"} /\ (label = "b_charge" => mem[a].stored)
      BY <2>2
  <2> QED
      BY <1>1, <2>1, <2>3, <2>4, <2>5, <2>6, <2>7 DEF Knows
<1>5. CASE UpdateRecord(a)
  <2>i. PICK i \in mem[a].todo : \E m, label :
            /\ Goto(a, label, m)
            /\ transfers' = transfers \cup {Ref(a, i)}
            /\ \/ m = [mem[a] EXCEPT !.todo = mem[a].todo \ {i}] /\ label = "b_update"
               \/ /\ mem[a].todo \ {i} = {} /\ label = "b_charge"
                  /\ m = [mem[a] EXCEPT !.todo = Items(a)]
      BY <1>1, <1>5 DEF UpdateRecord
  <2>1. PICK m, label :
            /\ Goto(a, label, m)
            /\ transfers' = transfers \cup {Ref(a, i)}
            /\ \/ m = [mem[a] EXCEPT !.todo = mem[a].todo \ {i}] /\ label = "b_update"
               \/ /\ mem[a].todo \ {i} = {} /\ label = "b_charge"
                  /\ m = [mem[a] EXCEPT !.todo = Items(a)]
      BY <2>i
  <2>2. pc'[a] = label /\ mem'[a] = m
      BY <1>2, <2>1
  <2>3. m.entries = mem[a].entries /\ m.all = mem[a].all /\ m.stored = mem[a].stored
      BY <1>1, <2>1 DEF MemType
  <2>4. /\ ItemRefs(a)' = ItemRefs(a) /\ Items(a)' = Items(a)
        /\ \A j : Ref(a, j)' = Ref(a, j)
      BY <1>1, <2>2, <2>3, ItemsSame
  <2>5. \A j \in Items(a) : j \in mem[a].todo \ {i} \/ Ref(a, j) \in transfers'
      BY <1>1, <1>5, <2>1 DEF Knows, UpdateRecord
  <2>6. label = "b_update" => m.todo = mem[a].todo \ {i}
      BY <1>1, <2>1 DEF MemType
  <2>7. label = "b_charge" => ItemRefs(a) \subseteq transfers'
      BY <2>1, <2>5 DEF ItemRefs
  <2>8. label \in {"b_update", "b_charge"} /\ transfers \subseteq transfers'
      BY <2>1
  <2> QED
      BY <1>1, <2>2, <2>3, <2>4, <2>5, <2>6, <2>7, <2>8 DEF Knows
<1>6. CASE ChargeItem(a) \/ RecordItem(a) \/ RollbackItem(a)
  <2>1. ItemRefs(a) \subseteq transfers
      BY <1>1, <1>6 DEF ChargeItem, RecordItem, RollbackItem, Knows
  <2>2. UNCHANGED transfers
      BY <1>6 DEF ChargeItem, RecordItem, RollbackItem, payVars
  <2>3. PICK m, label :
            /\ Goto(a, label, m) /\ label \in {"b_charge", "b_record", "b_rollback", "verify"}
            /\ \/ \E i, todo : m = [mem[a] EXCEPT !.todo = todo, !.item = i]
               \/ \E i : m = [mem[a] EXCEPT !.item = i]
               \/ m = mem[a]
               \/ \E all : m = [Idle EXCEPT !.entries = mem[a].entries, !.all = all]
    <3>1. \/ \E i : ItemDone(a, i)
          \/ \E i : Goto(a, "b_record", [mem[a] EXCEPT !.item = i])
          \/ Goto(a, "b_rollback", mem[a])
        BY <1>6 DEF ChargeItem, RecordItem, RollbackItem
    <3> QED
        BY <3>1 DEF ItemDone
  <2>4. pc'[a] = label /\ mem'[a] = m
      BY <1>2, <2>3
  <2>5. m.entries = mem[a].entries
      BY <1>1, <2>3 DEF MemType, Idle
  <2>6. ItemRefs(a)' = ItemRefs(a)
      BY <1>1, <2>4, <2>5, ItemsSame
  <2> QED
      BY <2>1, <2>2, <2>3, <2>4, <2>6 DEF Knows
<1> QED
    BY <1>3, <1>4, <1>5, <1>6 DEF ExecuteBatchTransfer

\* A run is found completed when all it asks for is on record.
LEMMA VerifyLists ==
    ASSUME Typed, Carried, Listed, faults = 0, faults' = 0, NEW a \in Actors, MovesOwn(a),
           VerifyTransfers(a)
    PROVE  Knows(a)' /\ UNCHANGED transfers
<1> DEFINE F == {ref \in transfers : ref[1] = Run(a)}
<1>1. /\ mem[a] \in MemType /\ Knows(a) /\ UNCHANGED <<config, req, transfers>>
      /\ Run(a) \in Runs /\ config.mapped \subseteq Staff
    BY ActorTyped, PayrollAssumption DEF Typed, TypeOK, Listed, MovesOwn, VerifyTransfers, payVars
<1>2. PICK verdict \in {"completed", "failed"} :
          /\ Goto(a, "finish", [mem[a] EXCEPT !.verdict = verdict])
          /\ verdict = "completed" => mem[a].all \/ Cardinality(F) >= Cardinality(Items(a))
    BY DEF VerifyTransfers
<1>3. pc'[a] = "finish" /\ mem'[a] = [mem[a] EXCEPT !.verdict = verdict]
    BY <1>2, GotoOwn
<1>4. /\ mem'[a].entries = mem[a].entries /\ mem'[a].stored = mem[a].stored
      /\ mem'[a].all = mem[a].all /\ mem'[a].verdict = verdict
    BY <1>1, <1>3 DEF MemType
<1>5. ItemRefs(a)' = ItemRefs(a) /\ Wanted(Run(a))' = Wanted(Run(a))
    BY <1>1, <1>4, ItemsSame
<1>6. /\ \A e \in config.mapped : \E i \in Items(a) : i.emp = e
      /\ \A i \in Items(a) : i.emp \in config.mapped
      /\ IsFiniteSet(Items(a))
  <2>1. Covers(mem[a].entries) /\ mem[a].entries \subseteq entries[Run(a)] /\ IsFiniteSet(entries[Run(a)])
      BY <1>1 DEF Carried, Carrying, Underway, VerifyTransfers
  <2>2. Items(a) \subseteq entries[Run(a)]
      BY <2>1 DEF Items
  <2> QED
      BY <1>1, <2>1, <2>2, FS_Subset DEF Items, Covers
<1>7. verdict = "completed" => Wanted(Run(a)) \subseteq transfers
  <2>1. CASE mem[a].all
    <3>1. ItemRefs(a) \subseteq transfers
        BY <1>1, <2>1 DEF Knows
    <3>2. Wanted(Run(a)) \subseteq ItemRefs(a)
        BY <1>6 DEF Wanted, ItemRefs, Ref
    <3> QED
        BY <3>1, <3>2
  <2>2. CASE Cardinality(F) >= Cardinality(Items(a))
    <3>1. F \subseteq {<<Run(a), e>> : e \in config.mapped}
        BY DEF Listed
    <3>2. IsFiniteSet(config.mapped)
        BY <1>1, PayrollAssumption, FS_Subset
    <3>3. F = {<<Run(a), e>> : e \in config.mapped}
      <4> HIDE DEF F
      <4> QED
          BY <1>6, <2>2, <3>1, <3>2, EnoughIsAll
    <3> QED
        BY <3>3 DEF Wanted
  <2> QED
      BY <1>2, <2>1, <2>2
<1> QED
    BY <1>1, <1>3, <1>4, <1>5, <1>7 DEF Knows

\* A batch goes through its items.
LEMMA PayableOn ==
    ASSUME Typed, NEW a \in Actors, MovesOwn(a), Step(a), Payable(a)
    PROVE  Payable(a)'
<1> SUFFICES ASSUME pc'[a] = "b_update" PROVE mem'[a].todo \subseteq Items(a)'
    BY DEF Payable
<1>1. mem[a] \in MemType /\ UNCHANGED <<config, req>>
    BY DEF Typed, TypeOK, MovesOwn
<1>2. \A label, m : Goto(a, label, m) => label = "b_update" /\ mem'[a] = m
    BY GotoOwn
<1>3. InitiateBulkTransfer(a) \/ UpdateRecord(a)
  <2>1. CASE CreateBatch(a) \/ VerifyTransfers(a)
      BY <1>2, <2>1 DEF CreateBatch, VerifyTransfers
  <2>2. CASE ChargeItem(a) \/ RecordItem(a) \/ RollbackItem(a)
    <3>1. \A i : ItemDone(a, i) => FALSE
        BY <1>2 DEF ItemDone
    <3>2. \/ \E i : Goto(a, "b_record", [mem[a] EXCEPT !.item = i])
          \/ Goto(a, "b_rollback", mem[a])
        BY <2>2, <3>1 DEF ChargeItem, RecordItem, RollbackItem
    <3>3. PICK label, m : Goto(a, label, m) /\ label \in {"b_record", "b_rollback"}
        BY <3>2
    <3> QED
        BY <1>2, <3>3
  <2>3. CASE \/ StatusChange(a) \/ LoanStep(a) \/ ProcessApprovedPayroll(a)
             \/ ProcessPayrollRunInstantly(a) \/ StartProcessing(a) \/ FinishRun(a)
      BY <2>3, PlainForgets DEF Forgets, Relying
  <2> QED
      BY <2>1, <2>2, <2>3 DEF Step, Processing, ExecuteBatchTransfer
<1>4. PICK m : /\ mem'[a] = m
               /\ \/ \E answers : m = [mem[a] EXCEPT !.answers = answers, !.todo = Items(a)]
                  \/ pc[a] = "b_update" /\ \E i : m = [mem[a] EXCEPT !.todo = mem[a].todo \ {i}]
  <2>1. CASE InitiateBulkTransfer(a)
    <3>1. PICK m, label : /\ Goto(a, label, m)
                          /\ \/ label = "verify"
                             \/ \E answers : m = [mem[a] EXCEPT !.answers = answers, !.todo = Items(a)]
        BY <2>1 DEF InitiateBulkTransfer
    <3> QED
        BY <1>2, <3>1
  <2>2. CASE UpdateRecord(a)
    <3>1. PICK m, label : /\ Goto(a, label, m)
                          /\ label = "b_charge" \/ \E i : m = [mem[a] EXCEPT !.todo = mem[a].todo \ {i}]
        BY <2>2 DEF UpdateRecord
    <3> QED
        BY <1>2, <2>2, <3>1 DEF UpdateRecord
  <2> QED
      BY <1>3, <2>1, <2>2
<1>5. m.entries = mem[a].entries /\ m.todo \subseteq Items(a)
    BY <1>1, <1>4 DEF MemType, Payable
<1>6. Items(a)' = Items(a)
    BY <1>1, <1>4, <1>5, ItemsSame
<1> QED
    BY <1>4, <1>5, <1>6

\* Records are those of items that can be transferred.
LEMMA RecordsOfItems ==
    ASSUME Typed, NEW a \in Actors, MovesOwn(a), Step(a), Payable(a),
           transfers \subseteq Runs \X config.mapped
    PROVE  transfers' \subseteq Runs \X config.mapped
<1>1. Run(a) \in Runs
    BY ActorTyped DEF Typed
<1>2. CASE CreateBatch(a)
    BY <1>1, <1>2 DEF CreateBatch, ItemRefs, Ref, Items
<1>3. CASE UpdateRecord(a)
  <2>1. PICK i \in mem[a].todo : transfers' \subseteq transfers \cup {Ref(a, i)}
      BY <1>3 DEF UpdateRecord
  <2>2. i.emp \in config.mapped
      BY <1>3, <2>1 DEF Payable, Items, UpdateRecord
  <2> QED
      BY <1>1, <2>1, <2>2 DEF Ref
<1>4. CASE ~CreateBatch(a) /\ ~UpdateRecord(a)
  <2>1. UNCHANGED transfers
    <3>1. CASE Processing(a)
        BY <1>4, <3>1, PlainForgets DEF Processing, ExecuteBatchTransfer, Forgets,
           InitiateBulkTransfer, ChargeItem, RecordItem, RollbackItem, VerifyTransfers, payVars
    <3>2. CASE ~Processing(a)
        BY <3>2, PlainForgets DEF Step, Forgets
    <3> QED
        BY <3>1, <3>2
  <2> QED
      BY <2>1
<1> QED
    BY <1>2, <1>3, <1>4

\* Only the end of its processing completes a run.
LEMMA CompletesByFinish ==
    ASSUME Typed, NEW a \in Actors, Step(a), NEW r \in Runs, status'[r] = "completed"
    PROVE  \/ status[r] = "completed"
           \/ r = Run(a) /\ pc[a] = "finish" /\ mem[a].verdict = "completed"
<1>1. status \in [Runs -> Statuses] /\ Run(a) \in Runs
    BY ActorTyped DEF Typed, TypeOK
<1>2. \A new, next : (SaveRun(a, new, next) \/ Saved(a, new, next) \/ NotSaved(a)) /\ new # "completed" =>
          status[r] = "completed"
    BY <1>1 DEF SaveRun, Saved, NotSaved
<1>3. CASE StatusChange(a)
    BY <1>2, <1>3 DEF StatusChange, SubmitForApproval, SubmitSchedule, SubmitSave, ApprovePayrollRun,
           ApproveSave, ApproveSchedule, ApproveRevert, RejectPayrollRun, RejectSave,
           AmendPayrollRun, AmendSave, ReversePayrollRun, ReverseSave, Find, runVars
<1>4. CASE Processing(a)
  <2>1. CASE FinishRun(a)
      BY <1>1, <2>1 DEF FinishRun, NotSaved
  <2>2. CASE StartProcessing(a)
      BY <1>1, <1>2, <2>2 DEF StartProcessing, NotSaved
  <2>3. CASE ~FinishRun(a) /\ ~StartProcessing(a)
      BY <1>4, <2>3 DEF Processing, ProcessApprovedPayroll, ProcessPayrollRunInstantly,
             VerifyTransfers, ExecuteBatchTransfer, CreateBatch, InitiateBulkTransfer,
             UpdateRecord, ChargeItem, RecordItem, RollbackItem, Find, runVars
  <2> QED
      BY <2>1, <2>2, <2>3
<1>5. CASE LoanStep(a)
    BY <1>5 DEF LoanStep, FindLoan, SaveLoan, FindLoanToCancel, CancelLoan, runVars
<1> QED
    BY <1>3, <1>4, <1>5 DEF Step

\* Every step keeps the records.
LEMMA NextKeepsListed == CarriedInv /\ Listed /\ [Next]_vars => Listed'
<1> SUFFICES ASSUME CarriedInv, Listed, [Next]_vars PROVE Listed'
    OBVIOUS
<1>1. Typed /\ JobsInOrder /\ Carried
    BY DEF CarriedInv
<1>2. CASE \E a \in Actors : Step(a)
  <2>1. PICK a \in Actors : Step(a) /\ MovesOwn(a)
      BY <1>1, <1>2, StepIsOwn
  <2>2. UNCHANGED <<config, req>>
      BY <2>1 DEF MovesOwn
  <2>3. (transfers \subseteq Runs \X config.mapped)'
      BY <1>1, <2>1, <2>2, RecordsOfItems DEF Listed
  <2>p. \A b \in Actors : Payable(b)'
    <3>1. Payable(a)'
        BY <1>1, <2>1, PayableOn DEF Listed
    <3>2. ASSUME NEW b \in Actors, b # a PROVE Payable(b)'
      <4>1. Payable(b)
          BY DEF Listed
      <4>2. mem'[b] = mem[b] /\ (pc'[b] = pc[b] \/ pc'[b] = "waiting")
          BY <2>1, <3>2 DEF MovesOwn, OthersStay
      <4>3. Items(b)' = Items(b)
          BY <2>2, <4>2, ItemsSame
      <4> QED
          BY <4>1, <4>2, <4>3 DEF Payable
    <3> QED
        BY <3>1, <3>2
  <2>4. SUFFICES ASSUME faults' = 0
                 PROVE  /\ \A b \in Actors : Knows(b)'
                        /\ \A r \in Runs : status'[r] = "completed" => Wanted(r)' \subseteq transfers'
      BY <2>3, <2>p DEF Listed
  <2>5. faults = 0
      BY <1>1, <2>1, <2>4, StepFaults, FaultFree
  <2>6. Knows(a)' /\ transfers \subseteq transfers'
    <3>1. CASE ExecuteBatchTransfer(a)
        BY <1>1, <2>1, <2>4, <2>5, <3>1, BatchLists
    <3>2. CASE VerifyTransfers(a)
        BY <1>1, <2>1, <2>4, <2>5, <3>2, VerifyLists
    <3>3. CASE ~ExecuteBatchTransfer(a) /\ ~VerifyTransfers(a)
      <4>1. Forgets(a)
          BY <1>1, <2>1, <3>3, PlainForgets DEF Step, Processing
      <4>2. Knows(a)
          BY <2>5 DEF Listed
      <4> QED
          BY <2>2, <4>1, <4>2, KnowsOn DEF Forgets
    <3> QED
        BY <3>1, <3>2, <3>3
  <2>7. ASSUME NEW b \in Actors, b # a PROVE Knows(b)'
    <3>1. Knows(b)
        BY <2>5 DEF Listed
    <3>2. \/ mem'[b] = mem[b] /\ pc'[b] = pc[b]
          \/ pc'[b] \notin Relying /\ mem'[b] = mem[b]
        BY <2>1, <2>7 DEF MovesOwn, OthersStay, Relying
    <3> QED
        BY <2>2, <2>6, <3>1, <3>2, KnowsOn
  <2>8. ASSUME NEW r \in Runs, status'[r] = "completed"
        PROVE  Wanted(r)' \subseteq transfers'
    <3>1. Wanted(r)' = Wanted(r)
        BY <2>2 DEF Wanted
    <3>2. \/ status[r] = "completed"
          \/ r = Run(a) /\ pc[a] = "finish" /\ mem[a].verdict = "completed"
        BY <1>1, <2>1, <2>8, CompletesByFinish
    <3> QED
        BY <2>5, <2>6, <3>1, <3>2 DEF Listed, Knows
  <2> QED
      BY <2>6, <2>7, <2>8
<1>3. CASE Crash
  <2>1. UNCHANGED <<transfers, config>> /\ faults' # 0
      BY <1>1, <1>3, FaultFree, CrashMoves DEF payVars, Crash
  <2>2. \A a \in Actors : pc'[a] # "b_update"
      BY <1>3, CrashMoves DEF NotStarted, Ops
  <2> QED
      BY <2>1, <2>2 DEF Listed, Payable
<1>4. CASE UNCHANGED vars
    BY <1>4 DEF vars, runVars, payVars, control, Listed, Payable, Knows, Wanted, Items, ItemRefs, Ref, Run
<1> QED
    BY <1>2, <1>3, <1>4 DEF Next

\* As long as no fault happens, a run marked completed has a record of the transfer of each
\* of its entries that could be sent (CompletedHasRecords): the records are inserted with the
\* batch or with their update, and a count of them can only be reached by all of them.
THEOREM CompletedRunsHaveRecords == Spec => []CompletedHasRecords
<1>1. Init => Listed
  <2> SUFFICES ASSUME Init PROVE Listed
      OBVIOUS
  <2>1. \A a \in Actors : Knows(a) /\ Payable(a)
    <3>1. \A a \in Actors : a[1] \in Calls /\ req[a[1]].op \in Ops
        BY PayrollAssumption DEF Init, Actors
    <3>2. \A a \in Actors : pc[a] \notin Relying /\ ~mem[a].stored /\ ~mem[a].all
        BY <3>1 DEF Init, Ops, Relying, Idle
    <3> QED
        BY <3>2 DEF Knows, Payable, Relying
  <2> QED
      BY <2>1 DEF Init, Listed
<1>2. Listed => CompletedHasRecords
    BY DEF Listed, CompletedHasRecords, Wanted
<1> QED
    BY <1>1, <1>2, CarriedCorrect, NextKeepsListed, PTL DEF Spec
-----------------------------------------------------------------------------
(* What loans are repaid *)

\* The labels at which the deductions of a completed run are made.
Deducting == {"l_find", "l_save"}

Owed(set, e) == {i \in set : i.emp = e}

\* The deductions from the loan of e that an actor has still to make, and what all the
\* deductions that are not ahead have repaid at most.
Pending(a, e) == IF pc[a] \in Deducting THEN Cardinality(Owed(mem[a].todo, e)) ELSE 0
AllPending(e) == SumFunction([a \in Actors |-> Pending(a, e)])
Budget(e) == Deductible(e) - AllPending(e)

\* Deductions are made for entries that were read, the one in hand among them.
Deducts ==
    \A a \in Actors :
        /\ pc[a] \in Deducting => mem[a].todo \subseteq mem[a].entries
        /\ pc[a] = "l_save" => mem[a].item \in mem[a].todo

\* No loan is repaid beyond that, neither a stored one nor one that is about to be saved.
Within ==
    /\ \A e \in Staff : loans[e].repaid <= Monthly * Budget(e)
    /\ \A a \in Actors, e \in Staff :
           \/ pc[a] = "l_save" /\ mem[a].item.emp = e
           \/ pc[a] = "c_save" /\ Emp(a) = e
           => mem[a].loan.repaid <= Monthly * Budget(e)

RepaidInv == CarriedInv /\ Deducts /\ Within

\* More of both factors, a larger product.
LEMMA ProductGrows ==
    ASSUME NEW c \in Nat, NEW d \in Nat, NEW n \in Nat, NEW m \in Nat, c <= d, n <= m
    PROVE  c * n \in Nat /\ c * n <= d * m
<1>1. PICK k \in Nat : d = c + k
    <2>1. d - c \in Nat /\ d = c + (d - c)
        OBVIOUS
    <2> QED
        BY <2>1
<1>2. PICK j \in Nat : m = n + j
    <2>1. m - n \in Nat /\ m = n + (m - n)
        OBVIOUS
    <2> QED
        BY <2>1
<1>3. c * n \in Nat /\ c * j \in Nat /\ k * n \in Nat /\ k * j \in Nat
    OBVIOUS
<1>4. d * m = c * n + c * j + k * n + k * j
    BY <1>1, <1>2
<1> QED
    BY <1>3, <1>4

\* The counts of entries are numbers, and the sums over them.
LEMMA BudgetTyped ==
    ASSUME CarriedInv, Deducts, NEW e \in Staff
    PROVE  /\ \A r \in Runs : IsFiniteSet(Owed(entries[r], e)) /\ Cardinality(Owed(entries[r], e)) \in Nat
           /\ \A a \in Actors : Pending(a, e) \in Nat
           /\ \A a \in Actors : pc[a] \in Deducting => IsFiniteSet(Owed(mem[a].todo, e))
           /\ Deductible(e) \in Int /\ AllPending(e) \in Nat
<1>1. \A r \in Runs : IsFiniteSet(Owed(entries[r], e)) /\ Cardinality(Owed(entries[r], e)) \in Nat
  <2> TAKE r \in Runs
  <2>1. IsFiniteSet(entries[r]) /\ Owed(entries[r], e) \subseteq entries[r]
      BY DEF CarriedInv, Carried, Owed
  <2> QED
      BY <2>1, FS_Subset, FS_CardinalityType
<1>2. \A a \in Actors : pc[a] \in Deducting => IsFiniteSet(Owed(mem[a].todo, e))
  <2> SUFFICES ASSUME NEW a \in Actors, pc[a] \in Deducting PROVE IsFiniteSet(Owed(mem[a].todo, e))
      OBVIOUS
  <2>1. mem[a].entries \subseteq entries[Run(a)] /\ Run(a) \in Runs
      BY ActorTyped DEF CarriedInv, Carried, Carrying, Deducting, Typed
  <2>2. IsFiniteSet(entries[Run(a)]) /\ Owed(mem[a].todo, e) \subseteq entries[Run(a)]
      BY <2>1 DEF CarriedInv, Carried, Deducts, Owed
  <2> QED
      BY <2>2, FS_Subset
<1>3. \A a \in Actors : Pending(a, e) \in Nat
    BY <1>2, FS_CardinalityType DEF Pending
<1>4. Deductible(e) \in Int
  <2> DEFINE f == [r \in Runs |-> completions[r] * Cardinality({i \in entries[r] : i.emp = e})]
  <2>1. ASSUME NEW r \in Runs PROVE f[r] \in Int
    <3> DEFINE n == Cardinality({i \in entries[r] : i.emp = e})
    <3>1. n \in Nat /\ completions[r] \in Nat
        BY <1>1 DEF Owed, CarriedInv, Typed, TypeOK
    <3>2. f[r] = completions[r] * n
        OBVIOUS
    <3> HIDE DEF n, f
    <3> QED
        BY <3>1, <3>2
  <2>2. Deductible(e) = SumFunctionOnSet(f, Runs)
      BY DEF Deductible, SumFunction
  <2> HIDE DEF f
  <2> QED
      BY <2>1, <2>2, SumIsInt, PayrollAssumption
<1>5. AllPending(e) \in Nat
  <2> DEFINE f == [a \in Actors |-> Pending(a, e)]
             z == [a \in Actors |-> 0]
  <2>1. \A a \in Actors : f[a] \in Int /\ z[a] \in Int /\ z[a] <= f[a] /\ z[a] = 0
      BY <1>3
  <2>2. AllPending(e) = SumFunctionOnSet(f, Actors)
      BY DEF AllPending, SumFunction
  <2> HIDE DEF f, z
  <2>3. SumFunctionOnSet(f, Actors) \in Int
      BY <2>1, FiniteWorld, SumIsInt
  <2>4. SumFunctionOnSet(z, Actors) <= SumFunctionOnSet(f, Actors)
      BY <2>1, FiniteWorld, SumAtMost
  <2>5. SumFunctionOnSet(z, Actors) = 0
      BY <2>1, FiniteWorld, SumOfZeros
  <2> QED
      BY <2>2, <2>3, <2>4, <2>5
<1> QED
    BY <1>1, <1>2, <1>3, <1>4, <1>5

BudgetNumbers ==
    \A e \in Staff :
        /\ \A a \in Actors : Pending(a, e) \in Nat
        /\ \A r \in Runs : Cardinality(Owed(entries[r], e)) \in Nat
        /\ Deductible(e) \in Int /\ AllPending(e) \in Nat

\* The same for all employees.
LEMMA BudgetCounts == CarriedInv /\ Deducts => BudgetNumbers
    BY BudgetTyped DEF BudgetNumbers

\* A step changes what its own actor has ahead.
LEMMA PendingMoves ==
    ASSUME CarriedInv, Deducts, CarriedInv', Deducts', NEW a \in Actors, MovesOwn(a), NEW e \in Staff
    PROVE  AllPending(e)' = AllPending(e) + (Pending(a, e)' - Pending(a, e))
<1> DEFINE f == [b \in Actors |-> Pending(b, e)]
           g == [b \in Actors |-> Pending(b, e)']
<1>1. AllPending(e) = SumFunctionOnSet(f, Actors) /\ AllPending(e)' = SumFunctionOnSet(g, Actors)
    BY DEF AllPending, SumFunction
<1>2. \A b \in Actors : f[b] \in Int /\ g[b] \in Int
  <2>1. BudgetNumbers /\ BudgetNumbers'
      BY BudgetCounts, PTL
  <2> QED
      BY <2>1 DEF BudgetNumbers
<1>3. \A b \in Actors : b # a => g[b] = f[b]
  <2> SUFFICES ASSUME NEW b \in Actors, b # a PROVE Pending(b, e)' = Pending(b, e)
      OBVIOUS
  <2>1. CASE OthersStay(a)
      BY <2>1 DEF OthersStay, Pending, Owed
  <2>2. CASE ~OthersStay(a)
      BY <2>2 DEF MovesOwn, Pending, Owed, Deducting
  <2> QED
      BY <2>1, <2>2
<1>4. f[a] = Pending(a, e) /\ g[a] = Pending(a, e)'
    OBVIOUS
<1> HIDE DEF f, g
<1> QED
    BY <1>1, <1>2, <1>3, <1>4, FiniteWorld, SumChanges

\* A run is completed once more at most at the end of its processing.
LEMMA CompletionsGrow ==
    ASSUME Typed, NEW a \in Actors, Step(a)
    PROVE  \/ UNCHANGED completions
           \/ FinishRun(a) /\ completions' = [completions EXCEPT ![Run(a)] = @ + 1]
<1>1. CASE StatusChange(a)
    BY <1>1 DEF StatusChange, SubmitForApproval, SubmitSchedule, SubmitSave, ApprovePayrollRun,
           ApproveSave, ApproveSchedule, ApproveRevert, RejectPayrollRun, RejectSave,
           AmendPayrollRun, AmendSave, ReversePayrollRun, ReverseSave, Find, history
<1>2. CASE Processing(a)
    BY <1>2 DEF Processing, ProcessApprovedPayroll, ProcessPayrollRunInstantly, StartProcessing,
           VerifyTransfers, FinishRun, ExecuteBatchTransfer, CreateBatch, InitiateBulkTransfer,
           UpdateRecord, ChargeItem, RecordItem, RollbackItem, Find, Count, history
<1>3. CASE LoanStep(a)
    BY <1>3 DEF LoanStep, FindLoan, SaveLoan, FindLoanToCancel, CancelLoan, history
<1> QED
    BY <1>1, <1>2, <1>3 DEF Step

\* What may be deducted never shrinks.
LEMMA DeductibleGrows ==
    ASSUME CarriedInv, Deducts, CarriedInv', Deducts', NEW e \in Staff,
           \A r \in Runs : entries[r] \subseteq entries'[r] /\ completions[r] <= completions'[r]
    PROVE  Deductible(e) <= Deductible(e)'
<1> DEFINE f == [r \in Runs |-> completions[r] * Cardinality({i \in entries[r] : i.emp = e})]
           g == [r \in Runs |-> completions'[r] * Cardinality({i \in entries'[r] : i.emp = e})]
<1>1. Deductible(e) = SumFunctionOnSet(f, Runs) /\ Deductible(e)' = SumFunctionOnSet(g, Runs)
    BY DEF Deductible, SumFunction
<1>2. ASSUME NEW r \in Runs PROVE f[r] \in Int /\ g[r] \in Int /\ f[r] <= g[r]
  <2> DEFINE s == {i \in entries[r] : i.emp = e}
             t == {i \in entries'[r] : i.emp = e}
             c == completions[r]
             d == completions'[r]
  <2>1. s \subseteq t /\ IsFiniteSet(t)
    <3>1. IsFiniteSet(entries'[r]) /\ t \subseteq entries'[r]
        BY DEF CarriedInv, Carried
    <3> QED
        BY <3>1, FS_Subset
  <2>2. c \in Nat /\ d \in Nat /\ c <= d
      BY DEF CarriedInv, Typed, TypeOK
  <2>3. f[r] = c * Cardinality(s) /\ g[r] = d * Cardinality(t)
      OBVIOUS
  <2> HIDE DEF f, g, s, t, c, d
  <2>4. Cardinality(s) \in Nat /\ Cardinality(t) \in Nat /\ Cardinality(s) <= Cardinality(t)
      BY <2>1, FS_Subset, FS_CardinalityType
  <2>5. c * Cardinality(s) \in Nat /\ c * Cardinality(s) <= d * Cardinality(t)
      BY <2>2, <2>4, ProductGrows
  <2>6. d * Cardinality(t) \in Nat
      BY <2>2, <2>4, ProductGrows
  <2> QED
      BY <2>3, <2>5, <2>6
<1> HIDE DEF f, g
<1> QED
    BY <1>1, <1>2, PayrollAssumption, SumAtMost

\* A completion allows one more deduction for each entry.
LEMMA CompletionAllows ==
    ASSUME CarriedInv, Deducts, NEW e \in Staff, NEW r \in Runs,
           UNCHANGED entries, completions' = [completions EXCEPT ![r] = @ + 1]
    PROVE  Deductible(e)' = Deductible(e) + Cardinality(Owed(entries[r], e))
<1> DEFINE f == [s \in Runs |-> completions[s] * Cardinality({i \in entries[s] : i.emp = e})]
           g == [s \in Runs |-> completions'[s] * Cardinality({i \in entries[s] : i.emp = e})]
<1>1. Deductible(e) = SumFunctionOnSet(f, Runs) /\ Deductible(e)' = SumFunctionOnSet(g, Runs)
    BY DEF Deductible, SumFunction
<1>2. ASSUME NEW s \in Runs
      PROVE  f[s] \in Int /\ g[s] \in Int /\ g[s] = f[s] + (IF s = r THEN Cardinality(Owed(entries[r], e)) ELSE 0)
  <2> DEFINE n == Cardinality({i \in entries[s] : i.emp = e})
             c == completions[s]
             d == completions'[s]
  <2>1. n \in Nat /\ n = Cardinality(Owed(entries[s], e))
      BY BudgetTyped DEF Owed
  <2>2. c \in Nat /\ d = IF s = r THEN c + 1 ELSE c
      BY DEF CarriedInv, Typed, TypeOK
  <2>3. f[s] = c * n /\ g[s] = d * n
      OBVIOUS
  <2> HIDE DEF f, g, n, c, d
  <2>4. c * n \in Int /\ (c + 1) * n \in Int /\ (c + 1) * n = c * n + n
      BY <2>1, <2>2
  <2> QED
      BY <2>1, <2>2, <2>3, <2>4
<1> HIDE DEF f, g
<1>3. Cardinality(Owed(entries[r], e)) \in Nat
    BY BudgetTyped
<1>4. \A s \in Runs : f[s] \in Int /\ g[s] \in Int
    BY <1>2
<1>5. \A s \in Runs : s # r => g[s] = f[s]
    BY <1>2
<1>6. SumFunctionOnSet(g, Runs) = SumFunctionOnSet(f, Runs) + (g[r] - f[r]) /\ SumFunctionOnSet(f, Runs) \in Int
    BY <1>4, <1>5, PayrollAssumption, SumChanges
<1>7. g[r] = f[r] + Cardinality(Owed(entries[r], e)) /\ f[r] \in Int
    BY <1>2
<1> QED
    BY <1>1, <1>3, <1>6, <1>7

\* Only a deduction and a cancellation write a loan.
LEMMA LoansStay ==
    ASSUME Typed, NEW a \in Actors, Step(a), ~SaveLoan(a), ~CancelLoan(a)
    PROVE  UNCHANGED loans
<1>1. CASE StatusChange(a)
    BY <1>1 DEF StatusChange, SubmitForApproval, SubmitSchedule, SubmitSave, ApprovePayrollRun,
           ApproveSave, ApproveSchedule, ApproveRevert, RejectPayrollRun, RejectSave,
           AmendPayrollRun, AmendSave, ReversePayrollRun, ReverseSave, Find
<1>2. CASE Processing(a)
    BY <1>2 DEF Processing, ProcessApprovedPayroll, ProcessPayrollRunInstantly, StartProcessing,
           VerifyTransfers, FinishRun, ExecuteBatchTransfer, CreateBatch, InitiateBulkTransfer,
           UpdateRecord, ChargeItem, RecordItem, RollbackItem, Find
<1>3. CASE LoanStep(a)
    BY <1>3 DEF LoanStep, FindLoan, FindLoanToCancel
<1> QED
    BY <1>1, <1>2, <1>3 DEF Step

\* The steps to and from the labels of loans.
LEMMA LendingSteps ==
    ASSUME Typed, NEW a \in Actors, Step(a), pc[a] \in Lending \cup {"finish", "cancel"}
    PROVE  FinishRun(a) \/ LoanStep(a)
<1>1. CASE StatusChange(a)
    BY <1>1 DEF StatusChange, SubmitForApproval, SubmitSchedule, SubmitSave, ApprovePayrollRun,
           ApproveSave, ApproveSchedule, ApproveRevert, RejectPayrollRun, RejectSave,
           AmendPayrollRun, AmendSave, ReversePayrollRun, ReverseSave, Find, Lending
<1>2. CASE Processing(a) /\ ~FinishRun(a)
    BY <1>2 DEF Processing, ProcessApprovedPayroll, ProcessPayrollRunInstantly, StartProcessing,
           VerifyTransfers, ExecuteBatchTransfer, CreateBatch, InitiateBulkTransfer,
           UpdateRecord, ChargeItem, RecordItem, RollbackItem, Find, Lending
<1> QED
    BY <1>1, <1>2 DEF Step

\* One deduction is found, or is over.
LEMMA DeductionMoves ==
    ASSUME Typed, Deducts, NEW a \in Actors, FindLoan(a) \/ SaveLoan(a)
    PROVE  /\ pc[a] \in Deducting /\ UNCHANGED <<entries, completions>>
           /\ \E i \in mem[a].todo :
                 \/ /\ pc[a] = "l_find" /\ pc'[a] = "l_save" /\ UNCHANGED loans
                    /\ mem'[a].todo = mem[a].todo /\ mem'[a].entries = mem[a].entries
                    /\ mem'[a].item = i /\ mem'[a].loan = loans[i.emp]
                 \/ /\ pc'[a] = IF mem[a].todo \ {i} = {} THEN "done" ELSE "l_find"
                    /\ pc'[a] = "l_find" => /\ mem'[a].todo = mem[a].todo \ {i}
                                            /\ mem'[a].entries = mem[a].entries
                    /\ pc[a] = "l_save" => i = mem[a].item
<1>1. mem[a] \in MemType
    BY DEF Typed, TypeOK
<1>2. \A i : LoanDone(a, i) =>
          /\ pc'[a] = IF mem[a].todo \ {i} = {} THEN "done" ELSE "l_find"
          /\ pc'[a] = "l_find" => /\ mem'[a].todo = mem[a].todo \ {i}
                                  /\ mem'[a].entries = mem[a].entries
  <2> SUFFICES ASSUME NEW i, LoanDone(a, i)
               PROVE  /\ pc'[a] = IF mem[a].todo \ {i} = {} THEN "done" ELSE "l_find"
                      /\ pc'[a] = "l_find" => /\ mem'[a].todo = mem[a].todo \ {i}
                                              /\ mem'[a].entries = mem[a].entries
      OBVIOUS
  <2> DEFINE m == [mem[a] EXCEPT !.todo = mem[a].todo \ {i}, !.item = NoEntry, !.loan = NoLoan]
             label == IF mem[a].todo \ {i} = {} THEN "done" ELSE "l_find"
  <2>1. Goto(a, label, m)
      BY DEF LoanDone
  <2>2. m.todo = mem[a].todo \ {i} /\ m.entries = mem[a].entries
      BY <1>1 DEF MemType
  <2> HIDE DEF m
  <2> QED
      BY <2>1, <2>2, GotoOwn
<1>3. CASE FindLoan(a)
  <2>1. pc[a] = "l_find" /\ UNCHANGED <<loans, entries, completions>>
      BY <1>3 DEF FindLoan, runVars, history
  <2>2. PICK i \in mem[a].todo : \/ Goto(a, "l_save", [mem[a] EXCEPT !.item = i, !.loan = loans[i.emp]])
                                 \/ LoanDone(a, i)
      BY <1>3 DEF FindLoan
  <2>3. CASE LoanDone(a, i)
      BY <1>2, <2>1, <2>3 DEF Deducting
  <2>4. CASE Goto(a, "l_save", [mem[a] EXCEPT !.item = i, !.loan = loans[i.emp]])
    <3> DEFINE m == [mem[a] EXCEPT !.item = i, !.loan = loans[i.emp]]
    <3>1. m.todo = mem[a].todo /\ m.entries = mem[a].entries /\ m.item = i /\ m.loan = loans[i.emp]
        BY <1>1 DEF MemType
    <3>2. Goto(a, "l_save", m)
        BY <2>4
    <3> HIDE DEF m
    <3> QED
        BY <2>1, <3>1, <3>2, GotoOwn DEF Deducting
  <2> QED
      BY <2>2, <2>3, <2>4
<1>4. CASE SaveLoan(a)
  <2>1. pc[a] = "l_save" /\ UNCHANGED <<entries, completions>> /\ LoanDone(a, mem[a].item)
      BY <1>4 DEF SaveLoan, runVars, history
  <2>2. mem[a].item \in mem[a].todo
      BY <2>1 DEF Deducts
  <2> QED
      BY <1>2, <2>1, <2>2 DEF Deducting
<1> QED
    BY <1>3, <1>4

\* The end of a processing, and the deductions it starts.
LEMMA FinishMoves ==
    ASSUME Typed, NEW a \in Actors, FinishRun(a), pc'[a] \in Lending
    PROVE  /\ pc[a] = "finish" /\ pc'[a] = "l_find" /\ UNCHANGED <<entries, loans>>
           /\ mem'[a].todo \subseteq mem[a].entries /\ mem'[a].entries = mem[a].entries
           /\ completions' = [completions EXCEPT ![Run(a)] = @ + 1]
<1> DEFINE m == [mem[a] EXCEPT !.todo = Repaying(a)]
           label == IF mem[a].verdict = "completed" /\ Repaying(a) # {} THEN "l_find" ELSE "done"
<1>1. m.todo \subseteq mem[a].entries /\ m.entries = mem[a].entries
    BY DEF Typed, TypeOK, MemType, Repaying
<1>2. ~Fail(a)
    BY FailOwn DEF Lending
<1>3. /\ Goto(a, label, m) /\ pc[a] = "finish" /\ UNCHANGED <<entries, loans>>
      /\ mem[a].verdict = "completed" => completions' = [completions EXCEPT ![Run(a)] = @ + 1]
    BY <1>2 DEF FinishRun, NotSaved, Count
<1> HIDE DEF m
<1> QED
    BY <1>1, <1>3, GotoOwn DEF Lending

\* Every step keeps the deductions within the entries read.
LEMMA NextKeepsDeducts == CarriedInv /\ Deducts /\ [Next]_vars => Deducts'
<1> SUFFICES ASSUME CarriedInv, Deducts, [Next]_vars, NEW b \in Actors, pc'[b] \in Deducting
             PROVE  /\ mem'[b].todo \subseteq mem'[b].entries
                    /\ pc'[b] = "l_save" => mem'[b].item \in mem'[b].todo
    BY DEF Deducts, Deducting
<1>1. CASE \E a \in Actors : Step(a)
  <2>1. PICK a \in Actors : Step(a) /\ MovesOwn(a)
      BY <1>1, StepIsOwn DEF CarriedInv
  <2>2. CASE b # a
    <3>1. pc'[b] = pc[b] /\ mem'[b] = mem[b]
        BY <2>1, <2>2 DEF MovesOwn, OthersStay, Deducting
    <3> QED
        BY <3>1 DEF Deducts, Deducting
  <2>3. CASE b = a
    <3>1. FinishRun(a) \/ LoanStep(a)
        BY <2>1, <2>3, LendingSteps DEF MovesOwn, Deducting, Lending, CarriedInv
    <3>2. CASE FinishRun(a)
        BY <2>3, <3>2, FinishMoves DEF CarriedInv, Deducting, Lending
    <3>3. CASE FindLoan(a) \/ SaveLoan(a)
        BY <2>3, <3>3, DeductionMoves DEF CarriedInv, Deducting, Deducts
    <3>4. CASE FindLoanToCancel(a) \/ CancelLoan(a)
        BY <2>3, <3>4, GotoOwn, FailOwn DEF CarriedInv, FindLoanToCancel, CancelLoan, Deducting
    <3> QED
        BY <3>1, <3>2, <3>3, <3>4 DEF LoanStep
  <2> QED
      BY <2>2, <2>3
<1>2. CASE Crash
    BY <1>2, CrashMoves DEF NotStarted, Ops, Deducting
<1>3. CASE UNCHANGED vars
    BY <1>3 DEF vars, control, Deducts, Deducting
<1> QED
    BY <1>1, <1>2, <1>3 DEF Next

\* Deductions that are no longer ahead are allowed to have been made: a step never lowers
\* what loans may have been repaid, and a deduction that is over raises it by one.
LEMMA BudgetGrows ==
    ASSUME CarriedInv, Deducts, CarriedInv', Deducts', NEW a \in Actors, Step(a), NEW e \in Staff
    PROVE  /\ Budget(e) \in Int /\ Budget(e)' \in Int
           /\ Budget(e) <= Budget(e)'
           /\ SaveLoan(a) /\ mem[a].item.emp = e => Budget(e) + 1 <= Budget(e)'
<1>1. Typed /\ MovesOwn(a)
    BY StepIsOwn DEF CarriedInv
<1>2. BudgetNumbers /\ BudgetNumbers'
    BY BudgetCounts, PTL
<1>3. /\ Deductible(e) \in Int /\ AllPending(e) \in Nat /\ Pending(a, e) \in Nat
      /\ Deductible(e)' \in Int /\ AllPending(e)' \in Nat /\ Pending(a, e)' \in Nat
    BY <1>2 DEF BudgetNumbers
<1>4. AllPending(e)' = AllPending(e) + (Pending(a, e)' - Pending(a, e))
    BY <1>1, PendingMoves
<1>5. Deductible(e) <= Deductible(e)'
  <2>1. \A r \in Runs : entries[r] \subseteq entries'[r]
      BY <1>1, EntriesGrow
  <2>2. \A r \in Runs : completions[r] <= completions'[r]
      BY <1>1, CompletionsGrow DEF Typed, TypeOK
  <2> QED
      BY <2>1, <2>2, DeductibleGrows
<1>6. SUFFICES /\ Pending(a, e)' - Pending(a, e) <= Deductible(e)' - Deductible(e)
               /\ SaveLoan(a) /\ mem[a].item.emp = e => Pending(a, e)' + 1 <= Pending(a, e)
    BY <1>3, <1>4, <1>5 DEF Budget
<1>7. CASE FindLoan(a) \/ SaveLoan(a)
  <2>1. pc[a] \in Deducting
      BY <1>1, <1>7, DeductionMoves
  <2> DEFINE T == Owed(mem[a].todo, e)
  <2>2. IsFiniteSet(T) /\ Pending(a, e) = Cardinality(T)
      BY <2>1, BudgetTyped DEF Pending
  <2>3. PICK i \in mem[a].todo :
          \/ pc[a] = "l_find" /\ pc'[a] = "l_save" /\ mem'[a].todo = mem[a].todo
          \/ /\ pc'[a] = IF mem[a].todo \ {i} = {} THEN "done" ELSE "l_find"
             /\ pc'[a] = "l_find" => mem'[a].todo = mem[a].todo \ {i}
             /\ pc[a] = "l_save" => i = mem[a].item
      BY <1>1, <1>7, DeductionMoves
  <2>4. CASE pc[a] = "l_find" /\ pc'[a] = "l_save" /\ mem'[a].todo = mem[a].todo
    <3>1. Pending(a, e)' = Pending(a, e)
        BY <2>4 DEF Pending, Deducting, Owed
    <3>2. ~SaveLoan(a)
        BY <2>4 DEF SaveLoan
    <3> QED
        BY <1>3, <1>5, <3>1, <3>2
  <2>5. CASE /\ pc'[a] = IF mem[a].todo \ {i} = {} THEN "done" ELSE "l_find"
             /\ pc'[a] = "l_find" => mem'[a].todo = mem[a].todo \ {i}
             /\ pc[a] = "l_save" => i = mem[a].item
    <3>1. Owed(mem[a].todo \ {i}, e) = T \ {i}
        BY DEF Owed
    <3>2. IsFiniteSet(T \ {i}) /\ Cardinality(T \ {i}) = IF i \in T THEN Cardinality(T) - 1 ELSE Cardinality(T)
        BY <2>2, FS_RemoveElement
    <3>3. Pending(a, e)' = Cardinality(T \ {i})
      <4>1. CASE mem[a].todo \ {i} = {}
        <5>1. Pending(a, e)' = 0
            BY <2>5, <4>1 DEF Pending, Deducting
        <5>2. T \ {i} = {}
            BY <3>1, <4>1 DEF Owed
        <5> QED
            BY <5>1, <5>2, FS_EmptySet
      <4>2. CASE mem[a].todo \ {i} # {}
          BY <2>5, <3>1, <4>2 DEF Pending, Deducting, Owed
      <4> QED
          BY <4>1, <4>2
    <3>4. SaveLoan(a) /\ mem[a].item.emp = e => i \in T
        BY <2>5 DEF SaveLoan, Owed
    <3>5. Cardinality(T) \in Nat
        BY <2>2, FS_CardinalityType
    <3> HIDE DEF T
    <3> QED
        BY <1>3, <1>5, <2>2, <3>2, <3>3, <3>4, <3>5
  <2> QED
      BY <2>3, <2>4, <2>5
<1>8. CASE FinishRun(a) /\ pc'[a] \in Lending
  <2>1. /\ pc[a] = "finish" /\ pc'[a] = "l_find" /\ UNCHANGED entries
        /\ mem'[a].todo \subseteq mem[a].entries
        /\ completions' = [completions EXCEPT ![Run(a)] = @ + 1]
      BY <1>1, <1>8, FinishMoves
  <2>2. mem[a].entries \subseteq entries[Run(a)] /\ Run(a) \in Runs
      BY <1>1, <2>1, ActorTyped DEF CarriedInv, Carried, Carrying, Underway, Typed
  <2>3. Deductible(e)' = Deductible(e) + Cardinality(Owed(entries[Run(a)], e))
      BY <2>1, <2>2, CompletionAllows
  <2> DEFINE T == Owed(entries[Run(a)], e)
             U == Owed(mem'[a].todo, e)
  <2>4. U \subseteq T /\ IsFiniteSet(T)
      BY <2>1, <2>2, BudgetTyped DEF Owed
  <2>5. Pending(a, e)' = Cardinality(U) /\ Pending(a, e) = 0
      BY <2>1 DEF Pending, Deducting, Owed
  <2>6. ~SaveLoan(a)
      BY <2>1 DEF SaveLoan
  <2> HIDE DEF T, U
  <2>7. Cardinality(U) \in Nat /\ Cardinality(T) \in Nat /\ Cardinality(U) <= Cardinality(T)
      BY <2>4, FS_Subset, FS_CardinalityType
  <2>8. Deductible(e)' = Deductible(e) + Cardinality(T)
      BY <2>3 DEF T
  <2> QED
      BY <1>3, <2>5, <2>6, <2>7, <2>8
<1>9. CASE ~FindLoan(a) /\ ~SaveLoan(a) /\ ~(FinishRun(a) /\ pc'[a] \in Lending)
  <2>1. pc'[a] \notin Deducting
    <3> SUFFICES ASSUME pc'[a] \in Deducting PROVE FALSE
        OBVIOUS
    <3>1. FinishRun(a) \/ LoanStep(a)
        BY <1>1, LendingSteps DEF MovesOwn, Lending, Deducting
    <3>2. FindLoanToCancel(a) \/ CancelLoan(a)
        BY <1>9, <3>1 DEF LoanStep, Lending, Deducting
    <3> QED
        BY <1>1, <3>2, GotoOwn, FailOwn DEF FindLoanToCancel, CancelLoan, Deducting
  <2>2. Pending(a, e)' = 0
      BY <2>1 DEF Pending
  <2> QED
      BY <1>3, <1>5, <1>9, <2>2
<1> QED
    BY <1>7, <1>8, <1>9

\* A deduction repays one month at most.
LEMMA RepaysOneMonth ==
    ASSUME NEW loan \in LoanType
    PROVE  Repay(loan).repaid \in Nat /\ Repay(loan).repaid <= loan.repaid + Monthly
<1>1. Monthly \in Nat /\ loan.remaining \in Nat /\ loan.repaid \in Nat
    BY PayrollAssumption DEF LoanType
<1>2. Repay(loan).repaid = loan.repaid + Smaller(Monthly, loan.remaining)
    BY DEF Repay
<1>3. Smaller(Monthly, loan.remaining) \in Nat /\ Smaller(Monthly, loan.remaining) <= Monthly
    BY <1>1 DEF Smaller
<1> QED
    BY <1>1, <1>2, <1>3

\* A larger budget allows what a smaller one allows, and one more deduction a month more.
LEMMA MoreAllowed ==
    ASSUME NEW b \in Int, NEW c \in Int, b <= c
    PROVE  /\ Monthly * b \in Int /\ Monthly * c \in Int /\ Monthly * b <= Monthly * c
           /\ b + 1 <= c => Monthly * b + Monthly <= Monthly * c
<1>1. Monthly \in Nat
    BY PayrollAssumption
<1>2. \A k \in Nat : Monthly * k \in Nat
    BY <1>1
<1>3. c - b \in Nat /\ c = b + (c - b)
    OBVIOUS
<1>4. Monthly * c = Monthly * b + Monthly * (c - b)
    BY <1>1
<1>5. Monthly * b \in Int /\ Monthly * c \in Int /\ Monthly * (c - b) \in Nat
    BY <1>1, <1>2, <1>3
<1>6. b + 1 <= c => Monthly <= Monthly * (c - b)
  <2> SUFFICES ASSUME b + 1 <= c PROVE Monthly <= Monthly * (c - b)
      OBVIOUS
  <2>1. PICK k \in Nat : c - b = k + 1
    <3>1. (c - b) - 1 \in Nat /\ c - b = ((c - b) - 1) + 1
        OBVIOUS
    <3> QED
        BY <3>1
  <2>2. Monthly * (k + 1) = Monthly * k + Monthly /\ Monthly * k \in Nat
      BY <1>1
  <2> QED
      BY <1>1, <2>1, <2>2
<1> QED
    BY <1>1, <1>4, <1>5, <1>6

\* A step keeps every loan within its budget.
LEMMA StepKeepsWithin ==
    ASSUME RepaidInv, CarriedInv', Deducts', NEW a \in Actors, Step(a)
    PROVE  Within'
<1>1. Typed /\ MovesOwn(a) /\ Typed'
    BY StepIsOwn DEF RepaidInv, CarriedInv
<1>2. ASSUME NEW e \in Staff
      PROVE  /\ Monthly * Budget(e) \in Int /\ (Monthly * Budget(e))' \in Int
             /\ Monthly * Budget(e) <= (Monthly * Budget(e))'
             /\ SaveLoan(a) /\ mem[a].item.emp = e =>
                    Monthly * Budget(e) + Monthly <= (Monthly * Budget(e))'
  <2>1. /\ Budget(e) \in Int /\ Budget(e)' \in Int /\ Budget(e) <= Budget(e)'
        /\ SaveLoan(a) /\ mem[a].item.emp = e => Budget(e) + 1 <= Budget(e)'
      BY BudgetGrows DEF RepaidInv
  <2> QED
      BY <2>1, MoreAllowed
<1>3. /\ loans \in [Staff -> LoanType] /\ loans' \in [Staff -> LoanType]
      /\ \A loan \in LoanType : loan.repaid \in Nat
      /\ \A b \in Actors : mem[b].loan \in LoanType
      /\ Emp(a) \in Staff /\ \A b \in Actors : Emp(b)' = Emp(b)
    BY <1>1, ActorTyped DEF Typed, TypeOK, MemType, LoanType, MovesOwn, Emp
<1>4. ASSUME NEW e \in Staff PROVE loans'[e].repaid <= (Monthly * Budget(e))'
  <2>1. loans[e].repaid <= Monthly * Budget(e) /\ loans[e].repaid \in Nat /\ loans'[e].repaid \in Nat
      BY <1>3 DEF RepaidInv, Within
  <2>2. CASE loans'[e].repaid = loans[e].repaid
      BY <1>2, <2>1, <2>2
  <2>3. CASE loans'[e].repaid # loans[e].repaid /\ SaveLoan(a)
    <3>1. /\ pc[a] = "l_save" /\ mem[a].item.emp = e
          /\ loans'[e] = Repay(mem[a].loan)
        BY <1>3, <2>3 DEF SaveLoan
    <3>2. mem[a].loan.repaid <= Monthly * Budget(e) /\ mem[a].loan.repaid \in Nat
        BY <1>3, <3>1 DEF RepaidInv, Within
    <3>3. loans'[e].repaid <= mem[a].loan.repaid + Monthly
        BY <1>3, <3>1, RepaysOneMonth
    <3>4. Monthly \in Nat
        BY PayrollAssumption
    <3> QED
        BY <1>2, <2>1, <2>3, <3>1, <3>2, <3>3, <3>4
  <2>4. CASE loans'[e].repaid # loans[e].repaid /\ CancelLoan(a)
    <3>1. pc[a] = "c_save" /\ Emp(a) = e /\ loans'[e].repaid = mem[a].loan.repaid
        BY <1>3, <2>4 DEF CancelLoan, LoanType
    <3>2. mem[a].loan.repaid <= Monthly * Budget(e) /\ mem[a].loan.repaid \in Nat
        BY <1>3, <3>1 DEF RepaidInv, Within
    <3> QED
        BY <1>2, <3>1, <3>2
  <2> QED
      BY <1>1, <2>2, <2>3, <2>4, LoansStay
<1>5. ASSUME NEW b \in Actors, NEW e \in Staff,
             \/ pc'[b] = "l_save" /\ mem'[b].item.emp = e
             \/ pc'[b] = "c_save" /\ Emp(b)' = e
      PROVE  mem'[b].loan.repaid <= (Monthly * Budget(e))'
  <2>1. CASE b # a
    <3>1. pc'[b] = pc[b] /\ mem'[b] = mem[b]
        BY <1>1, <1>5, <2>1 DEF MovesOwn, OthersStay
    <3>2. mem[b].loan.repaid <= Monthly * Budget(e) /\ mem[b].loan.repaid \in Nat
        BY <1>3, <1>5, <3>1 DEF RepaidInv, Within
    <3> QED
        BY <1>2, <3>1, <3>2
  <2>2. CASE b = a
    <3>1. mem'[a].loan = loans[e] /\ UNCHANGED loans
      <4>1. FinishRun(a) \/ LoanStep(a)
          BY <1>1, <1>5, <2>2, LendingSteps DEF MovesOwn, Lending
      <4>2. CASE FinishRun(a)
          BY <1>1, <1>5, <2>2, <4>2, FinishMoves DEF Lending
      <4>3. CASE FindLoan(a) \/ SaveLoan(a)
          BY <1>1, <1>5, <2>2, <4>3, DeductionMoves DEF RepaidInv
      <4>4. CASE FindLoanToCancel(a)
        <5>1. Goto(a, "c_save", [Idle EXCEPT !.loan = loans[Emp(a)]]) /\ UNCHANGED loans
            BY <1>1, <1>5, <2>2, <4>4, FailOwn DEF FindLoanToCancel
        <5>2. [Idle EXCEPT !.loan = loans[Emp(a)]].loan = loans[Emp(a)]
            BY DEF Idle
        <5> DEFINE m == [Idle EXCEPT !.loan = loans[Emp(a)]]
        <5>3. pc'[a] = "c_save" /\ mem'[a] = m
          <6> HIDE DEF m
          <6>1. Goto(a, "c_save", m)
              BY <5>1 DEF m
          <6> QED
              BY <1>1, <6>1, GotoOwn
        <5>4. Emp(a) = e
            BY <1>3, <1>5, <2>2, <5>3
        <5> QED
            BY <5>1, <5>2, <5>3, <5>4
      <4>5. CASE CancelLoan(a)
          BY <1>1, <1>5, <2>2, <4>5, GotoOwn DEF CancelLoan
      <4> QED
          BY <4>1, <4>2, <4>3, <4>4, <4>5 DEF LoanStep
    <3> QED
        BY <1>4, <2>2, <3>1
  <2> QED
      BY <2>1, <2>2
<1> QED
    BY <1>4, <1>5 DEF Within

\* After a restart no deduction is ahead.
LEMMA CrashKeepsWithin ==
    ASSUME RepaidInv, Crash, NEW e \in Staff
    PROVE  loans'[e].repaid <= Monthly * Budget(e)'
<1>1. /\ UNCHANGED <<entries, completions, loans>>
      /\ \A a \in Actors : pc'[a] \notin Deducting
    BY CrashMoves DEF runVars, history, NotStarted, Ops, Deducting
<1>2. Deductible(e)' = Deductible(e)
    BY <1>1 DEF Deductible
<1>3. AllPending(e)' = 0
  <2> DEFINE z == [a \in Actors |-> Pending(a, e)']
  <2>1. AllPending(e)' = SumFunctionOnSet(z, Actors)
      BY DEF AllPending, SumFunction
  <2>2. \A a \in Actors : z[a] = 0
      BY <1>1 DEF Pending
  <2> HIDE DEF z
  <2> QED
      BY <2>1, <2>2, FiniteWorld, SumOfZeros
<1>4. Deductible(e) \in Int /\ AllPending(e) \in Nat
    BY BudgetTyped DEF RepaidInv
<1>5. Budget(e) \in Int /\ Budget(e)' \in Int /\ Budget(e) <= Budget(e)'
    BY <1>2, <1>3, <1>4 DEF Budget
<1>6. loans[e].repaid <= Monthly * Budget(e) /\ loans[e].repaid \in Nat
    BY DEF RepaidInv, Within, CarriedInv, Typed, TypeOK, LoanType
<1> QED
    BY <1>1, <1>5, <1>6, MoreAllowed

\* Every step keeps the loans within what completions allow.
LEMMA NextKeepsRepaid == RepaidInv /\ [Next]_vars => RepaidInv'
<1> SUFFICES ASSUME RepaidInv, [Next]_vars PROVE RepaidInv'
    OBVIOUS
<1>1. CarriedInv' /\ Deducts'
    BY NextTyped, NextKeepsOrder, NextKeepsCarried, NextKeepsDeducts DEF RepaidInv, CarriedInv
<1>2. CASE \E a \in Actors : Step(a)
    BY <1>1, <1>2, StepKeepsWithin DEF RepaidInv
<1>3. CASE Crash
  <2>1. \A a \in Actors : pc'[a] \notin {"l_save", "c_save"}
      BY <1>3, CrashMoves DEF NotStarted, Ops
  <2> QED
      BY <1>1, <1>3, <2>1, CrashKeepsWithin DEF RepaidInv, Within
<1>4. CASE UNCHANGED vars
    BY <1>1, <1>4 DEF vars, runVars, control, history, RepaidInv, Within, Budget, Deductible, AllPending,
           Pending, Emp
<1> QED
    BY <1>2, <1>3, <1>4 DEF Next

\* Nothing is repaid at the start, and nothing completed.
LEMMA InitRepaid == Init => RepaidInv
<1> SUFFICES ASSUME Init PROVE RepaidInv
    OBVIOUS
<1>1. CarriedInv
    BY InitTyped, InitOrder, InitCarried DEF CarriedInv
<1>2. \A a \in Actors : pc[a] \notin Lending
  <2>1. \A a \in Actors : a[1] \in Calls /\ req[a[1]].op \in Ops
      BY PayrollAssumption DEF Init, Actors
  <2> QED
      BY <2>1 DEF Init, Ops, Lending
<1>3. Deducts
    BY <1>2 DEF Deducts, Deducting, Lending
<1>4. ASSUME NEW e \in Staff PROVE loans[e].repaid <= Monthly * Budget(e)
  <2>1. AllPending(e) = 0
    <3> DEFINE z == [a \in Actors |-> Pending(a, e)]
    <3>1. AllPending(e) = SumFunctionOnSet(z, Actors)
        BY DEF AllPending, SumFunction
    <3>2. \A a \in Actors : z[a] = 0
        BY <1>2 DEF Pending, Deducting, Lending
    <3> HIDE DEF z
    <3> QED
        BY <3>1, <3>2, FiniteWorld, SumOfZeros
  <2>2. Deductible(e) = 0
    <3> DEFINE z == [r \in Runs |-> completions[r] * Cardinality({i \in entries[r] : i.emp = e})]
    <3>1. Deductible(e) = SumFunctionOnSet(z, Runs)
        BY DEF Deductible, SumFunction
    <3>2. ASSUME NEW r \in Runs PROVE z[r] = 0
      <4> DEFINE n == Cardinality({i \in entries[r] : i.emp = e})
      <4>1. n \in Nat /\ completions[r] = 0
          BY <1>1, <1>3, BudgetTyped DEF Owed, Init
      <4>2. z[r] = completions[r] * n
          OBVIOUS
      <4> HIDE DEF n, z
      <4> QED
          BY <4>1, <4>2
    <3> HIDE DEF z
    <3> QED
        BY <3>1, <3>2, PayrollAssumption, SumOfZeros
  <2>3. loans[e].repaid = 0
      BY DEF Init, NoLoan
  <2>4. Monthly \in Nat
      BY PayrollAssumption
  <2> QED
      BY <2>1, <2>2, <2>3, <2>4 DEF Budget
<1> QED
    BY <1>1, <1>2, <1>3, <1>4 DEF RepaidInv, Within, Lending

\* A loan is repaid at most once per entry of its employee by each completion of a run
\* (RepaidByCompletions), through stale saves of whole rows, cancellations and restarts: a
\* stored loan and one about to be saved stay within the deductions that are not still ahead.
THEOREM RepaidOncePerCompletion == Spec => []RepaidByCompletions
<1>1. RepaidInv => RepaidByCompletions
  <2> SUFFICES ASSUME RepaidInv, NEW e \in Borrowers PROVE loans[e].repaid <= Monthly * Deductible(e)
      BY DEF RepaidByCompletions
  <2>1. e \in Staff
      BY PayrollAssumption
  <2>2. Deductible(e) \in Int /\ AllPending(e) \in Nat
      BY <2>1, BudgetTyped DEF RepaidInv
  <2>3. Budget(e) \in Int /\ Budget(e) <= Deductible(e)
      BY <2>2 DEF Budget
  <2>4. loans[e].repaid <= Monthly * Budget(e) /\ loans[e].repaid \in Nat
      BY <2>1 DEF RepaidInv, Within, CarriedInv, Typed, TypeOK, LoanType
  <2> QED
      BY <2>2, <2>3, <2>4, MoreAllowed
<1> QED
    BY <1>1, InitRepaid, NextKeepsRepaid, PTL DEF Spec
=============================================================================
