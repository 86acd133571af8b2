----------------------------- MODULE StaffProofs -----------------------------
(***************************************************************************)
(* Theorems about the records of Office, for any tables, requests and      *)
(* faults.  In a database that the migrations made, the names of cadres    *)
(* and rules and the e-mail addresses of employees stay unique in each     *)
(* business.  Approvals that read a leave balance, save the request and    *)
(* write the balance back, in three statements, overdraw no balance, and   *)
(* what is used is the sum of some of them.  And a payroll run, which is   *)
(* calculated of what several statements have read while other calls       *)
(* change it, pays every employee it has to pay, once.                     *)
(***************************************************************************)
EXTENDS Office, SumTheorems, FiniteSetTheorems, TLAPS

-----------------------------------------------------------------------------
(* Names *)

NamedTables == {"employees", "cadres", "rules"}

\* The rows of cadres and rules have a name; a call that inserts an employee passes NULL for the
\* id of its row.
Named ==
    /\ NamedTables \subseteq DOMAIN db
    /\ Nothing \notin DOMAIN db.employees
    /\ \A table \in {"cadres", "rules"} : \A id \in DOMAIN db[table] :
           db[table][id] # Nothing => {"business", "name"} \subseteq DOMAIN db[table][id]
    /\ UniqueNames

\* A step that writes none of the three tables.
Untouched ==
    /\ NamedTables \subseteq DOMAIN db'
    /\ db'.employees = db.employees /\ db'.cadres = db.cadres /\ db'.rules = db.rules

\* A step that writes one row of them, of a name that no other row has.
Claims(table, field, id, row) ==
    /\ db' = Put(table, id, row)
    /\ \A other \in DOMAIN db[table] \ {id} :
           config.migrated /\ db[table][other] # Nothing =>
               db[table][other].business # row.business \/ db[table][other][field] # row[field]

-----------------------------------------------------------------------------
LEMMA UntouchedKeeps ==
    ASSUME Named, config' = config, Untouched
    PROVE  Named'
BY DEF Named, Untouched, NamedTables, UniqueNames, UniqueIn

LEMMA ClaimKeepsUnique ==
    ASSUME NEW table \in DOMAIN db, NEW field, NEW id, NEW row,
           config.migrated, UniqueIn(db[table], field), Claims(table, field, id, row)
    PROVE  UniqueIn(db'[table], field)
<1>1. /\ DOMAIN db'[table] = DOMAIN db[table]
      /\ \A i \in DOMAIN db[table] : db'[table][i] = IF i = id THEN row ELSE db[table][i]
    BY DEF Claims, Put
<1> QED
    BY <1>1 DEF Claims, UniqueIn

\* The e-mail of an employee.
LEMMA EmployeeKeeps ==
    ASSUME Named, config' = config, NEW id, NEW row, Claims("employees", "email", id, row)
    PROVE  Named'
<1>1. /\ DOMAIN db' = DOMAIN db /\ DOMAIN db'.employees = DOMAIN db.employees
      /\ db'.cadres = db.cadres /\ db'.rules = db.rules
    BY DEF Claims, Put, Named, NamedTables
<1>2. config.migrated => UniqueIn(db'.employees, "email")
    BY ClaimKeepsUnique DEF Named, NamedTables, UniqueNames
<1> QED
    BY <1>1, <1>2 DEF Named, NamedTables, UniqueNames

\* The name of a cadre or a rule.
LEMMA NameKeeps ==
    ASSUME Named, config' = config, NEW table \in {"cadres", "rules"}, NEW id, NEW row,
           Claims(table, "name", id, row), {"business", "name"} \subseteq DOMAIN row
    PROVE  Named'
<1>1. /\ DOMAIN db' = DOMAIN db /\ db'.employees = db.employees
      /\ DOMAIN db'[table] = DOMAIN db[table]
      /\ \A i \in DOMAIN db[table] : db'[table][i] = IF i = id THEN row ELSE db[table][i]
      /\ \A other \in {"cadres", "rules"} \ {table} : db'[other] = db[other]
    BY DEF Claims, Put, Named, NamedTables
<1>2. config.migrated => UniqueIn(db'[table], "name")
    BY ClaimKeepsUnique DEF Named, NamedTables, UniqueNames
<1> QED
    BY <1>1, <1>2 DEF Named, NamedTables, UniqueNames

-----------------------------------------------------------------------------
(* The steps that write the three tables *)

LEMMA SavesEmployeeKeeps ==
    ASSUME Named, config' = config, NEW c, NEW employee, NEW refused,
           SavesEmployee(c, employee, refused)
    PROVE  Named'
<1> DEFINE id == mem[c].id
           row == Updates(db.employees[id], employee)
<1>1. CASE NameTaken("employees", "email", id, row)
    BY <1>1, UntouchedKeeps DEF SavesEmployee, Answers, Untouched, Named
<1>2. CASE ~NameTaken("employees", "email", id, row)
    <2>1. Claims("employees", "email", id, row)
        BY <1>2 DEF SavesEmployee, WritesAndAnswers, UpdateEmployee, NameTaken, Claims
    <2> QED
        BY <2>1, EmployeeKeeps
<1> QED
    BY <1>1, <1>2

LEMMA InsertEmployeeKeeps ==
    ASSUME Named, config' = config, NEW c, NEW row, InsertEmployee(c, row)
    PROVE  Named'
<1>1. CASE NameTaken("employees", "email", Nothing, row)
    BY <1>1, UntouchedKeeps DEF InsertEmployee, Untouched, Named
<1>2. CASE ~NameTaken("employees", "email", Nothing, row)
    <2>1. Claims("employees", "email", <<c, mem[c].row>>, row)
        BY <1>2 DEF InsertEmployee, NameTaken, Claims, Named
    <2> QED
        BY <2>1, EmployeeKeeps
<1> QED
    BY <1>1, <1>2

\* A row that is saved under the name that was checked.
LEMMA SavesNamedKeeps ==
    ASSUME Named, config' = config, NEW table \in {"cadres", "rules"}, NEW c, NEW id, NEW row,
           NEW saved, {"business", "name"} \subseteq DOMAIN saved,
           saved.business = row.business, saved.name = row.name,
           SavesNamed(c, table, id, row, Put(table, id, saved))
    PROVE  Named'
<1>1. CASE NameTaken(table, "name", id, row)
    BY <1>1, UntouchedKeeps DEF SavesNamed, Answers, Untouched, Named
<1>2. CASE ~NameTaken(table, "name", id, row)
    <2>1. Claims(table, "name", id, saved)
        BY <1>2 DEF SavesNamed, WritesAndAnswers, NameTaken, Claims
    <2> QED
        BY <2>1, NameKeeps
<1> QED
    BY <1>1, <1>2

\* A row that is deleted keeps its name.
LEMMA DeleteKeeps ==
    ASSUME Named, config' = config, NEW table \in {"cadres", "rules"}, NEW id \in DOMAIN db[table],
           db[table][id] # Nothing, db' = Delete(table, id)
    PROVE  Named'
<1> DEFINE row == [db[table][id] EXCEPT !.deleted = TRUE]
<1>1. {"business", "name"} \subseteq DOMAIN db[table][id]
    BY DEF Named
<1>2. /\ DOMAIN row = DOMAIN db[table][id]
      /\ row.business = db[table][id].business /\ row.name = db[table][id].name
    BY <1>1
<1>3. db' = Put(table, id, row)
    BY DEF Delete, Put, Named, NamedTables
<1>4. Claims(table, "name", id, row)
    BY <1>2, <1>3 DEF Claims, Named, NamedTables, UniqueNames, UniqueIn
<1> QED
    BY <1>1, <1>2, <1>4, NameKeeps

-----------------------------------------------------------------------------
(* Every step *)

LEMMA HireKeeps ==
    ASSUME Named, config' = config, NEW c \in Calls, Hire(c)
    PROVE  Named'
<1>1. CASE \/ HandleCreateEmployee(c) \/ HandleImport(c) \/ HireFindsCadre(c)
           \/ HireChecksEmail(c) \/ HireVerifiesAccount(c)
    <2>1. db' = db
        BY <1>1 DEF HandleCreateEmployee, HandleImport, HireFindsCadre, HireChecksEmail,
            HireVerifiesAccount, Reads, Answers, Skips, Writes
    <2> QED
        BY <2>1, UntouchedKeeps DEF Untouched, Named
<1>2. CASE HireInserts(c)
    BY <1>2, InsertEmployeeKeeps DEF HireInserts
<1> QED
    BY <1>1, <1>2 DEF Hire

LEMMA EmployKeeps ==
    ASSUME Named, config' = config, NEW c \in Calls, Employ(c)
    PROVE  Named'
<1>1. CASE \/ HandleUpdateEmployee(c) \/ HandleUpdateBankDetails(c) \/ UpdateFindsEmployee(c)
           \/ UpdateFindsCadre(c) \/ UpdateVerifiesAccount(c)
           \/ HandleDeactivate(c) \/ DeactivateFindsEmployee(c)
    <2>1. db' = db
        BY <1>1 DEF HandleUpdateEmployee, HandleUpdateBankDetails, UpdateFindsEmployee,
            UpdateFindsCadre, UpdateVerifiesAccount, HandleDeactivate, DeactivateFindsEmployee,
            Handle, Loads, Reads, Answers, Skips, Writes
    <2> QED
        BY <2>1, UntouchedKeeps DEF Untouched, Named
<1>2. CASE UpdateSaves(c) \/ DeactivateSaves(c)
    BY <1>2, SavesEmployeeKeeps DEF UpdateSaves, DeactivateSaves
<1> QED
    BY <1>1, <1>2 DEF Employ

\* What FindCadre and FindRule find is there.
LEMMA FoundIsThere ==
    ASSUME NEW c, NEW id, NEW business
    PROVE  /\ FindCadre(c, id, business) # Nothing =>
                  id \in DOMAIN db.cadres /\ db.cadres[id] # Nothing
           /\ FindRule(c, id, business) # Nothing =>
                  id \in DOMAIN db.rules /\ db.rules[id] # Nothing
BY DEF FindCadre, FindRule, First, Where, Sees

LEMMA StructureKeeps ==
    ASSUME Named, config' = config, NEW c \in Calls, Structure(c)
    PROVE  Named'
<1>1. CASE db' = db
    BY <1>1, UntouchedKeeps DEF Untouched, Named
<1>2. /\ {"business", "name"} \subseteq DOMAIN NamedCadre(c)
      /\ {"business", "name"} \subseteq DOMAIN NamedRule(c)
    BY DEF NamedCadre, NamedRule
<1>3. CASE CreateCadreInserts(c)
    BY <1>2, <1>3, SavesNamedKeeps DEF CreateCadreInserts
<1>4. CASE UpdateCadre(c)
    <2> DEFINE before == IF db.cadres[req[c].id] = Nothing THEN <<>>
                      ELSE db.cadres[req[c].id].components
               saved == [NamedCadre(c) EXCEPT !.components = before \o @]
    <2>1. /\ {"business", "name"} \subseteq DOMAIN saved
          /\ saved.business = NamedCadre(c).business /\ saved.name = NamedCadre(c).name
        BY DEF NamedCadre
    <2>2. SavesNamed(c, "cadres", req[c].id, NamedCadre(c), Put("cadres", req[c].id, saved))
        BY <1>4 DEF UpdateCadre, SaveCadre
    <2> HIDE DEF saved
    <2> QED
        BY <2>1, <2>2, SavesNamedKeeps
<1>5. CASE CreateDeductionRule(c) \/ UpdateDeductionRule(c)
    BY <1>2, <1>5, SavesNamedKeeps DEF CreateDeductionRule, UpdateDeductionRule
<1>6. CASE DeleteCadre(c)
    BY <1>1, <1>6, FoundIsThere, DeleteKeeps DEF DeleteCadre, Answers, WritesAndAnswers
<1>7. CASE DeleteDeductionRule(c)
    BY <1>1, <1>7, FoundIsThere, DeleteKeeps DEF DeleteDeductionRule, Answers, WritesAndAnswers
<1>8. CASE \/ HandleCreateCadre(c) \/ CreateCadreChecks(c) \/ HandleUpdateCadre(c)
           \/ HandleDeleteCadre(c) \/ HandleCreateRule(c) \/ HandleUpdateRule(c)
           \/ HandleDeleteRule(c)
    BY <1>1, <1>8 DEF HandleCreateCadre, CreateCadreChecks, HandleUpdateCadre, HandleDeleteCadre,
        HandleCreateRule, HandleUpdateRule, HandleDeleteRule, Handle, Answers, Skips, Writes
<1> QED
    BY <1>3, <1>4, <1>5, <1>6, <1>7, <1>8 DEF Structure

LEMMA OthersUntouched ==
    ASSUME Named, NEW c \in Calls, TakeLeave(c) \/ Lend(c) \/ Look(c) \/ Calculate(c)
    PROVE  Untouched
<1> USE DEF Untouched, Named, NamedTables, Handle, Loads, Reads, Answers, Skips, Writes,
        WritesAndAnswers, Put
<1>1. CASE TakeLeave(c)
    BY <1>1 DEF TakeLeave,
        HandleCreateLeaveType, CreateLeaveType, HandleSubmitLeave, SubmitFindsBalance,
        SubmitCreatesBalance, SubmitInserts, HandleApproveLeave, FindsPending,
        ApproveFindsLeave, ApproveChecksBalance, ApproveSaves, ApproveDeducts,
        HandleRejectLeave, RejectFindsLeave, RejectSaves
<1>2. CASE Lend(c)
    BY <1>2 DEF Lend,
        HandleCreateLoan, CreateLoan, HandleCancelLoan, CancelFindsLoan, CancelSavesLoan
<1>3. CASE Look(c)
    BY <1>3 DEF Look,
        GetEmployeeByID, ListEmployees, GetCadreByID, ListAllCadres, ListDeductionRules,
        ListLoans, ListLeaveTypes, ListLeaveRequests, GetLeaveBalances, GetProfile,
        GetSettings, GetPlans, GetSubscription, ListInvoices, ListPayrollRuns, GetStats,
        ListOrganizations, HandlePAYEReport, HandlePensionSchedule, HandleNHFSchedule,
        HandleBankSchedule, HandlePayrollSummary, HandleAllPayslips, HandlePayslip,
        GetPayrollRunByID, GetPayrollStatus, GetPayslips, HandleDashboard,
        GetSummaryEmployees, CountsEmployees, GetSummaryRuns, GetSummaryEnds, Shows,
        Lookup, Report
<1>4. CASE Calculate(c)
    BY <1>4 DEF Calculate,
        HandleCalculate, CalculateResolves, Resolves, CalculateReadsBusiness,
        CalculateReadsEmployees, CalculateReadsCadres, CalculateReadsLoans, ReadsLoans,
        CreateAndStorePayrollRun
<1> QED
    BY <1>1, <1>2, <1>3, <1>4

\* A registration adds a cadre only to a database without the indexes.
LEMMA RegisterKeepsNames ==
    ASSUME Named, config' = config, NEW c \in Calls, Register(c) \/ RegisterAborts(c)
    PROVE  Named'
<1>1. CASE RegisterCreatesCadre(c)
    <2>1. CASE config.migrated
        BY <1>1, <2>1, UntouchedKeeps DEF RegisterCreatesCadre, Skips, Writes, Untouched, Named
    <2>2. CASE ~config.migrated
        <3>1. {"business", "name"} \subseteq DOMAIN StandardCadre(c)
            BY DEF StandardCadre
        <3>2. Claims("cadres", "name", c, StandardCadre(c))
            BY <1>1, <2>2 DEF RegisterCreatesCadre, Writes, Claims
        <3> QED
            BY <3>1, <3>2, NameKeeps
    <2> QED
        BY <2>1, <2>2
<1>2. CASE \/ HandleRegister(c) \/ RegisterCreatesBusiness(c) \/ RegisterCreatesAdmin(c)
           \/ RegisterLinksAdmin(c) \/ RegisterAssignsPlan(c) \/ RegisterOpensAccount(c)
           \/ RegisterCommits(c) \/ RegisterAborts(c)
    <2>1. Untouched
        BY <1>2 DEF Untouched, Named, NamedTables, HandleRegister, Handle, Answers, Skips, Writes,
            RegisterCreatesBusiness, RegisterCreatesAdmin, InsertUser, Fails, RolledBack, Put,
            RegisterLinksAdmin, Linked, UpdateBusiness, RegisterAssignsPlan,
            RegisterOpensAccount, RegisterCommits, RegisterAborts
    <2> QED
        BY <2>1, UntouchedKeeps
<1> QED
    BY <1>1, <1>2 DEF Register

LEMMA AccountsKeep ==
    ASSUME Named, config' = config, NEW c \in Calls,
           LogIn(c) \/ Invite(c) \/ Recover(c) \/ Manage(c) \/ Bill(c)
    PROVE  Named'
<1>1. CASE CreateLoginLinksEmployee(c)
    BY <1>1, SavesEmployeeKeeps DEF CreateLoginLinksEmployee
<1> USE DEF Untouched, Named, NamedTables, Handle, Loads, Reads, Answers, Skips, Writes,
        WritesAndAnswers, Put, InsertUser, Fails, RolledBack
<1>2. CASE \/ HandleLogin(c) \/ Login(c) \/ HandleEmployeeLogin(c) \/ EmployeeLogin(c)
           \/ HandleCreateLogin(c) \/ CreateLoginFindsEmployee(c) \/ CreateLoginCreatesUser(c)
    <2>1. Untouched
        BY <1>2 DEF HandleLogin, Login, HandleEmployeeLogin, EmployeeLogin, HandleCreateLogin,
            CreateLoginFindsEmployee, CreateLoginCreatesUser
    <2> QED
        BY <2>1, UntouchedKeeps
<1>3. CASE Invite(c)
    <2>1. Untouched
        BY <1>3 DEF Invite, HandleInvite, InviteLooksForUser, InviteCreatesUser, InviteAnswers,
            HandleAccept, AcceptFindsUser, AcceptSavesPassword, UpdateUser
    <2> QED
        BY <2>1, UntouchedKeeps
<1>4. CASE Recover(c)
    <2>1. Untouched
        BY <1>4 DEF Recover, HandleForgot, ForgotFindsUser, ForgotSavesToken, HandleReset,
            ResetFindsUser, ResetSavesPassword, HandleResend, ResendFindsUser, ResendSavesToken,
            HandleVerify, VerifyFindsUser, VerifySavesUser, UpdateUser
    <2> QED
        BY <2>1, UntouchedKeeps
<1>5. CASE Manage(c)
    <2>1. Untouched
        BY <1>5 DEF Manage, HandleSettings, SettingsRead, SettingsSave, HandleSuspend,
            SuspendReads, SuspendOrganization, HandleActivate, ActivateReads,
            ActivateOrganization, ReadsBusiness, UpdateBusiness
    <2> QED
        BY <2>1, UntouchedKeeps
<1>6. CASE Bill(c)
    <2>1. Untouched
        BY <1>6 DEF Bill, HandleSubscribe, SubscribeFindsPlan, AssignFreePlan,
            InitializeTransaction, SubscribeCreates, SubscribeInvoices, SubscribeReads,
            SubscribeSaves, HandleCancelSubscription, CancelFindsSubscription, CancelSaves,
            CancelReads, CancelDowngrades, ReadsBusiness, UpdateBusiness
    <2> QED
        BY <2>1, UntouchedKeeps
<1> QED
    BY <1>1, <1>2, <1>3, <1>4, <1>5, <1>6 DEF LogIn

\* Errors write nothing and crashes roll back registrations.
LEMMA FaultKeeps ==
    ASSUME Named, config' = config, Fault
    PROVE  Named'
<1>1. CASE Crash
    BY <1>1, UntouchedKeeps DEF Crash, RolledBack, Untouched, Named, NamedTables
<1>2. ASSUME NEW c \in Calls, Breaks(c) \/ Ignored(c)
      PROVE  Untouched
    BY <1>2 DEF Breaks, Ignored, Resolves, CountsEmployees, ReadsLoans, Fails, RolledBack, Reads,
        Answers, Skips, Writes, Untouched, Named, NamedTables
<1> QED
    BY <1>1, <1>2, UntouchedKeeps, RegisterKeepsNames DEF Fault

LEMMA NextKeepsNames ==
    ASSUME Named, [Next]_allVars
    PROVE  Named'
<1>1. CASE Next
    <2>1. config' = config
        BY <1>1 DEF Next, Recorded
    <2> QED
        BY <1>1, <2>1, FaultKeeps, HireKeeps, EmployKeeps, StructureKeeps, OthersUntouched,
            UntouchedKeeps, RegisterKeepsNames, AccountsKeep DEF Next, Step
<1>2. CASE UNCHANGED allVars
    BY <1>2 DEF allVars, vars, Named, UniqueNames
<1> QED
    BY <1>1, <1>2

-----------------------------------------------------------------------------
(* The theorem *)

\* However creations, imports, updates and deletions interleave between the check for a free
\* name and the statement that uses it (CreateEmployee, UpdateEmployee, CreateCadre,
\* CreateDeductionRule), the migrations' indexes let no name be used twice.
THEOREM NamesStayUnique == Spec => []UniqueNames
<1>1. OfficeInit => Named
    BY NamesAssumption DEF OfficeInit, Init, Named, NamedTables, UniqueNames, IsCadre, IsRule
<1>2. Named /\ [Next]_allVars => Named'
    BY NextKeepsNames
<1>3. Named => UniqueNames
    BY DEF Named
<1> QED
    BY <1>1, <1>2, <1>3, PTL DEF Spec

-----------------------------------------------------------------------------
(* Leave *)

LeaveTables == {"balances", "leaves", "leaveTypes"}
LeaveLabels ==
    {"create_leave_type", "submit", "submit.balance", "submit.insert", "approve",
     "approve.balance", "approve.save", "approve.deduct", "reject", "reject.save"}
Approving == {"approve", "approve.balance", "approve.save", "approve.deduct"}

IsLeave(l) ==
    /\ DOMAIN l = {"business", "balance", "days", "status"}
    /\ l.days \in Int
    /\ l.balance \in DOMAIN db.balances

\* What a table holds, and which ids it may hold.
LeaveRows ==
    /\ LeaveTables \subseteq DOMAIN db
    /\ \A table \in LeaveTables : DOMAIN db[table] = DOMAIN Rows0[table]
    /\ \A key \in DOMAIN db.balances : db.balances[key] # Nothing => IsBalance(db.balances[key])
    /\ \A l \in DOMAIN db.leaves : db.leaves[l] # Nothing => IsLeave(db.leaves[l])
    /\ \A t \in DOMAIN db.leaveTypes : db.leaveTypes[t] # Nothing => db.leaveTypes[t].days \in Nat

\* What a call has read: an approval that goes on has found days enough in its balance, and is
\* not answered before its end.
LeaveCall(c) ==
    /\ req[c].op = "approve" =>
           pc[c] = "done" \/ (pc[c] \in {"received"} \cup Approving /\ answer[c] = Nothing)
    /\ pc[c] \in {"submit", "submit.balance", "submit.insert"} => req[c].op = "submit"
    /\ pc[c] = "create_leave_type" => req[c].op = "create_leave_type" /\ req[c].days > 0
    /\ pc[c] = "approve" => req[c].op = "approve"
    /\ pc[c] = "reject" => req[c].op = "reject"
    /\ pc[c] = "submit.balance" => IsBalance(mem[c].balance)
    /\ pc[c] \in {"approve.balance", "approve.save", "approve.deduct", "reject.save"} =>
           IsLeave(mem[c].row)
    /\ pc[c] \in {"approve.save", "approve.deduct"} =>
           IsBalance(mem[c].balance) /\ mem[c].row.days <= mem[c].balance.remaining

LeaveInv ==
    /\ DOMAIN pc = Calls /\ DOMAIN mem = Calls /\ DOMAIN answer = Calls
    /\ req \in Workloads
    /\ LeaveRows
    /\ \A c \in Calls : LeaveCall(c)

-----------------------------------------------------------------------------
(* How a step of one call keeps it *)

Moves(c) ==
    /\ req' = req
    /\ DOMAIN pc' = Calls /\ DOMAIN mem' = Calls /\ DOMAIN answer' = Calls
    /\ \A d \in Calls \ {c} : pc'[d] = pc[d] /\ mem'[d] = mem[d] /\ answer'[d] = answer[d]

SameLeave ==
    /\ LeaveTables \subseteq DOMAIN db'
    /\ db'.balances = db.balances /\ db'.leaves = db.leaves /\ db'.leaveTypes = db.leaveTypes

LEMMA MoveKeeps ==
    ASSUME LeaveInv, NEW c \in Calls, Moves(c), LeaveRows', LeaveCall(c)'
    PROVE  LeaveInv'
<1>1. DOMAIN db'.balances = DOMAIN db.balances
    BY DEF LeaveInv, LeaveRows, LeaveTables
<1>2. \A l : IsLeave(l) <=> IsLeave(l)'
    BY <1>1 DEF IsLeave
<1>3. ASSUME NEW d \in Calls \ {c}
      PROVE  LeaveCall(d)'
    BY <1>2 DEF LeaveInv, LeaveCall, Moves
<1> QED
    BY <1>3 DEF LeaveInv, Moves

\* A step that has nothing to do with leave; of an approval only its failure.
Elsewhere(c) ==
    /\ Moves(c)
    /\ SameLeave
    /\ pc'[c] \notin LeaveLabels \cup {"received"}
    /\ pc[c] # "done"
    /\ req[c].op = "approve" => pc'[c] = "done" /\ answer'[c] # "ok"

LEMMA ElsewhereKeeps ==
    ASSUME LeaveInv, NEW c \in Calls, Elsewhere(c)
    PROVE  LeaveInv'
<1>1. LeaveRows'
    BY DEF LeaveInv, LeaveRows, LeaveTables, Elsewhere, SameLeave, IsLeave
<1>2. LeaveCall(c)'
    BY DEF Elsewhere, LeaveCall, LeaveLabels, Moves
<1> QED
    BY <1>1, <1>2, MoveKeeps DEF Elsewhere

-----------------------------------------------------------------------------
(* The steps of leave *)

LEMMA SubmitKeeps ==
    ASSUME LeaveInv, NEW c \in Calls, req' = req,
           \/ HandleSubmitLeave(c) \/ SubmitFindsBalance(c) \/ SubmitCreatesBalance(c)
           \/ SubmitInserts(c)
           \/ /\ At(c, "submit") /\ Days(c) > 0
              /\ IF db.leaveTypes[req[c].type] = Nothing THEN Answers(c, "missing")
                 ELSE Reads(c, [balance |-> NewBalance(c)], "submit.balance")
    PROVE  LeaveInv'
<1> USE DEF At, Goes, Ends, Answers, Reads, Writes, Skips, WritesAndAnswers, Handle
<1>1. Moves(c)
    BY DEF HandleSubmitLeave, SubmitFindsBalance, SubmitCreatesBalance, SubmitInserts, Moves,
        LeaveInv
<1>2. req[c].op = "submit" => /\ Days(c) \in Int /\ Leave(c) \in DOMAIN db.balances
                              /\ req[c].type \in DOMAIN db.leaveTypes
    BY LeaveAssumption DEF Days, Leave, LeaveInv, LeaveRows, LeaveTables
<1>3. req[c].op = "submit" /\ db.leaveTypes[req[c].type] # Nothing => IsBalance(NewBalance(c))
    BY <1>2 DEF NewBalance, IsBalance, NotOverdrawn, Remaining, LeaveInv, LeaveRows
<1>4. CASE db' = db
    <2>1. LeaveRows'
        BY <1>4 DEF LeaveInv, LeaveRows, IsLeave
    <2>2. LeaveCall(c)'
        BY <1>2, <1>3, <1>4 DEF HandleSubmitLeave, SubmitFindsBalance, SubmitCreatesBalance,
            SubmitInserts, LeaveCall, LeaveInv
    <2> QED
        BY <1>1, <2>1, <2>2, MoveKeeps
<1>5. CASE SubmitCreatesBalance(c) /\ db' = Put("balances", Leave(c), mem[c].balance)
    <2>1. IsBalance(mem[c].balance)
        BY <1>5 DEF SubmitCreatesBalance, LeaveInv, LeaveCall
    <2>2. LeaveRows'
        BY <1>5, <2>1 DEF LeaveInv, LeaveRows, LeaveTables, IsLeave, Put
    <2>3. LeaveCall(c)'
        BY <1>5 DEF SubmitCreatesBalance, LeaveCall, LeaveInv
    <2> QED
        BY <1>1, <2>2, <2>3, MoveKeeps
<1>6. CASE /\ SubmitInserts(c)
           /\ db' = Put("leaves", c, [business |-> Business(c), balance |-> Leave(c),
                                      days |-> Days(c), status |-> "pending"])
    <2>1. req[c].op = "submit"
        BY <1>6 DEF SubmitInserts, LeaveInv, LeaveCall
    <2>2. LeaveRows'
        BY <1>2, <1>6, <2>1 DEF LeaveInv, LeaveRows, LeaveTables, IsLeave, Put
    <2>3. LeaveCall(c)'
        BY <1>6 DEF SubmitInserts, LeaveCall, LeaveInv
    <2> QED
        BY <1>1, <2>2, <2>3, MoveKeeps
<1> QED
    BY <1>4, <1>5, <1>6 DEF HandleSubmitLeave, SubmitFindsBalance, SubmitCreatesBalance,
        SubmitInserts

LEMMA ApproveReads ==
    ASSUME LeaveInv, NEW c \in Calls, req' = req,
           \/ HandleApproveLeave(c) \/ HandleRejectLeave(c)
           \/ ApproveFindsLeave(c) \/ RejectFindsLeave(c) \/ ApproveChecksBalance(c)
    PROVE  LeaveInv'
<1> USE DEF At, Goes, Ends, Answers, Reads, Writes, Skips, Handle, Loads
<1>1. Moves(c) /\ db' = db
    BY DEF HandleApproveLeave, HandleRejectLeave, ApproveFindsLeave, RejectFindsLeave, FindsPending,
        ApproveChecksBalance, Moves, LeaveInv
<1>2. LeaveRows'
    BY <1>1 DEF LeaveInv, LeaveRows, IsLeave
<1>3. req[c].op \in {"approve", "reject"} => req[c].id \in DOMAIN db.leaves
    BY LeaveAssumption DEF LeaveInv, LeaveRows, LeaveTables
<1>4. CASE HandleApproveLeave(c) \/ HandleRejectLeave(c)
    <2>1. LeaveCall(c)'
        BY <1>4 DEF HandleApproveLeave, HandleRejectLeave, LeaveCall, LeaveInv, Approving
    <2> QED
        BY <1>1, <1>2, <2>1, MoveKeeps
<1>5. CASE ApproveFindsLeave(c) \/ RejectFindsLeave(c)
    <2>1. req[c].id \in DOMAIN db.leaves
        BY <1>3, <1>5 DEF ApproveFindsLeave, RejectFindsLeave, FindsPending, LeaveInv, LeaveCall
    <2>2. db.leaves[req[c].id] # Nothing => IsLeave(db.leaves[req[c].id])
        BY <2>1 DEF LeaveInv, LeaveRows
    <2>3. LeaveCall(c)'
        BY <1>1, <1>5, <2>2 DEF ApproveFindsLeave, RejectFindsLeave, FindsPending, LeaveCall,
            LeaveInv, IsLeave, Approving
    <2> QED
        BY <1>1, <1>2, <2>3, MoveKeeps
<1>6. CASE ApproveChecksBalance(c)
    <2> DEFINE balance == db.balances[mem[c].row.balance]
    <2>1. IsLeave(mem[c].row)
        BY <1>6 DEF ApproveChecksBalance, LeaveInv, LeaveCall
    <2>2. balance # Nothing => IsBalance(balance)
        BY <2>1 DEF LeaveInv, LeaveRows, IsLeave
    <2>3. balance # Nothing /\ ~(balance.remaining < mem[c].row.days)
              => mem[c].row.days <= balance.remaining
        BY <2>1, <2>2 DEF IsLeave, IsBalance
    <2>4. LeaveCall(c)'
        BY <1>1, <1>6, <2>1, <2>2, <2>3 DEF ApproveChecksBalance, LeaveCall, LeaveInv, IsLeave,
            Approving
    <2> QED
        BY <1>1, <1>2, <2>4, MoveKeeps
<1> QED
    BY <1>4, <1>5, <1>6

LEMMA ApproveWrites ==
    ASSUME LeaveInv, NEW c \in Calls, req' = req,
           ApproveSaves(c) \/ ApproveDeducts(c) \/ RejectSaves(c)
    PROVE  LeaveInv'
<1> USE DEF At, Goes, Ends, Writes, WritesAndAnswers
<1>1. Moves(c)
    BY DEF ApproveSaves, ApproveDeducts, RejectSaves, Moves, LeaveInv
<1>2. IsLeave(mem[c].row)
    BY DEF ApproveSaves, ApproveDeducts, RejectSaves, LeaveInv, LeaveCall
<1>3. CASE ApproveSaves(c) \/ RejectSaves(c)
    <2>1. PICK status \in {"approved", "rejected"} :
              db' = Put("leaves", mem[c].id, [mem[c].row EXCEPT !.status = status])
        BY <1>3 DEF ApproveSaves, RejectSaves
    <2>2. IsLeave([mem[c].row EXCEPT !.status = status])
        BY <1>2 DEF IsLeave
    <2>3. LeaveRows'
        BY <2>1, <2>2 DEF LeaveInv, LeaveRows, LeaveTables, IsLeave, Put
    <2>4. IsLeave(mem[c].row)' /\ mem'[c] = mem[c]
        BY <1>2, <1>3, <2>1 DEF ApproveSaves, RejectSaves, IsLeave, Put, LeaveInv, LeaveRows,
            LeaveTables
    <2>5. LeaveCall(c)'
        BY <1>3, <2>4 DEF ApproveSaves, RejectSaves, LeaveCall, LeaveInv, Approving
    <2> QED
        BY <1>1, <2>3, <2>5, MoveKeeps
<1>4. CASE ApproveDeducts(c)
    <2> DEFINE balance == mem[c].balance
               used == [balance EXCEPT !.used = @ + mem[c].row.days]
               saved == [used EXCEPT !.remaining = Remaining(used)]
    <2>1. IsBalance(balance) /\ mem[c].row.days <= balance.remaining /\ mem[c].row.days \in Int
        BY <1>2, <1>4 DEF ApproveDeducts, LeaveInv, LeaveCall, IsLeave
    <2>2. IsBalance(saved)
        <3>1. used = [entitled |-> balance.entitled, used |-> balance.used + mem[c].row.days,
                      remaining |-> balance.remaining]
            BY <2>1 DEF IsBalance
        <3>2. saved = [entitled |-> balance.entitled, used |-> balance.used + mem[c].row.days,
                       remaining |-> balance.entitled - (balance.used + mem[c].row.days)]
            <4>1. Remaining(used) = balance.entitled - (balance.used + mem[c].row.days)
                BY <3>1 DEF Remaining
            <4> HIDE DEF used
            <4> QED
                BY <3>1, <4>1
        <3>3. /\ balance.entitled \in Int /\ balance.used \in Int
              /\ balance.remaining = balance.entitled - balance.used
            BY <2>1 DEF IsBalance, NotOverdrawn, Remaining
        <3>4. balance.entitled - (balance.used + mem[c].row.days) >= 0
            BY <2>1, <3>3
        <3> HIDE DEF saved, balance
        <3> QED
            BY <2>1, <3>2, <3>3, <3>4 DEF IsBalance, NotOverdrawn, Remaining
    <2>3. db' = Put("balances", mem[c].row.balance, saved) /\ pc'[c] = "done"
        BY <1>4 DEF ApproveDeducts, LeaveInv
    <2> HIDE DEF saved
    <2>4. LeaveRows'
        BY <2>2, <2>3 DEF LeaveInv, LeaveRows, LeaveTables, IsLeave, Put
    <2>5. LeaveCall(c)'
        BY <2>3 DEF LeaveCall
    <2> QED
        BY <1>1, <2>4, <2>5, MoveKeeps
<1> QED
    BY <1>3, <1>4

LEMMA LeaveTypeKeeps ==
    ASSUME LeaveInv, NEW c \in Calls, req' = req, HandleCreateLeaveType(c) \/ CreateLeaveType(c)
    PROVE  LeaveInv'
<1> USE DEF At, Goes, Ends, Answers, Writes, Skips, WritesAndAnswers, Handle
<1>1. Moves(c)
    BY DEF HandleCreateLeaveType, CreateLeaveType, Moves, LeaveInv
<1>2. CASE HandleCreateLeaveType(c)
    <2>1. LeaveRows'
        BY <1>2 DEF HandleCreateLeaveType, LeaveInv, LeaveRows, IsLeave
    <2>2. LeaveCall(c)'
        BY <1>2 DEF HandleCreateLeaveType, LeaveCall, LeaveInv
    <2> QED
        BY <1>1, <2>1, <2>2, MoveKeeps
<1>3. CASE CreateLeaveType(c)
    <2>1. req[c].op = "create_leave_type" /\ req[c].days > 0
        BY <1>3 DEF CreateLeaveType, LeaveInv, LeaveCall
    <2>2. req[c].days \in Int
        BY <2>1, LeaveAssumption DEF LeaveInv
    <2>3. req[c].days \in Nat
        BY <2>1, <2>2
    <2>4. LeaveRows'
        BY <1>3, <2>3 DEF CreateLeaveType, LeaveInv, LeaveRows, LeaveTables, IsLeave, Put
    <2>5. LeaveCall(c)'
        BY <1>3 DEF CreateLeaveType, LeaveCall, LeaveInv
    <2> QED
        BY <1>1, <2>4, <2>5, MoveKeeps
<1> QED
    BY <1>2, <1>3

-----------------------------------------------------------------------------
(* Every step *)

LEMMA TakeLeaveKeeps ==
    ASSUME LeaveInv, NEW c \in Calls, req' = req, TakeLeave(c)
    PROVE  LeaveInv'
BY SubmitKeeps, ApproveReads, ApproveWrites, LeaveTypeKeeps DEF TakeLeave

\* What approvals have no part in.
LEMMA StaffNeverApprove ==
    ASSUME LeaveInv, NEW c \in Calls,
           \/ Hire(c) \/ Employ(c) \/ Structure(c) \/ Lend(c) \/ Look(c) \/ Calculate(c)
    PROVE  req[c].op # "approve"
<1>1. req[c].op = "approve" => pc[c] \in {"received", "done"} \cup Approving
    BY DEF LeaveInv, LeaveCall
<1> USE <1>1 DEF Approving, At, Handle
<1>2. CASE Hire(c)
    BY <1>2 DEF Hire, HandleCreateEmployee, HandleImport, Importing, HireFindsCadre,
        HireChecksEmail, HireVerifiesAccount, HireInserts, InsertEmployee, RowEnds
<1>3. CASE Employ(c)
    BY <1>3 DEF Employ, HandleUpdateEmployee, HandleUpdateBankDetails, UpdateFindsEmployee,
        UpdateFindsCadre, UpdateVerifiesAccount, UpdateSaves, SavesEmployee, HandleDeactivate,
        DeactivateFindsEmployee, DeactivateSaves, UpdateEmployee
<1>4. CASE Structure(c)
    BY <1>4 DEF Structure, HandleCreateCadre, CreateCadreChecks, CreateCadreInserts, SavesNamed,
        HandleUpdateCadre, UpdateCadre, SaveCadre, HandleDeleteCadre, DeleteCadre, Delete,
        HandleCreateRule, CreateDeductionRule, HandleUpdateRule, UpdateDeductionRule,
        HandleDeleteRule, DeleteDeductionRule
<1>5. CASE Lend(c)
    BY <1>5 DEF Lend, HandleCreateLoan, CreateLoan, HandleCancelLoan, CancelFindsLoan,
        CancelSavesLoan
<1>6. CASE Look(c)
    BY <1>6 DEF Look,
        GetEmployeeByID, ListEmployees, GetCadreByID, ListAllCadres, ListDeductionRules,
        ListLoans, ListLeaveTypes, ListLeaveRequests, GetLeaveBalances, GetProfile,
        GetSettings, GetPlans, GetSubscription, ListInvoices, ListPayrollRuns, GetStats,
        ListOrganizations, HandlePAYEReport, HandlePensionSchedule, HandleNHFSchedule,
        HandleBankSchedule, HandlePayrollSummary, HandleAllPayslips, HandlePayslip,
        GetPayrollRunByID, GetPayrollStatus, GetPayslips, HandleDashboard,
        GetSummaryEmployees, CountsEmployees, GetSummaryRuns, GetSummaryEnds, Shows,
        Lookup, Report
<1>7. CASE Calculate(c)
    BY <1>7 DEF Calculate, HandleCalculate, CalculateResolves, Resolves, CalculateReadsBusiness,
        CalculateReadsEmployees, CalculateReadsCadres, CalculateReadsLoans, ReadsLoans,
        CreateAndStorePayrollRun
<1> QED
    BY <1>2, <1>3, <1>4, <1>5, <1>6, <1>7

\* What approvals have no part in.
LEMMA AccountsNeverApprove ==
    ASSUME LeaveInv, NEW c \in Calls,
           \/ Register(c) \/ RegisterAborts(c) \/ LogIn(c) \/ Invite(c) \/ Recover(c)
           \/ Manage(c) \/ Bill(c)
    PROVE  req[c].op # "approve"
<1>1. req[c].op = "approve" => pc[c] \in {"received", "done"} \cup Approving
    BY DEF LeaveInv, LeaveCall
<1> USE <1>1 DEF Approving, At, Handle, InsertUser
<1>2. CASE Register(c) \/ RegisterAborts(c)
    BY <1>2 DEF Register, HandleRegister, RegisterCreatesBusiness, RegisterCreatesAdmin,
        RegisterLinksAdmin, Linked, UpdateBusiness, RegisterCreatesCadre, RegisterAssignsPlan,
        RegisterOpensAccount, RegisterCommits, RegisterAborts
<1>3. CASE LogIn(c)
    BY <1>3 DEF LogIn, HandleLogin, Login, HandleEmployeeLogin, EmployeeLogin, HandleCreateLogin,
        CreateLoginFindsEmployee, CreateLoginCreatesUser, CreateLoginLinksEmployee,
        SavesEmployee, UpdateEmployee
<1>4. CASE Invite(c)
    BY <1>4 DEF Invite, HandleInvite, InviteLooksForUser, InviteCreatesUser, InviteAnswers,
        HandleAccept, AcceptFindsUser, AcceptSavesPassword, UpdateUser
<1>5. CASE Recover(c)
    BY <1>5 DEF Recover, HandleForgot, ForgotFindsUser, ForgotSavesToken, HandleReset,
        ResetFindsUser, ResetSavesPassword, HandleResend, ResendFindsUser, ResendSavesToken,
        HandleVerify, VerifyFindsUser, VerifySavesUser, UpdateUser
<1>6. CASE Manage(c)
    BY <1>6 DEF Manage, HandleSettings, SettingsRead, SettingsSave, HandleSuspend, SuspendReads,
        SuspendOrganization, HandleActivate, ActivateReads, ActivateOrganization,
        ReadsBusiness, UpdateBusiness
<1>7. CASE Bill(c)
    BY <1>7 DEF Bill, HandleSubscribe, SubscribeFindsPlan, AssignFreePlan, InitializeTransaction,
        SubscribeCreates, SubscribeInvoices, SubscribeReads, SubscribeSaves,
        HandleCancelSubscription, CancelFindsSubscription, CancelSaves, CancelReads,
        CancelDowngrades, ReadsBusiness, UpdateBusiness
<1> QED
    BY <1>2, <1>3, <1>4, <1>5, <1>6, <1>7

LEMMA StaffElsewhere ==
    ASSUME LeaveInv, NEW c \in Calls, req' = req,
           \/ Hire(c) \/ Employ(c) \/ Structure(c) \/ Lend(c) \/ Look(c) \/ Calculate(c)
    PROVE  Elsewhere(c)
<1>1. /\ DOMAIN pc = Calls /\ DOMAIN mem = Calls /\ DOMAIN answer = Calls
      /\ LeaveTables \subseteq DOMAIN db
    BY DEF LeaveInv, LeaveRows
<1> USE <1>1, StaffNeverApprove DEF Elsewhere, Moves, SameLeave, LeaveTables, LeaveLabels, At, Goes, Handle, Loads,
        Reads, Ends, Answers, Skips, Writes, WritesAndAnswers, Put
<1>2. CASE Hire(c)
    BY <1>2 DEF Hire, HandleCreateEmployee, HandleImport, Importing, HireFindsCadre,
        HireChecksEmail, HireVerifiesAccount, HireInserts, InsertEmployee, RowEnds
<1>3. CASE Employ(c)
    BY <1>3 DEF Employ, HandleUpdateEmployee, HandleUpdateBankDetails, UpdateFindsEmployee,
        UpdateFindsCadre, UpdateVerifiesAccount, UpdateSaves, SavesEmployee, HandleDeactivate,
        DeactivateFindsEmployee, DeactivateSaves, UpdateEmployee
<1>4. CASE Structure(c)
    BY <1>4 DEF Structure, HandleCreateCadre, CreateCadreChecks, CreateCadreInserts, SavesNamed,
        HandleUpdateCadre, UpdateCadre, SaveCadre, HandleDeleteCadre, DeleteCadre, Delete,
        HandleCreateRule, CreateDeductionRule, HandleUpdateRule, UpdateDeductionRule,
        HandleDeleteRule, DeleteDeductionRule
<1>5. CASE Lend(c)
    BY <1>5 DEF Lend, HandleCreateLoan, CreateLoan, HandleCancelLoan, CancelFindsLoan,
        CancelSavesLoan
<1>6. CASE Look(c)
    BY <1>6 DEF Look,
        GetEmployeeByID, ListEmployees, GetCadreByID, ListAllCadres, ListDeductionRules,
        ListLoans, ListLeaveTypes, ListLeaveRequests, GetLeaveBalances, GetProfile,
        GetSettings, GetPlans, GetSubscription, ListInvoices, ListPayrollRuns, GetStats,
        ListOrganizations, HandlePAYEReport, HandlePensionSchedule, HandleNHFSchedule,
        HandleBankSchedule, HandlePayrollSummary, HandleAllPayslips, HandlePayslip,
        GetPayrollRunByID, GetPayrollStatus, GetPayslips, HandleDashboard,
        GetSummaryEmployees, CountsEmployees, GetSummaryRuns, GetSummaryEnds, Shows,
        Lookup, Report
<1>7. CASE Calculate(c)
    BY <1>7 DEF Calculate, HandleCalculate, CalculateResolves, Resolves, CalculateReadsBusiness,
        CalculateReadsEmployees, CalculateReadsCadres, CalculateReadsLoans, ReadsLoans,
        CreateAndStorePayrollRun
<1> QED
    BY <1>2, <1>3, <1>4, <1>5, <1>6, <1>7

LEMMA AccountsElsewhere ==
    ASSUME LeaveInv, NEW c \in Calls, req' = req,
           \/ Register(c) \/ RegisterAborts(c) \/ LogIn(c) \/ Invite(c) \/ Recover(c)
           \/ Manage(c) \/ Bill(c)
    PROVE  Elsewhere(c)
<1>1. /\ DOMAIN pc = Calls /\ DOMAIN mem = Calls /\ DOMAIN answer = Calls
      /\ LeaveTables \subseteq DOMAIN db
    BY DEF LeaveInv, LeaveRows
<1> USE <1>1, AccountsNeverApprove DEF Elsewhere, Moves, SameLeave, LeaveTables, LeaveLabels, At, Goes, Handle, Loads,
        Reads, Ends, Answers, Skips, Writes, WritesAndAnswers, Put, InsertUser, Fails, RolledBack
<1>2. CASE Register(c) \/ RegisterAborts(c)
    BY <1>2 DEF Register, HandleRegister, RegisterCreatesBusiness, RegisterCreatesAdmin,
        RegisterLinksAdmin, Linked, UpdateBusiness, RegisterCreatesCadre, RegisterAssignsPlan,
        RegisterOpensAccount, RegisterCommits, RegisterAborts
<1>3. CASE LogIn(c)
    BY <1>3 DEF LogIn, HandleLogin, Login, HandleEmployeeLogin, EmployeeLogin, HandleCreateLogin,
        CreateLoginFindsEmployee, CreateLoginCreatesUser, CreateLoginLinksEmployee,
        SavesEmployee, UpdateEmployee
<1>4. CASE Invite(c)
    BY <1>4 DEF Invite, HandleInvite, InviteLooksForUser, InviteCreatesUser, InviteAnswers,
        HandleAccept, AcceptFindsUser, AcceptSavesPassword, UpdateUser
<1>5. CASE Recover(c)
    BY <1>5 DEF Recover, HandleForgot, ForgotFindsUser, ForgotSavesToken, HandleReset,
        ResetFindsUser, ResetSavesPassword, HandleResend, ResendFindsUser, ResendSavesToken,
        HandleVerify, VerifyFindsUser, VerifySavesUser, UpdateUser
<1>6. CASE Manage(c)
    BY <1>6 DEF Manage, HandleSettings, SettingsRead, SettingsSave, HandleSuspend, SuspendReads,
        SuspendOrganization, HandleActivate, ActivateReads, ActivateOrganization,
        ReadsBusiness, UpdateBusiness
<1>7. CASE Bill(c)
    BY <1>7 DEF Bill, HandleSubscribe, SubscribeFindsPlan, AssignFreePlan, InitializeTransaction,
        SubscribeCreates, SubscribeInvoices, SubscribeReads, SubscribeSaves,
        HandleCancelSubscription, CancelFindsSubscription, CancelSaves, CancelReads,
        CancelDowngrades, ReadsBusiness, UpdateBusiness
<1> QED
    BY <1>2, <1>3, <1>4, <1>5, <1>6, <1>7

\* A statement that fails ends a call with what was before.
LEMMA BreaksElsewhere ==
    ASSUME LeaveInv, NEW c \in Calls, req' = req, Breaks(c)
    PROVE  Elsewhere(c)
<1>1. /\ DOMAIN pc = Calls /\ DOMAIN mem = Calls /\ DOMAIN answer = Calls
      /\ LeaveTables \subseteq DOMAIN db
    BY DEF LeaveInv, LeaveRows
<1>2. Moves(c) /\ SameLeave /\ pc'[c] \notin LeaveLabels \cup {"received"}
    BY <1>1 DEF Breaks, Fails, RolledBack, RowEnds, Ends, Goes, Moves, SameLeave,
        LeaveTables, LeaveLabels
<1>3. req[c].op = "approve" =>
          answer[c] = Nothing /\ \E result \in {"error", "missing"} : Fails(c, result)
    BY DEF Breaks, LeaveInv, LeaveCall, Approving, Statements, Unfound, At
<1>4. req[c].op = "approve" => pc'[c] = "done" /\ answer'[c] # "ok"
    BY <1>1, <1>3 DEF Fails, Ends, Goes
<1>5. pc[c] # "done"
    BY DEF Breaks, Statements, Unfound, At
<1> QED
    BY <1>2, <1>4, <1>5 DEF Elsewhere

\* Of the statements whose error is only logged, those of leave are the read and the write of
\* the balance of a request for leave.
LEMMA IgnoredElsewhere ==
    ASSUME LeaveInv, NEW c \in Calls, req' = req, Ignored(c)
    PROVE  \/ Elsewhere(c)
           \/ At(c, "submit.balance") /\ Skips(c, "submit.insert")
           \/ /\ At(c, "submit") /\ Days(c) > 0
              /\ IF db.leaveTypes[req[c].type] = Nothing THEN Answers(c, "missing")
                 ELSE Reads(c, [balance |-> NewBalance(c)], "submit.balance")
<1> USE DEF Elsewhere, Moves, SameLeave, LeaveTables, LeaveLabels, At, Goes, Reads, Ends,
        Answers, Skips, Writes
<1>1. /\ DOMAIN pc = Calls /\ DOMAIN mem = Calls /\ DOMAIN answer = Calls
      /\ LeaveTables \subseteq DOMAIN db
    BY DEF LeaveInv, LeaveRows
<1>2. CASE \E step \in Logged : At(c, step[1]) /\ Skips(c, step[2])
    <2>1. PICK step \in Logged : At(c, step[1]) /\ Skips(c, step[2])
        BY <1>2
    <2>2. CASE step = <<"submit.balance", "submit.insert">>
        BY <2>1, <2>2
    <2>3. CASE step # <<"submit.balance", "submit.insert">>
        <3>1. step[1] \notin {"received", "done"} \cup Approving
            BY DEF Logged, Approving
        <3>2. req[c].op # "approve"
            BY <2>1, <3>1 DEF LeaveInv, LeaveCall
        <3>3. Elsewhere(c)
            BY <1>1, <2>1, <2>3, <3>2 DEF Logged
        <3> QED
            BY <3>3
    <2> QED
        BY <2>2, <2>3
<1>3. CASE /\ At(c, "submit") /\ Days(c) > 0
           /\ IF db.leaveTypes[req[c].type] = Nothing THEN Answers(c, "missing")
              ELSE Reads(c, [balance |-> NewBalance(c)], "submit.balance")
    BY <1>3
<1>4. CASE \/ pc[c] \in LoggedLast /\ Answers(c, "ok")
           \/ Resolves(c, {}) \/ CountsEmployees(c, {})
           \/ /\ At(c, "calculate.loans")
              /\ \E emp \in Unread(c) : ReadsLoans(c, emp, <<>>)
    <2>1. req[c].op # "approve"
        BY <1>4 DEF LeaveInv, LeaveCall, Approving, LoggedLast, Resolves, CountsEmployees
    <2>2. Elsewhere(c)
        BY <1>1, <1>4, <2>1 DEF LoggedLast, Resolves, CountsEmployees, ReadsLoans
    <2> QED
        BY <2>2
<1> QED
    BY <1>2, <1>3, <1>4 DEF Ignored

LEMMA FaultKeepsLeave ==
    ASSUME LeaveInv, req' = req, Fault
    PROVE  LeaveInv'
<1>1. /\ DOMAIN pc = Calls /\ DOMAIN mem = Calls /\ DOMAIN answer = Calls
      /\ LeaveTables \subseteq DOMAIN db
    BY DEF LeaveInv, LeaveRows
<1>2. CASE Crash
    <2>1. LeaveRows'
        BY <1>1, <1>2 DEF Crash, RolledBack, LeaveInv, LeaveRows, LeaveTables, IsLeave
    <2>2. ASSUME NEW c \in Calls
          PROVE  LeaveCall(c)'
        <3>1. /\ mem'[c] = mem[c]
              /\ \/ pc'[c] = "done"
                 \/ pc'[c] = pc[c] /\ (answer'[c] = answer[c] \/ answer[c] # Nothing)
            BY <1>1, <1>2 DEF Crash, InProgress
        <3>2. db'.balances = db.balances
            BY <1>1, <1>2 DEF Crash, RolledBack, LeaveTables
        <3> QED
            BY <3>1, <3>2 DEF LeaveInv, LeaveCall, IsLeave
    <2> QED
        BY <1>1, <1>2, <2>1, <2>2 DEF Crash, LeaveInv
<1>3. ASSUME NEW c \in Calls, At(c, "submit.balance"), Skips(c, "submit.insert")
      PROVE  LeaveInv'
    <2> USE <1>1 DEF Moves, LeaveTables, At, Goes, Skips, Writes
    <2>1. LeaveRows'
        BY <1>3 DEF LeaveInv, LeaveRows, IsLeave
    <2>2. LeaveCall(c)' /\ Moves(c)
        BY <1>3 DEF LeaveInv, LeaveCall, Approving
    <2> QED
        BY <2>1, <2>2, MoveKeeps
<1> QED
    BY <1>2, <1>3, BreaksElsewhere, IgnoredElsewhere, SubmitKeeps, ElsewhereKeeps, AccountsElsewhere
        DEF Fault

LEMMA NextKeepsLeave ==
    ASSUME LeaveInv, [Next]_allVars
    PROVE  LeaveInv'
<1>1. CASE Next
    <2>1. req' = req
        BY <1>1 DEF Next, Recorded
    <2> QED
        BY <1>1, <2>1, FaultKeepsLeave, TakeLeaveKeeps, StaffElsewhere, AccountsElsewhere,
            ElsewhereKeeps DEF Next, Step
<1>2. CASE UNCHANGED allVars
    BY <1>2 DEF allVars, vars, LeaveInv, LeaveRows, LeaveCall, IsLeave
<1> QED
    BY <1>1, <1>2

-----------------------------------------------------------------------------
(* The theorem *)

LEMMA InitLeave ==
    ASSUME OfficeInit
    PROVE  LeaveInv
    BY LeaveAssumption DEF OfficeInit, Init, LeaveInv, LeaveRows, LeaveTables, LeaveCall, IsLeave

\* No balance of any employee is overdrawn, and its columns agree.
BalancesHold ==
    \A key \in DOMAIN db.balances :
        db.balances[key] # Nothing => NotOverdrawn(db.balances[key])

\* However many approvals interleave and whatever fails between the check of a balance and the
\* save of the row that was read (ApproveRequest, leave_service.go), no balance goes below zero,
\* and what remains is what is not used.
THEOREM NothingOverdrawn == Spec => []BalancesHold
<1>1. OfficeInit => LeaveInv
    BY InitLeave
<1>2. LeaveInv /\ [Next]_allVars => LeaveInv'
    BY NextKeepsLeave
<1>3. LeaveInv => BalancesHold
    BY DEF LeaveInv, LeaveRows, BalancesHold, IsBalance
<1> QED
    BY <1>1, <1>2, <1>3, PTL DEF Spec
-----------------------------------------------------------------------------
(* What is used *)

\* SQL's NULL is not the row of a request for leave or of a balance.
NullIsNoLeave ==
    DOMAIN Nothing \notin {{"business", "balance", "days", "status"},
                          {"entitled", "used", "remaining"}}

Before(key) == IF Rows0.balances[key] = Nothing THEN 0 ELSE Rows0.balances[key].used

\* A balance of which so much is used counts these approvals.
Counts(key, used, counted) ==
    /\ counted \subseteq Approvals(key)
    /\ IsFiniteSet(counted)
    /\ used - Before(key) = SumFunction([c \in counted |-> db.leaves[req[c].id].days])

\* A balance that is not there has no approvals, one that is there counts one at least if there
\* are any.
Accounted(key) ==
    IF db.balances[key] = Nothing THEN Approvals(key) = {} /\ Rows0.balances[key] = Nothing
    ELSE \E counted : /\ Counts(key, db.balances[key].used, counted)
                      /\ Approvals(key) # {} => counted # {}

\* The row that a call has in hand is stored with the same days for the same balance, and the
\* balance that an approval has read counts approvals that there still are.
InHand(c) ==
    pc[c] \in {"approve.balance", "approve.save", "approve.deduct", "reject.save"} =>
        /\ mem[c].id \in DOMAIN db.leaves
        /\ db.leaves[mem[c].id] # Nothing
        /\ db.leaves[mem[c].id].balance = mem[c].row.balance
        /\ db.leaves[mem[c].id].days = mem[c].row.days
        /\ pc[c] # "reject.save" => mem[c].id = req[c].id /\ req[c].op = "approve"
        /\ pc[c] \in {"approve.save", "approve.deduct"} =>
               /\ db.balances[mem[c].row.balance] # Nothing
               /\ \E counted : Counts(mem[c].row.balance, mem[c].balance.used, counted)

\* A request for leave has no row before it is inserted, and nothing of a new balance is used.
Unsubmitted(c) ==
    /\ pc[c] \in {"received", "submit", "submit.balance", "submit.insert"} =>
           (c \in DOMAIN db.leaves => db.leaves[c] = Nothing)
    /\ pc[c] = "submit.balance" => mem[c].balance.used = 0

\* What was approved is stored.
Granted(c) ==
    req[c].op = "approve" /\ answer[c] = "ok" =>
        req[c].id \in DOMAIN db.leaves /\ db.leaves[req[c].id] # Nothing

UsedInv ==
    /\ LeaveInv
    /\ \A key \in DOMAIN db.balances : Accounted(key)
    /\ \A c \in Calls : InHand(c) /\ Unsubmitted(c) /\ Granted(c)

-----------------------------------------------------------------------------
(* Steps that approve nothing *)

\* Requests keep their days and their balance, balances are only created.
RowsStay ==
    /\ req' = req
    /\ DOMAIN db'.balances = DOMAIN db.balances /\ DOMAIN db'.leaves = DOMAIN db.leaves
    /\ \A l \in DOMAIN db.leaves :
           IF db.leaves[l] # Nothing
           THEN /\ db'.leaves[l] # Nothing
                /\ db'.leaves[l].balance = db.leaves[l].balance
                /\ db'.leaves[l].days = db.leaves[l].days
           ELSE db'.leaves[l] = Nothing \/ (l \in Calls /\ pc'[l] = "done")

Steady ==
    /\ RowsStay
    /\ \A key \in DOMAIN db.balances :
           \/ db'.balances[key] = db.balances[key]
           \/ db.balances[key] = Nothing /\ db'.balances[key] # Nothing /\ db'.balances[key].used = 0
    /\ \A c \in Calls : req[c].op = "approve" => (answer'[c] = "ok" <=> answer[c] = "ok")

\* A call stays where it is, or is over.
Stays(c) == pc'[c] = "done" \/ (pc'[c] = pc[c] /\ mem'[c] = mem[c])

LEMMA CountsStay ==
    ASSUME UsedInv, RowsStay, NEW key, NEW used, NEW counted, Counts(key, used, counted),
           \A c \in Calls : req[c].op = "approve" /\ answer[c] = "ok" => answer'[c] = "ok"
    PROVE  Counts(key, used, counted)'
<1>1. \A c \in counted : /\ c \in Calls /\ req[c].op = "approve" /\ answer[c] = "ok"
                         /\ db.leaves[req[c].id].balance = key
                         /\ req[c].id \in DOMAIN db.leaves /\ db.leaves[req[c].id] # Nothing
    BY DEF Counts, Approvals, UsedInv, Granted
<1>2. \A c \in counted : /\ req'[c] = req[c] /\ answer'[c] = "ok"
                         /\ db'.leaves[req[c].id].balance = key
                         /\ db'.leaves[req[c].id].days = db.leaves[req[c].id].days
    BY <1>1 DEF RowsStay
<1>3. counted \subseteq Approvals(key)'
    BY <1>1, <1>2 DEF Approvals, RowsStay
<1>4. [c \in counted |-> db'.leaves[req'[c].id].days] = [c \in counted |-> db.leaves[req[c].id].days]
    BY <1>2
<1> QED
    BY <1>3, <1>4 DEF Counts, Before

\* Balances do not disappear.
BalancesStay == \A key \in DOMAIN db.balances : db.balances[key] # Nothing => db'.balances[key] # Nothing
\* Approvals that were answered stay so.
ApprovalsStay ==
    \A c \in Calls : req[c].op = "approve" /\ answer[c] = "ok" => answer'[c] = "ok"

LEMMA CallKeeps ==
    ASSUME UsedInv, RowsStay, BalancesStay, ApprovalsStay, NEW c \in Calls, Stays(c)
    PROVE  InHand(c)' /\ Unsubmitted(c)'
<1>1. CASE pc'[c] = "done"
    BY <1>1 DEF InHand, Unsubmitted
<1>2. CASE pc'[c] # "done" /\ pc'[c] = pc[c] /\ mem'[c] = mem[c]
    <2>1. req'[c] = req[c]
        BY DEF RowsStay
    <2>2. Unsubmitted(c)'
        BY <1>2 DEF UsedInv, Unsubmitted, RowsStay
    <2>3. ASSUME pc[c] \in {"approve.save", "approve.deduct"}
          PROVE  /\ db'.balances[mem[c].row.balance] # Nothing
                 /\ \E counted : Counts(mem[c].row.balance, mem[c].balance.used, counted)'
        <3>1. mem[c].row.balance \in DOMAIN db.balances
            BY <2>3 DEF UsedInv, LeaveInv, LeaveCall, IsLeave
        <3>2. /\ db.balances[mem[c].row.balance] # Nothing
              /\ \E counted : Counts(mem[c].row.balance, mem[c].balance.used, counted)
            BY <2>3 DEF UsedInv, InHand
        <3>3. PICK counted : Counts(mem[c].row.balance, mem[c].balance.used, counted)
            BY <3>2
        <3>4. PICK key, used : key = mem[c].row.balance /\ used = mem[c].balance.used
            OBVIOUS
        <3>5. Counts(key, used, counted)'
            BY <3>3, <3>4, CountsStay DEF ApprovalsStay
        <3>6. db'.balances[mem[c].row.balance] # Nothing
            BY <3>1, <3>2 DEF BalancesStay
        <3> QED
            BY <1>2, <3>4, <3>5, <3>6
    <2>4. InHand(c)'
        BY <1>2, <2>1, <2>3 DEF UsedInv, InHand, RowsStay
    <2> QED
        BY <2>2, <2>4
<1> QED
    BY <1>1, <1>2 DEF Stays

LEMMA SteadyKeeps ==
    ASSUME UsedInv, LeaveInv', Steady,
           \A c \in Calls : Stays(c) \/ (InHand(c)' /\ Unsubmitted(c)')
    PROVE  UsedInv'
<1> USE DEF Steady
<1>1. \A c \in Calls : req[c].op = "approve" /\ answer[c] = "ok" => answer'[c] = "ok"
    OBVIOUS
<1>2. ASSUME NEW c \in Calls
      PROVE  Granted(c)'
    <2>1. req'[c] = req[c]
        BY DEF RowsStay
    <2> QED
        BY <2>1 DEF UsedInv, Granted, RowsStay
<1>3. ASSUME NEW c \in Calls
      PROVE  InHand(c)' /\ Unsubmitted(c)'
    BY <1>1, CallKeeps DEF BalancesStay, ApprovalsStay
<1>4. ASSUME NEW key \in DOMAIN db.balances
      PROVE  Accounted(key)'
    <2>1. Approvals(key)' = Approvals(key)
        <3>1. \A c \in Calls : req[c].op = "approve" /\ answer[c] = "ok" =>
                  db'.leaves[req[c].id].balance = db.leaves[req[c].id].balance
            BY DEF UsedInv, Granted, RowsStay
        <3> QED
            BY <3>1 DEF Approvals, RowsStay
    <2>2. CASE db.balances[key] = Nothing
        <3>1. Approvals(key) = {} /\ Rows0.balances[key] = Nothing
            BY <2>2 DEF UsedInv, Accounted
        <3>2. CASE db'.balances[key] # Nothing
            <4>1. db'.balances[key].used = 0
                BY <2>2, <3>2
            <4>2. [c \in {} |-> db'.leaves[req'[c].id].days] = [c \in {} |-> 0]
                OBVIOUS
            <4>3. SumFunction([c \in {} |-> 0]) = 0
                BY SumEmpty DEF SumFunction
            <4>4. Counts(key, db.balances[key].used, {})'
                BY <2>1, <3>1, <4>1, <4>2, <4>3, FS_EmptySet DEF Counts, Before
            <4> QED
                BY <2>1, <3>1, <3>2, <4>4 DEF Accounted
        <3> QED
            BY <2>1, <3>1, <3>2 DEF Accounted
    <2>3. CASE db.balances[key] # Nothing
        <3>1. db'.balances[key] = db.balances[key]
            BY <2>3
        <3>2. PICK counted : /\ Counts(key, db.balances[key].used, counted)
                             /\ Approvals(key) # {} => counted # {}
            BY <2>3 DEF UsedInv, Accounted
        <3>3. PICK used : used = db.balances[key].used
            OBVIOUS
        <3>4. Counts(key, used, counted)'
            BY <1>1, <3>2, <3>3, CountsStay
        <3> QED
            BY <2>1, <2>3, <3>1, <3>2, <3>3, <3>4 DEF Accounted
    <2> QED
        BY <2>2, <2>3
<1> QED
    BY <1>2, <1>3, <1>4 DEF UsedInv, RowsStay

\* What the tables and the calls are like where no row of leave is written.
LEMMA UnwrittenKeeps ==
    ASSUME UsedInv, LeaveInv', NEW c \in Calls, Moves(c), SameLeave,
           req[c].op = "approve" => (answer'[c] = "ok" <=> answer[c] = "ok"),
           pc'[c] = "done" \/ (InHand(c)' /\ Unsubmitted(c)')
    PROVE  UsedInv'
<1>1. \A l \in DOMAIN db.leaves : db'.leaves[l] = db.leaves[l]
    BY DEF SameLeave
<1>2. RowsStay
    BY <1>1 DEF RowsStay, Moves, SameLeave
<1>3. Steady
    BY <1>2 DEF Steady, Moves, SameLeave
<1>4. \A d \in Calls : Stays(d) \/ (InHand(d)' /\ Unsubmitted(d)')
    BY DEF Stays, Moves
<1> QED
    BY <1>3, <1>4, SteadyKeeps

LEMMA ElsewhereUses ==
    ASSUME UsedInv, LeaveInv', NEW c \in Calls, Elsewhere(c)
    PROVE  UsedInv'
<1>1. InHand(c)' /\ Unsubmitted(c)'
    BY DEF Elsewhere, LeaveLabels, InHand, Unsubmitted
<1>2. req[c].op = "approve" => answer[c] # "ok"
    BY OfficeAssumption DEF UsedInv, LeaveInv, LeaveCall, Elsewhere
<1> QED
    BY <1>1, <1>2, UnwrittenKeeps DEF Elsewhere

-----------------------------------------------------------------------------
(* The steps of leave, once more *)

\* The rows that a step of call c may write.
LEMMA WrittenKeeps ==
    ASSUME UsedInv, LeaveInv', NEW c \in Calls, Moves(c), RowsStay,
           \A key \in DOMAIN db.balances :
               \/ db'.balances[key] = db.balances[key]
               \/ db.balances[key] = Nothing /\ db'.balances[key] # Nothing
                      /\ db'.balances[key].used = 0,
           req[c].op = "approve" => (answer'[c] = "ok" <=> answer[c] = "ok"),
           pc'[c] = "done" \/ (InHand(c)' /\ Unsubmitted(c)')
    PROVE  UsedInv'
<1>1. Steady
    BY DEF Steady, Moves
<1>2. \A d \in Calls : Stays(d) \/ (InHand(d)' /\ Unsubmitted(d)')
    BY DEF Stays, Moves
<1> QED
    BY <1>1, <1>2, SteadyKeeps

LEMMA SubmitUses ==
    ASSUME NullIsNoLeave, UsedInv, LeaveInv', NEW c \in Calls, req' = req,
           \/ HandleSubmitLeave(c) \/ SubmitFindsBalance(c) \/ SubmitCreatesBalance(c)
           \/ SubmitInserts(c)
           \/ At(c, "submit.balance") /\ Skips(c, "submit.insert")
           \/ /\ At(c, "submit") /\ Days(c) > 0
              /\ IF db.leaveTypes[req[c].type] = Nothing THEN Answers(c, "missing")
                 ELSE Reads(c, [balance |-> NewBalance(c)], "submit.balance")
    PROVE  UsedInv'
<1> USE DEF At, Goes, Ends, Answers, Reads, Writes, Skips, WritesAndAnswers, Handle
<1>1. Moves(c)
    BY DEF HandleSubmitLeave, SubmitFindsBalance, SubmitCreatesBalance, SubmitInserts, Moves,
        UsedInv, LeaveInv
<1>2. req[c].op # "approve"
    BY DEF HandleSubmitLeave, SubmitFindsBalance, SubmitCreatesBalance, SubmitInserts,
        UsedInv, LeaveInv, LeaveCall, Approving
<1>3. LeaveTables \subseteq DOMAIN db
    BY DEF UsedInv, LeaveInv, LeaveRows
<1>4. CASE db' = db
    <2>1. InHand(c)'
        BY <1>2 DEF HandleSubmitLeave, SubmitFindsBalance, SubmitCreatesBalance, SubmitInserts,
            InHand, UsedInv, LeaveInv
    <2>2. pc'[c] = "submit.balance" => mem'[c].balance.used = 0
        BY <1>2 DEF HandleSubmitLeave, SubmitFindsBalance, SubmitCreatesBalance, SubmitInserts,
            UsedInv, LeaveInv, NewBalance
    <2>3. pc[c] \in {"received", "submit", "submit.balance", "submit.insert"}
        BY DEF HandleSubmitLeave, SubmitFindsBalance, SubmitCreatesBalance, SubmitInserts
    <2>4. Unsubmitted(c)'
        BY <1>4, <2>2, <2>3 DEF Unsubmitted, UsedInv
    <2> QED
        BY <1>1, <1>2, <1>3, <1>4, <2>1, <2>4, UnwrittenKeeps DEF SameLeave
<1>5. CASE SubmitCreatesBalance(c) /\ db' # db
    <2>1. /\ db' = Put("balances", Leave(c), mem[c].balance)
          /\ db.balances[Leave(c)] = Nothing
          /\ pc[c] = "submit.balance" /\ pc'[c] = "submit.insert"
        BY <1>5 DEF SubmitCreatesBalance, UsedInv, LeaveInv
    <2>2. mem[c].balance.used = 0 /\ mem[c].balance # Nothing
        BY <2>1 DEF UsedInv, Unsubmitted, LeaveInv, LeaveCall, IsBalance, NullIsNoLeave
    <2>3. /\ db'.leaves = db.leaves /\ DOMAIN db'.balances = DOMAIN db.balances
          /\ \A key \in DOMAIN db.balances :
                 db'.balances[key] = IF key = Leave(c) THEN mem[c].balance ELSE db.balances[key]
        BY <1>3, <2>1 DEF Put, LeaveTables
    <2>4. RowsStay
        BY <2>3 DEF RowsStay
    <2>5. InHand(c)' /\ Unsubmitted(c)'
        BY <2>1, <2>3 DEF InHand, Unsubmitted, UsedInv
    <2>6. \A key \in DOMAIN db.balances :
              \/ db'.balances[key] = db.balances[key]
              \/ db.balances[key] = Nothing /\ db'.balances[key] # Nothing
                     /\ db'.balances[key].used = 0
        BY <2>1, <2>2, <2>3
    <2> QED
        BY <1>1, <1>2, <2>4, <2>5, <2>6, WrittenKeeps
<1>6. CASE SubmitInserts(c) /\ db' # db
    <2> DEFINE row == [business |-> Business(c), balance |-> Leave(c), days |-> Days(c),
                       status |-> "pending"]
    <2>1. db' = Put("leaves", c, row) /\ pc[c] = "submit.insert" /\ pc'[c] = "done"
        BY <1>6 DEF SubmitInserts, UsedInv, LeaveInv
    <2>2. c \in DOMAIN db.leaves => db.leaves[c] = Nothing
        BY <2>1 DEF UsedInv, Unsubmitted
    <2> HIDE DEF row
    <2>3. /\ db'.balances = db.balances /\ DOMAIN db'.leaves = DOMAIN db.leaves
          /\ \A l \in DOMAIN db.leaves : db'.leaves[l] = IF l = c THEN row ELSE db.leaves[l]
        BY <1>3, <2>1 DEF Put, LeaveTables
    <2>4. RowsStay
        BY <2>1, <2>2, <2>3 DEF RowsStay
    <2> QED
        BY <1>1, <1>2, <2>1, <2>3, <2>4, WrittenKeeps
<1> QED
    BY <1>4, <1>5, <1>6 DEF HandleSubmitLeave, SubmitFindsBalance

\* A balance that was just read counts what it counted before.
LEMMA ApproveReadsUses ==
    ASSUME UsedInv, LeaveInv', NEW c \in Calls, req' = req,
           \/ HandleApproveLeave(c) \/ HandleRejectLeave(c)
           \/ ApproveFindsLeave(c) \/ RejectFindsLeave(c) \/ ApproveChecksBalance(c)
    PROVE  UsedInv'
<1> USE DEF At, Goes, Ends, Answers, Reads, Writes, Skips, Handle, Loads
<1>1. Moves(c) /\ db' = db
    BY DEF HandleApproveLeave, HandleRejectLeave, ApproveFindsLeave, RejectFindsLeave, FindsPending,
        ApproveChecksBalance, Moves, UsedInv, LeaveInv
<1>2. LeaveTables \subseteq DOMAIN db
    BY DEF UsedInv, LeaveInv, LeaveRows
<1>3. req[c].op = "approve" => answer'[c] # "ok" /\ answer[c] # "ok"
    BY OfficeAssumption DEF HandleApproveLeave, HandleRejectLeave, ApproveFindsLeave,
        RejectFindsLeave, FindsPending, ApproveChecksBalance, UsedInv, LeaveInv, LeaveCall
<1>4. Unsubmitted(c)'
    BY <1>1 DEF HandleApproveLeave, HandleRejectLeave, ApproveFindsLeave, RejectFindsLeave,
        FindsPending, ApproveChecksBalance, Unsubmitted, UsedInv, LeaveInv
<1>5. SameLeave
    BY <1>1, <1>2 DEF SameLeave
<1>6. CASE HandleApproveLeave(c) \/ HandleRejectLeave(c)
    <2>1. InHand(c)'
        BY <1>6 DEF HandleApproveLeave, HandleRejectLeave, InHand, UsedInv, LeaveInv
    <2> QED
        BY <1>1, <1>3, <1>4, <1>5, <2>1, UnwrittenKeeps
<1>7. CASE ApproveFindsLeave(c) \/ RejectFindsLeave(c)
    <2>1. req[c].op \in {"approve", "reject"}
        BY <1>7 DEF ApproveFindsLeave, RejectFindsLeave, FindsPending, UsedInv, LeaveInv, LeaveCall
    <2>2. req[c].id \in DOMAIN db.leaves
        BY <2>1, LeaveAssumption DEF UsedInv, LeaveInv, LeaveRows, LeaveTables
    <2>3. pc[c] = "approve" => req[c].op = "approve"
        BY DEF UsedInv, LeaveInv, LeaveCall
    <2>4. InHand(c)'
        BY <1>1, <1>7, <2>2, <2>3 DEF ApproveFindsLeave, RejectFindsLeave, FindsPending, InHand,
            UsedInv, LeaveInv
    <2> QED
        BY <1>1, <1>3, <1>4, <1>5, <2>4, UnwrittenKeeps
<1>8. CASE ApproveChecksBalance(c)
    <2> DEFINE balance == db.balances[mem[c].row.balance]
    <2>1. CASE pc'[c] = "done"
        BY <1>1, <1>3, <1>5, <2>1, UnwrittenKeeps
    <2>2. CASE pc'[c] # "done"
        <3>1. /\ pc[c] = "approve.balance" /\ pc'[c] = "approve.save"
              /\ mem'[c] = [id |-> mem[c].id, row |-> mem[c].row, balance |-> balance]
              /\ balance # Nothing
            BY <1>8, <2>2 DEF ApproveChecksBalance, UsedInv, LeaveInv
        <3>2. PICK key, used : key = mem[c].row.balance /\ used = balance.used
            OBVIOUS
        <3>3. key \in DOMAIN db.balances
            BY <3>1, <3>2 DEF UsedInv, LeaveInv, LeaveCall, IsLeave
        <3>4. PICK counted : Counts(key, used, counted)
            BY <3>1, <3>2, <3>3 DEF UsedInv, Accounted
        <3>5. RowsStay
            BY <1>1 DEF RowsStay
        <3>6. \A d \in Calls : req[d].op = "approve" /\ answer[d] = "ok" => answer'[d] = "ok"
            BY <1>1, <1>3 DEF Moves
        <3>7. Counts(key, used, counted)'
            BY <3>4, <3>5, <3>6, CountsStay
        <3>8. mem'[c].row = mem[c].row /\ mem'[c].id = mem[c].id /\ mem'[c].balance = balance
            BY <3>1
        <3>9. InHand(c) /\ req'[c] = req[c]
            BY DEF UsedInv
        <3>10. InHand(c)'
            BY <1>1, <3>1, <3>2, <3>7, <3>8, <3>9 DEF InHand
        <3> QED
            BY <1>1, <1>3, <1>4, <1>5, <3>10, UnwrittenKeeps
    <2> QED
        BY <2>1, <2>2
<1> QED
    BY <1>6, <1>7, <1>8

\* A request that is decided keeps its days and its balance.
LEMMA DecidedUses ==
    ASSUME NullIsNoLeave, UsedInv, LeaveInv', NEW c \in Calls, req' = req,
           ApproveSaves(c) \/ RejectSaves(c)
    PROVE  UsedInv'
<1> USE DEF At, Goes, Ends, Writes, WritesAndAnswers
<1>1. Moves(c)
    BY DEF ApproveSaves, RejectSaves, Moves, UsedInv, LeaveInv
<1>2. PICK status : db' = Put("leaves", mem[c].id, [mem[c].row EXCEPT !.status = status])
    BY DEF ApproveSaves, RejectSaves
<1>3. /\ IsLeave(mem[c].row) /\ InHand(c)
      /\ pc[c] \in {"approve.save", "reject.save"}
    BY DEF ApproveSaves, RejectSaves, UsedInv, LeaveInv, LeaveCall
<1>4. PICK row : row = [mem[c].row EXCEPT !.status = status]
    OBVIOUS
<1>5. /\ row # Nothing /\ row.balance = mem[c].row.balance /\ row.days = mem[c].row.days
    BY <1>3, <1>4 DEF IsLeave, NullIsNoLeave
<1>6. /\ db'.balances = db.balances /\ DOMAIN db'.leaves = DOMAIN db.leaves
      /\ \A l \in DOMAIN db.leaves : db'.leaves[l] = IF l = mem[c].id THEN row ELSE db.leaves[l]
    BY <1>2, <1>4 DEF Put, UsedInv, LeaveInv, LeaveRows, LeaveTables
<1>7. RowsStay
    BY <1>3, <1>5, <1>6 DEF RowsStay, InHand
<1>8. req[c].op = "approve" => (answer'[c] = "ok" <=> answer[c] = "ok")
    <2>1. CASE ApproveSaves(c)
        BY <2>1 DEF ApproveSaves
    <2>2. CASE RejectSaves(c)
        BY <2>2 DEF RejectSaves, UsedInv, LeaveInv, LeaveCall, Approving
    <2> QED
        BY <2>1, <2>2
<1>9. pc'[c] = "done" \/ (InHand(c)' /\ Unsubmitted(c)')
    <2>1. CASE RejectSaves(c)
        BY <2>1 DEF RejectSaves, UsedInv, LeaveInv
    <2>2. CASE ApproveSaves(c)
        <3>1. pc[c] = "approve.save" /\ pc'[c] = "approve.deduct" /\ mem'[c] = mem[c]
            BY <2>2 DEF ApproveSaves, UsedInv, LeaveInv
        <3>2. /\ mem[c].id \in DOMAIN db.leaves /\ mem[c].id = req[c].id
              /\ req[c].op = "approve" /\ db.balances[mem[c].row.balance] # Nothing
              /\ \E counted : Counts(mem[c].row.balance, mem[c].balance.used, counted)
            BY <1>3, <3>1 DEF InHand
        <3>3. PICK key, used : key = mem[c].row.balance /\ used = mem[c].balance.used
            OBVIOUS
        <3>4. PICK counted : Counts(key, used, counted)
            BY <3>2, <3>3
        <3>5. Counts(key, used, counted)'
            <4>1. \A d \in Calls : req[d].op = "approve" /\ answer[d] = "ok" => answer'[d] = "ok"
                BY <1>1, <1>8 DEF Moves
            <4> QED
                BY <1>7, <3>4, <4>1, CountsStay
        <3>6. req'[c] = req[c] /\ db'.leaves[mem[c].id] = row
            BY <1>6, <3>2
        <3>7. InHand(c)'
            BY <1>5, <1>6, <3>1, <3>2, <3>3, <3>5, <3>6 DEF InHand
        <3> QED
            BY <3>1, <3>7 DEF Unsubmitted
    <2> QED
        BY <2>1, <2>2
<1> QED
    BY <1>1, <1>6, <1>7, <1>8, <1>9, WrittenKeeps

\* An approval counts what the balance that it has read counted, and itself.
LEMMA DeductedUses ==
    ASSUME NullIsNoLeave, UsedInv, LeaveInv', NEW c \in Calls, req' = req, ApproveDeducts(c)
    PROVE  UsedInv'
<1> USE DEF At, Goes, Ends, WritesAndAnswers
<1>1. Moves(c)
    BY DEF ApproveDeducts, Moves, UsedInv, LeaveInv
<1>2. pc[c] = "approve.deduct" /\ pc'[c] = "done" /\ InHand(c) /\ req[c].op = "approve"
    BY DEF ApproveDeducts, UsedInv, LeaveInv, InHand
<1>3. answer[c] = Nothing /\ answer'[c] = "ok" /\ Nothing # "ok"
    BY <1>2, OfficeAssumption DEF ApproveDeducts, UsedInv, LeaveInv, LeaveCall
<1>4. PICK key, used, days :
          /\ key = mem[c].row.balance /\ used = mem[c].balance.used /\ days = mem[c].row.days
    OBVIOUS
<1>5. PICK saved : /\ db' = Put("balances", key, saved)
                   /\ saved # Nothing /\ saved.used = used + days
    <2>1. IsBalance(mem[c].balance)
        BY <1>2 DEF UsedInv, LeaveInv, LeaveCall
    <2> DEFINE more == [mem[c].balance EXCEPT !.used = @ + mem[c].row.days]
               saved == [more EXCEPT !.remaining = Remaining(more)]
    <2>2. DOMAIN saved = {"entitled", "used", "remaining"} /\ saved.used = used + days
        BY <1>4, <2>1 DEF IsBalance
    <2>3. db' = Put("balances", key, saved)
        BY <1>4 DEF ApproveDeducts
    <2> HIDE DEF saved
    <2> QED
        BY <2>2, <2>3 DEF NullIsNoLeave
<1>6. /\ key \in DOMAIN db.balances /\ days \in Int /\ used \in Int /\ Before(key) \in Int
    <2>1. IsLeave(mem[c].row) /\ IsBalance(mem[c].balance)
        BY <1>2 DEF UsedInv, LeaveInv, LeaveCall
    <2>2. DOMAIN Rows0.balances = DOMAIN db.balances
        BY DEF UsedInv, LeaveInv, LeaveRows, LeaveTables
    <2>3. Rows0.balances[key] # Nothing => IsBalance(Rows0.balances[key])
        BY <1>4, <2>1, <2>2, LeaveAssumption DEF IsLeave
    <2> QED
        BY <1>4, <2>1, <2>3 DEF IsLeave, IsBalance, Before
<1>7. /\ db'.leaves = db.leaves /\ DOMAIN db'.balances = DOMAIN db.balances
      /\ \A k \in DOMAIN db.balances : db'.balances[k] = IF k = key THEN saved ELSE db.balances[k]
    BY <1>5 DEF Put, UsedInv, LeaveInv, LeaveRows, LeaveTables
<1>8. RowsStay /\ BalancesStay /\ ApprovalsStay
    BY <1>1, <1>3, <1>5, <1>7 DEF RowsStay, BalancesStay, ApprovalsStay, Moves
<1>9. /\ req[c].id \in DOMAIN db.leaves /\ db.leaves[req[c].id] # Nothing
      /\ db.leaves[req[c].id].balance = key /\ db.leaves[req[c].id].days = days
    BY <1>2, <1>4 DEF InHand
<1>10. ASSUME NEW d \in Calls
       PROVE  InHand(d)' /\ Unsubmitted(d)' /\ Granted(d)'
    <2>1. Stays(d)
        BY <1>1, <1>2 DEF Stays, Moves
    <2>2. Granted(d)'
        BY <1>1, <1>7, <1>9 DEF UsedInv, Granted, Moves
    <2> QED
        BY <1>8, <2>1, <2>2, CallKeeps
<1>11. ASSUME NEW k \in DOMAIN db.balances, k # key
       PROVE  Accounted(k)'
    <2>1. Approvals(k)' = Approvals(k)
        BY <1>1, <1>7, <1>9, <1>11 DEF Approvals, Moves
    <2>2. db'.balances[k] = db.balances[k]
        BY <1>7, <1>11
    <2>3. CASE db.balances[k] = Nothing
        BY <2>1, <2>2, <2>3 DEF UsedInv, Accounted
    <2>4. CASE db.balances[k] # Nothing
        <3>1. PICK counted : /\ Counts(k, db.balances[k].used, counted)
                             /\ Approvals(k) # {} => counted # {}
            BY <2>4 DEF UsedInv, Accounted
        <3>2. PICK u : u = db.balances[k].used
            OBVIOUS
        <3>3. Counts(k, u, counted)'
            BY <1>8, <3>1, <3>2, CountsStay DEF ApprovalsStay
        <3> QED
            BY <2>1, <2>2, <2>4, <3>1, <3>2, <3>3 DEF Accounted
    <2> QED
        BY <2>3, <2>4
<1>12. Accounted(key)'
    <2>1. PICK counted : Counts(key, used, counted)
        BY <1>2, <1>4 DEF InHand
    <2>2. Counts(key, used, counted)'
        BY <1>8, <2>1, CountsStay DEF ApprovalsStay
    <2>3. c \notin counted
        BY <1>3, <2>1 DEF Counts, Approvals
    <2>4. PICK f, g : /\ f = [d \in counted |-> db'.leaves[req'[d].id].days]
                      /\ g = [d \in counted \cup {c} |-> db'.leaves[req'[d].id].days]
        OBVIOUS
    <2>5. IsFiniteSet(counted) /\ used - Before(key) = SumFunction(f)
        BY <2>2, <2>4 DEF Counts, Before
    <2>6. g[c] = days /\ g[c] \in Int
        BY <1>1, <1>6, <1>7, <1>9, <2>4 DEF Moves
    <2>7. \A d \in counted : g[d] \in Int /\ g[d] = f[d]
        <3>1. \A d \in counted : req[d].id \in DOMAIN db.leaves /\ db.leaves[req[d].id] # Nothing
            BY <2>1 DEF Counts, Approvals, UsedInv, Granted
        <3>2. \A d \in counted : IsLeave(db.leaves[req[d].id])
            BY <3>1 DEF UsedInv, LeaveInv, LeaveRows
        <3> QED
            BY <1>7, <2>4, <3>2 DEF IsLeave
    <2>8. SumFunction(g) = SumFunction(f) + days
        BY <2>3, <2>4, <2>5, <2>6, <2>7, SumGrows DEF SumFunction
    <2>9. (used + days) - Before(key) = SumFunction(g)
        <3>1. SumFunction(f) = used - Before(key)
            BY <2>5
        <3> QED
            BY <1>6, <2>8, <3>1
    <2>10. counted \cup {c} \subseteq Approvals(key)'
        BY <1>1, <1>2, <1>3, <1>7, <1>9, <2>2 DEF Counts, Approvals, Moves
    <2>11. Counts(key, used + days, counted \cup {c})'
        BY <2>4, <2>5, <2>9, <2>10, FS_AddElement DEF Counts, Before
    <2> QED
        BY <1>5, <1>6, <1>7, <2>11 DEF Accounted
<1> QED
    BY <1>1, <1>7, <1>10, <1>11, <1>12 DEF UsedInv

LEMMA LeaveTypeUses ==
    ASSUME UsedInv, LeaveInv', NEW c \in Calls, req' = req,
           HandleCreateLeaveType(c) \/ CreateLeaveType(c)
    PROVE  UsedInv'
<1> USE DEF At, Goes, Ends, Answers, Writes, Skips, WritesAndAnswers, Handle
<1>1. Moves(c)
    BY DEF HandleCreateLeaveType, CreateLeaveType, Moves, UsedInv, LeaveInv
<1>2. db'.balances = db.balances /\ db'.leaves = db.leaves
    BY DEF HandleCreateLeaveType, CreateLeaveType, Put, UsedInv, LeaveInv, LeaveRows, LeaveTables
<1>3. req[c].op # "approve"
    BY DEF HandleCreateLeaveType, CreateLeaveType, UsedInv, LeaveInv, LeaveCall, Approving
<1>4. pc'[c] \in {"create_leave_type", "done"}
    BY DEF HandleCreateLeaveType, CreateLeaveType, UsedInv, LeaveInv
<1>5. InHand(c)' /\ Unsubmitted(c)'
    BY <1>4 DEF InHand, Unsubmitted
<1>6. RowsStay
    BY <1>2 DEF RowsStay
<1> QED
    BY <1>1, <1>2, <1>3, <1>5, <1>6, WrittenKeeps

LEMMA FaultUses ==
    ASSUME NullIsNoLeave, UsedInv, LeaveInv', req' = req, Fault
    PROVE  UsedInv'
<1>1. /\ DOMAIN pc = Calls /\ DOMAIN mem = Calls /\ DOMAIN answer = Calls
      /\ LeaveTables \subseteq DOMAIN db /\ LeaveInv
    BY DEF UsedInv, LeaveInv, LeaveRows
<1>2. CASE Crash
    <2>1. db'.balances = db.balances /\ db'.leaves = db.leaves
        BY <1>1, <1>2 DEF Crash, RolledBack, LeaveTables
    <2>2. RowsStay
        BY <2>1 DEF RowsStay
    <2>3. \A c \in Calls : answer'[c] = "ok" <=> answer[c] = "ok"
        BY <1>1, <1>2, OfficeAssumption DEF Crash
    <2>4. Steady
        BY <2>1, <2>2, <2>3 DEF Steady
    <2>5. \A c \in Calls : Stays(c)
        BY <1>1, <1>2 DEF Crash, Stays
    <2> QED
        BY <2>4, <2>5, SteadyKeeps
<1>3. CASE \E c \in Calls : Breaks(c) \/ RegisterAborts(c)
    <2>1. PICK c \in Calls : Breaks(c) \/ RegisterAborts(c)
        BY <1>3
    <2>2. Elsewhere(c)
        BY <1>1, <2>1, AccountsElsewhere, BreaksElsewhere
    <2> QED
        BY <2>2, ElsewhereUses
<1>4. CASE \E c \in Calls : Ignored(c)
    <2>1. PICK c \in Calls : Ignored(c)
        BY <1>4
    <2>2. \/ Elsewhere(c)
          \/ At(c, "submit.balance") /\ Skips(c, "submit.insert")
          \/ /\ At(c, "submit") /\ Days(c) > 0
             /\ IF db.leaveTypes[req[c].type] = Nothing THEN Answers(c, "missing")
                ELSE Reads(c, [balance |-> NewBalance(c)], "submit.balance")
        BY <1>1, <2>1, IgnoredElsewhere
    <2> QED
        BY <2>2, ElsewhereUses, SubmitUses
<1> QED
    BY <1>2, <1>3, <1>4 DEF Fault

LEMMA NextUses ==
    ASSUME NullIsNoLeave, UsedInv, [Next]_allVars
    PROVE  UsedInv'
<1>1. LeaveInv /\ LeaveInv'
    BY NextKeepsLeave DEF UsedInv
<1>2. CASE Next
    <2>1. req' = req
        BY <1>2 DEF Next, Recorded
    <2>2. ASSUME NEW c \in Calls, TakeLeave(c)
          PROVE  UsedInv'
        BY <1>1, <2>1, <2>2, SubmitUses, ApproveReadsUses, DecidedUses, DeductedUses, LeaveTypeUses
            DEF TakeLeave
    <2> QED
        BY <1>1, <1>2, <2>1, <2>2, FaultUses, StaffElsewhere, AccountsElsewhere, ElsewhereUses
            DEF Next, Step
<1>3. CASE UNCHANGED allVars
    <2>1. UNCHANGED <<db, req, pc, mem, answer>>
        BY <1>3 DEF allVars, vars
    <2>2. Steady
        BY <2>1 DEF Steady, RowsStay
    <2>3. \A c \in Calls : Stays(c)
        BY <2>1 DEF Stays
    <2> QED
        BY <1>1, <2>2, <2>3, SteadyKeeps
<1> QED
    BY <1>2, <1>3

\* However approvals of leave interleave and whatever fails between their statements
\* (ApproveRequest, leave_service.go), the days used of a balance are those it had at the start
\* and those of some of the approvals that were answered, of one at least if there are any: a
\* racing write may lose an approval, but never makes up days.
THEOREM LeaveIsAccounted == NullIsNoLeave /\ Spec => []LeaveAccounted
<1>1. NullIsNoLeave /\ OfficeInit => NullIsNoLeave /\ UsedInv
    <2> SUFFICES ASSUME NullIsNoLeave, OfficeInit PROVE UsedInv
        OBVIOUS
    <2>1. LeaveInv
        BY InitLeave
    <2>2. \A c \in Calls : answer[c] = Nothing /\ pc[c] \in {"received", "done"} /\ Nothing # "ok"
        BY OfficeAssumption DEF OfficeInit, Init
    <2>3. \A key : Approvals(key) = {}
        BY <2>2 DEF Approvals
    <2>4. ASSUME NEW key \in DOMAIN db.balances
          PROVE  Accounted(key)
        <3>1. db.balances[key] = Rows0.balances[key]
            BY DEF OfficeInit, Init
        <3>2. CASE db.balances[key] # Nothing
            <4>1. SumFunction([c \in {} |-> db.leaves[req[c].id].days]) = 0
                BY SumEmpty DEF SumFunction
            <4>2. db.balances[key].used - Before(key) = 0
                BY <2>1, <3>1, <3>2 DEF LeaveInv, LeaveRows, IsBalance, Before
            <4>3. Counts(key, db.balances[key].used, {})
                BY <4>1, <4>2, FS_EmptySet DEF Counts
            <4> QED
                BY <2>3, <3>2, <4>3 DEF Accounted
        <3> QED
            BY <2>3, <3>1, <3>2 DEF Accounted
    <2>5. \A c \in Calls : InHand(c) /\ Unsubmitted(c) /\ Granted(c)
        BY <2>2, LeaveAssumption DEF InHand, Unsubmitted, Granted, OfficeInit, Init
    <2> QED
        BY <2>1, <2>4, <2>5 DEF UsedInv
<1>2. (NullIsNoLeave /\ UsedInv) /\ [Next]_allVars => (NullIsNoLeave /\ UsedInv)'
    BY NextUses DEF NullIsNoLeave
<1>3. UsedInv => LeaveAccounted
    <2> SUFFICES ASSUME UsedInv, NEW key \in DOMAIN db.balances, db.balances[key] # Nothing
                 PROVE  /\ NotOverdrawn(db.balances[key])
                        /\ \E counted \in SUBSET Approvals(key) :
                               /\ Approvals(key) # {} => counted # {}
                               /\ db.balances[key].used - Before(key)
                                      = SumFunction([c \in counted |-> db.leaves[req[c].id].days])
        BY DEF LeaveAccounted, Before
    <2>1. NotOverdrawn(db.balances[key])
        BY DEF UsedInv, LeaveInv, LeaveRows, IsBalance
    <2> QED
        BY <2>1 DEF UsedInv, Accounted, Counts
<1> QED
    BY <1>1, <1>2, <1>3, PTL DEF Spec

-----------------------------------------------------------------------------
(* Who is paid *)

\* SQL's NULL is not a row.
NullIsNoStaff ==
    DOMAIN Nothing \notin {{"business", "email", "cadre", "on", "bank", "rent", "user"},
                          {"business", "name", "components", "deleted"}}

PayTables == {"employees", "cadres", "runs"}
HiringLabels == {"hire", "hire.email", "hire.verify", "hire.insert"}
SavingLabels ==
    {"update.cadre", "update.verify", "update.save", "deactivate.save",
     "create_login.user", "create_login.link"}
PayingLabels == {"calculate.cadres", "calculate.loans", "calculate.store"}
PayLabels == {"update"} \cup HiringLabels \cup SavingLabels \cup PayingLabels

Owner(emp) == Rows0.employees[emp].business

\* A cadre that an employee may have: it is there and of this business, unless it was dropped.
Good(k, business) ==
    \/ k \in dropped
    \/ k \in DOMAIN db.cadres /\ db.cadres[k] # Nothing /\ db.cadres[k].business = business

\* What the tables hold of the employees of the start.
PayRows ==
    /\ PayTables \subseteq DOMAIN db
    /\ \A table \in PayTables : DOMAIN db[table] = DOMAIN Rows0[table]
    /\ \A k \in DOMAIN db.cadres :
           db.cadres[k] # Nothing => DOMAIN db.cadres[k] = {"business", "name", "components", "deleted"}
    /\ Gone(db, db) \subseteq dropped
    /\ had = [emp \in Originals |-> had[emp]]
    /\ \A emp \in Originals :
           LET row == db.employees[emp]
           IN /\ row # Nothing /\ IsEmployee(row)
              /\ row.business = Owner(emp)
              /\ Rows0.employees[emp].on \subseteq row.on
              /\ row.cadre \in had[emp]
              /\ \A k \in had[emp] : Good(k, Owner(emp))

\* A row that a call is about to write back keeps the business, and has no cadre or a good one.
Saving(c) ==
    pc[c] \in SavingLabels /\ mem[c].id \in Originals =>
        /\ Owner(mem[c].id) = Business(c)
        /\ IsEmployee(mem[c].row)
        /\ mem[c].row.business = Business(c)
        /\ pc[c] # "update.cadre" /\ mem[c].row.cadre # Nothing =>
               Good(mem[c].row.cadre, Business(c))

\* A calculation has in hand whoever it has to pay.
Paying(c) ==
    /\ pc[c] = "calculate.cadres" =>
           \A emp \in Originals :
               Owner(emp) = Business(c) /\ "active" \in Rows0.employees[emp].on =>
                   emp \in DOMAIN mem[c].staff /\ mem[c].staff[emp].cadre \in had[emp]
    /\ pc[c] \in {"calculate.loans", "calculate.store"} =>
           /\ {"staff", "loans"} \subseteq DOMAIN mem[c]
           /\ ToBePaid(Business(c)) \subseteq DOMAIN mem[c].staff

PayCall(c) ==
    /\ pc[c] \in HiringLabels => {"on", "row"} \subseteq DOMAIN mem[c] /\ mem[c].row \in Nat
    /\ pc[c] = "update" /\ mem[c].id \in Originals =>
           IsEmployee(mem[c].row) /\ mem[c].row.business = Business(c)
    /\ pc[c] \in SavingLabels => {"id", "row"} \subseteq DOMAIN mem[c]
    /\ Saving(c)
    /\ Paying(c)

PayInv ==
    /\ DOMAIN pc = Calls /\ DOMAIN mem = Calls
    /\ req \in Workloads
    /\ PayRows
    /\ \A c \in Calls : PayCall(c)
    /\ NobodyLeftOut

-----------------------------------------------------------------------------
(* How a step of one call keeps it *)

PayMoves(c) ==
    /\ DOMAIN pc' = Calls /\ DOMAIN mem' = Calls
    /\ \A d \in Calls \ {c} : pc'[d] = pc[d] /\ mem'[d] = mem[d]

\* No cadre vanishes: it is deleted by a flag.
CadresStay ==
    /\ DOMAIN db'.cadres = DOMAIN db.cadres
    /\ \A k \in DOMAIN db.cadres : db.cadres[k] # Nothing => db'.cadres[k] # Nothing

LEMMA GoodStays ==
    ASSUME PayInv, Recorded, CadresStay, NEW k, NEW business, Good(k, business)
    PROVE  Good(k, business)'
BY DEF Good, CadresStay, Recorded, Gone

LEMMA HistoryGrows ==
    ASSUME PayInv, Recorded
    PROVE  /\ dropped \subseteq dropped' /\ req' = req
           /\ \A emp \in Originals : had[emp] \subseteq had'[emp]
           /\ \A business : ToBePaid(business)' \subseteq ToBePaid(business)
<1>1. /\ dropped \subseteq dropped' /\ req' = req
      /\ \A emp \in Originals : had[emp] \subseteq had'[emp]
    BY DEF Recorded
<1> QED
    BY <1>1 DEF ToBePaid

LEMMA PayStepKeeps ==
    ASSUME PayInv, Recorded, NEW c \in Calls, PayMoves(c), CadresStay, PayRows', PayCall(c)',
           \A d \in Calls : db'.runs[d] = db.runs[d] \/ PaysOnce(db.runs[d])'
    PROVE  PayInv'
<1>1. /\ req' = req
      /\ \A emp \in Originals : had[emp] \subseteq had'[emp]
      /\ \A business : ToBePaid(business)' \subseteq ToBePaid(business)
    BY HistoryGrows
<1>2. ASSUME NEW d \in Calls \ {c}
      PROVE  PayCall(d)'
    <2>1. PayCall(d) /\ pc'[d] = pc[d] /\ mem'[d] = mem[d]
        BY DEF PayInv, PayMoves
    <2>2. Business(d)' = Business(d)
        BY <1>1 DEF Business
    <2>3. Saving(d)'
        BY <2>1, <2>2, GoodStays DEF PayCall, Saving, Owner
    <2>4. Paying(d)'
        BY <1>1, <2>1, <2>2 DEF PayCall, Paying, Owner
    <2> QED
        BY <2>1, <2>2, <2>3, <2>4 DEF PayCall
<1>3. NobodyLeftOut'
    <2>1. \A d \in Calls : db'.runs[d] = db.runs[d] /\ db.runs[d] # Nothing => PaysOnce(db.runs[d])'
        BY <1>1 DEF PayInv, NobodyLeftOut, PaysOnce
    <2> QED
        BY <2>1 DEF NobodyLeftOut
<1> QED
    BY <1>1, <1>2, <1>3 DEF PayInv, PayMoves

-----------------------------------------------------------------------------
(* Steps that write no employee, no cadre and no run *)

SameStaff ==
    /\ PayTables \subseteq DOMAIN db'
    /\ db'.employees = db.employees /\ db'.cadres = db.cadres /\ db'.runs = db.runs

LEMMA SamePeopleKeep ==
    ASSUME PayInv, Recorded, PayTables \subseteq DOMAIN db', DOMAIN db'.runs = DOMAIN db.runs,
           db'.employees = db.employees, db'.cadres = db.cadres
    PROVE  PayRows' /\ CadresStay /\ dropped' = dropped /\ had' = had
<1>1. Gone(db, db') = Gone(db, db)
    BY DEF Gone
<1>2. dropped' = dropped
    BY <1>1 DEF Recorded, PayInv, PayRows
<1>3. \A emp \in Originals : had'[emp] = had[emp]
    BY DEF Recorded, PayInv, PayRows
<1>4. had' = had
    BY <1>3 DEF Recorded, PayInv, PayRows
<1>5. Gone(db', db') = Gone(db, db)
    BY DEF Gone
<1>6. PayRows'
    BY <1>2, <1>3, <1>4, <1>5 DEF PayInv, PayRows, PayTables, Good, Owner
<1> QED
    BY <1>2, <1>4, <1>6 DEF CadresStay

LEMMA SameStaffKeeps ==
    ASSUME PayInv, Recorded, SameStaff
    PROVE  PayRows' /\ CadresStay /\ dropped' = dropped /\ had' = had
BY SamePeopleKeep DEF SameStaff

LEMMA UnstaffedKeeps ==
    ASSUME PayInv, Recorded, NEW c \in Calls, PayMoves(c), SameStaff, PayCall(c)'
    PROVE  PayInv'
BY SameStaffKeeps, PayStepKeeps DEF SameStaff

\* A step to a label of which nothing is known.
Leaves(c) == PayMoves(c) /\ SameStaff /\ pc'[c] \notin PayLabels

LEMMA LeavesKeeps ==
    ASSUME PayInv, Recorded, NEW c \in Calls, Leaves(c)
    PROVE  PayInv'
<1>1. PayCall(c)'
    BY DEF Leaves, PayCall, Saving, Paying, PayLabels, HiringLabels, SavingLabels, PayingLabels
<1> QED
    BY <1>1, UnstaffedKeeps DEF Leaves

-----------------------------------------------------------------------------
(* Steps that write an employee or a cadre *)

LEMMA EmployeeWritten ==
    ASSUME PayInv, Recorded, NEW id, NEW row, db' = Put("employees", id, row),
           id \in Originals => /\ row # Nothing /\ IsEmployee(row)
                               /\ row.business = Owner(id)
                               /\ Rows0.employees[id].on \subseteq row.on
                               /\ Good(row.cadre, Owner(id))
    PROVE  PayRows' /\ CadresStay /\ db'.runs = db.runs
<1>1. /\ DOMAIN db' = DOMAIN db /\ db'.cadres = db.cadres /\ db'.runs = db.runs
      /\ DOMAIN db'.employees = DOMAIN db.employees
      /\ \A e \in DOMAIN db.employees :
             db'.employees[e] = IF e = id THEN row ELSE db.employees[e]
    BY DEF Put, PayInv, PayRows, PayTables
<1>2. CadresStay
    BY <1>1 DEF CadresStay
<1>3. Gone(db, db') = Gone(db, db) /\ Gone(db', db') = Gone(db, db)
    BY <1>1 DEF Gone
<1>4. dropped' = dropped
    BY <1>3 DEF Recorded, PayInv, PayRows
<1>5. ASSUME NEW emp \in Originals
      PROVE  /\ db'.employees[emp] # Nothing /\ IsEmployee(db'.employees[emp])
             /\ db'.employees[emp].business = Owner(emp)
             /\ Rows0.employees[emp].on \subseteq db'.employees[emp].on
             /\ had'[emp] = had[emp] \cup {db'.employees[emp].cadre}
             /\ Good(db'.employees[emp].cadre, Owner(emp))
    <2>1. emp \in DOMAIN db.employees
        BY DEF Originals, PayInv, PayRows, PayTables
    <2>2. had'[emp] = had[emp] \cup {db'.employees[emp].cadre}
        BY DEF Recorded
    <2>3. CASE emp = id
        BY <1>1, <2>1, <2>2, <2>3
    <2>4. CASE emp # id
        BY <1>1, <2>1, <2>2, <2>4 DEF PayInv, PayRows
    <2> QED
        BY <2>3, <2>4
<1>6. \A k, business : Good(k, business)' <=> Good(k, business)
    BY <1>1, <1>4 DEF Good
<1>7. had' = [emp \in Originals |-> had'[emp]]
    BY DEF Recorded
<1>8. \A emp \in Originals : \A k \in had'[emp] : Good(k, Owner(emp))
    BY <1>5 DEF PayInv, PayRows
<1>9. \A emp \in Originals :
          LET row1 == db'.employees[emp]
          IN /\ row1 # Nothing /\ IsEmployee(row1)
             /\ row1.business = Owner(emp)
             /\ Rows0.employees[emp].on \subseteq row1.on
             /\ row1.cadre \in had'[emp]
             /\ \A k \in had'[emp] : Good(k, Owner(emp))'
    BY <1>5, <1>6, <1>8
<1>10. PayRows'
    BY <1>1, <1>3, <1>4, <1>7, <1>9 DEF PayInv, PayRows, PayTables, Owner
<1> QED
    BY <1>1, <1>2, <1>10

LEMMA CadreWritten ==
    ASSUME NullIsNoStaff, PayInv, Recorded, NEW id, NEW row, db' = Put("cadres", id, row),
           DOMAIN row = {"business", "name", "components", "deleted"}
    PROVE  PayRows' /\ CadresStay /\ db'.runs = db.runs
<1>1. /\ DOMAIN db' = DOMAIN db /\ db'.employees = db.employees /\ db'.runs = db.runs
      /\ DOMAIN db'.cadres = DOMAIN db.cadres
      /\ \A k \in DOMAIN db.cadres : db'.cadres[k] = IF k = id THEN row ELSE db.cadres[k]
    BY DEF Put, PayInv, PayRows, PayTables
<1>2. row # Nothing
    BY DEF NullIsNoStaff
<1>3. CadresStay
    BY <1>1, <1>2 DEF CadresStay
<1>4. Gone(db', db') \subseteq dropped'
    BY DEF Gone, Recorded
<1>5. \A emp \in Originals : had'[emp] = had[emp]
    BY <1>1 DEF Recorded, PayInv, PayRows
<1>6. had' = [emp \in Originals |-> had'[emp]]
    BY DEF Recorded
<1>7. \A k \in DOMAIN db'.cadres : db'.cadres[k] # Nothing =>
          DOMAIN db'.cadres[k] = {"business", "name", "components", "deleted"}
    BY <1>1 DEF PayInv, PayRows
<1>8. \A emp \in Originals : \A k \in had'[emp] : Good(k, Owner(emp))'
    BY <1>3, <1>5, GoodStays DEF PayInv, PayRows
<1>9. \A emp \in Originals :
          LET row1 == db'.employees[emp]
          IN /\ row1 # Nothing /\ IsEmployee(row1)
             /\ row1.business = Owner(emp)
             /\ Rows0.employees[emp].on \subseteq row1.on
             /\ row1.cadre \in had'[emp]
    BY <1>1, <1>5 DEF PayInv, PayRows
<1>10. PayRows'
    BY <1>1, <1>4, <1>6, <1>7, <1>8, <1>9 DEF PayInv, PayRows, PayTables, Owner
<1> QED
    BY <1>1, <1>3, <1>10

\* GORM's Updates of a row with the columns of an employee.
LEMMA UpdatesEmployee ==
    ASSUME NullIsNoStaff, NEW row, NEW new, IsEmployee(row), DOMAIN new = DOMAIN row,
           new.on \subseteq {"active", "checked"}
    PROVE  LET updated == Updates(row, new)
           IN /\ updated # Nothing /\ IsEmployee(updated)
              /\ updated.business = IF new.business = Nothing THEN row.business ELSE new.business
              /\ row.on \subseteq updated.on
              /\ updated.cadre = IF new.cadre = Nothing THEN row.cadre ELSE new.cadre
<1>1. PICK updated : updated = Updates(row, new)
    OBVIOUS
<1>2. /\ DOMAIN updated = DOMAIN row
      /\ updated.on = row.on \cup new.on
      /\ updated.business = IF new.business = Nothing THEN row.business ELSE new.business
      /\ updated.cadre = IF new.cadre = Nothing THEN row.cadre ELSE new.cadre
    BY <1>1 DEF Updates, IsEmployee
<1> QED
    BY <1>1, <1>2 DEF IsEmployee, NullIsNoStaff

\* A row in hand, changed in columns that do not matter here, is saved.
LEMMA SavesEmployeeKeepsPay ==
    ASSUME NullIsNoStaff, PayInv, Recorded, NEW c \in Calls, pc[c] \in SavingLabels \ {"update.cadre"},
           NEW new, NEW refused, SavesEmployee(c, new, refused),
           mem[c].id \in Originals =>
               /\ DOMAIN new = DOMAIN mem[c].row /\ new.on \subseteq {"active", "checked"}
               /\ new.business = mem[c].row.business /\ new.cadre = mem[c].row.cadre
    PROVE  PayInv'
<1> USE DEF Answers, Ends, Goes, WritesAndAnswers
<1>1. PayMoves(c) /\ pc'[c] = "done"
    BY DEF SavesEmployee, PayMoves, PayInv
<1>2. PayCall(c)'
    BY <1>1 DEF PayCall, Saving, Paying, HiringLabels, SavingLabels
<1>3. CASE db' = db
    BY <1>1, <1>2, <1>3, UnstaffedKeeps DEF SameStaff, PayInv, PayRows
<1>4. CASE db' = UpdateEmployee(mem[c].id, new)
    <2>1. PICK id, row : id = mem[c].id /\ row = Updates(db.employees[id], new)
        OBVIOUS
    <2>2. db' = Put("employees", id, row)
        BY <1>4, <2>1 DEF UpdateEmployee
    <2>3. ASSUME id \in Originals
          PROVE  /\ row # Nothing /\ IsEmployee(row)
                 /\ row.business = Owner(id)
                 /\ Rows0.employees[id].on \subseteq row.on
                 /\ Good(row.cadre, Owner(id))
        <3>1. /\ Owner(id) = Business(c) /\ IsEmployee(mem[c].row)
              /\ mem[c].row.business = Business(c)
              /\ mem[c].row.cadre # Nothing => Good(mem[c].row.cadre, Business(c))
            BY <2>1, <2>3 DEF PayInv, PayCall, Saving
        <3>2. /\ IsEmployee(db.employees[id]) /\ db.employees[id].business = Owner(id)
              /\ Rows0.employees[id].on \subseteq db.employees[id].on
              /\ Good(db.employees[id].cadre, Owner(id))
            BY <2>3 DEF PayInv, PayRows
        <3>3. DOMAIN new = DOMAIN db.employees[id]
            BY <2>1, <2>3, <3>1, <3>2 DEF IsEmployee
        <3>4. /\ row # Nothing /\ IsEmployee(row)
              /\ row.business = IF new.business = Nothing THEN db.employees[id].business
                                ELSE new.business
              /\ db.employees[id].on \subseteq row.on
              /\ row.cadre = IF new.cadre = Nothing THEN db.employees[id].cadre ELSE new.cadre
            BY <2>1, <2>3, <3>2, <3>3, UpdatesEmployee
        <3> QED
            BY <2>1, <2>3, <3>1, <3>2, <3>4
    <2>4. PayRows' /\ CadresStay /\ db'.runs = db.runs
        BY <2>2, <2>3, EmployeeWritten
    <2> QED
        BY <1>1, <1>2, <2>4, PayStepKeeps
<1> QED
    BY <1>3, <1>4 DEF SavesEmployee

-----------------------------------------------------------------------------
(* Employees *)

LEMMA RowEndsAt ==
    ASSUME PayInv, NEW c \in Calls, pc[c] \in HiringLabels, NEW result, RowEnds(c, result), req' = req
    PROVE  PayMoves(c) /\ PayCall(c)'
<1> USE DEF PayMoves, Goes, Ends
<1>1. DOMAIN pc = Calls /\ DOMAIN mem = Calls /\ mem[c].row \in Nat
    BY DEF PayInv, PayCall
<1>2. CASE Importing(c) /\ mem[c].row < Len(req[c].rows)
    <2>1. pc'[c] = "hire" /\ PayMoves(c)
        BY <1>1, <1>2 DEF RowEnds
    <2>2. /\ mem'[c] = [row |-> mem[c].row + 1, on |-> {"active"},
                        created |-> mem[c].created + (IF result = "ok" THEN 1 ELSE 0)]
        BY <1>1, <1>2 DEF RowEnds
    <2>3. {"on", "row"} \subseteq DOMAIN mem'[c] /\ mem'[c].row \in Nat
        BY <1>1, <2>2
    <2> QED
        BY <2>1, <2>3 DEF PayCall, Saving, Paying, HiringLabels, SavingLabels
<1>3. CASE ~(Importing(c) /\ mem[c].row < Len(req[c].rows))
    BY <1>1, <1>3 DEF RowEnds, PayCall, Saving, Paying, HiringLabels, SavingLabels
<1> QED
    BY <1>2, <1>3

LEMMA HirePays ==
    ASSUME NullIsNoStaff, PayInv, Recorded, NEW c \in Calls, Hire(c)
    PROVE  PayInv'
<1> USE DEF At, Reads, Answers, Ends, Goes, Skips, Writes
<1>1. DOMAIN pc = Calls /\ DOMAIN mem = Calls /\ PayTables \subseteq DOMAIN db /\ req' = req
    BY DEF PayInv, PayRows, Recorded
<1>2. CASE HandleCreateEmployee(c) \/ HandleImport(c)
    <2>1. SameStaff /\ PayMoves(c)
        BY <1>1, <1>2 DEF HandleCreateEmployee, HandleImport, SameStaff, PayMoves
    <2>2. PayCall(c)'
        BY <1>1, <1>2 DEF HandleCreateEmployee, HandleImport, PayCall, Saving, Paying,
            HiringLabels, SavingLabels
    <2> QED
        BY <2>1, <2>2, UnstaffedKeeps
<1>3. CASE \/ HireFindsCadre(c) \/ HireChecksEmail(c)
           \/ HireInserts(c) /\ UNCHANGED db
    <2>1. SameStaff /\ pc[c] \in HiringLabels
        BY <1>1, <1>3 DEF HireFindsCadre, HireChecksEmail, HireInserts, SameStaff, HiringLabels
    <2>2. CASE \E result : RowEnds(c, result)
        BY <1>1, <2>1, <2>2, RowEndsAt, UnstaffedKeeps
    <2>3. CASE Skips(c, "hire.email") \/ Skips(c, "hire.verify")
        <3>1. PayMoves(c) /\ PayCall(c)'
            BY <1>1, <2>1, <2>3 DEF PayInv, PayMoves, PayCall, Saving, Paying, HiringLabels,
                SavingLabels
        <3> QED
            BY <2>1, <3>1, UnstaffedKeeps
    <2> QED
        BY <1>3, <2>2, <2>3 DEF HireFindsCadre, HireChecksEmail, HireInserts, InsertEmployee
<1>4. CASE HireVerifiesAccount(c)
    <2>1. SameStaff /\ PayMoves(c)
        BY <1>1, <1>4 DEF HireVerifiesAccount, SameStaff, PayMoves
    <2>2. {"on", "row"} \subseteq DOMAIN mem[c] /\ mem[c].row \in Nat
        BY <1>4 DEF HireVerifiesAccount, PayInv, PayCall, HiringLabels
    <2>3. pc'[c] = "hire.insert" /\ {"on", "row"} \subseteq DOMAIN mem'[c] /\ mem'[c].row \in Nat
        BY <1>1, <1>4, <2>2 DEF HireVerifiesAccount
    <2>4. PayCall(c)'
        BY <2>3 DEF PayCall, Saving, Paying, HiringLabels, SavingLabels
    <2> QED
        BY <2>1, <2>4, UnstaffedKeeps
<1>5. CASE HireInserts(c) /\ ~UNCHANGED db
    <2>1. /\ pc[c] \in HiringLabels /\ RowEnds(c, "ok")
          /\ db' = Put("employees", <<c, mem[c].row>>, NewEmployee(c))
        BY <1>5 DEF HireInserts, InsertEmployee, HiringLabels
    <2>2. <<c, mem[c].row>> \notin Originals
        BY <2>1, PayAssumption DEF PayInv, PayCall
    <2>3. PayRows' /\ CadresStay /\ db'.runs = db.runs
        BY <2>1, <2>2, EmployeeWritten
    <2>4. PayMoves(c) /\ PayCall(c)'
        BY <1>1, <2>1, RowEndsAt
    <2> QED
        BY <2>3, <2>4, PayStepKeeps
<1> QED
    BY <1>2, <1>3, <1>4, <1>5 DEF Hire

\* An employee that was found is of the caller's business.
LEMMA FoundEmployee ==
    ASSUME PayInv, NEW c \in Calls, NEW id, NEW found, found = FindEmployee(c, id, Business(c)),
           found \in Originals
    PROVE  /\ Owner(found) = Business(c)
           /\ IsEmployee(db.employees[found])
           /\ db.employees[found].business = Business(c)
           /\ Good(db.employees[found].cadre, Business(c))
<1>1. found # Nothing
    BY NamesAssumption DEF Originals
<1>2. found \in Where(c, "employees", LAMBDA e : e.business = Business(c))
    BY <1>1 DEF FindEmployee, First
<1>3. db.employees[found].business = Business(c)
    BY <1>2 DEF Where
<1> QED
    BY <1>3 DEF PayInv, PayRows

LEMMA FoundCadre ==
    ASSUME NEW c, NEW k, NEW business, FindCadre(c, k, business) # Nothing
    PROVE  k \in DOMAIN db.cadres /\ db.cadres[k] # Nothing /\ db.cadres[k].business = business
BY DEF FindCadre, First, Where, Sees

\* The row of an employee that a call found is loaded to be written back.
LEMMA LoadsEmployee ==
    ASSUME NullIsNoStaff, PayInv, Recorded, NEW c \in Calls, NEW id,
           NEW label \in SavingLabels \ {"update.cadre"}, NEW missing,
           Loads(c, "employees", FindEmployee(c, id, Business(c)), label, missing)
    PROVE  PayInv'
<1> USE DEF At, Reads, Answers, Ends, Goes, Loads
<1>1. DOMAIN pc = Calls /\ DOMAIN mem = Calls /\ PayTables \subseteq DOMAIN db /\ req' = req
    BY DEF PayInv, PayRows, Recorded
<1>2. SameStaff /\ PayMoves(c)
    BY <1>1 DEF SameStaff, PayMoves
<1>3. PICK found : found = FindEmployee(c, id, Business(c))
    OBVIOUS
<1>4. CASE found = Nothing
    BY <1>1, <1>2, <1>3, <1>4, LeavesKeeps DEF Leaves, PayLabels, HiringLabels, SavingLabels,
        PayingLabels
<1>5. CASE found # Nothing
    <2>1. pc'[c] = label /\ mem'[c] = [id |-> found, row |-> db.employees[found]]
        BY <1>1, <1>3, <1>5
    <2>2. ASSUME found \in Originals
          PROVE  Saving(c)'
        <3>1. /\ Owner(found) = Business(c)
              /\ IsEmployee(db.employees[found])
              /\ db.employees[found].business = Business(c)
              /\ Good(db.employees[found].cadre, Business(c))
            BY <1>3, <2>2, FoundEmployee
        <3>2. PICK k, business : k = db.employees[found].cadre /\ business = Business(c)
            OBVIOUS
        <3>3. Good(k, business)'
            BY <1>2, <3>1, <3>2, SameStaffKeeps DEF Good, SameStaff
        <3> QED
            BY <1>1, <1>2, <2>1, <3>1, <3>2, <3>3 DEF Saving, SameStaff, Owner, Business
    <2>3. PayCall(c)'
        BY <2>1, <2>2 DEF PayCall, Saving, Paying, HiringLabels, SavingLabels
    <2> QED
        BY <1>2, <2>3, UnstaffedKeeps
<1> QED
    BY <1>4, <1>5

LEMMA EmployPays ==
    ASSUME NullIsNoStaff, PayInv, Recorded, NEW c \in Calls, Employ(c)
    PROVE  PayInv'
<1> USE DEF At, Reads, Answers, Ends, Goes, Skips, Writes
<1>1. DOMAIN pc = Calls /\ DOMAIN mem = Calls /\ PayTables \subseteq DOMAIN db /\ req' = req
    BY DEF PayInv, PayRows, Recorded
<1>2. CASE HandleUpdateEmployee(c)
    <2>1. SameStaff /\ PayMoves(c)
        BY <1>1, <1>2 DEF HandleUpdateEmployee, SameStaff, PayMoves
    <2>2. IsEmployee(req[c].row) /\ req[c].row.business = Business(c)
        BY <1>2, PayAssumption DEF HandleUpdateEmployee, PayInv, Business
    <2>3. PayCall(c)'
        BY <1>1, <1>2, <2>2 DEF HandleUpdateEmployee, PayCall, Saving, Paying,
            HiringLabels, SavingLabels, Business
    <2> QED
        BY <2>1, <2>3, UnstaffedKeeps
<1>3. CASE HandleUpdateBankDetails(c)
    <2>1. SameStaff /\ PayMoves(c)
        BY <1>1, <1>3 DEF HandleUpdateBankDetails, SameStaff, PayMoves
    <2>2. CASE pc'[c] = "done"
        BY <2>1, <2>2, LeavesKeeps DEF Leaves, PayLabels, HiringLabels, SavingLabels, PayingLabels
    <2>3. CASE pc'[c] # "done"
        <3>1. PICK id : /\ id = First({e \in FindEmployees(c, Business(c)) :
                                          db.employees[e].user = req[c].as.user})
                        /\ id # Nothing
                        /\ Reads(c, [id |-> id, moved |-> FALSE,
                                     row |-> [db.employees[id] EXCEPT !.bank = req[c].bank]],
                                 "update")
            BY <1>1, <1>3, <2>3 DEF HandleUpdateBankDetails
        <3>2. id \in FindEmployees(c, Business(c))
            BY <3>1 DEF First
        <3>3. db.employees[id].business = Business(c)
            BY <3>2 DEF FindEmployees, Where
        <3>4. /\ pc'[c] = "update" /\ mem'[c].id = id
              /\ mem'[c].row = [db.employees[id] EXCEPT !.bank = req[c].bank]
            BY <1>1, <3>1
        <3>5. id \in Originals => IsEmployee(db.employees[id])
            BY DEF PayInv, PayRows
        <3>6. id \in Originals => IsEmployee(mem'[c].row) /\ mem'[c].row.business = Business(c)
            BY <3>3, <3>4, <3>5 DEF IsEmployee
        <3>7. PayCall(c)'
            BY <1>1, <3>4, <3>6 DEF PayCall, Saving, Paying, HiringLabels, SavingLabels, Business
        <3> QED
            BY <2>1, <3>7, UnstaffedKeeps
    <2> QED
        BY <2>2, <2>3
<1>4. CASE UpdateFindsEmployee(c)
    <2>1. SameStaff /\ PayMoves(c)
        BY <1>1, <1>4 DEF UpdateFindsEmployee, SameStaff, PayMoves
    <2>2. CASE pc'[c] = "done"
        BY <2>1, <2>2, LeavesKeeps DEF Leaves, PayLabels, HiringLabels, SavingLabels, PayingLabels
    <2>3. CASE pc'[c] # "done"
        <3>1. PICK id, row, moved :
                  /\ id = FindEmployee(c, mem[c].id, Business(c)) /\ row = mem[c].row
                  /\ id # Nothing
                  /\ Reads(c, [id |-> id, moved |-> moved,
                               row |-> IF moved THEN [row EXCEPT !.on = @ \ {"checked"}] ELSE row],
                           IF row.cadre # db.employees[id].cadre THEN "update.cadre"
                           ELSE "update.verify")
            BY <1>1, <1>4, <2>3 DEF UpdateFindsEmployee
        <3>2. id = mem[c].id
            BY <3>1 DEF FindEmployee, First
        <3>3. ASSUME id \in Originals
              PROVE  Saving(c)'
            <4>1. /\ Owner(id) = Business(c)
                  /\ Good(db.employees[id].cadre, Business(c))
                BY <3>1, <3>3, FoundEmployee
            <4>2. IsEmployee(row) /\ row.business = Business(c)
                BY <1>4, <3>1, <3>2, <3>3 DEF UpdateFindsEmployee, PayInv, PayCall
            <4>3. /\ mem'[c].id = id
                  /\ mem'[c].row = IF moved THEN [row EXCEPT !.on = @ \ {"checked"}] ELSE row
                  /\ pc'[c] = IF row.cadre # db.employees[id].cadre THEN "update.cadre"
                              ELSE "update.verify"
                BY <1>1, <3>1
            <4>4. /\ IsEmployee(mem'[c].row) /\ mem'[c].row.business = row.business
                  /\ mem'[c].row.cadre = row.cadre
                BY <4>2, <4>3 DEF IsEmployee
            <4>5. Good(db.employees[id].cadre, Business(c))'
                BY <2>1, <4>1, SameStaffKeeps DEF Good, SameStaff, Business, Recorded
            <4> QED
                BY <1>1, <2>1, <4>1, <4>2, <4>3, <4>4, <4>5 DEF Saving, SameStaff, Owner, Business
        <3>4. /\ mem'[c].id = id /\ pc'[c] \in {"update.cadre", "update.verify"}
              /\ {"id", "row"} \subseteq DOMAIN mem'[c]
            BY <1>1, <3>1
        <3>5. PayCall(c)'
            BY <3>3, <3>4 DEF PayCall, Saving, Paying, HiringLabels
        <3> QED
            BY <2>1, <3>5, UnstaffedKeeps
    <2> QED
        BY <2>2, <2>3
<1>5. CASE UpdateFindsCadre(c)
    <2>1. SameStaff /\ PayMoves(c)
        BY <1>1, <1>5 DEF UpdateFindsCadre, SameStaff, PayMoves
    <2>2. CASE pc'[c] = "done"
        BY <2>1, <2>2, LeavesKeeps DEF Leaves, PayLabels, HiringLabels, SavingLabels, PayingLabels
    <2>3. CASE pc'[c] # "done"
        <3>1. /\ pc[c] = "update.cadre" /\ pc'[c] = "update.verify" /\ mem'[c] = mem[c]
              /\ FindCadre(c, mem[c].row.cadre, Business(c)) # Nothing
            BY <1>1, <1>5, <2>3 DEF UpdateFindsCadre
        <3>2. Good(mem[c].row.cadre, Business(c))
            BY <3>1, FoundCadre DEF Good
        <3>3. PICK k, business : k = mem[c].row.cadre /\ business = Business(c)
            OBVIOUS
        <3>4. Good(k, business)'
            BY <2>1, <3>2, <3>3, SameStaffKeeps DEF Good, SameStaff
        <3>5. Saving(c)'
            BY <1>1, <3>1, <3>3, <3>4 DEF PayInv, PayCall, Saving, SavingLabels, Owner, Business
        <3> QED
            BY <2>1, <3>1, <3>5, UnstaffedKeeps DEF PayInv, PayCall, Paying, HiringLabels, SavingLabels
    <2> QED
        BY <2>2, <2>3
<1>6. CASE UpdateVerifiesAccount(c)
    <2>1. SameStaff /\ PayMoves(c)
        BY <1>1, <1>6 DEF UpdateVerifiesAccount, SameStaff, PayMoves
    <2>2. /\ pc[c] = "update.verify" /\ pc'[c] = "update.save"
          /\ mem'[c] = mem[c] \/ mem'[c] = [mem[c] EXCEPT !.row.on = @ \cup {"checked"}]
        BY <1>1, <1>6 DEF UpdateVerifiesAccount
    <2>3. {"id", "row"} \subseteq DOMAIN mem'[c] /\ mem'[c].id = mem[c].id
        BY <2>2 DEF PayInv, PayCall, SavingLabels
    <2>4. ASSUME mem'[c].id \in Originals
          PROVE  Saving(c)'
        <3>1. CASE mem[c].id \in Originals
            <4>1. /\ Owner(mem[c].id) = Business(c) /\ IsEmployee(mem[c].row)
                  /\ mem[c].row.business = Business(c)
                  /\ mem[c].row.cadre # Nothing => Good(mem[c].row.cadre, Business(c))
                BY <2>2, <3>1 DEF PayInv, PayCall, Saving, SavingLabels
            <4>2. /\ IsEmployee(mem'[c].row)
                  /\ mem'[c].row.business = mem[c].row.business
                  /\ mem'[c].row.cadre = mem[c].row.cadre
                BY <2>2, <2>3, <4>1 DEF IsEmployee
            <4>3. PICK k, business : k = mem[c].row.cadre /\ business = Business(c)
                OBVIOUS
            <4>4. k # Nothing => Good(k, business)'
                BY <2>1, <4>1, <4>3, SameStaffKeeps DEF Good, SameStaff
            <4> QED
                BY <1>1, <2>2, <2>3, <4>1, <4>2, <4>3, <4>4 DEF Saving, Owner, Business
        <3>2. CASE mem[c].id \notin Originals
            BY <2>3, <2>4, <3>2
        <3> QED
            BY <3>1, <3>2
    <2> QED
        BY <2>1, <2>2, <2>3, <2>4, UnstaffedKeeps DEF PayCall, Saving, Paying, HiringLabels
<1>7. CASE UpdateSaves(c)
    <2>1. pc[c] = "update.save" /\ SavesEmployee(c, mem[c].row, "error")
        BY <1>7 DEF UpdateSaves
    <2>2. mem[c].id \in Originals => mem[c].row.on \subseteq {"active", "checked"}
        BY <2>1 DEF PayInv, PayCall, Saving, SavingLabels, IsEmployee
    <2> QED
        BY <2>1, <2>2, SavesEmployeeKeepsPay DEF SavingLabels
<1>8. CASE HandleDeactivate(c)
    <2>1. Leaves(c)
        BY <1>1, <1>8 DEF HandleDeactivate, Handle, Leaves, SameStaff, PayMoves, PayLabels,
            HiringLabels, SavingLabels, PayingLabels
    <2> QED
        BY <2>1, LeavesKeeps
<1>9. CASE DeactivateFindsEmployee(c)
    BY <1>1, <1>9, LoadsEmployee DEF DeactivateFindsEmployee, SavingLabels
<1>10. CASE DeactivateSaves(c)
    <2>1. PICK new : /\ pc[c] = "deactivate.save" /\ SavesEmployee(c, new, "error")
                     /\ new = [mem[c].row EXCEPT !.on = @ \ {"active"}]
        BY <1>10 DEF DeactivateSaves
    <2>2. mem[c].id \in Originals =>
              /\ DOMAIN new = DOMAIN mem[c].row /\ new.on \subseteq {"active", "checked"}
              /\ new.business = mem[c].row.business /\ new.cadre = mem[c].row.cadre
        BY <2>1 DEF PayInv, PayCall, Saving, SavingLabels, IsEmployee
    <2> QED
        BY <2>1, <2>2, SavesEmployeeKeepsPay DEF SavingLabels
<1> QED
    BY <1>2, <1>3, <1>4, <1>5, <1>6, <1>7, <1>8, <1>9, <1>10 DEF Employ

\* The login of an employee is created and linked to its row.
LEMMA LogInPays ==
    ASSUME NullIsNoStaff, PayInv, Recorded, NEW c \in Calls, LogIn(c)
    PROVE  PayInv'
<1> USE DEF At, Reads, Answers, Ends, Goes, Skips, Writes
<1>1. DOMAIN pc = Calls /\ DOMAIN mem = Calls /\ PayTables \subseteq DOMAIN db /\ req' = req
    BY DEF PayInv, PayRows, Recorded
<1>2. CASE \/ HandleLogin(c) \/ Login(c) \/ HandleEmployeeLogin(c) \/ EmployeeLogin(c)
           \/ HandleCreateLogin(c)
    <2>1. Leaves(c)
        BY <1>1, <1>2 DEF HandleLogin, Login, HandleEmployeeLogin, EmployeeLogin,
            HandleCreateLogin, Handle, Leaves, SameStaff, PayMoves, PayLabels,
            HiringLabels, SavingLabels, PayingLabels
    <2> QED
        BY <2>1, LeavesKeeps
<1>3. CASE CreateLoginFindsEmployee(c)
    BY <1>1, <1>3, LoadsEmployee DEF CreateLoginFindsEmployee, Business, SavingLabels
<1>4. CASE CreateLoginCreatesUser(c)
    <2>1. SameStaff /\ PayMoves(c)
        BY <1>1, <1>4 DEF CreateLoginCreatesUser, InsertUser, Fails, RolledBack, Put, PayTables,
            SameStaff, PayMoves
    <2>2. pc[c] = "create_login.user" /\ mem' = mem /\ pc'[c] \in {"done", "create_login.link"}
        BY <1>1, <1>4 DEF CreateLoginCreatesUser, InsertUser, Fails
    <2>3. PICK k, business : k = mem[c].row.cadre /\ business = Business(c)
        OBVIOUS
    <2>4. Good(k, business) => Good(k, business)'
        BY <2>1, SameStaffKeeps DEF Good, SameStaff
    <2>5. Saving(c)'
        BY <1>1, <2>2, <2>3, <2>4 DEF PayInv, PayCall, Saving, SavingLabels, Owner, Business
    <2> QED
        BY <2>1, <2>2, <2>5, UnstaffedKeeps DEF PayInv, PayCall, Paying, HiringLabels, SavingLabels
<1>5. CASE CreateLoginLinksEmployee(c)
    <2>1. PICK new : /\ pc[c] = "create_login.link" /\ SavesEmployee(c, new, "ok")
                     /\ new = [mem[c].row EXCEPT !.user = c]
        BY <1>5 DEF CreateLoginLinksEmployee
    <2>2. mem[c].id \in Originals =>
              /\ DOMAIN new = DOMAIN mem[c].row /\ new.on \subseteq {"active", "checked"}
              /\ new.business = mem[c].row.business /\ new.cadre = mem[c].row.cadre
        BY <2>1 DEF PayInv, PayCall, Saving, SavingLabels, IsEmployee
    <2> QED
        BY <2>1, <2>2, SavesEmployeeKeepsPay DEF SavingLabels
<1> QED
    BY <1>2, <1>3, <1>4, <1>5 DEF LogIn

-----------------------------------------------------------------------------
(* Cadres, and what concerns neither them nor employees *)

LEMMA CadreStep ==
    ASSUME NullIsNoStaff, PayInv, Recorded, NEW c \in Calls, NEW id, NEW row,
           db' = Put("cadres", id, row), DOMAIN row = {"business", "name", "components", "deleted"},
           PayMoves(c), pc'[c] \notin PayLabels
    PROVE  PayInv'
<1>1. PayRows' /\ CadresStay /\ db'.runs = db.runs
    BY CadreWritten
<1>2. PayCall(c)'
    BY DEF PayCall, Saving, Paying, PayLabels, HiringLabels, SavingLabels, PayingLabels
<1> QED
    BY <1>1, <1>2, PayStepKeeps

LEMMA StructurePays ==
    ASSUME NullIsNoStaff, PayInv, Recorded, NEW c \in Calls, Structure(c)
    PROVE  PayInv'
<1> USE DEF At, Reads, Answers, Ends, Goes, Skips, Writes, WritesAndAnswers
<1>1. DOMAIN pc = Calls /\ DOMAIN mem = Calls /\ PayTables \subseteq DOMAIN db /\ req' = req
    BY DEF PayInv, PayRows, Recorded
<1>2. PayMoves(c) /\ pc'[c] \notin PayLabels
    BY <1>1 DEF Structure, HandleCreateCadre, CreateCadreChecks, CreateCadreInserts,
        HandleUpdateCadre, UpdateCadre, HandleDeleteCadre, DeleteCadre, HandleCreateRule,
        CreateDeductionRule, HandleUpdateRule, UpdateDeductionRule, HandleDeleteRule,
        DeleteDeductionRule, SavesNamed, Handle, PayMoves,
        PayLabels, HiringLabels, SavingLabels, PayingLabels
<1>3. CASE \/ HandleCreateCadre(c) \/ CreateCadreChecks(c) \/ HandleUpdateCadre(c)
           \/ HandleDeleteCadre(c) \/ HandleCreateRule(c) \/ CreateDeductionRule(c)
           \/ HandleUpdateRule(c) \/ UpdateDeductionRule(c) \/ HandleDeleteRule(c)
           \/ DeleteDeductionRule(c) \/ UNCHANGED db
    <2>1. SameStaff
        BY <1>1, <1>3 DEF HandleCreateCadre, CreateCadreChecks, HandleUpdateCadre,
            HandleDeleteCadre, HandleCreateRule, CreateDeductionRule, HandleUpdateRule,
            UpdateDeductionRule, HandleDeleteRule, DeleteDeductionRule, SavesNamed, Handle,
            Put, Delete, SameStaff, PayTables
    <2> QED
        BY <1>2, <2>1, LeavesKeeps DEF Leaves
<1>4. CASE CreateCadreInserts(c) /\ ~UNCHANGED db
    <2>1. db' = Put("cadres", c, NamedCadre(c))
        BY <1>4 DEF CreateCadreInserts, SavesNamed
    <2> QED
        BY <1>2, <2>1, CadreStep DEF NamedCadre
<1>5. CASE UpdateCadre(c) /\ ~UNCHANGED db
    <2>1. db' = SaveCadre(req[c].id, NamedCadre(c))
        BY <1>5 DEF UpdateCadre, SavesNamed
    <2>2. PICK row :
              row = [NamedCadre(c) EXCEPT !.components =
                        (IF db.cadres[req[c].id] = Nothing THEN <<>>
                         ELSE db.cadres[req[c].id].components) \o @]
        OBVIOUS
    <2>3. DOMAIN row = {"business", "name", "components", "deleted"}
        BY <2>2 DEF NamedCadre
    <2> QED
        BY <1>2, <2>1, <2>2, <2>3, CadreStep DEF SaveCadre
<1>6. CASE DeleteCadre(c) /\ ~UNCHANGED db
    <2>1. db' = Delete("cadres", req[c].id) /\ FindCadre(c, req[c].id, Business(c)) # Nothing
        BY <1>6 DEF DeleteCadre
    <2>2. PICK row : row = [db.cadres[req[c].id] EXCEPT !.deleted = TRUE]
        OBVIOUS
    <2>3. DOMAIN row = {"business", "name", "components", "deleted"}
        BY <2>1, <2>2, FoundCadre DEF PayInv, PayRows
    <2>4. db' = Put("cadres", req[c].id, row)
        BY <1>1, <2>1, <2>2 DEF Delete, Put, PayTables
    <2> QED
        BY <1>2, <2>3, <2>4, CadreStep
<1> QED
    BY <1>3, <1>4, <1>5, <1>6 DEF Structure

LEMMA RegisterPays ==
    ASSUME NullIsNoStaff, PayInv, Recorded, NEW c \in Calls, Register(c) \/ RegisterAborts(c)
    PROVE  PayInv'
<1> USE DEF At, Reads, Answers, Ends, Goes, Skips, Writes
<1>1. DOMAIN pc = Calls /\ DOMAIN mem = Calls /\ PayTables \subseteq DOMAIN db
    BY DEF PayInv, PayRows
<1>2. CASE RegisterCreatesCadre(c)
    <2>1. PayMoves(c) /\ pc'[c] \notin PayLabels
        BY <1>1, <1>2 DEF RegisterCreatesCadre, PayMoves, PayLabels, HiringLabels, SavingLabels,
            PayingLabels
    <2>2. CASE db' = db
        BY <1>1, <2>1, <2>2, LeavesKeeps DEF Leaves, SameStaff
    <2>3. CASE db' = Put("cadres", c, StandardCadre(c))
        BY <2>1, <2>3, CadreStep DEF StandardCadre
    <2> QED
        BY <1>2, <2>2, <2>3 DEF RegisterCreatesCadre
<1>3. CASE \/ HandleRegister(c) \/ RegisterCreatesBusiness(c) \/ RegisterCreatesAdmin(c)
           \/ RegisterLinksAdmin(c) \/ RegisterAssignsPlan(c) \/ RegisterOpensAccount(c)
           \/ RegisterCommits(c) \/ RegisterAborts(c)
    <2>1. PayMoves(c) /\ pc'[c] \notin PayLabels
        BY <1>1, <1>3 DEF HandleRegister, Handle, RegisterCreatesBusiness, RegisterCreatesAdmin,
            InsertUser, Fails, RegisterLinksAdmin, RegisterAssignsPlan, RegisterOpensAccount,
            RegisterCommits, RegisterAborts, PayMoves,
            PayLabels, HiringLabels, SavingLabels, PayingLabels
    <2>2. SameStaff
        BY <1>1, <1>3 DEF HandleRegister, Handle, RegisterCreatesBusiness, RegisterCreatesAdmin,
            InsertUser, Fails, RolledBack, RegisterLinksAdmin, Linked, UpdateBusiness,
            RegisterAssignsPlan, RegisterOpensAccount, RegisterCommits, RegisterAborts, Put,
            SameStaff, PayTables
    <2> QED
        BY <2>1, <2>2, LeavesKeeps DEF Leaves
<1> QED
    BY <1>2, <1>3 DEF Register

LEMMA OthersLeave ==
    ASSUME PayInv, NEW c \in Calls,
           Invite(c) \/ Recover(c) \/ Manage(c) \/ Bill(c) \/ TakeLeave(c) \/ Lend(c) \/ Look(c)
    PROVE  Leaves(c)
<1> USE DEF Leaves, SameStaff, PayMoves, PayTables, PayLabels, HiringLabels, SavingLabels,
        PayingLabels, At, Handle, Loads, Reads, Answers, Ends, Goes, Skips, Writes,
        WritesAndAnswers, Put
<1>1. DOMAIN pc = Calls /\ DOMAIN mem = Calls /\ PayTables \subseteq DOMAIN db
    BY DEF PayInv, PayRows
<1>2. CASE Invite(c)
    BY <1>1, <1>2 DEF Invite, HandleInvite, InviteLooksForUser, InviteCreatesUser, InviteAnswers,
        HandleAccept, AcceptFindsUser, AcceptSavesPassword, UpdateUser, InsertUser, Fails,
        RolledBack
<1>3. CASE Recover(c)
    BY <1>1, <1>3 DEF Recover, HandleForgot, ForgotFindsUser, ForgotSavesToken, HandleReset,
        ResetFindsUser, ResetSavesPassword, HandleResend, ResendFindsUser, ResendSavesToken,
        HandleVerify, VerifyFindsUser, VerifySavesUser, UpdateUser
<1>4. CASE Manage(c)
    BY <1>1, <1>4 DEF Manage, HandleSettings, SettingsRead, SettingsSave, HandleSuspend,
        SuspendReads, SuspendOrganization, HandleActivate, ActivateReads,
        ActivateOrganization, ReadsBusiness, UpdateBusiness
<1>5. CASE Bill(c)
    BY <1>1, <1>5 DEF Bill, HandleSubscribe, SubscribeFindsPlan, AssignFreePlan,
        InitializeTransaction, SubscribeCreates, SubscribeInvoices, SubscribeReads,
        SubscribeSaves, HandleCancelSubscription, CancelFindsSubscription, CancelSaves,
        CancelReads, CancelDowngrades, ReadsBusiness, UpdateBusiness
<1>6. CASE TakeLeave(c)
    BY <1>1, <1>6 DEF TakeLeave,
        HandleCreateLeaveType, CreateLeaveType, HandleSubmitLeave, SubmitFindsBalance,
        SubmitCreatesBalance, SubmitInserts, HandleApproveLeave, FindsPending,
        ApproveFindsLeave, ApproveChecksBalance, ApproveSaves, ApproveDeducts,
        HandleRejectLeave, RejectFindsLeave, RejectSaves
<1>7. CASE Lend(c)
    BY <1>1, <1>7 DEF Lend,
        HandleCreateLoan, CreateLoan, HandleCancelLoan, CancelFindsLoan, CancelSavesLoan
<1>8. CASE Look(c)
    BY <1>1, <1>8 DEF Look,
        GetEmployeeByID, ListEmployees, GetCadreByID, ListAllCadres, ListDeductionRules,
        ListLoans, ListLeaveTypes, ListLeaveRequests, GetLeaveBalances, GetProfile,
        GetSettings, GetPlans, GetSubscription, ListInvoices, ListPayrollRuns, GetStats,
        ListOrganizations, HandlePAYEReport, HandlePensionSchedule, HandleNHFSchedule,
        HandleBankSchedule, HandlePayrollSummary, HandleAllPayslips, HandlePayslip,
        GetPayrollRunByID, GetPayrollStatus, GetPayslips, HandleDashboard,
        GetSummaryEmployees, CountsEmployees, GetSummaryRuns, GetSummaryEnds, Shows,
        Lookup, Report
<1> QED
    BY <1>2, <1>3, <1>4, <1>5, <1>6, <1>7, <1>8

-----------------------------------------------------------------------------
(* The calculation *)

LEMMA ReadsLoansPays ==
    ASSUME PayInv, Recorded, NEW c \in Calls, At(c, "calculate.loans"), NEW emp, NEW loans,
           ReadsLoans(c, emp, loans)
    PROVE  PayInv'
<1>1. /\ DOMAIN pc = Calls /\ DOMAIN mem = Calls /\ PayTables \subseteq DOMAIN db /\ req' = req
      /\ {"staff", "loans"} \subseteq DOMAIN mem[c]
      /\ ToBePaid(Business(c)) \subseteq DOMAIN mem[c].staff
    BY DEF PayInv, PayRows, PayCall, Paying, Recorded, At
<1>2. PICK read : /\ mem' = [mem EXCEPT ![c] = [mem[c] EXCEPT !.loans = read]]
                  /\ pc' = [pc EXCEPT ![c] = IF DOMAIN read = DOMAIN mem[c].staff
                                             THEN "calculate.store" ELSE "calculate.loans"]
                  /\ db' = db
    BY DEF ReadsLoans, Reads, Goes
<1>3. SameStaff /\ PayMoves(c)
    BY <1>1, <1>2 DEF SameStaff, PayMoves
<1>4. /\ DOMAIN mem'[c] = DOMAIN mem[c] /\ mem'[c].staff = mem[c].staff
      /\ pc'[c] \in {"calculate.store", "calculate.loans"}
    BY <1>1, <1>2
<1>5. ToBePaid(Business(c))' \subseteq ToBePaid(Business(c))
    BY <1>1, HistoryGrows DEF Business
<1>6. PayCall(c)'
    BY <1>1, <1>4, <1>5 DEF PayCall, Saving, Paying, HiringLabels, SavingLabels
<1> QED
    BY <1>3, <1>6, UnstaffedKeeps

\* Resolving the identifiers of adjustments changes no table.
LEMMA ResolvesPays ==
    ASSUME PayInv, Recorded, NEW c \in Calls, NEW found, Resolves(c, found)
    PROVE  PayInv'
<1>1. DOMAIN pc = Calls /\ DOMAIN mem = Calls /\ PayTables \subseteq DOMAIN db
    BY DEF PayInv, PayRows
<1>2. \E value : Reads(c, value, "calculate.business")
    BY DEF Resolves
<1>3. Leaves(c)
    BY <1>1, <1>2 DEF Reads, Goes, Leaves, SameStaff, PayMoves, PayLabels, HiringLabels,
        SavingLabels, PayingLabels
<1> QED
    BY <1>3, LeavesKeeps

\* Whoever has to be paid is active and of the business when the employees are read, ...
LEMMA ReadsEmployeesPays ==
    ASSUME PayInv, Recorded, NEW c \in Calls, CalculateReadsEmployees(c)
    PROVE  PayInv'
<1>1. DOMAIN pc = Calls /\ DOMAIN mem = Calls /\ PayTables \subseteq DOMAIN db /\ req' = req
    BY DEF PayInv, PayRows, Recorded
<1>2. PICK active : active = {e \in FindEmployees(c, Business(c)) : "active" \in db.employees[e].on}
    OBVIOUS
<1>3. Reads(c, [adjustments |-> mem[c].adjustments, business |-> mem[c].business,
                staff |-> [e \in active |-> db.employees[e]]], "calculate.cadres")
    BY <1>2 DEF CalculateReadsEmployees
<1>4. SameStaff /\ PayMoves(c)
    BY <1>1, <1>3 DEF Reads, Goes, SameStaff, PayMoves
<1>5. pc'[c] = "calculate.cadres" /\ mem'[c].staff = [e \in active |-> db.employees[e]]
    BY <1>1, <1>3 DEF Reads, Goes
<1>6. ASSUME NEW emp \in Originals, Owner(emp) = Business(c), "active" \in Rows0.employees[emp].on
      PROVE  emp \in active /\ db.employees[emp].cadre \in had[emp]
    <2>1. /\ emp \in DOMAIN db.employees /\ db.employees[emp] # Nothing
          /\ db.employees[emp].business = Business(c) /\ "active" \in db.employees[emp].on
          /\ db.employees[emp].cadre \in had[emp]
        BY <1>6 DEF PayInv, PayRows, PayTables, Originals
    <2> QED
        BY <1>2, <2>1 DEF FindEmployees, Where, Sees
<1>7. Paying(c)'
    BY <1>1, <1>4, <1>5, <1>6, SameStaffKeeps DEF Paying, Owner, Business
<1>8. PayCall(c)'
    BY <1>5, <1>7 DEF PayCall, Saving, HiringLabels, SavingLabels
<1> QED
    BY <1>4, <1>8, UnstaffedKeeps

\* ... and its cadre, the one that was read, is there when the cadres are.
LEMMA ReadsCadresPays ==
    ASSUME PayInv, Recorded, NEW c \in Calls, CalculateReadsCadres(c)
    PROVE  PayInv'
<1>1. DOMAIN pc = Calls /\ DOMAIN mem = Calls /\ PayTables \subseteq DOMAIN db /\ req' = req
    BY DEF PayInv, PayRows, Recorded
<1> DEFINE staff == mem[c].staff
           cadres == FindCadres(c, {staff[e].cadre : e \in DOMAIN staff}, Business(c))
           paid == {e \in DOMAIN staff : /\ staff[e].cadre \in cadres
                                         /\ db.cadres[staff[e].cadre].components # <<>>}
           rules(k) == Listed("rules", {r \in ListRules(c, Business(c)) : db.rules[r].cadre = k})
           value == [adjustments |-> mem[c].adjustments, business |-> mem[c].business,
                     staff |-> [e \in paid |->
                         [rent |-> staff[e].rent, rules |-> rules(staff[e].cadre),
                          components |-> db.cadres[staff[e].cadre].components]],
                     loans |-> <<>>]
<1>2. IF paid = {} THEN Answers(c, "error") ELSE Reads(c, value, "calculate.loans")
    BY Zenon DEF CalculateReadsCadres
<1>3. SameStaff /\ PayMoves(c)
    BY <1>1 DEF CalculateReadsCadres, Answers, Ends, Reads, Goes, SameStaff, PayMoves
<1>4. CASE paid = {}
    <2>1. Answers(c, "error")
        BY <1>2, <1>4
    <2> QED
        BY <1>1, <1>3, <2>1, LeavesKeeps DEF Answers, Ends, Goes, Leaves, PayLabels, HiringLabels,
            SavingLabels, PayingLabels
<1>5. CASE paid # {}
    <2>1. {"staff", "loans"} \subseteq DOMAIN value /\ DOMAIN value.staff = paid
        OBVIOUS
    <2> HIDE DEF value
    <2>2. /\ pc[c] = "calculate.cadres" /\ pc'[c] = "calculate.loans"
          /\ {"staff", "loans"} \subseteq DOMAIN mem'[c] /\ DOMAIN mem'[c].staff = paid
        BY <1>1, <1>2, <1>5, <2>1 DEF CalculateReadsCadres, At, Reads, Goes
    <2>3. ASSUME NEW emp \in ToBePaid(Business(c))
          PROVE  emp \in paid
        <3>1. PICK k : k = staff[emp].cadre
            OBVIOUS
        <3>2. /\ emp \in Originals /\ Owner(emp) = Business(c)
              /\ emp \in DOMAIN staff /\ k \in had[emp] /\ k \notin dropped
            BY <2>2, <3>1 DEF ToBePaid, PayInv, PayCall, Paying, Owner
        <3>3. k \in DOMAIN db.cadres /\ db.cadres[k] # Nothing /\ db.cadres[k].business = Business(c)
            BY <3>2 DEF PayInv, PayRows, Good
        <3>4. k \notin Gone(db, db)
            BY <3>2 DEF PayInv, PayRows
        <3>5. ~db.cadres[k].deleted /\ db.cadres[k].components # <<>>
            BY <3>3, <3>4 DEF Gone
        <3>6. k \in cadres
            BY <3>1, <3>2, <3>3, <3>5 DEF FindCadres, Where, Sees
        <3> QED
            BY <3>1, <3>2, <3>5, <3>6
    <2>4. ToBePaid(Business(c))' \subseteq ToBePaid(Business(c))
        BY <1>1, HistoryGrows DEF Business
    <2>5. PayCall(c)'
        BY <2>2, <2>3, <2>4 DEF PayCall, Saving, Paying, HiringLabels, SavingLabels
    <2> QED
        BY <1>3, <2>5, UnstaffedKeeps
<1> QED
    BY <1>4, <1>5

\* An entry is of its employee.
LEMMA EntryIsOf ==
    ASSUME NEW c, NEW emp
    PROVE  EntryOf(c, emp).emp = emp
BY Zenon DEF EntryOf, Entry

\* The run has one entry for each of the staff.
LEMMA StoresPays ==
    ASSUME PayInv, Recorded, NEW c \in Calls, CreateAndStorePayrollRun(c)
    PROVE  PayInv'
<1>1. DOMAIN pc = Calls /\ DOMAIN mem = Calls /\ PayTables \subseteq DOMAIN db /\ req' = req
    BY DEF PayInv, PayRows, Recorded
<1>2. PICK entries, run : /\ entries = {EntryOf(c, emp) : emp \in DOMAIN mem[c].staff}
                          /\ run = RunOf(Business(c), entries)
    OBVIOUS
<1>3. /\ pc[c] = "calculate.store" /\ WritesAndAnswers(c, Put("runs", c, run), "ok")
    BY <1>2 DEF CreateAndStorePayrollRun, At
<1>4. PayMoves(c) /\ pc'[c] = "done"
    BY <1>1, <1>3 DEF WritesAndAnswers, Ends, Goes, PayMoves
<1>5. /\ PayTables \subseteq DOMAIN db' /\ DOMAIN db'.runs = DOMAIN db.runs
      /\ db'.employees = db.employees /\ db'.cadres = db.cadres
      /\ \A d \in DOMAIN db.runs : db'.runs[d] = IF d = c THEN run ELSE db.runs[d]
    BY <1>1, <1>3 DEF WritesAndAnswers, Put, PayTables
<1>6. run.business = Business(c) /\ run.entries = entries
    BY <1>2 DEF RunOf
<1>7. ASSUME NEW emp \in ToBePaid(Business(c))
      PROVE  Cardinality({e \in entries : e.emp = emp}) = 1
    <2>1. emp \in DOMAIN mem[c].staff
        BY <1>3 DEF PayInv, PayCall, Paying
    <2>2. {e \in entries : e.emp = emp} = {EntryOf(c, emp)}
        BY <1>2, <2>1, EntryIsOf
    <2> QED
        BY <2>2, FS_Singleton
<1>8. ToBePaid(run.business)' \subseteq ToBePaid(Business(c))
    BY <1>6, HistoryGrows
<1>9. PaysOnce(run)'
    BY <1>6, <1>7, <1>8 DEF PaysOnce
<1>10. ASSUME NEW d \in Calls
       PROVE  db'.runs[d] = db.runs[d] \/ PaysOnce(db.runs[d])'
    BY <1>5, <1>9, PayAssumption DEF PayInv, PayRows, PayTables
<1>11. PayCall(c)'
    BY <1>4 DEF PayCall, Saving, Paying, HiringLabels, SavingLabels
<1> QED
    BY <1>4, <1>5, <1>10, <1>11, SamePeopleKeep, PayStepKeeps

LEMMA CalculatePays ==
    ASSUME PayInv, Recorded, NEW c \in Calls, Calculate(c)
    PROVE  PayInv'
<1>1. DOMAIN pc = Calls /\ DOMAIN mem = Calls /\ PayTables \subseteq DOMAIN db
    BY DEF PayInv, PayRows
<1>2. CASE HandleCalculate(c) \/ CalculateReadsBusiness(c)
    <2>1. Leaves(c)
        BY <1>1, <1>2 DEF HandleCalculate, CalculateReadsBusiness, Answers, Ends, Reads, Goes,
            Leaves, SameStaff, PayMoves, PayLabels, HiringLabels, SavingLabels, PayingLabels
    <2> QED
        BY <2>1, LeavesKeeps
<1> QED
    BY <1>2, ResolvesPays, ReadsEmployeesPays, ReadsCadresPays, ReadsLoansPays, StoresPays
        DEF Calculate, CalculateResolves, CalculateReadsLoans

-----------------------------------------------------------------------------
(* Faults, and the theorem *)

LEMMA FaultPays ==
    ASSUME NullIsNoStaff, PayInv, Recorded, Fault
    PROVE  PayInv'
<1>1. DOMAIN pc = Calls /\ DOMAIN mem = Calls /\ PayTables \subseteq DOMAIN db
    BY DEF PayInv, PayRows
<1>2. CASE Crash
    <2>1. SameStaff
        BY <1>1, <1>2 DEF Crash, RolledBack, SameStaff, PayTables
    <2>2. PayRows' /\ dropped' = dropped /\ had' = had /\ req' = req
        BY <2>1, SameStaffKeeps DEF Recorded
    <2>3. ASSUME NEW c \in Calls
          PROVE  PayCall(c)'
        <3>1. mem' = mem /\ (pc'[c] = "done" \/ pc'[c] = pc[c])
            BY <1>1, <1>2 DEF Crash
        <3>2. PayCall(c)
            BY DEF PayInv
        <3>3. PICK k, business : k = mem[c].row.cadre /\ business = Business(c)
            OBVIOUS
        <3>4. Good(k, business) => Good(k, business)'
            BY <2>1, <2>2 DEF Good, SameStaff
        <3>5. Saving(c)'
            BY <2>2, <3>1, <3>2, <3>3, <3>4 DEF PayCall, Saving, SavingLabels, Owner, Business
        <3>6. Paying(c)'
            BY <2>2, <3>1, <3>2 DEF PayCall, Paying, ToBePaid, Owner, Business
        <3> QED
            BY <2>2, <3>1, <3>2, <3>5, <3>6 DEF PayCall, HiringLabels, SavingLabels, Business
    <2>4. NobodyLeftOut'
        BY <2>1, <2>2 DEF NobodyLeftOut, PaysOnce, ToBePaid, SameStaff, PayInv
    <2> QED
        BY <1>2, <2>2, <2>3, <2>4 DEF Crash, PayInv
<1>3. ASSUME NEW c \in Calls, Breaks(c)
      PROVE  PayInv'
    <2>1. CASE pc[c] \in {"hire", "hire.email", "hire.insert"} /\ RowEnds(c, "error") /\ UNCHANGED db
        BY <1>1, <2>1, RowEndsAt, UnstaffedKeeps DEF HiringLabels, SameStaff, Recorded
    <2>2. CASE \E result : Fails(c, result)
        <3>1. Leaves(c)
            BY <1>1, <2>2 DEF Fails, RolledBack, Ends, Goes, Leaves, SameStaff, PayMoves,
                PayTables, PayLabels, HiringLabels, SavingLabels, PayingLabels
        <3> QED
            BY <3>1, LeavesKeeps
    <2> QED
        BY <1>3, <2>1, <2>2 DEF Breaks
<1>4. ASSUME NEW c \in Calls, Ignored(c)
      PROVE  PayInv'
    <2>1. CASE \/ \E step \in Logged : At(c, step[1]) /\ Skips(c, step[2])
               \/ pc[c] \in LoggedLast /\ Answers(c, "ok")
               \/ /\ At(c, "submit") /\ Days(c) > 0
                  /\ IF db.leaveTypes[req[c].type] = Nothing THEN Answers(c, "missing")
                     ELSE Reads(c, [balance |-> NewBalance(c)], "submit.balance")
               \/ CountsEmployees(c, {})
        <3>1. Leaves(c)
            BY <1>1, <2>1 DEF Logged, CountsEmployees, Skips, Writes, Answers, Ends, Reads, Goes,
                Leaves, SameStaff, PayMoves, PayLabels, HiringLabels, SavingLabels, PayingLabels
        <3> QED
            BY <3>1, LeavesKeeps
    <2> QED
        BY <1>4, <2>1, ResolvesPays, ReadsLoansPays DEF Ignored
<1> QED
    BY <1>2, <1>3, <1>4, RegisterPays DEF Fault

LEMMA NextPays ==
    ASSUME NullIsNoStaff, PayInv, [Next]_allVars
    PROVE  PayInv'
<1>1. CASE Next
    BY <1>1, FaultPays, RegisterPays, LogInPays, HirePays, EmployPays, StructurePays, OthersLeave,
        LeavesKeeps, CalculatePays DEF Next, Step
<1>2. CASE UNCHANGED allVars
    <2>1. /\ db' = db /\ req' = req /\ pc' = pc /\ mem' = mem
          /\ dropped' = dropped /\ had' = had
        BY <1>2 DEF allVars, vars
    <2> QED
        BY <2>1 DEF PayInv, PayRows, PayCall, Saving, Paying, Good, Owner, Business, ToBePaid,
            PaysOnce, NobodyLeftOut
<1> QED
    BY <1>1, <1>2

\* Whatever hirings, moves, deactivations, logins, changes and deletions of cadres interleave
\* with the statements of CalculatePayrollRun (payroll_calculation.go), and whatever fails, the
\* run that it stores has exactly one entry for every employee who was active at the start and
\* of whose cadres none was deleted, emptied or taken over by another business.
THEOREM EverybodyIsPaid == NullIsNoStaff /\ Spec => []NobodyLeftOut
<1>1. NullIsNoStaff /\ OfficeInit => NullIsNoStaff /\ PayInv
    <2> SUFFICES ASSUME OfficeInit PROVE PayInv
        OBVIOUS
    <2>1. \A c \in Calls : pc[c] \in {"received", "done"}
        BY DEF OfficeInit, Init
    <2>2. \A c \in Calls : PayCall(c)
        BY <2>1 DEF PayCall, Saving, Paying, HiringLabels, SavingLabels
    <2>3. PayRows
        BY PayAssumption, NamesAssumption DEF OfficeInit, Init, PayRows, PayTables, Originals,
            Good, Owner, IsCadre
    <2>4. NobodyLeftOut
        BY PayAssumption DEF OfficeInit, Init, NobodyLeftOut
    <2> QED
        BY <2>2, <2>3, <2>4 DEF OfficeInit, Init, PayInv
<1>2. (NullIsNoStaff /\ PayInv) /\ [Next]_allVars => (NullIsNoStaff /\ PayInv)'
    BY NextPays DEF NullIsNoStaff
<1>3. PayInv => NobodyLeftOut
    BY DEF PayInv
<1> QED
    BY <1>1, <1>2, <1>3, PTL DEF Spec
=============================================================================
