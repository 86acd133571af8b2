----------------------------- MODULE OfficeProofs -----------------------------
(***************************************************************************)
(* Theorems about Office, for any tables to start with, any requests and   *)
(* any number of failed statements and crashes: what becomes of users and  *)
(* businesses.                                                             *)
(***************************************************************************)
EXTENDS Office, TLAPS

-----------------------------------------------------------------------------
(* The invariant *)

\* The labels of a registration while its transaction is open.
Registering == {"register.user", "register.link", "register.cadre", "register.plan",
                "register.vfd", "register.commit"}

\* Labels that one kind of request reaches.
RegisterLabels == {"register"} \cup Registering
InviteLabels == {"invite", "invite.create", "invite.sent"}
LoginLabels == {"create_login", "create_login.user"}

\* Labels of the statements that write back a row that was read.
UserSaves == {"accept.save", "forgot.save", "reset.save", "resend.save", "verify.save"}
BusinessSaves == {"settings.save", "suspend.save", "activate.save", "subscribe.save",
                  "cancel.downgrade"}

Watched == {"received"} \cup RegisterLabels \cup InviteLabels \cup LoginLabels
               \cup UserSaves \cup BusinessSaves

BusinessColumns == {"admin", "on", "tier", "status", "currency"}

\* SQL's NULL is not the row of a user or of a business.
NullIsNoRow == DOMAIN Nothing \notin {UserColumns, BusinessColumns}

Shape ==
    /\ NullIsNoRow
    /\ DOMAIN pc = Calls /\ DOMAIN mem = Calls /\ DOMAIN answer = Calls
    /\ req \in Workloads
    /\ {"users", "businesses"} \subseteq DOMAIN db
    /\ Calls \subseteq DOMAIN db.users /\ Calls \subseteq DOMAIN db.businesses
    /\ Nothing \notin DOMAIN db.users
    /\ \A b \in DOMAIN Rows0.businesses :
           Rows0.businesses[b] # Nothing => b \in Visible("businesses")

\* A user is of a business that whoever sees the user sees.
UserRows ==
    \A u \in DOMAIN db.users :
        db.users[u] # Nothing =>
            /\ DOMAIN db.users[u] = UserColumns
            /\ u \notin open => db.users[u].business \in Visible("businesses")

EmailsDiffer ==
    \A u, v \in DOMAIN db.users :
        db.users[u] # Nothing /\ db.users[v] # Nothing /\ db.users[u].email = db.users[v].email
            => u = v

\* A business that was registered is seen with its admin.
BusinessRows ==
    \A b \in DOMAIN db.businesses :
        db.businesses[b] # Nothing =>
            /\ DOMAIN db.businesses[b] = BusinessColumns
            /\ b \in Calls /\ b \notin open => b \in Visible("users") /\ db.businesses[b].admin = b

\* A request is on the path of its own operation.
OwnPath(c) ==
    /\ req[c].op = "register" =>
           pc[c] \in RegisterLabels \cup {"received", "resend", "resend.save", "done"}
    /\ pc[c] \in RegisterLabels => req[c].op = "register"
    /\ req[c].op = "invite" => pc[c] \in InviteLabels \cup {"received", "done"}
    /\ pc[c] \in InviteLabels => req[c].op = "invite"
    /\ pc[c] \in LoginLabels => req[c].op = "create_login"

HasUser(c) == db.users[c] # Nothing /\ db.users[c].email = req[c].email

\* What a registration has inserted by now.
Registration(c) ==
    /\ c \in open <=> pc[c] \in Registering
    /\ pc[c] \in {"received", "register"} \/ req[c].op # "register" => db.businesses[c] = Nothing
    /\ pc[c] \in {"received", "register"} \cup (InviteLabels \ {"invite.sent"}) \cup LoginLabels =>
           db.users[c] = Nothing
    /\ req[c].op = "register" =>
        /\ pc[c] \in {"received"} \cup RegisterLabels => answer[c] # "ok"
        /\ pc[c] \in {"resend", "resend.save"} => answer[c] = "ok"
        /\ pc[c] \in Registering => db.businesses[c] # Nothing
        /\ pc[c] \in Registering \ {"register.user"} =>
               HasUser(c) /\ db.users[c].business = c
        /\ pc[c] \in Registering \ {"register.user", "register.link"} =>
               db.businesses[c].admin = c
        /\ answer[c] = "ok" => c \in Visible("businesses") /\ HasUser(c)

Invitation(c) ==
    req[c].op = "invite" =>
        /\ answer[c] = "ok" \/ pc[c] = "invite.sent" => HasUser(c)
        /\ pc[c] # "done" => answer[c] # "ok"

\* A row that is to be written back is of a user or business that is there, and has what never
\* changes.
Memory(c) ==
    /\ pc[c] \in UserSaves =>
        /\ mem[c].id \in Visible("users")
        /\ DOMAIN mem[c].row = UserColumns
        /\ mem[c].row.business = db.users[mem[c].id].business
        /\ mem[c].row.email = db.users[mem[c].id].email
    /\ pc[c] \in BusinessSaves =>
        /\ mem[c].id \in Visible("businesses")
        /\ DOMAIN mem[c].row = BusinessColumns
        /\ mem[c].id \in Calls => mem[c].row.admin = mem[c].id

Call(c) == OwnPath(c) /\ Registration(c) /\ Invitation(c) /\ Memory(c)

Rowwise == Shape /\ UserRows /\ EmailsDiffer /\ BusinessRows
Inv == Rowwise /\ \A c \in Calls : Call(c)

-----------------------------------------------------------------------------
(* What steps do *)

\* The rows with ids outside of X stay, with what never changes.
Steady(X) ==
    /\ {"users", "businesses"} \subseteq DOMAIN db'
    /\ DOMAIN db'.users = DOMAIN db.users
    /\ DOMAIN db'.businesses = DOMAIN db.businesses
    /\ \A u \in DOMAIN db.users \ X :
        /\ db.users[u] = Nothing <=> db'.users[u] = Nothing
        /\ db.users[u] # Nothing =>
            /\ DOMAIN db'.users[u] = UserColumns
            /\ db'.users[u].business = db.users[u].business
            /\ db'.users[u].email = db.users[u].email
            /\ db.users[u].on \subseteq db'.users[u].on
    /\ \A b \in DOMAIN db.businesses \ X :
        /\ db.businesses[b] = Nothing <=> db'.businesses[b] = Nothing
        /\ db.businesses[b] # Nothing =>
            /\ DOMAIN db'.businesses[b] = BusinessColumns
            /\ b \in Calls /\ db.businesses[b].admin = b => db'.businesses[b].admin = b
    /\ open' \ X = open \ X

\* Only call c moves.
Moves(c) ==
    /\ DOMAIN pc' = Calls /\ DOMAIN mem' = Calls /\ DOMAIN answer' = Calls
    /\ req' = req
    /\ \A d \in Calls \ {c} : pc'[d] = pc[d] /\ mem'[d] = mem[d] /\ answer'[d] = answer[d]

\* What anybody sees stays, with what never changes.
Kept ==
    /\ \A u \in Visible("users") :
        /\ u \in Visible("users")'
        /\ db'.users[u].business = db.users[u].business
        /\ db'.users[u].email = db.users[u].email
        /\ db.users[u].on \subseteq db'.users[u].on
    /\ \A b \in Visible("businesses") : b \in Visible("businesses")'

\* The other calls do not notice.
LEMMA OthersKeep ==
    ASSUME Inv, NEW c \in Calls, Moves(c), Steady({c}), Kept,
           NEW d \in Calls, d # c
    PROVE  Call(d)'
<1> USE DEF Inv, Rowwise
<1>1. pc'[d] = pc[d] /\ mem'[d] = mem[d] /\ answer'[d] = answer[d] /\ req' = req
    BY DEF Moves
<1>2. OwnPath(d)'
    BY <1>1 DEF Call, OwnPath
<1>3. /\ d \in DOMAIN db.users /\ d \in DOMAIN db.businesses
      /\ d \in open <=> d \in open'
      /\ db.users[d] = Nothing <=> db'.users[d] = Nothing
      /\ db.users[d] # Nothing => /\ db'.users[d].business = db.users[d].business
                                  /\ db'.users[d].email = db.users[d].email
      /\ db.businesses[d] = Nothing <=> db'.businesses[d] = Nothing
      /\ db.businesses[d] # Nothing /\ db.businesses[d].admin = d => db'.businesses[d].admin = d
    BY DEF Steady, Shape
<1>4. Registration(d)'
    BY <1>1, <1>3 DEF Call, Registration, HasUser, Kept
<1>5. Invitation(d)'
    BY <1>1, <1>3 DEF Call, Invitation, HasUser
<1>6. Memory(d)'
    BY <1>1 DEF Call, Memory, Kept
<1> QED
    BY <1>2, <1>4, <1>5, <1>6 DEF Call

\* Where no row comes or goes, everybody still sees what was seen.
LEMMA SteadyKeeps ==
    ASSUME Inv, NEW c \in Calls, Moves(c), Steady({})
    PROVE  Kept /\ Rowwise'
<1> USE DEF Inv, Rowwise
<1>1. open' = open
    BY DEF Steady
<1>2. /\ Visible("users")' = Visible("users")
      /\ Visible("businesses")' = Visible("businesses")
    BY <1>1 DEF Visible, Steady
<1>3. Kept
    BY <1>2 DEF Kept, Visible, Steady
<1>4. Shape'
    BY <1>2 DEF Shape, Moves, Steady
<1>5. UserRows'
    BY <1>1, <1>2 DEF UserRows, Steady
<1>6. EmailsDiffer'
    BY DEF EmailsDiffer, Steady
<1>7. BusinessRows'
    BY <1>1, <1>2 DEF BusinessRows, Steady
<1> QED
    BY <1>3, <1>4, <1>5, <1>6, <1>7

\* Steps of requests that neither register nor invite, and leave users and businesses alone.
Same == 
    /\ {"users", "businesses"} \subseteq DOMAIN db'
    /\ \A table \in {"users", "businesses"} :
        /\ DOMAIN db'[table] = DOMAIN db[table]
        /\ \A id \in DOMAIN db[table] : db'[table][id] = db[table][id]
    /\ open' = open

LEMMA SameIsSteady ==
    ASSUME Inv, Same
    PROVE  Steady({})
<1>1. /\ DOMAIN db'.users = DOMAIN db.users
      /\ \A u \in DOMAIN db.users : db'.users[u] = db.users[u]
    BY DEF Same
<1>2. /\ DOMAIN db'.businesses = DOMAIN db.businesses
      /\ \A u \in DOMAIN db.businesses : db'.businesses[u] = db.businesses[u]
    BY DEF Same
<1> QED
    BY <1>1, <1>2 DEF Same, Steady, Inv, Rowwise, UserRows, BusinessRows

Quiet(c) ==
    /\ Same
    /\ Moves(c)
    /\ req[c].op \notin {"register", "invite"}
    /\ pc'[c] \notin Watched

LEMMA QuietKeeps ==
    ASSUME Inv, NEW c \in Calls, Quiet(c)
    PROVE  Inv' /\ Kept
<1>1. Steady({}) /\ Moves(c) /\ req' = req /\ open' = open
    BY SameIsSteady DEF Quiet, Moves, Same
<1>2. Kept /\ Rowwise'
    BY <1>1, SteadyKeeps
<1>3. Steady({c})
    BY <1>1 DEF Steady
<1>4. c \notin open /\ db.businesses[c] = Nothing
    BY DEF Quiet, Inv, Call, Registration, OwnPath, RegisterLabels
<1>5. c \notin open' /\ db'.businesses[c] = Nothing
    BY <1>1, <1>4 DEF Steady, Inv, Rowwise, Shape
<1>6. Call(c)'
    BY <1>1, <1>5 DEF Quiet, Watched, Call, OwnPath, Registration, Invitation, Memory,
        RegisterLabels, Registering, InviteLabels, LoginLabels, UserSaves, BusinessSaves
<1> QED
    BY <1>1, <1>2, <1>3, <1>6, OthersKeep DEF Inv

-----------------------------------------------------------------------------
(* Steps that leave users and businesses alone *)

\* Where a request that neither registers nor invites can go.
LEMMA ElsewhereIsQuiet ==
    ASSUME Inv, NEW c \in Calls, req' = req,
           \/ pc[c] = "received" /\ req[c].op \notin {"register", "invite"}
           \/ pc[c] \notin Watched \cup {"resend", "done"},
           DOMAIN pc' = Calls, DOMAIN mem' = Calls, DOMAIN answer' = Calls,
           \A d \in Calls \ {c} : pc'[d] = pc[d] /\ mem'[d] = mem[d] /\ answer'[d] = answer[d],
           pc'[c] \notin Watched,
           Same
    PROVE  Quiet(c)
<1>1. req[c].op \notin {"register", "invite"}
    BY DEF Inv, Call, OwnPath, Watched, UserSaves
<1> QED
    BY <1>1 DEF Quiet, Moves

LEMMA StaffQuiet ==
    ASSUME Inv, NEW c \in Calls, req' = req,
           Hire(c) \/ Employ(c) \/ Structure(c) \/ TakeLeave(c) \/ Lend(c)
    PROVE  Quiet(c)
<1>1. /\ DOMAIN pc = Calls /\ DOMAIN mem = Calls /\ DOMAIN answer = Calls
      /\ {"users", "businesses"} \subseteq DOMAIN db
    BY DEF Inv, Rowwise, Shape
<1> USE <1>1, ElsewhereIsQuiet
        DEF At, Goes, Reads, Writes, Skips, Ends, Answers, WritesAndAnswers, Loads, Handle, Put,
            Same, Watched, RegisterLabels, Registering, InviteLabels, LoginLabels, UserSaves,
            BusinessSaves
<1>2. CASE Hire(c)
    BY <1>2 DEF Hire,
        HandleCreateEmployee, HandleImport, Importing, HireFindsCadre, HireChecksEmail,
        HireVerifiesAccount, HireInserts, InsertEmployee, RowEnds
<1>3. CASE Employ(c)
    BY <1>3 DEF Employ,
        HandleUpdateEmployee, HandleUpdateBankDetails, UpdateFindsEmployee,
        UpdateFindsCadre, UpdateVerifiesAccount, UpdateSaves, SavesEmployee, HandleDeactivate,
        DeactivateFindsEmployee, DeactivateSaves, UpdateEmployee
<1>4. CASE Structure(c)
    BY <1>4 DEF Structure,
        HandleCreateCadre, CreateCadreChecks, CreateCadreInserts, SavesNamed,
        HandleUpdateCadre, UpdateCadre, SaveCadre, HandleDeleteCadre, DeleteCadre,
        Delete, HandleCreateRule, CreateDeductionRule, HandleUpdateRule,
        UpdateDeductionRule, HandleDeleteRule, DeleteDeductionRule
<1>5. CASE TakeLeave(c)
    BY <1>5 DEF TakeLeave,
        HandleCreateLeaveType, CreateLeaveType, HandleSubmitLeave, SubmitFindsBalance,
        SubmitCreatesBalance, SubmitInserts, HandleApproveLeave, FindsPending,
        ApproveFindsLeave, ApproveChecksBalance, ApproveSaves, ApproveDeducts,
        HandleRejectLeave, RejectFindsLeave, RejectSaves
<1>6. CASE Lend(c)
    BY <1>6 DEF Lend,
        HandleCreateLoan, CreateLoan, HandleCancelLoan, CancelFindsLoan, CancelSavesLoan
<1> QED
    BY <1>2, <1>3, <1>4, <1>5, <1>6

LEMMA LookQuiet ==
    ASSUME Inv, NEW c \in Calls, req' = req, Look(c) \/ Calculate(c)
    PROVE  Quiet(c)
<1>1. /\ DOMAIN pc = Calls /\ DOMAIN mem = Calls /\ DOMAIN answer = Calls
      /\ {"users", "businesses"} \subseteq DOMAIN db
    BY DEF Inv, Rowwise, Shape
<1> USE <1>1, ElsewhereIsQuiet
        DEF At, Goes, Reads, Writes, Skips, Ends, Answers, WritesAndAnswers, Handle, Put,
            Same, Watched, RegisterLabels, Registering, InviteLabels, LoginLabels, UserSaves,
            BusinessSaves
<1>2. CASE Look(c)
    BY <1>2 DEF Look,
        GetEmployeeByID, ListEmployees, GetCadreByID, ListAllCadres, ListDeductionRules,
        ListLoans, ListLeaveTypes, ListLeaveRequests, GetLeaveBalances, GetProfile,
        GetSettings, GetPlans, GetSubscription, ListInvoices, ListPayrollRuns, GetStats,
        ListOrganizations, HandlePAYEReport, HandlePensionSchedule, HandleNHFSchedule,
        HandleBankSchedule, HandlePayrollSummary, HandleAllPayslips, HandlePayslip,
        GetPayrollRunByID, GetPayrollStatus, GetPayslips, HandleDashboard,
        GetSummaryEmployees, CountsEmployees, GetSummaryRuns, GetSummaryEnds, Shows,
        Lookup, Report
<1>3. CASE Calculate(c)
    BY <1>3 DEF Calculate,
        HandleCalculate, CalculateResolves, Resolves, CalculateReadsBusiness,
        CalculateReadsEmployees, CalculateReadsCadres, CalculateReadsLoans, ReadsLoans,
        CreateAndStorePayrollRun
<1> QED
    BY <1>2, <1>3

AccountsQuietly(c) ==
    \/ HandleLogin(c) \/ Login(c) \/ HandleEmployeeLogin(c) \/ EmployeeLogin(c) \/
       CreateLoginLinksEmployee(c)
    \/ HandleAccept(c) \/ HandleForgot(c) \/ HandleReset(c) \/ HandleResend(c) \/
       HandleVerify(c) \/ HandleSettings(c) \/ HandleSuspend(c) \/ HandleActivate(c)
    \/ HandleSubscribe(c) \/ SubscribeFindsPlan(c) \/ AssignFreePlan(c) \/
       InitializeTransaction(c) \/ SubscribeCreates(c) \/ SubscribeInvoices(c) \/
       HandleCancelSubscription(c) \/ CancelFindsSubscription(c) \/ CancelSaves(c)

LEMMA AccountsQuiet ==
    ASSUME Inv, NEW c \in Calls, req' = req, AccountsQuietly(c)
    PROVE  Quiet(c)
<1>1. /\ DOMAIN pc = Calls /\ DOMAIN mem = Calls /\ DOMAIN answer = Calls
      /\ {"users", "businesses"} \subseteq DOMAIN db
    BY DEF Inv, Rowwise, Shape
<1> USE <1>1, ElsewhereIsQuiet
        DEF At, Goes, Reads, Writes, Skips, Ends, Answers, WritesAndAnswers, Handle, Put,
            Same, Watched, RegisterLabels, Registering, InviteLabels, LoginLabels, UserSaves,
            BusinessSaves
<1>2. CASE HandleLogin(c) \/ Login(c) \/ HandleEmployeeLogin(c) \/ EmployeeLogin(c) \/ CreateLoginLinksEmployee(c)
    BY <1>2 DEF
        HandleLogin, Login, HandleEmployeeLogin, EmployeeLogin,
        CreateLoginLinksEmployee, SavesEmployee, UpdateEmployee
<1>3. CASE HandleAccept(c) \/ HandleForgot(c) \/ HandleReset(c) \/ HandleResend(c) \/ HandleVerify(c) \/ HandleSettings(c) \/ HandleSuspend(c) \/ HandleActivate(c)
    BY <1>3 DEF
        HandleAccept, HandleForgot, HandleReset, HandleResend, HandleVerify,
        HandleSettings, HandleSuspend, HandleActivate
<1>4. CASE HandleSubscribe(c) \/ SubscribeFindsPlan(c) \/ AssignFreePlan(c) \/ InitializeTransaction(c) \/ SubscribeCreates(c) \/ SubscribeInvoices(c) \/ HandleCancelSubscription(c) \/ CancelFindsSubscription(c) \/ CancelSaves(c)
    BY <1>4 DEF Loads,
        HandleSubscribe, SubscribeFindsPlan, AssignFreePlan, InitializeTransaction,
        SubscribeCreates, SubscribeInvoices, HandleCancelSubscription,
        CancelFindsSubscription, CancelSaves
<1> QED
    BY <1>2, <1>3, <1>4 DEF AccountsQuietly

-----------------------------------------------------------------------------
(* Steps that read the row of a user or of a business *)

LEMMA SameKeeps ==
    ASSUME Inv, NEW c \in Calls, Moves(c), Same, Call(c)'
    PROVE  Inv' /\ Kept
<1>1. Steady({}) /\ Steady({c})
    BY SameIsSteady DEF Steady
<1>2. Kept /\ Rowwise'
    BY <1>1, SteadyKeeps
<1> QED
    BY <1>1, <1>2, OthersKeep DEF Inv

\* What a call that looks for a user or a business finds is what anybody sees, once it has no
\* open transaction.
LEMMA Found ==
    ASSUME NEW c \in Calls, c \notin open, NEW id
    PROVE  /\ FindByID(c, id) # Nothing => FindByID(c, id) \in Visible("users")
           /\ FindByEmail(c, id) # Nothing => FindByEmail(c, id) \in Visible("users")
           /\ FindByResetToken(c, id) # Nothing => FindByResetToken(c, id) \in Visible("users")
           /\ FindByInviteToken(c, id) # Nothing => FindByInviteToken(c, id) \in Visible("users")
           /\ FindByVerificationToken(c, id) # Nothing =>
                  FindByVerificationToken(c, id) \in Visible("users")
           /\ FindBusiness(c, id) # Nothing => FindBusiness(c, id) \in Visible("businesses")
<1>1. \A S : First(S) # Nothing => First(S) \in S
    BY DEF First
<1> QED
    BY <1>1 DEF FindByID, FindByEmail, FindByResetToken, FindByInviteToken,
        FindByVerificationToken, FindBusiness, Where, Sees, Visible

\* The labels of these steps.
Finds == {"accept", "forgot", "reset", "verify", "resend",
          "settings", "suspend", "activate", "subscribe.read", "cancel.read"}

LEMMA AtFinds ==
    ASSUME Inv, NEW c \in Calls, pc[c] \in Finds
    PROVE  /\ c \notin open
           /\ req[c].op # "invite"
           /\ req[c].op = "register" => pc[c] = "resend" /\ answer[c] = "ok"
           /\ req[c].op # "register" => db.businesses[c] = Nothing
BY DEF Inv, Call, OwnPath, Registration, Finds, RegisterLabels, Registering, InviteLabels

LEMMA FindsAnswers ==
    ASSUME Inv, NEW c \in Calls, NEW r, req' = req, pc[c] \in Finds, Answers(c, r)
    PROVE  Inv' /\ Kept
<1>1. Moves(c) /\ Same /\ pc'[c] = "done" /\ (answer[c] = "ok" => answer'[c] = "ok")
      /\ db' = db
    BY OfficeAssumption DEF Answers, Ends, Goes, Moves, Same, Inv, Rowwise, Shape
<1>2. Call(c)'
    BY <1>1, AtFinds DEF Call, OwnPath, Registration, Invitation, Memory, RegisterLabels, Registering,
        InviteLabels, LoginLabels, UserSaves, BusinessSaves, Moves, Same, Inv, Visible, HasUser
<1> QED
    BY <1>1, <1>2, SameKeeps

LEMMA LoadsUser ==
    ASSUME Inv, NEW c \in Calls, NEW STATE id, NEW r, NEW label \in UserSaves, req' = req,
           pc[c] \in Finds, pc[c] = "resend" => label = "resend.save",
           id # Nothing => id \in Visible("users"),
           Loads(c, "users", id, label, r)
    PROVE  Inv' /\ Kept
<1>1. CASE id = Nothing
    BY <1>1, FindsAnswers DEF Loads
<1>2. CASE id # Nothing
    <2>1. /\ Moves(c) /\ Same /\ pc'[c] = label /\ answer' = answer /\ db' = db
          /\ mem'[c] = [id |-> id, row |-> db.users[id]]
        BY <1>2 DEF Loads, Reads, Goes, Moves, Same, Inv, Rowwise, Shape
    <2>2. DOMAIN db.users[id] = UserColumns
        BY <1>2 DEF Visible, Inv, Rowwise, UserRows
    <2>3. Memory(c)'
        BY <1>2, <2>1, <2>2 DEF Memory, UserSaves, BusinessSaves, Visible, Same
    <2>4. Call(c)'
        BY <2>1, <2>3, AtFinds DEF Call, OwnPath, Registration, Invitation, RegisterLabels,
            Registering, InviteLabels, LoginLabels, UserSaves, Moves, Same, Inv, Visible, HasUser
    <2> QED
        BY <2>1, <2>4, SameKeeps
<1> QED
    BY <1>1, <1>2

LEMMA LoadsBusiness ==
    ASSUME Inv, NEW c \in Calls, NEW STATE id, NEW r, NEW label \in BusinessSaves, req' = req,
           pc[c] \in Finds \ {"resend"},
           id # Nothing => id \in Visible("businesses"),
           Loads(c, "businesses", id, label, r)
    PROVE  Inv' /\ Kept
<1>1. CASE id = Nothing
    BY <1>1, FindsAnswers DEF Loads
<1>2. CASE id # Nothing
    <2>1. /\ Moves(c) /\ Same /\ pc'[c] = label /\ answer' = answer /\ db' = db
          /\ mem'[c] = [id |-> id, row |-> db.businesses[id]]
        BY <1>2 DEF Loads, Reads, Goes, Moves, Same, Inv, Rowwise, Shape
    <2>2. /\ DOMAIN db.businesses[id] = BusinessColumns
          /\ id \in Calls => db.businesses[id].admin = id
        BY <1>2 DEF Visible, Inv, Rowwise, BusinessRows
    <2>3. Memory(c)'
        BY <1>2, <2>1, <2>2 DEF Memory, UserSaves, BusinessSaves, Visible, Same
    <2>4. Call(c)'
        BY <2>1, <2>3, AtFinds DEF Call, OwnPath, Registration, Invitation, RegisterLabels,
            Registering, InviteLabels, LoginLabels, BusinessSaves, Moves, Same, Inv, Visible, HasUser
    <2> QED
        BY <2>1, <2>4, SameKeeps
<1> QED
    BY <1>1, <1>2

Rereads(c) ==
    \/ AcceptFindsUser(c) \/ ForgotFindsUser(c) \/ ResetFindsUser(c) \/ ResendFindsUser(c)
    \/ VerifyFindsUser(c) \/ SettingsRead(c) \/ SuspendReads(c) \/ ActivateReads(c)
    \/ SubscribeReads(c) \/ CancelReads(c)

LEMMA RereadsKeep ==
    ASSUME Inv, NEW c \in Calls, req' = req, Rereads(c)
    PROVE  Inv' /\ Kept
<1>1. ASSUME pc[c] \in Finds PROVE c \notin open
    BY <1>1, AtFinds
<1> USE AtFinds DEF At, Finds, UserSaves, BusinessSaves
<1>2. CASE AcceptFindsUser(c)
    BY <1>1, <1>2, Found, LoadsUser, FindsAnswers DEF AcceptFindsUser
<1>3. CASE ForgotFindsUser(c)
    BY <1>1, <1>3, Found, LoadsUser DEF ForgotFindsUser
<1>4. CASE ResetFindsUser(c)
    BY <1>1, <1>4, Found, LoadsUser, FindsAnswers DEF ResetFindsUser
<1>5. CASE ResendFindsUser(c)
    BY <1>1, <1>5, Found, LoadsUser, FindsAnswers DEF ResendFindsUser
<1>6. CASE VerifyFindsUser(c)
    BY <1>1, <1>6, Found, LoadsUser, FindsAnswers DEF VerifyFindsUser
<1>7. CASE SettingsRead(c) \/ SuspendReads(c) \/ ActivateReads(c) \/ SubscribeReads(c)
               \/ CancelReads(c)
    BY <1>1, <1>7, Found, LoadsBusiness DEF SettingsRead, SuspendReads, ActivateReads,
        SubscribeReads, CancelReads, ReadsBusiness
<1> QED
    BY <1>2, <1>3, <1>4, <1>5, <1>6, <1>7 DEF Rereads

-----------------------------------------------------------------------------
(* Steps that write back a row *)

LEMMA SteadyEnd ==
    ASSUME Inv, NEW c \in Calls, req' = req, pc[c] \in UserSaves \cup BusinessSaves,
           Steady({}), Ends(c, "ok")
    PROVE  Inv' /\ Kept
<1>1. /\ Moves(c) /\ pc'[c] = "done"
      /\ req[c].op # "invite"
      /\ req[c].op = "register" => answer[c] = "ok" /\ answer'[c] = "ok"
      /\ c \notin open /\ open' = open
    BY OfficeAssumption DEF Inv, Rowwise, Shape, Ends, Goes, Moves, Call, OwnPath, Registration, Steady,
        RegisterLabels, Registering, InviteLabels, UserSaves, BusinessSaves
<1>2. Kept /\ Rowwise'
    BY <1>1, SteadyKeeps
<1>3. Steady({c})
    BY DEF Steady
<1>4. db.businesses[c] = Nothing => db'.businesses[c] = Nothing
    BY DEF Steady, Inv, Rowwise, Shape
<1>5. HasUser(c) => HasUser(c)'
    BY <1>1 DEF Steady, Inv, Rowwise, Shape, HasUser, Moves
<1>6. Call(c)'
    BY <1>1, <1>2, <1>4, <1>5 DEF Call, OwnPath, Registration, Invitation, Memory, RegisterLabels,
        Registering, InviteLabels, LoginLabels, UserSaves, BusinessSaves, Moves, Inv, Kept
<1> QED
    BY <1>1, <1>2, <1>3, <1>6, OthersKeep DEF Inv

LEMMA SavesUser ==
    ASSUME Inv, NEW c \in Calls, NEW STATE user, req' = req, pc[c] \in UserSaves,
           DOMAIN user = UserColumns, user.business = mem[c].row.business,
           user.email = mem[c].row.email,
           WritesAndAnswers(c, UpdateUser(mem[c].id, user), "ok")
    PROVE  Inv' /\ Kept
<1> DEFINE id == mem[c].id
           new == Updates(db.users[id], UserFromDomain(user))
<1>1. /\ id \in Visible("users")
      /\ user.business = db.users[id].business /\ user.email = db.users[id].email
    BY DEF Inv, Call, Memory
<1>2. db.users[id] # Nothing /\ DOMAIN db.users[id] = UserColumns /\ id \in DOMAIN db.users
    BY <1>1 DEF Visible, Inv, Rowwise, UserRows
<1>3. /\ DOMAIN new = UserColumns /\ new # Nothing
      /\ new.business = db.users[id].business /\ new.email = db.users[id].email
      /\ db.users[id].on \subseteq new.on
    BY <1>1, <1>2 DEF Updates, UserFromDomain, UserColumns, Inv, Rowwise, Shape, NullIsNoRow
<1>4. open' = open /\ db' = [db EXCEPT !["users"][id] = new]
    BY DEF WritesAndAnswers, UpdateUser, Put
<1> HIDE DEF id, new
<1>5. Steady({})
    BY <1>2, <1>3, <1>4 DEF Steady, Inv, Rowwise, Shape, UserRows, BusinessRows
<1> QED
    BY <1>5, SteadyEnd DEF WritesAndAnswers

LEMMA SavesBusiness ==
    ASSUME Inv, NEW c \in Calls, NEW STATE business, req' = req, pc[c] \in BusinessSaves,
           DOMAIN business = BusinessColumns, business.admin = mem[c].row.admin,
           WritesAndAnswers(c, UpdateBusiness(mem[c].id, business), "ok")
    PROVE  Inv' /\ Kept
<1> DEFINE id == mem[c].id
           new == Updates(db.businesses[id], business)
<1>1. /\ id \in Visible("businesses")
      /\ id \in Calls => business.admin = id
    BY DEF Inv, Call, Memory
<1>2. /\ db.businesses[id] # Nothing /\ DOMAIN db.businesses[id] = BusinessColumns
      /\ id \in DOMAIN db.businesses
    BY <1>1 DEF Visible, Inv, Rowwise, BusinessRows
<1>3. DOMAIN new = BusinessColumns /\ new # Nothing /\ (id \in Calls => new.admin = id)
    BY <1>1, <1>2, OfficeAssumption
        DEF Updates, BusinessColumns, Inv, Rowwise, Shape, NullIsNoRow
<1>4. open' = open /\ db' = [db EXCEPT !["businesses"][id] = new]
    BY DEF WritesAndAnswers, UpdateBusiness, Put
<1> HIDE DEF id, new
<1>5. Steady({})
    BY <1>2, <1>3, <1>4 DEF Steady, Inv, Rowwise, Shape, UserRows, BusinessRows
<1> QED
    BY <1>5, SteadyEnd DEF WritesAndAnswers

WritesBack(c) ==
    \/ AcceptSavesPassword(c) \/ ForgotSavesToken(c) \/ ResetSavesPassword(c)
    \/ ResendSavesToken(c) \/ VerifySavesUser(c) \/ SettingsSave(c)
    \/ SuspendOrganization(c) \/ ActivateOrganization(c) \/ SubscribeSaves(c)
    \/ CancelDowngrades(c)

LEMMA WritesBackKeeps ==
    ASSUME Inv, NEW c \in Calls, req' = req, WritesBack(c)
    PROVE  Inv' /\ Kept
<1>1. /\ pc[c] \in UserSaves => DOMAIN mem[c].row = UserColumns
      /\ pc[c] \in BusinessSaves => DOMAIN mem[c].row = BusinessColumns
    BY DEF Inv, Call, Memory
<1>2. CASE \/ AcceptSavesPassword(c) \/ ForgotSavesToken(c) \/ ResetSavesPassword(c)
           \/ ResendSavesToken(c) \/ VerifySavesUser(c)
    BY <1>1, <1>2, SavesUser DEF AcceptSavesPassword, ForgotSavesToken, ResetSavesPassword,
        ResendSavesToken, VerifySavesUser, At, UserSaves, UserColumns
<1>3. CASE \/ SettingsSave(c) \/ SuspendOrganization(c) \/ ActivateOrganization(c)
           \/ SubscribeSaves(c) \/ CancelDowngrades(c)
    BY <1>1, <1>3, SavesBusiness DEF SettingsSave, SuspendOrganization, ActivateOrganization,
        SubscribeSaves, CancelDowngrades, At, BusinessSaves, BusinessColumns
<1> QED
    BY <1>2, <1>3 DEF WritesBack

-----------------------------------------------------------------------------
(* Steps that roll back *)

\* What the transactions of some calls leave behind.
Undone(calls) ==
    /\ {"users", "businesses"} \subseteq DOMAIN db'
    /\ \A table \in {"users", "businesses"} :
        /\ DOMAIN db'[table] = DOMAIN db[table]
        /\ \A id \in DOMAIN db[table] :
            db'[table][id] = IF id \in calls \cap open THEN Nothing ELSE db[table][id]
    /\ open' = open \ calls

LEMMA RollbackUndoes ==
    ASSUME Inv, NEW calls, db' = RolledBack(calls), open' = open \ calls
    PROVE  Undone(calls)
BY DEF Undone, RolledBack, Inv, Rowwise, Shape

LEMMA UndoneKeeps ==
    ASSUME Inv, NEW calls, Undone(calls), req' = req,
           DOMAIN pc' = Calls, DOMAIN mem' = Calls, DOMAIN answer' = Calls
    PROVE  Kept /\ Rowwise'
<1> USE DEF Inv, Rowwise
<1>1. /\ DOMAIN db'.users = DOMAIN db.users
      /\ \A u \in DOMAIN db.users :
             db'.users[u] = IF u \in calls \cap open THEN Nothing ELSE db.users[u]
    BY DEF Undone
<1>2. /\ DOMAIN db'.businesses = DOMAIN db.businesses
      /\ \A b \in DOMAIN db.businesses :
             db'.businesses[b] = IF b \in calls \cap open THEN Nothing ELSE db.businesses[b]
    BY DEF Undone
<1>3. /\ Visible("users")' = Visible("users")
      /\ Visible("businesses")' = Visible("businesses")
    BY <1>1, <1>2 DEF Visible, Undone
<1>4. Kept
    BY <1>1, <1>3 DEF Kept, Visible
<1>5. Shape'
    BY <1>1, <1>2, <1>3 DEF Shape, Undone
<1>6. UserRows'
    BY <1>1, <1>3 DEF UserRows, Undone
<1>7. EmailsDiffer'
    BY <1>1 DEF EmailsDiffer
<1>8. BusinessRows'
    BY <1>2, <1>3 DEF BusinessRows, Undone
<1> QED
    BY <1>4, <1>5, <1>6, <1>7, <1>8

\* A call that ends with its transaction.
LEMMA UndoneCall ==
    ASSUME Inv, NEW c \in Calls, NEW calls, Undone(calls), Kept, req' = req,
           c \in open => c \in calls, pc'[c] = "done",
           answer'[c] = "ok" => answer[c] = "ok" \/ req[c].op \notin {"register", "invite"}
    PROVE  Call(c)'
<1>1. c \notin open' /\ (db.businesses[c] = Nothing => db'.businesses[c] = Nothing)
    BY DEF Undone, Inv, Rowwise, Shape
<1>2. ASSUME req[c].op \in {"register", "invite"}, answer[c] = "ok"
      PROVE  /\ c \notin open /\ HasUser(c)
             /\ req[c].op = "register" => c \in Visible("businesses")
    BY <1>2 DEF Inv, Call, Registration, Invitation, OwnPath, RegisterLabels, Registering,
        InviteLabels
<1>3. ASSUME c \notin open, HasUser(c)
      PROVE  HasUser(c)'
    BY <1>3 DEF Undone, HasUser, Inv, Rowwise, Shape
<1> QED
    BY <1>1, <1>2, <1>3 DEF Call, OwnPath, Registration, Invitation, Memory, RegisterLabels,
        Registering, InviteLabels, LoginLabels, UserSaves, BusinessSaves, Inv, Kept

LEMMA FailsKeeps ==
    ASSUME Inv, NEW c \in Calls, NEW r, req' = req, Fails(c, r),
           r = "ok" => req[c].op \notin {"register", "invite"}
    PROVE  Inv' /\ Kept
<1>1. /\ Moves(c) /\ pc'[c] = "done"
      /\ answer'[c] = "ok" => answer[c] = "ok" \/ req[c].op \notin {"register", "invite"}
    BY DEF Fails, Ends, Goes, Moves, Inv, Rowwise, Shape
<1>2. Undone({c})
    BY RollbackUndoes DEF Fails
<1>3. Kept /\ Rowwise'
    BY <1>1, <1>2, UndoneKeeps DEF Moves
<1>4. Call(c)'
    BY <1>1, <1>2, <1>3, UndoneCall DEF Moves
<1>5. Steady({c})
    <2>1. /\ DOMAIN db'.users = DOMAIN db.users
          /\ \A u \in DOMAIN db.users \ {c} : db'.users[u] = db.users[u]
        BY <1>2 DEF Undone
    <2>2. /\ DOMAIN db'.businesses = DOMAIN db.businesses
          /\ \A b \in DOMAIN db.businesses \ {c} : db'.businesses[b] = db.businesses[b]
        BY <1>2 DEF Undone
    <2> QED
        BY <1>2, <2>1, <2>2 DEF Steady, Undone, Inv, Rowwise, UserRows, BusinessRows
<1> QED
    BY <1>1, <1>3, <1>4, <1>5, OthersKeep DEF Inv

LEMMA CrashKeeps ==
    ASSUME Inv, req' = req, Crash
    PROVE  Inv' /\ Kept
<1>1. Undone(open)
    BY RollbackUndoes DEF Crash
<1>2. DOMAIN pc' = Calls /\ DOMAIN mem' = Calls /\ DOMAIN answer' = Calls
    BY DEF Crash, Inv, Rowwise, Shape
<1>3. Kept /\ Rowwise'
    BY <1>1, <1>2, UndoneKeeps
<1>4. ASSUME NEW c \in Calls
      PROVE  Call(c)'
    <2>1. CASE c \in InProgress
        <3>1. pc'[c] = "done" /\ (answer'[c] = "ok" => answer[c] = "ok")
            BY <2>1 DEF Crash
        <3> QED
            BY <1>1, <1>3, <3>1, UndoneCall
    <2>2. CASE pc[c] = "done"
        <3>1. pc'[c] = "done" /\ answer'[c] = answer[c]
            BY <2>2 DEF Crash, InProgress
        <3> QED
            BY <1>1, <1>3, <3>1, UndoneCall
    <2>3. CASE pc[c] = "received"
        <3>1. pc'[c] = "received" /\ answer'[c] = answer[c] /\ open' = {} /\ c \notin open
            BY <2>3 DEF Crash, InProgress, Inv, Call, Registration, Registering
        <3>2. db'.businesses[c] = db.businesses[c] /\ db'.users[c] = db.users[c]
            BY <1>1, <3>1 DEF Undone, Inv, Rowwise, Shape
        <3> QED
            BY <2>3, <3>1, <3>2 DEF Inv, Call, OwnPath, Registration, Invitation, Memory,
                RegisterLabels, Registering, InviteLabels, LoginLabels, UserSaves,
                BusinessSaves, HasUser
    <2> QED
        BY <2>1, <2>2, <2>3 DEF InProgress
<1> QED
    BY <1>3, <1>4 DEF Inv

-----------------------------------------------------------------------------
(* Registrations, invitations and logins of employees *)

LEMMA SteadyStep ==
    ASSUME Inv, NEW c \in Calls, Moves(c), Steady({}), Call(c)'
    PROVE  Inv' /\ Kept
<1>1. Steady({c})
    BY DEF Steady
<1>2. Kept /\ Rowwise'
    BY SteadyKeeps
<1> QED
    BY <1>1, <1>2, OthersKeep DEF Inv

\* The unique index keeps e-mail addresses apart, also those of open transactions.
Distinct(c, email) ==
    \A u \in DOMAIN db.users : u # c /\ db.users[u] # Nothing => db.users[u].email # email

LEMMA InsertDiffers ==
    ASSUME Inv, NEW c \in Calls
    PROVE  \A email : ~EmailPending(c, email) /\ ~EmailTaken(c, email) => Distinct(c, email)
<1> SUFFICES ASSUME NEW email, ~EmailPending(c, email), ~EmailTaken(c, email),
                    NEW u \in DOMAIN db.users, u # c, db.users[u] # Nothing
             PROVE  db.users[u].email # email
    BY DEF Distinct
<1>1. CASE u \in open
    BY <1>1 DEF EmailPending
<1>2. CASE u \notin open
    <2>1. \A S : Nothing \notin S /\ First(S) = Nothing => S = {}
        BY DEF First
    <2>2. {id \in DOMAIN db.users : Sees(c, "users", id) /\ db.users[id].email = email} = {}
        BY <2>1 DEF EmailTaken, FindByEmail, Where, Inv, Rowwise, Shape
    <2>3. Sees(c, "users", u)
        BY <1>2 DEF Sees
    <2> QED
        BY <2>2, <2>3
<1> QED
    BY <1>1, <1>2

\* A user with the call's name, and nothing else, is in the tables now.
Inserted(c) ==
    /\ Moves(c) /\ open' = open
    /\ {"users", "businesses"} \subseteq DOMAIN db'
    /\ DOMAIN db'.users = DOMAIN db.users
    /\ \A u \in DOMAIN db.users \ {c} : db'.users[u] = db.users[u]
    /\ db'.businesses = db.businesses
    /\ DOMAIN db'.users[c] = UserColumns /\ db'.users[c] # Nothing
    /\ Distinct(c, db'.users[c].email)

\* Where the others see the user, they see its business.
BelongsSomewhere(c) ==
    \/ c \in open
    \/ db.users[c] = Nothing /\ db'.users[c].business \in Visible("businesses")

LEMMA InsertedKeeps ==
    ASSUME Inv, NEW c \in Calls, Inserted(c),
           BelongsSomewhere(c), Call(c)'
    PROVE  Inv' /\ Kept
<1> USE DEF Inserted, BelongsSomewhere
<1>1. Visible("businesses")' = Visible("businesses") /\ Visible("users") \ {c} \subseteq Visible("users")'
    BY DEF Visible
<1>2. Kept
    BY <1>1 DEF Kept, Visible
<1>3. Steady({c})
    BY DEF Steady, Inv, Rowwise, UserRows, BusinessRows
<1>4. Shape'
    BY <1>1 DEF Shape, Inv, Rowwise, Moves
<1>5. UserRows'
    BY <1>1 DEF UserRows, Inv, Rowwise
<1>6. EmailsDiffer'
    BY DEF EmailsDiffer, Distinct, Inv, Rowwise
<1>7. BusinessRows'
    BY <1>2 DEF BusinessRows, Kept, Inv, Rowwise
<1> QED
    BY <1>2, <1>3, <1>4, <1>5, <1>6, <1>7, OthersKeep DEF Inv, Rowwise

\* What an insertion that goes through does.
Inserts(c, user, to) ==
    /\ db' = [db EXCEPT !["users"][c] = UserFromDomain(user)]
    /\ ~EmailPending(c, user.email) /\ ~EmailTaken(c, user.email)
    /\ pc' = [pc EXCEPT ![c] = to]
    /\ UNCHANGED <<open, mem, answer>>

LEMMA RegisterInserts ==
    ASSUME Inv, NEW c \in Calls, req' = req, RegisterCreatesAdmin(c)
    PROVE  Inv' /\ Kept
<1>1. pc[c] = "register.user" /\ req[c].op = "register" /\ c \in open
    BY DEF RegisterCreatesAdmin, InsertUser, At, Inv, Call, OwnPath, Registration, RegisterLabels,
        Registering
<1>2. Fails(c, "conflict") \/ Inserts(c, Admin(c), "register.link")
    BY DEF RegisterCreatesAdmin, InsertUser, Inserts, Writes, Goes, Put
<1>3. CASE Fails(c, "conflict")
    BY <1>3, FailsKeeps
<1>4. CASE Inserts(c, Admin(c), "register.link")
    <2>1. Inserted(c) /\ db'.users[c].business = c /\ db'.users[c].email = req[c].email
        <3>1. Admin(c).email = req[c].email /\ Admin(c).business = c
              /\ {"business", "email"} \subseteq DOMAIN Admin(c)
            BY DEF Admin
        <3>2. DOMAIN UserFromDomain(Admin(c)) = UserColumns /\ UserFromDomain(Admin(c)) # Nothing
              /\ UserFromDomain(Admin(c)).business = c
              /\ UserFromDomain(Admin(c)).email = req[c].email
            BY <3>1 DEF UserFromDomain, UserColumns, Inv, Rowwise, Shape, NullIsNoRow
        <3>3. Distinct(c, req[c].email)
            BY <1>4, <3>1, InsertDiffers DEF Inserts
        <3> QED
            BY <1>4, <3>2, <3>3 DEF Inserts, Inserted, Moves, Inv, Rowwise, Shape
    <2>2. /\ open' = open /\ answer' = answer /\ pc'[c] = "register.link"
          /\ db'.businesses[c] = db.businesses[c] /\ db'.users[c] # Nothing
        BY <1>4, <2>1 DEF Inserts, Inserted, Inv, Rowwise, Shape
    <2>3. Call(c)'
        BY <1>1, <2>1, <2>2 DEF Call, OwnPath, Registration, Invitation, Memory, HasUser, Inv,
            RegisterLabels, Registering, InviteLabels, LoginLabels, UserSaves, BusinessSaves
    <2>4. BelongsSomewhere(c)
        BY <1>1 DEF BelongsSomewhere
    <2> QED
        BY <2>1, <2>3, <2>4, InsertedKeeps
<1> QED
    BY <1>2, <1>3, <1>4

\* The statements of an open registration that change its business at most.
LEMMA RegisterGoesOn ==
    ASSUME Inv, NEW c \in Calls, req' = req,
           \/ RegisterLinksAdmin(c) \/ RegisterCreatesCadre(c) \/ RegisterAssignsPlan(c)
           \/ RegisterAborts(c)
           \/ RegisterOpensAccount(c) /\ pc'[c] = "register.commit"
    PROVE  Inv' /\ Kept
<1> DEFINE B == db.businesses[c]
<1>1. /\ pc[c] \in {"register.link", "register.cadre", "register.plan", "register.vfd"}
      /\ req[c].op = "register" /\ c \in open /\ B # Nothing /\ DOMAIN B = BusinessColumns
    BY DEF RegisterLinksAdmin, RegisterCreatesCadre, RegisterAssignsPlan, RegisterAborts,
        RegisterOpensAccount, At, Inv, Call, OwnPath, Registration, RegisterLabels, Registering,
        Rowwise, Shape, BusinessRows
<1>2. /\ Moves(c) /\ open' = open /\ answer' = answer
      /\ pc'[c] \in Registering \ {"register.user", "register.link"}
    BY <1>1 DEF RegisterLinksAdmin, RegisterCreatesCadre, RegisterAssignsPlan, RegisterAborts,
        RegisterOpensAccount, Writes, Skips, Fails, Ends, Goes, At, Moves, Registering, Inv, Rowwise,
        Shape
<1>3. \/ Same /\ pc[c] # "register.link"
      \/ db' = Linked(c)
      \/ /\ pc[c] # "register.link"
         /\ db' = UpdateBusiness(c, [B EXCEPT !.on = @ \cup {"vfd"}])
    BY <1>1, <1>2 DEF RegisterLinksAdmin, RegisterCreatesCadre, RegisterAssignsPlan, RegisterAborts,
        RegisterOpensAccount, Writes, Skips, Same, Put, At, Fails, Ends, Goes, Inv, Rowwise, Shape
<1>4. ASSUME NEW STATE new, DOMAIN new = BusinessColumns, new.admin = c,
             db' = UpdateBusiness(c, new)
      PROVE  /\ Steady({}) /\ db'.users[c] = db.users[c]
             /\ db'.businesses[c] # Nothing /\ db'.businesses[c].admin = c
    <2> DEFINE row == Updates(B, new)
    <2>1. DOMAIN row = BusinessColumns /\ row # Nothing /\ row.admin = c
        BY <1>1, <1>4, OfficeAssumption
            DEF Updates, BusinessColumns, Inv, Rowwise, Shape, NullIsNoRow
    <2>2. db' = [db EXCEPT !["businesses"][c] = row]
        BY <1>4 DEF UpdateBusiness, Put
    <2> HIDE DEF row
    <2>3. db'.users = db.users /\ db'.businesses = [db.businesses EXCEPT ![c] = row]
          /\ {"users", "businesses"} \subseteq DOMAIN db'
        BY <2>2 DEF Inv, Rowwise, Shape
    <2>4. c \in DOMAIN db.businesses
        BY DEF Inv, Rowwise, Shape
    <2>5. Steady({})
        BY <1>1, <1>2, <2>1, <2>3, <2>4 DEF Steady, Inv, Rowwise, UserRows, BusinessRows
    <2> QED
        BY <2>1, <2>3, <2>4, <2>5
<1>5. pc[c] # "register.link" => B.admin = c
    BY <1>1 DEF Inv, Call, Registration, Registering
<1>6. Steady({}) /\ db'.users[c] = db.users[c]
          /\ db'.businesses[c] # Nothing /\ db'.businesses[c].admin = c
    <2>1. CASE Same /\ pc[c] # "register.link"
        BY <1>1, <1>5, <2>1, SameIsSteady DEF Same, Inv, Rowwise, Shape
    <2>2. CASE db' = Linked(c)
        <3>1. DOMAIN [B EXCEPT !.admin = c] = BusinessColumns /\ [B EXCEPT !.admin = c].admin = c
            BY <1>1 DEF BusinessColumns
        <3> QED
            BY <1>4, <2>2, <3>1 DEF Linked
    <2>3. CASE /\ pc[c] # "register.link"
               /\ db' = UpdateBusiness(c, [B EXCEPT !.on = @ \cup {"vfd"}])
        <3>1. /\ DOMAIN [B EXCEPT !.on = @ \cup {"vfd"}] = BusinessColumns
              /\ [B EXCEPT !.on = @ \cup {"vfd"}].admin = c
            BY <1>1, <1>5, <2>3 DEF BusinessColumns
        <3> QED
            BY <1>4, <2>3, <3>1
    <2> QED
        BY <1>3, <2>1, <2>2, <2>3
<1>7. Call(c)'
    BY <1>1, <1>2, <1>6 DEF Call, OwnPath, Registration, Invitation, Memory, HasUser, Inv, Moves,
        RegisterLabels, Registering, InviteLabels, LoginLabels, UserSaves, BusinessSaves
<1> QED
    BY <1>2, <1>6, <1>7, SteadyStep

LEMMA RegisterStarts ==
    ASSUME Inv, NEW c \in Calls, req' = req, HandleRegister(c)
    PROVE  Inv' /\ Kept
<1>1. pc[c] = "received" /\ req[c].op = "register"
    BY DEF HandleRegister, Handle, At
<1>2. /\ Moves(c) /\ Same /\ answer'[c] \in {"forbidden", "invalid", answer[c]}
      /\ pc'[c] \in {"register", "done"}
    BY DEF HandleRegister, Handle, At, Answers, Skips, Writes, Ends, Goes, Moves, Same, Inv,
        Rowwise, Shape
<1>3. Steady({})
    BY <1>2, SameIsSteady
<1>4. Call(c)'
    BY <1>1, <1>2 DEF Same, Call, OwnPath, Registration, Invitation, Memory, Inv, Moves,
        RegisterLabels, Registering, InviteLabels, LoginLabels, UserSaves, BusinessSaves, Rowwise,
        Shape
<1> QED
    BY <1>2, <1>3, <1>4, SteadyStep

LEMMA RegisterOpens ==
    ASSUME Inv, NEW c \in Calls, req' = req, RegisterCreatesBusiness(c)
    PROVE  Inv' /\ Kept
<1>1. /\ pc[c] = "register" /\ req[c].op = "register" /\ c \notin open
      /\ db.businesses[c] = Nothing /\ db.users[c] = Nothing /\ answer[c] # "ok"
    BY DEF RegisterCreatesBusiness, At, Inv, Call, OwnPath, Registration, RegisterLabels,
        Registering
<1>2. /\ open' = open \cup {c} /\ db' = [db EXCEPT !["businesses"][c] = NewBusiness]
      /\ Moves(c) /\ pc'[c] = "register.user" /\ answer' = answer
    BY DEF RegisterCreatesBusiness, Put, Goes, Moves, Inv, Rowwise, Shape
<1>3. DOMAIN NewBusiness = BusinessColumns /\ NewBusiness # Nothing
    BY DEF NewBusiness, BusinessColumns, Inv, Rowwise, Shape, NullIsNoRow
<1>4. /\ DOMAIN db'.businesses = DOMAIN db.businesses /\ db'.businesses[c] = NewBusiness
      /\ \A b \in DOMAIN db.businesses \ {c} : db'.businesses[b] = db.businesses[b]
      /\ db'.users = db.users /\ {"users", "businesses"} \subseteq DOMAIN db'
    BY <1>2 DEF Inv, Rowwise, Shape
<1>5. /\ Visible("users")' = Visible("users")
      /\ Visible("businesses")' = Visible("businesses")
    BY <1>1, <1>2, <1>4 DEF Visible, Inv, Rowwise, Shape
<1>6. Kept
    BY <1>4, <1>5 DEF Kept, Visible
<1>7. Steady({c})
    BY <1>2, <1>4 DEF Steady, Inv, Rowwise, UserRows, BusinessRows
<1>8. Shape' /\ UserRows' /\ EmailsDiffer'
    BY <1>2, <1>4, <1>5 DEF Shape, UserRows, EmailsDiffer, Inv, Rowwise, Moves
<1>9. BusinessRows'
    BY <1>2, <1>3, <1>4, <1>5 DEF BusinessRows, Inv, Rowwise
<1>10. Call(c)'
    BY <1>1, <1>2, <1>3, <1>4 DEF Call, OwnPath, Registration, Invitation, Memory, Inv, Moves,
        RegisterLabels, Registering, InviteLabels, LoginLabels, UserSaves, BusinessSaves
<1> QED
    BY <1>2, <1>6, <1>7, <1>8, <1>9, <1>10, OthersKeep DEF Inv, Rowwise

LEMMA RegisterEnds ==
    ASSUME Inv, NEW c \in Calls, req' = req, RegisterCommits(c)
    PROVE  Inv' /\ Kept
<1>1. CASE Fails(c, "error")
    BY <1>1, FailsKeeps
<1>2. CASE ~Fails(c, "error")
    <2>1. /\ pc[c] = "register.commit" /\ req[c].op = "register" /\ c \in open
          /\ HasUser(c) /\ db.users[c].business = c
          /\ db.businesses[c] # Nothing /\ db.businesses[c].admin = c
        BY <1>2 DEF RegisterCommits, At, Inv, Call, OwnPath, Registration, RegisterLabels,
            Registering
    <2>2. /\ open' = open \ {c} /\ db' = db /\ Moves(c)
          /\ pc'[c] = "resend" /\ answer'[c] = "ok"
        BY <1>2 DEF RegisterCommits, Goes, Moves, Inv, Rowwise, Shape
    <2>3. /\ Visible("users")' = Visible("users") \cup {c}
          /\ Visible("businesses")' = Visible("businesses") \cup {c}
        BY <2>1, <2>2 DEF Visible, HasUser, Inv, Rowwise, Shape
    <2>4. Kept
        BY <2>2, <2>3 DEF Kept
    <2>5. Steady({c})
        BY <2>2 DEF Steady, Inv, Rowwise, Shape, UserRows, BusinessRows
    <2>6. Shape' /\ EmailsDiffer'
        BY <2>2, <2>3 DEF Shape, EmailsDiffer, Inv, Rowwise, Moves
    <2>7. UserRows' /\ BusinessRows'
        BY <2>1, <2>2, <2>3 DEF UserRows, BusinessRows, Inv, Rowwise
    <2>8. Call(c)'
        BY <2>1, <2>2, <2>3 DEF Call, OwnPath, Registration, Invitation, Memory, HasUser, Inv,
            RegisterLabels, Registering, InviteLabels, LoginLabels, UserSaves, BusinessSaves
    <2> QED
        BY <2>2, <2>4, <2>5, <2>6, <2>7, <2>8, OthersKeep DEF Inv, Rowwise
<1> QED
    BY <1>1, <1>2

LEMMA RegisterKeeps ==
    ASSUME Inv, NEW c \in Calls, req' = req, Register(c) \/ RegisterAborts(c)
    PROVE  Inv' /\ Kept
<1>1. CASE RegisterOpensAccount(c)
    <2>1. Fails(c, "error") \/ pc'[c] = "register.commit"
        BY <1>1 DEF RegisterOpensAccount, Skips, Writes, Goes, Inv, Rowwise, Shape
    <2> QED
        BY <1>1, <2>1, FailsKeeps, RegisterGoesOn
<1>2. CASE \/ RegisterLinksAdmin(c) \/ RegisterCreatesCadre(c) \/ RegisterAssignsPlan(c)
           \/ RegisterAborts(c)
    BY <1>2, RegisterGoesOn
<1> QED
    BY <1>1, <1>2, RegisterStarts, RegisterOpens, RegisterInserts, RegisterEnds DEF Register

\* Steps of invitations and logins that leave the tables alone.
LEMMA InviteLooks ==
    ASSUME Inv, NEW c \in Calls, req' = req,
           \/ HandleInvite(c) \/ InviteLooksForUser(c) \/ InviteAnswers(c)
           \/ At(c, "invite") /\ Skips(c, "invite.create")
    PROVE  Inv' /\ Kept
<1>1. Moves(c) /\ Same /\ db' = db
    BY DEF HandleInvite, InviteLooksForUser, InviteAnswers, Handle, Answers, Skips, Writes, Ends,
        Goes, Moves, Same, Inv, Rowwise, Shape
<1>2. /\ req[c].op = "invite" /\ c \notin open /\ open' = open
      /\ \/ /\ pc[c] = "received" /\ pc'[c] = "invite" /\ answer' = answer
         \/ /\ pc[c] = "invite" /\ pc'[c] = "invite.create" /\ answer' = answer
         \/ /\ pc[c] \in {"received", "invite"} /\ pc'[c] = "done"
            /\ answer'[c] \in {"forbidden", "invalid", "conflict", answer[c]}
         \/ /\ pc[c] = "invite.sent" /\ pc'[c] = "done"
    BY DEF HandleInvite, InviteLooksForUser, InviteAnswers, Handle, Answers, Skips, Writes, Ends,
        Goes, At, Inv, Rowwise, Shape, Call, OwnPath, Registration, RegisterLabels, Registering,
        InviteLabels
<1>3. Call(c)'
    BY <1>1, <1>2 DEF Call, OwnPath, Registration, Invitation, Memory, HasUser, Inv, Moves,
        RegisterLabels, Registering, InviteLabels, LoginLabels, UserSaves, BusinessSaves
<1> QED
    BY <1>1, <1>3, SameKeeps

LEMMA CreateLoginLooks ==
    ASSUME Inv, NEW c \in Calls, req' = req, HandleCreateLogin(c) \/ CreateLoginFindsEmployee(c)
    PROVE  Inv' /\ Kept
<1>1. Moves(c) /\ Same /\ db' = db
    BY DEF HandleCreateLogin, CreateLoginFindsEmployee, Handle, Loads, Reads, Answers, Skips,
        Writes, Ends, Goes, Moves, Same, Inv, Rowwise, Shape
<1>2. /\ req[c].op = "create_login" /\ c \notin open /\ open' = open
      /\ pc[c] \in {"received", "create_login"}
      /\ pc'[c] \in {"create_login", "create_login.user", "done"}
    BY DEF HandleCreateLogin, CreateLoginFindsEmployee, Handle, Loads, Reads, Answers, Skips,
        Writes, Ends, Goes, At, Inv, Rowwise, Shape, Call, OwnPath, Registration, RegisterLabels,
        Registering, InviteLabels, LoginLabels
<1>3. Call(c)'
    BY <1>1, <1>2 DEF Call, OwnPath, Registration, Invitation, Memory, HasUser, Inv, Moves,
        RegisterLabels, Registering, InviteLabels, LoginLabels, UserSaves, BusinessSaves
<1> QED
    BY <1>1, <1>3, SameKeeps

\* The business of who invites or creates a login is there.
LEMMA InviteInserts ==
    ASSUME Inv, NEW c \in Calls, req' = req, InviteCreatesUser(c)
    PROVE  Inv' /\ Kept
<1>1. /\ pc[c] = "invite.create" /\ req[c].op = "invite" /\ c \notin open
      /\ db.users[c] = Nothing /\ db.businesses[c] = Nothing /\ answer[c] # "ok"
      /\ req[c].as.business \in Visible("businesses")
    BY OfficeAssumption DEF InviteCreatesUser, InsertUser, At, Inv, Rowwise, Shape, Call, OwnPath,
        Registration, Invitation, RegisterLabels, Registering, InviteLabels
<1>2. Fails(c, "conflict") \/ Inserts(c, Invited(c), "invite.sent")
    BY DEF InviteCreatesUser, InsertUser, Inserts, Writes, Goes, Put
<1>3. CASE Fails(c, "conflict")
    BY <1>3, FailsKeeps
<1>4. CASE Inserts(c, Invited(c), "invite.sent")
    <2>1. Inserted(c) /\ db'.users[c].business = req[c].as.business
          /\ db'.users[c].email = req[c].email
        <3>1. Invited(c).email = req[c].email /\ Invited(c).business = req[c].as.business
              /\ {"business", "email"} \subseteq DOMAIN Invited(c)
            BY DEF Invited
        <3>2. DOMAIN UserFromDomain(Invited(c)) = UserColumns /\ UserFromDomain(Invited(c)) # Nothing
              /\ UserFromDomain(Invited(c)).business = req[c].as.business
              /\ UserFromDomain(Invited(c)).email = req[c].email
            BY <3>1 DEF UserFromDomain, UserColumns, Inv, Rowwise, Shape, NullIsNoRow
        <3>3. Distinct(c, req[c].email)
            BY <1>4, <3>1, InsertDiffers DEF Inserts
        <3> QED
            BY <1>4, <3>2, <3>3 DEF Inserts, Inserted, Moves, Inv, Rowwise, Shape
    <2>2. /\ open' = open /\ answer' = answer /\ pc'[c] = "invite.sent"
          /\ db'.businesses[c] = db.businesses[c] /\ db'.users[c] # Nothing
        BY <1>4, <2>1 DEF Inserts, Inserted, Inv, Rowwise, Shape
    <2>3. Call(c)'
        BY <1>1, <2>1, <2>2 DEF Call, OwnPath, Registration, Invitation, Memory, HasUser, Inv,
            RegisterLabels, Registering, InviteLabels, LoginLabels, UserSaves, BusinessSaves
    <2>4. BelongsSomewhere(c)
        BY <1>1, <2>1 DEF BelongsSomewhere
    <2> QED
        BY <2>1, <2>3, <2>4, InsertedKeeps
<1> QED
    BY <1>2, <1>3, <1>4

LEMMA CreateLoginInserts ==
    ASSUME Inv, NEW c \in Calls, req' = req, CreateLoginCreatesUser(c)
    PROVE  Inv' /\ Kept
<1>1. /\ pc[c] = "create_login.user" /\ req[c].op = "create_login" /\ c \notin open
      /\ db.users[c] = Nothing /\ db.businesses[c] = Nothing
      /\ req[c].as.business \in Visible("businesses")
    BY OfficeAssumption DEF CreateLoginCreatesUser, At, Inv, Rowwise, Shape, Call, OwnPath,
        Registration, RegisterLabels, Registering, InviteLabels, LoginLabels
<1>2. Fails(c, "conflict") \/ Inserts(c, EmployeeUser(c), "create_login.link")
    BY DEF CreateLoginCreatesUser, InsertUser, Inserts, Writes, Goes, Put
<1>3. CASE Fails(c, "conflict")
    BY <1>3, FailsKeeps
<1>4. CASE Inserts(c, EmployeeUser(c), "create_login.link")
    <2> DEFINE email == mem[c].row.email
    <2>1. Inserted(c) /\ db'.users[c].business = req[c].as.business
        <3>1. EmployeeUser(c).email = email /\ EmployeeUser(c).business = req[c].as.business
              /\ {"business", "email"} \subseteq DOMAIN EmployeeUser(c)
            BY DEF EmployeeUser
        <3>2. DOMAIN UserFromDomain(EmployeeUser(c)) = UserColumns
              /\ UserFromDomain(EmployeeUser(c)) # Nothing
              /\ UserFromDomain(EmployeeUser(c)).business = req[c].as.business
              /\ UserFromDomain(EmployeeUser(c)).email = email
            BY <3>1 DEF UserFromDomain, UserColumns, Inv, Rowwise, Shape, NullIsNoRow
        <3>3. Distinct(c, email)
            BY <1>4, <3>1, InsertDiffers DEF Inserts
        <3> QED
            BY <1>4, <3>2, <3>3 DEF Inserts, Inserted, Moves, Inv, Rowwise, Shape
    <2>2. /\ open' = open /\ answer' = answer /\ pc'[c] = "create_login.link"
          /\ db'.businesses[c] = db.businesses[c] /\ db'.users[c] # Nothing
        BY <1>4, <2>1 DEF Inserts, Inserted, Inv, Rowwise, Shape
    <2>3. Call(c)'
        BY <1>1, <2>1, <2>2 DEF Call, OwnPath, Registration, Invitation, Memory, HasUser, Inv,
            RegisterLabels, Registering, InviteLabels, LoginLabels, UserSaves, BusinessSaves
    <2>4. BelongsSomewhere(c)
        BY <1>1, <2>1 DEF BelongsSomewhere
    <2> QED
        BY <2>1, <2>3, <2>4, InsertedKeeps
<1> QED
    BY <1>2, <1>3, <1>4

-----------------------------------------------------------------------------
(* Every step keeps the invariant *)

LEMMA StepKeeps ==
    ASSUME Inv, NEW c \in Calls, req' = req, Step(c)
    PROVE  Inv' /\ Kept
<1>1. CASE \/ Hire(c) \/ Employ(c) \/ Structure(c) \/ TakeLeave(c) \/ Lend(c)
           \/ Look(c) \/ Calculate(c) \/ AccountsQuietly(c)
    BY <1>1, StaffQuiet, LookQuiet, AccountsQuiet, QuietKeeps
<1>2. CASE Register(c)
    BY <1>2, RegisterKeeps
<1>3. CASE LogIn(c)
    BY <1>1, <1>3, CreateLoginLooks, CreateLoginInserts DEF LogIn, AccountsQuietly
<1>4. CASE Invite(c)
    BY <1>1, <1>4, InviteLooks, InviteInserts, RereadsKeep, WritesBackKeeps
        DEF Invite, AccountsQuietly, Rereads, WritesBack
<1>5. CASE Recover(c)
    BY <1>1, <1>5, RereadsKeep, WritesBackKeeps DEF Recover, AccountsQuietly, Rereads, WritesBack
<1>6. CASE Manage(c)
    BY <1>1, <1>6, RereadsKeep, WritesBackKeeps DEF Manage, AccountsQuietly, Rereads, WritesBack
<1>7. CASE Bill(c)
    BY <1>1, <1>7, RereadsKeep, WritesBackKeeps DEF Bill, AccountsQuietly, Rereads, WritesBack
<1> QED
    BY <1>1, <1>2, <1>3, <1>4, <1>5, <1>6, <1>7 DEF Step

LEMMA BreaksKeeps ==
    ASSUME Inv, NEW c \in Calls, req' = req, Breaks(c)
    PROVE  Inv' /\ Kept
<1>1. CASE pc[c] \in Statements /\ Fails(c, "error")
    BY <1>1, FailsKeeps
<1>2. CASE pc[c] \in {"forgot", "forgot.save"} /\ Fails(c, "ok")
    <2>1. req[c].op \notin {"register", "invite"}
        BY <1>2 DEF Inv, Call, OwnPath, RegisterLabels, Registering, InviteLabels
    <2> QED
        BY <1>2, <2>1, FailsKeeps
<1>3. CASE \/ pc[c] \in Unfound /\ Fails(c, "missing")
           \/ At(c, "submit") /\ Days(c) > 0 /\ db.balances[Leave(c)] = Nothing /\ Fails(c, "missing")
           \/ At(c, "employee_login") /\ Fails(c, "unauthorized")
    BY <1>3, FailsKeeps
<1>4. CASE /\ pc[c] \in {"hire", "hire.email", "hire.insert"} /\ RowEnds(c, "error")
           /\ UNCHANGED <<db, open>>
    <2>1. Quiet(c)
        BY <1>4, ElsewhereIsQuiet DEF RowEnds, Ends, Goes, Same, Watched, RegisterLabels,
            Registering, InviteLabels, LoginLabels, UserSaves, BusinessSaves, Inv, Rowwise, Shape
    <2> QED
        BY <2>1, QuietKeeps
<1> QED
    BY <1>1, <1>2, <1>3, <1>4 DEF Breaks

\* The failures that a registration ignores.
LEMMA RegisterIgnores ==
    ASSUME Inv, NEW c \in Calls, req' = req,
           \/ At(c, "register.cadre") /\ Skips(c, "register.plan")
           \/ At(c, "register.plan") /\ Skips(c, "register.vfd")
    PROVE  Inv' /\ Kept
<1>1. /\ Moves(c) /\ Same /\ db' = db /\ answer' = answer
      /\ pc[c] \in {"register.cadre", "register.plan"}
      /\ pc'[c] \in {"register.plan", "register.vfd"}
    BY DEF At, Skips, Writes, Goes, Moves, Same, Inv, Rowwise, Shape
<1>2. Call(c)'
    BY <1>1 DEF Call, OwnPath, Registration, Invitation, Memory, HasUser, Inv, Moves, Same,
        RegisterLabels, Registering, InviteLabels, LoginLabels, UserSaves, BusinessSaves
<1> QED
    BY <1>1, <1>2, SameKeeps

LEMMA IgnoredKeeps ==
    ASSUME Inv, NEW c \in Calls, req' = req, Ignored(c)
    PROVE  Inv' /\ Kept
<1>1. /\ DOMAIN pc = Calls /\ DOMAIN mem = Calls /\ DOMAIN answer = Calls
      /\ {"users", "businesses"} \subseteq DOMAIN db
    BY DEF Inv, Rowwise, Shape
<1>2. CASE \E step \in Logged : At(c, step[1]) /\ Skips(c, step[2])
    <2>1. PICK step \in Logged : At(c, step[1]) /\ Skips(c, step[2])
        BY <1>2
    <2>2. CASE step \in {<<"register.cadre", "register.plan">>, <<"register.plan", "register.vfd">>}
        BY <2>1, <2>2, RegisterIgnores
    <2>3. CASE step = <<"invite", "invite.create">>
        BY <2>1, <2>3, InviteLooks
    <2>4. CASE step \in {<<"submit.balance", "submit.insert">>,
                         <<"dashboard.runs", "dashboard.wallet">>,
                         <<"subscribe.create", "subscribe.invoice">>,
                         <<"subscribe.invoice", "subscribe.read">>}
        <3>1. /\ pc[c] \in {"submit.balance", "dashboard.runs", "subscribe.create",
                            "subscribe.invoice"}
              /\ pc'[c] \in {"submit.insert", "dashboard.wallet", "subscribe.invoice",
                             "subscribe.read"}
            BY <1>1, <2>1, <2>4 DEF At, Skips, Writes, Goes
        <3>2. Quiet(c)
            BY <1>1, <2>1, <3>1, ElsewhereIsQuiet DEF Skips, Writes, Goes, Same, Watched,
                RegisterLabels, Registering, InviteLabels, LoginLabels, UserSaves, BusinessSaves
        <3> QED
            BY <3>2, QuietKeeps
    <2> QED
        BY <2>2, <2>3, <2>4 DEF Logged
<1>3. CASE pc[c] \in LoggedLast /\ Answers(c, "ok")
    <2>1. CASE pc[c] = "create_login.link"
        <3>1. Quiet(c)
            BY <1>1, <1>3, <2>1, ElsewhereIsQuiet DEF Answers, Ends, Goes, Same, Watched,
                RegisterLabels, Registering, InviteLabels, LoginLabels, UserSaves, BusinessSaves
        <3> QED
            BY <3>1, QuietKeeps
    <2>2. CASE pc[c] \in {"subscribe.read", "cancel.read"}
        BY <1>3, <2>2, FindsAnswers DEF Finds
    <2>3. CASE pc[c] \in {"subscribe.save", "cancel.downgrade"}
        <3>1. Ends(c, "ok") /\ Same
            BY <1>1, <1>3 DEF Answers, Same
        <3> QED
            BY <2>3, <3>1, SameIsSteady, SteadyEnd DEF BusinessSaves
    <2> QED
        BY <1>3, <2>1, <2>2, <2>3 DEF LoggedLast
<1>4. CASE /\ At(c, "submit") /\ Days(c) > 0
           /\ IF db.leaveTypes[req[c].type] = Nothing THEN Answers(c, "missing")
              ELSE Reads(c, [balance |-> NewBalance(c)], "submit.balance")
    <2>1. Quiet(c)
        BY <1>1, <1>4, ElsewhereIsQuiet DEF At, Answers, Reads, Ends, Goes, Same, Watched,
            RegisterLabels, Registering, InviteLabels, LoginLabels, UserSaves, BusinessSaves
    <2> QED
        BY <2>1, QuietKeeps
<1>5. CASE \/ Resolves(c, {}) \/ CountsEmployees(c, {})
           \/ /\ At(c, "calculate.loans")
              /\ \E emp \in Unread(c) : ReadsLoans(c, emp, <<>>)
    <2>1. Quiet(c)
        BY <1>1, <1>5, ElsewhereIsQuiet DEF Resolves, CountsEmployees, ReadsLoans, At, Reads,
            Goes, Same, Watched, RegisterLabels, Registering, InviteLabels, LoginLabels,
            UserSaves, BusinessSaves
    <2> QED
        BY <2>1, QuietKeeps
<1> QED
    BY <1>2, <1>3, <1>4, <1>5 DEF Ignored

LEMMA NextKeeps ==
    ASSUME Inv, [Next]_allVars
    PROVE  Inv' /\ Kept
<1>1. CASE Next
    <2>1. req' = req
        BY <1>1 DEF Next, Recorded
    <2> QED
        BY <1>1, <2>1, StepKeeps, BreaksKeeps, IgnoredKeeps, RegisterKeeps, CrashKeeps
            DEF Next, Fault
<1>2. CASE UNCHANGED allVars
    BY <1>2 DEF allVars, vars, Inv, Rowwise, Shape, UserRows, EmailsDiffer, BusinessRows, Visible,
        Call, OwnPath, Registration, Invitation, Memory, HasUser, Kept
<1> QED
    BY <1>1, <1>2

LEMMA InitHolds ==
    ASSUME NullIsNoRow, OfficeInit
    PROVE  Inv
<1> USE DEF OfficeInit, Init
<1>1. /\ Visible("users") = {u \in DOMAIN Rows0.users : Rows0.users[u] # Nothing}
      /\ Visible("businesses") = {b \in DOMAIN Rows0.businesses : Rows0.businesses[b] # Nothing}
    BY DEF Visible
<1>2. Shape
    BY <1>1, OfficeAssumption DEF Shape
<1>3. UserRows /\ EmailsDiffer
    BY <1>1, OfficeAssumption DEF UserRows, EmailsDiffer, IsUser
<1>4. BusinessRows
    BY OfficeAssumption DEF BusinessRows, IsBusiness, BusinessColumns
<1>5. ASSUME NEW c \in Calls
      PROVE  Call(c)
    <2>1. /\ pc[c] \in {"received", "done"} /\ answer[c] = Nothing /\ c \notin open
          /\ db.users[c] = Nothing /\ db.businesses[c] = Nothing /\ Nothing # "ok"
          /\ req[c].op \in {"register", "invite"} => pc[c] = "received"
        BY OfficeAssumption
    <2> QED
        BY <2>1 DEF Call, OwnPath, Registration, Invitation, Memory, HasUser, RegisterLabels,
            Registering, InviteLabels, LoginLabels, UserSaves, BusinessSaves
<1> QED
    BY <1>2, <1>3, <1>4, <1>5 DEF Inv, Rowwise

-----------------------------------------------------------------------------
(* The theorems *)

\* Tables that start with users, businesses and a way to tell that a row is not there, and any
\* requests, keep the invariant whatever fails.
THEOREM InvHolds == NullIsNoRow /\ Spec => []Inv
<1>1. NullIsNoRow /\ OfficeInit => Inv
    BY InitHolds
<1>2. Inv /\ [Next]_allVars => Inv'
    BY NextKeeps
<1> QED
    BY <1>1, <1>2, PTL DEF Spec

\* A registration is all or nothing (RegisterBusiness): whoever sees the business sees the
\* admin it points to, every user has a business, and who was told so finds the business.
THEOREM RegistrationIsAtomic == NullIsNoRow /\ Spec => []RegistrationAtomic
<1>1. Inv => RegistrationAtomic
    <2> SUFFICES ASSUME Inv PROVE RegistrationAtomic
        OBVIOUS
    <2>1. \A c \in Calls \cap Visible("businesses") :
              c \in Visible("users") /\ db.businesses[c].admin = c
        BY DEF Inv, Rowwise, BusinessRows, Visible
    <2>2. \A u \in Visible("users") : db.users[u].business \in Visible("businesses")
        BY DEF Inv, Rowwise, UserRows, Visible
    <2>3. \A c \in Calls : req[c].op = "register" /\ answer[c] = "ok" => c \in Visible("businesses")
        BY DEF Inv, Call, Registration
    <2> QED
        BY <2>1, <2>2, <2>3 DEF RegistrationAtomic
<1> QED
    BY <1>1, InvHolds, PTL

\* One account per e-mail address (InsertUser behind InviteUser, RegisterBusiness and
\* CreateLogin), and one call at most that is told that it opened it.
THEOREM AccountsDiffer == NullIsNoRow /\ Spec => []OneAccountPerEmail
<1>1. Inv => OneAccountPerEmail
    <2> SUFFICES ASSUME Inv PROVE OneAccountPerEmail
        OBVIOUS
    <2>1. \A c \in Calls : Opens(c) /\ answer[c] = "ok" => HasUser(c) /\ c \in DOMAIN db.users
        BY DEF Opens, Inv, Call, Registration, Invitation, Rowwise, Shape
    <2> QED
        BY <2>1 DEF OneAccountPerEmail, HasUser, Inv, Rowwise, EmailsDiffer
<1> QED
    BY <1>1, InvHolds, PTL

\* What is confirmed stays confirmed: rows that are written back late (Update of user_repo.go)
\* clear no flag, and no rollback takes a user away that anybody saw.
THEOREM ConfirmedForGood == NullIsNoRow /\ Spec => FlagsStick
<1>1. Inv /\ [Next]_allVars =>
          [\A u \in DOMAIN Confirmed : Confirmed[u] \subseteq Confirmed'[u]]_allVars
    BY NextKeeps DEF Kept, Confirmed
<1> QED
    BY <1>1, InvHolds, PTL DEF Spec, FlagsStick
=============================================================================
