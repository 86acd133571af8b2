------------------------------- MODULE Office -------------------------------
(***************************************************************************)
(* The tenant's side of the program over one database: accounts            *)
(* (Accounts), staff (Staff), what the handlers only read, and the         *)
(* calculation of a payroll run (service/payroll_calculation.go), which    *)
(* reads in several statements what the other calls change meanwhile.      *)
(* Statements fail, and the process crashes and comes back.                *)
(***************************************************************************)
EXTENDS Accounts, Staff, Reports, SequencesExt

\* A call's own name is no id yet, users have a business and an e-mail address of their own, and
\* who invites or creates a login is of a business that is there (the claims of its token).
ASSUME OfficeAssumption ==
    /\ Nothing \notin Calls \cup {"ok"}
    /\ {"businesses", "users"} \subseteq DOMAIN Rows0
    /\ Nothing \notin DOMAIN Rows0.users
    /\ \A c \in Calls : /\ c \in DOMAIN Rows0.businesses /\ Rows0.businesses[c] = Nothing
                       /\ c \in DOMAIN Rows0.users /\ Rows0.users[c] = Nothing
    /\ \A b \in DOMAIN Rows0.businesses :
           Rows0.businesses[b] # Nothing => IsBusiness(Rows0.businesses[b])
    /\ \A u \in DOMAIN Rows0.users :
           Rows0.users[u] # Nothing =>
               /\ IsUser(Rows0.users[u])
               /\ Rows0.users[u].business \in DOMAIN Rows0.businesses
               /\ Rows0.businesses[Rows0.users[u].business] # Nothing
    /\ \A u, v \in DOMAIN Rows0.users :
           Rows0.users[u] # Nothing /\ Rows0.users[v] # Nothing
               /\ Rows0.users[u].email = Rows0.users[v].email => u = v
    /\ \A work \in Workloads : \A c \in Calls :
           work[c].op \in {"invite", "create_login"} =>
               /\ work[c].as.business \in DOMAIN Rows0.businesses
               /\ Rows0.businesses[work[c].as.business] # Nothing

\* No two rows of one business have the same value in a column.
UniqueIn(rows, field) ==
    \A i, j \in DOMAIN rows :
        i # j /\ rows[i] # Nothing /\ rows[j] # Nothing =>
            rows[i].business # rows[j].business \/ rows[i][field] # rows[j][field]

\* Where the migrations have made the indexes, the tables satisfy them.
ASSUME NamesAssumption ==
    /\ {"employees", "cadres", "rules"} \subseteq DOMAIN Rows0
    /\ Nothing \notin DOMAIN Rows0.employees
    /\ \A k \in DOMAIN Rows0.cadres : Rows0.cadres[k] # Nothing => IsCadre(Rows0.cadres[k])
    /\ \A r \in DOMAIN Rows0.rules : Rows0.rules[r] # Nothing => IsRule(Rows0.rules[r])
    /\ (\E setup \in Configs : setup.migrated) =>
           /\ UniqueIn(Rows0.employees, "email")
           /\ UniqueIn(Rows0.cadres, "name")
           /\ UniqueIn(Rows0.rules, "name")

NotOverdrawn(balance) == balance.remaining = Remaining(balance) /\ balance.remaining >= 0
IsBalance(b) == b \in [entitled : Int, used : Int, remaining : Int] /\ NotOverdrawn(b)

\* The balances are right at the start, a call's own name is not yet the id of a request for
\* leave, and requests for leave and approvals name rows that the tables may have.
ASSUME LeaveAssumption ==
    /\ {"balances", "leaves", "leaveTypes"} \subseteq DOMAIN Rows0
    /\ \A key \in DOMAIN Rows0.balances :
           Rows0.balances[key] # Nothing => IsBalance(Rows0.balances[key])
    /\ \A l \in DOMAIN Rows0.leaves :
           Rows0.leaves[l] # Nothing =>
               /\ DOMAIN Rows0.leaves[l] = {"business", "balance", "days", "status"}
               /\ Rows0.leaves[l].days \in Int
               /\ Rows0.leaves[l].balance \in DOMAIN Rows0.balances
    /\ \A c \in Calls : c \in DOMAIN Rows0.leaves => Rows0.leaves[c] = Nothing
    /\ \A t \in DOMAIN Rows0.leaveTypes :
           Rows0.leaveTypes[t] # Nothing => Rows0.leaveTypes[t].days \in Nat
    /\ \A work \in Workloads : \A c \in Calls :
           /\ work[c].op \in {"submit", "create_leave_type"} => work[c].days \in Int
           /\ work[c].op = "submit" =>
                  /\ work[c].type \in DOMAIN Rows0.leaveTypes
                  /\ <<work[c].employee, work[c].type>> \in DOMAIN Rows0.balances
           /\ work[c].op \in {"approve", "reject"} => work[c].id \in DOMAIN Rows0.leaves

\* The employees that are there at the start.
Originals == {emp \in DOMAIN Rows0.employees : Rows0.employees[emp] # Nothing}

\* A run and an employee that a call creates have an id of their own, the employees at the
\* start have a cadre of their business, and an update is of the caller's business.
ASSUME PayAssumption ==
    /\ {"employees", "cadres", "runs"} \subseteq DOMAIN Rows0
    /\ \A c \in Calls : c \in DOMAIN Rows0.runs /\ Rows0.runs[c] = Nothing
    /\ \A emp \in Originals :
           /\ emp \notin Calls \X Nat
           /\ IsEmployee(Rows0.employees[emp])
           /\ Rows0.employees[emp].cadre \in DOMAIN Rows0.cadres
           /\ Rows0.cadres[Rows0.employees[emp].cadre] # Nothing
           /\ Rows0.cadres[Rows0.employees[emp].cadre].business = Rows0.employees[emp].business
    /\ \A work \in Workloads : \A c \in Calls :
           work[c].op = "update" =>
               IsEmployee(work[c].row) /\ work[c].row.business = work[c].as.business

VARIABLES
    dropped,    \* history: the cadres once deleted, without components, or of another business
    had         \* history: the cadres that each employee of the start has had

allVars == <<vars, dropped, had>>

-----------------------------------------------------------------------------
(* Handlers that only read.  The lists are paged; what is on which page is *)
(* left out.                                                               *)

GetEmployeeByID(c) ==
    Lookup(c, "get_employee", Operators, FindEmployee(c, req[c].id, Business(c)))
ListEmployees(c) == Lookup(c, "list_employees", Operators, FindEmployees(c, Business(c)))
GetCadreByID(c) == Lookup(c, "get_cadre", Operators, FindCadre(c, req[c].id, Business(c)))
ListAllCadres(c) == Lookup(c, "list_cadres", Operators, ListCadres(c, Business(c)))
ListDeductionRules(c) == Lookup(c, "list_rules", {"admin"}, ListRules(c, Business(c)))
ListLoans(c) == Lookup(c, "list_loans", Operators, FindLoans(c, Business(c)))
ListLeaveTypes(c) == Lookup(c, "list_leave_types", Users, FindLeaveTypes(c, Business(c)))
ListLeaveRequests(c) == Lookup(c, "list_leaves", Users, FindLeaveRequests(c, Business(c)))
GetLeaveBalances(c) == Lookup(c, "balances", Users, FindBalances(c, req[c].id))
GetProfile(c) ==
    Lookup(c, "profile", Users,
           First({e \in FindEmployees(c, Business(c)) : db.employees[e].user = req[c].as.user}))
GetSettings(c) == Lookup(c, "get_settings", {"admin"}, FindBusiness(c, Business(c)))
GetPlans(c) == Lookup(c, "plans", Authenticated, config.plans)
GetSubscription(c) ==
    Lookup(c, "get_subscription", Authenticated, FindSubscription(c, Business(c)))
ListInvoices(c) == Lookup(c, "invoices", Authenticated, FindInvoices(c, Business(c)))
ListPayrollRuns(c) ==
    Lookup(c, "list_runs", {"admin", "operator", "approver"}, FindRuns(c, Business(c)))

\* The organizations are those that have a subscription.
GetStats(c) ==
    LET active == {s \in FindSubscriptions(c) : db.subscriptions[s].status = "active"}
        suspended == {s \in FindSubscriptions(c) :
                          LET b == FindBusiness(c, db.subscriptions[s].business)
                          IN b # Nothing /\ "suspended" \in db.businesses[b].on}
    IN Lookup(c, "stats", SuperAdmins,
              [total |-> Cardinality(FindSubscriptions(c)), active |-> Cardinality(active),
               suspended |-> Cardinality(suspended),
               plans |-> [p \in config.plans |->
                             Cardinality({s \in active : db.subscriptions[s].plan = p})]])
ListOrganizations(c) ==
    Lookup(c, "organizations", SuperAdmins,
           {[business |-> db.subscriptions[s].business,
             employees |-> Cardinality(FindEmployees(c, db.subscriptions[s].business))] :
                s \in FindSubscriptions(c)})

\* The reports of a run.  A run that is not there is an internal error, as any failed query is.
Asked(c) == FindRun(c, req[c].id, Business(c))
Report(c, op, roles, content) ==
    /\ At(c, "received") /\ req[c].op = op
    /\ IF req[c].as.role \notin roles THEN Answers(c, "forbidden")
       ELSE IF Asked(c) = Nothing THEN Answers(c, "error")
       ELSE Reads(c, content, "reading")

Run(c) == db.runs[Asked(c)]
HandlePAYEReport(c) == Report(c, "paye", Operators, GeneratePAYEReport(Run(c)))
HandlePensionSchedule(c) == Report(c, "pension", Operators, GeneratePensionSchedule(Run(c)))
HandleNHFSchedule(c) == Report(c, "nhf", Operators, GenerateNHFSchedule(Run(c)))
HandleBankSchedule(c) ==
    Report(c, "bank_schedule", Operators,
           GenerateBankSchedule(Run(c),
               [e \in FindEmployees(c, Business(c)) |-> db.employees[e].bank]))
HandlePayrollSummary(c) == Report(c, "summary", Operators, GeneratePayrollSummary(Run(c)))
HandleAllPayslips(c) == Report(c, "all_payslips", Operators, GenerateAllPayslips(Run(c)))
HandlePayslip(c) ==
    Report(c, "payslip", Operators,
           First({GeneratePayslip(e) : e \in {x \in Run(c).entries : x.emp = req[c].employee}}))
GetPayrollRunByID(c) == Report(c, "get_run", {"admin", "operator", "approver"}, Run(c))
GetPayrollStatus(c) == Report(c, "run_status", {"admin", "operator", "approver"}, Run(c).status)

\* The runs in which the user that asks is paid, or was.
Paid(c) == {r \in FindRuns(c, Business(c)) : db.runs[r].status \in {"completed", "processing"}}
GetPayslips(c) ==
    Lookup(c, "my_payslips", Users,
           UNION {{[run |-> r, net |-> e.net] :
                      e \in {x \in db.runs[r].entries :
                                db.employees[x.emp].user = req[c].as.user}} : r \in Paid(c)})

\* GetSummary, whose figures are zero where a statement fails.  Which of several paid runs is
\* the latest, and the balance of the wallet, are left out.
HandleDashboard(c) == Handle(c, "dashboard", Authenticated, TRUE)

CountsEmployees(c, staff) ==
    /\ At(c, "dashboard")
    /\ Reads(c, [employees |-> Cardinality(staff),
                 active |-> Cardinality({e \in staff : "active" \in db.employees[e].on})],
             "dashboard.runs")
GetSummaryEmployees(c) == CountsEmployees(c, FindEmployees(c, Business(c)))

GetSummaryRuns(c) ==
    /\ At(c, "dashboard.runs")
    /\ LET runs == FindRuns(c, Business(c))
           pending == {r \in runs : db.runs[r].status = "pending_approval"}
           last == First(Paid(c))
       IN Reads(c, mem[c] @@ [runs |-> Cardinality(runs), pending |-> Cardinality(pending),
                              last |-> IF last = Nothing THEN 0 ELSE db.runs[last].net,
                              cost |-> IF last = Nothing THEN 0 ELSE db.runs[last].cost],
                "dashboard.wallet")

GetSummaryEnds(c) == At(c, "dashboard.wallet") /\ Answers(c, "ok")

Shows(c) == At(c, "reading") /\ Answers(c, IF mem[c] = Nothing THEN "missing" ELSE "ok")

Look(c) ==
    \/ GetEmployeeByID(c) \/ ListEmployees(c) \/ GetCadreByID(c) \/ ListAllCadres(c)
    \/ ListDeductionRules(c) \/ ListLoans(c) \/ ListLeaveTypes(c) \/ ListLeaveRequests(c)
    \/ GetLeaveBalances(c) \/ GetProfile(c) \/ GetSettings(c) \/ GetPlans(c)
    \/ GetSubscription(c) \/ ListInvoices(c) \/ ListPayrollRuns(c) \/ GetStats(c)
    \/ ListOrganizations(c) \/ HandlePAYEReport(c) \/ HandlePensionSchedule(c)
    \/ HandleNHFSchedule(c) \/ HandleBankSchedule(c) \/ HandlePayrollSummary(c)
    \/ HandleAllPayslips(c) \/ HandlePayslip(c) \/ GetPayrollRunByID(c)
    \/ GetPayrollStatus(c) \/ GetPayslips(c) \/ HandleDashboard(c)
    \/ GetSummaryEmployees(c) \/ GetSummaryRuns(c) \/ GetSummaryEnds(c) \/ Shows(c)

-----------------------------------------------------------------------------
(* CreatePayrollRun.                                                       *)

HandleCalculate(c) ==
    /\ At(c, "received") /\ req[c].op = "calculate"
    /\ IF req[c].as.role \notin Operators THEN Answers(c, "forbidden")
       ELSE Reads(c, [adjustments |-> <<>>],
                  IF req[c].adjustments = <<>> THEN "calculate.business" ELSE "calculate")

\* An identifier is the id of an employee, known or not, or the e-mail of one that was found.
\* If two identifiers stand for one employee the last one counts, in an order that Go's maps
\* draw; identifiers that stand for nobody are dropped.
Resolves(c, found) ==
    LET given == req[c].adjustments
        Names(n, e) == n = e \/ (e \in found /\ db.employees[e].email = n)
        named == {e \in DOMAIN db.employees : \E n \in DOMAIN given : Names(n, e)}
        known == {n \in DOMAIN given : \E e \in named : Names(n, e)}
    IN /\ At(c, "calculate")
       /\ \E who \in [known -> named] :
              /\ \A n \in known : Names(n, who[n])
              /\ \E by \in [Range(who) -> known] :
                     /\ \A e \in Range(who) : who[by[e]] = e
                     /\ Reads(c, [adjustments |-> [e \in Range(who) |-> given[by[e]]]],
                              "calculate.business")

CalculateResolves(c) == Resolves(c, FindEmployees(c, Business(c)))

CalculateReadsBusiness(c) ==
    /\ At(c, "calculate.business")
    /\ IF FindBusiness(c, Business(c)) = Nothing THEN Answers(c, "error")
       ELSE Reads(c, [adjustments |-> mem[c].adjustments, business |-> db.businesses[Business(c)]],
                  "calculate.employees")

CalculateReadsEmployees(c) ==
    /\ At(c, "calculate.employees")
    /\ LET active == {e \in FindEmployees(c, Business(c)) : "active" \in db.employees[e].on}
       IN Reads(c, [adjustments |-> mem[c].adjustments, business |-> mem[c].business,
                    staff |-> [e \in active |-> db.employees[e]]], "calculate.cadres")

\* The rows of some ids, in an order that the database chooses.
Listed(table, ids) ==
    LET list == SetToSeq(ids)
    IN [i \in DOMAIN list |-> db[table][list[i]]]

\* The cadres that the employees had when they were read.  Employees of a cadre that is gone or
\* has no components are left out.
CalculateReadsCadres(c) ==
    /\ At(c, "calculate.cadres")
    /\ LET staff == mem[c].staff
           cadres == FindCadres(c, {staff[e].cadre : e \in DOMAIN staff}, Business(c))
           paid == {e \in DOMAIN staff : /\ staff[e].cadre \in cadres
                                         /\ db.cadres[staff[e].cadre].components # <<>>}
           rules(k) == Listed("rules", {r \in ListRules(c, Business(c)) : db.rules[r].cadre = k})
       IN IF paid = {} THEN Answers(c, "error")
          ELSE Reads(c, [adjustments |-> mem[c].adjustments, business |-> mem[c].business,
                         staff |-> [e \in paid |->
                             [rent |-> staff[e].rent, rules |-> rules(staff[e].cadre),
                              components |-> db.cadres[staff[e].cadre].components]],
                         loans |-> <<>>], "calculate.loans")

\* One employee after the other.
ReadsLoans(c, emp, loans) ==
    LET read == [e \in DOMAIN mem[c].loans \cup {emp} |->
                     IF e = emp THEN loans ELSE mem[c].loans[e]]
    IN Reads(c, [mem[c] EXCEPT !.loans = read],
             IF DOMAIN read = DOMAIN mem[c].staff THEN "calculate.store" ELSE "calculate.loans")
Unread(c) == DOMAIN mem[c].staff \ DOMAIN mem[c].loans

CalculateReadsLoans(c) ==
    /\ At(c, "calculate.loans")
    /\ \E emp \in Unread(c) :
           ReadsLoans(c, emp, Listed("loans", FindActiveLoans(c, emp)))

\* The entries are computed of what was read.
EntryOf(c, emp) ==
    LET e == mem[c].staff[emp]
        given == IF emp \in DOMAIN mem[c].adjustments THEN mem[c].adjustments[emp] ELSE <<>>
    IN Entry(emp, mem[c].business, e.rent, e.components, e.rules, mem[c].loans[emp], given)

\* (mutant) Having no loan skips the employee, not the deduction.
CreateAndStorePayrollRun_Borrowers(c) ==
    /\ At(c, "calculate.store")
    /\ LET entries == {EntryOf(c, emp) : emp \in {e \in DOMAIN mem[c].staff : mem[c].loans[e] # <<>>}}
       IN WritesAndAnswers(c, Put("runs", c, RunOf(Business(c), entries)), "ok")

CreateAndStorePayrollRun(c) ==
    /\ At(c, "calculate.store")
    /\ LET entries == {EntryOf(c, emp) : emp \in DOMAIN mem[c].staff}
       IN WritesAndAnswers(c, Put("runs", c, RunOf(Business(c), entries)), "ok")

Calculate(c) ==
    \/ HandleCalculate(c) \/ CalculateResolves(c) \/ CalculateReadsBusiness(c)
    \/ CalculateReadsEmployees(c) \/ CalculateReadsCadres(c) \/ CalculateReadsLoans(c)
    \/ CreateAndStorePayrollRun(c)

-----------------------------------------------------------------------------
(* Faults.                                                                 *)

InProgress == {c \in Calls : pc[c] \notin {"received", "done"}}

\* The labels of the steps that end with an error when their statement fails.  Of a request
\* for a new password the caller never hears one.
Statements ==
    {"reading", "register", "register.user", "register.link", "register.vfd", "register.commit",
     "login", "create_login.user", "invite.create", "accept.save", "reset.save",
     "resend", "resend.save", "verify.save", "settings", "settings.save",
     "suspend.save", "activate.save", "subscribe", "subscribe.free", "cancel.save",
     "update", "update.cadre", "update.save", "deactivate", "deactivate.save",
     "create_cadre", "create_cadre.insert", "update_cadre", "delete_cadre",
     "create_rule", "update_rule", "delete_rule", "create_leave_type",
     "submit.insert", "approve.balance", "approve.save", "approve.deduct", "reject.save",
     "lend", "cancel_loan.save",
     "calculate.business", "calculate.employees", "calculate.cadres", "calculate.store"}

\* The labels of the lookups whose failure passes for a row that is not there.
Unfound ==
    {"create_login", "accept", "reset", "verify", "suspend", "activate", "cancel",
     "approve", "reject", "cancel_loan"}

Breaks(c) ==
    \/ pc[c] \in Statements /\ Fails(c, "error")
    \/ pc[c] \in Unfound /\ Fails(c, "missing")
    \/ At(c, "submit") /\ Days(c) > 0 /\ db.balances[Leave(c)] = Nothing /\ Fails(c, "missing")
    \/ At(c, "employee_login") /\ Fails(c, "unauthorized")
    \/ pc[c] \in {"forgot", "forgot.save"} /\ Fails(c, "ok")
    \/ pc[c] \in {"hire", "hire.email", "hire.insert"} /\ RowEnds(c, "error") /\ UNCHANGED <<db, open>>

\* The steps whose error is ignored or only logged, and the step after them.
Logged ==
    {<<"register.cadre", "register.plan">>, <<"register.plan", "register.vfd">>,
     <<"invite", "invite.create">>, <<"submit.balance", "submit.insert">>,
     <<"dashboard.runs", "dashboard.wallet">>, <<"subscribe.create", "subscribe.invoice">>,
     <<"subscribe.invoice", "subscribe.read">>}
LoggedLast ==
    {"create_login.link", "subscribe.read", "subscribe.save", "cancel.read", "cancel.downgrade"}

\* A balance that cannot be read passes for one that is not there, loans that cannot be read
\* for none, and without the employees only ids among the identifiers are known.
Ignored(c) ==
    \/ \E step \in Logged : At(c, step[1]) /\ Skips(c, step[2])
    \/ pc[c] \in LoggedLast /\ Answers(c, "ok")
    \/ /\ At(c, "submit") /\ Days(c) > 0
       /\ IF db.leaveTypes[req[c].type] = Nothing THEN Answers(c, "missing")
          ELSE Reads(c, [balance |-> NewBalance(c)], "submit.balance")
    \/ Resolves(c, {})
    \/ CountsEmployees(c, {})
    \/ /\ At(c, "calculate.loans")
       /\ \E emp \in Unread(c) : ReadsLoans(c, emp, <<>>)

\* The process ends with its calls, and the database with their transactions; it comes back.
Crash ==
    /\ InProgress # {}
    /\ db' = RolledBack(open)
    /\ open' = {}
    /\ pc' = [c \in Calls |-> IF c \in InProgress THEN "done" ELSE pc[c]]
    /\ answer' = [c \in Calls |-> IF c \in InProgress /\ answer[c] = Nothing THEN "crashed"
                                  ELSE answer[c]]
    /\ UNCHANGED mem

Fault ==
    /\ faults < MaxFaults
    /\ Crash \/ \E c \in Calls : Breaks(c) \/ Ignored(c) \/ RegisterAborts(c)
    /\ faults' = faults + 1

-----------------------------------------------------------------------------
\* What a step has dropped: an update of a cadre may come from another business.
Gone(before, after) ==
    {k \in DOMAIN after.cadres :
        LET cadre == after.cadres[k]
        IN /\ cadre # Nothing
           /\ \/ cadre.deleted \/ cadre.components = <<>>
              \/ before.cadres[k] # Nothing /\ before.cadres[k].business # cadre.business}

\* Its client may have waited for another call before it made this one.
Turn(c) == "after" \in DOMAIN req[c] => pc[c] # "received" \/ pc[req[c].after] = "done"

Step(c) ==
    /\ Turn(c)
    /\ \/ Register(c) \/ LogIn(c) \/ Invite(c) \/ Recover(c) \/ Manage(c) \/ Bill(c)
       \/ Hire(c) \/ Employ(c) \/ Structure(c) \/ TakeLeave(c) \/ Lend(c)
       \/ Look(c) \/ Calculate(c)
    /\ UNCHANGED faults

Recorded ==
    /\ dropped' = dropped \cup Gone(db, db')
    /\ had' = [emp \in Originals |-> had[emp] \cup {db'.employees[emp].cadre}]
    /\ UNCHANGED <<config, req>>

OfficeInit ==
    /\ Init
    /\ dropped = Gone(Rows0, Rows0)
    /\ had = [emp \in Originals |-> {Rows0.employees[emp].cadre}]
Next == (Fault \/ \E c \in Calls : Step(c)) /\ Recorded

Spec == OfficeInit /\ [][Next]_allVars

\* Each request has a goroutine of its own, every statement and call to a provider ends, and
\* a lock of the database is held only by transactions that go on.  That a call does not stay
\* before the last step of a calculation, which is always enabled, is weak fairness of that step.
FairSpec ==
    /\ Spec
    /\ \A c \in Calls : /\ WF_allVars(~At(c, "calculate.store") /\ Step(c) /\ Recorded)
                        /\ []<>~At(c, "calculate.store")

-----------------------------------------------------------------------------
(* Properties.                                                             *)

Answered == {"ok", "error", "missing", "invalid", "conflict", "forbidden", "unauthorized",
             "expired", "crashed"}

\* Every row has the columns of its table, an open transaction is of a registration that is
\* in progress, and an answer is one of those that the handlers give.
TypeOK ==
    /\ \A b \in Rows("businesses") : IsBusiness(b)
    /\ \A u \in Rows("users") : IsUser(u)
    /\ \A e \in Rows("employees") : IsEmployee(e)
    /\ \A k \in Rows("cadres") : IsCadre(k)
    /\ \A r \in Rows("rules") : IsRule(r)
    /\ \A r \in Rows("runs") : IsRun(r)
    /\ open \subseteq {c \in Calls : req[c].op = "register" /\ pc[c] # "done"}
    /\ \A c \in Calls : answer[c] \in Answered \cup {Nothing}
    /\ faults \in 0 .. MaxFaults

Visible(table) == {id \in DOMAIN db[table] \ open : db[table][id] # Nothing}

\* A registration is all or nothing, whatever fails on its way (RegisterBusiness,
\* auth_service.go): who else looks sees the new business together with the admin it points to,
\* or neither; every user that is seen is of a business that is there; and who was told that
\* the business is registered will find it.
RegistrationAtomic ==
    /\ \A c \in Calls \cap Visible("businesses") :
           c \in Visible("users") /\ db.businesses[c].admin = c
    /\ \A u \in Visible("users") : db.users[u].business \in Visible("businesses")
    /\ \A c \in Calls : req[c].op = "register" /\ answer[c] = "ok" => c \in Visible("businesses")

\* However registrations, invitations and employee logins for one e-mail address interleave,
\* no two accounts have it, and at most one of the calls is told that it made one
\* (InviteUser checks and then inserts, the others insert without a check).
Opens(c) == req[c].op \in {"register", "invite"}
OneAccountPerEmail ==
    /\ \A u, v \in DOMAIN db.users :
           db.users[u] # Nothing /\ db.users[v] # Nothing /\ db.users[u].email = db.users[v].email
               => u = v
    /\ \A c, d \in Calls :
           Opens(c) /\ Opens(d) /\ answer[c] = "ok" /\ answer[d] = "ok"
               /\ req[c].email = req[d].email => c = d

\* What has been confirmed stays confirmed: no call that writes back a user it has read before
\* another call verified it or accepted the invitation takes that away (Update of
\* user_repo.go writes what is not zero).
Confirmed == [u \in Visible("users") |-> db.users[u].on]
FlagsStick ==
    [][\A u \in DOMAIN Confirmed : Confirmed[u] \subseteq Confirmed'[u]]_allVars

\* However approvals of leave interleave (ApproveRequest, leave_service.go), the balance of an
\* employee is never overdrawn, what remains is what is not used, and what is used is the sum
\* of the days of some of the approvals that were answered, of one at least if there are any.
Approvals(key) ==
    {c \in Calls : req[c].op = "approve" /\ answer[c] = "ok" /\ db.leaves[req[c].id].balance = key}
LeaveAccounted ==
    \A key \in DOMAIN db.balances :
        LET balance == db.balances[key]
        IN balance # Nothing =>
               /\ NotOverdrawn(balance)
               /\ \E counted \in SUBSET Approvals(key) :
                      /\ Approvals(key) # {} => counted # {}
                      /\ balance.used - (IF Rows0.balances[key] = Nothing THEN 0
                                         ELSE Rows0.balances[key].used)
                             = SumFunction([c \in counted |-> db.leaves[req[c].id].days])

\* In a database that the migrations made, two creations that both found a name or an e-mail
\* address free do not both insert it (CreateEmployee, CreateCadre, CreateDeductionRule).
UniqueNames ==
    config.migrated =>
        /\ UniqueIn(db.employees, "email")
        /\ UniqueIn(db.cadres, "name")
        /\ UniqueIn(db.rules, "name")

\* What a payslip shows is what is paid: the lines of each entry sum up to its totals, and the
\* totals of the run are those of its entries (calculateEmployeeEntry keeps sums and lines
\* apart, CalculatePayrollRun adds up again).  The register of the run and the returns to the
\* authorities, which find their amounts among the lines by name, come to the same sums
\* (GeneratePayrollSummary, GeneratePAYEReport, GeneratePensionSchedule, GenerateNHFSchedule).
OfType(entry, types) ==
    SumFunction([i \in DOMAIN entry.lines |->
                    Only(entry.lines[i].type \in types, entry.lines[i].amount)])
LinesAddUp(e) ==
    /\ e.gross = OfType(e, {"earning"}) /\ e.bonuses = OfType(e, {"bonus"})
    /\ e.deductions = OfType(e, {"deduction", "statutory_deduction"})
    /\ e.employerCost = OfType(e, {"employer_cost"})
    /\ e.net = e.gross + e.bonuses - e.deductions
RunAddsUp(run) ==
    /\ run.net = TotalOf(run.entries, "gross") + TotalOf(run.entries, "bonuses") - run.deductions
    /\ run.deductions = TotalOf(run.entries, "deductions")
    /\ run.cost = TotalOf(run.entries, "gross") + TotalOf(run.entries, "employerCost")
ReportsAgree(run) ==
    LET totals == GeneratePayrollSummary(run).totals
    IN /\ totals.gross = run.gross /\ totals.deductions = run.deductions
       /\ totals.net = run.net /\ totals.cost = run.cost
       /\ totals.paye + totals.pension + totals.nhf + totals.custom = run.deductions
       /\ totals.employerPension + totals.nsitf = run.employerCosts
       /\ totals.paye = TotalOf(run.entries, "paye")
       /\ totals.paye = TotalOf(GeneratePAYEReport(run), "paye")
       /\ totals.nhf = TotalOf(GenerateNHFSchedule(run), "nhf")
       /\ totals.pension + totals.employerPension = TotalOf(GeneratePensionSchedule(run), "total")
AddsUp(run) == RunAddsUp(run) /\ ReportsAgree(run) /\ \A e \in run.entries : LinesAddUp(e)
PayslipsAddUp == \A run \in Rows("runs") : AddsUp(run)

\* PAYE is what taxing each unit of the annual income at the rate of its bracket gives, but for
\* the rounding of each bracket and of the month, which is in favour of the employee
\* (applyBrackets and calculateMonthlyPAYE, tax/paye.go).
UnitsIn(i, income) ==
    LET top == NigerianBrackets[i].ceiling
    IN (Floor(NigerianBrackets, i) + 1) .. (IF top = 0 THEN income ELSE Least(income, top))
TaxedByUnit(e) ==
    LET exact == SumFunction([i \in DOMAIN NigerianBrackets |->
            Cardinality(UnitsIn(i, e.taxable)) * NigerianBrackets[i].permille])
    IN /\ 12000 * e.paye <= exact
       /\ exact < 12000 * (e.paye + 1) + 1000 * Len(NigerianBrackets)
PAYEIsMarginal == \A run \in Rows("runs") : \A e \in run.entries : TaxedByUnit(e)

IsPayList(list) ==
    list \in Seq(Range(list)) /\ \A i \in DOMAIN list : list[i].amount \in Int

\* Tables are finite, amounts are whole numbers, what is repaid and owed is not negative, and
\* the runs of the start add up.  Requests bring rows of these kinds; an update may leave out
\* the rent.
ASSUME SlipAssumption ==
    /\ MaxFaults \in Nat
    /\ "loans" \in DOMAIN Rows0
    /\ \A table \in {"employees", "rules", "loans"} : IsFiniteSet(DOMAIN Rows0[table])
    /\ \A emp \in Originals : Rows0.employees[emp].rent \in Int
    /\ \A k \in DOMAIN Rows0.cadres :
           Rows0.cadres[k] # Nothing => IsPayList(Rows0.cadres[k].components)
    /\ \A l \in DOMAIN Rows0.loans :
           Rows0.loans[l] # Nothing => /\ {"monthly", "remaining"} \subseteq DOMAIN Rows0.loans[l]
                                       /\ Rows0.loans[l].monthly \in Nat
                                       /\ Rows0.loans[l].remaining \in Nat
    /\ \A r \in DOMAIN Rows0.runs :
           Rows0.runs[r] # Nothing => IsRun(Rows0.runs[r]) /\ AddsUp(Rows0.runs[r])
    /\ \A work \in Workloads : \A c \in Calls :
           /\ work[c].op \in {"hire", "import"} =>
                  /\ work[c].rows \in Seq(Range(work[c].rows))
                  /\ \A row \in Range(work[c].rows) : row.rent \in Int
           /\ work[c].op = "hire" => work[c].rows # <<>>
           /\ work[c].op = "update" =>
                  (work[c].row.rent # Nothing => work[c].row.rent \in Int)
           /\ work[c].op \in {"create_cadre", "update_cadre"} =>
                  /\ IsPayList(work[c].components)
                  /\ \A i \in DOMAIN work[c].components : IsComponent(work[c].components[i])
           /\ work[c].op = "settings" => work[c].enable \subseteq BusinessFlags
           /\ work[c].op = "lend" => work[c].amount \in Int /\ work[c].monthly \in Int
           /\ work[c].op = "cancel_loan" => work[c].id \in DOMAIN Rows0.loans
           /\ work[c].op = "calculate" =>
                  \A n \in DOMAIN work[c].adjustments : IsPayList(work[c].adjustments[n])

\* Everybody is paid once: an employee who was active at the start, and has had no cadre that
\* was at any time deleted, empty or taken over, has one entry in each run of its business,
\* whatever other calls change between the statements that CalculatePayrollRun reads with.
ToBePaid(business) ==
    {emp \in Originals : /\ Rows0.employees[emp].business = business
                         /\ "active" \in Rows0.employees[emp].on
                         /\ had[emp] \cap dropped = {}}
PaysOnce(run) ==
    \A emp \in ToBePaid(run.business) : Cardinality({e \in run.entries : e.emp = emp}) = 1
NobodyLeftOut == \A c \in Calls : db.runs[c] # Nothing => PaysOnce(db.runs[c])

\* A deactivated employee is in no run that is asked for afterwards
\* (docs/API_REFERENCE.md:1116).
DeactivatedExcluded ==
    \A d, c \in Calls :
        (/\ req[d].op = "deactivate" /\ answer[d] = "ok"
         /\ req[c].op = "calculate" /\ "after" \in DOMAIN req[c] /\ req[c].after = d
         /\ db.runs[c] # Nothing)
            => \A e \in db.runs[c].entries : e.emp # req[d].id

\* Every call is answered: no transaction that a failure or a conflict ends keeps the e-mail
\* address that another call waits for.
CallsAnswered == \A c \in Calls : <>(pc[c] = "done" /\ (req[c].op # "none" => answer[c] # Nothing))
=============================================================================
