------------------------------- MODULE Staff -------------------------------
(***************************************************************************)
(* The staff of a business: employees, one by one and by CSV file          *)
(* (service/employee_service.go), their salary structures                  *)
(* (cadre_service.go), deduction rules (deduction_rule_service.go), leave  *)
(* (leave_service.go) and loans (loan_service.go).                         *)
(***************************************************************************)
EXTENDS Database

Operators == {"admin", "operator"}
Users == {"admin", "operator", "approver", "employee", "super_admin"}
Business(c) == req[c].as.business

-----------------------------------------------------------------------------
(* CreateEmployee, for each row of an import or for the one of a request.  *)

Row(c) == req[c].rows[mem[c].row]
Importing(c) == req[c].op = "import"

HandleCreateEmployee(c) ==
    /\ At(c, "received") /\ req[c].op = "hire"
    /\ IF Business(c) # Nothing /\ req[c].as.role \in Operators
       THEN Reads(c, [row |-> 1, created |-> 0, on |-> {"active"}], "hire")
       ELSE Answers(c, "forbidden")

\* Rows of the file that do not parse are counted and left out.
HandleImport(c) ==
    /\ At(c, "received") /\ Importing(c)
    /\ IF req[c].as.role \notin Operators THEN Answers(c, "forbidden")
       ELSE IF req[c].rows = <<>> THEN Answers(c, "ok")
       ELSE Reads(c, [row |-> 1, created |-> 0, on |-> {"active"}], "hire")

\* The outcome of a row: an import goes on with the next one.
RowEnds(c, result) ==
    IF Importing(c) /\ mem[c].row < Len(req[c].rows)
    THEN /\ mem' = [mem EXCEPT ![c] = [row |-> mem[c].row + 1, on |-> {"active"},
                        created |-> mem[c].created + (IF result = "ok" THEN 1 ELSE 0)]]
         /\ Goes(c, "hire")
         /\ UNCHANGED answer
    ELSE Ends(c, IF Importing(c) THEN "ok" ELSE result)

HireFindsCadre(c) ==
    /\ At(c, "hire")
    /\ IF FindCadre(c, Row(c).cadre, Business(c)) = Nothing
       THEN RowEnds(c, "invalid") /\ UNCHANGED <<db, open>>
       ELSE Skips(c, "hire.email")

HireChecksEmail(c) ==
    /\ At(c, "hire.email")
    /\ IF \E e \in FindEmployees(c, Business(c)) : db.employees[e].email = Row(c).email
       THEN RowEnds(c, "invalid") /\ UNCHANGED <<db, open>>
       ELSE Skips(c, "hire.verify")

\* The bank may know the account, not know it or not answer.
HireVerifiesAccount(c) ==
    /\ At(c, "hire.verify")
    /\ \/ Skips(c, "hire.insert")
       \/ /\ Row(c).bank # Nothing
          /\ Reads(c, [mem[c] EXCEPT !.on = @ \cup {"checked"}], "hire.insert")

NewEmployee(c) ==
    [business |-> Business(c), email |-> Row(c).email, cadre |-> Row(c).cadre,
     on |-> mem[c].on, bank |-> Row(c).bank, rent |-> Row(c).rent, user |-> Nothing]

InsertEmployee(c, row) ==
    IF NameTaken("employees", "email", Nothing, row) THEN RowEnds(c, "error") /\ UNCHANGED <<db, open>>
    ELSE /\ RowEnds(c, "ok")
         /\ db' = Put("employees", <<c, mem[c].row>>, row)
         /\ UNCHANGED open

HireInserts(c) == At(c, "hire.insert") /\ InsertEmployee(c, NewEmployee(c))

Hire(c) ==
    \/ HandleCreateEmployee(c) \/ HandleImport(c) \/ HireFindsCadre(c) \/ HireChecksEmail(c)
    \/ HireVerifiesAccount(c) \/ HireInserts(c)

-----------------------------------------------------------------------------
(* UpdateEmployee, of the columns of a request or, for the bank details of *)
(* the caller, of the whole row.                                           *)

HandleUpdateEmployee(c) ==
    /\ At(c, "received") /\ req[c].op = "update"
    /\ IF req[c].as.role \in Operators
       THEN Reads(c, [id |-> req[c].id, row |-> req[c].row, moved |-> FALSE], "update")
       ELSE Answers(c, "forbidden")

HandleUpdateBankDetails(c) ==
    /\ At(c, "received") /\ req[c].op = "bank"
    /\ LET id == First({e \in FindEmployees(c, Business(c)) :
                            db.employees[e].user = req[c].as.user})
       IN IF req[c].as.role \notin Users THEN Answers(c, "forbidden")
          ELSE IF id = Nothing THEN Answers(c, "missing")
          ELSE Reads(c, [id |-> id, moved |-> FALSE,
                         row |-> [db.employees[id] EXCEPT !.bank = req[c].bank]], "update")

\* A new account has to be verified, a new cadre has to be there.
UpdateFindsEmployee(c) ==
    /\ At(c, "update")
    /\ LET id == FindEmployee(c, mem[c].id, Business(c))
           row == mem[c].row
           moved == row.bank # Nothing /\ row.bank # db.employees[id].bank
       IN IF id = Nothing THEN Answers(c, "missing")
          ELSE Reads(c, [id |-> id, moved |-> moved,
                         row |-> IF moved THEN [row EXCEPT !.on = @ \ {"checked"}] ELSE row],
                     IF row.cadre # db.employees[id].cadre THEN "update.cadre" ELSE "update.verify")

UpdateFindsCadre(c) ==
    /\ At(c, "update.cadre")
    /\ IF FindCadre(c, mem[c].row.cadre, Business(c)) = Nothing THEN Answers(c, "invalid")
       ELSE Skips(c, "update.verify")

UpdateVerifiesAccount(c) ==
    /\ At(c, "update.verify")
    /\ \/ Skips(c, "update.save")
       \/ /\ mem[c].moved
          /\ Reads(c, [mem[c] EXCEPT !.row.on = @ \cup {"checked"}], "update.save")

UpdateSaves(c) ==
    /\ At(c, "update.save")
    /\ SavesEmployee(c, mem[c].row, "error")

HandleDeactivate(c) == Handle(c, "deactivate", Operators, TRUE)

DeactivateFindsEmployee(c) ==
    /\ At(c, "deactivate")
    /\ Loads(c, "employees", FindEmployee(c, req[c].id, Business(c)), "deactivate.save", "missing")

DeactivateSaves(c) ==
    /\ At(c, "deactivate.save")
    /\ SavesEmployee(c, [mem[c].row EXCEPT !.on = @ \ {"active"}], "error")

Employ(c) ==
    \/ HandleUpdateEmployee(c) \/ HandleUpdateBankDetails(c) \/ UpdateFindsEmployee(c)
    \/ UpdateFindsCadre(c) \/ UpdateVerifiesAccount(c) \/ UpdateSaves(c)
    \/ HandleDeactivate(c) \/ DeactivateFindsEmployee(c) \/ DeactivateSaves(c)

-----------------------------------------------------------------------------
(* Cadres and deduction rules.  An update writes the row of the id it is   *)
(* given, without looking whether it is there.                             *)

NamedCadre(c) ==
    [business |-> Business(c), name |-> req[c].name, components |-> req[c].components,
     deleted |-> FALSE]

HandleCreateCadre(c) == Handle(c, "create_cadre", Operators, TRUE)

CreateCadreChecks(c) ==
    /\ At(c, "create_cadre")
    /\ IF ~IsCadreNameUnique(c, Business(c), req[c].name) THEN Answers(c, "conflict")
       ELSE IF \E i, j \in DOMAIN req[c].components :
                   i # j /\ req[c].components[i].name = req[c].components[j].name
       THEN Answers(c, "invalid")
       ELSE Skips(c, "create_cadre.insert")

\* An insertion or an update of a row that a unique index of names may refuse.
SavesNamed(c, table, id, row, tables) ==
    IF NameTaken(table, "name", id, row) THEN Answers(c, "error")
    ELSE WritesAndAnswers(c, tables, "ok")

CreateCadreInserts(c) ==
    /\ At(c, "create_cadre.insert")
    /\ SavesNamed(c, "cadres", c, NamedCadre(c), Put("cadres", c, NamedCadre(c)))

HandleUpdateCadre(c) == Handle(c, "update_cadre", Operators, TRUE)

UpdateCadre(c) ==
    /\ At(c, "update_cadre")
    /\ SavesNamed(c, "cadres", req[c].id, NamedCadre(c), SaveCadre(req[c].id, NamedCadre(c)))

HandleDeleteCadre(c) == Handle(c, "delete_cadre", Operators, TRUE)

DeleteCadre(c) ==
    /\ At(c, "delete_cadre")
    /\ IF FindCadre(c, req[c].id, Business(c)) = Nothing THEN Answers(c, "missing")
       ELSE WritesAndAnswers(c, Delete("cadres", req[c].id), "ok")

\* A rule is of no cadre.
NamedRule(c) ==
    [business |-> Business(c), cadre |-> Nothing, name |-> req[c].name, type |-> req[c].type,
     value |-> req[c].value, basis |-> req[c].basis, deleted |-> FALSE]

HandleCreateRule(c) == Handle(c, "create_rule", {"admin"}, req[c].name # Nothing)

CreateDeductionRule(c) ==
    /\ At(c, "create_rule")
    /\ SavesNamed(c, "rules", c, NamedRule(c), Put("rules", c, NamedRule(c)))

HandleUpdateRule(c) == Handle(c, "update_rule", {"admin"}, req[c].name # Nothing)

UpdateDeductionRule(c) ==
    /\ At(c, "update_rule")
    /\ SavesNamed(c, "rules", req[c].id, NamedRule(c), Put("rules", req[c].id, NamedRule(c)))

HandleDeleteRule(c) == Handle(c, "delete_rule", {"admin"}, TRUE)

DeleteDeductionRule(c) ==
    /\ At(c, "delete_rule")
    /\ IF FindRule(c, req[c].id, Business(c)) = Nothing THEN Answers(c, "missing")
       ELSE WritesAndAnswers(c, Delete("rules", req[c].id), "ok")

Structure(c) ==
    \/ HandleCreateCadre(c) \/ CreateCadreChecks(c) \/ CreateCadreInserts(c)
    \/ HandleUpdateCadre(c) \/ UpdateCadre(c) \/ HandleDeleteCadre(c) \/ DeleteCadre(c)
    \/ HandleCreateRule(c) \/ CreateDeductionRule(c) \/ HandleUpdateRule(c)
    \/ UpdateDeductionRule(c) \/ HandleDeleteRule(c) \/ DeleteDeductionRule(c)

-----------------------------------------------------------------------------
(* Leave.  A balance is of an employee and a type, in one year.            *)

HandleCreateLeaveType(c) == Handle(c, "create_leave_type", Users, req[c].days > 0)

CreateLeaveType(c) ==
    /\ At(c, "create_leave_type")
    /\ WritesAndAnswers(c,
           Put("leaveTypes", c, [business |-> Business(c), days |-> req[c].days]), "ok")

HandleSubmitLeave(c) == Handle(c, "submit", Users, TRUE)

Days(c) == req[c].days
Leave(c) == <<req[c].employee, req[c].type>>
Remaining(balance) == balance.entitled - balance.used

NewBalance(c) ==
    LET days == db.leaveTypes[req[c].type].days
    IN [entitled |-> days, used |-> 0, remaining |-> days]

\* The balance that the request is checked with, there or to be created.
SubmitFindsBalance(c) ==
    /\ At(c, "submit")
    /\ IF Days(c) <= 0 THEN Answers(c, "invalid")
       ELSE IF db.balances[Leave(c)] # Nothing
       THEN Reads(c, [balance |-> db.balances[Leave(c)]], "submit.insert")
       ELSE IF db.leaveTypes[req[c].type] = Nothing THEN Answers(c, "missing")
       ELSE Reads(c, [balance |-> NewBalance(c)], "submit.balance")

\* Another call may have created it meanwhile; the error is ignored.
SubmitCreatesBalance(c) ==
    /\ At(c, "submit.balance")
    /\ Writes(c, IF db.balances[Leave(c)] # Nothing THEN db
                 ELSE Put("balances", Leave(c), mem[c].balance), "submit.insert")

SubmitInserts(c) ==
    /\ At(c, "submit.insert")
    /\ IF mem[c].balance.remaining < Days(c) THEN Answers(c, "invalid")
       ELSE WritesAndAnswers(c,
                Put("leaves", c, [business |-> Business(c), balance |-> Leave(c),
                                  days |-> Days(c), status |-> "pending"]), "ok")

HandleApproveLeave(c) == Handle(c, "approve", Users, TRUE)
HandleRejectLeave(c) == Handle(c, "reject", Users, TRUE)

FindsPending(c, from, to) ==
    /\ At(c, from)
    /\ IF db.leaves[req[c].id] # Nothing /\ db.leaves[req[c].id].status # "pending"
       THEN Answers(c, "invalid")
       ELSE Loads(c, "leaves", IF db.leaves[req[c].id] = Nothing THEN Nothing ELSE req[c].id,
                  to, "missing")

ApproveFindsLeave(c) == FindsPending(c, "approve", "approve.balance")

\* (mutant) The balance is not checked again.
ApproveChecksBalance_Trusts(c) ==
    /\ At(c, "approve.balance")
    /\ LET balance == db.balances[mem[c].row.balance]
       IN IF balance = Nothing THEN Answers(c, "missing")
          ELSE Reads(c, [id |-> mem[c].id, row |-> mem[c].row, balance |-> balance],
                     "approve.save")

ApproveChecksBalance(c) ==
    /\ At(c, "approve.balance")
    /\ LET balance == db.balances[mem[c].row.balance]
       IN IF balance = Nothing THEN Answers(c, "missing")
          ELSE IF balance.remaining < mem[c].row.days THEN Answers(c, "invalid")
          ELSE Reads(c, [id |-> mem[c].id, row |-> mem[c].row, balance |-> balance],
                     "approve.save")

ApproveSaves(c) ==
    /\ At(c, "approve.save")
    /\ Writes(c, Put("leaves", mem[c].id, [mem[c].row EXCEPT !.status = "approved"]),
              "approve.deduct")

\* The whole row of the balance that was read.
ApproveDeducts(c) ==
    /\ At(c, "approve.deduct")
    /\ LET used == [mem[c].balance EXCEPT !.used = @ + mem[c].row.days]
       IN WritesAndAnswers(c,
              Put("balances", mem[c].row.balance, [used EXCEPT !.remaining = Remaining(used)]),
              "ok")

RejectFindsLeave(c) == FindsPending(c, "reject", "reject.save")

RejectSaves(c) ==
    /\ At(c, "reject.save")
    /\ WritesAndAnswers(c, Put("leaves", mem[c].id, [mem[c].row EXCEPT !.status = "rejected"]), "ok")

TakeLeave(c) ==
    \/ HandleCreateLeaveType(c) \/ CreateLeaveType(c)
    \/ HandleSubmitLeave(c) \/ SubmitFindsBalance(c) \/ SubmitCreatesBalance(c) \/ SubmitInserts(c)
    \/ HandleApproveLeave(c) \/ ApproveFindsLeave(c) \/ ApproveChecksBalance(c)
    \/ ApproveSaves(c) \/ ApproveDeducts(c)
    \/ HandleRejectLeave(c) \/ RejectFindsLeave(c) \/ RejectSaves(c)

-----------------------------------------------------------------------------
(* Loans.                                                                  *)

HandleCreateLoan(c) ==
    Handle(c, "lend", Operators, req[c].amount >= 1 /\ req[c].monthly >= 1)

CreateLoan(c) ==
    /\ At(c, "lend")
    /\ WritesAndAnswers(c,
           Put("loans", c, [business |-> Business(c), employee |-> req[c].employee,
                            monthly |-> req[c].monthly, remaining |-> req[c].amount,
                            status |-> "active"]), "ok")

HandleCancelLoan(c) == Handle(c, "cancel_loan", Operators, TRUE)

CancelFindsLoan(c) ==
    /\ At(c, "cancel_loan")
    /\ LET loan == db.loans[req[c].id]
       IN IF loan = Nothing THEN Answers(c, "missing")
          ELSE IF loan.business # Business(c) THEN Answers(c, "forbidden")
          ELSE IF loan.status # "active" THEN Answers(c, "invalid")
          ELSE Reads(c, [id |-> req[c].id, row |-> loan], "cancel_loan.save")

CancelSavesLoan(c) ==
    /\ At(c, "cancel_loan.save")
    /\ WritesAndAnswers(c, Put("loans", mem[c].id, [mem[c].row EXCEPT !.status = "cancelled"]), "ok")

Lend(c) == HandleCreateLoan(c) \/ CreateLoan(c) \/ HandleCancelLoan(c) \/ CancelFindsLoan(c)
               \/ CancelSavesLoan(c)
=============================================================================
