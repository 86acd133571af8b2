------------------------------ MODULE Database ------------------------------
(***************************************************************************)
(* The tables of one PostgreSQL database, the statements that the          *)
(* repositories of internal/repository/postgres send to it, and the        *)
(* control that every request handler shares: a call is received, takes    *)
(* one statement or one external request at a time, and is answered.       *)
(*                                                                         *)
(* A table maps ids to rows or to Nothing.  A row that a call creates has  *)
(* the name of the call as its id, and so have the random tokens and the   *)
(* references that the call draws.  The flags of a row that are on are one *)
(* set, its field on.                                                      *)
(***************************************************************************)
EXTENDS Integers, Sequences, FiniteSets

CONSTANTS
    Calls,      \* the requests that are in the program at a time
    Nothing,    \* SQL's NULL, Go's nil and zero value, and a row that is not there
    Rows0,      \* the tables at the start
    Workloads,  \* the sets of requests to explore: functions from Calls to requests
    Configs,    \* how the program was set up
    MaxFaults   \* failed statements and crashes in a behaviour

VARIABLES
    db,         \* the tables, with the rows of open transactions
    open,       \* the calls with an open transaction
    config,     \* chosen from Configs
    req,        \* the request of each call
    pc,         \* the step that each call takes next
    mem,        \* what each call has read
    answer,     \* what each call answered
    faults      \* failed statements and crashes so far

vars == <<db, open, config, req, pc, mem, answer, faults>>

-----------------------------------------------------------------------------
(* The models: what each row holds.                                        *)

BusinessFlags == {"approval", "auto", "pension", "nhf", "nsitf", "paye", "suspended", "vfd"}
IsBusiness(b) ==
    /\ DOMAIN b = {"admin", "on", "tier", "status", "currency"}
    /\ b.on \subseteq BusinessFlags

\* What the database fills in for a business that is created.
NewBusiness ==
    [admin |-> Nothing, on |-> {"approval", "paye"}, tier |-> "free", status |-> "active",
     currency |-> "NGN"]

UserColumns == {"business", "email", "hash", "role", "on", "reset", "invite", "verify"}
IsUser(u) == DOMAIN u = UserColumns /\ u.on \subseteq {"verified", "accepted"}

\* (mutant) Every field of the struct is a column.
UserFromDomain_Whole(u) == [f \in UserColumns \cup DOMAIN u |-> IF f \in DOMAIN u THEN u[f] ELSE Nothing]

\* The link of a user to its employee is no column: it is lost between Go and the database.
UserFromDomain(u) == [f \in UserColumns |-> IF f \in DOMAIN u THEN u[f] ELSE Nothing]

IsRule(r) == DOMAIN r = {"business", "cadre", "name", "type", "value", "basis", "deleted"}
IsComponent(p) == DOMAIN p = {"name", "type", "amount"}
IsCadre(k) ==
    /\ DOMAIN k = {"business", "name", "components", "deleted"}
    /\ \A i \in DOMAIN k.components : IsComponent(k.components[i])

IsEmployee(e) ==
    /\ DOMAIN e = {"business", "email", "cadre", "on", "bank", "rent", "user"}
    /\ e.on \subseteq {"active", "checked"}

IsEntry(e) ==
    DOMAIN e = {"emp", "gross", "bonuses", "deductions", "net", "employerCost", "taxable",
                "paye", "employerPension", "nsitf", "lines"}
IsRun(r) ==
    /\ DOMAIN r = {"business", "status", "entries", "gross", "deductions", "net",
                   "employerCosts", "cost"}
    /\ \A e \in r.entries : IsEntry(e)

Rows(table) == {db[table][id] : id \in DOMAIN db[table]} \ {Nothing}

-----------------------------------------------------------------------------
(* Reading.  No statement sees the rows of another call's transaction.     *)

Sees(c, table, id) ==
    db[table][id] # Nothing /\ (table \in {"businesses", "users"} => id \notin open \ {c})

Where(c, table, Test(_)) == {id \in DOMAIN db[table] : Sees(c, table, id) /\ Test(db[table][id])}
First(ids) == IF ids = {} THEN Nothing ELSE CHOOSE id \in ids : TRUE

FindBusiness(c, id) == First(Where(c, "businesses", LAMBDA b : TRUE) \cap {id})

\* The methods of userRepository.
FindByID(c, id) == First(Where(c, "users", LAMBDA u : TRUE) \cap {id})
FindByEmail(c, email) == First(Where(c, "users", LAMBDA u : u.email = email))
FindByResetToken(c, token) == First(Where(c, "users", LAMBDA u : u.reset = token))
FindByInviteToken(c, token) == First(Where(c, "users", LAMBDA u : u.invite = token))
FindByVerificationToken(c, token) == First(Where(c, "users", LAMBDA u : u.verify = token))

FindEmployee(c, id, business) ==
    First({id} \cap Where(c, "employees", LAMBDA e : e.business = business))
FindEmployees(c, business) == Where(c, "employees", LAMBDA e : e.business = business)

FindCadre(c, id, business) ==
    First({id} \cap Where(c, "cadres", LAMBDA k : k.business = business /\ ~k.deleted))
FindCadres(c, ids, business) ==
    ids \cap Where(c, "cadres", LAMBDA k : k.business = business /\ ~k.deleted)
ListCadres(c, business) == Where(c, "cadres", LAMBDA k : k.business = business /\ ~k.deleted)
IsCadreNameUnique(c, business, name) ==
    \A k \in ListCadres(c, business) : db.cadres[k].name # name

FindRule(c, id, business) ==
    First({id} \cap Where(c, "rules", LAMBDA r : r.business = business /\ ~r.deleted))
ListRules(c, business) == Where(c, "rules", LAMBDA r : r.business = business /\ ~r.deleted)

FindActiveLoans(c, employee) ==
    Where(c, "loans", LAMBDA l : l.employee = employee /\ l.status = "active" /\ l.remaining > 0)

FindSubscription(c, business) ==
    First(Where(c, "subscriptions", LAMBDA s : s.business = business))
FindSubscriptions(c) == Where(c, "subscriptions", LAMBDA s : TRUE)

OfBusiness(c, table, business) == Where(c, table, LAMBDA row : row.business = business)
FindInvoices(c, business) == OfBusiness(c, "invoices", business)
FindLoans(c, business) == OfBusiness(c, "loans", business)
FindLeaveTypes(c, business) == OfBusiness(c, "leaveTypes", business)
FindLeaveRequests(c, business) == OfBusiness(c, "leaves", business)
FindRun(c, id, business) == First({id} \cap OfBusiness(c, "runs", business))
FindRuns(c, business) == OfBusiness(c, "runs", business)
FindBalances(c, employee) ==
    {key \in DOMAIN db.balances : key[1] = employee /\ db.balances[key] # Nothing}

-----------------------------------------------------------------------------
(* Writing.                                                                *)

Put(table, id, row) == [db EXCEPT ![table][id] = row]

\* (mutant) Save in place of Updates.
Updates_Save(row, new) == [f \in DOMAIN row |-> new[f]]

\* GORM's Updates skips the zero values of a struct: a flag that is off stays as it was, and
\* so does a column that the struct has cleared.
Updates(row, new) ==
    [f \in DOMAIN row |-> IF f = "on" THEN row.on \cup new.on
                          ELSE IF new[f] = Nothing THEN row[f] ELSE new[f]]

UpdateUser(id, user) == Put("users", id, Updates(db.users[id], UserFromDomain(user)))
UpdateBusiness(id, business) == Put("businesses", id, Updates(db.businesses[id], business))
UpdateEmployee(id, employee) == Put("employees", id, Updates(db.employees[id], employee))

\* Save writes every column, and inserts the row if no live row has the id, so that it also
\* brings back a deleted one.  Components that it finds in the row are added to those that the
\* cadre has.
SaveCadre(id, cadre) ==
    Put("cadres", id,
        [cadre EXCEPT !.components =
            (IF db.cadres[id] = Nothing THEN <<>> ELSE db.cadres[id].components) \o @])

Delete(table, id) == [db EXCEPT ![table][id].deleted = TRUE]

\* (mutants) The unique indexes are not there.
EmailTaken_NoIndex(c, email) == FALSE
NameTaken_NoIndex(table, field, id, row) == FALSE

\* The unique indexes.  That of the e-mail of a user is in every database; those of the names
\* of cadres and rules and the e-mail of an employee are in the migrations alone, and count
\* deleted rows.
EmailTaken(c, email) == FindByEmail(c, email) # Nothing
NameTaken(table, field, id, row) ==
    /\ config.migrated
    /\ \E other \in DOMAIN db[table] \ {id} :
           /\ db[table][other] # Nothing
           /\ db[table][other].business = row.business
           /\ db[table][other][field] = row[field]

\* An insertion waits for the transaction that has put the same e-mail in the index.
EmailPending(c, email) ==
    \E other \in open \ {c} : db.users[other] # Nothing /\ db.users[other].email = email

\* The tables without what the transactions of some calls have inserted.
RolledBack(calls) ==
    [db EXCEPT
        !.businesses = [id \in DOMAIN @ |-> IF id \in calls \cap open THEN Nothing ELSE @[id]],
        !.users = [id \in DOMAIN @ |-> IF id \in calls \cap open THEN Nothing ELSE @[id]]]

-----------------------------------------------------------------------------
(* Control.                                                                *)

At(c, label) == pc[c] = label
Goes(c, label) == pc' = [pc EXCEPT ![c] = label]

\* A step that changes no table, and one that does.
Reads(c, value, label) ==
    /\ mem' = [mem EXCEPT ![c] = value]
    /\ Goes(c, label)
    /\ UNCHANGED <<db, open, answer>>

Writes(c, tables, label) ==
    /\ db' = tables
    /\ Goes(c, label)
    /\ UNCHANGED <<open, mem, answer>>

Skips(c, label) == Writes(c, db, label)

\* The end of a call: what it answered first is its answer.
Ends(c, result) ==
    /\ Goes(c, "done")
    /\ answer' = [answer EXCEPT ![c] = IF @ = Nothing THEN result ELSE @]
    /\ UNCHANGED mem

Answers(c, result) == Ends(c, result) /\ UNCHANGED <<db, open>>
WritesAndAnswers(c, tables, result) == Ends(c, result) /\ db' = tables /\ UNCHANGED open

\* An update of an employee, whose new e-mail the unique index may refuse.
SavesEmployee(c, employee, refused) ==
    IF NameTaken("employees", "email", mem[c].id, Updates(db.employees[mem[c].id], employee))
    THEN Answers(c, refused)
    ELSE WritesAndAnswers(c, UpdateEmployee(mem[c].id, employee), "ok")

\* (mutant) An error returns before the rollback.
Fails_KeepsTransaction(c, result) == Ends(c, result) /\ UNCHANGED <<db, open>>

\* tx.Rollback and an error.
Fails(c, result) == Ends(c, result) /\ db' = RolledBack({c}) /\ open' = open \ {c}

\* The row that a call has found is read, or the call ends.
Loads(c, table, id, label, missing) ==
    IF id = Nothing THEN Answers(c, missing)
    ELSE Reads(c, [id |-> id, row |-> db[table][id]], label)

\* A handler: the role of the caller, then the checks of the request, then its service.
Handle(c, op, roles, valid) ==
    /\ At(c, "received") /\ req[c].op = op
    /\ IF req[c].as.role \notin roles THEN Answers(c, "forbidden")
       ELSE IF ~valid THEN Answers(c, "invalid") ELSE Skips(c, op)

\* A handler that only reads.
Lookup(c, op, roles, rows) ==
    /\ At(c, "received") /\ req[c].op = op
    /\ IF req[c].as.role \notin roles THEN Answers(c, "forbidden")
       ELSE Reads(c, rows, "reading")

Init ==
    /\ db = Rows0
    /\ open = {}
    /\ config \in Configs
    /\ req \in Workloads
    /\ pc = [c \in Calls |-> IF req[c].op = "none" THEN "done" ELSE "received"]
    /\ mem = [c \in Calls |-> Nothing]
    /\ answer = [c \in Calls |-> Nothing]
    /\ faults = 0
=============================================================================
