------------------------------ MODULE MCOffice ------------------------------
(***************************************************************************)
(* Values for TLC: two businesses, one with two employees, and up to three *)
(* calls at a time.  An amount of 1 stands for 10,000 naira.               *)
(***************************************************************************)
EXTENDS Office

CONSTANTS c1, c2, c3, b1, b2, u1, u2, e1, e2, k1, k2, d1, l1, t1, v1, v2, s2, r1,
          ann, amy, eve, zoe, joe, old, new, link, bank1, bank2

Nigerian ==
    <<[ceiling |-> 80, permille |-> 0], [ceiling |-> 300, permille |-> 150],
      [ceiling |-> 1200, permille |-> 180], [ceiling |-> 2500, permille |-> 210],
      [ceiling |-> 5000, permille |-> 230], [ceiling |-> 0, permille |-> 250]>>
Ghanaian == <<[ceiling |-> 59, permille |-> 0], [ceiling |-> 0, permille |-> 175]>>

-----------------------------------------------------------------------------
(* The tables at the start.                                                *)

Fresh(ids) == [id \in ids \cup Calls |-> Nothing]
User(business, email, role, tokens) ==
    [business |-> business, email |-> email, hash |-> old, role |-> role, on |-> {},
     reset |-> Nothing, invite |-> Nothing, verify |-> tokens]
Employee(email, cadre, user) ==
    [business |-> b1, email |-> email, cadre |-> cadre, on |-> {"active", "checked"},
     bank |-> bank1, rent |-> 60, user |-> user]
Part(name, type, amount) == [name |-> name, type |-> type, amount |-> amount]
Senior == <<Part("basic", "basic", 150), Part("housing", "housing", 55), Part("car", "other", 7)>>
Junior == <<Part("basic", "other", 11)>>
Cadre(name, components) ==
    [business |-> b1, name |-> name, components |-> components, deleted |-> FALSE]
EntryFor(id, components) ==
    Entry(id, [NewBusiness EXCEPT !.on = @ \cup {"pension", "nhf"}], 0, components, <<>>, <<>>, <<>>)
Pending == [business |-> b1, balance |-> <<e1, t1>>, days |-> 3, status |-> "pending"]

Tables ==
    [businesses |-> [Fresh({b1, b2}) EXCEPT
                        ![b1] = [NewBusiness EXCEPT !.admin = u1, !.on = @ \cup {"pension"}],
                        ![b2] = NewBusiness],
     users |-> [Fresh({u1, u2}) EXCEPT ![u1] = User(b1, ann, "admin", link),
                                       ![u2] = User(b1, eve, "employee", Nothing)],
     employees |-> [id \in {e1, e2} \cup (Calls \X (1 .. 2)) |->
                        IF id = e1 THEN Employee(amy, k1, Nothing)
                        ELSE IF id = e2 THEN Employee(eve, k2, u2) ELSE Nothing],
     cadres |-> [Fresh({k1, k2}) EXCEPT ![k1] = Cadre("senior", Senior),
                                        ![k2] = Cadre("junior", Junior)],
     rules |-> [Fresh({d1}) EXCEPT
                   ![d1] = [business |-> b1, cadre |-> Nothing, name |-> "union", type |-> "flat",
                            value |-> 1, basis |-> "gross_pay", deleted |-> FALSE]],
     loans |-> [Fresh({l1}) EXCEPT
                   ![l1] = [business |-> b1, employee |-> e1, monthly |-> 4, remaining |-> 3,
                            status |-> "active"]],
     leaveTypes |-> [Fresh({t1}) EXCEPT ![t1] = [business |-> b1, days |-> 5]],
     leaves |-> [Fresh({v1, v2}) EXCEPT ![v1] = Pending, ![v2] = Pending],
     balances |-> [key \in {e1, e2} \X {t1} |->
                      IF key[1] = e1 THEN [entitled |-> 5, used |-> 0, remaining |-> 5]
                      ELSE Nothing],
     subscriptions |-> [Fresh({s2}) EXCEPT ![s2] = FreeSubscription(b2)],
     invoices |-> Fresh({}),
     runs |-> [Fresh({r1}) EXCEPT
                  ![r1] = [RunOf(b1, {EntryFor(e1, Senior), EntryFor(e2, Junior)})
                               EXCEPT !.status = "completed"]]]

-----------------------------------------------------------------------------
(* The requests.                                                           *)

As(user, business, role) == [user |-> user, business |-> business, role |-> role]
Visitor == As(Nothing, Nothing, "public")
Boss == As(u1, b1, "admin")
Worker == As(u2, b1, "employee")
Root == As(Nothing, Nothing, "super_admin")

Idle == [op |-> "none"]
Ask(op, who) == [op |-> op, as |-> who]
AskOf(op, who, id) == [op |-> op, as |-> who, id |-> id]
After(request, call) == request @@ [after |-> call]

RegisterAs(email) == [op |-> "register", as |-> Visitor, email |-> email, password |-> old]
InviteAs(email) == [op |-> "invite", as |-> Boss, email |-> email, role |-> "operator"]
With(op, token) == [op |-> op, as |-> Visitor, token |-> token, password |-> new]
Named(op, email) == [op |-> op, as |-> Visitor, email |-> email, password |-> new]
Setting(on, off) == [op |-> "settings", as |-> Boss, enable |-> on, disable |-> off]
SubscribeTo(business, tier) ==
    [op |-> "subscribe", as |-> As(u1, business, "admin"), tier |-> tier]
CancelOf(business) == Ask("cancel", As(u1, business, "admin"))
SubmitFor(employee, days) ==
    [op |-> "submit", as |-> Worker, employee |-> employee, type |-> t1, days |-> days]
CandidateOf(email) == [email |-> email, cadre |-> k1, bank |-> bank1, rent |-> 0]
HireAll(op, emails) ==
    [op |-> op, as |-> Boss, rows |-> [i \in DOMAIN emails |-> CandidateOf(emails[i])]]
CadreAs(op, id, name, components) ==
    [op |-> op, as |-> Boss, id |-> id, name |-> name, components |-> components]
RuleAs(op, id, name) ==
    [op |-> op, as |-> Boss, id |-> id, name |-> name, type |-> "percentage", value |-> 5,
     basis |-> "basic_pay"]
Change(id, cadre, bank) ==
    [op |-> "update", as |-> Boss, id |-> id,
     row |-> [Employee(amy, cadre, Nothing) EXCEPT !.bank = bank, !.rent = Nothing,
              !.on = {"active"}, !.email = IF id = e1 THEN amy ELSE eve]]
Rename(id, email) ==
    LET change == Change(id, IF id = e1 THEN k1 ELSE k2, bank1)
    IN [change EXCEPT !.row.email = email]
ChangeBank == [op |-> "bank", as |-> Worker, bank |-> bank2]
LendTo(employee) ==
    [op |-> "lend", as |-> Boss, employee |-> employee, amount |-> 5, monthly |-> 2]
LoginFor(id) == [op |-> "create_login", as |-> Boss, id |-> id, password |-> new]

Items(amount, type) == <<[amount |-> amount, type |-> type]>>
Pay(adjustments) == [op |-> "calculate", as |-> Boss, adjustments |-> adjustments]
Plain == Pay(<<>>)
Adjusting ==
    Pay(e1 :> Items(9, "") @@ amy :> (Items(-2, "") \o Items(6, "bonus"))
                     @@ eve :> Items(4, "earnings") @@ joe :> Items(1, ""))

Three(a, b, d) == c1 :> a @@ c2 :> b @@ c3 :> d
Two(a, b) == Three(a, b, Idle)
Alone(a) == Three(a, Idle, Idle)

Reading ==
    {Alone(AskOf(op, Boss, id)) :
         op \in {"get_employee", "get_cadre", "balances"}, id \in {e1, k1}}
    \cup {Alone(Ask(op, Boss)) :
              op \in {"list_employees", "list_cadres", "list_rules", "list_loans", "list_leaves",
                      "list_leave_types", "get_settings", "plans", "get_subscription",
                      "invoices", "list_runs"}}
    \cup {Alone(Ask(op, Root)) : op \in {"stats", "organizations"}}
    \cup {Alone(Ask(op, Worker)) : op \in {"profile", "plans", "list_employees"}}

Reporting ==
    {"paye", "pension", "nhf", "bank_schedule", "summary", "all_payslips", "get_run", "run_status"}
ReportCalls ==
    {Alone(AskOf(op, who, r1)) : op \in Reporting, who \in {Boss, Worker}}
    \cup {Alone(AskOf("payslip", Boss, r1) @@ [employee |-> e]) : e \in {e1, u1}}
    \cup {Two(Plain, After(AskOf("summary", Boss, c1), c1)),
          Two(AskOf("bank_schedule", Boss, r1), ChangeBank),
          Two(Ask("my_payslips", Worker), Change(e2, k1, bank2)),
          Two(Ask("dashboard", Worker), HireAll("hire", <<zoe>>))}

AccountCalls ==
    {Three(RegisterAs(zoe), RegisterAs(zoe), InviteAs(zoe)),
     Three(Named("forgot", ann), With("reset", c1), Named("login", ann)),
     Three(InviteAs(zoe), With("accept", c1), With("accept", c1)),
     Three(Ask("resend", Boss), With("verify", c1), Named("forgot", ann)),
     Three(With("verify", link), Ask("resend", Boss), Named("forgot", ann)),
     Three(RegisterAs(zoe), After(Ask("resend", As(c1, c1, "admin")), c1), With("verify", c1)),
     Three(Setting({"nhf"}, {"paye"}), AskOf("suspend", Root, b1), AskOf("activate", Root, b1)),
     Three(SubscribeTo(b1, "pro"), SubscribeTo(b1, "free"), CancelOf(b1)),
     Three(SubscribeTo(b2, "pro"), CancelOf(b2), SubscribeTo(b2, "free")),
     Three(LoginFor(e1), LoginFor(e1), Named("employee_login", amy)),
     Three(RegisterAs(amy), LoginFor(e1), InviteAs(amy))}

StaffCalls ==
    {Three(SubmitFor(e1, 3), AskOf("approve", Boss, v1), AskOf("approve", Boss, v1)),
     Three(AskOf("approve", Boss, v1), AskOf("approve", Boss, v2), AskOf("reject", Boss, v1)),
     Three(SubmitFor(e2, 3), SubmitFor(e2, 2), AskOf("approve", Boss, c1)),
     Two([op |-> "create_leave_type", as |-> Boss, days |-> 10], SubmitFor(e1, 0)),
     Three(Rename(e1, zoe), HireAll("hire", <<zoe>>), Rename(e2, zoe)),
     Three(Rename(e1, zoe), LoginFor(e1), AskOf("deactivate", Boss, e1)),
     Three(HireAll("hire", <<zoe>>), HireAll("import", <<zoe, joe>>), HireAll("hire", <<joe>>)),
     Three(CadreAs("create_cadre", Nothing, "lead", Senior),
           CadreAs("create_cadre", Nothing, "lead", Junior \o Junior),
           CadreAs("create_cadre", Nothing, "lead", Junior)),
     Three(RuleAs("create_rule", Nothing, "club"), RuleAs("update_rule", d1, "club"),
           AskOf("delete_rule", Boss, d1)),
     Two(AskOf("delete_rule", As(u1, b1, "operator"), d1), HireAll("hire", <<amy>>))}

PayCalls ==
    {Three(CadreAs("update_cadre", k2, "junior", Junior), AskOf("delete_cadre", Boss, k2), Plain),
     Three(Change(e1, k2, bank1), AskOf("deactivate", Boss, e2), Plain),
     Three(Change(e2, k1, bank2), ChangeBank, Plain),
     Three(LendTo(e1), AskOf("cancel_loan", Boss, l1), Plain),
     Two(Setting({"nhf", "nsitf"}, {}), Adjusting),
     Two(RuleAs("create_rule", Nothing, "club"), Plain),
     Two(AskOf("deactivate", Boss, e2), After(Plain, c1)),
     Two(AskOf("delete_cadre", Boss, k1), Adjusting),
     Two(AskOf("delete_cadre", Boss, k1), HireAll("import", <<joe, zoe>>))}

AllWorkloads == Reading \cup ReportCalls \cup AccountCalls \cup StaffCalls \cup PayCalls
Deactivating == {Two(AskOf("deactivate", Boss, e2), After(Plain, c1))}

Given(migrated, plans, paystack) == [migrated |-> migrated, plans |-> plans, paystack |-> paystack]
Settings == {Given(TRUE, {"free", "pro"}, TRUE), Given(FALSE, {"pro"}, FALSE)}
=============================================================================
