------------------------------ MODULE Accounts ------------------------------
(***************************************************************************)
(* Users and businesses: registration, login, invitations, passwords and   *)
(* e-mail verification (service/auth_service.go), the settings of a        *)
(* business (service/business_service.go), its subscription                *)
(* (service/platform/billing_service.go) and its suspension                *)
(* (service/platform/platform_service.go).                                 *)
(***************************************************************************)
EXTENDS Database

Everyone == {"public", "admin", "operator", "approver", "employee", "super_admin"}
Authenticated == Everyone \ {"public"}
SuperAdmins == {"super_admin"}

-----------------------------------------------------------------------------
(* RegisterBusiness: the business and its admin in one transaction, the    *)
(* default cadre and the free plan on other connections meanwhile.         *)

HandleRegister(c) == Handle(c, "register", Everyone, req[c].email # Nothing)

\* (mutant) The business is inserted outside of the transaction.
RegisterCreatesBusiness_Committed(c) ==
    /\ At(c, "register")
    /\ Writes(c, Put("businesses", c, NewBusiness), "register.user")

RegisterCreatesBusiness(c) ==
    /\ At(c, "register")
    /\ open' = open \cup {c}
    /\ db' = Put("businesses", c, NewBusiness)
    /\ Goes(c, "register.user")
    /\ UNCHANGED <<mem, answer>>

\* The insertion into the unique index of e-mails, which a conflict ends with an error.
InsertUser(c, from, user, to) ==
    /\ At(c, from)
    /\ ~EmailPending(c, user.email)
    /\ IF EmailTaken(c, user.email) THEN Fails(c, "conflict")
       ELSE Writes(c, Put("users", c, UserFromDomain(user)), to)

Admin(c) ==
    [business |-> c, email |-> req[c].email, hash |-> req[c].password, role |-> "admin",
     on |-> {}]

RegisterCreatesAdmin(c) == InsertUser(c, "register.user", Admin(c), "register.link")

Linked(c) == UpdateBusiness(c, [db.businesses[c] EXCEPT !.admin = c])
RegisterLinksAdmin(c) == At(c, "register.link") /\ Writes(c, Linked(c), "register.cadre")

FreeSubscription(business) == [business |-> business, plan |-> "free", status |-> "active"]

\* The errors of two updates are ignored, that of the BVN and that of the tier of the free plan,
\* but they abort the transaction.
Aborted(c) == mem[c] = "aborted"
RegisterAborts(c) ==
    /\ \/ At(c, "register.link") /\ db' = Linked(c) /\ Goes(c, "register.cadre")
       \/ /\ At(c, "register.plan") /\ "free" \in config.plans
          /\ db' = Put("subscriptions", c, FreeSubscription(c))
          /\ Goes(c, "register.vfd")
    /\ mem' = [mem EXCEPT ![c] = "aborted"]
    /\ UNCHANGED <<open, answer>>

\* With the migrations' foreign key the cadre of a business that is not committed is refused,
\* which is only logged.
StandardCadre(business) ==
    [business |-> business, name |-> "Standard", deleted |-> FALSE,
     components |-> <<[name |-> "basic", type |-> "basic", amount |-> 15],
                      [name |-> "housing", type |-> "housing", amount |-> 5],
                      [name |-> "transport", type |-> "transport", amount |-> 3]>>]

RegisterCreatesCadre(c) ==
    /\ At(c, "register.cadre")
    /\ IF config.migrated THEN Skips(c, "register.plan")
       ELSE Writes(c, Put("cadres", c, StandardCadre(c)), "register.plan")

RegisterAssignsPlan(c) ==
    /\ At(c, "register.plan")
    /\ IF "free" \in config.plans
       THEN Writes(c, Put("subscriptions", c, FreeSubscription(c)), "register.vfd")
       ELSE Skips(c, "register.vfd")

\* The corporate account at VFD is optional; once the bank has made it, it must be stored.
RegisterOpensAccount(c) ==
    /\ At(c, "register.vfd")
    /\ \/ Skips(c, "register.commit")
       \/ IF Aborted(c) THEN Fails(c, "error")
          ELSE Writes(c, UpdateBusiness(c, [db.businesses[c] EXCEPT !.on = @ \cup {"vfd"}]),
                      "register.commit")

\* After the commit the call is answered, and sends the verification mail on its own.
RegisterCommits(c) ==
    /\ At(c, "register.commit")
    /\ IF Aborted(c) THEN Fails(c, "error")
       ELSE /\ open' = open \ {c}
            /\ answer' = [answer EXCEPT ![c] = "ok"]
            /\ Goes(c, "resend")
            /\ UNCHANGED <<db, mem>>

Register(c) ==
    \/ HandleRegister(c) \/ RegisterCreatesBusiness(c) \/ RegisterCreatesAdmin(c)
    \/ RegisterLinksAdmin(c) \/ RegisterCreatesCadre(c) \/ RegisterAssignsPlan(c)
    \/ RegisterOpensAccount(c) \/ RegisterCommits(c)

-----------------------------------------------------------------------------
(* Login.                                                                  *)

HandleLogin(c) == Handle(c, "login", Everyone, req[c].email # Nothing)
HandleEmployeeLogin(c) == Handle(c, "employee_login", Everyone, req[c].email # Nothing)

Login(c) ==
    /\ At(c, "login")
    /\ LET id == FindByEmail(c, req[c].email)
       IN Answers(c, IF id # Nothing /\ db.users[id].hash = req[c].password
                     THEN "ok" ELSE "unauthorized")

EmployeeLogin(c) ==
    /\ At(c, "employee_login")
    /\ LET id == FindByEmail(c, req[c].email)
       IN Answers(c, IF /\ id # Nothing
                        /\ db.users[id].role = "employee"
                        /\ db.users[id].hash = req[c].password
                     THEN "ok" ELSE "unauthorized")

\* The login of an employee.  The check for an earlier one compares the employee's id with a
\* column that users do not have, so that only the unique e-mail stops a second login.
HandleCreateLogin(c) ==
    Handle(c, "create_login", {"admin", "operator"}, req[c].password # Nothing)

CreateLoginFindsEmployee(c) ==
    /\ At(c, "create_login")
    /\ Loads(c, "employees", FindEmployee(c, req[c].id, req[c].as.business),
             "create_login.user", "missing")

EmployeeUser(c) ==
    [business |-> req[c].as.business, email |-> mem[c].row.email, hash |-> req[c].password,
     role |-> "employee", on |-> {"verified"}, employee |-> req[c].id]

CreateLoginCreatesUser(c) ==
    /\ At(c, "create_login.user")
    /\ InsertUser(c, "create_login.user", EmployeeUser(c), "create_login.link")

\* An error of the link is only logged.
CreateLoginLinksEmployee(c) ==
    /\ At(c, "create_login.link")
    /\ SavesEmployee(c, [mem[c].row EXCEPT !.user = c], "ok")

LogIn(c) ==
    \/ HandleLogin(c) \/ Login(c) \/ HandleEmployeeLogin(c) \/ EmployeeLogin(c)
    \/ HandleCreateLogin(c) \/ CreateLoginFindsEmployee(c) \/ CreateLoginCreatesUser(c)
    \/ CreateLoginLinksEmployee(c)

-----------------------------------------------------------------------------
(* Invitations.                                                            *)

HandleInvite(c) == Handle(c, "invite", {"admin"}, req[c].email # Nothing)

InviteLooksForUser(c) ==
    /\ At(c, "invite")
    /\ IF FindByEmail(c, req[c].email) # Nothing THEN Answers(c, "conflict")
       ELSE Skips(c, "invite.create")

\* Until the invitation is accepted the password is the token.
Invited(c) ==
    [business |-> req[c].as.business, email |-> req[c].email, hash |-> c, role |-> req[c].role,
     on |-> {}, invite |-> c]

InviteCreatesUser(c) == InsertUser(c, "invite.create", Invited(c), "invite.sent")
InviteAnswers(c) == At(c, "invite.sent") /\ Answers(c, "ok")

HandleAccept(c) == Handle(c, "accept", Everyone, req[c].token # Nothing)

AcceptFindsUser(c) ==
    /\ At(c, "accept")
    /\ LET id == FindByInviteToken(c, req[c].token)
       IN IF id # Nothing /\ "accepted" \in db.users[id].on THEN Answers(c, "conflict")
          ELSE Loads(c, "users", id, "accept.save", "missing")

AcceptSavesPassword(c) ==
    /\ At(c, "accept.save")
    /\ WritesAndAnswers(c,
           UpdateUser(mem[c].id, [mem[c].row EXCEPT !.hash = req[c].password, !.invite = Nothing,
                                                    !.on = @ \cup {"accepted", "verified"}]), "ok")

Invite(c) ==
    \/ HandleInvite(c) \/ InviteLooksForUser(c) \/ InviteCreatesUser(c) \/ InviteAnswers(c)
    \/ HandleAccept(c) \/ AcceptFindsUser(c) \/ AcceptSavesPassword(c)

-----------------------------------------------------------------------------
(* Passwords and the verification of e-mail addresses.  A token may have   *)
(* expired by the time it is used.                                         *)

HandleForgot(c) == Handle(c, "forgot", Everyone, req[c].email # Nothing)

\* The caller is not told whether the address is known.
ForgotFindsUser(c) ==
    /\ At(c, "forgot")
    /\ Loads(c, "users", FindByEmail(c, req[c].email), "forgot.save", "ok")

ForgotSavesToken(c) ==
    /\ At(c, "forgot.save")
    /\ WritesAndAnswers(c, UpdateUser(mem[c].id, [mem[c].row EXCEPT !.reset = c]), "ok")

HandleReset(c) == Handle(c, "reset", Everyone, req[c].token # Nothing)

ResetFindsUser(c) ==
    /\ At(c, "reset")
    /\ \/ Loads(c, "users", FindByResetToken(c, req[c].token), "reset.save", "missing")
       \/ /\ FindByResetToken(c, req[c].token) # Nothing
          /\ Answers(c, "expired")

ResetSavesPassword(c) ==
    /\ At(c, "reset.save")
    /\ WritesAndAnswers(c,
           UpdateUser(mem[c].id, [mem[c].row EXCEPT !.hash = req[c].password, !.reset = Nothing]),
           "ok")

\* The user that SendVerificationEmail is about: the caller, or the admin just registered.
Unverified(c) == IF req[c].op = "register" THEN c ELSE req[c].as.user

HandleResend(c) == Handle(c, "resend", Authenticated, TRUE)

ResendFindsUser(c) ==
    /\ At(c, "resend")
    /\ LET id == FindByID(c, Unverified(c))
       IN IF id # Nothing /\ "verified" \in db.users[id].on THEN Answers(c, "ok")
          ELSE Loads(c, "users", id, "resend.save", "missing")

ResendSavesToken(c) ==
    /\ At(c, "resend.save")
    /\ WritesAndAnswers(c, UpdateUser(mem[c].id, [mem[c].row EXCEPT !.verify = c]), "ok")

HandleVerify(c) == Handle(c, "verify", Everyone, req[c].token # Nothing)

VerifyFindsUser(c) ==
    /\ At(c, "verify")
    /\ \/ Loads(c, "users", FindByVerificationToken(c, req[c].token), "verify.save", "missing")
       \/ /\ FindByVerificationToken(c, req[c].token) # Nothing
          /\ Answers(c, "expired")

VerifySavesUser(c) ==
    /\ At(c, "verify.save")
    /\ WritesAndAnswers(c,
           UpdateUser(mem[c].id, [mem[c].row EXCEPT !.on = @ \cup {"verified"}, !.verify = Nothing]),
           "ok")

Recover(c) ==
    \/ HandleForgot(c) \/ ForgotFindsUser(c) \/ ForgotSavesToken(c)
    \/ HandleReset(c) \/ ResetFindsUser(c) \/ ResetSavesPassword(c)
    \/ HandleResend(c) \/ ResendFindsUser(c) \/ ResendSavesToken(c)
    \/ HandleVerify(c) \/ VerifyFindsUser(c) \/ VerifySavesUser(c)

-----------------------------------------------------------------------------
(* Operations that read the row of a business, change it and write it.     *)

ReadsBusiness(c, from, business, to, missing) ==
    /\ At(c, from)
    /\ Loads(c, "businesses", FindBusiness(c, business), to, missing)

HandleSettings(c) == Handle(c, "settings", {"admin"}, req[c].enable \cup req[c].disable # {})
SettingsRead(c) == ReadsBusiness(c, "settings", req[c].as.business, "settings.save", "missing")

SettingsSave(c) ==
    /\ At(c, "settings.save")
    /\ WritesAndAnswers(c,
           UpdateBusiness(mem[c].id,
               [mem[c].row EXCEPT !.on = (@ \cup req[c].enable) \ req[c].disable]), "ok")

HandleSuspend(c) == Handle(c, "suspend", SuperAdmins, TRUE)
HandleActivate(c) == Handle(c, "activate", SuperAdmins, TRUE)
SuspendReads(c) == ReadsBusiness(c, "suspend", req[c].id, "suspend.save", "missing")
ActivateReads(c) == ReadsBusiness(c, "activate", req[c].id, "activate.save", "missing")

SuspendOrganization(c) ==
    /\ At(c, "suspend.save")
    /\ WritesAndAnswers(c,
           UpdateBusiness(mem[c].id, [mem[c].row EXCEPT !.on = @ \cup {"suspended"},
                                                        !.status = "suspended"]), "ok")

ActivateOrganization(c) ==
    /\ At(c, "activate.save")
    /\ WritesAndAnswers(c,
           UpdateBusiness(mem[c].id, [mem[c].row EXCEPT !.on = @ \ {"suspended"},
                                                        !.status = "active"]), "ok")

Manage(c) ==
    \/ HandleSettings(c) \/ SettingsRead(c) \/ SettingsSave(c)
    \/ HandleSuspend(c) \/ SuspendReads(c) \/ SuspendOrganization(c)
    \/ HandleActivate(c) \/ ActivateReads(c) \/ ActivateOrganization(c)

-----------------------------------------------------------------------------
(* The subscription of a business, of which the database holds one row.    *)

Tier(c) == req[c].tier
Subscribed(c) == FindSubscription(c, req[c].as.business) # Nothing

HandleSubscribe(c) == Handle(c, "subscribe", Authenticated, TRUE)

SubscribeFindsPlan(c) ==
    /\ At(c, "subscribe")
    /\ IF Tier(c) \notin config.plans THEN Answers(c, "missing")
       ELSE IF Tier(c) # "free" /\ ~config.paystack THEN Answers(c, "error")
       ELSE Skips(c, IF Tier(c) = "free" THEN "subscribe.free" ELSE "subscribe.pay")

AssignFreePlan(c) ==
    /\ At(c, "subscribe.free")
    /\ IF Subscribed(c) THEN Answers(c, "error")
       ELSE WritesAndAnswers(c,
                Put("subscriptions", c, FreeSubscription(req[c].as.business)), "ok")

\* Paystack returns the address of the payment, or an error, at the latest after 30 s.
InitializeTransaction(c) ==
    /\ At(c, "subscribe.pay")
    /\ Skips(c, "subscribe.create") \/ Answers(c, "error")

\* A second row is refused by the unique index, which is only logged.
SubscribeCreates(c) ==
    /\ At(c, "subscribe.create")
    /\ Writes(c, IF Subscribed(c) THEN db
                 ELSE Put("subscriptions", c,
                          [business |-> req[c].as.business, plan |-> Tier(c),
                           status |-> "pending"]),
              "subscribe.invoice")

SubscribeInvoices(c) ==
    /\ At(c, "subscribe.invoice")
    /\ Writes(c, Put("invoices", c,
                     [business |-> req[c].as.business, status |-> "pending",
                      subscription |-> IF db.subscriptions[c] = Nothing THEN Nothing ELSE c]),
              "subscribe.read")

SubscribeReads(c) ==
    ReadsBusiness(c, "subscribe.read", req[c].as.business, "subscribe.save", "ok")

SubscribeSaves(c) ==
    /\ At(c, "subscribe.save")
    /\ WritesAndAnswers(c,
           UpdateBusiness(mem[c].id, [mem[c].row EXCEPT !.tier = Tier(c), !.status = "pending"]),
           "ok")

HandleCancelSubscription(c) == Handle(c, "cancel", Authenticated, TRUE)

CancelFindsSubscription(c) ==
    /\ At(c, "cancel")
    /\ Loads(c, "subscriptions", FindSubscription(c, req[c].as.business), "cancel.save", "missing")

CancelSaves(c) ==
    /\ At(c, "cancel.save")
    /\ Writes(c, Put("subscriptions", mem[c].id, [mem[c].row EXCEPT !.status = "cancelled"]),
              "cancel.read")

CancelReads(c) == ReadsBusiness(c, "cancel.read", req[c].as.business, "cancel.downgrade", "ok")

CancelDowngrades(c) ==
    /\ At(c, "cancel.downgrade")
    /\ WritesAndAnswers(c,
           UpdateBusiness(mem[c].id, [mem[c].row EXCEPT !.tier = "free", !.status = "active"]),
           "ok")

Bill(c) ==
    \/ HandleSubscribe(c) \/ SubscribeFindsPlan(c) \/ AssignFreePlan(c)
    \/ InitializeTransaction(c) \/ SubscribeCreates(c) \/ SubscribeInvoices(c)
    \/ SubscribeReads(c) \/ SubscribeSaves(c)
    \/ HandleCancelSubscription(c) \/ CancelFindsSubscription(c) \/ CancelSaves(c)
    \/ CancelReads(c) \/ CancelDowngrades(c)
=============================================================================
