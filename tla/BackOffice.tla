------------------------------ MODULE BackOffice ------------------------------
(***************************************************************************)
(* The accounts of back-office users: onboarding, profiles, roles and      *)
(* passwords.                                                              *)
(*                                                                         *)
(* Onboarding and resetting write the row and mail the generated password  *)
(* inside one transaction, so the row is written, and locked, before the   *)
(* mail leaves and committed after it.  Role and password changes find the *)
(* account by its id, but update it by the e-mail address read there.      *)
(***************************************************************************)

CONSTANTS
  Users,       \* ids of accounts
  Emails,      \* addresses
  Roles,       \* SUPER_ADMIN, SUPPORT, STAFF
  Passwords,   \* passwords, generated or chosen
  Procs,       \* handlers that may be running at the same time
  Unknown      \* no password has been told yet

ASSUME BackOfficeAssumption == Unknown \notin Passwords

VARIABLES
  user,        \* table User: address, password and role of each account there is
  told,        \* the last password that was mailed to the holder of an account
  req          \* what each handler will do next, with what it has read

vars == <<user, told, req>>

Idle == [at |-> "idle"]
UserRow == [email : Emails, password : Passwords, role : Roles]

Continuation ==
  {Idle}
  \cup [at : {"onboard"}, email : Emails, role : Roles]
  \cup [at : {"onboardTx"}, id : Users, email : Emails, password : Passwords, role : Roles]
  \cup [at : {"edit"}, id : Users, email : Emails]
  \cup [at : {"role"}, id : Users, email : Emails, role : Roles]
  \cup [at : {"check"}, id : Users, email : Emails, current : Passwords, password : Passwords]
  \cup [at : {"change"}, id : Users, email : Emails, password : Passwords]
  \cup [at : {"reset"}, id : Users]
  \cup [at : {"resetTx"}, id : Users, password : Passwords]

TypeOK ==
  /\ DOMAIN user \subseteq Users
  /\ user \in [DOMAIN user -> UserRow]
  /\ told \in [Users -> Passwords \cup {Unknown}]
  /\ req \in [Procs -> Continuation]

Init ==
  /\ user = [u \in {} |-> {}]
  /\ told = [u \in Users |-> Unknown]
  /\ req = [p \in Procs |-> Idle]

-----------------------------------------------------------------------------

Goto(p, k) == req' = [req EXCEPT ![p] = k]
Finish(p) == Goto(p, Idle)
At(p, label) == req[p].at = label

Insert(t, key, row) == [x \in DOMAIN t \cup {key} |-> IF x = key THEN row ELSE t[x]]

\* The account at an address, if there is one.
HasEmail(u, email) == u \in DOMAIN user /\ user[u].email = email
Taken(email) == \E u \in Users : HasEmail(u, email)

NoneHeld(u) == FALSE  \* mutant: nobody waits
\* A reset that has not committed holds the row lock on its account, an
\* onboarding that has not committed the entry for its address in the unique index.
Held(u) == \E p \in Procs : At(p, "resetTx") /\ req[p].id = u
Reserved(email) == \E p \in Procs : At(p, "onboardTx") /\ req[p].email = email
Inserted == {u \in Users : \E p \in Procs : At(p, "onboardTx") /\ req[p].id = u}

\* A generated password is none of those in use.
InUse == {user[u].password : u \in DOMAIN user}
         \cup {told[u] : u \in Users}
         \cup {req[p].password : p \in {q \in Procs : "password" \in DOMAIN req[q]}}
Generated == Passwords \ InUse

-----------------------------------------------------------------------------
(* Accounts.                                                               *)

\* When the server first starts it makes the super user of its configuration.
\* Later starts find that account or fail on its unique krisID.
CreateSuperUser(u, email, password, role) ==
  /\ user = [w \in {} |-> {}]
  /\ user' = Insert(user, u, [email |-> email, password |-> password, role |-> role])
  /\ told' = [told EXCEPT ![u] = password]
  /\ UNCHANGED req

\* onboardBackOfficeUser, up to validateRequest; it takes a super admin to ask.
Onboard(p, email, role) ==
  /\ At(p, "idle")
  /\ DOMAIN user # {}
  /\ ~ Taken(email)
  /\ Goto(p, [at |-> "onboard", email |-> email, role |-> role])
  /\ UNCHANGED <<user, told>>

\* The row is inserted, unless somebody was faster, and its password is mailed.
OnboardMail(p) ==
  /\ At(p, "onboard")
  /\ ~ Taken(req[p].email) /\ ~ Reserved(req[p].email)
  /\ \E u \in Users \ (DOMAIN user \cup Inserted), password \in Generated :
       /\ told' = [told EXCEPT ![u] = password]
       /\ Goto(p, [at |-> "onboardTx", id |-> u, email |-> req[p].email,
                   password |-> password, role |-> req[p].role])
  /\ UNCHANGED user

OnboardCommit(p) ==
  /\ At(p, "onboardTx")
  /\ user' = Insert(user, req[p].id, [email |-> req[p].email, password |-> req[p].password,
                                      role |-> req[p].role])
  /\ Finish(p)
  /\ UNCHANGED told

\* editProfile, up to validateRequest.
EditProfile(p, u, email) ==
  /\ At(p, "idle")
  /\ u \in DOMAIN user
  /\ ~ Taken(email)
  /\ Goto(p, [at |-> "edit", id |-> u, email |-> email])
  /\ UNCHANGED <<user, told>>

\* Mutant: relies on the validation.
EditCommitUnchecked(p) ==
  /\ At(p, "edit")
  /\ user' = [user EXCEPT ![req[p].id].email = req[p].email]
  /\ Finish(p)
  /\ UNCHANGED told

\* editUser, by id; the unique index lets it through or not.
EditCommit(p) ==
  /\ At(p, "edit")
  /\ ~ Held(req[p].id)
  /\ ~ Taken(req[p].email) /\ ~ Reserved(req[p].email)
  /\ user' = [user EXCEPT ![req[p].id].email = req[p].email]
  /\ Finish(p)
  /\ UNCHANGED told

-----------------------------------------------------------------------------
(* Roles and passwords.                                                    *)

\* Somebody else than the holder of the account asks.
AskedByAnother(u) == \E w \in DOMAIN user : user[w].email # user[u].email

\* Mutant: keeps the account instead of its address.
ChangeRoleRow(p, u, role) ==
  /\ At(p, "idle")
  /\ u \in DOMAIN user
  /\ AskedByAnother(u)
  /\ Goto(p, [at |-> "role", id |-> u, email |-> user[u], role |-> role])
  /\ UNCHANGED <<user, told>>

\* changeUserRole reads the address of the account it is asked for.
ChangeRole(p, u, role) ==
  /\ At(p, "idle")
  /\ u \in DOMAIN user
  /\ AskedByAnother(u)
  /\ Goto(p, [at |-> "role", id |-> u, email |-> user[u].email, role |-> role])
  /\ UNCHANGED <<user, told>>

RoleCommit(p) ==
  /\ At(p, "role")
  /\ \E w \in DOMAIN user :
       /\ HasEmail(w, req[p].email)
       /\ ~ Held(w)
       /\ user' = [user EXCEPT ![w].role = req[p].role]
  /\ Finish(p)
  /\ UNCHANGED told

\* checkUserPassword: the holder gives the password stored or the one last mailed.
\* (changeUserPassword hands no user to the mail and is always rolled back.)
ChangePassword(p, u, current, password) ==
  /\ At(p, "idle")
  /\ u \in DOMAIN user
  /\ current \in {user[u].password, told[u]} \ {Unknown}
  /\ Goto(p, [at |-> "check", id |-> u, email |-> user[u].email,
              current |-> current, password |-> password])
  /\ UNCHANGED <<user, told>>

\* validatePassword, on the account that now has the address.
CheckPassword(p) ==
  /\ At(p, "check")
  /\ \E w \in DOMAIN user : HasEmail(w, req[p].email) /\ user[w].password = req[p].current
  /\ Goto(p, [at |-> "change", id |-> req[p].id, email |-> req[p].email,
              password |-> req[p].password])
  /\ UNCHANGED <<user, told>>

\* The mail of a password change holds no password.
ChangeCommit(p) ==
  /\ At(p, "change")
  /\ \E w \in DOMAIN user :
       /\ HasEmail(w, req[p].email)
       /\ ~ Held(w)
       /\ user' = [user EXCEPT ![w].password = req[p].password]
  /\ Finish(p)
  /\ UNCHANGED told

\* resetUserPassword compares addresses too, but takes the one in the token of the
\* super admin, who may have another one by now.
ResetPassword(p, u) ==
  /\ At(p, "idle")
  /\ u \in DOMAIN user
  /\ \E asker \in Emails : asker # user[u].email
  /\ Goto(p, [at |-> "reset", id |-> u])
  /\ UNCHANGED <<user, told>>

\* Mutant: the mail is left for later.
ResetUnmailed(p) ==
  /\ At(p, "reset")
  /\ ~ Held(req[p].id)
  /\ \E password \in Generated :
       Goto(p, [at |-> "resetTx", id |-> req[p].id, password |-> password])
  /\ UNCHANGED <<user, told>>

\* The row is updated, by id, and its new password is mailed to its address.
ResetMail(p) ==
  /\ At(p, "reset")
  /\ ~ Held(req[p].id)
  /\ \E password \in Generated :
       /\ told' = [told EXCEPT ![req[p].id] = password]
       /\ Goto(p, [at |-> "resetTx", id |-> req[p].id, password |-> password])
  /\ UNCHANGED user

ResetCommit(p) ==
  /\ At(p, "resetTx")
  /\ user' = [user EXCEPT ![req[p].id].password = req[p].password]
  /\ Finish(p)
  /\ UNCHANGED told

\* A check or a query fails, a mail is not accepted, the transaction takes longer
\* than Prisma allows, or the process restarts.
Fail(p) ==
  /\ ~ At(p, "idle")
  /\ Finish(p)
  /\ UNCHANGED <<user, told>>

-----------------------------------------------------------------------------

Arrive(p) ==
  \/ \E email \in Emails, role \in Roles : Onboard(p, email, role)
  \/ \E u \in Users :
       \/ \E email \in Emails : EditProfile(p, u, email)
       \/ \E role \in Roles : ChangeRole(p, u, role)
       \/ \E current, password \in Passwords : ChangePassword(p, u, current, password)
       \/ ResetPassword(p, u)

Advance(p) ==
  OnboardMail(p) \/ OnboardCommit(p) \/ EditCommit(p) \/ RoleCommit(p)
    \/ CheckPassword(p) \/ ChangeCommit(p) \/ ResetMail(p) \/ ResetCommit(p)

Start ==
  \E u \in Users, email \in Emails, password \in Passwords, role \in Roles :
    CreateSuperUser(u, email, password, role)

Next == Start \/ \E p \in Procs : Arrive(p) \/ Advance(p) \/ Fail(p)

Spec == Init /\ [][Next]_vars

-----------------------------------------------------------------------------
(* Properties.                                                             *)

\* A generated password that waits for its commit is the one its holder was told
\* last.  Two resets of an account race for its row before they mail, so the
\* order of the mails is the order of the commits.
OpenMailsAreLatest ==
  \A p \in Procs : At(p, "onboardTx") \/ At(p, "resetTx") => told[req[p].id] = req[p].password

\* Whatever onboardings and edits were validated before, no two accounts share an
\* address, and none gets one whose onboarding waits for its commit.
AddressesAreUnique ==
  /\ \A u, w \in DOMAIN user : user[u].email = user[w].email => u = w
  /\ \A p, q \in Procs : At(p, "onboardTx") =>
       /\ ~ Taken(req[p].email)
       /\ At(q, "onboardTx") /\ req[q].email = req[p].email => q = p

\* An account gets a password that its holder was told last, or by a change that
\* found the password it asked for at the address of the account.
PasswordsChangeOnlySo ==
  [][\A u \in DOMAIN user' :
       (u \in DOMAIN user => user'[u].password # user[u].password) =>
         \/ user'[u].password = told'[u]
         \/ \E p \in Procs : /\ At(p, "change") /\ HasEmail(u, req[p].email)
                             /\ user'[u].password = req[p].password]_vars

\* "changeRole/:userID": a role change that is about to update an account is about
\* to update the one with the id it was asked for.
RoleChangesReachTheirUser ==
  \A p \in Procs : At(p, "role") =>
    \A w \in Users : HasEmail(w, req[p].email) => w = req[p].id

\* Every change that looks an account up by address.
Addressed(p) == At(p, "role") \/ At(p, "check") \/ At(p, "change")

\* No profile is edited while a change of role or password of its account is under way.
EditsApart ==
  \A p, q \in Procs : At(p, "edit") /\ Addressed(q) => req[p].id # req[q].id

\* A change of role or password finds the account it was asked for, and no other.
ChangesReachTheirUser ==
  \A p \in Procs : Addressed(p) =>
    \A w \in Users : HasEmail(w, req[p].email) <=> w = req[p].id
=============================================================================
