------------------------------ MODULE Accounts ------------------------------
(***************************************************************************)
(* The accounts of employees: the ways to create one, its address and its  *)
(* password, and the mails that tell its holder the password.              *)
(*                                                                         *)
(* An onboarding mails the generated password inside the transaction that  *)
(* inserts the row, as a reset does; a bulk upload commits all its rows    *)
(* first and mails afterwards.  Addresses are compared as they are stored; *)
(* onboarding and uploads store them in lower case, edits as written.      *)
(***************************************************************************)

CONSTANTS
  Employees,   \* ids of rows
  Emails,      \* addresses, as somebody may write them
  Lower,       \* Lower[email] is the address in lower case
  Passwords,   \* passwords, generated or chosen
  Procs,       \* handlers that may be running at the same time
  Unknown      \* no password has been told yet

ASSUME LowerAssumption == Lower \in [Emails -> Emails]
ASSUME UnknownAssumption == Unknown \notin Passwords

VARIABLES
  acct,        \* table Employee: address and password of each row there is
  uploaded,    \* the ids a bulk upload inserted (history)
  told,        \* the last password that was mailed to each employee
  req          \* what each handler will do next, with what it has read

vars == <<acct, uploaded, told, req>>

Idle == [at |-> "idle"]
AccountRow == [email : Emails, password : Passwords]
\* Welcome mails still to be sent.
Mails == UNION {[S -> Passwords] : S \in SUBSET Employees}

Continuation ==
  {Idle}
  \cup [at : {"create"}, email : Emails]
  \cup [at : {"createTx"}, id : Employees, email : Emails, password : Passwords]
  \cup [at : {"welcome"}, owed : Mails]
  \cup [at : {"edit"}, by : Emails, email : Emails, password : Passwords]
  \cup [at : {"change"}, by : Emails, password : Passwords]
  \cup [at : {"reset"}, id : Employees]
  \cup [at : {"resetTx"}, id : Employees, password : Passwords]

TypeOK ==
  /\ DOMAIN acct \subseteq Employees
  /\ acct \in [DOMAIN acct -> AccountRow]
  /\ uploaded \subseteq DOMAIN acct
  /\ told \in [Employees -> Passwords \cup {Unknown}]
  /\ req \in [Procs -> Continuation]

Init ==
  /\ acct = [e \in {} |-> {}]
  /\ uploaded = {}
  /\ told = [e \in Employees |-> Unknown]
  /\ req = [p \in Procs |-> Idle]

-----------------------------------------------------------------------------

Goto(p, k) == req' = [req EXCEPT ![p] = k]
Finish(p) == Goto(p, Idle)
At(p, label) == req[p].at = label

\* Table t with the rows of u, whose keys are new.
InsertAll(t, u) == [e \in DOMAIN t \cup DOMAIN u |-> IF e \in DOMAIN u THEN u[e] ELSE t[e]]

\* The row with an address, if there is one.
HasEmail(e, email) == e \in DOMAIN acct /\ acct[e].email = email
Taken(email) == \E e \in Employees : HasEmail(e, email)

NoneHeld(e) == FALSE  \* mutant: nobody waits
\* A reset that has not committed holds the row lock on its account, an onboarding
\* that has not committed the entry for its address in the unique index.
Held(e) == \E p \in Procs : At(p, "resetTx") /\ req[p].id = e
Reserved(email) == \E p \in Procs : At(p, "createTx") /\ req[p].email = email
Inserted == {e \in Employees : \E p \in Procs : At(p, "createTx") /\ req[p].id = e}
Fresh == Employees \ (DOMAIN acct \cup Inserted)

\* The unique index lets an address in.
Free(email) == ~ Taken(email) /\ ~ Reserved(email)

\* A generated password is none of those in use.
Owed(p) == IF At(p, "welcome") THEN {req[p].owed[e] : e \in DOMAIN req[p].owed} ELSE {}
InUse == {acct[e].password : e \in DOMAIN acct}
         \cup {told[e] : e \in Employees}
         \cup {req[p].password : p \in {q \in Procs : "password" \in DOMAIN req[q]}}
         \cup UNION {Owed(p) : p \in Procs}
Generated == Passwords \ InUse

-----------------------------------------------------------------------------
(* Creation.                                                               *)

\* createOrgMgtEmployee, onboardEmpToMyOrg, onboardEmpToClient: the address is
\* checked as written, and put in lower case afterwards.
Onboard(p, email) ==
  /\ At(p, "idle")
  /\ ~ Taken(email)
  /\ Goto(p, [at |-> "create", email |-> Lower[email]])
  /\ UNCHANGED <<acct, uploaded, told>>

\* The row is inserted, unless the address in lower case is taken, and its password
\* is mailed.  (A branch, department or client that is not there makes it fail.)
OnboardMail(p) ==
  /\ At(p, "create")
  /\ Free(req[p].email)
  /\ \E e \in Fresh, password \in Generated :
       /\ told' = [told EXCEPT ![e] = password]
       /\ Goto(p, [at |-> "createTx", id |-> e, email |-> req[p].email, password |-> password])
  /\ UNCHANGED <<acct, uploaded>>

OnboardCommit(p) ==
  /\ At(p, "createTx")
  /\ LET row == [email |-> req[p].email, password |-> req[p].password]
     IN  acct' = InsertAll(acct, [e \in {req[p].id} |-> row])
  /\ Finish(p)
  /\ UNCHANGED <<uploaded, told>>

\* assignProperties, assignClientEmployeeProperties: the rows of a file, their
\* addresses in lower case and a generated password in each.
FileRows(rows) ==
  /\ rows # [e \in {} |-> {}]
  /\ DOMAIN rows \subseteq Fresh
  /\ \A e \in DOMAIN rows :
       Lower[rows[e].email] = rows[e].email /\ rows[e].password \in Generated
  /\ \A e, f \in DOMAIN rows : rows[e].password = rows[f].password => e = f

\* bulkCreateEmployee, bulkCreateClientEmployee: createMany inserts all the rows of
\* the file, or none, and commits.
Upload(p, rows) ==
  /\ At(p, "idle")
  /\ FileRows(rows)
  /\ \A e \in DOMAIN rows : Free(rows[e].email)
  /\ \A e, f \in DOMAIN rows : rows[e].email = rows[f].email => e = f
  /\ acct' = InsertAll(acct, rows)
  /\ uploaded' = uploaded \cup DOMAIN rows
  /\ Goto(p, [at |-> "welcome", owed |-> [e \in DOMAIN rows |-> rows[e].password]])
  /\ UNCHANGED told

\* What is owed but to e; the request ends with the last mail.
StillOwed(p, e) ==
  LET rest == DOMAIN req[p].owed \ {e}
  IN  IF rest = {} THEN Idle
      ELSE [at |-> "welcome", owed |-> [f \in rest |-> req[p].owed[f]]]

\* Mutant: the whole row goes into the mail.
WelcomeMailRow(p, e) ==
  /\ At(p, "welcome")
  /\ e \in DOMAIN req[p].owed
  /\ told' = [told EXCEPT ![e] = acct[e]]
  /\ Goto(p, StillOwed(p, e))
  /\ UNCHANGED <<acct, uploaded>>

\* sendBulkEmails hands all the mails over at once; they arrive in any order.
WelcomeMail(p, e) ==
  /\ At(p, "welcome")
  /\ e \in DOMAIN req[p].owed
  /\ told' = [told EXCEPT ![e] = req[p].owed[e]]
  /\ Goto(p, StillOwed(p, e))
  /\ UNCHANGED <<acct, uploaded>>

\* A mail that is refused makes the request fail; the others are on their way.
WelcomeRefused(p, e) ==
  /\ At(p, "welcome")
  /\ e \in DOMAIN req[p].owed
  /\ Goto(p, StillOwed(p, e))
  /\ UNCHANGED <<acct, uploaded, told>>

-----------------------------------------------------------------------------
(* Addresses and passwords.                                                *)

\* editEmployeeProfile, up to validateRequest, for the holder of a token with address
\* by.  email = by stands for a request that gives no address; one that gives no
\* password fails.
EditProfile(p, by, email, password) ==
  /\ At(p, "idle")
  /\ Taken(by)
  /\ email # by => ~ Taken(email)
  /\ Goto(p, [at |-> "edit", by |-> by, email |-> email, password |-> password])
  /\ UNCHANGED <<acct, uploaded, told>>

\* Mutant: relies on the validation.
EditCommitUnchecked(p) ==
  /\ At(p, "edit")
  /\ \E e \in Employees :
       /\ HasEmail(e, req[p].by)
       /\ ~ Held(e)
       /\ acct' = [acct EXCEPT ![e] = [email |-> req[p].email, password |-> req[p].password]]
  /\ Finish(p)
  /\ UNCHANGED <<uploaded, told>>

\* editEmployee updates whoever has the address by now.
EditCommit(p) ==
  /\ At(p, "edit")
  /\ req[p].email # req[p].by => Free(req[p].email)
  /\ \E e \in Employees :
       /\ HasEmail(e, req[p].by)
       /\ ~ Held(e)
       /\ acct' = [acct EXCEPT ![e] = [email |-> req[p].email, password |-> req[p].password]]
  /\ Finish(p)
  /\ UNCHANGED <<uploaded, told>>

\* updateEmployeeWorkDetails sets the address as well, if it is given, and checks nothing.
UpdateWorkInfo(e, email) ==
  /\ e \in DOMAIN acct
  /\ ~ Held(e)
  /\ Free(email)
  /\ acct' = [acct EXCEPT ![e].email = email]
  /\ UNCHANGED <<uploaded, told, req>>

\* changeMyPassword, up to validatePassword.
ChangePassword(p, by, current, password) ==
  /\ At(p, "idle")
  /\ \E e \in Employees : HasEmail(e, by) /\ acct[e].password = current
  /\ Goto(p, [at |-> "change", by |-> by, password |-> password])
  /\ UNCHANGED <<acct, uploaded, told>>

\* Updates whoever has the address by now; the mail of a change holds no password.
ChangeCommit(p) ==
  /\ At(p, "change")
  /\ \E e \in Employees :
       /\ HasEmail(e, req[p].by)
       /\ ~ Held(e)
       /\ acct' = [acct EXCEPT ![e].password = req[p].password]
  /\ Finish(p)
  /\ UNCHANGED <<uploaded, told>>

\* resetEmployeePassword, asked for by somebody with another address.
ResetPassword(p, e) ==
  /\ At(p, "idle")
  /\ e \in DOMAIN acct
  /\ \E asker \in Emails : asker # acct[e].email
  /\ Goto(p, [at |-> "reset", id |-> e])
  /\ UNCHANGED <<acct, uploaded, told>>

\* Mutant: the mail is left for later.
ResetUnmailed(p) ==
  /\ At(p, "reset")
  /\ ~ Held(req[p].id)
  /\ \E password \in Generated :
       Goto(p, [at |-> "resetTx", id |-> req[p].id, password |-> password])
  /\ UNCHANGED <<acct, uploaded, told>>

\* The row is updated, by id, and its new password is mailed to its address.
ResetMail(p) ==
  /\ At(p, "reset")
  /\ ~ Held(req[p].id)
  /\ \E password \in Generated :
       /\ told' = [told EXCEPT ![req[p].id] = password]
       /\ Goto(p, [at |-> "resetTx", id |-> req[p].id, password |-> password])
  /\ UNCHANGED <<acct, uploaded>>

ResetCommit(p) ==
  /\ At(p, "resetTx")
  /\ acct' = [acct EXCEPT ![req[p].id].password = req[p].password]
  /\ Finish(p)
  /\ UNCHANGED <<uploaded, told>>

\* A check or a query fails, a mail is not accepted, the transaction takes longer
\* than Prisma allows, or the process restarts: mails still owed are never sent.
Fail(p) ==
  /\ ~ At(p, "idle")
  /\ Finish(p)
  /\ UNCHANGED <<acct, uploaded, told>>

-----------------------------------------------------------------------------

CreationRequests(p) ==
  \/ \E email \in Emails : Onboard(p, email)
  \/ \E S \in SUBSET Employees : \E rows \in [S -> AccountRow] : Upload(p, rows)

PasswordRequests(p) ==
  \/ \E by \in Emails, current, password \in Passwords : ChangePassword(p, by, current, password)
  \/ \E e \in Employees : ResetPassword(p, e)

Arrive(p) ==
  \/ CreationRequests(p) \/ PasswordRequests(p)
  \/ \E by, email \in Emails, password \in Passwords : EditProfile(p, by, email, password)

Advance(p) ==
  \/ OnboardMail(p) \/ OnboardCommit(p) \/ EditCommit(p)
  \/ ChangeCommit(p) \/ ResetMail(p) \/ ResetCommit(p)
  \/ \E e \in Employees : WelcomeMail(p, e) \/ WelcomeRefused(p, e)

AtOnce == \E e \in Employees, email \in Emails : UpdateWorkInfo(e, email)

Next == AtOnce \/ \E p \in Procs : Arrive(p) \/ Advance(p) \/ Fail(p)

Spec == Init /\ [][Next]_vars

-----------------------------------------------------------------------------
(* Properties.                                                             *)

\* No two rows share an address, whatever was validated before they were written,
\* and none has the address of an onboarding that waits for its commit.
AddressesAreUnique ==
  /\ \A e, f \in DOMAIN acct : acct[e].email = acct[f].email => e = f
  /\ \A p, q \in Procs : At(p, "createTx") =>
       /\ ~ Taken(req[p].email)
       /\ At(q, "createTx") /\ req[q].email = req[p].email => q = p

\* A generated password that waits for its commit is the one its holder was mailed
\* last.  Only for the rows of an upload, whose welcome mails leave after the
\* commit, another mail may have come in between.
OpenMailsAreLatest ==
  \A p \in Procs :
    /\ At(p, "createTx") => told[req[p].id] = req[p].password
    /\ At(p, "resetTx") => told[req[p].id] = req[p].password \/ req[p].id \in uploaded

\* The password of a row is set to one its holder was mailed last or will be mailed
\* by the upload that inserts the row, by a reset of a row of an upload, or by a
\* request made with the address the row has.
PasswordsMoveOnlySo ==
  [][\A e \in DOMAIN acct' :
       (e \in DOMAIN acct => acct'[e].password # acct[e].password) =>
         \/ acct'[e].password = told'[e]
         \/ e \notin DOMAIN acct /\ \E p \in Procs :
              req'[p].at = "welcome" /\ e \in DOMAIN req'[p].owed
                /\ req'[p].owed[e] = acct'[e].password
         \/ e \in uploaded /\ \E p \in Procs :
              At(p, "resetTx") /\ req[p].id = e /\ req[p].password = acct'[e].password
         \/ \E p \in Procs : /\ At(p, "edit") \/ At(p, "change")
                             /\ HasEmail(e, req[p].by)
                             /\ acct'[e].password = req[p].password]_vars
=============================================================================
