--------------------------- MODULE BackOfficeProofs ---------------------------
(***************************************************************************)
(* Theorems about BackOffice: types, addresses, and that what is mailed is *)
(* what is stored.                                                         *)
(***************************************************************************)
EXTENDS BackOffice, TLAPS

-----------------------------------------------------------------------------
(* Types.                                                                  *)

\* What moving on or ending means for a handler.
LEMMA GotoType ==
  ASSUME TypeOK, NEW p \in Procs, NEW k \in Continuation, Goto(p, k)
  PROVE  /\ req' \in [Procs -> Continuation]
         /\ \A q \in Procs : req'[q] = IF q = p THEN k ELSE req[q]
  BY DEF Goto, TypeOK

\* What a handler holds, by what it does next.
LEMMA ReqFields ==
  ASSUME TypeOK, NEW p \in Procs
  PROVE  /\ At(p, "onboard") => req[p].email \in Emails /\ req[p].role \in Roles
         /\ At(p, "onboardTx") => /\ req[p].id \in Users /\ req[p].email \in Emails
                                  /\ req[p].password \in Passwords /\ req[p].role \in Roles
         /\ At(p, "edit") => req[p].id \in Users /\ req[p].email \in Emails
         /\ At(p, "role") => req[p].id \in Users /\ req[p].role \in Roles
         /\ At(p, "check") => /\ req[p].id \in Users /\ req[p].email \in Emails
                              /\ req[p].password \in Passwords
         /\ At(p, "change") => req[p].id \in Users /\ req[p].password \in Passwords
         /\ At(p, "reset") => req[p].id \in Users
         /\ At(p, "resetTx") => req[p].id \in Users /\ req[p].password \in Passwords
<1>1. req[p] \in Continuation
  BY DEF TypeOK
<1>. QED BY <1>1 DEF Continuation, At, Idle

-----------------------------------------------------------------------------
(* The inductive invariant.                                                *)

Mailing(k) == k.at \in {"onboardTx", "resetTx"}

\* Accounts are never removed: what a handler holds names one that is there, or,
\* while it is being onboarded, one that nobody else can see.
Sound(k) ==
  /\ k.at \in {"edit", "role", "check", "change", "reset", "resetTx"} => k.id \in DOMAIN user
  /\ k.at = "onboardTx" => k.id \notin DOMAIN user

Known == \A p \in Procs : Sound(req[p])

\* Row locks and fresh ids keep the open transactions apart.
MailsAreApart ==
  \A p, q \in Procs :
    Mailing(req[p]) /\ Mailing(req[q]) /\ req[p].id = req[q].id => p = q

\* Nothing happens before there is a super user.
QuietAtFirst == DOMAIN user = {} => \A p \in Procs : req[p] = Idle

\* OpenMailsAreLatest is preserved only where no two transactions mail the same
\* holder, which takes that onboardings work on ids of their own.
IInv == /\ TypeOK /\ Known /\ QuietAtFirst
        /\ MailsAreApart /\ OpenMailsAreLatest /\ AddressesAreUnique

LEMMA InitIInv == Init => IInv
  BY DEF Init, IInv, TypeOK, Continuation, Idle, Known, Sound, QuietAtFirst,
     MailsAreApart, Mailing, OpenMailsAreLatest, AddressesAreUnique, At

LEMMA IdleSound == Idle \in Continuation /\ Sound(Idle) /\ ~ Mailing(Idle)
  BY DEF Idle, Sound, Mailing, Continuation

\* A step in which a handler only moves on, without opening a transaction.
LEMMA HandlerStep ==
  ASSUME IInv, UNCHANGED <<user, told>>,
         NEW p \in Procs, NEW k \in Continuation, Goto(p, k), Sound(k), ~ Mailing(k),
         DOMAIN user # {} \/ req[p] # Idle
  PROVE  IInv'
<1>1. \A q \in Procs : req'[q] = IF q = p THEN k ELSE req[q]
  BY GotoType DEF IInv
<1>2. TypeOK'
  BY GotoType DEF IInv, TypeOK
<1>3. Known'
  BY <1>1 DEF IInv, Known, Sound
<1>4. MailsAreApart'
  BY <1>1 DEF IInv, MailsAreApart, Mailing
<1>5. OpenMailsAreLatest'
  BY <1>1 DEF IInv, OpenMailsAreLatest, At, Mailing
<1>6. AddressesAreUnique'
  BY <1>1 DEF IInv, AddressesAreUnique, At, Mailing, Taken, HasEmail
<1>7. QuietAtFirst'
  BY <1>1 DEF IInv, QuietAtFirst
<1>. QED BY <1>2, <1>3, <1>4, <1>5, <1>6, <1>7 DEF IInv

\* A step in which a handler writes rows of accounts and ends.  New accounts are
\* its own onboarding's only.
LEMMA WritingStep ==
  ASSUME IInv, NEW p \in Procs, Finish(p), UNCHANGED told,
         DOMAIN user \subseteq DOMAIN user',
         \A u \in DOMAIN user' \ DOMAIN user : At(p, "onboardTx") /\ u = req[p].id,
         DOMAIN user' \subseteq Users, user' \in [DOMAIN user' -> UserRow],
         \A u, w \in DOMAIN user' : user'[u].email = user'[w].email => u = w,
         \A u \in DOMAIN user' : \A q \in Procs \ {p} :
           At(q, "onboardTx") => user'[u].email # req[q].email
  PROVE  IInv'
<1>1. \A q \in Procs : req'[q] = IF q = p THEN Idle ELSE req[q]
  BY GotoType, IdleSound DEF Finish, IInv
<1>2. TypeOK'
  BY GotoType, IdleSound DEF Finish, IInv, TypeOK
<1>3. Known'
  <2>1. ASSUME NEW q \in Procs, q # p PROVE Sound(req[q])'
    <3>1. Sound(req[q])
      BY DEF IInv, Known
    <3>2. req[q].at = "onboardTx" => req[q].id \notin DOMAIN user'
      BY <2>1, <3>1 DEF IInv, MailsAreApart, Mailing, At, Sound
    <3>. QED BY <1>1, <2>1, <3>1, <3>2 DEF Sound
  <2>2. Sound(req[p])'
    BY <1>1 DEF Sound, Idle
  <2>. QED BY <2>1, <2>2 DEF Known
<1>4. MailsAreApart'
  BY <1>1, IdleSound DEF IInv, MailsAreApart, Mailing
<1>5. OpenMailsAreLatest'
  BY <1>1 DEF IInv, OpenMailsAreLatest, At, Idle
<1>6. AddressesAreUnique'
  BY <1>1 DEF IInv, AddressesAreUnique, At, Idle, Taken, HasEmail
<1>7. QuietAtFirst'
  BY <1>1 DEF IInv, QuietAtFirst
<1>. QED BY <1>2, <1>3, <1>4, <1>5, <1>6, <1>7 DEF IInv

\* The rows after a column of one account has been written.
LEMMA ColumnStep ==
  ASSUME IInv, NEW w \in DOMAIN user, NEW p \in Procs, Finish(p), UNCHANGED told,
         NEW row \in UserRow, user' = [user EXCEPT ![w] = row], row.email = user[w].email
  PROVE  IInv'
<1>1. /\ DOMAIN user' = DOMAIN user /\ DOMAIN user \subseteq Users
      /\ user' \in [DOMAIN user' -> UserRow]
      /\ \A u \in DOMAIN user : user'[u].email = user[u].email
  BY DEF IInv, TypeOK
<1>2. \A u \in DOMAIN user : \A q \in Procs : At(q, "onboardTx") => user[u].email # req[q].email
  BY <1>1 DEF IInv, AddressesAreUnique, Taken, HasEmail
<1>3. \A u, x \in DOMAIN user : user[u].email = user[x].email => u = x
  BY DEF IInv, AddressesAreUnique
<1>. QED BY <1>1, <1>2, <1>3, WritingStep

-----------------------------------------------------------------------------
(* Every action preserves it.                                              *)

LEMMA StartIInv ==
  ASSUME IInv, Start
  PROVE  IInv'
<1>1. PICK u \in Users, email \in Emails, password \in Passwords, role \in Roles :
        CreateSuperUser(u, email, password, role)
  BY DEF Start
<1>2. /\ DOMAIN user = {} /\ DOMAIN user' = {u}
      /\ user'[u] = [email |-> email, password |-> password, role |-> role]
      /\ \A p \in Procs : req[p] = Idle /\ req'[p] = Idle
  BY <1>1 DEF CreateSuperUser, Insert, IInv, QuietAtFirst
<1>3. TypeOK'
  BY <1>1, <1>2 DEF CreateSuperUser, Insert, IInv, TypeOK, UserRow
<1>4. Known' /\ QuietAtFirst' /\ MailsAreApart' /\ OpenMailsAreLatest' /\ AddressesAreUnique'
  BY <1>2 DEF Known, Sound, QuietAtFirst, MailsAreApart, Mailing, OpenMailsAreLatest,
     AddressesAreUnique, At, Idle
<1>. QED BY <1>3, <1>4 DEF IInv

LEMMA ArriveIInv ==
  ASSUME IInv, NEW p \in Procs, Arrive(p)
  PROVE  IInv'
<1>1. ASSUME NEW email \in Emails, NEW role \in Roles, Onboard(p, email, role) PROVE IInv'
  <2>. DEFINE k == [at |-> "onboard", email |-> email, role |-> role]
  <2>1. k \in Continuation /\ Sound(k) /\ ~ Mailing(k)
    BY DEF Continuation, Sound, Mailing
  <2>. QED BY <1>1, <2>1, HandlerStep DEF Onboard
<1>2. ASSUME NEW u \in Users, NEW email \in Emails, EditProfile(p, u, email) PROVE IInv'
  <2>. DEFINE k == [at |-> "edit", id |-> u, email |-> email]
  <2>1. k \in Continuation /\ Sound(k) /\ ~ Mailing(k)
    BY <1>2 DEF EditProfile, Continuation, Sound, Mailing
  <2>. QED BY <1>2, <2>1, HandlerStep DEF EditProfile
<1>3. ASSUME NEW u \in Users, NEW role \in Roles, ChangeRole(p, u, role) PROVE IInv'
  <2>. DEFINE k == [at |-> "role", id |-> u, email |-> user[u].email, role |-> role]
  <2>1. k \in Continuation /\ Sound(k) /\ ~ Mailing(k)
    BY <1>3 DEF ChangeRole, Continuation, Sound, Mailing, IInv, TypeOK, UserRow
  <2>. QED BY <1>3, <2>1, HandlerStep DEF ChangeRole
<1>4. ASSUME NEW u \in Users, NEW current \in Passwords, NEW password \in Passwords,
             ChangePassword(p, u, current, password)
      PROVE  IInv'
  <2>. DEFINE k == [at |-> "check", id |-> u, email |-> user[u].email,
                    current |-> current, password |-> password]
  <2>1. k \in Continuation /\ Sound(k) /\ ~ Mailing(k)
    BY <1>4 DEF ChangePassword, Continuation, Sound, Mailing, IInv, TypeOK, UserRow
  <2>. QED BY <1>4, <2>1, HandlerStep DEF ChangePassword
<1>5. ASSUME NEW u \in Users, ResetPassword(p, u) PROVE IInv'
  <2>. DEFINE k == [at |-> "reset", id |-> u]
  <2>1. k \in Continuation /\ Sound(k) /\ ~ Mailing(k)
    BY <1>5 DEF ResetPassword, Continuation, Sound, Mailing
  <2>. QED BY <1>5, <2>1, HandlerStep DEF ResetPassword
<1>. QED BY <1>1, <1>2, <1>3, <1>4, <1>5 DEF Arrive

LEMMA FailIInv ==
  ASSUME IInv, NEW p \in Procs, Fail(p)
  PROVE  IInv'
<1>1. req[p] # Idle
  BY DEF Fail, At, Idle
<1>. QED BY <1>1, IdleSound, HandlerStep DEF Fail, Finish

LEMMA CheckPasswordIInv ==
  ASSUME IInv, NEW p \in Procs, CheckPassword(p)
  PROVE  IInv'
<1>. DEFINE k == [at |-> "change", id |-> req[p].id, email |-> req[p].email,
                  password |-> req[p].password]
<1>1. k \in Continuation /\ Sound(k) /\ ~ Mailing(k)
  BY ReqFields DEF CheckPassword, Continuation, Sound, Mailing, IInv, Known, At
<1>2. req[p] # Idle
  BY DEF CheckPassword, At, Idle
<1>. QED BY <1>1, <1>2, HandlerStep DEF CheckPassword

\* Opening a transaction tells one holder a password, and nobody else's mail is on
\* its way to that holder.
LEMMA MailStep ==
  ASSUME IInv, UNCHANGED user, NEW p \in Procs, NEW k \in Continuation, Goto(p, k),
         Sound(k), Mailing(k), k.id \in Users, k.password \in Passwords,
         told' = [told EXCEPT ![k.id] = k.password], req[p] # Idle,
         \A q \in Procs : Mailing(req[q]) => req[q].id # k.id,
         k.at = "onboardTx" => ~ Taken(k.email) /\ ~ Reserved(k.email)
  PROVE  IInv'
<1>1. \A q \in Procs : req'[q] = IF q = p THEN k ELSE req[q]
  BY GotoType DEF IInv
<1>2. TypeOK'
  BY GotoType DEF IInv, TypeOK
<1>3. Known' /\ QuietAtFirst'
  BY <1>1 DEF IInv, Known, Sound, QuietAtFirst
<1>4. MailsAreApart'
  BY <1>1 DEF IInv, MailsAreApart, Mailing
<1>5. OpenMailsAreLatest'
  <2>1. ASSUME NEW q \in Procs, Mailing(req'[q]) PROVE told'[req'[q].id] = req'[q].password
    <3>1. CASE q = p
      BY <1>1, <3>1 DEF IInv, TypeOK
    <3>2. CASE q # p
      <4>1. Mailing(req[q]) /\ req'[q] = req[q] /\ req[q].id \in Users
        BY <1>1, <2>1, <3>2, ReqFields DEF IInv, Mailing, At
      <4>2. told[req[q].id] = req[q].password
        BY <4>1 DEF IInv, OpenMailsAreLatest, Mailing, At
      <4>. QED BY <4>1, <4>2 DEF IInv, TypeOK
    <3>. QED BY <3>1, <3>2
  <2>. QED BY <2>1 DEF OpenMailsAreLatest, Mailing, At
<1>6. AddressesAreUnique'
  <2>1. \A u, w \in DOMAIN user : user[u].email = user[w].email => u = w
    BY DEF IInv, AddressesAreUnique
  <2>2. \A q \in Procs : At(q, "onboardTx")' => ~ Taken(req'[q].email)
    BY <1>1 DEF IInv, AddressesAreUnique, At, Taken, HasEmail
  <2>3. \A q, r \in Procs :
          At(q, "onboardTx")' /\ At(r, "onboardTx")' /\ req'[r].email = req'[q].email => r = q
    BY <1>1 DEF IInv, AddressesAreUnique, At, Reserved
  <2>. QED BY <2>1, <2>2, <2>3 DEF AddressesAreUnique, Taken, HasEmail
<1>. QED BY <1>2, <1>3, <1>4, <1>5, <1>6 DEF IInv

LEMMA OnboardMailIInv ==
  ASSUME IInv, NEW p \in Procs, OnboardMail(p)
  PROVE  IInv'
<1>1. PICK u \in Users \ (DOMAIN user \cup Inserted), password \in Generated :
        /\ told' = [told EXCEPT ![u] = password]
        /\ Goto(p, [at |-> "onboardTx", id |-> u, email |-> req[p].email,
                    password |-> password, role |-> req[p].role])
  BY DEF OnboardMail
<1>. DEFINE k == [at |-> "onboardTx", id |-> u, email |-> req[p].email,
                  password |-> password, role |-> req[p].role]
<1>2. k \in Continuation /\ Sound(k) /\ Mailing(k) /\ password \in Passwords
  BY ReqFields DEF OnboardMail, Continuation, Sound, Mailing, IInv, Generated
<1>3. \A q \in Procs : Mailing(req[q]) => req[q].id # u
  BY DEF IInv, Known, Sound, Mailing, Inserted, At
<1>4. UNCHANGED user /\ req[p] # Idle /\ ~ Taken(req[p].email) /\ ~ Reserved(req[p].email)
  BY DEF OnboardMail, At, Idle
<1>5. /\ k.id = u /\ k.id \in Users /\ k.email = req[p].email
      /\ k.password = password /\ k.password \in Passwords
  BY <1>2
<1>6. Goto(p, k) /\ told' = [told EXCEPT ![k.id] = k.password]
  BY <1>1
<1>7. /\ \A q \in Procs : Mailing(req[q]) => req[q].id # k.id
      /\ ~ Taken(k.email) /\ ~ Reserved(k.email)
  BY <1>3, <1>4
<1>. HIDE DEF k
<1>. QED BY <1>2, <1>4, <1>5, <1>6, <1>7, MailStep

LEMMA ResetMailIInv ==
  ASSUME IInv, NEW p \in Procs, ResetMail(p)
  PROVE  IInv'
<1>1. PICK password \in Generated :
        /\ told' = [told EXCEPT ![req[p].id] = password]
        /\ Goto(p, [at |-> "resetTx", id |-> req[p].id, password |-> password])
  BY DEF ResetMail
<1>. DEFINE k == [at |-> "resetTx", id |-> req[p].id, password |-> password]
<1>2. k.id \in Users /\ k.id \in DOMAIN user /\ password \in Passwords
  BY ReqFields DEF ResetMail, IInv, Known, Sound, At, Generated
<1>3. k \in Continuation /\ Sound(k) /\ Mailing(k)
  BY <1>2 DEF Continuation, Sound, Mailing
<1>4. \A q \in Procs : Mailing(req[q]) => req[q].id # k.id
  BY <1>2 DEF ResetMail, Held, IInv, Known, Sound, Mailing, At
<1>5. UNCHANGED user /\ req[p] # Idle
  BY DEF ResetMail, At, Idle
<1>6. k.password = password /\ Goto(p, k) /\ told' = [told EXCEPT ![k.id] = k.password]
  BY <1>1
<1>7. k.at # "onboardTx"
  OBVIOUS
<1>. HIDE DEF k
<1>. QED BY <1>2, <1>3, <1>4, <1>5, <1>6, <1>7, MailStep

LEMMA OnboardCommitIInv ==
  ASSUME IInv, NEW p \in Procs, OnboardCommit(p)
  PROVE  IInv'
<1>. DEFINE v == req[p].id
            row == [email |-> req[p].email, password |-> req[p].password, role |-> req[p].role]
<1>1. v \in Users /\ row \in UserRow
  BY ReqFields DEF OnboardCommit, IInv, UserRow
<1>2. v \notin DOMAIN user /\ At(p, "onboardTx")
  BY DEF OnboardCommit, IInv, Known, Sound, At
<1>3. /\ DOMAIN user' = DOMAIN user \cup {v}
      /\ \A u \in DOMAIN user' : user'[u] = IF u = v THEN row ELSE user[u]
      /\ user' = [u \in DOMAIN user' |-> user'[u]]
  BY DEF OnboardCommit, Insert
<1>4. row.email = req[p].email /\ \A u \in DOMAIN user : user[u].email # req[p].email
  BY <1>2 DEF IInv, AddressesAreUnique, Taken, HasEmail, TypeOK
<1>. HIDE DEF row
<1>5. DOMAIN user' \subseteq Users /\ user' \in [DOMAIN user' -> UserRow]
  BY <1>1, <1>3 DEF IInv, TypeOK
<1>6. \A u, w \in DOMAIN user' : user'[u].email = user'[w].email => u = w
  BY <1>3, <1>4 DEF IInv, AddressesAreUnique
<1>7. \A u \in DOMAIN user' : \A q \in Procs \ {p} :
        At(q, "onboardTx") => user'[u].email # req[q].email
  <2>1. \A q \in Procs \ {p} : At(q, "onboardTx") =>
          req[q].email # req[p].email /\ \A u \in DOMAIN user : user[u].email # req[q].email
    BY <1>2 DEF IInv, AddressesAreUnique, Taken, HasEmail, TypeOK
  <2>. QED BY <2>1, <1>3, <1>4
<1>. QED BY <1>2, <1>3, <1>5, <1>6, <1>7, WritingStep DEF OnboardCommit

LEMMA EditCommitIInv ==
  ASSUME IInv, NEW p \in Procs, EditCommit(p)
  PROVE  IInv'
<1>. DEFINE v == req[p].id
<1>1. v \in DOMAIN user /\ req[p].email \in Emails
  BY ReqFields DEF EditCommit, IInv, Known, Sound, At
<1>2. /\ DOMAIN user' = DOMAIN user /\ DOMAIN user \subseteq Users
      /\ user' \in [DOMAIN user' -> UserRow]
      /\ \A u \in DOMAIN user : user'[u].email = IF u = v THEN req[p].email ELSE user[u].email
  BY <1>1 DEF EditCommit, IInv, TypeOK, UserRow
<1>3. \A u \in DOMAIN user : user[u].email # req[p].email
  BY <1>2 DEF EditCommit, Taken, HasEmail
<1>4. \A u, w \in DOMAIN user' : user'[u].email = user'[w].email => u = w
  BY <1>2, <1>3 DEF IInv, AddressesAreUnique
<1>5. \A u \in DOMAIN user' : \A q \in Procs \ {p} :
        At(q, "onboardTx") => user'[u].email # req[q].email
  BY <1>2 DEF EditCommit, Reserved, IInv, AddressesAreUnique, Taken, HasEmail
<1>. QED BY <1>2, <1>4, <1>5, WritingStep DEF EditCommit

LEMMA RoleCommitIInv ==
  ASSUME IInv, NEW p \in Procs, RoleCommit(p)
  PROVE  IInv'
<1>1. PICK w \in DOMAIN user : user' = [user EXCEPT ![w].role = req[p].role]
  BY DEF RoleCommit
<1>. DEFINE row == [user[w] EXCEPT !.role = req[p].role]
<1>2. row \in UserRow /\ row.email = user[w].email /\ user' = [user EXCEPT ![w] = row]
  BY <1>1, ReqFields DEF RoleCommit, IInv, TypeOK, UserRow
<1>. HIDE DEF row
<1>. QED BY <1>2, ColumnStep DEF RoleCommit

LEMMA ChangeCommitIInv ==
  ASSUME IInv, NEW p \in Procs, ChangeCommit(p)
  PROVE  IInv'
<1>1. PICK w \in DOMAIN user : user' = [user EXCEPT ![w].password = req[p].password]
  BY DEF ChangeCommit
<1>. DEFINE row == [user[w] EXCEPT !.password = req[p].password]
<1>2. row \in UserRow /\ row.email = user[w].email /\ user' = [user EXCEPT ![w] = row]
  BY <1>1, ReqFields DEF ChangeCommit, IInv, TypeOK, UserRow
<1>. HIDE DEF row
<1>. QED BY <1>2, ColumnStep DEF ChangeCommit

LEMMA ResetCommitIInv ==
  ASSUME IInv, NEW p \in Procs, ResetCommit(p)
  PROVE  IInv'
<1>. DEFINE w == req[p].id
            row == [user[w] EXCEPT !.password = req[p].password]
<1>1. w \in DOMAIN user
  BY DEF ResetCommit, IInv, Known, Sound, At
<1>2. row \in UserRow /\ row.email = user[w].email /\ user' = [user EXCEPT ![w] = row]
  BY <1>1, ReqFields DEF ResetCommit, IInv, TypeOK, UserRow
<1>. HIDE DEF w, row
<1>. QED BY <1>1, <1>2, ColumnStep DEF ResetCommit

LEMMA NextIInv ==
  ASSUME IInv, [Next]_vars
  PROVE  IInv'
<1>1. CASE Start
  BY <1>1, StartIInv
<1>2. ASSUME NEW p \in Procs, Arrive(p) PROVE IInv'
  BY <1>2, ArriveIInv
<1>3. ASSUME NEW p \in Procs, Advance(p) PROVE IInv'
  BY <1>3, OnboardMailIInv, OnboardCommitIInv, EditCommitIInv, RoleCommitIInv,
     CheckPasswordIInv, ChangeCommitIInv, ResetMailIInv, ResetCommitIInv DEF Advance
<1>4. ASSUME NEW p \in Procs, Fail(p) PROVE IInv'
  BY <1>4, FailIInv
<1>5. CASE UNCHANGED vars
  BY <1>5 DEF vars, IInv, TypeOK, Known, Sound, QuietAtFirst, MailsAreApart, Mailing,
     OpenMailsAreLatest, AddressesAreUnique, At, Taken, HasEmail
<1>. QED BY <1>1, <1>2, <1>3, <1>4, <1>5 DEF Next

LEMMA SpecIInv == Spec => []IInv
  BY InitIInv, NextIInv, PTL DEF Spec

-----------------------------------------------------------------------------
(* Theorems.                                                               *)

\* The table of accounts and what the handlers hold have the right shape.
THEOREM TypeCorrect == Spec => []TypeOK
<1>1. IInv => TypeOK
  BY DEF IInv
<1>. QED BY <1>1, SpecIInv, PTL

\* While a password waits for its commit no later one is mailed to its holder:
\* the onboarding works on a row nobody sees, the reset holds the row lock.
THEOREM MailsAreLatest == Spec => []OpenMailsAreLatest
<1>1. IInv => OpenMailsAreLatest
  BY DEF IInv
<1>. QED BY <1>1, SpecIInv, PTL

\* The unique index keeps addresses apart, those of open onboardings included,
\* for any number of creations and edits validated before.
THEOREM AddressesStayUnique == Spec => []AddressesAreUnique
<1>1. IInv => AddressesAreUnique
  BY DEF IInv
<1>. QED BY <1>1, SpecIInv, PTL

\* The step every account's password must go through, from a state with IInv.
LEMMA PasswordStep ==
  ASSUME IInv, [Next]_vars,
         NEW u \in DOMAIN user', u \in DOMAIN user => user'[u].password # user[u].password
  PROVE  \/ user'[u].password = told'[u]
         \/ \E p \in Procs : /\ At(p, "change") /\ HasEmail(u, req[p].email)
                             /\ user'[u].password = req[p].password
<1>. DEFINE Goal == \/ user'[u].password = told'[u]
                    \/ \E p \in Procs : /\ At(p, "change") /\ HasEmail(u, req[p].email)
                                        /\ user'[u].password = req[p].password
<1>1. ASSUME UNCHANGED user PROVE FALSE
  BY <1>1
<1>2. CASE Start
  <2>1. PICK w \in Users, email \in Emails, password \in Passwords, role \in Roles :
          CreateSuperUser(w, email, password, role)
    BY <1>2 DEF Start
  <2>2. DOMAIN user = {}
    BY <2>1 DEF CreateSuperUser
  <2>3. u = w /\ user'[u].password = password /\ told'[u] = password
    BY <2>1, <2>2 DEF CreateSuperUser, Insert, IInv, TypeOK
  <2>. QED BY <2>3
<1>3. ASSUME NEW p \in Procs, OnboardCommit(p) PROVE Goal
  <2>1. u = req[p].id /\ user'[u].password = req[p].password
    BY <1>3 DEF OnboardCommit, Insert
  <2>. QED BY <1>3, <2>1 DEF OnboardCommit, IInv, OpenMailsAreLatest
<1>4. ASSUME NEW p \in Procs, EditCommit(p) PROVE FALSE
  BY <1>4, ReqFields DEF EditCommit, IInv, Known, Sound, At, TypeOK, UserRow
<1>5. ASSUME NEW p \in Procs, RoleCommit(p) PROVE FALSE
  BY <1>5, ReqFields DEF RoleCommit, IInv, TypeOK, UserRow
<1>6. ASSUME NEW p \in Procs, ChangeCommit(p) PROVE Goal
  <2>1. PICK w \in DOMAIN user : /\ HasEmail(w, req[p].email)
                                 /\ user' = [user EXCEPT ![w].password = req[p].password]
    BY <1>6 DEF ChangeCommit
  <2>2. u = w /\ user'[u].password = req[p].password
    BY <2>1 DEF IInv, TypeOK, UserRow
  <2>. QED BY <1>6, <2>1, <2>2 DEF ChangeCommit
<1>7. ASSUME NEW p \in Procs, ResetCommit(p) PROVE Goal
  <2>1. req[p].id \in DOMAIN user
    BY <1>7 DEF ResetCommit, IInv, Known, Sound, At
  <2>2. u = req[p].id /\ user'[u].password = req[p].password
    BY <1>7, <2>1 DEF ResetCommit, IInv, TypeOK, UserRow
  <2>. QED BY <1>7, <2>2 DEF ResetCommit, IInv, OpenMailsAreLatest
<1>8. ASSUME NEW p \in Procs, Arrive(p) PROVE FALSE
  BY <1>1, <1>8 DEF Arrive, Onboard, EditProfile, ChangeRole, ChangePassword, ResetPassword
<1>9. ASSUME NEW p \in Procs, OnboardMail(p) \/ CheckPassword(p) \/ ResetMail(p) \/ Fail(p)
      PROVE  FALSE
  BY <1>1, <1>9 DEF OnboardMail, CheckPassword, ResetMail, Fail
<1>10. CASE UNCHANGED vars
  BY <1>1, <1>10 DEF vars
<1>. QED BY <1>2, <1>3, <1>4, <1>5, <1>6, <1>7, <1>8, <1>9, <1>10 DEF Next, Advance

\* However resets, changes, edits and restarts are interleaved, an account's
\* password becomes the one its holder was mailed last or one asked for by
\* somebody who knew the password at its address.
THEOREM PasswordsMoveOnlySo == Spec => PasswordsChangeOnlySo
<1>. DEFINE Step == \A u \in DOMAIN user' :
       (u \in DOMAIN user => user'[u].password # user[u].password) =>
         \/ user'[u].password = told'[u]
         \/ \E p \in Procs : /\ At(p, "change") /\ HasEmail(u, req[p].email)
                             /\ user'[u].password = req[p].password
<1>1. IInv /\ [Next]_vars => [Step]_vars
  BY PasswordStep
<1>. QED BY <1>1, SpecIInv, PTL DEF Spec, PasswordsChangeOnlySo

-----------------------------------------------------------------------------
(* What addresses are good for while nobody edits them.                    *)

\* The account a change was asked for still has the address read for it.
AddressKept ==
  \A p \in Procs : Addressed(p) => req[p].email = user[req[p].id].email

LEMMA InitKept == Init => AddressKept
  BY DEF Init, AddressKept, Addressed, At, Idle

\* What a step may do to addresses: only the edit of an account writes one.
LEMMA AddressStep ==
  ASSUME IInv, [Next]_vars, NEW u \in DOMAIN user
  PROVE  /\ u \in DOMAIN user'
         /\ \/ user'[u].email = user[u].email
            \/ \E p \in Procs : EditCommit(p) /\ req[p].id = u
<1>. DEFINE Goal == /\ u \in DOMAIN user'
                    /\ \/ user'[u].email = user[u].email
                       \/ \E p \in Procs : EditCommit(p) /\ req[p].id = u
<1>1. CASE UNCHANGED user
  BY <1>1
<1>2. ASSUME Start PROVE FALSE
  BY <1>2 DEF Start, CreateSuperUser
<1>3. ASSUME NEW p \in Procs, OnboardCommit(p) PROVE Goal
  <2>1. req[p].id \notin DOMAIN user
    BY <1>3 DEF OnboardCommit, IInv, Known, Sound, At
  <2>. QED BY <1>3, <2>1 DEF OnboardCommit, Insert
<1>4. ASSUME NEW p \in Procs, EditCommit(p) PROVE Goal
  BY <1>4 DEF EditCommit, IInv, TypeOK, UserRow
<1>5. ASSUME NEW p \in Procs, RoleCommit(p) \/ ChangeCommit(p) \/ ResetCommit(p) PROVE Goal
  <2>1. /\ RoleCommit(p) => req[p].role \in Roles
        /\ ~ RoleCommit(p) => req[p].password \in Passwords
    BY <1>5, ReqFields DEF RoleCommit, ChangeCommit, ResetCommit, IInv
  <2>. QED BY <1>5, <2>1 DEF RoleCommit, ChangeCommit, ResetCommit, IInv, TypeOK, UserRow
<1>6. ASSUME NEW p \in Procs, Arrive(p) PROVE UNCHANGED user
  BY <1>6 DEF Arrive, Onboard, EditProfile, ChangeRole, ChangePassword, ResetPassword
<1>7. ASSUME NEW p \in Procs, OnboardMail(p) \/ CheckPassword(p) \/ ResetMail(p) \/ Fail(p)
      PROVE  UNCHANGED user
  BY <1>7 DEF OnboardMail, CheckPassword, ResetMail, Fail
<1>. QED BY <1>1, <1>2, <1>3, <1>4, <1>5, <1>6, <1>7 DEF Next, Advance, vars

\* A handler that is to look an account up has been at it, or has just read its address.
LEMMA AddressedStep ==
  ASSUME IInv, [Next]_vars, NEW p \in Procs, Addressed(p)'
  PROVE  \/ Addressed(p) /\ req'[p].id = req[p].id /\ req'[p].email = req[p].email
         \/ UNCHANGED user /\ req'[p].email = user[req'[p].id].email
<1>. DEFINE Goal == \/ Addressed(p) /\ req'[p].id = req[p].id /\ req'[p].email = req[p].email
                    \/ UNCHANGED user /\ req'[p].email = user[req'[p].id].email
<1>1. CASE req'[p] = req[p]
  BY <1>1 DEF Addressed, At
<1>0. ASSUME NEW q \in Procs, NEW k, Goto(q, k)
      PROVE  req'[p] = IF q = p THEN k ELSE req[p]
  BY <1>0 DEF Goto, IInv, TypeOK
<1>2. ASSUME NEW q \in Procs, NEW k, Goto(q, k), k.at \notin {"role", "check", "change"}
      PROVE  Goal
  <2>1. CASE q = p
    BY <1>0, <1>2, <2>1 DEF Addressed, At
  <2>. QED BY <1>0, <1>1, <1>2, <2>1
<1>3. CASE Start
  BY <1>1, <1>3 DEF Start, CreateSuperUser
<1>4. ASSUME NEW q \in Procs, Arrive(q) PROVE Goal
  <2>1. ASSUME NEW email \in Emails, NEW role \in Roles, Onboard(q, email, role) PROVE Goal
    BY <1>2, <2>1 DEF Onboard
  <2>2. ASSUME NEW u \in Users, NEW email \in Emails, EditProfile(q, u, email) PROVE Goal
    BY <1>2, <2>2 DEF EditProfile
  <2>3. ASSUME NEW u \in Users, NEW role \in Roles, ChangeRole(q, u, role) PROVE Goal
    <3>. DEFINE k == [at |-> "role", id |-> u, email |-> user[u].email, role |-> role]
    <3>1. UNCHANGED user /\ req'[p] = IF q = p THEN k ELSE req[p]
      BY <1>0, <2>3 DEF ChangeRole
    <3>. QED BY <1>1, <3>1
  <2>4. ASSUME NEW u \in Users, NEW current \in Passwords, NEW password \in Passwords,
               ChangePassword(q, u, current, password)
        PROVE  Goal
    <3>. DEFINE k == [at |-> "check", id |-> u, email |-> user[u].email,
                      current |-> current, password |-> password]
    <3>1. UNCHANGED user /\ req'[p] = IF q = p THEN k ELSE req[p]
      BY <1>0, <2>4 DEF ChangePassword
    <3>. QED BY <1>1, <3>1
  <2>5. ASSUME NEW u \in Users, ResetPassword(q, u) PROVE Goal
    BY <1>2, <2>5 DEF ResetPassword
  <2>. QED BY <1>4, <2>1, <2>2, <2>3, <2>4, <2>5 DEF Arrive
<1>5. ASSUME NEW q \in Procs, CheckPassword(q) PROVE Goal
  <2>. DEFINE k == [at |-> "change", id |-> req[q].id, email |-> req[q].email,
                    password |-> req[q].password]
  <2>1. At(q, "check") /\ req'[p] = IF q = p THEN k ELSE req[p]
    BY <1>0, <1>5 DEF CheckPassword
  <2>. QED BY <1>1, <2>1 DEF Addressed
<1>6. ASSUME NEW q \in Procs, OnboardMail(q) PROVE Goal
  BY <1>2, <1>6 DEF OnboardMail
<1>7. ASSUME NEW q \in Procs, ResetMail(q) PROVE Goal
  BY <1>2, <1>7 DEF ResetMail
<1>8. ASSUME NEW q \in Procs, Finish(q) PROVE Goal
  BY <1>2, <1>8 DEF Finish, Idle
<1>9. CASE UNCHANGED vars
  BY <1>1, <1>9 DEF vars
<1>. QED BY <1>3, <1>4, <1>5, <1>6, <1>7, <1>8, <1>9
     DEF Next, Advance, OnboardCommit, EditCommit, RoleCommit, ChangeCommit, ResetCommit, Fail

LEMMA NextKept ==
  ASSUME IInv, EditsApart, AddressKept, [Next]_vars
  PROVE  AddressKept'
<1>1. ASSUME NEW p \in Procs, Addressed(p)' PROVE req'[p].email = user'[req'[p].id].email
  <2>1. CASE UNCHANGED user /\ req'[p].email = user[req'[p].id].email
    BY <2>1
  <2>2. CASE Addressed(p) /\ req'[p].id = req[p].id /\ req'[p].email = req[p].email
    <3>1. req[p].id \in DOMAIN user /\ req[p].email = user[req[p].id].email
      BY <2>2 DEF IInv, Known, Sound, Addressed, At, AddressKept
    <3>2. \A q \in Procs : EditCommit(q) => req[q].id # req[p].id
      BY <2>2 DEF EditsApart, EditCommit
    <3>. QED BY <2>2, <3>1, <3>2, AddressStep
  <2>. QED BY <1>1, <2>1, <2>2, AddressedStep
<1>. QED BY <1>1 DEF AddressKept

\* Without edits of the account in between, the address read names the account asked for.
THEOREM ChangesReachTheirs == Spec /\ []EditsApart => []ChangesReachTheirUser
<1>1. IInv /\ AddressKept => ChangesReachTheirUser
  BY DEF IInv, Known, Sound, AddressKept, Addressed, AddressesAreUnique, ChangesReachTheirUser, HasEmail, At, TypeOK
<1>2. IInv /\ EditsApart /\ AddressKept /\ [Next]_vars => AddressKept'
  BY NextKept
<1>. QED BY InitKept, SpecIInv, <1>1, <1>2, PTL DEF Spec
=============================================================================
