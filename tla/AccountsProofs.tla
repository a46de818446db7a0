---------------------------- MODULE AccountsProofs ----------------------------
(***************************************************************************)
(* Theorems about Accounts: types, addresses, and the passwords that are   *)
(* mailed.                                                                 *)
(***************************************************************************)
EXTENDS Accounts, TLAPS

-----------------------------------------------------------------------------
(* Types.                                                                  *)

\* What moving on or ending means for a handler.
LEMMA GotoType ==
  ASSUME TypeOK, NEW p \in Procs, NEW k \in Continuation, Goto(p, k)
  PROVE  /\ req' \in [Procs -> Continuation]
         /\ \A q \in Procs : req'[q] = IF q = p THEN k ELSE req[q]
  BY DEF Goto, TypeOK

\* What a handler holds, by what it does next.
LEMMA ReqFields ==
  ASSUME TypeOK, NEW p \in Procs
  PROVE  /\ At(p, "create") => req[p].email \in Emails
         /\ At(p, "createTx") => /\ req[p].id \in Employees /\ req[p].email \in Emails
                                 /\ req[p].password \in Passwords
         /\ At(p, "welcome") => req[p].owed \in Mails
         /\ At(p, "edit") => /\ req[p].by \in Emails /\ req[p].email \in Emails
                             /\ req[p].password \in Passwords
         /\ At(p, "change") => req[p].by \in Emails /\ req[p].password \in Passwords
         /\ At(p, "reset") => req[p].id \in Employees
         /\ At(p, "resetTx") => req[p].id \in Employees /\ req[p].password \in Passwords
<1>1. req[p] \in Continuation
  BY DEF TypeOK
<1>. QED BY <1>1 DEF Continuation, At, Idle

LEMMA MailsType ==
  /\ \A S \in SUBSET Employees : \A m \in [S -> Passwords] : m \in Mails
  /\ \A m \in Mails : DOMAIN m \subseteq Employees /\ m \in [DOMAIN m -> Passwords]
  BY DEF Mails

-----------------------------------------------------------------------------
(* The inductive invariant.                                                *)

Mailing(k) == k.at \in {"createTx", "resetTx"}

\* Rows are never removed: what a handler resets is there, what it inserts nobody
\* else sees yet, and what it still owes was uploaded.
Sound(k) ==
  /\ k.at \in {"reset", "resetTx"} => k.id \in DOMAIN acct
  /\ k.at = "createTx" => k.id \notin DOMAIN acct
  /\ k.at = "welcome" => DOMAIN k.owed \subseteq uploaded

Known == \A p \in Procs : Sound(req[p])

\* Row locks and fresh ids keep the open transactions apart.
MailsAreApart ==
  \A p, q \in Procs :
    Mailing(req[p]) /\ Mailing(req[q]) /\ req[p].id = req[q].id => p = q

IInv == TypeOK /\ Known /\ MailsAreApart /\ OpenMailsAreLatest /\ AddressesAreUnique

LEMMA IdleSound == Idle \in Continuation /\ Sound(Idle) /\ ~ Mailing(Idle)
  BY DEF Idle, Sound, Mailing, Continuation

LEMMA InitIInv == Init => IInv
<1>. SUFFICES ASSUME Init PROVE IInv
  OBVIOUS
<1>1. \A p \in Procs : req[p] = Idle
  BY DEF Init
<1>2. TypeOK
  BY DEF Init, TypeOK, Continuation
<1>3. Known /\ MailsAreApart /\ OpenMailsAreLatest
  BY <1>1, IdleSound DEF Known, MailsAreApart, OpenMailsAreLatest, At, Mailing
<1>4. AddressesAreUnique
  BY <1>1, IdleSound DEF Init, AddressesAreUnique, At, Mailing
<1>. QED BY <1>2, <1>3, <1>4 DEF IInv

\* A step in which a handler only moves on, without opening a transaction.
LEMMA HandlerStep ==
  ASSUME IInv, UNCHANGED <<acct, uploaded, told>>,
         NEW p \in Procs, NEW k \in Continuation, Goto(p, k), Sound(k), ~ Mailing(k)
  PROVE  IInv'
<1>1. \A q \in Procs : req'[q] = IF q = p THEN k ELSE req[q]
  BY GotoType DEF IInv
<1>2. TypeOK'
  BY GotoType DEF IInv, TypeOK
<1>3. Known'
  BY <1>1 DEF IInv, Known, Sound
<1>4. MailsAreApart'
  BY <1>1 DEF IInv, MailsAreApart, Mailing
<1>5. OpenMailsAreLatest'
  BY <1>1 DEF IInv, OpenMailsAreLatest, At, Mailing
<1>6. AddressesAreUnique'
  BY <1>1 DEF IInv, AddressesAreUnique, At, Mailing, Taken, HasEmail
<1>. QED BY <1>2, <1>3, <1>4, <1>5, <1>6 DEF IInv

\* A step in which a handler writes rows, and ends or goes on to mail what it has
\* uploaded.
LEMMA WritingStep ==
  ASSUME IInv, NEW p \in Procs, NEW k \in Continuation, Goto(p, k), UNCHANGED told,
         k = Idle \/ (k.at = "welcome" /\ DOMAIN k.owed \subseteq uploaded'),
         DOMAIN acct \subseteq DOMAIN acct', DOMAIN acct' \subseteq Employees,
         acct' \in [DOMAIN acct' -> AccountRow],
         uploaded \subseteq uploaded', uploaded' \subseteq DOMAIN acct',
         \A u \in DOMAIN acct' \ DOMAIN acct : \A q \in Procs \ {p} :
           At(q, "createTx") => u # req[q].id,
         \A u, w \in DOMAIN acct' : acct'[u].email = acct'[w].email => u = w,
         \A u \in DOMAIN acct' : \A q \in Procs \ {p} :
           At(q, "createTx") => acct'[u].email # req[q].email
  PROVE  IInv'
<1>1. \A q \in Procs : req'[q] = IF q = p THEN k ELSE req[q]
  BY GotoType DEF IInv
<1>2. TypeOK'
  BY GotoType DEF IInv, TypeOK
<1>3. ~ Mailing(k)
  BY IdleSound DEF Mailing
<1>4. Known'
  <2>1. ASSUME NEW q \in Procs, q # p PROVE Sound(req[q])'
    <3>1. Sound(req[q]) /\ req'[q] = req[q]
      BY <1>1, <2>1 DEF IInv, Known
    <3>2. req[q].at = "createTx" => req[q].id \notin DOMAIN acct'
      BY <2>1, <3>1 DEF At, Sound
    <3>. QED BY <3>1, <3>2 DEF Sound
  <2>2. Sound(req[p])'
    BY <1>1 DEF Sound, Idle
  <2>. QED BY <2>1, <2>2 DEF Known
<1>5. MailsAreApart'
  BY <1>1, <1>3 DEF IInv, MailsAreApart, Mailing
<1>6. OpenMailsAreLatest'
  BY <1>1, <1>3 DEF IInv, OpenMailsAreLatest, At, Mailing
<1>7. AddressesAreUnique'
  BY <1>1, <1>3 DEF IInv, AddressesAreUnique, At, Mailing, Taken, HasEmail
<1>. QED BY <1>2, <1>4, <1>5, <1>6, <1>7 DEF IInv

\* Opening a transaction tells one holder a password, and nobody else's mail is on
\* its way to that holder.
LEMMA MailStep ==
  ASSUME IInv, UNCHANGED <<acct, uploaded>>, NEW p \in Procs, NEW k \in Continuation, Goto(p, k),
         Sound(k), Mailing(k), k.id \in Employees, k.password \in Passwords,
         told' = [told EXCEPT ![k.id] = k.password],
         \A q \in Procs : Mailing(req[q]) => req[q].id # k.id,
         k.at = "createTx" => Free(k.email)
  PROVE  IInv'
<1>1. \A q \in Procs : req'[q] = IF q = p THEN k ELSE req[q]
  BY GotoType DEF IInv
<1>2. TypeOK'
  BY GotoType DEF IInv, TypeOK
<1>3. Known'
  BY <1>1 DEF IInv, Known, Sound
<1>4. MailsAreApart'
  BY <1>1 DEF IInv, MailsAreApart, Mailing
<1>5. OpenMailsAreLatest'
  <2>1. ASSUME NEW q \in Procs, q # p, Mailing(req[q])
        PROVE  told'[req[q].id] = told[req[q].id]
    BY <2>1, ReqFields DEF IInv, TypeOK, Mailing, At
  <2>2. told'[k.id] = k.password
    BY DEF IInv, TypeOK
  <2>3. ASSUME NEW q \in Procs
        PROVE  /\ At(q, "createTx")' => told'[req'[q].id] = req'[q].password
               /\ At(q, "resetTx")' =>
                    told'[req'[q].id] = req'[q].password \/ req'[q].id \in uploaded
    <3>1. CASE q = p
      BY <1>1, <2>2, <3>1
    <3>2. CASE q # p
      BY <1>1, <2>1, <3>2 DEF IInv, OpenMailsAreLatest, At, Mailing
    <3>. QED BY <3>1, <3>2
  <2>. QED BY <2>3 DEF OpenMailsAreLatest
<1>6. AddressesAreUnique'
  <2>1. \A u, w \in DOMAIN acct : acct[u].email = acct[w].email => u = w
    BY DEF IInv, AddressesAreUnique
  <2>2. \A q \in Procs : At(q, "createTx")' => ~ Taken(req'[q].email)
    BY <1>1 DEF IInv, AddressesAreUnique, At, Taken, HasEmail, Free
  <2>3. \A q, r \in Procs :
          At(q, "createTx")' /\ At(r, "createTx")' /\ req'[r].email = req'[q].email => r = q
    BY <1>1 DEF IInv, AddressesAreUnique, At, Reserved, Free
  <2>. QED BY <2>1, <2>2, <2>3 DEF AddressesAreUnique, Taken, HasEmail
<1>. QED BY <1>2, <1>3, <1>4, <1>5, <1>6 DEF IInv

-----------------------------------------------------------------------------
(* Every action preserves it.                                              *)

\* Rows written in place, at addresses that stay apart.
LEMMA InPlaceStep ==
  ASSUME IInv, NEW p \in Procs, Finish(p), UNCHANGED <<uploaded, told>>,
         NEW w \in DOMAIN acct, NEW row \in AccountRow, acct' = [acct EXCEPT ![w] = row],
         row.email = acct[w].email \/ Free(row.email)
  PROVE  IInv'
<1>1. /\ DOMAIN acct' = DOMAIN acct /\ DOMAIN acct \subseteq Employees
      /\ acct' \in [DOMAIN acct' -> AccountRow]
      /\ \A u \in DOMAIN acct : acct'[u] = IF u = w THEN row ELSE acct[u]
      /\ uploaded' \subseteq DOMAIN acct'
  BY DEF IInv, TypeOK
<1>2. \A u \in DOMAIN acct : u # w => acct[u].email # row.email
  BY <1>1 DEF IInv, AddressesAreUnique, Free, Taken, HasEmail
<1>3. \A u, x \in DOMAIN acct' : acct'[u].email = acct'[x].email => u = x
  BY <1>1, <1>2 DEF IInv, AddressesAreUnique
<1>4. \A u \in DOMAIN acct : \A q \in Procs : At(q, "createTx") => acct[u].email # req[q].email
  BY <1>1 DEF IInv, AddressesAreUnique, Taken, HasEmail
<1>5. \A q \in Procs : At(q, "createTx") => row.email # req[q].email
  BY <1>4 DEF Free, Reserved
<1>6. \A u \in DOMAIN acct' : \A q \in Procs \ {p} : At(q, "createTx") => acct'[u].email # req[q].email
  BY <1>1, <1>4, <1>5
<1>7. Idle \in Continuation /\ Goto(p, Idle)
  BY IdleSound DEF Finish
<1>. QED BY <1>1, <1>3, <1>6, <1>7, WritingStep

LEMMA ArriveIInv ==
  ASSUME IInv, NEW p \in Procs,
         \/ \E email \in Emails : Onboard(p, email)
         \/ \E by, email \in Emails, password \in Passwords : EditProfile(p, by, email, password)
         \/ \E by \in Emails, current, password \in Passwords :
              ChangePassword(p, by, current, password)
         \/ \E e \in Employees : ResetPassword(p, e)
  PROVE  IInv'
<1>1. ASSUME NEW email \in Emails, Onboard(p, email) PROVE IInv'
  <2>. DEFINE k == [at |-> "create", email |-> Lower[email]]
  <2>1. k \in Continuation /\ Sound(k) /\ ~ Mailing(k)
    BY LowerAssumption DEF Continuation, Sound, Mailing
  <2>. QED BY <1>1, <2>1, HandlerStep DEF Onboard
<1>2. ASSUME NEW by \in Emails, NEW email \in Emails, NEW password \in Passwords,
             EditProfile(p, by, email, password)
      PROVE  IInv'
  <2>. DEFINE k == [at |-> "edit", by |-> by, email |-> email, password |-> password]
  <2>1. k \in Continuation /\ Sound(k) /\ ~ Mailing(k)
    BY DEF Continuation, Sound, Mailing
  <2>. QED BY <1>2, <2>1, HandlerStep DEF EditProfile
<1>3. ASSUME NEW by \in Emails, NEW current \in Passwords, NEW password \in Passwords,
             ChangePassword(p, by, current, password)
      PROVE  IInv'
  <2>. DEFINE k == [at |-> "change", by |-> by, password |-> password]
  <2>1. k \in Continuation /\ Sound(k) /\ ~ Mailing(k)
    BY DEF Continuation, Sound, Mailing
  <2>. QED BY <1>3, <2>1, HandlerStep DEF ChangePassword
<1>4. ASSUME NEW e \in Employees, ResetPassword(p, e) PROVE IInv'
  <2>. DEFINE k == [at |-> "reset", id |-> e]
  <2>1. k \in Continuation /\ Sound(k) /\ ~ Mailing(k)
    BY <1>4 DEF ResetPassword, Continuation, Sound, Mailing
  <2>. QED BY <1>4, <2>1, HandlerStep DEF ResetPassword
<1>. QED BY <1>1, <1>2, <1>3, <1>4

LEMMA OnboardMailIInv ==
  ASSUME IInv, NEW p \in Procs, OnboardMail(p)
  PROVE  IInv'
<1>1. PICK e \in Fresh, password \in Generated :
        /\ told' = [told EXCEPT ![e] = password]
        /\ Goto(p, [at |-> "createTx", id |-> e, email |-> req[p].email, password |-> password])
  BY DEF OnboardMail
<1>. DEFINE k == [at |-> "createTx", id |-> e, email |-> req[p].email, password |-> password]
<1>2. e \in Employees /\ e \notin DOMAIN acct /\ password \in Passwords /\ req[p].email \in Emails
  BY ReqFields DEF OnboardMail, Fresh, Generated, IInv
<1>3. k \in Continuation /\ Sound(k) /\ Mailing(k)
  BY <1>2 DEF Continuation, Sound, Mailing
<1>4. \A q \in Procs : Mailing(req[q]) => req[q].id # e
  BY <1>1, <1>2 DEF IInv, Known, Sound, Mailing, Fresh, Inserted, At
<1>5. UNCHANGED <<acct, uploaded>> /\ Free(req[p].email)
  BY DEF OnboardMail
<1>6. /\ k.id = e /\ k.email = req[p].email /\ k.password = password
      /\ Goto(p, k) /\ told' = [told EXCEPT ![k.id] = k.password]
  BY <1>1
<1>7. (\A q \in Procs : Mailing(req[q]) => req[q].id # k.id) /\ Free(k.email)
  BY <1>4, <1>5
<1>. HIDE DEF k
<1>. QED BY <1>2, <1>3, <1>5, <1>6, <1>7, MailStep

LEMMA ResetMailIInv ==
  ASSUME IInv, NEW p \in Procs, ResetMail(p)
  PROVE  IInv'
<1>1. PICK password \in Generated :
        /\ told' = [told EXCEPT ![req[p].id] = password]
        /\ Goto(p, [at |-> "resetTx", id |-> req[p].id, password |-> password])
  BY DEF ResetMail
<1>. DEFINE k == [at |-> "resetTx", id |-> req[p].id, password |-> password]
<1>2. k.id \in Employees /\ k.id \in DOMAIN acct /\ password \in Passwords
  BY ReqFields DEF ResetMail, IInv, Known, Sound, At, Generated
<1>3. k \in Continuation /\ Sound(k) /\ Mailing(k)
  BY <1>2 DEF Continuation, Sound, Mailing
<1>4. \A q \in Procs : Mailing(req[q]) => req[q].id # k.id
  BY <1>2 DEF ResetMail, Held, IInv, Known, Sound, Mailing, At
<1>5. UNCHANGED <<acct, uploaded>>
  BY DEF ResetMail
<1>6. k.password = password /\ Goto(p, k) /\ told' = [told EXCEPT ![k.id] = k.password]
  BY <1>1
<1>7. k.at # "createTx"
  OBVIOUS
<1>. HIDE DEF k
<1>. QED BY <1>2, <1>3, <1>4, <1>5, <1>6, <1>7, MailStep

LEMMA OnboardCommitIInv ==
  ASSUME IInv, NEW p \in Procs, OnboardCommit(p)
  PROVE  IInv'
<1>. DEFINE v == req[p].id
            row == [email |-> req[p].email, password |-> req[p].password]
<1>1. v \in Employees /\ row \in AccountRow /\ v \notin DOMAIN acct
  BY ReqFields DEF OnboardCommit, IInv, AccountRow, Known, Sound, At
<1>2. /\ DOMAIN acct' = DOMAIN acct \cup {v}
      /\ \A u \in DOMAIN acct' : acct'[u] = IF u = v THEN row ELSE acct[u]
      /\ acct' = [u \in DOMAIN acct' |-> acct'[u]]
  BY DEF OnboardCommit, InsertAll
<1>3. row.email = req[p].email /\ \A u \in DOMAIN acct : acct[u].email # req[p].email
  BY DEF OnboardCommit, IInv, AddressesAreUnique, Taken, HasEmail, TypeOK
<1>. HIDE DEF row
<1>4. /\ DOMAIN acct \subseteq DOMAIN acct' /\ DOMAIN acct' \subseteq Employees
      /\ acct' \in [DOMAIN acct' -> AccountRow] /\ uploaded \subseteq DOMAIN acct'
  BY <1>1, <1>2 DEF IInv, TypeOK
<1>5. \A u, w \in DOMAIN acct' : acct'[u].email = acct'[w].email => u = w
  BY <1>2, <1>3 DEF IInv, AddressesAreUnique
<1>6. \A q \in Procs \ {p} : At(q, "createTx") =>
        /\ v # req[q].id /\ req[q].email # req[p].email
        /\ \A u \in DOMAIN acct : acct[u].email # req[q].email
  BY DEF OnboardCommit, IInv, AddressesAreUnique, MailsAreApart, Mailing, At, Taken, HasEmail, TypeOK
<1>7. /\ \A u \in DOMAIN acct' \ DOMAIN acct : \A q \in Procs \ {p} :
           At(q, "createTx") => u # req[q].id
      /\ \A u \in DOMAIN acct' : \A q \in Procs \ {p} :
           At(q, "createTx") => acct'[u].email # req[q].email
  BY <1>2, <1>3, <1>6
<1>8. Idle \in Continuation /\ Goto(p, Idle) /\ UNCHANGED <<uploaded, told>>
  BY IdleSound DEF OnboardCommit, Finish
<1>. QED BY <1>4, <1>5, <1>7, <1>8, WritingStep

\* The rows of an upload are new, and so are their addresses.
LEMMA UploadIInv ==
  ASSUME IInv, NEW p \in Procs, NEW S \in SUBSET Employees, NEW rows \in [S -> AccountRow],
         Upload(p, rows)
  PROVE  IInv'
<1>. DEFINE owed == [e \in S |-> rows[e].password]
            k == [at |-> "welcome", owed |-> owed]
<1>1. DOMAIN rows = S
  OBVIOUS
<1>2. /\ S \subseteq Fresh
      /\ \A e \in S : Free(rows[e].email)
      /\ \A e, f \in S : rows[e].email = rows[f].email => e = f
      /\ acct' = InsertAll(acct, rows) /\ uploaded' = uploaded \cup S
      /\ Goto(p, k) /\ UNCHANGED told
  BY <1>1 DEF Upload, FileRows
<1>3. owed \in [S -> Passwords]
  BY DEF AccountRow
<1>4. owed \in Mails /\ DOMAIN owed = S
  BY <1>3, MailsType
<1>. HIDE DEF owed
<1>5. k \in Continuation /\ k.at = "welcome" /\ DOMAIN k.owed \subseteq uploaded'
  BY <1>2, <1>4 DEF Continuation
<1>. HIDE DEF k
<1>6. /\ DOMAIN acct' = DOMAIN acct \cup S
      /\ \A u \in DOMAIN acct' : acct'[u] = IF u \in S THEN rows[u] ELSE acct[u]
      /\ acct' = [u \in DOMAIN acct' |-> acct'[u]]
  BY <1>1, <1>2 DEF InsertAll
<1>7. /\ DOMAIN acct \subseteq DOMAIN acct' /\ DOMAIN acct' \subseteq Employees
      /\ acct' \in [DOMAIN acct' -> AccountRow]
      /\ uploaded \subseteq uploaded' /\ uploaded' \subseteq DOMAIN acct'
  BY <1>2, <1>6 DEF IInv, TypeOK
<1>8. \A e \in S, u \in DOMAIN acct : acct[u].email # rows[e].email
  BY <1>2 DEF Free, Taken, HasEmail, IInv, TypeOK
<1>9. \A u, w \in DOMAIN acct' : acct'[u].email = acct'[w].email => u = w
  BY <1>2, <1>6, <1>8 DEF IInv, AddressesAreUnique
<1>10. \A e \in S : \A q \in Procs : At(q, "createTx") =>
         e # req[q].id /\ rows[e].email # req[q].email
  BY <1>2 DEF Fresh, Inserted, Free, Reserved
<1>11. \A u \in DOMAIN acct : \A q \in Procs : At(q, "createTx") => acct[u].email # req[q].email
  BY DEF IInv, AddressesAreUnique, Taken, HasEmail, TypeOK
<1>12. /\ \A u \in DOMAIN acct' \ DOMAIN acct : \A q \in Procs \ {p} :
            At(q, "createTx") => u # req[q].id
       /\ \A u \in DOMAIN acct' : \A q \in Procs \ {p} :
            At(q, "createTx") => acct'[u].email # req[q].email
  BY <1>6, <1>10, <1>11
<1>. QED BY <1>2, <1>5, <1>7, <1>9, <1>12, WritingStep

\* What is still owed was uploaded.
LEMMA StillOwedSound ==
  ASSUME IInv, NEW p \in Procs, At(p, "welcome"), NEW e \in DOMAIN req[p].owed
  PROVE  /\ StillOwed(p, e) \in Continuation /\ Sound(StillOwed(p, e))
         /\ ~ Mailing(StillOwed(p, e))
<1>. DEFINE rest == DOMAIN req[p].owed \ {e}
            owed == [f \in rest |-> req[p].owed[f]]
<1>1. req[p].owed \in Mails /\ DOMAIN req[p].owed \subseteq uploaded
  BY ReqFields DEF IInv, Known, Sound, At
<1>2. rest \subseteq Employees /\ owed \in [rest -> Passwords] /\ rest \subseteq uploaded
  BY <1>1, MailsType
<1>3. owed \in Mails /\ DOMAIN owed = rest
  BY <1>2, MailsType
<1>4. StillOwed(p, e) = IF rest = {} THEN Idle ELSE [at |-> "welcome", owed |-> owed]
  BY DEF StillOwed
<1>. HIDE DEF owed, rest
<1>. QED BY <1>2, <1>3, <1>4, IdleSound DEF Continuation, Sound, Mailing

LEMMA WelcomeMailIInv ==
  ASSUME IInv, NEW p \in Procs, NEW e \in Employees, WelcomeMail(p, e)
  PROVE  IInv'
<1>. DEFINE k == StillOwed(p, e)
<1>1. e \in DOMAIN req[p].owed /\ e \in uploaded /\ e \in DOMAIN acct
  BY DEF WelcomeMail, IInv, Known, Sound, At, TypeOK
<1>2. k \in Continuation /\ Sound(k) /\ ~ Mailing(k)
  BY <1>1, StillOwedSound DEF WelcomeMail
<1>3. /\ Goto(p, k) /\ UNCHANGED <<acct, uploaded>>
      /\ told' = [told EXCEPT ![e] = req[p].owed[e]]
  BY DEF WelcomeMail
<1>4. req[p].owed[e] \in Passwords
  BY <1>1, ReqFields, MailsType DEF WelcomeMail, IInv
<1>. HIDE DEF k
<1>5. \A q \in Procs : req'[q] = IF q = p THEN k ELSE req[q]
  BY <1>2, <1>3, GotoType DEF IInv
<1>6. TypeOK'
  BY <1>2, <1>3, <1>4, GotoType DEF IInv, TypeOK
<1>7. Known'
  BY <1>2, <1>3, <1>5 DEF IInv, Known, Sound
<1>8. MailsAreApart'
  BY <1>2, <1>5 DEF IInv, MailsAreApart, Mailing
<1>9. OpenMailsAreLatest'
  <2>1. ASSUME NEW q \in Procs, Mailing(req'[q])
        PROVE  req'[q] = req[q] /\ Mailing(req[q]) /\ req[q].id \in Employees
    BY <1>2, <1>5, <2>1, ReqFields DEF IInv, Mailing, At
  <2>2. ASSUME NEW q \in Procs, Mailing(req[q]), req[q].id \in Employees, req[q].id # e
        PROVE  told'[req[q].id] = told[req[q].id]
    BY <1>3, <2>2 DEF IInv, TypeOK
  <2>3. \A q \in Procs : At(q, "createTx") => req[q].id # e
    BY <1>1 DEF IInv, Known, Sound, At
  <2>. QED BY <1>1, <1>3, <2>1, <2>2, <2>3 DEF IInv, OpenMailsAreLatest, At, Mailing
<1>10. AddressesAreUnique'
  BY <1>2, <1>3, <1>5 DEF IInv, AddressesAreUnique, At, Mailing, Taken, HasEmail
<1>. QED BY <1>6, <1>7, <1>8, <1>9, <1>10 DEF IInv

LEMMA WelcomeRefusedIInv ==
  ASSUME IInv, NEW p \in Procs, NEW e \in Employees, WelcomeRefused(p, e)
  PROVE  IInv'
<1>. DEFINE k == StillOwed(p, e)
<1>1. k \in Continuation /\ Sound(k) /\ ~ Mailing(k)
  BY StillOwedSound DEF WelcomeRefused
<1>2. Goto(p, k) /\ UNCHANGED <<acct, uploaded, told>>
  BY DEF WelcomeRefused
<1>. HIDE DEF k
<1>. QED BY <1>1, <1>2, HandlerStep

LEMMA EditCommitIInv ==
  ASSUME IInv, NEW p \in Procs, EditCommit(p)
  PROVE  IInv'
<1>. DEFINE row == [email |-> req[p].email, password |-> req[p].password]
<1>1. PICK e \in Employees : HasEmail(e, req[p].by) /\ acct' = [acct EXCEPT ![e] = row]
  BY DEF EditCommit
<1>2. row \in AccountRow /\ row.email = req[p].email
  BY ReqFields DEF EditCommit, IInv, AccountRow
<1>. HIDE DEF row
<1>3. row.email = acct[e].email \/ Free(row.email)
  BY <1>1, <1>2 DEF EditCommit, HasEmail
<1>4. e \in DOMAIN acct /\ Finish(p) /\ UNCHANGED <<uploaded, told>>
  BY <1>1 DEF EditCommit, HasEmail
<1>. QED BY <1>1, <1>2, <1>3, <1>4, InPlaceStep

LEMMA ChangeCommitIInv ==
  ASSUME IInv, NEW p \in Procs, ChangeCommit(p)
  PROVE  IInv'
<1>1. PICK e \in DOMAIN acct : acct' = [acct EXCEPT ![e].password = req[p].password]
  BY DEF ChangeCommit, HasEmail
<1>. DEFINE row == [acct[e] EXCEPT !.password = req[p].password]
<1>2. row \in AccountRow /\ row.email = acct[e].email /\ acct' = [acct EXCEPT ![e] = row]
  BY <1>1, ReqFields DEF ChangeCommit, IInv, TypeOK, AccountRow
<1>. HIDE DEF row
<1>. QED BY <1>2, InPlaceStep DEF ChangeCommit

LEMMA ResetCommitIInv ==
  ASSUME IInv, NEW p \in Procs, ResetCommit(p)
  PROVE  IInv'
<1>. DEFINE e == req[p].id
            row == [acct[e] EXCEPT !.password = req[p].password]
<1>1. e \in DOMAIN acct
  BY DEF ResetCommit, IInv, Known, Sound, At
<1>2. row \in AccountRow /\ row.email = acct[e].email /\ acct' = [acct EXCEPT ![e] = row]
  BY <1>1, ReqFields DEF ResetCommit, IInv, TypeOK, AccountRow
<1>. HIDE DEF e, row
<1>. QED BY <1>1, <1>2, InPlaceStep DEF ResetCommit

\* Nobody's handler is part of this one.
LEMMA UpdateWorkInfoIInv ==
  ASSUME IInv, NEW e \in Employees, NEW email \in Emails, UpdateWorkInfo(e, email)
  PROVE  IInv'
<1>. DEFINE row == [acct[e] EXCEPT !.email = email]
<1>1. /\ e \in DOMAIN acct /\ Free(email) /\ acct' = [acct EXCEPT ![e] = row]
      /\ UNCHANGED <<uploaded, told, req>>
  BY DEF UpdateWorkInfo
<1>2. row \in AccountRow /\ row.email = email
  BY <1>1 DEF IInv, TypeOK, AccountRow
<1>. HIDE DEF row
<1>3. /\ DOMAIN acct' = DOMAIN acct
      /\ acct' \in [DOMAIN acct -> AccountRow]
      /\ \A u \in DOMAIN acct : acct'[u] = IF u = e THEN row ELSE acct[u]
  BY <1>1, <1>2 DEF IInv, TypeOK
<1>4. TypeOK'
  BY <1>1, <1>3 DEF IInv, TypeOK
<1>5. Known' /\ MailsAreApart' /\ OpenMailsAreLatest'
  BY <1>1, <1>3 DEF IInv, Known, Sound, MailsAreApart, OpenMailsAreLatest, At
<1>6. \A u \in DOMAIN acct : acct[u].email # email
  BY <1>1 DEF Free, Taken, HasEmail, IInv, TypeOK
<1>7. \A q \in Procs : At(q, "createTx") =>
        req[q].email # email /\ \A u \in DOMAIN acct : acct[u].email # req[q].email
  BY <1>1 DEF Free, Reserved, IInv, AddressesAreUnique, Taken, HasEmail, TypeOK
<1>8. AddressesAreUnique'
  BY <1>1, <1>2, <1>3, <1>6, <1>7 DEF IInv, AddressesAreUnique, Taken, HasEmail, At
<1>. QED BY <1>4, <1>5, <1>8 DEF IInv

LEMMA FailIInv ==
  ASSUME IInv, NEW p \in Procs, Fail(p)
  PROVE  IInv'
  BY IdleSound, HandlerStep DEF Fail, Finish

LEMMA NextIInv ==
  ASSUME IInv, [Next]_vars
  PROVE  IInv'
<1>1. CASE AtOnce
  BY <1>1, UpdateWorkInfoIInv DEF AtOnce
<1>2. ASSUME NEW p \in Procs, Arrive(p) PROVE IInv'
  BY <1>2, ArriveIInv, UploadIInv DEF Arrive, CreationRequests, PasswordRequests
<1>3. ASSUME NEW p \in Procs, Advance(p) PROVE IInv'
  BY <1>3, OnboardMailIInv, OnboardCommitIInv, EditCommitIInv, ChangeCommitIInv, ResetMailIInv,
     ResetCommitIInv, WelcomeMailIInv, WelcomeRefusedIInv DEF Advance
<1>4. ASSUME NEW p \in Procs, Fail(p) PROVE IInv'
  BY <1>4, FailIInv
<1>5. CASE UNCHANGED vars
  BY <1>5 DEF vars, IInv, TypeOK, Known, Sound, MailsAreApart, Mailing,
     OpenMailsAreLatest, AddressesAreUnique, At, Taken, HasEmail
<1>. QED BY <1>1, <1>2, <1>3, <1>4, <1>5 DEF Next

LEMMA SpecIInv == Spec => []IInv
  BY InitIInv, NextIInv, PTL DEF Spec

-----------------------------------------------------------------------------
(* Theorems.                                                               *)

\* The table of employees' accounts and what the handlers hold have the right shape.
THEOREM TypeCorrect == Spec => []TypeOK
<1>1. IInv => TypeOK
  BY DEF IInv
<1>. QED BY <1>1, SpecIInv, PTL

\* The unique index keeps addresses apart, although three ways to write one compare
\* it in another case or not at all.
THEOREM AddressesStayUnique == Spec => []AddressesAreUnique
<1>1. IInv => AddressesAreUnique
  BY DEF IInv
<1>. QED BY <1>1, SpecIInv, PTL

\* Only the welcome mails of an upload can come between a mail and its commit.
THEOREM MailsAreLatest == Spec => []OpenMailsAreLatest
<1>1. IInv => OpenMailsAreLatest
  BY DEF IInv
<1>. QED BY <1>1, SpecIInv, PTL

\* How the password of one row can be set, from a state with IInv.
LEMMA PasswordStep ==
  ASSUME IInv, [Next]_vars,
         NEW e \in DOMAIN acct', e \in DOMAIN acct => acct'[e].password # acct[e].password
  PROVE  \/ acct'[e].password = told'[e]
         \/ e \notin DOMAIN acct /\ \E p \in Procs :
              req'[p].at = "welcome" /\ e \in DOMAIN req'[p].owed
                /\ req'[p].owed[e] = acct'[e].password
         \/ e \in uploaded /\ \E p \in Procs :
              At(p, "resetTx") /\ req[p].id = e /\ req[p].password = acct'[e].password
         \/ \E p \in Procs : /\ At(p, "edit") \/ At(p, "change")
                             /\ HasEmail(e, req[p].by)
                             /\ acct'[e].password = req[p].password
<1>. DEFINE Told == acct'[e].password = told'[e]
            Owing == e \notin DOMAIN acct /\ \E p \in Procs :
                       req'[p].at = "welcome" /\ e \in DOMAIN req'[p].owed
                         /\ req'[p].owed[e] = acct'[e].password
            Reset == e \in uploaded /\ \E p \in Procs :
                       At(p, "resetTx") /\ req[p].id = e /\ req[p].password = acct'[e].password
            Own == \E p \in Procs : /\ At(p, "edit") \/ At(p, "change")
                                    /\ HasEmail(e, req[p].by)
                                    /\ acct'[e].password = req[p].password
<1>1. ASSUME UNCHANGED acct PROVE FALSE
  BY <1>1
<1>2. ASSUME NEW p \in Procs, OnboardCommit(p) PROVE Told
  <2>1. e = req[p].id /\ acct'[e].password = req[p].password
    BY <1>2 DEF OnboardCommit, InsertAll
  <2>. QED BY <1>2, <2>1 DEF OnboardCommit, IInv, OpenMailsAreLatest
<1>3. ASSUME NEW p \in Procs, NEW S \in SUBSET Employees, NEW rows \in [S -> AccountRow],
             Upload(p, rows)
      PROVE  Owing
  <2>1. DOMAIN rows = S /\ S \cap DOMAIN acct = {}
    BY <1>3 DEF Upload, FileRows, Fresh
  <2>2. e \in S /\ acct'[e] = rows[e] /\ e \notin DOMAIN acct
    BY <1>3, <2>1 DEF Upload, FileRows, InsertAll
  <2>3. req'[p] = [at |-> "welcome", owed |-> [f \in S |-> rows[f].password]]
    BY <1>3, <2>1 DEF Upload, FileRows, Goto, IInv, TypeOK
  <2>4. /\ req'[p].at = "welcome" /\ e \in DOMAIN req'[p].owed
        /\ req'[p].owed[e] = acct'[e].password
    BY <2>2, <2>3
  <2>. QED BY <2>2, <2>4
<1>4. ASSUME NEW p \in Procs, EditCommit(p) PROVE Own
  <2>1. PICK f \in Employees :
          /\ HasEmail(f, req[p].by)
          /\ acct' = [acct EXCEPT ![f] = [email |-> req[p].email, password |-> req[p].password]]
    BY <1>4 DEF EditCommit
  <2>2. e = f /\ acct'[e].password = req[p].password
    BY <2>1 DEF HasEmail, IInv, TypeOK
  <2>. QED BY <1>4, <2>1, <2>2 DEF EditCommit
<1>5. ASSUME NEW p \in Procs, ChangeCommit(p) PROVE Own
  <2>1. PICK f \in Employees :
          HasEmail(f, req[p].by) /\ acct' = [acct EXCEPT ![f].password = req[p].password]
    BY <1>5 DEF ChangeCommit
  <2>2. e = f /\ acct'[e].password = req[p].password
    BY <2>1 DEF HasEmail, IInv, TypeOK, AccountRow
  <2>. QED BY <1>5, <2>1, <2>2 DEF ChangeCommit
<1>6. ASSUME NEW p \in Procs, ResetCommit(p) PROVE Told \/ Reset
  <2>1. req[p].id \in DOMAIN acct
    BY <1>6 DEF ResetCommit, IInv, Known, Sound, At
  <2>2. e = req[p].id /\ acct'[e].password = req[p].password
    BY <1>6, <2>1 DEF ResetCommit, IInv, TypeOK, AccountRow
  <2>. QED BY <1>6, <2>2 DEF ResetCommit, IInv, OpenMailsAreLatest
<1>7. ASSUME NEW f \in Employees, NEW email \in Emails, UpdateWorkInfo(f, email) PROVE FALSE
  BY <1>7 DEF UpdateWorkInfo, IInv, TypeOK, AccountRow
<1>8. ASSUME NEW p \in Procs,
             \/ \E email \in Emails : Onboard(p, email)
             \/ \E by, email \in Emails, password \in Passwords : EditProfile(p, by, email, password)
             \/ \E by \in Emails, current, password \in Passwords :
                  ChangePassword(p, by, current, password)
             \/ \E f \in Employees : ResetPassword(p, f) \/ WelcomeMail(p, f) \/ WelcomeRefused(p, f)
             \/ OnboardMail(p) \/ ResetMail(p) \/ Fail(p)
      PROVE  FALSE
  BY <1>1, <1>8 DEF Onboard, EditProfile, ChangePassword, ResetPassword, WelcomeMail,
     WelcomeRefused, OnboardMail, ResetMail, Fail
<1>9. CASE UNCHANGED vars
  BY <1>1, <1>9 DEF vars
<1>. QED BY <1>2, <1>3, <1>4, <1>5, <1>6, <1>7, <1>8, <1>9 
     DEF Next, AtOnce, Arrive, CreationRequests, PasswordRequests, Advance

\* However uploads, resets, edits and changes interleave, a password is one its
\* holder was mailed last, one that an upload mails or mailed, or one asked for with
\* the address the row has.
THEOREM PasswordsAreAskedFor == Spec => PasswordsMoveOnlySo
<1>. DEFINE Step == \A e \in DOMAIN acct' :
       (e \in DOMAIN acct => acct'[e].password # acct[e].password) =>
         \/ acct'[e].password = told'[e]
         \/ e \notin DOMAIN acct /\ \E p \in Procs :
              req'[p].at = "welcome" /\ e \in DOMAIN req'[p].owed
                /\ req'[p].owed[e] = acct'[e].password
         \/ e \in uploaded /\ \E p \in Procs :
              At(p, "resetTx") /\ req[p].id = e /\ req[p].password = acct'[e].password
         \/ \E p \in Procs : /\ At(p, "edit") \/ At(p, "change")
                             /\ HasEmail(e, req[p].by)
                             /\ acct'[e].password = req[p].password
<1>1. IInv /\ [Next]_vars => [Step]_vars
  BY PasswordStep
<1>. QED BY <1>1, SpecIInv, PTL DEF Spec, PasswordsMoveOnlySo
=============================================================================
