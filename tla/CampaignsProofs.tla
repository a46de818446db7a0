--------------------------- MODULE CampaignsProofs ---------------------------
(***************************************************************************)
(* Theorems about Campaigns: types, and what is sent, kept and answered.   *)
(***************************************************************************)
EXTENDS Campaigns, TLAPS

-----------------------------------------------------------------------------
(* Handlers.                                                               *)

\* What moving on or ending means for a handler.
LEMMA GotoType ==
  ASSUME TypeOK, NEW p \in Procs, NEW k \in Continuation, Goto(p, k)
  PROVE  /\ req' \in [Procs -> Continuation]
         /\ \A q \in Procs : req'[q] = IF q = p THEN k ELSE req[q]
  BY DEF Goto, TypeOK

Sending(k) == k.at \in {"send", "sendTx"}

\* What a handler holds, by what it does next.
LEMMA Fields ==
  ASSUME NEW k \in Continuation
  PROVE  /\ Sending(k) => /\ k.id \in CampaignIds /\ k.kind \in Kinds
                          /\ k.since \in SUBSET Employees /\ "id" \in DOMAIN k
         /\ k.at = "sendTx" => k.to \in SUBSET Employees
         /\ k.at = "delete" => k.id \in CampaignIds
         /\ k.at = "answer" => /\ k.row \in Rows /\ k.section \in Sections
                              /\ k.question \in Questions
         /\ k.at = "removeSection" => k.section \in Sections
         /\ k.at = "removeQuestion" => k.question \in Questions
  BY DEF Continuation, Idle, Sending

-----------------------------------------------------------------------------
(* The inductive invariant.                                                *)

NoRows(c) == \A r \in Rows : r[1] = c => sent[r] = 0

\* What the handler that holds k of a campaign still counts on.
Sound(p, k) ==
  /\ Sending(k) =>
       /\ k.kind = "announcement" => k.id \notin DOMAIN campaign /\ NoRows(k.id)
       /\ k.kind # "announcement" /\ k.id \in DOMAIN campaign => campaign[k.id] = k.kind
       /\ k.kind = "appraisal" => \A e \in Employees : sent[<<k.id, e, p>>] = 0
       /\ k.at = "send" => k.since \subseteq staff
       /\ k.at = "sendTx" => k.since \subseteq k.to
  /\ k.at = "answer" => answers[<<k.row, k.section, k.question, p>>] = 0

Sounds == \A p \in Procs : Sound(p, req[p])

\* Each announcement is sent by a handler of its own, which makes it.
AnnouncementsAreApart ==
  \A p, q \in Procs :
    /\ Sending(req[p]) /\ req[p].kind = "announcement"
    /\ Sending(req[q]) /\ req[q].id = req[p].id
    => q = p

NobodyTwice ==
  \A c \in DOMAIN campaign, e \in Employees, p \in Procs :
    campaign[c] = "appraisal" => sent[<<c, e, p>>] <= 1

DueIsReached == \A c \in CampaignIds : \A e \in due[c] : Has(e, c)

AnnouncedOnce ==
  \A c \in DOMAIN campaign : campaign[c] = "announcement" =>
    \A e \in Employees, p, q \in Procs :
      sent[<<c, e, p>>] > 0 /\ sent[<<c, e, q>>] > 0 => p = q /\ sent[<<c, e, p>>] = 1

AnsweredOnce ==
  \A r \in Rows, s \in Sections, q \in Questions, p \in Procs : answers[<<r, s, q, p>>] <= 1

Tables == NobodyTwice /\ SentCampaignsStay /\ DueIsReached /\ AnnouncedOnce /\ AnsweredOnce

IInv == TypeOK /\ Sounds /\ AnnouncementsAreApart /\ Tables

LEMMA IdleSound ==
  /\ Idle \in Continuation /\ ~ Sending(Idle)
  /\ \A p : Sound(p, Idle)
  BY DEF Idle, Continuation, Sending, Sound

LEMMA InitIInv == Init => IInv
<1>. SUFFICES ASSUME Init PROVE IInv
  OBVIOUS
<1>1. \A p \in Procs : req[p] = Idle
  BY DEF Init
<1>2. TypeOK
  BY DEF Init, TypeOK, Continuation
<1>3. Sounds /\ AnnouncementsAreApart
  BY <1>1, IdleSound DEF Sounds, AnnouncementsAreApart
<1>4. \A r \in Rows : sent[r] = 0
  BY DEF Init
<1>5. SentCampaignsStay
  BY <1>4 DEF SentCampaignsStay, IsSent, Has, Rows
<1>6. NobodyTwice /\ DueIsReached /\ AnnouncedOnce
  BY DEF Init, NobodyTwice, DueIsReached, AnnouncedOnce
<1>7. AnsweredOnce
  <2>1. ASSUME NEW r \in Rows, NEW s \in Sections, NEW q \in Questions, NEW p \in Procs
        PROVE  answers[<<r, s, q, p>>] <= 1
    <3>1. <<r, s, q, p>> \in Answers
      BY DEF Answers
    <3>2. answers[<<r, s, q, p>>] = 0
      BY <3>1 DEF Init
    <3>. QED BY <3>2
  <2>. QED BY <2>1 DEF AnsweredOnce
<1>. QED BY <1>2, <1>3, <1>5, <1>6, <1>7 DEF IInv, Tables

\* A step in which a handler only moves on.
LEMMA HandlerStep ==
  ASSUME IInv, UNCHANGED <<staff, campaign, sent, closed, section, question, answers, due>>,
         NEW p \in Procs, NEW k \in Continuation, Goto(p, k), Sound(p, k),
         Sending(k) =>
           \A q \in Procs \ {p} : Sending(req[q]) /\ req[q].id = k.id =>
             k.kind # "announcement" /\ req[q].kind # "announcement"
  PROVE  IInv'
<1>1. \A q \in Procs : req'[q] = IF q = p THEN k ELSE req[q]
  BY GotoType DEF IInv
<1>2. TypeOK'
  BY GotoType DEF IInv, TypeOK
<1>3. Sounds'
  <2>1. \A q \in Procs : Sound(q, req[q])
    BY DEF IInv, Sounds
  <2>. QED BY <1>1, <2>1 DEF Sounds, Sound, NoRows
<1>4. AnnouncementsAreApart'
  BY <1>1 DEF IInv, AnnouncementsAreApart
<1>5. Tables'
  BY DEF IInv, Tables, NobodyTwice, SentCampaignsStay, IsSent, Has, DueIsReached,
     AnnouncedOnce, AnsweredOnce
<1>. QED BY <1>2, <1>3, <1>4, <1>5 DEF IInv

\* Nothing has been sent of an id nobody has used.
LEMMA FreshIsNew ==
  ASSUME IInv, NEW c \in Fresh
  PROVE  /\ c \in CampaignIds /\ c \notin DOMAIN campaign /\ NoRows(c)
         /\ \A p \in Procs : Sending(req[p]) => req[p].id # c
<1>1. NoRows(c)
  <2>1. ASSUME NEW r \in Rows, r[1] = c PROVE sent[r] = 0
    <3>1. r = <<c, r[2], r[3]>> /\ r[2] \in Employees /\ r[3] \in Procs
      BY <2>1 DEF Rows
    <3>2. ~ (sent[<<c, r[2], r[3]>>] > 0)
      BY <3>1 DEF Fresh, IsSent, Has
    <3>. QED BY <3>1, <3>2 DEF IInv, TypeOK
  <2>. QED BY <2>1 DEF NoRows
<1>2. \A p \in Procs : Sending(req[p]) => req[p].id # c
  BY Fields DEF Fresh, IInv, TypeOK
<1>. QED BY <1>1, <1>2 DEF Fresh

-----------------------------------------------------------------------------
(* Every action preserves it.                                              *)

LEMMA HireIInv ==
  ASSUME IInv, NEW e \in Employees, Hire(e)
  PROVE  IInv'
<1>1. TypeOK'
  BY DEF Hire, IInv, TypeOK
<1>2. Sounds'
  BY DEF Hire, IInv, Sounds, Sound, NoRows
<1>3. AnnouncementsAreApart'
  BY DEF Hire, IInv, AnnouncementsAreApart
<1>4. Tables'
  BY DEF Hire, IInv, Tables, NobodyTwice, SentCampaignsStay, IsSent, Has, DueIsReached,
     AnnouncedOnce, AnsweredOnce
<1>. QED BY <1>1, <1>2, <1>3, <1>4 DEF IInv

LEMMA CreateIInv ==
  ASSUME IInv, NEW c \in CampaignIds, NEW kind \in {"appraisal", "document"}, Create(c, kind)
  PROVE  IInv'
<1>1. /\ DOMAIN campaign' = DOMAIN campaign \cup {c} /\ c \notin DOMAIN campaign
      /\ \A d \in DOMAIN campaign' : campaign'[d] = IF d = c THEN kind ELSE campaign[d]
      /\ campaign' = [d \in DOMAIN campaign' |-> campaign'[d]]
      /\ c \in Fresh /\ kind # "announcement"
      /\ UNCHANGED <<req, staff, sent, closed, section, question, answers, due>>
  BY DEF Create, Insert, Fresh
<1>. kind \in Kinds
  BY DEF Kinds
<1>2. NoRows(c) /\ \A p \in Procs : Sending(req[p]) => req[p].id # c
  BY <1>1, FreshIsNew
<1>3. TypeOK'
  BY <1>1 DEF IInv, TypeOK
<1>4. Sounds'
  BY <1>1, <1>2 DEF IInv, Sounds, Sound, NoRows
<1>5. AnnouncementsAreApart'
  BY <1>1 DEF IInv, AnnouncementsAreApart
<1>6. SentCampaignsStay' /\ DueIsReached' /\ AnsweredOnce'
  BY <1>1 DEF IInv, Tables, SentCampaignsStay, IsSent, Has, DueIsReached, AnsweredOnce
<1>7. NobodyTwice'
  BY <1>1, <1>2 DEF IInv, Tables, NobodyTwice, NoRows, Rows
<1>8. AnnouncedOnce'
  BY <1>1 DEF IInv, Tables, AnnouncedOnce
<1>. QED BY <1>3, <1>4, <1>5, <1>6, <1>7, <1>8 DEF IInv, Tables

LEMMA CloseIInv ==
  ASSUME IInv, NEW r \in Rows, Close(r)
  PROVE  IInv'
<1>1. TypeOK'
  BY DEF Close, IInv, TypeOK
<1>2. Sounds' /\ AnnouncementsAreApart'
  BY DEF Close, IInv, Sounds, Sound, NoRows, AnnouncementsAreApart
<1>3. Tables'
  BY DEF Close, IInv, Tables, NobodyTwice, SentCampaignsStay, IsSent, Has, DueIsReached,
     AnnouncedOnce, AnsweredOnce
<1>. QED BY <1>1, <1>2, <1>3 DEF IInv

LEMMA AddSectionIInv ==
  ASSUME IInv, NEW s \in Sections, AddSection(s)
  PROVE  IInv'
<1>1. TypeOK'
  BY DEF AddSection, IInv, TypeOK
<1>2. Sounds' /\ AnnouncementsAreApart'
  BY DEF AddSection, IInv, Sounds, Sound, NoRows, AnnouncementsAreApart
<1>3. Tables'
  BY DEF AddSection, IInv, Tables, NobodyTwice, SentCampaignsStay, IsSent, Has, DueIsReached,
     AnnouncedOnce, AnsweredOnce
<1>. QED BY <1>1, <1>2, <1>3 DEF IInv

LEMMA AddQuestionIInv ==
  ASSUME IInv, NEW q \in Questions, AddQuestion(q)
  PROVE  IInv'
<1>1. TypeOK'
  BY DEF AddQuestion, IInv, TypeOK
<1>2. Sounds' /\ AnnouncementsAreApart'
  BY DEF AddQuestion, IInv, Sounds, Sound, NoRows, AnnouncementsAreApart
<1>3. Tables'
  BY DEF AddQuestion, IInv, Tables, NobodyTwice, SentCampaignsStay, IsSent, Has, DueIsReached,
     AnnouncedOnce, AnsweredOnce
<1>. QED BY <1>1, <1>2, <1>3 DEF IInv

\* Who finds a campaign finds one that nobody is still about to announce.
LEMMA NobodyAnnounces ==
  ASSUME IInv, NEW c \in DOMAIN campaign, NEW q \in Procs, Sending(req[q]), req[q].id = c
  PROVE  req[q].kind # "announcement"
  BY DEF IInv, Sounds, Sound

LEMMA NoneHasIt ==
  ASSUME IInv, NEW c \in CampaignIds, ~ IsSent(c)
  PROVE  \A e \in Employees, p \in Procs : sent[<<c, e, p>>] = 0
<1>. SUFFICES ASSUME NEW e \in Employees, NEW p \in Procs PROVE sent[<<c, e, p>>] = 0
  OBVIOUS
<1>1. ~ (sent[<<c, e, p>>] > 0)
  BY DEF IsSent, Has
<1>2. <<c, e, p>> \in Rows
  BY DEF Rows
<1>. QED BY <1>1, <1>2 DEF IInv, TypeOK

LEMMA ArriveIInv ==
  ASSUME IInv, NEW p \in Procs, Arrive(p)
  PROVE  IInv'
<1>. /\ DOMAIN campaign \subseteq CampaignIds /\ staff \in SUBSET Employees
     /\ \A c \in DOMAIN campaign : campaign[c] \in Kinds
  BY DEF IInv, TypeOK
<1>1. ASSUME NEW c \in CampaignIds, SendAppraisal(p, c) \/ SendDocument(p, c) PROVE IInv'
  <2>1. PICK kind \in {"appraisal", "document"} :
          Is(c, kind) /\ Send(p, c, kind) /\ (kind = "appraisal" => ~ IsSent(c))
    BY <1>1 DEF SendAppraisal, SendDocument
  <2>. DEFINE k == [at |-> "send", id |-> c, kind |-> kind, since |-> staff]
  <2>2. k \in Continuation
    BY DEF Continuation, Kinds
  <2>3. Sound(p, k)
    BY <2>1, NoneHasIt DEF Is, Sound, Sending
  <2>4. \A q \in Procs : Sending(req[q]) /\ req[q].id = c => req[q].kind # "announcement"
    BY <2>1, NobodyAnnounces DEF Is
  <2>5. k.id = c /\ k.kind # "announcement" /\ Goto(p, k)
    BY <2>1 DEF Send
  <2>6. UNCHANGED <<staff, campaign, sent, closed, section, question, answers, due>>
    BY <2>1 DEF Send
  <2>. HIDE DEF k
  <2>. QED BY <2>2, <2>3, <2>4, <2>5, <2>6, HandlerStep
<1>2. ASSUME NEW c \in CampaignIds, Announce(p, c) PROVE IInv'
  <2>. DEFINE k == [at |-> "send", id |-> c, kind |-> "announcement", since |-> staff]
  <2>1. k \in Continuation
    BY DEF Continuation, Kinds
  <2>2. /\ c \notin DOMAIN campaign /\ NoRows(c)
        /\ \A q \in Procs : Sending(req[q]) => req[q].id # c
    BY <1>2, FreshIsNew DEF Announce
  <2>3. Sound(p, k)
    BY <2>2 DEF Sound, Sending
  <2>4. Goto(p, k) /\ k.id = c
    BY <1>2 DEF Announce, Send
  <2>5. UNCHANGED <<staff, campaign, sent, closed, section, question, answers, due>>
    BY <1>2 DEF Announce, Send
  <2>. HIDE DEF k
  <2>. QED BY <2>1, <2>2, <2>3, <2>4, <2>5, HandlerStep
<1>3. ASSUME NEW c \in CampaignIds,
             \/ \E e \in Employees : SendAppraisalToEmployee(p, c, e)
             \/ \E to \in SUBSET Employees : SendDocumentToNew(p, c, to)
      PROVE  IInv'
  <2>1. PICK kind \in {"appraisal", "document"}, to \in SUBSET Employees :
          Is(c, kind) /\ SendToSome(p, c, kind, to) /\ (kind = "appraisal" => ~ IsSent(c))
    BY <1>3 DEF SendAppraisalToEmployee, SendDocumentToNew
  <2>. DEFINE k == [at |-> "sendTx", id |-> c, kind |-> kind, since |-> {}, to |-> to]
  <2>2. k \in Continuation
    BY DEF Continuation, Kinds
  <2>3. Sound(p, k)
    BY <2>1, NoneHasIt DEF Is, Sound, Sending
  <2>4. \A q \in Procs : Sending(req[q]) /\ req[q].id = c => req[q].kind # "announcement"
    BY <2>1, NobodyAnnounces DEF Is
  <2>5. k.id = c /\ k.kind # "announcement" /\ Goto(p, k)
    BY <2>1 DEF SendToSome
  <2>6. UNCHANGED <<staff, campaign, sent, closed, section, question, answers, due>>
    BY <2>1 DEF SendToSome
  <2>. HIDE DEF k
  <2>. QED BY <2>2, <2>3, <2>4, <2>5, <2>6, HandlerStep
<1>4. ASSUME NEW c \in CampaignIds, Delete(p, c) PROVE IInv'
  <2>. DEFINE k == [at |-> "delete", id |-> c]
  <2>1. k \in Continuation /\ Sound(p, k) /\ ~ Sending(k)
    BY DEF Continuation, Sound, Sending
  <2>. QED BY <1>4, <2>1, HandlerStep DEF Delete
<1>5. ASSUME NEW q \in Questions, RemoveQuestion(p, q) PROVE IInv'
  <2>. DEFINE k == [at |-> "removeQuestion", question |-> q]
  <2>1. k \in Continuation /\ Sound(p, k) /\ ~ Sending(k)
    BY DEF Continuation, Sound, Sending
  <2>. QED BY <1>5, <2>1, HandlerStep DEF RemoveQuestion
<1>6. ASSUME NEW s \in Sections, RemoveSection(p, s) PROVE IInv'
  <2>. DEFINE k == [at |-> "removeSection", section |-> s]
  <2>1. k \in Continuation /\ Sound(p, k) /\ ~ Sending(k)
    BY DEF Continuation, Sound, Sending
  <2>. QED BY <1>6, <2>1, HandlerStep DEF RemoveSection
<1>7. ASSUME NEW r \in Rows, NEW s \in Sections, NEW q \in Questions, Answer(p, r, s, q)
      PROVE  IInv'
  <2>. DEFINE k == [at |-> "answer", row |-> r, section |-> s, question |-> q]
  <2>1. k \in Continuation /\ ~ Sending(k)
    BY DEF Continuation, Sending
  <2>2. <<r, s, q, p>> \in Answers /\ ~ (answers[<<r, s, q, p>>] > 0)
    BY <1>7 DEF Answer, Answered, Answers
  <2>3. answers[<<r, s, q, p>>] = 0
    BY <2>2 DEF IInv, TypeOK
  <2>4. Sound(p, k)
    BY <2>3 DEF Sound, Sending
  <2>. QED BY <1>7, <2>1, <2>4, HandlerStep DEF Answer
<1>. QED BY <1>1, <1>2, <1>3, <1>4, <1>5, <1>6, <1>7
     DEF Arrive, AppraisalRequests, DocumentRequests

LEMMA FailIInv ==
  ASSUME IInv, NEW p \in Procs, Fail(p)
  PROVE  IInv'
  BY IdleSound, HandlerStep DEF Fail, Abandon, Finish

LEMMA ReadStaffIInv ==
  ASSUME IInv, NEW p \in Procs, ReadStaff(p)
  PROVE  IInv'
<1>. DEFINE k == [at |-> "sendTx", id |-> req[p].id, kind |-> req[p].kind,
                  since |-> req[p].since, to |-> staff]
<1>1. /\ Sending(req[p]) /\ Sound(p, req[p]) /\ req[p].at = "send"
      /\ req[p].id \in CampaignIds /\ req[p].kind \in Kinds /\ req[p].since \in SUBSET Employees
  BY Fields DEF ReadStaff, At, Sending, IInv, Sounds, TypeOK
<1>2. k \in Continuation
  BY <1>1 DEF Continuation, IInv, TypeOK
<1>3. Sound(p, k)
  BY <1>1 DEF Sound, Sending
<1>4. \A q \in Procs \ {p} : Sending(req[q]) /\ req[q].id = req[p].id =>
        req[p].kind # "announcement" /\ req[q].kind # "announcement"
  BY <1>1 DEF IInv, AnnouncementsAreApart
<1>5. /\ Goto(p, k) /\ k.id = req[p].id /\ k.kind = req[p].kind
      /\ UNCHANGED <<staff, campaign, sent, closed, section, question, answers, due>>
  BY DEF ReadStaff
<1>. HIDE DEF k
<1>. QED BY <1>2, <1>3, <1>4, <1>5, HandlerStep

LEMMA SendCommitIInv ==
  ASSUME IInv, NEW p \in Procs, SendCommit(p)
  PROVE  IInv'
<1>. DEFINE c == req[p].id
            kind == req[p].kind
            to == req[p].to
            Row(r) == r[1] = c /\ r[2] \in to /\ r[3] = p
<1>1. /\ Sending(req[p]) /\ Sound(p, req[p]) /\ req[p].at = "sendTx"
      /\ c \in CampaignIds /\ kind \in Kinds /\ req[p].since \in SUBSET Employees
      /\ to \in SUBSET Employees
  BY Fields DEF SendCommit, WithRows, At, Sending, IInv, Sounds, TypeOK
<1>2. /\ \A q \in Procs : req'[q] = IF q = p THEN Idle ELSE req[q]
      /\ req' \in [Procs -> Continuation]
  BY GotoType, IdleSound DEF SendCommit, WithRows, Finish, IInv
<1>3. /\ DOMAIN campaign' = DOMAIN campaign \cup {c} /\ campaign'[c] = kind
      /\ \A d \in DOMAIN campaign : campaign'[d] = campaign[d]
      /\ campaign' = [d \in DOMAIN campaign' |-> campaign'[d]]
      /\ c \in DOMAIN campaign <=> kind # "announcement"
  <2>1. CASE kind = "announcement"
    BY <1>1, <2>1 DEF SendCommit, WithRows, Insert, Sound
  <2>2. CASE kind # "announcement"
    BY <1>1, <2>2 DEF SendCommit, WithRows, Sound, IInv, TypeOK
  <2>. QED BY <2>1, <2>2
<1>4. /\ sent' = [r \in Rows |-> IF Row(r) THEN sent[r] + 1 ELSE sent[r]]
      /\ due' = [due EXCEPT ![c] = @ \cup req[p].since]
      /\ UNCHANGED <<staff, closed, section, question, answers>>
  BY DEF SendCommit, WithRows
<1>5. \A d \in CampaignIds, e \in Employees, q \in Procs :
        /\ sent[<<d, e, q>>] \in Nat
        /\ sent'[<<d, e, q>>] = IF d = c /\ e \in to /\ q = p THEN sent[<<d, e, q>>] + 1
                               ELSE sent[<<d, e, q>>]
  <2>1. ASSUME NEW d \in CampaignIds, NEW e \in Employees, NEW q \in Procs
        PROVE  <<d, e, q>> \in Rows
    BY DEF Rows
  <2>. QED BY <1>4, <2>1 DEF IInv, TypeOK
<1>6. TypeOK'
  <2>1. sent' \in [Rows -> Nat]
    BY <1>4 DEF IInv, TypeOK
  <2>2. due' \in [CampaignIds -> SUBSET Employees]
    BY <1>1, <1>4 DEF IInv, TypeOK
  <2>3. DOMAIN campaign' \subseteq CampaignIds /\ campaign' \in [DOMAIN campaign' -> Kinds]
    BY <1>1, <1>3 DEF IInv, TypeOK
  <2>. QED BY <1>2, <1>4, <2>1, <2>2, <2>3 DEF IInv, TypeOK
<1>7. ASSUME NEW q \in Procs PROVE Sound(q, req[q])'
  <2>1. CASE q = p
    BY <1>2, <2>1, IdleSound DEF Sound, Idle, Sending
  <2>2. CASE q # p
    <3>1. req'[q] = req[q] /\ Sound(q, req[q]) /\ req[q] \in Continuation
      BY <1>2, <2>2 DEF IInv, Sounds, TypeOK
    <3>2. ASSUME Sending(req[q]), req[q].kind = "announcement"
          PROVE  req[q].id \notin DOMAIN campaign' /\ NoRows(req[q].id)'
      <4>1. req[q].id # c /\ req[q].id \notin DOMAIN campaign /\ NoRows(req[q].id)
        BY <1>1, <2>2, <3>1, <3>2 DEF IInv, AnnouncementsAreApart, Sound
      <4>2. ASSUME NEW r \in Rows, r[1] = req[q].id PROVE sent'[r] = 0
        BY <1>4, <4>1, <4>2 DEF NoRows
      <4>. QED BY <1>3, <3>1, <4>1, <4>2 DEF NoRows
    <3>3. ASSUME Sending(req[q]), req[q].kind # "announcement", req[q].id \in DOMAIN campaign'
          PROVE  campaign'[req[q].id] = req[q].kind
      <4>1. CASE req[q].id \in DOMAIN campaign
        BY <1>3, <3>1, <3>3, <4>1 DEF Sound
      <4>2. CASE req[q].id \notin DOMAIN campaign
        BY <1>1, <1>3, <2>2, <3>3, <4>2 DEF IInv, AnnouncementsAreApart
      <4>. QED BY <4>1, <4>2
    <3>4. ASSUME Sending(req[q]), req[q].kind = "appraisal", NEW e \in Employees
          PROVE  sent'[<<req[q].id, e, q>>] = 0
      BY <1>5, <2>2, <3>1, <3>4, Fields DEF Sound
    <3>. QED BY <1>4, <3>1, <3>2, <3>3, <3>4 DEF Sound
  <2>. QED BY <2>1, <2>2
<1>8. AnnouncementsAreApart'
  BY <1>2, IdleSound DEF IInv, AnnouncementsAreApart
<1>9. NobodyTwice'
  <2>1. ASSUME NEW d \in DOMAIN campaign', NEW e \in Employees, NEW q \in Procs,
               campaign'[d] = "appraisal"
        PROVE  sent'[<<d, e, q>>] <= 1
    <3>1. d \in DOMAIN campaign /\ campaign[d] = "appraisal" /\ d \in CampaignIds
      BY <1>1, <1>3, <2>1 DEF IInv, TypeOK
    <3>2. sent[<<d, e, q>>] <= 1
      BY <3>1 DEF IInv, Tables, NobodyTwice
    <3>3. d = c => kind = "appraisal"
      BY <1>3, <2>1
    <3>4. d = c /\ q = p => sent[<<d, e, q>>] = 0
      BY <1>1, <3>3 DEF Sound
    <3>. QED BY <1>5, <3>1, <3>2, <3>4
  <2>. QED BY <2>1 DEF NobodyTwice
<1>10. SentCampaignsStay'
  <2>1. ASSUME NEW d \in CampaignIds, IsSent(d)' PROVE d \in DOMAIN campaign'
    <3>1. CASE d = c
      BY <1>3, <3>1
    <3>2. CASE d # c
      <4>1. IsSent(d)
        BY <1>5, <2>1, <3>2 DEF IsSent, Has
      <4>. QED BY <1>3, <4>1 DEF IInv, Tables, SentCampaignsStay
    <3>. QED BY <3>1, <3>2
  <2>. QED BY <2>1 DEF SentCampaignsStay
<1>11. DueIsReached'
  <2>1. ASSUME NEW d \in CampaignIds, NEW e \in due'[d] PROVE Has(e, d)'
    <3>1. e \in due[d] \/ (d = c /\ e \in req[p].since)
      BY <1>1, <1>4, <2>1 DEF IInv, TypeOK
    <3>2. CASE e \in due[d]
      <4>1. e \in Employees
        BY <3>2 DEF IInv, TypeOK
      <4>2. PICK q \in Procs : sent[<<d, e, q>>] > 0
        BY <3>2 DEF IInv, Tables, DueIsReached, Has
      <4>3. sent'[<<d, e, q>>] > 0
        BY <1>5, <4>1, <4>2
      <4>. QED BY <4>3 DEF Has
    <3>3. CASE d = c /\ e \in req[p].since
      <4>1. e \in to /\ e \in Employees
        BY <1>1, <3>3 DEF Sound
      <4>2. sent'[<<d, e, p>>] > 0
        BY <1>5, <3>3, <4>1
      <4>. QED BY <4>2 DEF Has
    <3>. QED BY <3>1, <3>2, <3>3
  <2>. QED BY <2>1 DEF DueIsReached
<1>12. AnnouncedOnce'
  <2>1. ASSUME NEW d \in DOMAIN campaign', campaign'[d] = "announcement",
               NEW e \in Employees, NEW q \in Procs, NEW s \in Procs,
               sent'[<<d, e, q>>] > 0, sent'[<<d, e, s>>] > 0
        PROVE  q = s /\ sent'[<<d, e, q>>] = 1
    <3>0. d \in CampaignIds
      BY <1>6 DEF TypeOK
    <3>1. CASE d = c
      <4>1. kind = "announcement"
        BY <1>3, <2>1, <3>1
      <4>2. \A f \in Employees, t \in Procs : sent[<<c, f, t>>] = 0
        <5>1. ASSUME NEW f \in Employees, NEW t \in Procs
              PROVE  <<c, f, t>> \in Rows /\ <<c, f, t>>[1] = c
          BY <1>1 DEF Rows
        <5>. QED BY <1>1, <4>1, <5>1 DEF Sound, NoRows
      <4>. QED BY <1>5, <2>1, <3>0, <3>1, <4>2
    <3>2. CASE d # c
      <4>1. d \in DOMAIN campaign /\ campaign[d] = "announcement"
        BY <1>3, <2>1, <3>2
      <4>2. sent'[<<d, e, q>>] = sent[<<d, e, q>>] /\ sent'[<<d, e, s>>] = sent[<<d, e, s>>]
        BY <1>5, <3>0, <3>2
      <4>. QED BY <2>1, <4>1, <4>2 DEF IInv, Tables, AnnouncedOnce
    <3>. QED BY <3>1, <3>2
  <2>. QED BY <2>1 DEF AnnouncedOnce
<1>13. AnsweredOnce'
  BY <1>4 DEF IInv, Tables, AnsweredOnce
<1>. QED BY <1>6, <1>7, <1>8, <1>9, <1>10, <1>11, <1>12, <1>13 DEF IInv, Sounds, Tables

LEMMA DeleteCommitIInv ==
  ASSUME IInv, NEW p \in Procs, DeleteCommit(p)
  PROVE  IInv'
<1>. DEFINE c == req[p].id
<1>1. /\ \A q \in Procs : req'[q] = IF q = p THEN Idle ELSE req[q]
      /\ req' \in [Procs -> Continuation]
  BY GotoType, IdleSound DEF DeleteCommit, Finish, IInv
<1>2. /\ DOMAIN campaign' = DOMAIN campaign \ {c}
      /\ \A d \in DOMAIN campaign' : campaign'[d] = campaign[d]
      /\ campaign' \in [DOMAIN campaign' -> Kinds]
      /\ UNCHANGED <<staff, sent, closed, section, question, answers, due>> /\ ~ IsSent(c)
  BY DEF DeleteCommit, IInv, TypeOK
<1>3. TypeOK'
  BY <1>1, <1>2 DEF IInv, TypeOK
<1>4. Sounds'
  BY <1>1, <1>2, IdleSound DEF IInv, Sounds, Sound, NoRows, Sending, Idle
<1>5. AnnouncementsAreApart'
  BY <1>1, IdleSound DEF IInv, AnnouncementsAreApart
<1>6. Tables'
  BY <1>2 DEF IInv, Tables, NobodyTwice, SentCampaignsStay, IsSent, Has, DueIsReached,
     AnnouncedOnce, AnsweredOnce
<1>. QED BY <1>3, <1>4, <1>5, <1>6 DEF IInv

\* A step that takes answers away, because their section or question goes.
AnswersTaken ==
  /\ section' \subseteq Sections /\ question' \subseteq Questions
  /\ answers' \in [Answers -> Nat]
  /\ \A a \in Answers : answers'[a] = answers[a] \/ answers'[a] = 0
  /\ UNCHANGED <<staff, campaign, sent, closed, due>>

LEMMA AnswersTakenIInv ==
  ASSUME IInv, NEW p \in Procs, Finish(p), AnswersTaken
  PROVE  IInv'
<1>1. /\ \A q \in Procs : req'[q] = IF q = p THEN Idle ELSE req[q]
      /\ req' \in [Procs -> Continuation]
  BY GotoType, IdleSound DEF Finish, IInv
<1>2. \A r \in Rows, s \in Sections, q \in Questions, o \in Procs :
        <<r, s, q, o>> \in Answers
  BY DEF Answers
<1>3. TypeOK'
  BY <1>1 DEF AnswersTaken, IInv, TypeOK
<1>4. ASSUME NEW q \in Procs PROVE Sound(q, req[q])'
  <2>1. CASE q = p
    BY <1>1, <2>1, IdleSound DEF Sound, Idle, Sending
  <2>2. CASE q # p
    <3>1. req'[q] = req[q] /\ Sound(q, req[q]) /\ req[q] \in Continuation
      BY <1>1, <2>2 DEF IInv, Sounds, TypeOK
    <3>2. req[q].at = "answer" =>
            answers'[<<req[q].row, req[q].section, req[q].question, q>>] = 0
      BY <1>2, <3>1, Fields DEF AnswersTaken, Sound
    <3>. QED BY <3>1, <3>2 DEF AnswersTaken, Sound, NoRows
  <2>. QED BY <2>1, <2>2
<1>5. AnnouncementsAreApart'
  BY <1>1, IdleSound DEF IInv, AnnouncementsAreApart
<1>6. AnsweredOnce'
  <2>1. ASSUME NEW r \in Rows, NEW s \in Sections, NEW q \in Questions, NEW o \in Procs
        PROVE  answers'[<<r, s, q, o>>] <= 1
    <3>1. answers[<<r, s, q, o>>] <= 1
      BY DEF IInv, Tables, AnsweredOnce
    <3>2. answers'[<<r, s, q, o>>] = answers[<<r, s, q, o>>] \/ answers'[<<r, s, q, o>>] = 0
      BY <1>2 DEF AnswersTaken
    <3>. QED BY <3>1, <3>2
  <2>. QED BY <2>1 DEF AnsweredOnce
<1>7. NobodyTwice' /\ SentCampaignsStay' /\ DueIsReached' /\ AnnouncedOnce'
  BY DEF AnswersTaken, IInv, Tables, NobodyTwice, SentCampaignsStay, IsSent, Has,
     DueIsReached, AnnouncedOnce
<1>. QED BY <1>3, <1>4, <1>5, <1>6, <1>7 DEF IInv, Sounds, Tables

LEMMA RemoveCommitIInv ==
  ASSUME IInv, NEW p \in Procs, RemoveSectionCommit(p) \/ RemoveQuestionCommit(p)
  PROVE  AnswersTaken /\ IInv'
<1>1. CASE RemoveSectionCommit(p)
  BY <1>1, AnswersTakenIInv DEF RemoveSectionCommit, AnswersTaken, IInv, TypeOK
<1>2. CASE RemoveQuestionCommit(p)
  BY <1>2, AnswersTakenIInv DEF RemoveQuestionCommit, AnswersTaken, IInv, TypeOK
<1>. QED BY <1>1, <1>2

LEMMA AnswerCommitIInv ==
  ASSUME IInv, NEW p \in Procs, AnswerCommit(p)
  PROVE  IInv'
<1>. DEFINE a == <<req[p].row, req[p].section, req[p].question, p>>
<1>1. /\ \A q \in Procs : req'[q] = IF q = p THEN Idle ELSE req[q]
      /\ req' \in [Procs -> Continuation]
  BY GotoType, IdleSound DEF AnswerCommit, Finish, IInv
<1>2. /\ req[p].at = "answer" /\ req[p].row \in Rows /\ req[p].section \in Sections
      /\ req[p].question \in Questions /\ answers[a] = 0
  BY Fields DEF AnswerCommit, At, IInv, TypeOK, Sounds, Sound
<1>3. a \in Answers
  BY <1>2 DEF Answers
<1>4. /\ UNCHANGED <<staff, campaign, sent, closed, section, question, due>>
      /\ answers' = [answers EXCEPT ![a] = @ + 1]
  BY DEF AnswerCommit
<1>5. /\ answers' \in [Answers -> Nat]
      /\ \A b \in Answers : answers'[b] = IF b = a THEN 1 ELSE answers[b]
  BY <1>2, <1>3, <1>4 DEF IInv, TypeOK
<1>6. \A r \in Rows, s \in Sections, q \in Questions, o \in Procs :
        <<r, s, q, o>> \in Answers /\ (<<r, s, q, o>> = a => o = p)
  BY DEF Answers
<1>. HIDE DEF a
<1>7. TypeOK'
  BY <1>1, <1>4, <1>5 DEF IInv, TypeOK
<1>8. ASSUME NEW q \in Procs PROVE Sound(q, req[q])'
  <2>1. CASE q = p
    BY <1>1, <2>1, IdleSound DEF Sound, Idle, Sending
  <2>2. CASE q # p
    <3>1. req'[q] = req[q] /\ Sound(q, req[q]) /\ req[q] \in Continuation
      BY <1>1, <2>2 DEF IInv, Sounds, TypeOK
    <3>2. req[q].at = "answer" =>
            answers'[<<req[q].row, req[q].section, req[q].question, q>>] = 0
      BY <1>5, <1>6, <2>2, <3>1, Fields DEF Sound
    <3>. QED BY <1>4, <3>1, <3>2 DEF Sound, NoRows
  <2>. QED BY <2>1, <2>2
<1>9. AnnouncementsAreApart'
  BY <1>1, IdleSound DEF IInv, AnnouncementsAreApart
<1>10. AnsweredOnce'
  <2>1. ASSUME NEW r \in Rows, NEW s \in Sections, NEW q \in Questions, NEW o \in Procs
        PROVE  answers'[<<r, s, q, o>>] <= 1
    <3>1. answers[<<r, s, q, o>>] <= 1
      BY DEF IInv, Tables, AnsweredOnce
    <3>2. answers'[<<r, s, q, o>>] = answers[<<r, s, q, o>>] \/ answers'[<<r, s, q, o>>] = 1
      BY <1>5, <1>6
    <3>. QED BY <3>1, <3>2
  <2>. QED BY <2>1 DEF AnsweredOnce
<1>11. NobodyTwice' /\ SentCampaignsStay' /\ DueIsReached' /\ AnnouncedOnce'
  BY <1>4 DEF IInv, Tables, NobodyTwice, SentCampaignsStay, IsSent, Has, DueIsReached, AnnouncedOnce
<1>. QED BY <1>7, <1>8, <1>9, <1>10, <1>11 DEF IInv, Sounds, Tables

LEMMA NextIInv ==
  ASSUME IInv, [Next]_vars
  PROVE  IInv'
<1>1. CASE AtOnce
  BY <1>1, HireIInv, CreateIInv, CloseIInv, AddSectionIInv, AddQuestionIInv
     DEF AtOnce, CreateAppraisal, CreateOnboardingDocument, HideAnnouncement, CompleteAppraisal
<1>2. ASSUME NEW p \in Procs, Arrive(p) PROVE IInv'
  BY <1>2, ArriveIInv
<1>3. ASSUME NEW p \in Procs, Advance(p) PROVE IInv'
  BY <1>3, ReadStaffIInv, SendCommitIInv, DeleteCommitIInv, RemoveCommitIInv,
     AnswerCommitIInv DEF Advance
<1>4. ASSUME NEW p \in Procs, Fail(p) PROVE IInv'
  BY <1>4, FailIInv
<1>5. CASE UNCHANGED vars
  <2>1. TypeOK' /\ Sounds' /\ AnnouncementsAreApart'
    BY <1>5 DEF vars, IInv, TypeOK, Sounds, Sound, NoRows, AnnouncementsAreApart
  <2>2. Tables'
    BY <1>5 DEF vars, IInv, Tables, NobodyTwice, SentCampaignsStay, IsSent, Has, DueIsReached,
       AnnouncedOnce, AnsweredOnce
  <2>. QED BY <2>1, <2>2 DEF IInv
<1>. QED BY <1>1, <1>2, <1>3, <1>4, <1>5 DEF Next

LEMMA SpecIInv == Spec => []IInv
  BY InitIInv, NextIInv, PTL DEF Spec

-----------------------------------------------------------------------------
(* Theorems.                                                               *)

\* The tables of what is sent and what the handlers hold have the right shape.
THEOREM TypeCorrect == Spec => []TypeOK
<1>1. IInv => TypeOK
  BY DEF IInv
<1>. QED BY <1>1, SpecIInv, PTL

\* No handler sends an appraisal to anybody twice, nor once somebody it knew of had
\* it: rows in excess come of requests that overlap, and of nothing else.
THEOREM AppraisalsSentOnce == Spec => []AppraisalsAreSentOnce
<1>1. ASSUME IInv PROVE AppraisalsAreSentOnce
  <2>1. ASSUME NEW c \in DOMAIN campaign, NEW e \in Employees, NEW p \in Procs,
               campaign[c] = "appraisal", Sending(req[p]), req[p].id = c
        PROVE  sent[<<c, e, p>>] = 0
    BY <1>1, <2>1 DEF IInv, Sounds, Sound
  <2>. QED BY <1>1, <2>1 DEF IInv, Tables, NobodyTwice, AppraisalsAreSentOnce, At, Sending
<1>2. IInv => AppraisalsAreSentOnce
  BY <1>1
<1>. QED BY <1>2, SpecIInv, PTL

\* The references of the rows keep a campaign that was sent, whoever deletes it.
THEOREM SentCampaignsAreKept == Spec => []SentCampaignsStay
<1>1. IInv => SentCampaignsStay
  BY DEF IInv, Tables
<1>. QED BY <1>1, SpecIInv, PTL

\* Sending to all reaches everybody who was there when it was asked for, because
\* the staff is read later and nobody leaves.
THEOREM EverybodyIsReached == Spec => []EverybodyDueIsReached
<1>1. ASSUME IInv PROVE EverybodyDueIsReached
  <2>1. \A c \in DOMAIN campaign : \A e \in due[c] : Has(e, c)
    BY <1>1 DEF IInv, TypeOK, Tables, DueIsReached
  <2>. QED BY <1>1, <2>1 DEF IInv, Tables, AnnouncedOnce, EverybodyDueIsReached
<1>2. IInv => EverybodyDueIsReached
  BY <1>1
<1>. QED BY <1>2, SpecIInv, PTL

\* Two answers to one question in one section come only of requests that overlap,
\* whatever sections and questions are removed and added meanwhile.
THEOREM QuestionsAnsweredOnce == Spec => []QuestionsAreAnsweredOnce
<1>1. ASSUME IInv PROVE QuestionsAreAnsweredOnce
  <2>1. \A p \in Procs : 
          At(p, "answer") => answers[<<req[p].row, req[p].section, req[p].question, p>>] = 0
    BY <1>1 DEF IInv, Sounds, Sound, At
  <2>. QED BY <1>1, <2>1 DEF IInv, Tables, AnsweredOnce, QuestionsAreAnsweredOnce, Answering
<1>2. IInv => QuestionsAreAnsweredOnce
  BY <1>1
<1>. QED BY <1>2, SpecIInv, PTL

-----------------------------------------------------------------------------
(* What the checks before the transactions are good for while requests for  *)
(* the same rows do not overlap.                                           *)

NobodyHasIt == \A p \in Procs, c \in CampaignIds : SendsAppraisal(p, c) => NoRows(c)

\* Campaigns keep their kind, and only committing what is sent inserts rows.
LEMMA KindStep ==
  ASSUME IInv, [Next]_vars, NEW c \in DOMAIN campaign, c \in DOMAIN campaign'
  PROVE  campaign'[c] = campaign[c]
<1>1. CASE UNCHANGED campaign
  BY <1>1
<1>2. ASSUME NEW d \in CampaignIds, NEW kind \in Kinds, Create(d, kind)
      PROVE  campaign'[c] = campaign[c]
  BY <1>2 DEF Create, Insert, Fresh
<1>3. ASSUME NEW p \in Procs, SendCommit(p) PROVE campaign'[c] = campaign[c]
  <2>1. Sound(p, req[p]) /\ Sending(req[p])
    BY <1>3 DEF SendCommit, At, Sending, IInv, Sounds
  <2>. QED BY <1>1, <1>3, <2>1 DEF SendCommit, Insert, Sound
<1>4. ASSUME NEW p \in Procs, DeleteCommit(p) PROVE campaign'[c] = campaign[c]
  BY <1>4 DEF DeleteCommit
<1>5. ASSUME NEW p \in Procs, Arrive(p) PROVE UNCHANGED campaign
  BY <1>5 DEF Arrive, AppraisalRequests, DocumentRequests, RemoveSection, RemoveQuestion, Answer,
     Delete, SendAppraisal, SendAppraisalToEmployee, SendDocument, SendDocumentToNew, Announce,
     Send, SendToSome
<1>6. ASSUME NEW p \in Procs,
             \/ ReadStaff(p) \/ RemoveSectionCommit(p) \/ RemoveQuestionCommit(p)
             \/ AnswerCommit(p) \/ Fail(p)
      PROVE  UNCHANGED campaign
  BY <1>6 DEF ReadStaff, RemoveSectionCommit, RemoveQuestionCommit, AnswerCommit, Fail
<1>7. CASE AtOnce
  <2>1. "appraisal" \in Kinds /\ "document" \in Kinds
    BY DEF Kinds
  <2>. QED BY <1>1, <1>2, <1>7, <2>1 DEF AtOnce, Hire, CreateAppraisal,
           CreateOnboardingDocument, HideAnnouncement, CompleteAppraisal, Close,
           AddSection, AddQuestion
<1>. QED BY <1>1, <1>3, <1>4, <1>5, <1>6, <1>7 DEF Next, Advance, vars

LEMMA SentStep ==
  ASSUME [Next]_vars
  PROVE  UNCHANGED sent \/ \E p \in Procs : SendCommit(p)
<1>1. ASSUME NEW p \in Procs, Arrive(p) PROVE UNCHANGED sent
  BY <1>1 DEF Arrive, AppraisalRequests, DocumentRequests, RemoveSection, RemoveQuestion, Answer,
     Delete, SendAppraisal, SendAppraisalToEmployee, SendDocument, SendDocumentToNew, Announce,
     Send, SendToSome
<1>2. ASSUME NEW p \in Procs,
             \/ ReadStaff(p) \/ RemoveSectionCommit(p) \/ RemoveQuestionCommit(p)
             \/ AnswerCommit(p) \/ DeleteCommit(p) \/ Fail(p)
      PROVE  UNCHANGED sent
  BY <1>2 DEF ReadStaff, RemoveSectionCommit, RemoveQuestionCommit, AnswerCommit, DeleteCommit, Fail
<1>3. CASE AtOnce
  BY <1>3 DEF AtOnce, Hire, CreateAppraisal, CreateOnboardingDocument, Create,
     HideAnnouncement, CompleteAppraisal, Close, AddSection, AddQuestion
<1>. QED BY <1>1, <1>2, <1>3 DEF Next, Advance, vars

LEMMA NoneMeansNoRows ==
  ASSUME IInv, NEW c \in CampaignIds, ~ IsSent(c)
  PROVE  NoRows(c)
<1>1. \A r \in Rows : r[1] = c => r = <<c, r[2], r[3]>> /\ r[2] \in Employees /\ r[3] \in Procs
  BY DEF Rows
<1>. QED BY <1>1, NoneHasIt DEF NoRows

\* A handler that sends an appraisal has been at it, or has just found that nobody has it.
LEMMA SendsStep ==
  ASSUME IInv, [Next]_vars, NEW p \in Procs, NEW c \in CampaignIds, SendsAppraisal(p, c)'
  PROVE  SendsAppraisal(p, c) \/ (UNCHANGED sent /\ NoRows(c))
<1>. DEFINE Goal == SendsAppraisal(p, c) \/ (UNCHANGED sent /\ NoRows(c))
<1>1. CASE req'[p] = req[p]
  BY <1>1 DEF SendsAppraisal, At
<1>2. ASSUME NEW q \in Procs, NEW k, Goto(q, k)
      PROVE  req'[p] = IF q = p THEN k ELSE req[p]
  BY <1>2 DEF Goto, IInv, TypeOK
<1>3. ASSUME NEW q \in Procs, NEW k, Goto(q, k),
             k.at \in {"send", "sendTx"} => k.kind # "appraisal"
      PROVE  Goal
  <2>1. CASE q = p
    BY <1>2, <1>3, <2>1 DEF SendsAppraisal, At
  <2>. QED BY <1>1, <1>2, <1>3, <2>1
<1>4. ASSUME NEW q \in Procs, NEW d \in CampaignIds, ~ IsSent(d), UNCHANGED sent,
             NEW k, Goto(q, k), k.id = d
      PROVE  Goal
  <2>1. CASE q = p
    <3>1. d = c
      BY <1>2, <1>4, <2>1 DEF SendsAppraisal
    <3>. QED BY <1>4, <3>1, NoneMeansNoRows
  <2>. QED BY <1>1, <1>2, <1>4, <2>1
<1>5. ASSUME NEW q \in Procs, Arrive(q) PROVE Goal
  <2>1. ASSUME NEW d \in CampaignIds, SendAppraisal(q, d) PROVE Goal
    BY <1>4, <2>1 DEF SendAppraisal, Send
  <2>2. ASSUME NEW d \in CampaignIds, NEW e \in Employees, SendAppraisalToEmployee(q, d, e)
        PROVE  Goal
    BY <1>4, <2>2 DEF SendAppraisalToEmployee, SendToSome
  <2>3. ASSUME NEW d \in CampaignIds, SendDocument(q, d) \/ Announce(q, d) PROVE Goal
    BY <1>3, <2>3 DEF SendDocument, Announce, Send
  <2>4. ASSUME NEW d \in CampaignIds, NEW to \in SUBSET Employees, SendDocumentToNew(q, d, to)
        PROVE  Goal
    BY <1>3, <2>4 DEF SendDocumentToNew, SendToSome
  <2>5. ASSUME NEW d \in CampaignIds, Delete(q, d) PROVE Goal
    BY <1>3, <2>5 DEF Delete
  <2>6. ASSUME NEW x \in Questions, RemoveQuestion(q, x) PROVE Goal
    BY <1>3, <2>6 DEF RemoveQuestion
  <2>7. ASSUME NEW y \in Sections, RemoveSection(q, y) PROVE Goal
    BY <1>3, <2>7 DEF RemoveSection
  <2>8. ASSUME NEW r \in Rows, NEW y \in Sections, NEW x \in Questions, Answer(q, r, y, x)
        PROVE  Goal
    BY <1>3, <2>8 DEF Answer
  <2>. QED BY <1>5, <2>1, <2>2, <2>3, <2>4, <2>5, <2>6, <2>7, <2>8
       DEF Arrive, AppraisalRequests, DocumentRequests
<1>6. ASSUME NEW q \in Procs, ReadStaff(q) PROVE Goal
  <2>. DEFINE k == [at |-> "sendTx", id |-> req[q].id, kind |-> req[q].kind,
                    since |-> req[q].since, to |-> staff]
  <2>1. At(q, "send") /\ req'[p] = IF q = p THEN k ELSE req[p]
    BY <1>2, <1>6 DEF ReadStaff
  <2>2. CASE q = p
    BY <2>1, <2>2 DEF SendsAppraisal, At
  <2>. QED BY <1>1, <2>1, <2>2
<1>7. ASSUME NEW q \in Procs, Finish(q) PROVE Goal
  BY <1>3, <1>7 DEF Finish, Idle
<1>8. CASE AtOnce \/ UNCHANGED vars
  <2>1. UNCHANGED req
    BY <1>8 DEF AtOnce, Hire, CreateAppraisal, CreateOnboardingDocument, Create,
       HideAnnouncement, CompleteAppraisal, Close, AddSection, AddQuestion, vars
  <2>. QED BY <1>1, <2>1
<1>. QED BY <1>5, <1>6, <1>7, <1>8
     DEF Next, Advance, SendCommit, DeleteCommit, RemoveSectionCommit, RemoveQuestionCommit,
         AnswerCommit, Fail, Abandon

\* The rows that committing what is sent inserts.
LEMMA CommitRows ==
  ASSUME IInv, NEW p \in Procs, SendCommit(p)
  PROVE  /\ req[p].id \in CampaignIds /\ ~ Sending(req'[p])
         /\ \A r \in Rows : r[1] # req[p].id \/ r[3] # p => sent'[r] = sent[r]
         /\ \A r \in Rows : sent'[r] = sent[r] \/ sent'[r] = sent[r] + 1
         /\ req[p].id \in DOMAIN campaign' /\ campaign'[req[p].id] = req[p].kind
<1>1. Sending(req[p]) /\ Sound(p, req[p]) /\ req[p].id \in CampaignIds
  BY Fields DEF SendCommit, At, Sending, IInv, Sounds, TypeOK
<1>2. ~ Sending(req'[p])
  BY GotoType, IdleSound DEF SendCommit, Finish, IInv
<1>3. req[p].id \in DOMAIN campaign' /\ campaign'[req[p].id] = req[p].kind
  BY <1>1 DEF SendCommit, Insert, Sound
<1>. QED BY <1>1, <1>2, <1>3 DEF SendCommit, WithRows

LEMMA NextAppraisals ==
  ASSUME IInv, IInv', SendsApart, NobodyHasIt, OneAppraisalEach, [Next]_vars
  PROVE  NobodyHasIt' /\ OneAppraisalEach'
<1>0. \A c \in CampaignIds, e \in Employees, p \in Procs :
        <<c, e, p>> \in Rows /\ sent[<<c, e, p>>] \in Nat
  BY DEF Rows, IInv, TypeOK
<1>1. CASE UNCHANGED sent
  <2>1. NobodyHasIt'
    BY <1>1, SendsStep DEF NobodyHasIt, NoRows
  <2>2. ASSUME NEW c \in DOMAIN campaign', NEW e \in Employees, NEW p \in Procs,
               NEW s \in Procs, campaign'[c] = "appraisal",
               sent[<<c, e, p>>] > 0, sent[<<c, e, s>>] > 0
        PROVE  p = s /\ sent[<<c, e, p>>] = 1
    <3>1. c \in CampaignIds
      BY DEF IInv, TypeOK
    <3>2. c \in DOMAIN campaign
      BY <2>2, <3>1 DEF IInv, Tables, SentCampaignsStay, IsSent, Has
    <3>. QED BY <2>2, <3>2, KindStep DEF OneAppraisalEach
  <2>. QED BY <1>1, <2>1, <2>2 DEF OneAppraisalEach
<1>2. ASSUME NEW p \in Procs, SendCommit(p) PROVE NobodyHasIt' /\ OneAppraisalEach'
  <2>. DEFINE c == req[p].id
  <2>1. ASSUME NEW q \in Procs, NEW d \in CampaignIds, SendsAppraisal(q, d)' PROVE NoRows(d)'
    <3>1. q # p
      BY <1>2, <2>1, CommitRows DEF SendsAppraisal, Sending, At
    <3>2. SendsAppraisal(q, d) \/ (UNCHANGED sent /\ NoRows(d))
      BY <2>1, SendsStep
    <3>3. CASE UNCHANGED sent /\ NoRows(d)
      BY <3>3 DEF NoRows
    <3>4. CASE SendsAppraisal(q, d)
      <4>1. NoRows(d)
        BY <3>4 DEF NobodyHasIt
      <4>2. CASE d # c
        BY <1>2, <4>1, <4>2, CommitRows DEF NoRows
      <4>3. CASE d = c
        <5>1. req[p].kind # "appraisal"
          BY <1>2, <3>1, <3>4, <4>3 DEF SendsApart, SendsAppraisal, SendCommit, At
        <5>2. Sending(req[p]) /\ Sending(req[q]) /\ req[q].kind = "appraisal" /\ req[q].id = d
              /\ Sound(p, req[p]) /\ Sound(q, req[q])
          BY <1>2, <3>4 DEF SendsAppraisal, SendCommit, At, Sending, IInv, Sounds
        <5>3. req[p].kind # "announcement"
          BY <3>1, <4>3, <5>2 DEF IInv, AnnouncementsAreApart
        <5>4. c \in DOMAIN campaign
          BY <1>2, <5>3 DEF SendCommit
        <5>. QED BY <4>3, <5>1, <5>2, <5>3, <5>4 DEF Sound
      <4>. QED BY <4>2, <4>3
    <3>. QED BY <3>2, <3>3, <3>4
  <2>2. ASSUME NEW d \in DOMAIN campaign', NEW e \in Employees, NEW q \in Procs,
               NEW s \in Procs, campaign'[d] = "appraisal",
               sent'[<<d, e, q>>] > 0, sent'[<<d, e, s>>] > 0
        PROVE  q = s /\ sent'[<<d, e, q>>] = 1
    <3>1. d \in CampaignIds
      BY DEF IInv, TypeOK
    <3>2. CASE d = c
      <4>1. NoRows(c)
        BY <1>2, <2>2, <3>1, <3>2, CommitRows DEF NobodyHasIt, SendsAppraisal, SendCommit
      <4>2. <<d, e, q>>[1] = c /\ <<d, e, s>>[1] = c /\ <<d, e, q>>[3] = q /\ <<d, e, s>>[3] = s
        BY <3>2
      <4>3. sent[<<d, e, q>>] = 0 /\ sent[<<d, e, s>>] = 0
        BY <1>0, <3>1, <4>1, <4>2 DEF NoRows
      <4>. QED BY <1>0, <1>2, <2>2, <3>1, <4>2, <4>3, CommitRows
    <3>3. CASE d # c
      <4>1. <<d, e, q>>[1] # c /\ <<d, e, s>>[1] # c
        BY <3>3
      <4>2. sent'[<<d, e, q>>] = sent[<<d, e, q>>] /\ sent'[<<d, e, s>>] = sent[<<d, e, s>>]
        BY <1>0, <1>2, <3>1, <4>1, CommitRows
      <4>3. d \in DOMAIN campaign
        BY <2>2, <3>1, <4>2 DEF IInv, Tables, SentCampaignsStay, IsSent, Has
      <4>. QED BY <2>2, <4>2, <4>3, KindStep DEF OneAppraisalEach
    <3>. QED BY <3>2, <3>3
  <2>. QED BY <2>1, <2>2 DEF NobodyHasIt, OneAppraisalEach
<1>. QED BY <1>1, <1>2, SentStep

\* The check that nobody has an appraisal yet keeps anybody from having it twice as long
\* as no two requests to send it overlap; nothing else in the code does.
THEOREM AppraisalsReachOnce == Spec /\ []SendsApart => []OneAppraisalEach
<1>1. Init => NobodyHasIt /\ OneAppraisalEach
  BY DEF Init, NobodyHasIt, OneAppraisalEach, SendsAppraisal, At, Idle
<1>2. IInv /\ IInv' /\ SendsApart /\ NobodyHasIt /\ OneAppraisalEach /\ [Next]_vars
        => NobodyHasIt' /\ OneAppraisalEach'
  BY NextAppraisals
<1>. QED BY <1>1, <1>2, SpecIInv, PTL DEF Spec

NobodyAnswered ==
  \A p, o \in Procs, r \in Rows, s \in Sections, q \in Questions :
    Answering(p, r, s, q) => answers[<<r, s, q, o>>] = 0

\* A handler that answers a question has been at it, or has just found no answer to it.
LEMMA AnsweringStep ==
  ASSUME IInv, [Next]_vars, NEW p \in Procs, NEW r \in Rows, NEW v \in Sections,
         NEW x \in Questions, Answering(p, r, v, x)'
  PROVE  \/ Answering(p, r, v, x)
         \/ UNCHANGED answers /\ \A o \in Procs : answers[<<r, v, x, o>>] = 0
<1>. DEFINE Goal ==
       \/ Answering(p, r, v, x)
       \/ UNCHANGED answers /\ \A o \in Procs : answers[<<r, v, x, o>>] = 0
<1>1. CASE req'[p] = req[p]
  BY <1>1 DEF Answering, At
<1>2. ASSUME NEW q \in Procs, NEW k, Goto(q, k)
      PROVE  req'[p] = IF q = p THEN k ELSE req[p]
  BY <1>2 DEF Goto, IInv, TypeOK
<1>3. ASSUME NEW q \in Procs, NEW k, Goto(q, k), k.at # "answer" PROVE Goal
  <2>1. CASE q = p
    BY <1>2, <1>3, <2>1 DEF Answering, At
  <2>. QED BY <1>1, <1>2, <1>3, <2>1
<1>4. ASSUME NEW q \in Procs, NEW t \in Rows, NEW w \in Sections, NEW y \in Questions,
             Answer(q, t, w, y)
      PROVE  Goal
  <2>. DEFINE k == [at |-> "answer", row |-> t, section |-> w, question |-> y]
  <2>1. UNCHANGED answers /\ req'[p] = (IF q = p THEN k ELSE req[p]) /\ ~ Answered(t, w, y)
    BY <1>2, <1>4 DEF Answer
  <2>2. CASE q = p
    <3>1. t = r /\ w = v /\ y = x
      BY <2>1, <2>2 DEF Answering
    <3>2. \A o \in Procs : answers[<<r, v, x, o>>] \in Nat
      BY DEF IInv, TypeOK, Answers
    <3>3. \A o \in Procs : ~ (answers[<<r, v, x, o>>] > 0)
      BY <2>1, <3>1 DEF Answered
    <3>. QED BY <2>1, <3>2, <3>3
  <2>. QED BY <1>1, <2>1, <2>2
<1>5. ASSUME NEW q \in Procs, Arrive(q) PROVE Goal
  <2>1. ASSUME NEW d \in CampaignIds, SendAppraisal(q, d) \/ SendDocument(q, d) \/ Announce(q, d)
        PROVE  Goal
    BY <1>3, <2>1 DEF SendAppraisal, SendDocument, Announce, Send
  <2>2. ASSUME NEW d \in CampaignIds, NEW e \in Employees, SendAppraisalToEmployee(q, d, e)
        PROVE  Goal
    BY <1>3, <2>2 DEF SendAppraisalToEmployee, SendToSome
  <2>3. ASSUME NEW d \in CampaignIds, NEW to \in SUBSET Employees, SendDocumentToNew(q, d, to)
        PROVE  Goal
    BY <1>3, <2>3 DEF SendDocumentToNew, SendToSome
  <2>4. ASSUME NEW d \in CampaignIds, Delete(q, d) PROVE Goal
    BY <1>3, <2>4 DEF Delete
  <2>5. ASSUME NEW y \in Questions, RemoveQuestion(q, y) PROVE Goal
    BY <1>3, <2>5 DEF RemoveQuestion
  <2>6. ASSUME NEW y \in Sections, RemoveSection(q, y) PROVE Goal
    BY <1>3, <2>6 DEF RemoveSection
  <2>. QED BY <1>4, <1>5, <2>1, <2>2, <2>3, <2>4, <2>5, <2>6
       DEF Arrive, AppraisalRequests, DocumentRequests
<1>6. ASSUME NEW q \in Procs, ReadStaff(q) PROVE Goal
  BY <1>3, <1>6 DEF ReadStaff
<1>7. ASSUME NEW q \in Procs, Finish(q) PROVE Goal
  BY <1>3, <1>7 DEF Finish, Idle
<1>8. CASE AtOnce \/ UNCHANGED vars
  <2>1. UNCHANGED req
    BY <1>8 DEF AtOnce, Hire, CreateAppraisal, CreateOnboardingDocument, Create,
       HideAnnouncement, CompleteAppraisal, Close, AddSection, AddQuestion, vars
  <2>. QED BY <1>1, <2>1
<1>. QED BY <1>5, <1>6, <1>7, <1>8
     DEF Next, Advance, SendCommit, DeleteCommit, RemoveSectionCommit, RemoveQuestionCommit,
         AnswerCommit, Fail, Abandon

LEMMA AnswersStep ==
  ASSUME [Next]_vars
  PROVE  \/ UNCHANGED answers
         \/ \E p \in Procs : RemoveSectionCommit(p) \/ RemoveQuestionCommit(p) \/ AnswerCommit(p)
<1>1. ASSUME NEW p \in Procs, Arrive(p) PROVE UNCHANGED answers
  BY <1>1 DEF Arrive, AppraisalRequests, DocumentRequests, RemoveSection, RemoveQuestion, Answer,
     Delete, SendAppraisal, SendAppraisalToEmployee, SendDocument, SendDocumentToNew, Announce,
     Send, SendToSome
<1>2. ASSUME NEW p \in Procs, ReadStaff(p) \/ SendCommit(p) \/ DeleteCommit(p) \/ Fail(p)
      PROVE  UNCHANGED answers
  BY <1>2 DEF ReadStaff, SendCommit, DeleteCommit, Fail
<1>3. CASE AtOnce
  BY <1>3 DEF AtOnce, Hire, CreateAppraisal, CreateOnboardingDocument, Create,
     HideAnnouncement, CompleteAppraisal, Close, AddSection, AddQuestion
<1>. QED BY <1>1, <1>2, <1>3 DEF Next, Advance, vars

LEMMA NextAnswers ==
  ASSUME IInv, AnswersApart, NobodyAnswered, OneAnswerEach, [Next]_vars
  PROVE  NobodyAnswered' /\ OneAnswerEach'
<1>0. \A r \in Rows, s \in Sections, q \in Questions, o \in Procs :
        <<r, s, q, o>> \in Answers /\ answers[<<r, s, q, o>>] \in Nat
  BY DEF Answers, IInv, TypeOK
<1>1. CASE \A a \in Answers : answers'[a] = answers[a] \/ answers'[a] = 0
  <2>1. NobodyAnswered'
    BY <1>0, <1>1, AnsweringStep DEF NobodyAnswered
  <2>2. OneAnswerEach'
    BY <1>0, <1>1 DEF OneAnswerEach
  <2>. QED BY <2>1, <2>2
<1>2. ASSUME NEW p \in Procs, AnswerCommit(p) PROVE NobodyAnswered' /\ OneAnswerEach'
  <2>. DEFINE row == req[p].row
              sec == req[p].section
              qst == req[p].question
              a == <<row, sec, qst, p>>
  <2>1. row \in Rows /\ sec \in Sections /\ qst \in Questions /\ Answering(p, row, sec, qst)
    BY <1>2, Fields DEF AnswerCommit, Answering, At, IInv, TypeOK
  <2>2. \A o \in Procs : answers[<<row, sec, qst, o>>] = 0
    BY <2>1 DEF NobodyAnswered
  <2>3. \A b \in Answers : answers'[b] = IF b = a THEN 1 ELSE answers[b]
    BY <1>0, <1>2, <2>1, <2>2 DEF AnswerCommit, IInv, TypeOK
  <2>4. ASSUME NEW r \in Rows, NEW s \in Sections, NEW q \in Questions, NEW o \in Procs,
               NEW t \in Procs, Answering(t, r, s, q)'
        PROVE  answers'[<<r, s, q, o>>] = 0
    <3>1. t # p
      BY <1>2, <2>4, GotoType, IdleSound DEF AnswerCommit, Finish, Answering, At, IInv, Idle
    <3>2. CASE Answering(t, r, s, q)
      <4>1. <<r, s, q, o>> # a
        BY <2>1, <3>1, <3>2 DEF AnswersApart
      <4>. QED BY <1>0, <2>3, <3>2, <4>1 DEF NobodyAnswered
    <3>3. CASE UNCHANGED answers /\ \A u \in Procs : answers[<<r, s, q, u>>] = 0
      BY <3>3
    <3>. QED BY <2>4, <3>2, <3>3, AnsweringStep
  <2>5. ASSUME NEW r \in Rows, NEW s \in Sections, NEW q \in Questions, NEW o \in Procs,
               NEW t \in Procs, answers'[<<r, s, q, o>>] > 0, answers'[<<r, s, q, t>>] > 0
        PROVE  o = t /\ answers'[<<r, s, q, o>>] = 1
    <3>1. CASE r = row /\ s = sec /\ q = qst
      BY <1>0, <2>2, <2>3, <2>5, <3>1
    <3>2. CASE ~ (r = row /\ s = sec /\ q = qst)
      <4>1. <<r, s, q, o>> # a /\ <<r, s, q, t>> # a
        BY <3>2
      <4>. QED BY <1>0, <2>3, <2>5, <4>1 DEF OneAnswerEach
    <3>. QED BY <3>1, <3>2
  <2>. QED BY <2>4, <2>5 DEF NobodyAnswered, OneAnswerEach
<1>3. ASSUME NEW p \in Procs, RemoveSectionCommit(p) \/ RemoveQuestionCommit(p)
      PROVE  \A a \in Answers : answers'[a] = answers[a] \/ answers'[a] = 0
  BY <1>3, RemoveCommitIInv DEF AnswersTaken
<1>. QED BY <1>1, <1>2, <1>3, AnswersStep

\* The check that a question has no answer yet in a section keeps it from getting two there
\* as long as no two requests to give one overlap.
THEOREM AnswersAreGivenOnce == Spec /\ []AnswersApart => []OneAnswerEach
<1>1. Init => NobodyAnswered /\ OneAnswerEach
  <2>1. \A r \in Rows, s \in Sections, q \in Questions, o \in Procs :
          <<r, s, q, o>> \in Answers
    BY DEF Answers
  <2>. QED BY <2>1 DEF Init, NobodyAnswered, OneAnswerEach, Answering, At, Idle
<1>2. IInv /\ AnswersApart /\ NobodyAnswered /\ OneAnswerEach /\ [Next]_vars
        => NobodyAnswered' /\ OneAnswerEach'
  BY NextAnswers
<1>. QED BY <1>1, <1>2, SpecIInv, PTL DEF Spec
=============================================================================
