------------------------------ MODULE Campaigns ------------------------------
(***************************************************************************)
(* What an organization sends to its staff: appraisals, announcements and  *)
(* onboarding documents.  Sending reads the staff and inserts a row for    *)
(* each employee read, in one transaction.  An appraisal is sent if nobody *)
(* has it yet; an announcement is created where it is sent; a document may *)
(* be sent at any time.  Appraisals are then answered question by question.*)
(*                                                                         *)
(* A row is named by its campaign, its employee and the handler that       *)
(* inserted it.  The tables know no such key: sent and answers count the   *)
(* rows of each name.                                                      *)
(***************************************************************************)
EXTENDS Handlers, Integers

CONSTANTS
  Employees,
  CampaignIds,
  Sections,
  Questions,
  MaxRows      \* a bound: no document is sent to somebody more often by one handler

ASSUME MaxRowsAssumption == MaxRows \in Nat \ {0}

VARIABLES
  staff,       \* the employees there are
  campaign,    \* the kind of each campaign there is
  sent,        \* how many rows of each name there are
  closed,      \* the rows that are hidden (announcements) or completed (appraisals)
  section,     \* the sections there are
  question,    \* the questions there are
  answers,     \* how many answers of a row, section and question each handler has inserted
  due          \* who was there when a campaign was asked to be sent to all (history)

vars == <<req, staff, campaign, sent, closed, section, question, answers, due>>

Kinds == {"appraisal", "announcement", "document"}
Rows == CampaignIds \X Employees \X Procs
Answers == Rows \X Sections \X Questions \X Procs

Continuation ==
  {Idle}
  \cup [at : {"send"}, id : CampaignIds, kind : Kinds, since : SUBSET Employees]
  \cup [at : {"sendTx"}, id : CampaignIds, kind : Kinds, since : SUBSET Employees,
        to : SUBSET Employees]
  \cup [at : {"delete"}, id : CampaignIds]
  \cup [at : {"answer"}, row : Rows, section : Sections, question : Questions]
  \cup [at : {"removeSection"}, section : Sections]
  \cup [at : {"removeQuestion"}, question : Questions]

TypeOK ==
  /\ staff \subseteq Employees
  /\ DOMAIN campaign \subseteq CampaignIds
  /\ campaign \in [DOMAIN campaign -> Kinds]
  /\ sent \in [Rows -> Nat]
  /\ closed \subseteq Rows
  /\ section \subseteq Sections
  /\ question \subseteq Questions
  /\ answers \in [Answers -> Nat]
  /\ due \in [CampaignIds -> SUBSET Employees]
  /\ req \in [Procs -> Continuation]

Init ==
  /\ staff = {}
  /\ campaign = [c \in {} |-> "appraisal"]
  /\ sent = [r \in Rows |-> 0]
  /\ closed = {}
  /\ section = {}
  /\ question = {}
  /\ answers = [a \in Answers |-> 0]
  /\ due = [c \in CampaignIds |-> {}]
  /\ req = [p \in Procs |-> Idle]

-----------------------------------------------------------------------------

Is(c, kind) == c \in DOMAIN campaign /\ campaign[c] = kind
Has(e, c) == \E p \in Procs : sent[<<c, e, p>>] > 0
IsSent(c) == \E e \in Employees : Has(e, c)
Answered(r, s, q) == \E p \in Procs : answers[<<r, s, q, p>>] > 0
\* No id is used twice.
Fresh == {c \in CampaignIds \ DOMAIN campaign :
            ~ IsSent(c) /\ \A p \in Procs : "id" \in DOMAIN req[p] => req[p].id # c}

\* An employee is created (module Accounts has the steps of it).
Hire(e) ==
  /\ e \notin staff
  /\ staff' = staff \cup {e}
  /\ UNCHANGED <<req, campaign, sent, closed, section, question, answers, due>>

Create(c, kind) ==
  /\ c \in Fresh
  /\ campaign' = Insert(campaign, c, kind)
  /\ UNCHANGED <<req, staff, sent, closed, section, question, answers, due>>

CreateAppraisal(c) == Create(c, "appraisal")
CreateOnboardingDocument(c) == Create(c, "document")

\* A request to send a campaign to everybody who is there.
Send(p, c, kind) ==
  /\ At(p, "idle")
  /\ Goto(p, [at |-> "send", id |-> c, kind |-> kind, since |-> staff])
  /\ UNCHANGED <<staff, campaign, sent, closed, section, question, answers, due>>

\* Mutant: does not ask who has the appraisal.
SendUnchecked(p, c) ==
  /\ Is(c, "appraisal")
  /\ Send(p, c, "appraisal")

\* sendToAllEmployees, up to checkIfEmployeesHaveAppraisal.
SendAppraisal(p, c) ==
  /\ Is(c, "appraisal")
  /\ ~ IsSent(c)
  /\ Send(p, c, "appraisal")

\* sendOnboardingToAllEmployees, up to findOnboardingByName.
SendDocument(p, c) == Is(c, "document") /\ Send(p, c, "document")

\* makeAnnouncements, by somebody who is there.
Announce(p, c) ==
  /\ staff # {}
  /\ c \in Fresh
  /\ Send(p, c, "announcement")

\* Mutant: reads the newest employees.
ReadNewStaff(p) ==
  /\ At(p, "send")
  /\ \E to \in SUBSET staff :
       Goto(p, [at |-> "sendTx", id |-> req[p].id, kind |-> req[p].kind,
                since |-> req[p].since, to |-> to])
  /\ UNCHANGED <<staff, campaign, sent, closed, section, question, answers, due>>

\* sendAppraisalToAllStaff, makeAnnouncementPost, createOnboardingForALLEmployees:
\* the transaction reads the staff.
ReadStaff(p) ==
  /\ At(p, "send")
  /\ Goto(p, [at |-> "sendTx", id |-> req[p].id, kind |-> req[p].kind,
              since |-> req[p].since, to |-> staff])
  /\ UNCHANGED <<staff, campaign, sent, closed, section, question, answers, due>>

SendToSome(p, c, kind, to) ==
  /\ At(p, "idle")
  /\ Goto(p, [at |-> "sendTx", id |-> c, kind |-> kind, since |-> {}, to |-> to])
  /\ UNCHANGED <<staff, campaign, sent, closed, section, question, answers, due>>

\* sendAppraisalToEmployee: to the employee it has found, if nobody has the appraisal.
SendAppraisalToEmployee(p, c, e) ==
  /\ Is(c, "appraisal")
  /\ ~ IsSent(c)
  /\ e \in staff
  /\ SendToSome(p, c, "appraisal", {e})

\* sendOnboardingToNewEmployees: to whoever was created in the last days.
SendDocumentToNew(p, c, to) ==
  /\ Is(c, "document")
  /\ to \subseteq staff
  /\ SendToSome(p, c, "document", to)

\* A row for each employee read.
WithRows(p) ==
  [r \in Rows |-> IF r[1] = req[p].id /\ r[2] \in req[p].to /\ r[3] = p
                  THEN sent[r] + 1 ELSE sent[r]]

\* The row of an appraisal or an announcement refers to it, that of a document may only
\* copy its name.  (Bound: MaxRows.)
SendCommit(p) ==
  LET c == req[p].id
  IN  /\ At(p, "sendTx")
      /\ IF req[p].kind = "announcement"
           THEN campaign' = Insert(campaign, c, "announcement")
           ELSE c \in DOMAIN campaign /\ UNCHANGED campaign
      /\ \A e \in req[p].to : sent[<<c, e, p>>] < MaxRows
      /\ sent' = WithRows(p)
      /\ due' = [due EXCEPT ![c] = @ \cup req[p].since]
      /\ Finish(p)
      /\ UNCHANGED <<staff, closed, section, question, answers>>

\* deleteAppraisal, up to findAppraisalByID.
Delete(p, c) ==
  /\ At(p, "idle")
  /\ Is(c, "appraisal")
  /\ Goto(p, [at |-> "delete", id |-> c])
  /\ UNCHANGED <<staff, campaign, sent, closed, section, question, answers, due>>

\* Mutant: the rows that were sent do not hold the appraisal back.
DeleteCommitAnyway(p) ==
  /\ At(p, "delete")
  /\ req[p].id \in DOMAIN campaign
  /\ campaign' = [c \in DOMAIN campaign \ {req[p].id} |-> campaign[c]]
  /\ Finish(p)
  /\ UNCHANGED <<staff, sent, closed, section, question, answers, due>>

\* removeAppraisal: an appraisal that rows refer to cannot be deleted.
DeleteCommit(p) ==
  /\ At(p, "delete")
  /\ req[p].id \in DOMAIN campaign
  /\ ~ IsSent(req[p].id)
  /\ campaign' = [c \in DOMAIN campaign \ {req[p].id} |-> campaign[c]]
  /\ Finish(p)
  /\ UNCHANGED <<staff, sent, closed, section, question, answers, due>>

-----------------------------------------------------------------------------
(* What employees do with what they are sent.                              *)

\* Mutant: marks the campaign instead of the row.
CloseCampaign(r) ==
  /\ sent[r] > 0
  /\ closed' = closed \cup {r[1]}
  /\ UNCHANGED <<req, staff, campaign, sent, section, question, answers, due>>

\* One hides or completes one's own.
Close(r) ==
  /\ sent[r] > 0
  /\ closed' = closed \cup {r}
  /\ UNCHANGED <<req, staff, campaign, sent, section, question, answers, due>>

HideAnnouncement(r) == Is(r[1], "announcement") /\ Close(r)
CompleteAppraisal(r) == Is(r[1], "appraisal") /\ Close(r)

\* createSectionsInAppraisal (module Registry has its check of the name).  To answer is
\* to name a section and a question by their ids, of whatever appraisal; the model does
\* not keep what they are part of.
AddSection(s) ==
  /\ s \notin section
  /\ \E c \in CampaignIds : Is(c, "appraisal")
  /\ \A p \in Procs : "section" \in DOMAIN req[p] => req[p].section # s
  /\ section' = section \cup {s}
  /\ UNCHANGED <<req, staff, campaign, sent, closed, question, answers, due>>

\* removeSectionFromAppraisal, up to findAppraisalSection.
RemoveSection(p, s) ==
  /\ At(p, "idle")
  /\ s \in section
  /\ Goto(p, [at |-> "removeSection", section |-> s])
  /\ UNCHANGED <<staff, campaign, sent, closed, section, question, answers, due>>

\* deleteSectionFromAppraisal: its questions stay, the answers given lose their section.
RemoveSectionCommit(p) ==
  /\ At(p, "removeSection")
  /\ req[p].section \in section
  /\ section' = section \ {req[p].section}
  /\ answers' = [a \in Answers |-> IF a[2] = req[p].section THEN 0 ELSE answers[a]]
  /\ Finish(p)
  /\ UNCHANGED <<staff, campaign, sent, closed, question, due>>

\* addQuestionsToAppraisal, to a section there is.
AddQuestion(q) ==
  /\ section # {}
  /\ q \notin question
  /\ \A p \in Procs : "question" \in DOMAIN req[p] => req[p].question # q
  /\ question' = question \cup {q}
  /\ UNCHANGED <<req, staff, campaign, sent, closed, section, answers, due>>

\* removeQuestionFromAppraisal, up to findSectionQuestion.
RemoveQuestion(p, q) ==
  /\ At(p, "idle")
  /\ q \in question
  /\ Goto(p, [at |-> "removeQuestion", question |-> q])
  /\ UNCHANGED <<staff, campaign, sent, closed, section, question, answers, due>>

\* The answers given lose their question.
RemoveQuestionCommit(p) ==
  /\ At(p, "removeQuestion")
  /\ req[p].question \in question
  /\ question' = question \ {req[p].question}
  /\ answers' = [a \in Answers |-> IF a[3] = req[p].question THEN 0 ELSE answers[a]]
  /\ Finish(p)
  /\ UNCHANGED <<staff, campaign, sent, closed, section, due>>

\* Mutant: does not ask for an answer given before.
AnswerUnchecked(p, r, s, q) ==
  /\ At(p, "idle")
  /\ sent[r] > 0
  /\ Is(r[1], "appraisal")
  /\ Goto(p, [at |-> "answer", row |-> r, section |-> s, question |-> q])
  /\ UNCHANGED <<staff, campaign, sent, closed, section, question, answers, due>>

\* answerAppraisal, up to checkIfResponseHasAlreadyBeenGiven; completed or not.  Section
\* and question come from the path: nobody asks whether they are there, or whether the
\* question is one of the section's.
Answer(p, r, s, q) ==
  /\ At(p, "idle")
  /\ sent[r] > 0
  /\ Is(r[1], "appraisal")
  /\ ~ Answered(r, s, q)
  /\ Goto(p, [at |-> "answer", row |-> r, section |-> s, question |-> q])
  /\ UNCHANGED <<staff, campaign, sent, closed, section, question, answers, due>>

\* answerQuestionInMyAppraisal: the answer refers to the section and the question.
AnswerCommit(p) ==
  /\ At(p, "answer")
  /\ req[p].section \in section
  /\ req[p].question \in question
  /\ answers' = [answers EXCEPT ![<<req[p].row, req[p].section, req[p].question, p>>] = @ + 1]
  /\ Finish(p)
  /\ UNCHANGED <<staff, campaign, sent, closed, section, question, due>>

Fail(p) ==
  /\ Abandon(p)
  /\ UNCHANGED <<staff, campaign, sent, closed, section, question, answers, due>>

-----------------------------------------------------------------------------

AppraisalRequests(p) ==
  \/ \E s \in Sections : RemoveSection(p, s)
  \/ \E q \in Questions : RemoveQuestion(p, q)
  \/ \E r \in Rows, s \in Sections, q \in Questions : Answer(p, r, s, q)
  \/ \E c \in CampaignIds :
       \/ Delete(p, c) \/ SendAppraisal(p, c)
       \/ \E e \in Employees : SendAppraisalToEmployee(p, c, e)

DocumentRequests(p) ==
  \E c \in CampaignIds :
    SendDocument(p, c) \/ \E to \in SUBSET Employees : SendDocumentToNew(p, c, to)

Arrive(p) ==
  AppraisalRequests(p) \/ DocumentRequests(p) \/ \E c \in CampaignIds : Announce(p, c)

Advance(p) ==
  \/ ReadStaff(p) \/ SendCommit(p) \/ DeleteCommit(p)
  \/ RemoveSectionCommit(p) \/ RemoveQuestionCommit(p) \/ AnswerCommit(p)

AtOnce ==
  \/ \E e \in Employees : Hire(e)
  \/ \E c \in CampaignIds : CreateAppraisal(c) \/ CreateOnboardingDocument(c)
  \/ \E r \in Rows : HideAnnouncement(r) \/ CompleteAppraisal(r)
  \/ \E s \in Sections : AddSection(s)
  \/ \E q \in Questions : AddQuestion(q)

Next == AtOnce \/ \E p \in Procs : Arrive(p) \/ Advance(p) \/ Fail(p)

Spec == Init /\ [][Next]_vars

-----------------------------------------------------------------------------
(* Properties.                                                             *)

\* "Employees already have this appraisal": an employee has two rows of an appraisal
\* only if they were sent by handlers that had asked before either had committed; no
\* handler sends it to anybody twice.
AppraisalsAreSentOnce ==
  \A c \in DOMAIN campaign, e \in Employees, p \in Procs : campaign[c] = "appraisal" =>
    /\ sent[<<c, e, p>>] <= 1
    /\ (At(p, "send") \/ At(p, "sendTx")) /\ req[p].id = c => sent[<<c, e, p>>] = 0

\* What was sent keeps its campaign, whoever deletes at the same time.
SentCampaignsStay ==
  \A c \in CampaignIds : IsSent(c) => c \in DOMAIN campaign

\* Who was there when a campaign was asked to be sent to all has got it once it is
\* sent, and an announcement only once.
EverybodyDueIsReached ==
  \A c \in DOMAIN campaign :
    /\ \A e \in due[c] : Has(e, c)
    /\ campaign[c] = "announcement" =>
         \A e \in Employees, p, q \in Procs :
           sent[<<c, e, p>>] > 0 /\ sent[<<c, e, q>>] > 0 => p = q /\ sent[<<c, e, p>>] = 1

Answering(p, r, s, q) ==
  At(p, "answer") /\ req[p].row = r /\ req[p].section = s /\ req[p].question = q

\* Two answers of one's appraisal to a question, in one section, come only of handlers
\* that overlap, whatever is removed and added meanwhile; none gives two.
QuestionsAreAnsweredOnce ==
  \A r \in Rows, s \in Sections, q \in Questions, p \in Procs :
    /\ answers[<<r, s, q, p>>] <= 1
    /\ Answering(p, r, s, q) => answers[<<r, s, q, p>>] = 0

\* No two requests that send one appraisal are under way at the same time, and no two
\* that answer one question of one row in one section.
SendsAppraisal(p, c) ==
  /\ At(p, "send") \/ At(p, "sendTx")
  /\ req[p].id = c /\ req[p].kind = "appraisal"
SendsApart ==
  \A p, s \in Procs, c \in CampaignIds : SendsAppraisal(p, c) /\ SendsAppraisal(s, c) => p = s
AnswersApart ==
  \A p, o \in Procs, r \in Rows, s \in Sections, q \in Questions :
    Answering(p, r, s, q) /\ Answering(o, r, s, q) => p = o

\* Nobody has an appraisal twice.
OneAppraisalEach ==
  \A c \in DOMAIN campaign, e \in Employees, p, s \in Procs :
    campaign[c] = "appraisal" /\ sent[<<c, e, p>>] > 0 /\ sent[<<c, e, s>>] > 0 =>
      p = s /\ sent[<<c, e, p>>] = 1

\* No question of a row is answered twice in one section.
OneAnswerEach ==
  \A r \in Rows, s \in Sections, q \in Questions, p, o \in Procs :
    answers[<<r, s, q, p>>] > 0 /\ answers[<<r, s, q, o>>] > 0 =>
      p = o /\ answers[<<r, s, q, p>>] = 1
=============================================================================
