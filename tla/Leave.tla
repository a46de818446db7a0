------------------------------- MODULE Leave -------------------------------
(***************************************************************************)
(* Leave plans, entitlements, applications and their approval.             *)
(*                                                                         *)
(* Each HTTP request runs in a handler that awaits several queries, so     *)
(* other handlers run between any two of them.  A handler that has been    *)
(* let past a query keeps what it read in req[p] and uses it later.        *)
(* Database transactions run at PostgreSQL's READ COMMITTED: a             *)
(* transaction that reads and then writes is split at the read, one that   *)
(* only writes rows by key is a single step.  An UPDATE or DELETE that     *)
(* names its rows by a condition finds them when it begins and changes     *)
(* those, and no others, when the transaction commits.  The tables are     *)
(* partial functions whose domain is the set of rows they hold.            *)
(***************************************************************************)
EXTENDS Integers

CONSTANTS
  Employees,   \* employee ids, all of one organization
  Plans,       \* ids of leave plans (table Leave)
  Apps,        \* ids of leave applications, each used once
  Procs,       \* handlers that may be running at the same time
  Names,       \* names of leave plans, in upper case
  Contains,    \* <<m, n>> : the name m has the name n as a substring
  Durations,   \* days a plan may grant
  Spans,       \* days an application may ask for, as countWeekdays counts them
  MinInt,      \* least value of the 32-bit column remainingDuration
  Undefined    \* an optional field that the caller left out

ASSUME NamesAssumption ==
  /\ Contains \subseteq Names \X Names
  /\ \A n \in Names : <<n, n>> \in Contains
  /\ Undefined \notin Names \cup Int

ASSUME NumbersAssumption ==
  /\ Durations \subseteq Nat
  /\ Spans \subseteq Nat
  /\ MinInt \in Int

VARIABLES
  units,       \* for each employee row, which of its team, branch and department are set
  plan,        \* table Leave: name and days of each plan
  ent,         \* table EmployeeLeave, keyed by its unique index (employee, plan)
  app,         \* table LeaveApplication; "DELETED" marks the id of a removed row
  routed,      \* which requests have been created for an application
  decision,    \* the decision column of an application's team request
  told,        \* applications whose applicant was sent the "approved" mail
  req          \* what each handler will do next, with what it has read

vars == <<units, plan, ent, app, routed, decision, told, req>>

Units == {"team", "branch", "dept"}
Statuses == {"PENDING", "APPROVED", "DECLINED", "DELETED"}
Idle == [at |-> "idle"]

PlanRow == [name : Names, dur : Durations]
EntRow == [name : Names, rem : Int]
AppRow == [status : Statuses, e : Employees, l : Plans, days : Spans]
\* t is a table holding some of the rows that may exist.
IsTable(t, Keys, Row) == DOMAIN t \subseteq Keys /\ t \in [DOMAIN t -> Row]
PlanTables == UNION {[L -> PlanRow] : L \in SUBSET Plans}

\* What a handler holds between two queries.
Continuation ==
  {Idle}
  \cup [at : {"planCreate"}, name : Names, dur : Durations]
  \cup [at : {"planTx"}, name : Names, dur : Durations, l : Plans, staff : SUBSET Employees]
  \cup [at : {"onboardRead"}, e : Employees]
  \cup [at : {"onboardTx"}, e : Employees, seen : PlanTables]
  \cup [at : {"applyPlan"}, e : Employees, units : SUBSET Units, days : Spans, name : Names]
  \cup [at : {"applyCheck"}, e : Employees, units : SUBSET Units, days : Spans, name : Names,
        l : Plans]
  \cup [at : {"applyTx"}, e : Employees, units : SUBSET Units, days : Spans, l : Plans]
  \cup [at : {"route"}, a : Apps, units : SUBSET Units, unit : Units]
  \cup [at : {"updateTx"}, l : Plans, name : Names \cup {Undefined},
        dur : Durations \cup {Undefined}, ents : SUBSET (Employees \X Plans)]
  \cup [at : {"deleteFound"}, e : Employees, apps : SUBSET Apps]
  \cup [at : {"deleteTx"}, e : Employees, apps : SUBSET Apps, ents : SUBSET (Employees \X Plans)]

TypeOK ==
  /\ IsTable(units, Employees, SUBSET Units)
  /\ plan \in PlanTables
  /\ IsTable(ent, Employees \X Plans, EntRow)
  /\ IsTable(app, Apps, AppRow)
  /\ routed \in [Apps -> SUBSET Units]
  /\ decision \in [Apps -> {"null", "APPROVED", "DECLINED"}]
  /\ told \subseteq Apps
  /\ req \in [Procs -> Continuation]

Init ==
  /\ units = [e \in {} |-> {}]
  /\ plan = [l \in {} |-> {}]
  /\ ent = [k \in {} |-> {}]
  /\ app = [a \in {} |-> {}]
  /\ routed = [a \in Apps |-> {}]
  /\ decision = [a \in Apps |-> "null"]
  /\ told = {}
  /\ req = [p \in Procs |-> Idle]

-----------------------------------------------------------------------------
(* Helpers.                                                                *)

Goto(p, k) == req' = [req EXCEPT ![p] = k]
Finish(p) == Goto(p, Idle)
At(p, label) == req[p].at = label

\* INSERT of rows r[k], k \in K, into table t; INSERT never replaces a row.
Insert(t, K, r(_)) == [k \in DOMAIN t \cup K |-> IF k \in DOMAIN t THEN t[k] ELSE r(k)]
GivenUnchecked(x, old) == x  \* mutant: writes the missing field
\* A data field that the caller left undefined leaves the column alone.
Given(x, old) == IF x = Undefined THEN old ELSE x

Live == {a \in DOMAIN app : app[a].status # "DELETED"}
KeyOf(a) == <<app[a].e, app[a].l>>
PlansNamed(n) == {l \in DOMAIN plan : plan[l].name = n}

\* Rows locked by the DELETE statement of a deletion that has not committed.
Locked == {a \in Apps : \E p \in Procs : At(p, "deleteTx") /\ a \in req[p].apps}

\* The ids (uuids) that no row and no open transaction uses.
FreshPlans == {l \in Plans \ DOMAIN plan : \A p \in Procs : At(p, "planTx") => req[p].l # l}

-----------------------------------------------------------------------------
(* Leave plans.                                                            *)

\* createLeavePlan, up to findLeaveDuplicates: no plan's name contains the new one.
CreatePlan(p, n, d) ==
  /\ At(p, "idle")
  /\ \A l \in DOMAIN plan : <<plan[l].name, n>> \notin Contains
  /\ Goto(p, [at |-> "planCreate", name |-> n, dur |-> d])
  /\ UNCHANGED <<units, plan, ent, app, routed, decision, told>>

\* In the transaction: INSERT the plan and SELECT the staff committed so far.
CreatePlanRead(p) ==
  /\ At(p, "planCreate")
  /\ \/ \E l \in FreshPlans :
          Goto(p, [at |-> "planTx", name |-> req[p].name, dur |-> req[p].dur,
                   l |-> l, staff |-> DOMAIN units])
     \/ FreshPlans = {} /\ Finish(p)
  /\ UNCHANGED <<units, plan, ent, app, routed, decision, told>>

\* The plan and one entitlement for each employee read become visible together.
CreatePlanCommit(p) ==
  /\ At(p, "planTx")
  /\ LET r == req[p]
         planRow(l) == [name |-> r.name, dur |-> r.dur]
         entRow(k) == [name |-> r.name, rem |-> r.dur]
     IN  /\ plan' = Insert(plan, {r.l}, planRow)
         /\ ent' = Insert(ent, r.staff \X {r.l}, entRow)
  /\ Finish(p)
  /\ UNCHANGED <<units, app, routed, decision, told>>

\* updateLeavePlan: UPDATE the plan, which an open update of it keeps locked, and
\* find its entitlements committed so far.
UpdatePlan(p, l, n, d) ==
  /\ At(p, "idle")
  /\ l \in DOMAIN plan
  /\ \A q \in Procs : At(q, "updateTx") => req[q].l # l
  /\ Goto(p, [at |-> "updateTx", l |-> l, name |-> n, dur |-> d,
              ents |-> {k \in DOMAIN ent : k[2] = l}])
  /\ UNCHANGED <<units, plan, ent, app, routed, decision, told>>

\* Mutant: only the duration is copied to the entitlements.
UpdatePlanOnly(p) ==
  /\ At(p, "updateTx")
  /\ LET r == req[p]
     IN  /\ plan' = [plan EXCEPT ![r.l] = [name |-> Given(r.name, @.name),
                                           dur |-> Given(r.dur, @.dur)]]
         /\ ent' = [k \in DOMAIN ent |->
                      IF k \in r.ents THEN [ent[k] EXCEPT !.rem = Given(r.dur, @)] ELSE ent[k]]
  /\ Finish(p)
  /\ UNCHANGED <<units, app, routed, decision, told>>

\* The plan and the entitlements found change together; a new duration overwrites
\* what the employees had left.
UpdatePlanCommit(p) ==
  /\ At(p, "updateTx")
  /\ LET r == req[p]
     IN  /\ plan' = [plan EXCEPT ![r.l] = [name |-> Given(r.name, @.name),
                                           dur |-> Given(r.dur, @.dur)]]
         /\ ent' = [k \in DOMAIN ent |->
                      IF k \in r.ents
                      THEN [name |-> Given(r.name, ent[k].name), rem |-> Given(r.dur, ent[k].rem)]
                      ELSE ent[k]]
  /\ Finish(p)
  /\ UNCHANGED <<units, app, routed, decision, told>>

-----------------------------------------------------------------------------
(* Employees: their creation, their first entitlements, their placement.    *)

\* onboardEmpToMyOrg: the employee commits with a branch and a department but no
\* team; the entitlements follow in a later, separate step.
OnboardEmployee(p, e) ==
  /\ At(p, "idle")
  /\ e \notin DOMAIN units
  /\ units' = Insert(units, {e}, LAMBDA x : {"branch", "dept"})
  /\ Goto(p, [at |-> "onboardRead", e |-> e])
  /\ UNCHANGED <<plan, ent, app, routed, decision, told>>

\* The other ways to create an employee place it nowhere and grant no leave.
CreateEmployeeOnly(e) ==
  /\ e \notin DOMAIN units
  /\ units' = Insert(units, {e}, LAMBDA x : {})
  /\ UNCHANGED <<plan, ent, app, routed, decision, told, req>>

\* addEmpToTeam, addEmpToDept and updateEmployeeWorkDetails set these columns.
Placements == {{"team"}, {"dept"}, Units}
Place(e, U) ==
  /\ e \in DOMAIN units
  /\ units' = [units EXCEPT ![e] = @ \cup U]
  /\ UNCHANGED <<plan, ent, app, routed, decision, told, req>>

\* leaveOnboarding reads the plans before it opens its transaction.
OnboardRead(p) ==
  /\ At(p, "onboardRead")
  /\ Goto(p, [at |-> "onboardTx", e |-> req[p].e, seen |-> plan])
  /\ UNCHANGED <<units, plan, ent, app, routed, decision, told>>

\* createMany inserts an entitlement for each plan read, or none at all if the
\* unique index already holds one of them.
OnboardCommit(p) ==
  /\ At(p, "onboardTx")
  /\ LET r == req[p]
         K == {r.e} \X DOMAIN r.seen
         entRow(k) == [name |-> r.seen[k[2]].name, rem |-> r.seen[k[2]].dur]
     IN  IF K \cap DOMAIN ent = {} THEN ent' = Insert(ent, K, entRow) ELSE UNCHANGED ent
  /\ Finish(p)
  /\ UNCHANGED <<units, plan, app, routed, decision, told>>

-----------------------------------------------------------------------------
(* Applications.                                                           *)

\* leaveApplication reads the employee row.
Apply(p, e, n, days) ==
  /\ At(p, "idle")
  /\ e \in DOMAIN units
  /\ Goto(p, [at |-> "applyPlan", e |-> e, units |-> units[e], days |-> days, name |-> n])
  /\ UNCHANGED <<units, plan, ent, app, routed, decision, told>>

\* findOrgLeaveByName: some plan of that name, the first the database returns.
ApplyFindPlan(p) ==
  /\ At(p, "applyPlan")
  /\ LET r == req[p] IN
       \/ \E l \in PlansNamed(r.name) :
            Goto(p, [at |-> "applyCheck", e |-> r.e, units |-> r.units, days |-> r.days,
                     name |-> r.name, l |-> l])
       \/ PlansNamed(r.name) = {} /\ Finish(p)
  /\ UNCHANGED <<units, plan, ent, app, routed, decision, told>>

\* leaveDurationRequest: some entitlement of that name must have days enough.
ApplyCheck(p) ==
  /\ At(p, "applyCheck")
  /\ LET r == req[p]
         found == {k \in DOMAIN ent : k[1] = r.e /\ ent[k].name = r.name}
     IN  \/ \E k \in found :
              IF r.days > ent[k].rem \/ ent[k].rem <= 0
              THEN Finish(p)
              ELSE Goto(p, [at |-> "applyTx", e |-> r.e, units |-> r.units,
                            days |-> r.days, l |-> r.l])
         \/ found = {} /\ Finish(p)
  /\ UNCHANGED <<units, plan, ent, app, routed, decision, told>>

\* applyLeave: the application is stored PENDING and the mail sent, provided the
\* entitlement row is still there; it reserves nothing (decrement: 0).
ApplyCommit(p) ==
  /\ At(p, "applyTx")
  /\ LET r == req[p]
         fresh == Apps \ DOMAIN app
         row(a) == [status |-> "PENDING", e |-> r.e, l |-> r.l, days |-> r.days]
     IN  \/ /\ <<r.e, r.l>> \in DOMAIN ent
            /\ \E a \in fresh :
                 /\ app' = Insert(app, {a}, row)
                 /\ told' = told \cup {a}
                 /\ Goto(p, [at |-> "route", a |-> a, units |-> r.units, unit |-> "team"])
         \/ /\ <<r.e, r.l>> \notin DOMAIN ent \/ fresh = {}
            /\ Finish(p)
            /\ UNCHANGED <<app, told>>
  /\ UNCHANGED <<units, plan, ent, routed, decision>>

\* Mutants: the department before the branch; a second round.
DeptBeforeBranch(unit) ==
  CASE unit = "team" -> "dept" [] unit = "dept" -> "branch" [] unit = "branch" -> "none"
RoundAgain(unit) ==
  CASE unit = "team" -> "branch" [] unit = "branch" -> "dept" [] unit = "dept" -> "team"

\* The request that updateRequests creates after this one; "none" when it is done.
Following(unit) ==
  CASE unit = "team" -> "branch" [] unit = "branch" -> "dept" [] unit = "dept" -> "none"

\* updateRequests: one request each for the team, the branch and the department,
\* in that order, each its own transaction.  The first one that cannot be
\* created, for want of the unit or of the application, ends the handler.
Route(p) ==
  /\ At(p, "route")
  /\ LET r == req[p]
         next == IF Following(r.unit) = "none" THEN Idle
                                               ELSE [r EXCEPT !.unit = Following(@)]
     IN  IF r.unit \in r.units /\ r.a \in Live
         THEN /\ r.a \notin Locked
              /\ routed' = [routed EXCEPT ![r.a] = @ \cup {r.unit}]
              /\ decision' = IF r.unit = "team" THEN [decision EXCEPT ![r.a] = "null"]
                                                ELSE decision
              /\ Goto(p, next)
         ELSE Finish(p) /\ UNCHANGED <<routed, decision>>
  /\ UNCHANGED <<units, plan, ent, app, told>>

-----------------------------------------------------------------------------
(* Decisions and deletion.                                                 *)

DecidableByRequest(a) == a \in DOMAIN app /\ "team" \in routed[a]  \* mutant: upserts
\* What both decisions need: the team request and the application it points to.
Decidable(a) == a \in Live /\ "team" \in routed[a] /\ a \notin Locked

ChargeableIfAny(a) == TRUE  \* mutant: updateMany, content with no row
\* The entitlement to charge is there and its column can hold the result.
Chargeable(a) ==
  /\ KeyOf(a) \in DOMAIN ent
  /\ ent[KeyOf(a)].rem - app[a].days >= MinInt

\* approveEmployeeLeave: one transaction with the mail inside.  Nothing looks at
\* the status, so an application may be approved again, or after a decline.
Approve(a) ==
  /\ Decidable(a)
  /\ Chargeable(a)
  /\ app' = [app EXCEPT ![a].status = "APPROVED"]
  /\ decision' = [decision EXCEPT ![a] = "APPROVED"]
  /\ ent' = [ent EXCEPT ![KeyOf(a)].rem = @ - app[a].days]
  /\ told' = told \cup {a}
  /\ UNCHANGED <<units, plan, routed, req>>

\* Mutants: the application is forgotten; the days are given back.
DeclineRequestOnly(a) ==
  /\ Decidable(a)
  /\ decision' = [decision EXCEPT ![a] = "DECLINED"]
  /\ UNCHANGED <<units, plan, ent, app, routed, told, req>>
DeclineAndRefund(a) ==
  /\ Decidable(a)
  /\ app' = [app EXCEPT ![a].status = "DECLINED"]
  /\ decision' = [decision EXCEPT ![a] = "DECLINED"]
  /\ ent' = [k \in DOMAIN ent |->
               IF k = KeyOf(a) THEN [ent[k] EXCEPT !.rem = @ + app[a].days] ELSE ent[k]]
  /\ UNCHANGED <<units, plan, routed, told, req>>

\* declineEmployeeLeave: returns no days, and sends the same mail.
Decline(a) ==
  /\ Decidable(a)
  /\ app' = [app EXCEPT ![a].status = "DECLINED"]
  /\ decision' = [decision EXCEPT ![a] = "DECLINED"]
  /\ told' = told \cup {a}
  /\ UNCHANGED <<units, plan, ent, routed, req>>

\* deleteEmpLeavePlans, first statement: find the applications.
DeleteApplications(p, e) ==
  /\ At(p, "idle")
  /\ e \in DOMAIN units
  /\ Goto(p, [at |-> "deleteFound", e |-> e, apps |-> {a \in Live : app[a].e = e}])
  /\ UNCHANGED <<units, plan, ent, app, routed, decision, told>>

\* Those that still stand are locked, once no other deletion holds them, and the
\* second statement finds the entitlements.
DeleteEntitlements(p) ==
  /\ At(p, "deleteFound")
  /\ req[p].apps \cap Locked = {}
  /\ Goto(p, [at |-> "deleteTx", e |-> req[p].e, apps |-> req[p].apps \cap Live,
              ents |-> {k \in DOMAIN ent : k[1] = req[p].e}])
  /\ UNCHANGED <<units, plan, ent, app, routed, decision, told>>

\* A statement that has found rows no longer has those that a deletion took; a row
\* inserted later under the same key is another row.
Without(r, K) == IF r.at \in {"updateTx", "deleteTx"} THEN [r EXCEPT !.ents = @ \ K] ELSE r

\* Commit: the rows found go; what was added since stays.
DeleteCommit(p) ==
  /\ At(p, "deleteTx")
  /\ app' = [a \in DOMAIN app |->
               IF a \in req[p].apps THEN [app[a] EXCEPT !.status = "DELETED"] ELSE app[a]]
  /\ ent' = [k \in DOMAIN ent \ req[p].ents |-> ent[k]]
  /\ req' = [q \in Procs |-> IF q = p THEN Idle ELSE Without(req[q], req[p].ents)]
  /\ UNCHANGED <<units, plan, routed, decision, told>>

\* A query or a mail fails, a transaction times out, or the process restarts:
\* the open transaction is rolled back, what was committed before it stays.
Fail(p) ==
  /\ ~ At(p, "idle")
  /\ Finish(p)
  /\ UNCHANGED <<units, plan, ent, app, routed, decision, told>>

-----------------------------------------------------------------------------

\* A step of a handler that has started.
Advance(p) ==
  \/ CreatePlanRead(p) \/ CreatePlanCommit(p)
  \/ OnboardRead(p) \/ OnboardCommit(p)
  \/ ApplyFindPlan(p) \/ ApplyCheck(p) \/ ApplyCommit(p) \/ Route(p)
  \/ UpdatePlanCommit(p) \/ DeleteEntitlements(p) \/ DeleteCommit(p)

\* A request arrives.
Arrive(p) ==
  \/ \E n \in Names, d \in Durations : CreatePlan(p, n, d)
  \/ \E l \in Plans, n \in Names \cup {Undefined}, d \in Durations \cup {Undefined} :
       UpdatePlan(p, l, n, d)
  \/ \E e \in Employees :
       \/ OnboardEmployee(p, e)
       \/ DeleteApplications(p, e)
       \/ \E n \in Names, days \in Spans : Apply(p, e, n, days)

Decisions == \E a \in Apps : Approve(a) \/ Decline(a)

\* Requests whose handler has a single step that changes or reads mutable state.
AtOnce ==
  \/ \E e \in Employees : CreateEmployeeOnly(e) \/ \E U \in Placements : Place(e, U)
  \/ Decisions

Next == AtOnce \/ \E p \in Procs : Arrive(p) \/ Advance(p) \/ Fail(p)

Spec == Init /\ [][Next]_vars

\* Node runs a handler on as soon as its query answers, and PostgreSQL queues the
\* waiters of a row lock, so that a handler that waits for one gets it in turn.
FairSpec == Spec /\ \A p \in Procs : SF_vars(Advance(p))

-----------------------------------------------------------------------------
(* Properties.                                                             *)

\* The status an employee sees and the decision the team sees never disagree:
\* both columns move in one transaction, also when decisions follow each other,
\* race with routing, or roll back; and nothing is decided before it is routed.
DecisionAgreement ==
  \A a \in Live :
    /\ app[a].status = "PENDING" => decision[a] = "null"
    /\ app[a].status # "PENDING" => decision[a] = app[a].status /\ "team" \in routed[a]

\* Whatever fails on the way, the requests of an application are those created
\* first: no branch is asked before the team, no department before the branch.
RoutedInOrder ==
  \A a \in Apps :
    /\ "branch" \in routed[a] => "team" \in routed[a]
    /\ "dept" \in routed[a] => "branch" \in routed[a]

\* A handler about to ask the team finds the application undecided and unrouted,
\* and no other handler routes the same application: its request is created once
\* and never wipes out a decision.
RoutingIsPrivate ==
  \A p \in Procs : At(p, "route") =>
    /\ req[p].a \in DOMAIN app
    /\ req[p].unit = "team" => /\ routed[req[p].a] = {}
                               /\ app[req[p].a].status \in {"PENDING", "DELETED"}
    /\ \A q \in Procs : At(q, "route") /\ req[q].a = req[p].a => q = p

\* The days an employee has left change only when one of the employee's
\* applications for that plan is approved, by exactly the days it records, or when
\* an update of the plan commits that had found the entitlement, and then all it
\* had found get what the plan grants from now on.
Committing(p, label) == At(p, label) /\ At(p, "idle")'
BalanceMovesByApprovalOrPlanUpdate ==
  [][\A k \in DOMAIN ent \cap DOMAIN ent' : ent'[k].rem # ent[k].rem =>
       \/ \E a \in Live : /\ KeyOf(a) = k
                          /\ app'[a].status = "APPROVED"
                          /\ ent'[k].rem = ent[k].rem - app[a].days
       \/ \E p \in Procs : /\ Committing(p, "updateTx")
                           /\ k \in req[p].ents
                           /\ \A x \in req[p].ents :
                                ent'[x].rem = plan'[k[2]].dur /\ x[2] = k[2]]_vars

\* An application becomes APPROVED only in the step that charges its days; one
\* whose entitlement was deleted under it can never be approved for nothing.
ApprovalCharges ==
  [][\A a \in Live : app[a].status # "APPROVED" /\ app'[a].status = "APPROVED" =>
       /\ KeyOf(a) \in DOMAIN ent
       /\ ent'[KeyOf(a)].rem = ent[KeyOf(a)].rem - app[a].days]_vars

\* A deletion is final: handlers that read the application before it was deleted
\* neither bring it back nor route it nor decide its request afterwards.
DeletedIsFinal ==
  [][\A a \in DOMAIN app \ Live : /\ app'[a] = app[a]
                                  /\ routed'[a] = routed[a]
                                  /\ decision'[a] = decision[a]]_vars

\* The copy of the plan's name kept in an entitlement, by which applications find
\* it, gets out of step with the plan in two ways only: an update renames the plan
\* that had not found the entitlement, for that was granted while it ran, or an
\* onboarding grants it that had read the plan before it was renamed.
NameInSync(k) == k \in DOMAIN ent /\ k[2] \in DOMAIN plan /\ ent[k].name = plan[k[2]].name
NamesDriftOnlyUnseen ==
  [][\A k \in DOMAIN ent' : (k \in DOMAIN ent => NameInSync(k)) /\ ~ NameInSync(k)' =>
       \E p \in Procs :
         \/ /\ Committing(p, "updateTx")
            /\ k \in DOMAIN ent /\ req[p].l = k[2] /\ k \notin req[p].ents
         \/ /\ Committing(p, "onboardTx")
            /\ k \notin DOMAIN ent /\ req[p].e = k[1]
            /\ req[p].seen[k[2]].name # plan[k[2]].name]_vars

\* Every handler that starts ends, although it may have to wait for the rows that
\* another one has locked.
HandlersFinish == \A p \in Procs : ~ At(p, "idle") ~> At(p, "idle")

\* What a reader of the tables sees of LeaveLedger's variables; routed is its asked.
BalanceOf == [k \in DOMAIN ent |-> ent[k].rem]
ClaimOf == [a \in DOMAIN app |-> [of |-> KeyOf(a), days |-> app[a].days, status |-> app[a].status]]
Ledger == INSTANCE LeaveLedger WITH balance <- BalanceOf, claim <- ClaimOf, asked <- routed

\* The component keeps the promises of LeaveLedger: whatever runs in between, its
\* handlers ask, decide, charge and delete as if each of these were one step.
ImplementsLedger == Ledger!Spec

\* No entitlement goes below zero, as the check that answers "Employee does not
\* have enough remaining leave days for this leave plan" intends.
NeverOverdrawn == \A k \in DOMAIN ent : ent[k].rem >= 0

\* The mail "your leave request has been approved" goes to approved applicants only.
ToldTheTruth == \A a \in told \cap Live : app[a].status = "APPROVED"
=============================================================================
