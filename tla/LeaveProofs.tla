---------------------------- MODULE LeaveProofs ----------------------------
(* Theorems about Leave, for any employees, plans, applications, handlers.  *)
EXTENDS Leave, TLAPS

USE DEF Units, Statuses, Idle, PlanRow, EntRow, AppRow

-----------------------------------------------------------------------------
(* Tables and continuations.                                               *)

\* A plan table is a table of plan rows: the two ways to say so agree.
LEMMA PlanTable == \A t : t \in PlanTables <=> IsTable(t, Plans, PlanRow) 
  BY DEF PlanTables, IsTable

\* A handler that is given a continuation leaves every handler with one.
LEMMA GotoType ==
  ASSUME TypeOK, NEW p \in Procs, NEW k \in Continuation, Goto(p, k)
  PROVE  req' \in [Procs -> Continuation]
  BY DEF TypeOK, Goto

LEMMA FinishType ==
  ASSUME TypeOK, NEW p \in Procs, Finish(p)
  PROVE  req' \in [Procs -> Continuation]
  BY GotoType DEF Finish, Continuation

\* What a handler holds at each of its labels.
LEMMA ReqFields ==
  ASSUME TypeOK, NEW p \in Procs
  PROVE  /\ At(p, "planCreate") => req[p].name \in Names /\ req[p].dur \in Durations
         /\ At(p, "planTx") => /\ req[p].name \in Names /\ req[p].dur \in Durations
                               /\ req[p].l \in Plans /\ req[p].staff \subseteq Employees
         /\ At(p, "onboardRead") => req[p].e \in Employees
         /\ At(p, "onboardTx") => req[p].e \in Employees /\ req[p].seen \in PlanTables
         /\ At(p, "applyPlan") => /\ req[p].e \in Employees /\ req[p].units \subseteq Units
                                  /\ req[p].days \in Spans /\ req[p].name \in Names
         /\ At(p, "applyCheck") => /\ req[p].e \in Employees /\ req[p].units \subseteq Units
                                   /\ req[p].days \in Spans /\ req[p].name \in Names
                                   /\ req[p].l \in Plans
         /\ At(p, "applyTx") => /\ req[p].e \in Employees /\ req[p].units \subseteq Units
                                /\ req[p].days \in Spans /\ req[p].l \in Plans
         /\ At(p, "route") => /\ req[p].a \in Apps /\ req[p].units \subseteq Units
                              /\ req[p].unit \in Units
                              /\ req[p] = [at |-> "route", a |-> req[p].a,
                                           units |-> req[p].units, unit |-> req[p].unit]
         /\ At(p, "updateTx") => /\ req[p].l \in Plans /\ req[p].name \in Names \cup {Undefined}
                                 /\ req[p].dur \in Durations \cup {Undefined}
                                 /\ req[p].ents \subseteq Employees \X Plans
                                 /\ req[p] = [at |-> "updateTx", l |-> req[p].l,
                                              name |-> req[p].name, dur |-> req[p].dur,
                                              ents |-> req[p].ents]
         /\ At(p, "deleteFound") => req[p].e \in Employees /\ req[p].apps \subseteq Apps
         /\ At(p, "deleteTx") => /\ req[p].e \in Employees /\ req[p].apps \subseteq Apps
                                 /\ req[p].ents \subseteq Employees \X Plans
                                 /\ req[p] = [at |-> "deleteTx", e |-> req[p].e,
                                              apps |-> req[p].apps, ents |-> req[p].ents]
  BY DEF TypeOK, Continuation, At

-----------------------------------------------------------------------------
(* Type correctness, one lemma per action.                                 *)

LEMMA InitType == Init => TypeOK
  BY PlanTable DEF Init, TypeOK, IsTable, Continuation

LEMMA CreatePlanType ==
  ASSUME TypeOK, NEW p \in Procs, NEW n \in Names, NEW d \in Durations, CreatePlan(p, n, d)
  PROVE  TypeOK'
<1>1. [at |-> "planCreate", name |-> n, dur |-> d] \in Continuation
  BY DEF Continuation
<1>. QED BY <1>1, GotoType DEF CreatePlan, TypeOK, IsTable

LEMMA CreatePlanReadType ==
  ASSUME TypeOK, NEW p \in Procs, CreatePlanRead(p)
  PROVE  TypeOK'
<1>1. ASSUME NEW l \in FreshPlans
      PROVE  [at |-> "planTx", name |-> req[p].name, dur |-> req[p].dur,
              l |-> l, staff |-> DOMAIN units] \in Continuation
  BY ReqFields DEF Continuation, CreatePlanRead, FreshPlans, TypeOK, IsTable
<1>2. req' \in [Procs -> Continuation]
  BY <1>1, GotoType, FinishType DEF CreatePlanRead
<1>. QED BY <1>2 DEF CreatePlanRead, TypeOK, IsTable

LEMMA CreatePlanCommitType ==
  ASSUME TypeOK, NEW p \in Procs, CreatePlanCommit(p)
  PROVE  TypeOK'
<1>1. /\ req[p].name \in Names /\ req[p].dur \in Durations
      /\ req[p].l \in Plans /\ req[p].staff \subseteq Employees
  BY ReqFields DEF CreatePlanCommit
<1>2. IsTable(plan', Plans, PlanRow)
  BY <1>1, PlanTable DEF CreatePlanCommit, TypeOK, IsTable, Insert
<1>3. IsTable(ent', Employees \X Plans, EntRow)
  BY <1>1, NumbersAssumption DEF CreatePlanCommit, TypeOK, IsTable, Insert
<1>4. req' \in [Procs -> Continuation]
  BY FinishType DEF CreatePlanCommit
<1>. QED BY <1>2, <1>3, <1>4, PlanTable DEF CreatePlanCommit, TypeOK, IsTable

LEMMA UpdatePlanType ==
  ASSUME TypeOK, NEW p \in Procs, NEW l \in Plans, NEW n \in Names \cup {Undefined},
         NEW d \in Durations \cup {Undefined}, UpdatePlan(p, l, n, d)
  PROVE  TypeOK'
<1>1. [at |-> "updateTx", l |-> l, name |-> n, dur |-> d,
       ents |-> {k \in DOMAIN ent : k[2] = l}] \in Continuation
  BY DEF Continuation, TypeOK, IsTable
<1>. QED BY <1>1, GotoType DEF UpdatePlan, TypeOK, IsTable

LEMMA UpdatePlanCommitType ==
  ASSUME TypeOK, NEW p \in Procs, UpdatePlanCommit(p)
  PROVE  TypeOK'
<1>1. req[p].name \in Names \cup {Undefined} /\ req[p].dur \in Durations \cup {Undefined}
  BY ReqFields DEF UpdatePlanCommit
<1>2. IsTable(plan', Plans, PlanRow)
  BY <1>1, PlanTable DEF UpdatePlanCommit, TypeOK, IsTable, Given
<1>3. IsTable(ent', Employees \X Plans, EntRow)
  BY <1>1, NumbersAssumption DEF UpdatePlanCommit, TypeOK, IsTable, Given
<1>4. req' \in [Procs -> Continuation]
  BY FinishType DEF UpdatePlanCommit
<1>. QED BY <1>2, <1>3, <1>4, PlanTable DEF UpdatePlanCommit, TypeOK, IsTable

LEMMA OnboardEmployeeType ==
  ASSUME TypeOK, NEW p \in Procs, NEW e \in Employees, OnboardEmployee(p, e)
  PROVE  TypeOK'
<1>1. [at |-> "onboardRead", e |-> e] \in Continuation
  BY DEF Continuation
<1>2. req' \in [Procs -> Continuation]
  BY <1>1, GotoType DEF OnboardEmployee
<1>3. IsTable(units', Employees, SUBSET Units)
  BY DEF OnboardEmployee, TypeOK, IsTable, Insert
<1>. QED BY <1>2, <1>3 DEF OnboardEmployee, TypeOK, IsTable

LEMMA CreateEmployeeOnlyType ==
  ASSUME TypeOK, NEW e \in Employees, CreateEmployeeOnly(e)
  PROVE  TypeOK'
  BY DEF CreateEmployeeOnly, TypeOK, IsTable, Insert

LEMMA PlaceType ==
  ASSUME TypeOK, NEW e \in Employees, NEW U \in Placements, Place(e, U)
  PROVE  TypeOK'
  BY DEF Place, Placements, TypeOK, IsTable

LEMMA OnboardReadType ==
  ASSUME TypeOK, NEW p \in Procs, OnboardRead(p)
  PROVE  TypeOK'
<1>1. [at |-> "onboardTx", e |-> req[p].e, seen |-> plan] \in Continuation
  BY ReqFields DEF Continuation, OnboardRead, TypeOK
<1>. QED BY <1>1, GotoType DEF OnboardRead, TypeOK, IsTable

LEMMA OnboardCommitType ==
  ASSUME TypeOK, NEW p \in Procs, OnboardCommit(p)
  PROVE  TypeOK'
<1>1. req[p].e \in Employees /\ IsTable(req[p].seen, Plans, PlanRow)
  BY ReqFields, PlanTable DEF OnboardCommit
<1>2. IsTable(ent', Employees \X Plans, EntRow)
  BY <1>1, NumbersAssumption DEF OnboardCommit, TypeOK, IsTable, Insert
<1>3. req' \in [Procs -> Continuation]
  BY FinishType DEF OnboardCommit
<1>. QED BY <1>2, <1>3 DEF OnboardCommit, TypeOK, IsTable

LEMMA ApplyType ==
  ASSUME TypeOK, NEW p \in Procs, NEW e \in Employees, NEW n \in Names, NEW days \in Spans,
         Apply(p, e, n, days)
  PROVE  TypeOK'
<1>1. [at |-> "applyPlan", e |-> e, units |-> units[e], days |-> days, name |-> n]
        \in Continuation
  BY DEF Continuation, Apply, TypeOK, IsTable
<1>. QED BY <1>1, GotoType DEF Apply, TypeOK, IsTable

LEMMA ApplyFindPlanType ==
  ASSUME TypeOK, NEW p \in Procs, ApplyFindPlan(p)
  PROVE  TypeOK'
<1>1. ASSUME NEW l \in PlansNamed(req[p].name)
      PROVE  [at |-> "applyCheck", e |-> req[p].e, units |-> req[p].units,
              days |-> req[p].days, name |-> req[p].name, l |-> l] \in Continuation
  BY ReqFields, PlanTable DEF Continuation, ApplyFindPlan, PlansNamed, TypeOK, IsTable
<1>2. req' \in [Procs -> Continuation]
  BY <1>1, GotoType, FinishType DEF ApplyFindPlan
<1>. QED BY <1>2 DEF ApplyFindPlan, TypeOK, IsTable

LEMMA ApplyCheckType ==
  ASSUME TypeOK, NEW p \in Procs, ApplyCheck(p)
  PROVE  TypeOK'
<1>1. [at |-> "applyTx", e |-> req[p].e, units |-> req[p].units, days |-> req[p].days,
       l |-> req[p].l] \in Continuation
  BY ReqFields DEF Continuation, ApplyCheck
<1>2. req' \in [Procs -> Continuation]
  BY <1>1, GotoType, FinishType DEF ApplyCheck
<1>. QED BY <1>2 DEF ApplyCheck, TypeOK, IsTable

\* What an application that is stored looks like.
AppInserted(p, a) ==
  /\ a \notin DOMAIN app
  /\ app' = [b \in DOMAIN app \cup {a} |->
               IF b \in DOMAIN app THEN app[b]
               ELSE [status |-> "PENDING", e |-> req[p].e, l |-> req[p].l, days |-> req[p].days]]
  /\ req' = [req EXCEPT ![p] = [at |-> "route", a |-> a, units |-> req[p].units, unit |-> "team"]]

\* Applying stores one new application and goes on to route it, or ends.
LEMMA ApplyCommitApp ==
  ASSUME NEW p \in Procs, ApplyCommit(p)
  PROVE  \/ \E a \in Apps : AppInserted(p, a)
         \/ app' = app /\ Finish(p)
  BY DEF ApplyCommit, AppInserted, Insert, Goto

LEMMA ApplyCommitType ==
  ASSUME TypeOK, NEW p \in Procs, ApplyCommit(p)
  PROVE  TypeOK'
<1>1. /\ req[p].e \in Employees /\ req[p].units \subseteq Units
      /\ req[p].days \in Spans /\ req[p].l \in Plans
  BY ReqFields DEF ApplyCommit
<1>2. ASSUME NEW a \in Apps
      PROVE  [at |-> "route", a |-> a, units |-> req[p].units, unit |-> "team"]
               \in Continuation
  BY <1>1 DEF Continuation
<1>3. req' \in [Procs -> Continuation]
  BY <1>2, GotoType, FinishType DEF ApplyCommit
<1>4. IsTable(app', Apps, AppRow)
  <2>1. ASSUME NEW a \in Apps, AppInserted(p, a)
        PROVE  IsTable(app', Apps, AppRow)
    <3>1. [status |-> "PENDING", e |-> req[p].e, l |-> req[p].l, days |-> req[p].days] \in AppRow
      BY <1>1
    <3>. QED BY <2>1, <3>1 DEF AppInserted, TypeOK, IsTable
  <2>. QED BY <2>1, ApplyCommitApp DEF TypeOK
<1>. QED BY <1>3, <1>4 DEF ApplyCommit, TypeOK, IsTable

LEMMA RouteType ==
  ASSUME TypeOK, NEW p \in Procs, Route(p)
  PROVE  TypeOK'
<1>1. /\ req[p].a \in Apps /\ req[p].units \subseteq Units /\ req[p].unit \in Units
      /\ req[p] = [at |-> "route", a |-> req[p].a, units |-> req[p].units,
                   unit |-> req[p].unit]
  BY ReqFields DEF Route
<1>2. Following(req[p].unit) # "none" =>
        [req[p] EXCEPT !.unit = Following(@)] \in Continuation
  BY <1>1 DEF Continuation, Following
<1>3. req' \in [Procs -> Continuation]
  BY <1>2, GotoType, FinishType DEF Route, Finish
<1>4. routed' \in [Apps -> SUBSET Units] /\ decision' \in [Apps -> {"null", "APPROVED", "DECLINED"}]
  BY <1>1 DEF Route, TypeOK
<1>. QED BY <1>3, <1>4 DEF Route, TypeOK, IsTable

\* A decision finds the row to charge where the types say it is.
LEMMA DecideType ==
  ASSUME TypeOK, NEW a \in Apps, Approve(a) \/ Decline(a)
  PROVE  TypeOK'
<1>1. a \in DOMAIN app /\ app[a] \in AppRow
  BY DEF Approve, Decline, Decidable, Live, TypeOK, IsTable
<1>2. IsTable(app', Apps, AppRow)
  BY <1>1 DEF Approve, Decline, TypeOK, IsTable
<1>3. IsTable(ent', Employees \X Plans, EntRow)
  BY <1>1, NumbersAssumption DEF Approve, Decline, Chargeable, TypeOK, IsTable
<1>. QED BY <1>2, <1>3 DEF Approve, Decline, TypeOK, IsTable

LEMMA DeleteApplicationsType ==
  ASSUME TypeOK, NEW p \in Procs, NEW e \in Employees, DeleteApplications(p, e)
  PROVE  TypeOK'
<1>1. [at |-> "deleteFound", e |-> e, apps |-> {a \in Live : app[a].e = e}] \in Continuation
  BY DEF Continuation, Live, TypeOK, IsTable
<1>. QED BY <1>1, GotoType DEF DeleteApplications, TypeOK, IsTable

LEMMA DeleteEntitlementsType ==
  ASSUME TypeOK, NEW p \in Procs, DeleteEntitlements(p)
  PROVE  TypeOK'
<1>1. [at |-> "deleteTx", e |-> req[p].e, apps |-> req[p].apps \cap Live,
       ents |-> {k \in DOMAIN ent : k[1] = req[p].e}] \in Continuation
  BY ReqFields DEF DeleteEntitlements, Continuation, TypeOK, IsTable
<1>. QED BY <1>1, GotoType DEF DeleteEntitlements, TypeOK, IsTable

\* What a statement has found only shrinks, and nothing else of its handler changes.
LEMMA WithoutType ==
  ASSUME TypeOK, NEW q \in Procs, NEW K
  PROVE  /\ Without(req[q], K) \in Continuation
         /\ Without(req[q], K).at = req[q].at
         /\ ~ At(q, "updateTx") /\ ~ At(q, "deleteTx") => Without(req[q], K) = req[q]
         /\ At(q, "updateTx") => /\ Without(req[q], K).l = req[q].l
                                 /\ Without(req[q], K).ents = req[q].ents \ K
         /\ At(q, "deleteTx") => /\ Without(req[q], K).e = req[q].e
                                 /\ Without(req[q], K).apps = req[q].apps
                                 /\ Without(req[q], K).ents = req[q].ents \ K
<1>1. CASE At(q, "updateTx")
  <2>1. /\ req[q].l \in Plans /\ req[q].name \in Names \cup {Undefined}
        /\ req[q].dur \in Durations \cup {Undefined} /\ req[q].ents \subseteq Employees \X Plans
        /\ req[q] = [at |-> "updateTx", l |-> req[q].l, name |-> req[q].name,
                     dur |-> req[q].dur, ents |-> req[q].ents]
    BY <1>1, ReqFields
  <2>2. Without(req[q], K) = [at |-> "updateTx", l |-> req[q].l, name |-> req[q].name,
                              dur |-> req[q].dur, ents |-> req[q].ents \ K]
    BY <2>1 DEF Without
  <2>3. Without(req[q], K) \in Continuation
    BY <2>1, <2>2 DEF Continuation
  <2>. QED BY <1>1, <2>2, <2>3 DEF At
<1>2. CASE At(q, "deleteTx")
  <2>1. /\ req[q].e \in Employees /\ req[q].apps \subseteq Apps
        /\ req[q].ents \subseteq Employees \X Plans
        /\ req[q] = [at |-> "deleteTx", e |-> req[q].e, apps |-> req[q].apps,
                     ents |-> req[q].ents]
    BY <1>2, ReqFields
  <2>2. Without(req[q], K) = [at |-> "deleteTx", e |-> req[q].e, apps |-> req[q].apps,
                              ents |-> req[q].ents \ K]
    <3>1. Without(req[q], K) = [req[q] EXCEPT !.ents = @ \ K]
      BY <1>2 DEF Without, At
    <3>. QED BY <2>1, <3>1
  <2>3. Without(req[q], K) \in Continuation
    BY <2>1, <2>2 DEF Continuation
  <2>. QED BY <1>2, <2>2, <2>3 DEF At
<1>3. CASE ~ At(q, "updateTx") /\ ~ At(q, "deleteTx")
  BY <1>3 DEF Without, At, TypeOK
<1>. QED BY <1>1, <1>2, <1>3

LEMMA DeleteCommitType ==
  ASSUME TypeOK, NEW p \in Procs, DeleteCommit(p)
  PROVE  TypeOK'
<1>1. IsTable(app', Apps, AppRow)
  BY DEF DeleteCommit, TypeOK, IsTable
<1>2. IsTable(ent', Employees \X Plans, EntRow)
  BY DEF DeleteCommit, TypeOK, IsTable
<1>3. req' \in [Procs -> Continuation]
  <2>1. ASSUME NEW q \in Procs
        PROVE  (IF q = p THEN Idle ELSE Without(req[q], req[p].ents)) \in Continuation
    <3>1. Idle \in Continuation
      BY DEF Continuation
    <3>. QED BY <3>1, WithoutType
  <2>2. req' = [q \in Procs |-> IF q = p THEN Idle ELSE Without(req[q], req[p].ents)]
    BY DEF DeleteCommit
  <2>. HIDE DEF Idle, Continuation, Without
  <2>. QED BY <2>1, <2>2
<1>. QED BY <1>1, <1>2, <1>3 DEF DeleteCommit, TypeOK, IsTable

LEMMA FailType ==
  ASSUME TypeOK, NEW p \in Procs, Fail(p)
  PROVE  TypeOK'
  BY FinishType DEF Fail, TypeOK, IsTable

LEMMA NextType == TypeOK /\ [Next]_vars => TypeOK'
<1>. SUFFICES ASSUME TypeOK, [Next]_vars PROVE TypeOK'
  OBVIOUS
<1>1. CASE AtOnce
  BY <1>1, CreateEmployeeOnlyType, PlaceType, DecideType DEF AtOnce, Decisions
<1>2. ASSUME NEW p \in Procs, Arrive(p) PROVE TypeOK'
  BY <1>2, CreatePlanType, UpdatePlanType, OnboardEmployeeType, DeleteApplicationsType, ApplyType
     DEF Arrive
<1>3. ASSUME NEW p \in Procs, Advance(p) PROVE TypeOK'
  BY <1>3, CreatePlanReadType, CreatePlanCommitType, OnboardReadType, OnboardCommitType,
     ApplyFindPlanType, ApplyCheckType, ApplyCommitType, RouteType, UpdatePlanCommitType,
     DeleteEntitlementsType, DeleteCommitType
     DEF Advance
<1>4. CASE UNCHANGED vars
  BY <1>4 DEF vars, TypeOK, IsTable
<1>. QED BY <1>1, <1>2, <1>3, <1>4, FailType DEF Next

\* Every table, and what every handler holds, has its type in every state.
THEOREM TypeCorrect == Spec => []TypeOK
  BY InitType, NextType, PTL DEF Spec

-----------------------------------------------------------------------------
(* The inductive invariant behind DecisionAgreement and RoutedInOrder.      *)

\* An id that no application has used has no requests and no decision.
UnusedIds == \A a \in Apps \ DOMAIN app : routed[a] = {} /\ decision[a] = "null"

\* A handler past the team (the branch) has created the team's (the branch's) request.
RoutedSoFar ==
  \A p \in Procs : At(p, "route") =>
    /\ req[p].unit \in {"branch", "dept"} => "team" \in routed[req[p].a]
    /\ req[p].unit = "dept" => "branch" \in routed[req[p].a]

Routing == RoutedInOrder /\ RoutingIsPrivate /\ UnusedIds /\ RoutedSoFar
IInv == TypeOK /\ Routing /\ DecisionAgreement

LEMMA InitIInv == Init => IInv
  BY InitType DEF Init, IInv, Routing, RoutedInOrder, RoutingIsPrivate, UnusedIds,
     RoutedSoFar, DecisionAgreement, Live, At

\* The invariant only looks at applications, requests, decisions and routing
\* handlers: a step that leaves those alone, and starts no routing, keeps it.
LEMMA IInvFrame ==
  ASSUME IInv, TypeOK', UNCHANGED <<app, routed, decision>>,
         \A p \in Procs : At(p, "route")' => req'[p] = req[p]
  PROVE  IInv'
<1>1. \A p \in Procs : At(p, "route")' => At(p, "route") /\ req'[p] = req[p]
  BY DEF At
<1>2. RoutedInOrder' /\ UnusedIds' /\ DecisionAgreement'
  BY DEF IInv, Routing, RoutedInOrder, UnusedIds, DecisionAgreement, Live
<1>3. RoutingIsPrivate' /\ RoutedSoFar'
  BY <1>1 DEF IInv, Routing, RoutingIsPrivate, RoutedSoFar
<1>. QED BY <1>2, <1>3 DEF IInv, Routing

\* A step that sends one handler to a label other than "route" is such a step.
LEMMA GotoElsewhere ==
  ASSUME IInv, TypeOK', UNCHANGED <<app, routed, decision>>,
         NEW p \in Procs, NEW k, k.at # "route", Goto(p, k)
  PROVE  IInv'
<1>1. \A q \in Procs : At(q, "route")' => req'[q] = req[q]
  BY DEF At, Goto, IInv, TypeOK
<1>. QED BY <1>1, IInvFrame

LEMMA FinishElsewhere ==
  ASSUME IInv, TypeOK', UNCHANGED <<app, routed, decision>>, NEW p \in Procs, Finish(p)
  PROVE  IInv'
  BY GotoElsewhere DEF Finish

LEMMA ApplyCommitIInv ==
  ASSUME IInv, TypeOK', NEW p \in Procs, ApplyCommit(p)
  PROVE  IInv'
<1>1. CASE app' = app /\ Finish(p)
  BY <1>1, FinishElsewhere DEF ApplyCommit
<1>2. ASSUME NEW a \in Apps, AppInserted(p, a)
      PROVE  IInv'
  <2>1. /\ UNCHANGED <<routed, decision>>
        /\ a \notin DOMAIN app
        /\ DOMAIN app' = DOMAIN app \cup {a}
        /\ \A b \in DOMAIN app : app'[b] = app[b]
        /\ app'[a].status = "PENDING"
        /\ routed[a] = {} /\ decision[a] = "null"
    <3>1. /\ a \notin DOMAIN app
          /\ DOMAIN app' = DOMAIN app \cup {a}
          /\ \A b \in DOMAIN app : app'[b] = app[b]
          /\ app'[a].status = "PENDING"
      BY <1>2 DEF AppInserted
    <3>2. UNCHANGED <<routed, decision>>
      BY DEF ApplyCommit
    <3>. QED BY <3>1, <3>2 DEF IInv, Routing, UnusedIds
  <2>2. /\ req'[p].at = "route" /\ req'[p].a = a /\ req'[p].unit = "team"
        /\ \A q \in Procs \ {p} : req'[q] = req[q]
    BY <1>2 DEF AppInserted, IInv, TypeOK
  <2>3. \A q \in Procs : At(q, "route") => req[q].a \in DOMAIN app
    BY DEF IInv, Routing, RoutingIsPrivate
  <2>4. RoutedInOrder' /\ UnusedIds'
    BY <2>1 DEF IInv, Routing, RoutedInOrder, UnusedIds
  <2>5. DecisionAgreement'
    BY <2>1 DEF IInv, DecisionAgreement, Live
  <2>6. RoutedSoFar'
    BY <2>1, <2>2 DEF IInv, Routing, RoutedSoFar, At
  <2>7. RoutingIsPrivate'
    <3>. SUFFICES ASSUME NEW q \in Procs, At(q, "route")'
                  PROVE  /\ req'[q].a \in DOMAIN app'
                         /\ req'[q].unit = "team" =>
                              /\ routed'[req'[q].a] = {}
                              /\ app'[req'[q].a].status \in {"PENDING", "DELETED"}
                         /\ \A r \in Procs : At(r, "route")' /\ req'[r].a = req'[q].a => r = q
      BY DEF RoutingIsPrivate
    <3>1. CASE q = p
      BY <3>1, <2>1, <2>2, <2>3 DEF At
    <3>2. CASE q # p
      BY <3>2, <2>1, <2>2, <2>3 DEF IInv, Routing, RoutingIsPrivate, At
    <3>. QED BY <3>1, <3>2
  <2>. QED BY <2>4, <2>5, <2>6, <2>7 DEF IInv, Routing
<1>. QED BY <1>1, <1>2, ApplyCommitApp

LEMMA RouteIInv ==
  ASSUME IInv, TypeOK', NEW p \in Procs, Route(p)
  PROVE  IInv'
<1>1. /\ req[p].a \in Apps /\ req[p].unit \in Units
      /\ req[p] = [at |-> "route", a |-> req[p].a, units |-> req[p].units,
                   unit |-> req[p].unit]
  BY ReqFields DEF Route, IInv
<1>2. CASE ~ (req[p].unit \in req[p].units /\ req[p].a \in Live)
  BY <1>2, FinishElsewhere DEF Route
<1>3. CASE req[p].unit \in req[p].units /\ req[p].a \in Live
  <2>. DEFINE a == req[p].a
              unit == req[p].unit
  <2>1. /\ app' = app
        /\ routed' = [routed EXCEPT ![a] = @ \cup {unit}]
        /\ decision' = IF unit = "team" THEN [decision EXCEPT ![a] = "null"] ELSE decision
    BY <1>3 DEF Route
  <2>2. /\ \A q \in Procs \ {p} : req'[q] = req[q]
        /\ At(p, "route")' =>
             /\ req'[p].a = a
             /\ req'[p].unit # "team"
             /\ req'[p].unit = "branch" => unit = "team"
             /\ req'[p].unit = "dept" => unit = "branch"
    BY <1>1, <1>3 DEF Route, Following, Goto, At, IInv, TypeOK
  <2>3. /\ a \in DOMAIN app
        /\ unit = "team" => routed[a] = {} /\ app[a].status = "PENDING"
        /\ unit \in {"branch", "dept"} => "team" \in routed[a]
        /\ unit = "dept" => "branch" \in routed[a]
        /\ \A q \in Procs : At(q, "route") /\ req[q].a = a => q = p
    BY <1>1, <1>3 DEF IInv, Routing, RoutingIsPrivate, RoutedSoFar, Live, At, Route
  <2>4. RoutedInOrder'
    BY <1>1, <2>1, <2>3 DEF IInv, TypeOK, Routing, RoutedInOrder
  <2>5. UnusedIds'
    BY <2>1, <2>3 DEF IInv, TypeOK, Routing, UnusedIds
  <2>6. DecisionAgreement'
    BY <1>1, <2>1, <2>3 DEF IInv, TypeOK, DecisionAgreement, Live
  <2>7. RoutedSoFar'
    BY <1>1, <2>1, <2>2, <2>3, ReqFields DEF IInv, TypeOK, Routing, RoutedSoFar, At
  <2>8. RoutingIsPrivate'
    BY <1>1, <2>1, <2>2, <2>3, ReqFields DEF IInv, TypeOK, Routing, RoutingIsPrivate, At
  <2>. QED BY <2>4, <2>5, <2>6, <2>7, <2>8 DEF IInv, Routing
<1>. QED BY <1>2, <1>3

\* A decision concerns a routed application; no handler has yet to route it.
LEMMA DecideIInv ==
  ASSUME IInv, TypeOK', NEW a \in Apps, Approve(a) \/ Decline(a)
  PROVE  IInv'
<1>1. a \in Live /\ "team" \in routed[a] /\ UNCHANGED <<routed, req>>
  BY DEF Approve, Decline, Decidable
<1>2. PICK v \in {"APPROVED", "DECLINED"} :
        /\ app' = [app EXCEPT ![a].status = v]
        /\ decision' = [decision EXCEPT ![a] = v]
  BY DEF Approve, Decline
<1>3. /\ DOMAIN app' = DOMAIN app
      /\ \A b \in DOMAIN app : app'[b].status = IF b = a THEN v ELSE app[b].status
      /\ \A b \in Apps : decision'[b] = IF b = a THEN v ELSE decision[b]
  BY <1>2 DEF IInv, TypeOK, IsTable
<1>4. RoutedInOrder' /\ RoutedSoFar'
  BY <1>1 DEF IInv, Routing, RoutedInOrder, RoutedSoFar, At
<1>5. UnusedIds'
  BY <1>1, <1>3 DEF IInv, Routing, UnusedIds, Live
<1>6. RoutingIsPrivate'
  BY <1>1, <1>3 DEF IInv, Routing, RoutingIsPrivate, At
<1>7. DecisionAgreement'
  BY <1>1, <1>3 DEF IInv, TypeOK, IsTable, DecisionAgreement, Live
<1>. QED BY <1>4, <1>5, <1>6, <1>7 DEF IInv, Routing

LEMMA DeleteCommitIInv ==
  ASSUME IInv, TypeOK', NEW p \in Procs, DeleteCommit(p)
  PROVE  IInv'
<1>1. /\ UNCHANGED <<routed, decision>>
      /\ DOMAIN app' = DOMAIN app
      /\ \A b \in DOMAIN app : app'[b].status \in {app[b].status, "DELETED"}
  BY DEF DeleteCommit, IInv, TypeOK, IsTable
<1>2. \A q \in Procs : At(q, "route")' => At(q, "route") /\ req'[q] = req[q]
  BY WithoutType DEF DeleteCommit, At, IInv
<1>3. RoutedInOrder' /\ UnusedIds' /\ DecisionAgreement'
  BY <1>1 DEF IInv, Routing, RoutedInOrder, UnusedIds, DecisionAgreement, Live
<1>4. RoutedSoFar'
  BY <1>1, <1>2 DEF IInv, Routing, RoutedSoFar
<1>5. RoutingIsPrivate'
  BY <1>1, <1>2 DEF IInv, Routing, RoutingIsPrivate
<1>. QED BY <1>3, <1>4, <1>5 DEF IInv, Routing

LEMMA AtOnceIInv ==
  ASSUME IInv, TypeOK', AtOnce
  PROVE  IInv'
<1>1. ASSUME NEW e \in Employees, CreateEmployeeOnly(e) \/ \E U \in Placements : Place(e, U)
      PROVE  IInv'
  BY <1>1, IInvFrame DEF CreateEmployeeOnly, Place
<1>. QED BY <1>1, DecideIInv DEF AtOnce, Decisions

LEMMA ArriveIInv ==
  ASSUME IInv, TypeOK', NEW p \in Procs, Arrive(p)
  PROVE  IInv'
<1>1. UNCHANGED <<app, routed, decision>>
  BY DEF Arrive, CreatePlan, UpdatePlan, OnboardEmployee, DeleteApplications, Apply
<1>2. \E k : k.at # "route" /\ Goto(p, k)
  BY DEF Arrive, CreatePlan, UpdatePlan, OnboardEmployee, DeleteApplications, Apply
<1>. QED BY <1>1, <1>2, GotoElsewhere

LEMMA AdvanceIInv ==
  ASSUME IInv, TypeOK', NEW p \in Procs, Advance(p)
  PROVE  IInv'
<1>1. CASE CreatePlanRead(p) \/ ApplyFindPlan(p) \/ ApplyCheck(p)
  <2>1. UNCHANGED <<app, routed, decision>>
    BY <1>1 DEF CreatePlanRead, ApplyFindPlan, ApplyCheck
  <2>2. Finish(p) \/ \E k : k.at # "route" /\ Goto(p, k)
    BY <1>1 DEF CreatePlanRead, ApplyFindPlan, ApplyCheck
  <2>. QED BY <2>1, <2>2, GotoElsewhere, FinishElsewhere
<1>2. CASE CreatePlanCommit(p) \/ OnboardCommit(p) \/ UpdatePlanCommit(p)
  BY <1>2, FinishElsewhere DEF CreatePlanCommit, OnboardCommit, UpdatePlanCommit
<1>3. CASE OnboardRead(p) \/ DeleteEntitlements(p)
  BY <1>3, GotoElsewhere DEF OnboardRead, DeleteEntitlements
<1>. QED BY <1>1, <1>2, <1>3, ApplyCommitIInv, RouteIInv, DeleteCommitIInv DEF Advance

LEMMA NextIInv == IInv /\ [Next]_vars => IInv'
<1>. SUFFICES ASSUME IInv, [Next]_vars PROVE IInv'
  OBVIOUS
<1>1. TypeOK'
  BY NextType DEF IInv
<1>2. ASSUME NEW p \in Procs, Fail(p) PROVE IInv'
  BY <1>1, <1>2, FinishElsewhere DEF Fail
<1>3. CASE UNCHANGED vars
  BY <1>1, <1>3, IInvFrame DEF vars
<1>. QED BY <1>1, <1>2, <1>3, AtOnceIInv, ArriveIInv, AdvanceIInv DEF Next

LEMMA SpecIInv == Spec => []IInv
  BY InitIInv, NextIInv, PTL DEF Spec

\* The status of an application and the decision on its team request agree in
\* every state, however decisions, routing, deletions and failures interleave.
THEOREM DecisionsAgree == Spec => []DecisionAgreement
<1>1. IInv => DecisionAgreement
  BY DEF IInv
<1>. QED BY <1>1, SpecIInv, PTL

\* The requests that exist for an application are always the first ones of the
\* sequence team, branch, department.
THEOREM RoutingKeepsOrder == Spec => []RoutedInOrder
<1>1. IInv => RoutedInOrder
  BY DEF IInv, Routing
<1>. QED BY <1>1, SpecIInv, PTL

\* One handler at most routes an application, and it finds it undecided.
THEOREM RoutingStaysPrivate == Spec => []RoutingIsPrivate
<1>1. IInv => RoutingIsPrivate
  BY DEF IInv, Routing
<1>. QED BY <1>1, SpecIInv, PTL

-----------------------------------------------------------------------------
(* What open transactions and reads hold of plans and entitlements.        *)

\* An update holds rows of its plan, a deletion rows of its employee, and none of
\* them has been deleted since; a new plan's id is its creator's alone; a plan
\* that an onboarding has read is still there.
HeldRows ==
  /\ \A p \in Procs : At(p, "updateTx") =>
       /\ req[p].l \in DOMAIN plan
       /\ \A k \in req[p].ents : k \in DOMAIN ent /\ k[2] = req[p].l
  /\ \A p \in Procs : At(p, "deleteTx") =>
       \A k \in req[p].ents : k \in DOMAIN ent /\ k[1] = req[p].e
  /\ \A p, q \in Procs : At(p, "planTx") =>
       /\ req[p].l \notin DOMAIN plan
       /\ At(q, "planTx") /\ req[q].l = req[p].l => q = p
  /\ \A p \in Procs : At(p, "onboardTx") => DOMAIN req[p].seen \subseteq DOMAIN plan

HInv == TypeOK /\ HeldRows

\* The labels at which a handler holds such things.
Holding == {"updateTx", "deleteTx", "planTx", "onboardTx"}

\* A step that deletes no entitlement and creates no plan, and gives no handler
\* anything to hold, keeps the invariant.
LEMMA HeldFrame ==
  ASSUME HeldRows, DOMAIN ent \subseteq DOMAIN ent', DOMAIN plan' = DOMAIN plan,
         \A p \in Procs : req'[p].at \in Holding => req'[p] = req[p]
  PROVE  HeldRows'
<1>1. ASSUME NEW p \in Procs, NEW label \in Holding, At(p, label)'
      PROVE  At(p, label) /\ req'[p] = req[p]
  BY <1>1 DEF At
<1>2. \A p \in Procs : At(p, "updateTx")' =>
        /\ req'[p].l \in DOMAIN plan'
        /\ \A k \in req'[p].ents : k \in DOMAIN ent' /\ k[2] = req'[p].l
  BY <1>1 DEF HeldRows, Holding
<1>3. \A p \in Procs : At(p, "deleteTx")' =>
        \A k \in req'[p].ents : k \in DOMAIN ent' /\ k[1] = req'[p].e
  BY <1>1 DEF HeldRows, Holding
<1>4. \A p, q \in Procs : At(p, "planTx")' =>
        /\ req'[p].l \notin DOMAIN plan'
        /\ At(q, "planTx")' /\ req'[q].l = req'[p].l => q = p
  BY <1>1 DEF HeldRows, Holding
<1>5. \A p \in Procs : At(p, "onboardTx")' => DOMAIN req'[p].seen \subseteq DOMAIN plan'
  BY <1>1 DEF HeldRows, Holding
<1>. QED BY <1>2, <1>3, <1>4, <1>5 DEF HeldRows

LEMMA HeldElsewhere ==
  ASSUME HInv, DOMAIN ent \subseteq DOMAIN ent', DOMAIN plan' = DOMAIN plan,
         NEW p \in Procs, NEW k, k.at \notin Holding, Goto(p, k)
  PROVE  HeldRows'
<1>1. \A q \in Procs : req'[q].at \in Holding => req'[q] = req[q]
  BY DEF Goto, HInv, TypeOK
<1>. QED BY <1>1, HeldFrame DEF HInv

\* Handlers that end.
LEMMA HeldFinish ==
  ASSUME HInv, DOMAIN ent \subseteq DOMAIN ent', DOMAIN plan' = DOMAIN plan,
         NEW p \in Procs, Finish(p)
  PROVE  HeldRows'
  BY HeldElsewhere DEF Finish, Holding

\* What a handler comes to hold at one of the labels, it holds by its own read.
LEMMA HeldBegin ==
  ASSUME HInv, UNCHANGED <<ent, plan>>, NEW p \in Procs, NEW k, Goto(p, k),
         k.at = "updateTx" => /\ k.l \in DOMAIN plan
                              /\ \A x \in k.ents : x \in DOMAIN ent /\ x[2] = k.l,
         k.at = "deleteTx" => \A x \in k.ents : x \in DOMAIN ent /\ x[1] = k.e,
         k.at = "planTx" => k.l \in FreshPlans,
         k.at = "onboardTx" => DOMAIN k.seen \subseteq DOMAIN plan
  PROVE  HeldRows'
<1>1. req'[p] = k /\ \A q \in Procs \ {p} : req'[q] = req[q]
  BY DEF Goto, HInv, TypeOK
<1>2. \A q \in Procs : At(q, "updateTx")' =>
        /\ req'[q].l \in DOMAIN plan'
        /\ \A x \in req'[q].ents : x \in DOMAIN ent' /\ x[2] = req'[q].l
  BY <1>1 DEF HInv, HeldRows, At
<1>3. \A q \in Procs : At(q, "deleteTx")' =>
        \A x \in req'[q].ents : x \in DOMAIN ent' /\ x[1] = req'[q].e
  BY <1>1 DEF HInv, HeldRows, At
<1>4. \A q, r \in Procs : At(q, "planTx")' =>
        /\ req'[q].l \notin DOMAIN plan'
        /\ At(r, "planTx")' /\ req'[r].l = req'[q].l => r = q
  BY <1>1 DEF HInv, HeldRows, At, FreshPlans
<1>5. \A q \in Procs : At(q, "onboardTx")' => DOMAIN req'[q].seen \subseteq DOMAIN plan'
  BY <1>1 DEF HInv, HeldRows, At
<1>. QED BY <1>2, <1>3, <1>4, <1>5 DEF HeldRows

LEMMA CreatePlanCommitHeld ==
  ASSUME HInv, NEW p \in Procs, CreatePlanCommit(p)
  PROVE  HeldRows'
<1>1. /\ \A q \in Procs \ {p} : req'[q] = req[q]
      /\ req'[p].at = "idle"
      /\ DOMAIN plan' = DOMAIN plan \cup {req[p].l}
      /\ DOMAIN ent \subseteq DOMAIN ent'
      /\ At(p, "planTx")
  BY DEF CreatePlanCommit, Insert, Finish, Goto, HInv, TypeOK
<1>2. \A q \in Procs : At(q, "updateTx")' =>
        /\ req'[q].l \in DOMAIN plan'
        /\ \A x \in req'[q].ents : x \in DOMAIN ent' /\ x[2] = req'[q].l
  BY <1>1 DEF HInv, HeldRows, At
<1>3. \A q \in Procs : At(q, "deleteTx")' =>
        \A x \in req'[q].ents : x \in DOMAIN ent' /\ x[1] = req'[q].e
  BY <1>1 DEF HInv, HeldRows, At
<1>4. \A q, r \in Procs : At(q, "planTx")' =>
        /\ req'[q].l \notin DOMAIN plan'
        /\ At(r, "planTx")' /\ req'[r].l = req'[q].l => r = q
  BY <1>1 DEF HInv, HeldRows, At
<1>5. \A q \in Procs : At(q, "onboardTx")' => DOMAIN req'[q].seen \subseteq DOMAIN plan'
  BY <1>1 DEF HInv, HeldRows, At
<1>. QED BY <1>2, <1>3, <1>4, <1>5 DEF HeldRows

\* A deletion takes rows from the tables and from those who had found them.
LEMMA DeleteCommitHeld ==
  ASSUME HInv, NEW p \in Procs, DeleteCommit(p)
  PROVE  HeldRows'
<1>. DEFINE K == req[p].ents
<1>1. /\ \A q \in Procs \ {p} : req'[q] = Without(req[q], K)
      /\ req'[p].at = "idle"
      /\ DOMAIN ent' = DOMAIN ent \ K
      /\ plan' = plan
  BY DEF DeleteCommit
<1>2. ASSUME NEW q \in Procs, ~ At(q, "idle")'
      PROVE  /\ req'[q].at = req[q].at
             /\ ~ At(q, "updateTx") /\ ~ At(q, "deleteTx") => req'[q] = req[q]
             /\ At(q, "updateTx") => req'[q].l = req[q].l /\ req'[q].ents = req[q].ents \ K
             /\ At(q, "deleteTx") => req'[q].e = req[q].e /\ req'[q].ents = req[q].ents \ K
  <2>1. req'[q] = Without(req[q], K)
    BY <1>1, <1>2 DEF At
  <2>2. TypeOK
    BY DEF HInv
  <2>3. /\ Without(req[q], K).at = req[q].at
        /\ ~ At(q, "updateTx") /\ ~ At(q, "deleteTx") => Without(req[q], K) = req[q]
        /\ At(q, "updateTx") => /\ Without(req[q], K).l = req[q].l
                                /\ Without(req[q], K).ents = req[q].ents \ K
        /\ At(q, "deleteTx") => /\ Without(req[q], K).e = req[q].e
                                /\ Without(req[q], K).ents = req[q].ents \ K
    BY <2>2, WithoutType
  <2>. QED BY <2>1, <2>3
<1>3. ASSUME NEW q \in Procs, At(q, "updateTx")'
      PROVE  /\ req'[q].l \in DOMAIN plan'
             /\ \A x \in req'[q].ents : x \in DOMAIN ent' /\ x[2] = req'[q].l
  <2>1. At(q, "updateTx") /\ req'[q].l = req[q].l /\ req'[q].ents = req[q].ents \ K
    BY <1>2, <1>3 DEF At
  <2>. QED BY <1>1, <2>1 DEF HInv, HeldRows
<1>4. ASSUME NEW q \in Procs, At(q, "deleteTx")'
      PROVE  \A x \in req'[q].ents : x \in DOMAIN ent' /\ x[1] = req'[q].e
  <2>1. At(q, "deleteTx") /\ req'[q].e = req[q].e /\ req'[q].ents = req[q].ents \ K
    BY <1>2, <1>4 DEF At
  <2>. QED BY <1>1, <2>1 DEF HInv, HeldRows
<1>5. ASSUME NEW q \in Procs, At(q, "planTx")' \/ At(q, "onboardTx")'
      PROVE  req'[q] = req[q]
  BY <1>2, <1>5 DEF At
<1>6. \A q, r \in Procs : At(q, "planTx")' =>
        /\ req'[q].l \notin DOMAIN plan'
        /\ At(r, "planTx")' /\ req'[r].l = req'[q].l => r = q
  BY <1>1, <1>5 DEF HInv, HeldRows, At
<1>7. \A q \in Procs : At(q, "onboardTx")' => DOMAIN req'[q].seen \subseteq DOMAIN plan'
  BY <1>1, <1>5 DEF HInv, HeldRows, At
<1>. QED BY <1>3, <1>4, <1>6, <1>7 DEF HeldRows

LEMMA NextHeld == HInv /\ [Next]_vars => HeldRows'
<1>. SUFFICES ASSUME HInv, [Next]_vars PROVE HeldRows'
  OBVIOUS
<1>1. CASE AtOnce \/ UNCHANGED vars
  <2>1. DOMAIN ent' = DOMAIN ent /\ UNCHANGED <<plan, req>>
    BY <1>1 DEF AtOnce, Decisions, CreateEmployeeOnly, Place, Approve, Decline, vars
  <2>. QED BY <2>1, HeldFrame DEF HInv
<1>2. ASSUME NEW p \in Procs, Fail(p) PROVE HeldRows'
  BY <1>2, HeldFinish DEF Fail
<1>3. ASSUME NEW p \in Procs, Arrive(p) PROVE HeldRows'
  <2>1. UNCHANGED <<ent, plan>>
    BY <1>3 DEF Arrive, CreatePlan, UpdatePlan, OnboardEmployee, DeleteApplications, Apply
  <2>2. CASE \E k : k.at \notin Holding /\ Goto(p, k)
    BY <2>1, <2>2, HeldElsewhere
  <2>3. ASSUME NEW l \in Plans, NEW n, NEW d, UpdatePlan(p, l, n, d) PROVE HeldRows'
    <3>. DEFINE k == [at |-> "updateTx", l |-> l, name |-> n, dur |-> d,
                      ents |-> {x \in DOMAIN ent : x[2] = l}]
    <3>1. Goto(p, k) /\ l \in DOMAIN plan
      BY <2>3 DEF UpdatePlan
    <3>2. /\ k.at = "updateTx" /\ k.l = l
          /\ \A x \in k.ents : x \in DOMAIN ent /\ x[2] = l
      OBVIOUS
    <3>. HIDE DEF k
    <3>. QED BY <2>1, <3>1, <3>2, HeldBegin
  <2>. QED BY <1>3, <2>2, <2>3
       DEF Arrive, CreatePlan, OnboardEmployee, DeleteApplications, Apply, Holding
<1>4. ASSUME NEW p \in Procs, Advance(p) PROVE HeldRows'
  <2>1. CASE CreatePlanRead(p)
    <3>1. CASE Finish(p)
      BY <2>1, <3>1, HeldFinish DEF CreatePlanRead
    <3>2. ASSUME NEW l \in FreshPlans,
                 Goto(p, [at |-> "planTx", name |-> req[p].name, dur |-> req[p].dur,
                          l |-> l, staff |-> DOMAIN units])
          PROVE  HeldRows'
      BY <2>1, <3>2, HeldBegin DEF CreatePlanRead
    <3>. QED BY <2>1, <3>1, <3>2 DEF CreatePlanRead
  <2>2. CASE OnboardRead(p)
    BY <2>2, HeldBegin DEF OnboardRead
  <2>3. CASE DeleteEntitlements(p)
    <3>. DEFINE k == [at |-> "deleteTx", e |-> req[p].e, apps |-> req[p].apps \cap Live,
                      ents |-> {x \in DOMAIN ent : x[1] = req[p].e}]
    <3>1. Goto(p, k) /\ UNCHANGED <<ent, plan>>
      BY <2>3 DEF DeleteEntitlements
    <3>2. k.at = "deleteTx" /\ \A x \in k.ents : x \in DOMAIN ent /\ x[1] = k.e
      OBVIOUS
    <3>. HIDE DEF k
    <3>. QED BY <3>1, <3>2, HeldBegin
  <2>4. CASE OnboardCommit(p) \/ UpdatePlanCommit(p)
    <3>1. DOMAIN ent \subseteq DOMAIN ent' /\ DOMAIN plan' = DOMAIN plan
      BY <2>4 DEF OnboardCommit, UpdatePlanCommit, Insert
    <3>. QED BY <2>4, <3>1, HeldFinish DEF OnboardCommit, UpdatePlanCommit
  <2>5. CASE ApplyFindPlan(p) \/ ApplyCheck(p) \/ ApplyCommit(p) \/ Route(p)
    <3>1. UNCHANGED <<ent, plan>>
      BY <2>5 DEF ApplyFindPlan, ApplyCheck, ApplyCommit, Route
    <3>2. Finish(p) \/ \E k : k.at \notin Holding /\ Goto(p, k)
      <4>1. CASE Route(p)
        <5>1. [req[p] EXCEPT !.unit = Following(@)].at \notin Holding
          BY <4>1, ReqFields DEF Route, HInv, At, Holding
        <5>. QED BY <4>1, <5>1 DEF Route, Finish
      <4>. QED BY <2>5, <4>1 DEF ApplyFindPlan, ApplyCheck, ApplyCommit, Holding
    <3>. QED BY <3>1, <3>2, HeldFinish, HeldElsewhere
  <2>. QED BY <1>4, <2>1, <2>2, <2>3, <2>4, <2>5, CreatePlanCommitHeld, DeleteCommitHeld
       DEF Advance
<1>. QED BY <1>1, <1>2, <1>3, <1>4 DEF Next

LEMMA SpecHInv == Spec => []HInv
<1>1. Init => HeldRows
  BY DEF Init, HeldRows, At
<1>. QED BY <1>1, InitType, NextType, NextHeld, PTL DEF Spec, HInv

-----------------------------------------------------------------------------
(* What a step may do to balances and applications.                        *)

\* What an approval does to the statuses and to the balances.
LEMMA ApproveEffect ==
  ASSUME IInv, NEW a \in Apps, Approve(a)
  PROVE  /\ a \in Live /\ KeyOf(a) \in DOMAIN ent
         /\ \A b \in DOMAIN app :
              app'[b].status = IF b = a THEN "APPROVED" ELSE app[b].status
         /\ DOMAIN ent' = DOMAIN ent
         /\ \A x \in DOMAIN ent :
              ent'[x].rem = IF x = KeyOf(a) THEN ent[x].rem - app[a].days ELSE ent[x].rem
<1>1. a \in Live /\ KeyOf(a) \in DOMAIN ent
  BY DEF Approve, Decidable, Chargeable
<1>2. app' = [app EXCEPT ![a].status = "APPROVED"]
  BY DEF Approve
<1>3. \A b \in DOMAIN app : app'[b].status = IF b = a THEN "APPROVED" ELSE app[b].status
  BY <1>2 DEF IInv, TypeOK, IsTable
<1>4. ent' = [ent EXCEPT ![KeyOf(a)].rem = @ - app[a].days]
  BY DEF Approve
<1>5. /\ DOMAIN ent' = DOMAIN ent
      /\ \A x \in DOMAIN ent :
           ent'[x].rem = IF x = KeyOf(a) THEN ent[x].rem - app[a].days ELSE ent[x].rem
  BY <1>4 DEF IInv, TypeOK, IsTable
<1>. QED BY <1>1, <1>3, <1>5

\* What a plan update does: those it had found follow the plan, others stay.
LEMMA UpdateEffect ==
  ASSUME HInv, NEW p \in Procs, UpdatePlanCommit(p)
  PROVE  /\ Committing(p, "updateTx")
         /\ req[p].l \in DOMAIN plan
         /\ DOMAIN plan' = DOMAIN plan /\ DOMAIN ent' = DOMAIN ent
         /\ \A l \in DOMAIN plan \ {req[p].l} : plan'[l] = plan[l]
         /\ plan'[req[p].l].name = Given(req[p].name, plan[req[p].l].name)
         /\ plan'[req[p].l].dur = Given(req[p].dur, plan[req[p].l].dur)
         /\ \A k \in DOMAIN ent \ req[p].ents : ent'[k] = ent[k]
         /\ \A k \in req[p].ents : /\ k \in DOMAIN ent /\ k[2] = req[p].l
                                   /\ ent'[k].name = Given(req[p].name, ent[k].name)
                                   /\ ent'[k].rem = Given(req[p].dur, ent[k].rem)
<1>. DEFINE r == req[p]
<1>1. /\ At(p, "updateTx") /\ At(p, "idle")'
      /\ r.l \in DOMAIN plan
      /\ \A k \in r.ents : k \in DOMAIN ent /\ k[2] = r.l
  BY DEF UpdatePlanCommit, Finish, Goto, At, HInv, TypeOK, HeldRows
<1>2. plan' = [plan EXCEPT ![r.l] = [name |-> Given(r.name, @.name), dur |-> Given(r.dur, @.dur)]]
  BY DEF UpdatePlanCommit
<1>3. ent' = [k \in DOMAIN ent |->
                IF k \in r.ents
                THEN [name |-> Given(r.name, ent[k].name), rem |-> Given(r.dur, ent[k].rem)]
                ELSE ent[k]]
  BY DEF UpdatePlanCommit
<1>. QED BY <1>1, <1>2, <1>3 DEF Committing

\* All steps but plan updates and approvals leave every balance alone.
LEMMA BalanceSteps ==
  ASSUME HInv, Next, NEW k \in DOMAIN ent \cap DOMAIN ent', ent'[k].rem # ent[k].rem
  PROVE  (\E p \in Procs : UpdatePlanCommit(p)) \/ (\E a \in Apps : Approve(a))
<1>1. ASSUME NEW p \in Procs, CreatePlanCommit(p) \/ OnboardCommit(p) \/ DeleteCommit(p)
      PROVE  FALSE
  BY <1>1 DEF CreatePlanCommit, OnboardCommit, DeleteCommit, Insert
<1>2. ASSUME UNCHANGED ent PROVE FALSE
  BY <1>2
<1>3. ASSUME NEW p \in Procs, Arrive(p) \/ Fail(p) PROVE FALSE
  BY <1>2, <1>3
     DEF Arrive, CreatePlan, UpdatePlan, OnboardEmployee, DeleteApplications, Apply, Fail
<1>4. ASSUME NEW p \in Procs, Advance(p) PROVE UpdatePlanCommit(p)
  BY <1>1, <1>2, <1>4 DEF Advance, CreatePlanRead, OnboardRead, ApplyFindPlan, ApplyCheck,
     ApplyCommit, Route, DeleteEntitlements
<1>5. ASSUME NEW e \in Employees, CreateEmployeeOnly(e) \/ \E U \in Placements : Place(e, U)
      PROVE  FALSE
  BY <1>2, <1>5 DEF CreateEmployeeOnly, Place
<1>6. ASSUME NEW a \in Apps, Decline(a) PROVE FALSE
  BY <1>2, <1>6 DEF Decline
<1>. QED BY <1>3, <1>4, <1>5, <1>6 DEF Next, AtOnce, Decisions

\* Days are taken by an approval of the employee's own application, by the days
\* it records, or reset by an update of the plan to what the plan grants from then
\* on, for all whose entitlement the update had found and for nobody else.
THEOREM BalancesMoveOnlySo == Spec => BalanceMovesByApprovalOrPlanUpdate
<1>1. ASSUME IInv, HInv, Next, NEW k \in DOMAIN ent \cap DOMAIN ent', ent'[k].rem # ent[k].rem
      PROVE  \/ \E a \in Live : /\ KeyOf(a) = k
                                 /\ app'[a].status = "APPROVED"
                                 /\ ent'[k].rem = ent[k].rem - app[a].days
             \/ \E p \in Procs : /\ Committing(p, "updateTx")
                                 /\ k \in req[p].ents
                                 /\ \A x \in req[p].ents :
                                      ent'[x].rem = plan'[k[2]].dur /\ x[2] = k[2]
  <2>1. ASSUME NEW a \in Apps, Approve(a)
        PROVE  /\ a \in Live /\ KeyOf(a) = k
               /\ app'[a].status = "APPROVED"
               /\ ent'[k].rem = ent[k].rem - app[a].days
    BY <1>1, <2>1, ApproveEffect DEF Live
  <2>2. ASSUME NEW p \in Procs, UpdatePlanCommit(p)
        PROVE  /\ Committing(p, "updateTx")
               /\ k \in req[p].ents
               /\ \A x \in req[p].ents : ent'[x].rem = plan'[k[2]].dur /\ x[2] = k[2]
    <3>1. k \in req[p].ents /\ k[2] = req[p].l /\ req[p].dur # Undefined
      BY <1>1, <2>2, UpdateEffect DEF Given
    <3>2. plan'[k[2]].dur = req[p].dur
      BY <1>1, <2>2, <3>1, UpdateEffect DEF Given
    <3>3. ASSUME NEW x \in req[p].ents PROVE ent'[x].rem = req[p].dur /\ x[2] = k[2]
      BY <1>1, <2>2, <3>1, UpdateEffect DEF Given
    <3>. QED BY <1>1, <2>2, <3>1, <3>2, <3>3, UpdateEffect
  <2>. QED BY <1>1, <2>1, <2>2, BalanceSteps
<1>2. IInv /\ HInv /\ [Next]_vars =>
        [\A k \in DOMAIN ent \cap DOMAIN ent' : ent'[k].rem # ent[k].rem =>
           \/ \E a \in Live : /\ KeyOf(a) = k
                              /\ app'[a].status = "APPROVED"
                              /\ ent'[k].rem = ent[k].rem - app[a].days
           \/ \E p \in Procs : /\ Committing(p, "updateTx")
                               /\ k \in req[p].ents
                               /\ \A x \in req[p].ents :
                                    ent'[x].rem = plan'[k[2]].dur /\ x[2] = k[2]]_vars
  BY <1>1
<1>. QED BY <1>2, SpecIInv, SpecHInv, PTL DEF Spec, BalanceMovesByApprovalOrPlanUpdate

\* Decisions and deletions are the only steps that touch a stored application.
LEMMA AppSteps ==
  ASSUME IInv, Next,
         \A a \in Apps : ~ Approve(a) /\ ~ Decline(a),
         \A p \in Procs : ~ DeleteCommit(p)
  PROVE  \A a \in DOMAIN app : a \in DOMAIN app' /\ app'[a] = app[a]
<1>1. CASE UNCHANGED app
  BY <1>1
<1>2. ASSUME NEW p \in Procs, ApplyCommit(p)
      PROVE  \A a \in DOMAIN app : a \in DOMAIN app' /\ app'[a] = app[a]
  BY <1>2, ApplyCommitApp DEF AppInserted
<1>3. ASSUME NEW p \in Procs, Arrive(p) \/ Fail(p)
      PROVE  UNCHANGED app
  BY <1>3 DEF Arrive, CreatePlan, UpdatePlan, OnboardEmployee, DeleteApplications, Apply, Fail
<1>4. ASSUME NEW p \in Procs, Advance(p)
      PROVE  ApplyCommit(p) \/ UNCHANGED app
  BY <1>4 DEF Advance, CreatePlanRead, CreatePlanCommit, OnboardRead, OnboardCommit,
     ApplyFindPlan, ApplyCheck, Route, UpdatePlanCommit, DeleteEntitlements
<1>5. ASSUME AtOnce PROVE UNCHANGED app
  BY <1>5 DEF AtOnce, Decisions, CreateEmployeeOnly, Place
<1>. QED BY <1>1, <1>2, <1>3, <1>4, <1>5 DEF Next

\* A deletion marks rows as deleted and does nothing else to an application.
LEMMA DeleteCommitApp ==
  ASSUME IInv, NEW p \in Procs, DeleteCommit(p), NEW a \in DOMAIN app
  PROVE  /\ app'[a].status \in {app[a].status, "DELETED"}
         /\ app[a].status = "DELETED" => app'[a] = app[a]
<1>1. app[a] \in [status : Statuses, e : Employees, l : Plans, days : Spans]
  BY DEF IInv, TypeOK, IsTable, AppRow
<1>2. app'[a] \in {app[a], [app[a] EXCEPT !.status = "DELETED"]}
  BY DEF DeleteCommit
<1>. QED BY <1>1, <1>2

\* A decline writes its own status into its own, live application.
LEMMA DeclineEffect ==
  ASSUME IInv, NEW a \in Apps, Decline(a)
  PROVE  /\ a \in Live
         /\ \A b \in DOMAIN app :
              app'[b].status = IF b = a THEN "DECLINED" ELSE app[b].status
<1>1. app' = [app EXCEPT ![a].status = "DECLINED"]
  BY DEF Decline
<1>2. \A b \in DOMAIN app : app'[b].status = IF b = a THEN "DECLINED" ELSE app[b].status
  BY <1>1 DEF IInv, TypeOK, IsTable
<1>. QED BY <1>2 DEF Decline, Decidable

\* No approval is free: whatever deletions run beside it, the step that makes an
\* application APPROVED takes its days from an entitlement that is there.
THEOREM ApprovalsAreCharged == Spec => ApprovalCharges
<1>1. ASSUME IInv, Next, NEW a \in Live, app[a].status # "APPROVED",
             app'[a].status = "APPROVED"
      PROVE  /\ KeyOf(a) \in DOMAIN ent
             /\ ent'[KeyOf(a)].rem = ent[KeyOf(a)].rem - app[a].days
  <2>1. a \in DOMAIN app /\ app[a].status # "DELETED"
    BY DEF Live
  <2>2. ~ \E b \in Apps : Decline(b)
    BY <1>1, <2>1, DeclineEffect
  <2>3. ~ \E p \in Procs : DeleteCommit(p)
    BY <1>1, <2>1, DeleteCommitApp
  <2>4. PICK b \in Apps : Approve(b)
    BY <1>1, <2>1, <2>2, <2>3, AppSteps
  <2>5. b = a
    BY <1>1, <2>1, <2>4, ApproveEffect
  <2>. QED BY <1>1, <2>4, <2>5, ApproveEffect
<1>2. IInv /\ [Next]_vars =>
        [\A a \in Live : app[a].status # "APPROVED" /\ app'[a].status = "APPROVED" =>
           /\ KeyOf(a) \in DOMAIN ent
           /\ ent'[KeyOf(a)].rem = ent[KeyOf(a)].rem - app[a].days]_vars
  BY <1>1
<1>. QED BY <1>2, SpecIInv, PTL DEF Spec, ApprovalCharges

\* Deletions are final: no step changes a deleted application, its requests or
\* the decision on them, whatever handlers still hold of it.
THEOREM DeletionsAreFinal == Spec => DeletedIsFinal
<1>1. ASSUME IInv, Next, NEW a \in DOMAIN app \ Live
      PROVE  app'[a] = app[a] /\ routed'[a] = routed[a] /\ decision'[a] = decision[a]
  <2>1. app[a].status = "DELETED" /\ a \in Apps
    BY <1>1 DEF Live, IInv, TypeOK, IsTable
  <2>2. ASSUME NEW b \in Apps, Approve(b) \/ Decline(b)
        PROVE  app'[a] = app[a] /\ routed'[a] = routed[a] /\ decision'[a] = decision[a]
    <3>1. b # a
      BY <1>1, <2>2 DEF Approve, Decline, Decidable
    <3>2. PICK v \in {"APPROVED", "DECLINED"} :
            /\ app' = [app EXCEPT ![b].status = v]
            /\ decision' = [decision EXCEPT ![b] = v]
            /\ routed' = routed
      BY <2>2 DEF Approve, Decline
    <3>3. app'[a] = app[a]
      BY <2>1, <3>1, <3>2
    <3>. QED BY <2>1, <3>1, <3>2, <3>3 DEF IInv, TypeOK
  <2>3. ASSUME NEW p \in Procs, DeleteCommit(p)
        PROVE  app'[a] = app[a] /\ routed'[a] = routed[a] /\ decision'[a] = decision[a]
    BY <1>1, <2>1, <2>3, DeleteCommitApp DEF DeleteCommit
  <2>4. ASSUME NEW p \in Procs, Route(p)
        PROVE  routed'[a] = routed[a] /\ decision'[a] = decision[a]
    <3>1. CASE UNCHANGED <<routed, decision>>
      BY <3>1
    <3>2. CASE /\ req[p].a \in Live
               /\ routed' = [routed EXCEPT ![req[p].a] = @ \cup {req[p].unit}]
               /\ decision' = IF req[p].unit = "team"
                              THEN [decision EXCEPT ![req[p].a] = "null"] ELSE decision
      BY <1>1, <2>1, <3>2 DEF IInv, TypeOK
    <3>. QED BY <2>4, <3>1, <3>2 DEF Route
  <2>5. CASE /\ \A b \in Apps : ~ Approve(b) /\ ~ Decline(b)
             /\ \A p \in Procs : ~ DeleteCommit(p)
    <3>1. app'[a] = app[a]
      BY <1>1, <2>5, AppSteps
    <3>2. UNCHANGED <<routed, decision>> \/ \E p \in Procs : Route(p)
      <4>1. ASSUME NEW p \in Procs, Arrive(p) \/ Fail(p)
            PROVE  UNCHANGED <<routed, decision>>
        BY <4>1 DEF Arrive, CreatePlan, UpdatePlan, OnboardEmployee, DeleteApplications, Apply, Fail
      <4>2. ASSUME NEW p \in Procs, Advance(p)
            PROVE  UNCHANGED <<routed, decision>> \/ Route(p)
        BY <4>2 DEF Advance, CreatePlanRead, CreatePlanCommit, OnboardRead, OnboardCommit,
           ApplyFindPlan, ApplyCheck, ApplyCommit, UpdatePlanCommit, DeleteEntitlements,
           DeleteCommit
      <4>3. ASSUME AtOnce PROVE UNCHANGED <<routed, decision>>
        BY <2>5, <4>3 DEF AtOnce, Decisions, CreateEmployeeOnly, Place
      <4>. QED BY <1>1, <4>1, <4>2, <4>3 DEF Next
    <3>. QED BY <2>4, <3>1, <3>2
  <2>. QED BY <2>2, <2>3, <2>5
<1>2. IInv /\ [Next]_vars =>
        [\A a \in DOMAIN app \ Live : /\ app'[a] = app[a]
                                      /\ routed'[a] = routed[a]
                                      /\ decision'[a] = decision[a]]_vars
  BY <1>1
<1>. QED BY <1>2, SpecIInv, PTL DEF Spec, DeletedIsFinal

\* What a step that inserts, renames or deletes does to names, and which steps may
\* change the plans or the names of entitlements at all.
LEMMA NameSteps ==
  ASSUME HInv, Next
  PROVE  \/ /\ \A k \in DOMAIN ent' : k \in DOMAIN ent /\ ent'[k].name = ent[k].name
            /\ UNCHANGED plan
         \/ \E p \in Procs : CreatePlanCommit(p) \/ UpdatePlanCommit(p) \/ OnboardCommit(p)
<1>1. CASE UNCHANGED <<ent, plan>>
  BY <1>1
<1>2. ASSUME NEW p \in Procs, Arrive(p) \/ Fail(p) PROVE UNCHANGED <<ent, plan>>
  BY <1>2
     DEF Arrive, CreatePlan, UpdatePlan, OnboardEmployee, DeleteApplications, Apply, Fail
<1>3. ASSUME NEW a \in Apps, Approve(a)
      PROVE  /\ \A k \in DOMAIN ent' : k \in DOMAIN ent /\ ent'[k].name = ent[k].name
             /\ UNCHANGED plan
  <2>1. /\ ent' = [ent EXCEPT ![KeyOf(a)].rem = @ - app[a].days] /\ plan' = plan
        /\ \A k \in DOMAIN ent : ent[k] \in EntRow
    BY <1>3 DEF Approve, HInv, TypeOK, IsTable
  <2>. QED BY <2>1
<1>4. ASSUME NEW p \in Procs, DeleteCommit(p)
      PROVE  /\ \A k \in DOMAIN ent' : k \in DOMAIN ent /\ ent'[k].name = ent[k].name
             /\ UNCHANGED plan
  BY <1>4 DEF DeleteCommit
<1>5. ASSUME NEW p \in Procs, Advance(p)
      PROVE  \/ UNCHANGED <<ent, plan>> \/ DeleteCommit(p)
             \/ CreatePlanCommit(p) \/ UpdatePlanCommit(p) \/ OnboardCommit(p)
  BY <1>5 DEF Advance, CreatePlanRead, OnboardRead, ApplyFindPlan, ApplyCheck,
     ApplyCommit, Route, DeleteEntitlements
<1>6. ASSUME AtOnce PROVE UNCHANGED <<ent, plan>> \/ \E a \in Apps : Approve(a)
  BY <1>6 DEF AtOnce, Decisions, CreateEmployeeOnly, Place, Decline
<1>. QED BY <1>1, <1>2, <1>3, <1>4, <1>5, <1>6 DEF Next

\* A plan that is created, and its entitlements with it, disturb no name, and what
\* they bring agrees.
LEMMA CreatePlanNames ==
  ASSUME HInv, NEW p \in Procs, CreatePlanCommit(p)
  PROVE  /\ \A l \in DOMAIN plan : l \in DOMAIN plan' /\ plan'[l] = plan[l]
         /\ \A k \in DOMAIN ent : ent'[k] = ent[k]
         /\ \A k \in DOMAIN ent' \ DOMAIN ent : k[2] = req[p].l /\ NameInSync(k)'
         /\ req[p].l \notin DOMAIN plan
<1>1. /\ \A l \in DOMAIN plan : l \in DOMAIN plan' /\ plan'[l] = plan[l]
      /\ \A k \in DOMAIN ent : ent'[k] = ent[k]
  BY DEF CreatePlanCommit, Insert
<1>2. req[p].l \notin DOMAIN plan
  BY DEF CreatePlanCommit, HInv, HeldRows
<1>3. req[p].l \in DOMAIN plan' /\ plan'[req[p].l].name = req[p].name
  BY <1>2 DEF CreatePlanCommit, Insert
<1>4. ASSUME NEW k \in DOMAIN ent' \ DOMAIN ent
      PROVE  k[2] = req[p].l /\ ent'[k].name = req[p].name
  BY DEF CreatePlanCommit, Insert
<1>. QED BY <1>1, <1>2, <1>3, <1>4 DEF NameInSync

\* An onboarding grants to its own employee, under the names it read.
LEMMA OnboardNames ==
  ASSUME HInv, NEW p \in Procs, OnboardCommit(p)
  PROVE  /\ Committing(p, "onboardTx") /\ UNCHANGED plan
         /\ \A k \in DOMAIN ent : k \in DOMAIN ent' /\ ent'[k] = ent[k]
         /\ \A k \in DOMAIN ent' \ DOMAIN ent :
              /\ k[1] = req[p].e /\ k[2] \in DOMAIN req[p].seen /\ k[2] \in DOMAIN plan
              /\ ent'[k].name = req[p].seen[k[2]].name
<1>1. Committing(p, "onboardTx") /\ UNCHANGED plan
  BY DEF OnboardCommit, Committing, Finish, Goto, At, HInv, TypeOK
<1>2. \A k \in DOMAIN ent : k \in DOMAIN ent' /\ ent'[k] = ent[k]
  BY DEF OnboardCommit, Insert
<1>3. \A k \in DOMAIN ent' \ DOMAIN ent :
        /\ k[1] = req[p].e /\ k[2] \in DOMAIN req[p].seen
        /\ ent'[k].name = req[p].seen[k[2]].name
  BY DEF OnboardCommit, Insert
<1>4. DOMAIN req[p].seen \subseteq DOMAIN plan
  BY <1>1 DEF HInv, HeldRows, Committing
<1>. QED BY <1>1, <1>2, <1>3, <1>4

\* The name an entitlement copies from its plan agrees with the plan until an update
\* commits that had not found it, and from the start unless its onboarding had read
\* the plan before a renaming.
THEOREM NamesFollowThePlan == Spec => NamesDriftOnlyUnseen
<1>1. ASSUME HInv, Next, NEW k \in DOMAIN ent', k \in DOMAIN ent => NameInSync(k),
             ~ NameInSync(k)'
      PROVE  \E p \in Procs :
               \/ /\ Committing(p, "updateTx")
                  /\ k \in DOMAIN ent /\ req[p].l = k[2] /\ k \notin req[p].ents
               \/ /\ Committing(p, "onboardTx")
                  /\ k \notin DOMAIN ent /\ req[p].e = k[1]
                  /\ req[p].seen[k[2]].name # plan[k[2]].name
  <2>1. CASE /\ \A x \in DOMAIN ent' : x \in DOMAIN ent /\ ent'[x].name = ent[x].name
             /\ UNCHANGED plan
    BY <1>1, <2>1 DEF NameInSync
  <2>2. ASSUME NEW p \in Procs, CreatePlanCommit(p) PROVE FALSE
    BY <1>1, <2>2, CreatePlanNames DEF NameInSync
  <2>3. ASSUME NEW p \in Procs, UpdatePlanCommit(p)
        PROVE  /\ Committing(p, "updateTx")
               /\ k \in DOMAIN ent /\ req[p].l = k[2] /\ k \notin req[p].ents
    BY <1>1, <2>3, UpdateEffect DEF NameInSync
  <2>4. ASSUME NEW p \in Procs, OnboardCommit(p)
        PROVE  /\ Committing(p, "onboardTx")
               /\ k \notin DOMAIN ent /\ req[p].e = k[1]
               /\ req[p].seen[k[2]].name # plan[k[2]].name
    BY <1>1, <2>4, OnboardNames DEF NameInSync
  <2>. QED BY <1>1, <2>1, <2>2, <2>3, <2>4, NameSteps
<1>2. HInv /\ [Next]_vars =>
        [\A k \in DOMAIN ent' : (k \in DOMAIN ent => NameInSync(k)) /\ ~ NameInSync(k)' =>
           \E p \in Procs :
             \/ /\ Committing(p, "updateTx")
                /\ k \in DOMAIN ent /\ req[p].l = k[2] /\ k \notin req[p].ents
             \/ /\ Committing(p, "onboardTx")
                /\ k \notin DOMAIN ent /\ req[p].e = k[1]
                /\ req[p].seen[k[2]].name # plan[k[2]].name]_vars
  BY <1>1
<1>. QED BY <1>2, SpecHInv, PTL DEF Spec, NamesDriftOnlyUnseen

\* No update of a plan is open while an onboarding goes by plans it has read.
UpdatesApart == \A p, q \in Procs : At(p, "updateTx") => ~ At(q, "onboardTx")

NamesInSync == \A k \in DOMAIN ent : NameInSync(k)

\* As long as they keep apart, an update has found all entitlements of its plan and
\* an onboarding knows the plans by their names.
SyncInv ==
  /\ NamesInSync
  /\ \A p \in Procs : At(p, "updateTx") => \A k \in DOMAIN ent : k[2] = req[p].l => k \in req[p].ents
  /\ \A p \in Procs : At(p, "onboardTx") =>
       \A l \in DOMAIN req[p].seen : req[p].seen[l].name = plan[l].name

\* Which rows a handler comes to hold in a step.
LEMMA HeldBefore ==
  ASSUME HInv, Next, NEW q \in Procs
  PROVE  /\ At(q, "updateTx")' =>
              \/ /\ At(q, "updateTx") /\ req'[q].l = req[q].l
                 /\ \A k \in req[q].ents : k \in DOMAIN ent' => k \in req'[q].ents
              \/ UNCHANGED ent /\ req'[q].ents = {k \in DOMAIN ent : k[2] = req'[q].l}
         /\ At(q, "onboardTx")' =>
              \/ At(q, "onboardTx") /\ req'[q] = req[q]
              \/ UNCHANGED plan /\ req'[q].seen = plan
<1>. DEFINE P == /\ At(q, "updateTx")' =>
                      \/ /\ At(q, "updateTx") /\ req'[q].l = req[q].l
                         /\ \A k \in req[q].ents : k \in DOMAIN ent' => k \in req'[q].ents
                      \/ UNCHANGED ent /\ req'[q].ents = {k \in DOMAIN ent : k[2] = req'[q].l}
                 /\ At(q, "onboardTx")' =>
                      \/ At(q, "onboardTx") /\ req'[q] = req[q]
                      \/ UNCHANGED plan /\ req'[q].seen = plan
<1>1. CASE req'[q] = req[q]
  BY <1>1 DEF At
<1>2. ASSUME NEW k, NEW p \in Procs, Goto(p, k), k.at \notin {"updateTx", "onboardTx"}
      PROVE  P
  BY <1>1, <1>2 DEF Goto, At, HInv, TypeOK
<1>3. ASSUME NEW p \in Procs, Finish(p) PROVE P
  BY <1>2, <1>3 DEF Finish
<1>4. ASSUME NEW p \in Procs, NEW l \in Plans, NEW n, NEW d, UpdatePlan(p, l, n, d) PROVE P
  BY <1>1, <1>4 DEF UpdatePlan, Goto, At, HInv, TypeOK
<1>5. ASSUME NEW p \in Procs, OnboardRead(p) PROVE P
  BY <1>1, <1>5 DEF OnboardRead, Goto, At, HInv, TypeOK
<1>6. ASSUME NEW p \in Procs, DeleteCommit(p) PROVE P
  <2>1. CASE q = p
    BY <1>6, <2>1 DEF DeleteCommit, At
  <2>2. CASE q # p
    <3>. DEFINE K == req[p].ents
    <3>1. req'[q] = Without(req[q], K) /\ DOMAIN ent' = DOMAIN ent \ K
      BY <1>6, <2>2 DEF DeleteCommit
    <3>2. TypeOK
      BY DEF HInv
    <3>3. /\ Without(req[q], K).at = req[q].at
          /\ ~ At(q, "updateTx") /\ ~ At(q, "deleteTx") => Without(req[q], K) = req[q]
          /\ At(q, "updateTx") => /\ Without(req[q], K).l = req[q].l
                                  /\ Without(req[q], K).ents = req[q].ents \ K
      BY <3>2, WithoutType
    <3>. QED BY <3>1, <3>3 DEF At
  <2>. QED BY <2>1, <2>2
<1>7. CASE AtOnce
  BY <1>1, <1>7 DEF AtOnce, Decisions, CreateEmployeeOnly, Place, Approve, Decline
<1>8. ASSUME NEW p \in Procs, Arrive(p) \/ Fail(p) PROVE P
  <2>1. \/ \E k : k.at \notin {"updateTx", "onboardTx"} /\ Goto(p, k)
        \/ Finish(p)
        \/ \E l \in Plans, n \in Names \cup {Undefined}, d \in Durations \cup {Undefined} :
             UpdatePlan(p, l, n, d)
    BY <1>8 DEF Arrive, CreatePlan, OnboardEmployee, DeleteApplications, Apply, Fail
  <2>. QED BY <1>2, <1>3, <1>4, <2>1
<1>9. ASSUME NEW p \in Procs, Advance(p) PROVE P
  <2>1. CASE Route(p)
    <3>1. [req[p] EXCEPT !.unit = Following(@)].at \notin {"updateTx", "onboardTx"}
      BY <2>1, ReqFields DEF Route, HInv, At
    <3>2. Finish(p) \/ Goto(p, [req[p] EXCEPT !.unit = Following(@)])
      BY <2>1 DEF Route, Finish
    <3>. QED BY <1>2, <1>3, <3>1, <3>2
  <2>2. CASE CreatePlanRead(p) \/ ApplyFindPlan(p) \/ ApplyCheck(p) \/ ApplyCommit(p)
             \/ DeleteEntitlements(p)
    <3>1. Finish(p) \/ \E k : k.at \notin {"updateTx", "onboardTx"} /\ Goto(p, k)
      <4>1. CASE ApplyCommit(p)
        BY <4>1, ApplyCommitApp DEF AppInserted, Goto
      <4>. QED BY <2>2, <4>1 DEF CreatePlanRead, ApplyFindPlan, ApplyCheck, DeleteEntitlements
    <3>. QED BY <1>2, <1>3, <3>1
  <2>. QED BY <1>3, <1>5, <1>6, <1>9, <2>1, <2>2
       DEF Advance, CreatePlanCommit, OnboardCommit, UpdatePlanCommit
<1>. QED BY <1>7, <1>8, <1>9 DEF Next

LEMMA NextSync == HInv /\ SyncInv /\ UpdatesApart /\ UpdatesApart' /\ [Next]_vars => SyncInv'
<1>. SUFFICES ASSUME HInv, SyncInv, UpdatesApart, UpdatesApart', Next PROVE SyncInv'
  BY DEF vars, SyncInv, NamesInSync, NameInSync, At
<1>1. ASSUME NEW k \in DOMAIN ent' PROVE NameInSync(k)'
  <2>1. CASE /\ \A x \in DOMAIN ent' : x \in DOMAIN ent /\ ent'[x].name = ent[x].name
             /\ UNCHANGED plan
    BY <2>1 DEF SyncInv, NamesInSync, NameInSync
  <2>2. ASSUME NEW p \in Procs, CreatePlanCommit(p) PROVE NameInSync(k)'
    BY <2>2, CreatePlanNames DEF SyncInv, NamesInSync, NameInSync
  <2>3. ASSUME NEW p \in Procs, UpdatePlanCommit(p) PROVE NameInSync(k)'
    BY <2>3, UpdateEffect DEF SyncInv, NamesInSync, NameInSync, Committing
  <2>4. ASSUME NEW p \in Procs, OnboardCommit(p) PROVE NameInSync(k)'
    BY <2>4, OnboardNames DEF SyncInv, NamesInSync, NameInSync, Committing
  <2>. QED BY <2>1, <2>2, <2>3, <2>4, NameSteps
<1>2. ASSUME NEW q \in Procs, At(q, "updateTx")', NEW k \in DOMAIN ent', k[2] = req'[q].l
      PROVE  k \in req'[q].ents
  <2>1. CASE UNCHANGED ent /\ req'[q].ents = {x \in DOMAIN ent : x[2] = req'[q].l}
    BY <1>2, <2>1
  <2>2. CASE /\ At(q, "updateTx") /\ req'[q].l = req[q].l
             /\ \A x \in req[q].ents : x \in DOMAIN ent' => x \in req'[q].ents
    <3>1. req[q].l \in DOMAIN plan
      BY <2>2 DEF HInv, HeldRows
    <3>2. CASE k \in DOMAIN ent
      BY <1>2, <2>2, <3>2 DEF SyncInv
    <3>3. CASE k \notin DOMAIN ent
      <4>1. ASSUME NEW p \in Procs, CreatePlanCommit(p) PROVE FALSE
        BY <1>2, <2>2, <3>1, <3>3, <4>1, CreatePlanNames
      <4>2. ASSUME NEW p \in Procs, UpdatePlanCommit(p) PROVE FALSE
        BY <3>3, <4>2, UpdateEffect
      <4>3. ASSUME NEW p \in Procs, OnboardCommit(p) PROVE FALSE
        BY <2>2, <4>3, OnboardNames DEF UpdatesApart, Committing
      <4>. QED BY <3>3, <4>1, <4>2, <4>3, NameSteps
    <3>. QED BY <3>2, <3>3
  <2>. QED BY <1>2, <2>1, <2>2, HeldBefore
<1>3. ASSUME NEW q \in Procs, At(q, "onboardTx")', NEW l \in DOMAIN req'[q].seen
      PROVE  req'[q].seen[l].name = plan'[l].name
  <2>1. CASE UNCHANGED plan /\ req'[q].seen = plan
    BY <2>1
  <2>2. CASE At(q, "onboardTx") /\ req'[q] = req[q]
    <3>1. l \in DOMAIN plan /\ req[q].seen[l].name = plan[l].name
      BY <1>3, <2>2 DEF HInv, HeldRows, SyncInv
    <3>2. ASSUME NEW p \in Procs, UpdatePlanCommit(p) PROVE FALSE
      BY <2>2, <3>2, UpdateEffect DEF UpdatesApart, Committing
    <3>3. UNCHANGED plan \/ plan'[l] = plan[l]
      BY <3>1, <3>2, NameSteps, CreatePlanNames, OnboardNames
    <3>. QED BY <2>2, <3>1, <3>3
  <2>. QED BY <1>3, <2>1, <2>2, HeldBefore
<1>. QED BY <1>1, <1>2, <1>3 DEF SyncInv, NamesInSync

\* As long as no update of a plan overlaps the grants of an onboarding, every
\* entitlement carries its plan's name.
THEOREM NamesInSyncWhenApart == Spec /\ []UpdatesApart => []NamesInSync
<1>1. Init => SyncInv
  BY DEF Init, SyncInv, NamesInSync, At
<1>2. SyncInv => NamesInSync
  BY DEF SyncInv
<1>. QED BY <1>1, <1>2, SpecHInv, NextSync, PTL DEF Spec

-----------------------------------------------------------------------------
(* Leave implements LeaveLedger.  Besides IInv this needs to know exactly   *)
(* who has been asked when a handler asks the next unit, and that an open   *)
(* deletion holds applications of the employee whose balances it takes.     *)
(* That it holds only that employee's balances is part of HInv.             *)

AskedBefore == \A p \in Procs : At(p, "route") => routed[req[p].a] = Ledger!Before(req[p].unit)

DeletionsOwn ==
  \A p \in Procs : At(p, "deleteFound") \/ At(p, "deleteTx") =>
    \A a \in req[p].apps : a \in DOMAIN app /\ app[a].e = req[p].e

LInv == AskedBefore /\ DeletionsOwn

\* Whose application it is, for which plan and for how long never changes.
ClaimsStay ==
  \A a \in DOMAIN app : a \in DOMAIN app' /\ app'[a] \in [status : {app'[a].status}, e : {app[a].e},
                                                         l : {app[a].l}, days : {app[a].days}]

LEMMA ApplicationsStay == IInv /\ [Next]_vars => ClaimsStay
<1>. SUFFICES ASSUME IInv, [Next]_vars PROVE ClaimsStay
  OBVIOUS
<1>1. \A a \in DOMAIN app : app[a] \in AppRow
  BY DEF IInv, TypeOK, IsTable
<1>2. CASE \A a \in DOMAIN app : a \in DOMAIN app' /\ app'[a] = app[a]
  BY <1>1, <1>2 DEF ClaimsStay
<1>3. ASSUME NEW a \in Apps, Approve(a) \/ Decline(a) PROVE ClaimsStay
  <2>1. PICK v \in Statuses : app' = [app EXCEPT ![a].status = v]
    BY <1>3 DEF Approve, Decline
  <2>. QED BY <1>1, <2>1 DEF ClaimsStay
<1>4. ASSUME NEW p \in Procs, DeleteCommit(p) PROVE ClaimsStay
  BY <1>1, <1>4 DEF DeleteCommit, ClaimsStay
<1>. QED BY <1>2, <1>3, <1>4, AppSteps DEF vars

\* A step after which no other handler routes or deletes than before.
LEMMA LInvFrame ==
  ASSUME LInv, ClaimsStay, UNCHANGED routed,
         \A p \in Procs : At(p, "route")' \/ At(p, "deleteFound")' \/ At(p, "deleteTx")' =>
                          req'[p] = req[p]
  PROVE  LInv'
<1>1. \A p \in Procs : At(p, "route")' => At(p, "route") /\ req'[p] = req[p]
  BY DEF At
<1>2. \A p \in Procs : At(p, "deleteFound")' \/ At(p, "deleteTx")' =>
        (At(p, "deleteFound") \/ At(p, "deleteTx")) /\ req'[p] = req[p]
  BY DEF At
<1>3. AskedBefore'
  BY <1>1 DEF LInv, AskedBefore, Ledger!Before
<1>4. DeletionsOwn'
  BY <1>2 DEF LInv, DeletionsOwn, ClaimsStay
<1>. QED BY <1>3, <1>4 DEF LInv

LEMMA LInvElsewhere ==
  ASSUME IInv, LInv, ClaimsStay, UNCHANGED routed,
         NEW p \in Procs, NEW k, k.at \notin {"route", "deleteFound", "deleteTx"}, Goto(p, k)
  PROVE  LInv'
<1>1. \A q \in Procs : At(q, "route")' \/ At(q, "deleteFound")' \/ At(q, "deleteTx")' =>
        req'[q] = req[q]
  BY DEF At, Goto, IInv, TypeOK
<1>. QED BY <1>1, LInvFrame

\* The first statement finds applications of its employee, the second keeps some.
LEMMA DeleteFindsLInv ==
  ASSUME IInv, LInv, ClaimsStay, NEW p \in Procs,
         DeleteEntitlements(p) \/ \E e \in Employees : DeleteApplications(p, e)
  PROVE  LInv'
<1>1. /\ UNCHANGED <<app, routed>>
      /\ \A q \in Procs \ {p} : req'[q] = req[q]
      /\ req'[p].at \in {"deleteFound", "deleteTx"}
      /\ \A a \in req'[p].apps : a \in DOMAIN app /\ app[a].e = req'[p].e
  <2>1. ASSUME NEW e \in Employees, DeleteApplications(p, e)
        PROVE  /\ UNCHANGED <<app, routed>>
               /\ req' = [req EXCEPT ![p] = [at |-> "deleteFound", e |-> e,
                                             apps |-> {a \in Live : app[a].e = e}]]
    BY <2>1 DEF DeleteApplications, Goto
  <2>2. ASSUME DeleteEntitlements(p)
        PROVE  /\ UNCHANGED <<app, routed>>
               /\ req' = [req EXCEPT ![p] = [at |-> "deleteTx", e |-> req[p].e,
                                             apps |-> req[p].apps \cap Live,
                                             ents |-> {k \in DOMAIN ent : k[1] = req[p].e}]]
               /\ \A a \in req[p].apps : a \in DOMAIN app /\ app[a].e = req[p].e
    BY <2>2 DEF DeleteEntitlements, Goto, LInv, DeletionsOwn
  <2>. QED BY <2>1, <2>2 DEF IInv, TypeOK, Live
<1>2. \A q \in Procs : At(q, "route")' => At(q, "route") /\ req'[q] = req[q]
  BY <1>1 DEF At
<1>3. AskedBefore'
  BY <1>1, <1>2 DEF LInv, AskedBefore, Ledger!Before
<1>4. DeletionsOwn'
  BY <1>1 DEF LInv, DeletionsOwn, At
<1>. QED BY <1>3, <1>4 DEF LInv

\* What the others had found of applications is theirs still.
LEMMA DeleteCommitLInv ==
  ASSUME IInv, LInv, ClaimsStay, NEW p \in Procs, DeleteCommit(p)
  PROVE  LInv'
<1>. DEFINE K == req[p].ents
<1>1. /\ UNCHANGED routed
      /\ req'[p].at = "idle"
      /\ \A q \in Procs \ {p} : req'[q] = Without(req[q], K)
  BY DEF DeleteCommit
<1>2. ASSUME NEW q \in Procs \ {p}
      PROVE  /\ Without(req[q], K).at = req[q].at
             /\ ~ At(q, "updateTx") /\ ~ At(q, "deleteTx") => Without(req[q], K) = req[q]
             /\ At(q, "deleteTx") => /\ Without(req[q], K).e = req[q].e
                                     /\ Without(req[q], K).apps = req[q].apps
  <2>1. TypeOK
    BY DEF IInv
  <2>. QED BY <2>1, WithoutType
<1>3. \A q \in Procs : At(q, "route")' => At(q, "route") /\ req'[q] = req[q]
  BY <1>1, <1>2 DEF At
<1>4. ASSUME NEW q \in Procs, At(q, "deleteFound")' \/ At(q, "deleteTx")'
      PROVE  /\ At(q, "deleteFound") \/ At(q, "deleteTx")
             /\ req'[q].e = req[q].e /\ req'[q].apps = req[q].apps
  BY <1>1, <1>2, <1>4 DEF At
<1>5. AskedBefore'
  BY <1>1, <1>3 DEF LInv, AskedBefore, Ledger!Before
<1>6. DeletionsOwn'
  BY <1>4 DEF LInv, DeletionsOwn, ClaimsStay
<1>. QED BY <1>5, <1>6 DEF LInv

LEMMA ApplyCommitLInv ==
  ASSUME IInv, LInv, ClaimsStay, NEW p \in Procs, ApplyCommit(p)
  PROVE  LInv'
<1>1. UNCHANGED routed
  BY DEF ApplyCommit
<1>2. CASE Finish(p)
  BY <1>1, <1>2, LInvElsewhere DEF Finish
<1>3. ASSUME NEW a \in Apps, AppInserted(p, a) PROVE LInv'
  <2>1. /\ \A q \in Procs \ {p} : req'[q] = req[q]
        /\ req'[p].at = "route" /\ req'[p].a = a /\ req'[p].unit = "team"
        /\ routed[a] = {}
    BY <1>3 DEF AppInserted, IInv, TypeOK, Routing, UnusedIds
  <2>2. AskedBefore'
    BY <1>1, <2>1 DEF LInv, AskedBefore, At, Ledger!Before
  <2>3. DeletionsOwn'
    BY <2>1 DEF LInv, DeletionsOwn, At, ClaimsStay
  <2>. QED BY <2>2, <2>3 DEF LInv
<1>. QED BY <1>2, <1>3, ApplyCommitApp

\* The handler that asks a unit goes on to the one that is asked after it.
LEMMA RouteLInv ==
  ASSUME IInv, LInv, ClaimsStay, NEW p \in Procs, Route(p)
  PROVE  LInv'
<1>. DEFINE a == req[p].a
            unit == req[p].unit
<1>1. /\ a \in Apps /\ unit \in Units /\ routed[a] = Ledger!Before(unit)
      /\ req[p] = [at |-> "route", a |-> a, units |-> req[p].units, unit |-> unit]
      /\ \A q \in Procs : At(q, "route") /\ req[q].a = a => q = p
  BY ReqFields DEF Route, IInv, LInv, AskedBefore, Routing, RoutingIsPrivate
<1>2. CASE Finish(p) /\ UNCHANGED routed
  BY <1>2, LInvElsewhere DEF Finish
<1>3. CASE /\ routed' = [routed EXCEPT ![a] = @ \cup {unit}]
           /\ Goto(p, IF Following(unit) = "none" THEN Idle
                                                  ELSE [req[p] EXCEPT !.unit = Following(@)])
  <2>1. /\ \A q \in Procs \ {p} : req'[q] = req[q]
        /\ At(p, "route")' => /\ req'[p].a = a
                              /\ <<unit, req'[p].unit>> \in {<<"team", "branch">>, <<"branch", "dept">>}
        /\ ~ At(p, "deleteFound")' /\ ~ At(p, "deleteTx")'
    BY <1>1, <1>3 DEF Goto, Following, At, IInv, TypeOK
  <2>2. \A b \in Apps : routed'[b] = IF b = a THEN routed[a] \cup {unit} ELSE routed[b]
    BY <1>3 DEF IInv, TypeOK
  <2>3. ASSUME NEW q \in Procs, At(q, "route")'
        PROVE  routed'[req'[q].a] = Ledger!Before(req'[q].unit)
    <3>1. CASE q = p
      BY <1>1, <2>1, <2>2, <2>3, <3>1 DEF Ledger!Before
    <3>2. CASE q # p
      <4>1. At(q, "route") /\ req'[q] = req[q] /\ req[q].a # a /\ req[q].a \in Apps
        BY <1>1, <2>1, <2>3, <3>2, ReqFields DEF At, IInv
      <4>. QED BY <2>2, <4>1 DEF LInv, AskedBefore
    <3>. QED BY <3>1, <3>2
  <2>4. DeletionsOwn'
    BY <2>1 DEF LInv, DeletionsOwn, At, ClaimsStay
  <2>5. AskedBefore'
    BY <2>3 DEF AskedBefore, Ledger!Before
  <2>. QED BY <2>4, <2>5 DEF LInv
<1>. QED BY <1>2, <1>3 DEF Route

LEMMA NextLInv == IInv /\ LInv /\ [Next]_vars => LInv'
<1>. SUFFICES ASSUME IInv, LInv, [Next]_vars PROVE LInv'
  OBVIOUS
<1>1. ClaimsStay
  BY ApplicationsStay
<1>2. CASE AtOnce \/ UNCHANGED vars
  <2>1. UNCHANGED <<routed, req>>
    BY <1>2 DEF AtOnce, Decisions, CreateEmployeeOnly, Place, Approve, Decline, vars
  <2>. QED BY <1>1, <2>1, LInvFrame
<1>3. ASSUME NEW p \in Procs, Arrive(p) \/ Fail(p) PROVE LInv'
  <2>1. UNCHANGED routed
    BY <1>3
       DEF Arrive, CreatePlan, UpdatePlan, OnboardEmployee, DeleteApplications, Apply, Fail
  <2>2. \/ \E e \in Employees : DeleteApplications(p, e)
        \/ \E k : k.at \notin {"route", "deleteFound", "deleteTx"} /\ Goto(p, k)
    BY <1>3 DEF Arrive, CreatePlan, UpdatePlan, OnboardEmployee, Apply, Fail, Finish
  <2>. QED BY <1>1, <2>1, <2>2, LInvElsewhere, DeleteFindsLInv
<1>4. ASSUME NEW p \in Procs, Advance(p) PROVE LInv'
  <2>1. CASE ApplyCommit(p) \/ Route(p) \/ DeleteEntitlements(p) \/ DeleteCommit(p)
    BY <1>1, <2>1, ApplyCommitLInv, RouteLInv, DeleteFindsLInv, DeleteCommitLInv
  <2>2. CASE \/ CreatePlanRead(p) \/ CreatePlanCommit(p) \/ OnboardRead(p) \/ OnboardCommit(p)
             \/ ApplyFindPlan(p) \/ ApplyCheck(p) \/ UpdatePlanCommit(p)
    <3>1. UNCHANGED routed
      BY <2>2 DEF CreatePlanRead, CreatePlanCommit, OnboardRead, OnboardCommit, ApplyFindPlan,
         ApplyCheck, UpdatePlanCommit
    <3>2. \E k : k.at \notin {"route", "deleteFound", "deleteTx"} /\ Goto(p, k)
      BY <2>2 DEF CreatePlanRead, CreatePlanCommit, OnboardRead, OnboardCommit, ApplyFindPlan,
         ApplyCheck, UpdatePlanCommit, Finish
    <3>. QED BY <1>1, <3>1, <3>2, LInvElsewhere
  <2>. QED BY <1>4, <2>1, <2>2 DEF Advance
<1>. QED BY <1>2, <1>3, <1>4 DEF Next

LEMMA SpecLInv == Spec => [](IInv /\ HInv /\ LInv)
<1>1. Init => LInv
  BY DEF Init, LInv, AskedBefore, DeletionsOwn, At
<1>. QED BY <1>1, InitIInv, NextIInv, NextLInv, SpecHInv, PTL DEF Spec

LEMMA RefinesInit == Init => Ledger!Init
  BY DEF Init, Ledger!Init, BalanceOf, ClaimOf

\* What the ledger sees of a step is how the three tables look to it.
LEMMA SameLedger ==
  ASSUME UNCHANGED <<ent, app, routed>>
  PROVE  UNCHANGED Ledger!vars
  BY DEF Ledger!vars, BalanceOf, ClaimOf, KeyOf

\* Steps that read, place employees, or end a handler.
LEMMA ReadingRefines ==
  ASSUME NEW p \in Procs,
         Arrive(p) \/ Fail(p) \/ CreatePlanRead(p) \/ OnboardRead(p) \/ ApplyFindPlan(p)
           \/ ApplyCheck(p) \/ DeleteEntitlements(p)
  PROVE  UNCHANGED Ledger!vars
<1>1. UNCHANGED <<ent, app, routed>>
  BY DEF Arrive, CreatePlan, UpdatePlan, OnboardEmployee, DeleteApplications, Apply, Fail,
     CreatePlanRead, OnboardRead, ApplyFindPlan, ApplyCheck, DeleteEntitlements
<1>. QED BY <1>1, SameLedger

\* Rows added to the entitlements are granted.
LEMMA GrantRefines ==
  ASSUME NEW K \in SUBSET (Employees \X Plans), DOMAIN ent' = DOMAIN ent \cup K,
         \A k \in DOMAIN ent : ent'[k] = ent[k],
         \A k \in K \ DOMAIN ent : ent'[k].rem \in Durations,
         UNCHANGED <<app, routed>>
  PROVE  Ledger!Next
<1>. DEFINE L == K \ DOMAIN ent
            more == [k \in L |-> ent'[k].rem]
<1>1. /\ L \in SUBSET Ledger!Entitlements /\ more \in [L -> Durations]
      /\ L \cap DOMAIN BalanceOf = {}
  BY DEF Ledger!Entitlements, BalanceOf
<1>2. BalanceOf' = [k \in DOMAIN BalanceOf \cup L |-> IF k \in L THEN more[k] ELSE BalanceOf[k]]
  BY DEF BalanceOf
<1>3. UNCHANGED <<ClaimOf, routed>>
  BY DEF ClaimOf, KeyOf
<1>4. Ledger!Grant(L, more)
  BY <1>1, <1>2, <1>3 DEF Ledger!Grant
<1>. QED BY <1>1, <1>4 DEF Ledger!Next

LEMMA CreatePlanCommitRefines ==
  ASSUME IInv, NEW p \in Procs, CreatePlanCommit(p)
  PROVE  Ledger!Next
<1>. DEFINE K == req[p].staff \X {req[p].l}
<1>1. K \in SUBSET (Employees \X Plans) /\ req[p].dur \in Durations
  BY ReqFields DEF CreatePlanCommit, IInv
<1>2. /\ DOMAIN ent' = DOMAIN ent \cup K
      /\ \A k \in DOMAIN ent : ent'[k] = ent[k]
      /\ \A k \in K \ DOMAIN ent : ent'[k].rem = req[p].dur
  BY DEF CreatePlanCommit, Insert
<1>3. UNCHANGED <<app, routed>>
  BY DEF CreatePlanCommit
<1>. QED BY <1>1, <1>2, <1>3, GrantRefines

LEMMA OnboardCommitRefines ==
  ASSUME IInv, NEW p \in Procs, OnboardCommit(p)
  PROVE  Ledger!Next \/ UNCHANGED Ledger!vars
<1>. DEFINE K == {req[p].e} \X DOMAIN req[p].seen
<1>1. /\ K \in SUBSET (Employees \X Plans)
      /\ \A k \in K : k[2] \in DOMAIN req[p].seen /\ req[p].seen[k[2]].dur \in Durations
  <2>1. /\ req[p].e \in Employees /\ DOMAIN req[p].seen \subseteq Plans
        /\ \A l \in DOMAIN req[p].seen : req[p].seen[l] \in PlanRow
    BY ReqFields, PlanTable DEF OnboardCommit, IInv, IsTable
  <2>. QED BY <2>1
<1>2. UNCHANGED <<app, routed>>
  BY DEF OnboardCommit
<1>3. CASE UNCHANGED ent
  BY <1>2, <1>3, SameLedger
<1>4. CASE ~ UNCHANGED ent
  <2>1. /\ DOMAIN ent' = DOMAIN ent \cup K
        /\ \A k \in DOMAIN ent : ent'[k] = ent[k]
        /\ \A k \in K \ DOMAIN ent : ent'[k].rem = req[p].seen[k[2]].dur
    BY <1>4 DEF OnboardCommit, Insert
  <2>. QED BY <1>1, <1>2, <2>1, GrantRefines
<1>. QED BY <1>3, <1>4

\* A plan update renews what it had found; one without days is none of the ledger's
\* business.
LEMMA UpdatePlanRefines ==
  ASSUME IInv, HInv, NEW p \in Procs, UpdatePlanCommit(p)
  PROVE  Ledger!Next \/ UNCHANGED Ledger!vars
<1>. DEFINE l == req[p].l
            d == req[p].dur
            K == req[p].ents
<1>1. UNCHANGED <<ClaimOf, routed>>
  BY DEF UpdatePlanCommit, ClaimOf, KeyOf
<1>2. /\ DOMAIN ent' = DOMAIN ent
      /\ \A k \in DOMAIN ent : ent'[k].rem = IF k \in K THEN Given(d, ent[k].rem) ELSE ent[k].rem
      /\ \A k \in K : k \in DOMAIN ent /\ k[2] = l
  BY UpdateEffect
<1>3. l \in Plans /\ d \in Durations \cup {Undefined}
  BY ReqFields DEF UpdatePlanCommit, IInv
<1>4. CASE d = Undefined
  <2>1. BalanceOf' = BalanceOf
    BY <1>2, <1>4 DEF BalanceOf, Given
  <2>. QED BY <1>1, <2>1 DEF Ledger!vars
<1>5. CASE d # Undefined
  <2>1. BalanceOf' = [k \in DOMAIN BalanceOf |-> IF k \in K THEN d ELSE BalanceOf[k]]
    BY <1>2, <1>5 DEF BalanceOf, Given
  <2>2. d \in Durations /\ K \in SUBSET DOMAIN BalanceOf
    BY <1>2, <1>3, <1>5 DEF BalanceOf
  <2>3. Ledger!Renew(l, d, K)
    BY <1>1, <1>2, <2>1 DEF Ledger!Renew
  <2>. QED BY <1>3, <2>2, <2>3 DEF Ledger!Next
<1>. QED BY <1>4, <1>5

LEMMA ApplyCommitRefines ==
  ASSUME IInv, NEW p \in Procs, ApplyCommit(p)
  PROVE  Ledger!Next \/ UNCHANGED Ledger!vars
<1>. DEFINE k == <<req[p].e, req[p].l>>
            days == req[p].days
<1>1. k \in Employees \X Plans /\ days \in Spans /\ UNCHANGED <<ent, routed>>
  BY ReqFields DEF ApplyCommit, IInv
<1>2. CASE UNCHANGED app
  BY <1>1, <1>2, SameLedger
<1>3. ASSUME k \in DOMAIN ent, NEW a \in Apps, AppInserted(p, a)
      PROVE  Ledger!Next
  <2>1. /\ a \notin DOMAIN ClaimOf /\ k \in DOMAIN BalanceOf
        /\ UNCHANGED <<BalanceOf, routed>>
    BY <1>1, <1>3 DEF AppInserted, ClaimOf, BalanceOf
  <2>2. ClaimOf' = [b \in DOMAIN ClaimOf \cup {a} |->
                      IF b = a THEN [of |-> k, days |-> days, status |-> "PENDING"]
                               ELSE ClaimOf[b]]
    <3>1. /\ DOMAIN app' = DOMAIN app \cup {a} /\ a \notin DOMAIN app
          /\ \A b \in DOMAIN app : app'[b] = app[b]
          /\ app'[a] = [status |-> "PENDING", e |-> req[p].e, l |-> req[p].l, days |-> days]
      BY <1>3 DEF AppInserted
    <3>. QED BY <3>1 DEF ClaimOf, KeyOf
  <2>3. Ledger!Submit(a, k, days)
    BY <2>1, <2>2 DEF Ledger!Submit
  <2>. QED BY <1>1, <2>3 DEF Ledger!Next, Ledger!Entitlements
<1>4. UNCHANGED app \/ (k \in DOMAIN ent /\ \E a \in Apps : AppInserted(p, a))
  BY DEF ApplyCommit, AppInserted, Insert, Goto
<1>. QED BY <1>2, <1>3, <1>4

LEMMA StandingIsLive == Ledger!Standing = Live
  BY DEF Ledger!Standing, Live, ClaimOf

LEMMA RouteRefines ==
  ASSUME IInv, LInv, NEW p \in Procs, Route(p)
  PROVE  Ledger!Next \/ UNCHANGED Ledger!vars
<1>. DEFINE a == req[p].a
            unit == req[p].unit
<1>1. a \in Apps /\ unit \in Units /\ UNCHANGED <<ent, app>>
  BY ReqFields DEF Route, IInv
<1>2. CASE UNCHANGED routed
  BY <1>1, <1>2, SameLedger
<1>3. CASE a \in Live /\ routed' = [routed EXCEPT ![a] = @ \cup {unit}]
  <2>1. routed[a] = Ledger!Before(unit)
    BY DEF Route, LInv, AskedBefore
  <2>2. unit = "team" => ClaimOf[a].status = "PENDING"
    BY <1>3 DEF Route, IInv, Routing, RoutingIsPrivate, ClaimOf, Live
  <2>3. UNCHANGED <<BalanceOf, ClaimOf>>
    BY <1>1 DEF BalanceOf, ClaimOf, KeyOf
  <2>4. Ledger!Ask(a, unit)
    BY <1>3, <2>1, <2>2, <2>3, StandingIsLive DEF Ledger!Ask
  <2>. QED BY <1>1, <2>4 DEF Ledger!Next, Ledger!Units
<1>. QED BY <1>2, <1>3 DEF Route

\* A step that gives the applications in S a status judges their claims.
LEMMA StatusWritten ==
  ASSUME IInv, NEW S, NEW v,
         app' = [a \in DOMAIN app |-> IF a \in S THEN [app[a] EXCEPT !.status = v] ELSE app[a]]
  PROVE  Ledger!Judged(S, v)
<1>1. \A a \in DOMAIN app : app[a] \in AppRow
  BY DEF IInv, TypeOK, IsTable
<1>2. \A a \in DOMAIN app :
        ClaimOf'[a] = IF a \in S THEN [ClaimOf[a] EXCEPT !.status = v] ELSE ClaimOf[a]
  BY <1>1 DEF ClaimOf, KeyOf
<1>. QED BY <1>2 DEF Ledger!Judged, ClaimOf

LEMMA DecideRefines ==
  ASSUME IInv, NEW a \in Apps, Approve(a) \/ Decline(a)
  PROVE  Ledger!Next
<1>1. a \in Live /\ a \in Ledger!Standing /\ "team" \in routed[a] /\ UNCHANGED routed
  BY StandingIsLive DEF Approve, Decline, Decidable
<1>2. \A v : app' = [app EXCEPT ![a].status = v] =>
        app' = [b \in DOMAIN app |-> IF b \in {a} THEN [app[b] EXCEPT !.status = v] ELSE app[b]]
  BY <1>1 DEF Live
<1>3. CASE Approve(a)
  <2>1. Ledger!Judged({a}, "APPROVED")
    BY <1>2, <1>3, StatusWritten DEF Approve
  <2>2. ClaimOf[a].of = KeyOf(a) /\ ClaimOf[a].days = app[a].days
    BY <1>1 DEF ClaimOf, Live
  <2>3. KeyOf(a) \in DOMAIN BalanceOf
    BY <1>3 DEF Approve, Chargeable, BalanceOf
  <2>4. BalanceOf' = [BalanceOf EXCEPT ![KeyOf(a)] = @ - app[a].days]
    BY <1>3, ApproveEffect DEF BalanceOf
  <2>. QED BY <1>1, <2>1, <2>2, <2>3, <2>4 DEF Ledger!Approve, Ledger!Next
<1>4. CASE Decline(a)
  <2>1. Ledger!Judged({a}, "DECLINED")
    BY <1>2, <1>4, StatusWritten DEF Decline
  <2>2. BalanceOf' = BalanceOf
    BY <1>4 DEF Decline, BalanceOf
  <2>. QED BY <1>1, <2>1, <2>2 DEF Ledger!Decline, Ledger!Next
<1>. QED BY <1>3, <1>4

\* The two statements of a deletion are one deletion of what they had found.
LEMMA DeleteCommitRefines ==
  ASSUME IInv, HInv, LInv, NEW p \in Procs, DeleteCommit(p)
  PROVE  Ledger!Next
<1>. DEFINE e == req[p].e
            gone == req[p].apps
            lost == req[p].ents
<1>1. e \in Employees /\ gone \in SUBSET DOMAIN ClaimOf /\ \A a \in gone : ClaimOf[a].of[1] = e
  BY ReqFields DEF DeleteCommit, IInv, LInv, DeletionsOwn, ClaimOf, KeyOf
<1>2. lost \in SUBSET DOMAIN BalanceOf /\ \A k \in lost : k[1] = e
  BY DEF DeleteCommit, HInv, HeldRows, BalanceOf
<1>3. Ledger!Judged(gone, "DELETED")
  BY StatusWritten DEF DeleteCommit
<1>4. BalanceOf' = [k \in DOMAIN BalanceOf \ lost |-> BalanceOf[k]] /\ UNCHANGED routed
  BY DEF DeleteCommit, BalanceOf
<1>5. Ledger!Delete(e, gone, lost)
  BY <1>1, <1>2, <1>3, <1>4 DEF Ledger!Delete
<1>. QED BY <1>1, <1>2, <1>5 DEF Ledger!Next

LEMMA RefinesNext == IInv /\ HInv /\ LInv /\ [Next]_vars => [Ledger!Next]_(Ledger!vars)
<1>. SUFFICES ASSUME IInv, HInv, LInv, [Next]_vars PROVE Ledger!Next \/ UNCHANGED Ledger!vars
  OBVIOUS
<1>1. CASE UNCHANGED vars
  BY <1>1, SameLedger DEF vars
<1>2. CASE AtOnce
  <2>1. ASSUME NEW e \in Employees, CreateEmployeeOnly(e) \/ \E U \in Placements : Place(e, U)
        PROVE  UNCHANGED Ledger!vars
    BY <2>1, SameLedger DEF CreateEmployeeOnly, Place
  <2>. QED BY <1>2, <2>1, DecideRefines DEF AtOnce, Decisions
<1>3. ASSUME NEW p \in Procs, Advance(p) PROVE Ledger!Next \/ UNCHANGED Ledger!vars
  BY <1>3, ReadingRefines, CreatePlanCommitRefines, OnboardCommitRefines, ApplyCommitRefines,
     RouteRefines, UpdatePlanRefines, DeleteCommitRefines DEF Advance
<1>. QED BY <1>1, <1>2, <1>3, ReadingRefines DEF Next

\* Leave keeps the promises of LeaveLedger: whatever handlers run beside each other
\* and wherever they fail, units are asked in order and once, approvals charge a
\* balance that is there, a plan's update renews balances of that plan only, and a
\* deletion takes one employee's balances and claims together.
THEOREM Refinement == Spec => ImplementsLedger
  BY RefinesInit, RefinesNext, SpecLInv, PTL DEF Spec, Ledger!Spec, ImplementsLedger
=============================================================================
