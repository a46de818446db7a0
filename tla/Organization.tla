---------------------------- MODULE Organization ----------------------------
(***************************************************************************)
(* An organization at work: what it names, the employees it hires, places  *)
(* and lets head its units, and their roles, all by the same handlers.     *)
(***************************************************************************)
EXTENDS Heads

vars == <<req, roleVars, items, headVars>>

Continuation ==
  {Idle} \cup RolesContinuation \cup RegistryContinuation \cup HeadsContinuation

TypeOK ==
  /\ RolesTypeOK
  /\ RegistryTypeOK
  /\ HeadsTypeOK
  /\ req \in [Procs -> Continuation]

Init ==
  /\ RolesInit
  /\ RegistryInit
  /\ HeadsInit
  /\ req = [p \in Procs |-> Idle]

\* An employee is created in the units its creation names; most name none.
Hire(e, r, S) ==
  /\ HireAs(e, r)
  /\ PlaceIn(e, S)
  /\ UNCHANGED <<items, req>>

\* addEmpToDept, addEmployeeToATeam, updateEmployeeWorkInfo.
Move(e, S) ==
  /\ e \in DOMAIN roles
  /\ PlaceIn(e, S)
  /\ UNCHANGED <<roleVars, items, req>>

AtOnce ==
  \E e \in Employees, S \in SUBSET Units : Move(e, S) \/ \E r \in RoleNames : Hire(e, r, S)

RolesStep(p) == (RolesArrive(p) \/ RolesAdvance(p)) /\ UNCHANGED <<items, headVars>>
RegistryStep(p) == (RegistryArrive(p) \/ RegistryAdvance(p)) /\ UNCHANGED <<roleVars, headVars>>
HeadsStep(p) == (HeadsArrive(p) \/ HeadsAdvance(p)) /\ UNCHANGED <<roleVars, items>>
Fail(p) == Abandon(p) /\ UNCHANGED <<roleVars, items, headVars>>

Next ==
  AtOnce \/ \E p \in Procs : RolesStep(p) \/ RegistryStep(p) \/ HeadsStep(p) \/ Fail(p)

Spec == Init /\ [][Next]_vars
=============================================================================
