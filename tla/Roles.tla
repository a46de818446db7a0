-------------------------------- MODULE Roles --------------------------------
(***************************************************************************)
(* The roles of employees and the tokens that carry them.                  *)
(*                                                                         *)
(* Employee.role is a list.  Its order is never used, so a list is modelled*)
(* by how often each role is in it.  The checks of a request read the list *)
(* once each; adding and removing read it once more and write a whole list *)
(* back.                                                                   *)
(***************************************************************************)
EXTENDS Handlers, Integers

CONSTANTS
  Employees,   \* ids of employees
  RoleNames,   \* Employee_Role
  MANAGEMENT,  \* the role that only creation gives
  MaxRoles     \* a bound: adding puts no role into a list more often than this

ASSUME ManagementAssumption == MANAGEMENT \in RoleNames
ASSUME MaxRolesAssumption == MaxRoles \in Nat

VARIABLES
  roles,       \* Employee.role of each employee there is
  born,        \* the role each was created with (history)
  granted      \* the roles that tokens issued to each employee carry

roleVars == <<roles, born, granted>>

Lists == [RoleNames -> Nat]
Only(r) == [s \in RoleNames |-> IF s = r THEN 1 ELSE 0]
RolesIn(list) == {r \in RoleNames : list[r] > 0}
\* length === 1, and length >= 2.
HasOne(list) == \E r \in RoleNames : list = Only(r)
HasSeveral(list) == RolesIn(list) # {} /\ ~ HasOne(list)

RolesContinuation ==
  [at : {"changeRole", "checkMax", "addRole", "removeRole"}, id : Employees, role : RoleNames]
  \cup [at : {"addRoleTx", "removeRoleTx"}, id : Employees, role : RoleNames, list : Lists]
  \cup [at : {"sign"}, id : Employees, list : Lists]

RolesTypeOK ==
  /\ DOMAIN roles \subseteq Employees
  /\ roles \in [DOMAIN roles -> Lists]
  /\ born \in [DOMAIN roles -> RoleNames]
  /\ granted \in [Employees -> SUBSET RoleNames]

RolesInit ==
  /\ roles = [e \in {} |-> Only(MANAGEMENT)]
  /\ born = [e \in {} |-> MANAGEMENT]
  /\ granted = [e \in Employees |-> {}]

-----------------------------------------------------------------------------

\* An employee is created with one role: any in createOrgMgtEmployee and in a file,
\* any but MANAGEMENT when onboarded.
HireAs(e, r) ==
  /\ e \notin DOMAIN roles
  /\ roles' = Insert(roles, e, Only(r))
  /\ born' = Insert(born, e, r)
  /\ UNCHANGED granted

Grantable(r) == r # MANAGEMENT

\* changeEmployeeRole, up to checkIfRoleIsManagement.
ChangeRole(p, e, r) ==
  /\ At(p, "idle")
  /\ e \in DOMAIN roles
  /\ Grantable(r)
  /\ Goto(p, [at |-> "changeRole", id |-> e, role |-> r])
  /\ UNCHANGED roleVars

ChangeRoleCommit(p) ==
  /\ At(p, "changeRole")
  /\ roles' = [roles EXCEPT ![req[p].id] = Only(req[p].role)]
  /\ Finish(p)
  /\ UNCHANGED <<born, granted>>

\* Mutant: leaves out checkIfRoleIsManagement.
AddRoleUnchecked(p, e, r) ==
  /\ At(p, "idle")
  /\ e \in DOMAIN roles
  /\ r \notin RolesIn(roles[e])
  /\ Goto(p, [at |-> "checkMax", id |-> e, role |-> r])
  /\ UNCHANGED roleVars

\* addMoreRolesToEmployee: checkIfEmployeeAlreadyHaveRole, checkIfRoleIsManagement.
AddRole(p, e, r) ==
  /\ At(p, "idle")
  /\ e \in DOMAIN roles
  /\ r \notin RolesIn(roles[e])
  /\ Grantable(r)
  /\ Goto(p, [at |-> "checkMax", id |-> e, role |-> r])
  /\ UNCHANGED roleVars

CheckMaximumNumOfRoles(p) ==
  /\ At(p, "checkMax")
  /\ ~ HasSeveral(roles[req[p].id])
  /\ Goto(p, [req[p] EXCEPT !.at = "addRole"])
  /\ UNCHANGED roleVars

\* The transaction of addRolesToEmployee reads the list without locking the row.
AddRoleRead(p) ==
  /\ At(p, "addRole")
  /\ Goto(p, [at |-> "addRoleTx", id |-> req[p].id, role |-> req[p].role,
              list |-> roles[req[p].id]])
  /\ UNCHANGED roleVars

AddRoleCommit(p) ==
  /\ At(p, "addRoleTx")
  /\ req[p].list[req[p].role] < MaxRoles
  /\ roles' = [roles EXCEPT ![req[p].id] =
                 [r \in RoleNames |-> req[p].list[r] + (IF r = req[p].role THEN 1 ELSE 0)]]
  /\ Finish(p)
  /\ UNCHANGED <<born, granted>>

\* removeRoleFrmEmp, up to checkMinimumNumOfRoles.
RemoveRole(p, e, r) ==
  /\ At(p, "idle")
  /\ e \in DOMAIN roles
  /\ ~ HasOne(roles[e])
  /\ Goto(p, [at |-> "removeRole", id |-> e, role |-> r])
  /\ UNCHANGED roleVars

RemoveRoleRead(p) ==
  /\ At(p, "removeRole")
  /\ Goto(p, [at |-> "removeRoleTx", id |-> req[p].id, role |-> req[p].role,
              list |-> roles[req[p].id]])
  /\ UNCHANGED roleVars

\* Mutant: takes one copy of the role away without looking for it.
RemoveRoleOnce(p) ==
  /\ At(p, "removeRoleTx")
  /\ roles' = [roles EXCEPT ![req[p].id] =
                 [r \in RoleNames |-> req[p].list[r] - (IF r = req[p].role THEN 1 ELSE 0)]]
  /\ Finish(p)
  /\ UNCHANGED <<born, granted>>

\* Every copy of the role goes.
RemoveRoleCommit(p) ==
  /\ At(p, "removeRoleTx")
  /\ roles' = [roles EXCEPT ![req[p].id] = [req[p].list EXCEPT ![req[p].role] = 0]]
  /\ Finish(p)
  /\ UNCHANGED <<born, granted>>

\* employeeLogin reads the employee, checks the password and signs what it has read.
Login(p, e) ==
  /\ At(p, "idle")
  /\ e \in DOMAIN roles
  /\ Goto(p, [at |-> "sign", id |-> e, list |-> roles[e]])
  /\ UNCHANGED roleVars

SignToken(p) ==
  /\ At(p, "sign")
  /\ granted' = [granted EXCEPT ![req[p].id] = @ \cup RolesIn(req[p].list)]
  /\ Finish(p)
  /\ UNCHANGED <<roles, born>>

-----------------------------------------------------------------------------

RolesArrive(p) ==
  \E e \in Employees :
    \/ \E r \in RoleNames : ChangeRole(p, e, r) \/ AddRole(p, e, r) \/ RemoveRole(p, e, r)
    \/ Login(p, e)

RolesAdvance(p) ==
  ChangeRoleCommit(p) \/ CheckMaximumNumOfRoles(p) \/ AddRoleRead(p) \/ AddRoleCommit(p)
    \/ RemoveRoleRead(p) \/ RemoveRoleCommit(p) \/ SignToken(p)

-----------------------------------------------------------------------------
(* Properties.                                                             *)

\* "Cannot assign employee management role": whoever was not created with it never
\* has it, in no list a handler has read and will write back or sign, and in no
\* token the guards rely on.
ManagementIsNeverGained ==
  \A e \in DOMAIN roles : born[e] # MANAGEMENT =>
    /\ MANAGEMENT \notin RolesIn(roles[e]) \cup granted[e]
    /\ \A p \in Procs : "list" \in DOMAIN req[p] /\ req[p].id = e =>
         MANAGEMENT \notin RolesIn(req[p].list)

\* A handler is between two queries of a request that changes an employee's roles.
ChangesRoles(p, e) ==
  /\ req[p].at \in {"changeRole", "checkMax", "addRole", "addRoleTx", "removeRole", "removeRoleTx"}
  /\ req[p].id = e

\* No two of these are under way for one employee; the code does nothing to keep them
\* apart.  Everything else may overlap.
RoleChangesApart ==
  \A p, q \in Procs, e \in Employees : ChangesRoles(p, e) /\ ChangesRoles(q, e) => p = q

\* "Employee must have one role", "Cannot assign more than two roles to one employee",
\* "Employee already has" the role: what the three checks are for.
WithinLimits(list) ==
  /\ RolesIn(list) # {}
  /\ \A r \in RoleNames : list[r] <= 1
  /\ \A r, s, t \in RolesIn(list) : r = s \/ s = t \/ r = t

RolesWithinLimits == \A e \in DOMAIN roles : WithinLimits(roles[e])
=============================================================================
