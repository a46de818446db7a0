-------------------------- MODULE OrganizationProofs --------------------------
(***************************************************************************)
(* Theorems about Organization.  Each component has an invariant of its    *)
(* own, a part about its tables and a part about what a handler holds      *)
(* (Sound).  A step of another component leaves its tables alone and a     *)
(* handler with a continuation that is sound for want of anything to say.  *)
(***************************************************************************)
EXTENDS Organization, TLAPS

-----------------------------------------------------------------------------
(* Handlers.                                                               *)

\* What moving on or ending means for a handler.
LEMMA GotoType ==
  ASSUME TypeOK, NEW p \in Procs, NEW k \in Continuation, Goto(p, k)
  PROVE  /\ req' \in [Procs -> Continuation]
         /\ \A q \in Procs : req'[q] = IF q = p THEN k ELSE req[q]
  BY DEF Goto, TypeOK

ListLabels == {"addRoleTx", "removeRoleTx", "sign"}
RoleLabels == {"changeRole", "checkMax", "addRole", "removeRole"} \cup ListLabels

\* What a handler holds of roles, by what it does next.
LEMMA RolesFields ==
  ASSUME NEW k \in Continuation
  PROVE  /\ k.at \in RoleLabels => k.id \in Employees
         /\ k.at \in RoleLabels \ {"sign"} => k.role \in RoleNames
         /\ k.at \in ListLabels => k.list \in Lists
         /\ "list" \in DOMAIN k <=> k.at \in ListLabels
<1>1. CASE k = Idle
  BY <1>1 DEF Idle, RoleLabels, ListLabels
<1>2. CASE k \in RolesContinuation
  BY <1>2 DEF RolesContinuation, RoleLabels, ListLabels
<1>3. CASE k \in RegistryContinuation
  BY <1>3 DEF RegistryContinuation, RoleLabels, ListLabels
<1>4. CASE k \in HeadsContinuation
  BY <1>4 DEF HeadsContinuation, RoleLabels, ListLabels
<1>. QED BY <1>1, <1>2, <1>3, <1>4 DEF Continuation

FromLabels == {"appointFound", "appointTx", "retireTx"}
UnitLabels == {"appoint", "retire", "clearUnit"} \cup FromLabels
ItemLabels == {"rename", "remove"} \cup UnitLabels

\* What a handler holds of names and of units.
LEMMA ItemFields ==
  ASSUME NEW k \in Continuation
  PROVE  /\ k.at = "create" => k.kind \in Kinds /\ k.name \in Names
         /\ k.at = "rename" => k.name \in Names
         /\ k.at \in ItemLabels => k.item \in Items /\ "item" \in DOMAIN k
         /\ k.at \in UnitLabels => k.id \in Employees
         /\ k.at \in FromLabels => k.from \in SUBSET Items
<1>1. CASE k = Idle
  BY <1>1 DEF Idle, ItemLabels, UnitLabels, FromLabels
<1>2. CASE k \in RolesContinuation
  BY <1>2 DEF RolesContinuation, ItemLabels, UnitLabels, FromLabels
<1>3. CASE k \in RegistryContinuation
  BY <1>3 DEF RegistryContinuation, ItemLabels, UnitLabels, FromLabels
<1>4. CASE k \in HeadsContinuation
  BY <1>4 DEF HeadsContinuation, ItemLabels, UnitLabels, FromLabels
<1>. QED BY <1>1, <1>2, <1>3, <1>4 DEF Continuation

-----------------------------------------------------------------------------
(* Roles.                                                                  *)

\* Nobody asks for MANAGEMENT, and no list read from somebody who was not created
\* with it has it.
RolesSound(k) ==
  /\ k.at \in RoleLabels => k.id \in DOMAIN roles
  /\ k.at \in {"changeRole", "checkMax", "addRole", "addRoleTx"} => k.role # MANAGEMENT
  /\ k.at \in ListLabels /\ born[k.id] # MANAGEMENT => MANAGEMENT \notin RolesIn(k.list)

RolesInv ==
  /\ \A e \in Employees : granted[e] # {} => e \in DOMAIN roles
  /\ \A e \in DOMAIN roles : born[e] # MANAGEMENT =>
       MANAGEMENT \notin RolesIn(roles[e]) \cup granted[e]
  /\ \A p \in Procs : RolesSound(req[p])

\* A step that leaves roles alone.
LEMMA RolesFrame ==
  ASSUME TypeOK, RolesInv, UNCHANGED roleVars,
         NEW p \in Procs, NEW k \in Continuation, Goto(p, k), RolesSound(k)
  PROVE  RolesTypeOK' /\ RolesInv'
<1>1. \A q \in Procs : req'[q] = IF q = p THEN k ELSE req[q]
  BY GotoType
<1>2. RolesTypeOK'
  BY DEF TypeOK, RolesTypeOK, roleVars
<1>3. \A q \in Procs : RolesSound(req[q])'
  BY <1>1 DEF RolesInv, RolesSound, roleVars
<1>. QED BY <1>2, <1>3 DEF RolesInv, roleVars

\* A step that writes one employee's list, without giving it MANAGEMENT.
LEMMA ListStep ==
  ASSUME TypeOK, RolesInv, NEW p \in Procs, Finish(p), UNCHANGED <<born, granted>>,
         NEW e \in DOMAIN roles, NEW list \in Lists, roles' = [roles EXCEPT ![e] = list],
         born[e] # MANAGEMENT => MANAGEMENT \notin RolesIn(list)
  PROVE  RolesTypeOK' /\ RolesInv'
<1>1. \A q \in Procs : req'[q] = IF q = p THEN Idle ELSE req[q]
  BY GotoType DEF Finish, Continuation
<1>2. DOMAIN roles' = DOMAIN roles /\ \A f \in DOMAIN roles : roles'[f] = IF f = e THEN list ELSE roles[f]
  OBVIOUS
<1>3. RolesTypeOK'
  BY DEF TypeOK, RolesTypeOK
<1>4. \A q \in Procs : RolesSound(req[q])'
  BY <1>1, <1>2 DEF RolesInv, RolesSound, Idle, RoleLabels, ListLabels
<1>. QED BY <1>2, <1>3, <1>4 DEF RolesInv

\* The actions that only move a handler on.
LEMMA RolesMoves ==
  ASSUME TypeOK, RolesInv, NEW p \in Procs,
         RolesArrive(p) \/ CheckMaximumNumOfRoles(p) \/ AddRoleRead(p) \/ RemoveRoleRead(p)
  PROVE  \E k \in RolesContinuation : Goto(p, k) /\ RolesSound(k) /\ UNCHANGED roleVars
<1>. req[p] \in Continuation /\ RolesSound(req[p])
  BY DEF TypeOK, RolesInv
<1>1. ASSUME NEW e \in Employees, NEW r \in RoleNames, ChangeRole(p, e, r)
      PROVE  \E k \in RolesContinuation : Goto(p, k) /\ RolesSound(k) /\ UNCHANGED roleVars
  BY <1>1 DEF ChangeRole, Grantable, RolesContinuation, RolesSound, RoleLabels, ListLabels
<1>2. ASSUME NEW e \in Employees, NEW r \in RoleNames, AddRole(p, e, r)
      PROVE  \E k \in RolesContinuation : Goto(p, k) /\ RolesSound(k) /\ UNCHANGED roleVars
  BY <1>2 DEF AddRole, Grantable, RolesContinuation, RolesSound, RoleLabels, ListLabels
<1>3. ASSUME NEW e \in Employees, NEW r \in RoleNames, RemoveRole(p, e, r)
      PROVE  \E k \in RolesContinuation : Goto(p, k) /\ RolesSound(k) /\ UNCHANGED roleVars
  BY <1>3 DEF RemoveRole, RolesContinuation, RolesSound, RoleLabels, ListLabels
<1>4. ASSUME NEW e \in Employees, Login(p, e)
      PROVE  \E k \in RolesContinuation : Goto(p, k) /\ RolesSound(k) /\ UNCHANGED roleVars
  <2>. DEFINE k == [at |-> "sign", id |-> e, list |-> roles[e]]
  <2>1. k \in RolesContinuation
    BY <1>4 DEF Login, RolesContinuation, TypeOK, RolesTypeOK
  <2>2. RolesSound(k)
    BY <1>4 DEF Login, RolesInv, RolesSound, RoleLabels, ListLabels
  <2>. QED BY <1>4, <2>1, <2>2 DEF Login
<1>5. ASSUME CheckMaximumNumOfRoles(p)
      PROVE  \E k \in RolesContinuation : Goto(p, k) /\ RolesSound(k) /\ UNCHANGED roleVars
  <2>. DEFINE k == [req[p] EXCEPT !.at = "addRole"]
  <2>1. req[p] \in [at : {"checkMax"}, id : Employees, role : RoleNames]
    BY <1>5 DEF CheckMaximumNumOfRoles, At, Continuation, Idle,
       RolesContinuation, RegistryContinuation, HeadsContinuation
  <2>2. k = [at |-> "addRole", id |-> req[p].id, role |-> req[p].role]
    BY <2>1
  <2>3. k \in RolesContinuation /\ RolesSound(k)
    BY <2>1, <2>2 DEF RolesContinuation, RolesSound, RoleLabels, ListLabels
  <2>. QED BY <1>5, <2>3 DEF CheckMaximumNumOfRoles
<1>6. ASSUME AddRoleRead(p)
      PROVE  \E k \in RolesContinuation : Goto(p, k) /\ RolesSound(k) /\ UNCHANGED roleVars
  <2>. DEFINE k == [at |-> "addRoleTx", id |-> req[p].id, role |-> req[p].role,
                    list |-> roles[req[p].id]]
  <2>1. req[p].id \in DOMAIN roles /\ req[p].id \in Employees /\ req[p].role \in RoleNames
    BY <1>6, RolesFields DEF AddRoleRead, At, RolesSound, RoleLabels, ListLabels
  <2>2. k \in RolesContinuation
    BY <2>1 DEF RolesContinuation, TypeOK, RolesTypeOK
  <2>3. RolesSound(k)
    BY <1>6, <2>1 DEF AddRoleRead, At, RolesInv, RolesSound, RoleLabels, ListLabels
  <2>. QED BY <1>6, <2>2, <2>3 DEF AddRoleRead
<1>7. ASSUME RemoveRoleRead(p)
      PROVE  \E k \in RolesContinuation : Goto(p, k) /\ RolesSound(k) /\ UNCHANGED roleVars
  <2>. DEFINE k == [at |-> "removeRoleTx", id |-> req[p].id, role |-> req[p].role,
                    list |-> roles[req[p].id]]
  <2>1. req[p].id \in DOMAIN roles /\ req[p].id \in Employees /\ req[p].role \in RoleNames
    BY <1>7, RolesFields DEF RemoveRoleRead, At, RolesSound, RoleLabels, ListLabels
  <2>2. k \in RolesContinuation
    BY <2>1 DEF RolesContinuation, TypeOK, RolesTypeOK
  <2>3. RolesSound(k)
    BY <1>7, <2>1 DEF RemoveRoleRead, At, RolesInv, RolesSound, RoleLabels, ListLabels
  <2>. QED BY <1>7, <2>2, <2>3 DEF RemoveRoleRead
<1>. QED BY <1>1, <1>2, <1>3, <1>4, <1>5, <1>6, <1>7 DEF RolesArrive

LEMMA ChangeRoleInv ==
  ASSUME TypeOK, RolesInv, NEW p \in Procs, ChangeRoleCommit(p)
  PROVE  RolesTypeOK' /\ RolesInv'
<1>. req[p] \in Continuation /\ RolesSound(req[p])
  BY DEF TypeOK, RolesInv
<1>1. req[p].id \in DOMAIN roles /\ req[p].role \in RoleNames /\ req[p].role # MANAGEMENT
  BY RolesFields DEF ChangeRoleCommit, At, RolesSound, RoleLabels, ListLabels
<1>2. Only(req[p].role) \in Lists /\ MANAGEMENT \notin RolesIn(Only(req[p].role))
  BY <1>1 DEF Only, Lists, RolesIn
<1>. QED BY <1>1, <1>2, ListStep DEF ChangeRoleCommit

LEMMA AddRoleInv ==
  ASSUME TypeOK, RolesInv, NEW p \in Procs, AddRoleCommit(p)
  PROVE  RolesTypeOK' /\ RolesInv'
<1>. DEFINE list == [r \in RoleNames |-> req[p].list[r] + (IF r = req[p].role THEN 1 ELSE 0)]
<1>. req[p] \in Continuation /\ RolesSound(req[p])
  BY DEF TypeOK, RolesInv
<1>1. /\ req[p].id \in DOMAIN roles /\ req[p].role # MANAGEMENT /\ req[p].list \in Lists
      /\ born[req[p].id] # MANAGEMENT => MANAGEMENT \notin RolesIn(req[p].list)
  BY RolesFields DEF AddRoleCommit, At, RolesSound, RoleLabels, ListLabels
<1>2. list \in Lists
  BY <1>1 DEF Lists
<1>3. MANAGEMENT \notin RolesIn(req[p].list) => MANAGEMENT \notin RolesIn(list)
  BY <1>1, ManagementAssumption DEF RolesIn, Lists
<1>. HIDE DEF list
<1>4. roles' = [roles EXCEPT ![req[p].id] = list] /\ Finish(p) /\ UNCHANGED <<born, granted>>
  BY DEF AddRoleCommit, list
<1>. QED BY <1>1, <1>2, <1>3, <1>4, ListStep

LEMMA RemoveRoleInv ==
  ASSUME TypeOK, RolesInv, NEW p \in Procs, RemoveRoleCommit(p)
  PROVE  RolesTypeOK' /\ RolesInv'
<1>. DEFINE list == [req[p].list EXCEPT ![req[p].role] = 0]
<1>. req[p] \in Continuation /\ RolesSound(req[p])
  BY DEF TypeOK, RolesInv
<1>1. /\ req[p].id \in DOMAIN roles /\ req[p].list \in Lists
      /\ born[req[p].id] # MANAGEMENT => MANAGEMENT \notin RolesIn(req[p].list)
  BY RolesFields DEF RemoveRoleCommit, At, RolesSound, RoleLabels, ListLabels
<1>2. list \in Lists
  BY <1>1 DEF Lists
<1>3. MANAGEMENT \notin RolesIn(req[p].list) => MANAGEMENT \notin RolesIn(list)
  BY <1>1 DEF RolesIn, Lists
<1>. HIDE DEF list
<1>4. roles' = [roles EXCEPT ![req[p].id] = list] /\ Finish(p) /\ UNCHANGED <<born, granted>>
  BY DEF RemoveRoleCommit, list
<1>. QED BY <1>1, <1>2, <1>3, <1>4, ListStep

LEMMA SignTokenInv ==
  ASSUME TypeOK, RolesInv, NEW p \in Procs, SignToken(p)
  PROVE  RolesTypeOK' /\ RolesInv'
<1>. DEFINE e == req[p].id
<1>. req[p] \in Continuation /\ RolesSound(req[p])
  BY DEF TypeOK, RolesInv
<1>1. \A q \in Procs : req'[q] = IF q = p THEN Idle ELSE req[q]
  BY GotoType DEF SignToken, Finish, Continuation
<1>2. /\ e \in DOMAIN roles /\ e \in Employees
      /\ born[e] # MANAGEMENT => MANAGEMENT \notin RolesIn(req[p].list)
  BY RolesFields DEF SignToken, At, RolesSound, RoleLabels, ListLabels
<1>3. /\ granted' \in [Employees -> SUBSET RoleNames]
      /\ \A f \in Employees : granted'[f] = IF f = e THEN granted[f] \cup RolesIn(req[p].list)
                              ELSE granted[f]
  BY <1>2 DEF SignToken, TypeOK, RolesTypeOK, RolesIn
<1>4. UNCHANGED <<roles, born>> /\ DOMAIN roles \subseteq Employees
  BY DEF SignToken, TypeOK, RolesTypeOK
<1>5. RolesTypeOK'
  BY <1>3, <1>4 DEF TypeOK, RolesTypeOK
<1>6. \A q \in Procs : RolesSound(req[q])'
  BY <1>1, <1>4 DEF RolesInv, RolesSound, Idle, RoleLabels, ListLabels
<1>7. \A f \in Employees : granted'[f] # {} => f \in DOMAIN roles'
  BY <1>2, <1>3, <1>4 DEF RolesInv
<1>8. \A f \in DOMAIN roles : born[f] # MANAGEMENT =>
        MANAGEMENT \notin RolesIn(roles[f]) \cup granted'[f]
  BY <1>2, <1>3, <1>4 DEF RolesInv
<1>. QED BY <1>4, <1>5, <1>6, <1>7, <1>8 DEF RolesInv

\* Whatever a step of Roles does, its handler goes on to something of Roles.
LEMMA RolesStepInv ==
  ASSUME TypeOK, RolesInv, NEW p \in Procs, RolesArrive(p) \/ RolesAdvance(p)
  PROVE  \E k \in {Idle} \cup RolesContinuation : Goto(p, k) /\ RolesTypeOK' /\ RolesInv'
<1>1. CASE RolesArrive(p) \/ CheckMaximumNumOfRoles(p) \/ AddRoleRead(p) \/ RemoveRoleRead(p)
  BY <1>1, RolesMoves, RolesFrame DEF Continuation
<1>2. CASE ChangeRoleCommit(p) \/ AddRoleCommit(p) \/ RemoveRoleCommit(p) \/ SignToken(p)
  <2>1. Goto(p, Idle)
    BY <1>2 DEF ChangeRoleCommit, AddRoleCommit, RemoveRoleCommit, SignToken, Finish
  <2>. QED BY <1>2, <2>1, ChangeRoleInv, AddRoleInv, RemoveRoleInv, SignTokenInv
<1>. QED BY <1>1, <1>2 DEF RolesAdvance

\* A hired employee has one role and no token.
LEMMA HireRoles ==
  ASSUME TypeOK, RolesInv, NEW e \in Employees, NEW r \in RoleNames, HireAs(e, r), UNCHANGED req
  PROVE  RolesTypeOK' /\ RolesInv'
<1>1. /\ DOMAIN roles' = DOMAIN roles \cup {e} /\ e \notin DOMAIN roles
      /\ \A f \in DOMAIN roles' : roles'[f] = IF f = e THEN Only(r) ELSE roles[f]
      /\ roles' = [f \in DOMAIN roles' |-> roles'[f]]
  BY DEF HireAs, Insert
<1>2. /\ born' = [f \in DOMAIN roles' |-> born'[f]]
      /\ \A f \in DOMAIN roles' : born'[f] = IF f = e THEN r ELSE born[f]
  BY <1>1 DEF HireAs, Insert, TypeOK, RolesTypeOK
<1>3. Only(r) \in Lists /\ (r # MANAGEMENT => MANAGEMENT \notin RolesIn(Only(r)))
  BY DEF Only, Lists, RolesIn
<1>4. UNCHANGED <<req, granted>>
  BY DEF HireAs
<1>5. RolesTypeOK'
  BY <1>1, <1>2, <1>3, <1>4 DEF TypeOK, RolesTypeOK
<1>6. \A q \in Procs : RolesSound(req[q])'
  BY <1>1, <1>2, <1>4 DEF RolesInv, RolesSound, ListLabels, RoleLabels
<1>7. \A f \in Employees : granted'[f] # {} => f \in DOMAIN roles'
  BY <1>1, <1>4 DEF RolesInv
<1>8. \A f \in DOMAIN roles' : born'[f] # MANAGEMENT =>
        MANAGEMENT \notin RolesIn(roles'[f]) \cup granted'[f]
  BY <1>1, <1>2, <1>3, <1>4 DEF RolesInv
<1>. QED BY <1>5, <1>6, <1>7, <1>8 DEF RolesInv

-----------------------------------------------------------------------------
(* Names.                                                                  *)

\* What a handler found of a row stays true of it until the handler ends, since no
\* id that a handler holds is used again.
RegistrySound(p, k) ==
  /\ k.at = "create" => \A i \in DOMAIN items :
       Is(i, k.kind, k.name) => k.kind \in Editable \/ items[i].by # p
  /\ k.at = "rename" /\ k.item \in DOMAIN items => items[k.item].kind \in Editable
  /\ k.at = "remove" /\ k.item \in DOMAIN items => items[k.item].kind \in Deletable

NoNamesakes ==
  \A i, j \in DOMAIN items :
    items[i].kind \notin Editable /\ Is(j, items[i].kind, items[i].name)
      /\ items[i].by = items[j].by => i = j

RegistryInv ==
  /\ IndexedNamesAreUnique
  /\ NoNamesakes
  /\ \A p \in Procs : RegistrySound(p, req[p])

\* Units are neither deleted nor made into anything else.
UnitsStay == \A i \in Units : i \in DOMAIN items' /\ items'[i].kind = items[i].kind

LEMMA RegistryFrame ==
  ASSUME TypeOK, RegistryInv, UNCHANGED items,
         NEW p \in Procs, NEW k \in Continuation, Goto(p, k), RegistrySound(p, k)
  PROVE  RegistryTypeOK' /\ RegistryInv' /\ UnitsStay
<1>1. \A q \in Procs : req'[q] = IF q = p THEN k ELSE req[q]
  BY GotoType
<1>2. RegistryTypeOK'
  BY DEF TypeOK, RegistryTypeOK
<1>3. \A q \in Procs : RegistrySound(q, req[q])'
  BY <1>1 DEF RegistryInv, RegistrySound, Is, In
<1>4. IndexedNamesAreUnique' /\ NoNamesakes'
  BY DEF RegistryInv, IndexedNamesAreUnique, NoNamesakes, Is, In
<1>. QED BY <1>2, <1>3, <1>4 DEF RegistryInv, UnitsStay, Units

\* The requests of all tables are of three kinds.
LEMMA RegistryRequests ==
  ASSUME NEW p \in Procs, RegistryArrive(p)
  PROVE  \/ \E kind \in Kinds, name \in Names : Create(p, kind, name)
         \/ \E i \in Items, name \in Names : Rename(p, i, name)
         \/ \E i \in Items : Remove(p, i)
<1>1. CASE \E name \in Names :
        \/ OnboardOrganization(p, name) \/ OnboardClientele(p, name) \/ OnboardBranch(p, name)
        \/ AddDepartment(p, name) \/ AddTeam(p, name) \/ CreateSection(p, name)
        \/ CreateAllowance(p, name) \/ CreateDeduction(p, name)
        \/ CreateBonus(p, name) \/ CreatePayGroup(p, name)
  <2>1. PICK name \in Names, kind \in Tables : Create(p, kind, name)
    BY <1>1 DEF Tables, OnboardOrganization, OnboardClientele, OnboardBranch, AddDepartment,
                AddTeam, CreateSection, CreateAllowance, CreateDeduction, CreateBonus,
                CreatePayGroup
  <2>2. kind \in Kinds
    BY <2>1 DEF Create
  <2>. QED BY <2>1, <2>2
<1>2. CASE \E i \in Items, name \in Names :
        \/ EditOrganization(p, i, name) \/ EditAllowance(p, i, name)
        \/ EditDeduction(p, i, name) \/ EditBonus(p, i, name)
  BY <1>2 DEF EditOrganization, EditAllowance, EditDeduction, EditBonus
<1>3. CASE \E i \in Items :
        \/ DeleteAllowance(p, i) \/ DeleteDeduction(p, i) \/ DeleteBonus(p, i)
        \/ DeletePayGroup(p, i) \/ RemoveSection(p, i)
  BY <1>3 DEF DeleteAllowance, DeleteDeduction, DeleteBonus, DeletePayGroup, RemoveSection
<1>. QED BY <1>1, <1>2, <1>3
     DEF RegistryArrive, OrganizationRequests, UnitRequests, SectionRequests, AllowanceRequests,
         DeductionRequests, BonusRequests, PayGroupRequests

LEMMA RegistryMoves ==
  ASSUME TypeOK, NEW p \in Procs, RegistryArrive(p)
  PROVE  \E k \in RegistryContinuation : Goto(p, k) /\ RegistrySound(p, k) /\ UNCHANGED items
<1>1. ASSUME NEW kind \in Kinds, NEW name \in Names, Create(p, kind, name)
      PROVE  \E k \in RegistryContinuation : Goto(p, k) /\ RegistrySound(p, k) /\ UNCHANGED items
  <2>. DEFINE k == [at |-> "create", kind |-> kind, name |-> name]
  <2>1. k \in RegistryContinuation
    BY DEF RegistryContinuation
  <2>2. RegistrySound(p, k)
    BY <1>1 DEF Create, Exists, RegistrySound, TypeOK, RegistryTypeOK
  <2>. QED BY <1>1, <2>1, <2>2 DEF Create
<1>2. ASSUME NEW i \in Items, NEW name \in Names, Rename(p, i, name)
      PROVE  \E k \in RegistryContinuation : Goto(p, k) /\ RegistrySound(p, k) /\ UNCHANGED items
  BY <1>2 DEF Rename, RegistryContinuation, RegistrySound
<1>3. ASSUME NEW i \in Items, Remove(p, i)
      PROVE  \E k \in RegistryContinuation : Goto(p, k) /\ RegistrySound(p, k) /\ UNCHANGED items
  BY <1>3 DEF Remove, RegistryContinuation, RegistrySound
<1>. QED BY <1>1, <1>2, <1>3, RegistryRequests

LEMMA CreateInv ==
  ASSUME TypeOK, RegistryInv, NEW p \in Procs, CreateCommit(p)
  PROVE  RegistryTypeOK' /\ RegistryInv' /\ UnitsStay
<1>. DEFINE row == [kind |-> req[p].kind, name |-> req[p].name, by |-> p]
<1>1. \A q \in Procs : req'[q] = IF q = p THEN Idle ELSE req[q]
  BY GotoType DEF CreateCommit, Finish, Continuation
<1>2. PICK i \in Fresh : items' = Insert(items, i, row)
  BY DEF CreateCommit
<1>3. row \in Row /\ row.by = p /\ row.kind = req[p].kind /\ row.name = req[p].name
  BY ItemFields DEF CreateCommit, At, TypeOK, Row
<1>. HIDE DEF row
<1>4. /\ DOMAIN items' = DOMAIN items \cup {i} /\ i \notin DOMAIN items /\ i \in Items
      /\ \A j \in DOMAIN items' : items'[j] = IF j = i THEN row ELSE items[j]
      /\ items' = [j \in DOMAIN items' |-> items'[j]]
  BY <1>2 DEF Insert, Fresh
<1>5. RegistryTypeOK'
  BY <1>3, <1>4 DEF TypeOK, RegistryTypeOK
<1>6. IndexedNamesAreUnique'
  <2>1. row.kind \in Indexed => \A j \in DOMAIN items : ~ Is(j, row.kind, row.name)
    BY <1>3 DEF CreateCommit, Exists, TypeOK, RegistryTypeOK
  <2>. QED BY <1>4, <2>1 DEF RegistryInv, IndexedNamesAreUnique, Is, In
<1>7. NoNamesakes'
  <2>1. row.kind \notin Editable =>
          \A j \in DOMAIN items : Is(j, row.kind, row.name) => items[j].by # row.by
    BY <1>3 DEF CreateCommit, At, RegistryInv, RegistrySound
  <2>. QED BY <1>4, <2>1 DEF RegistryInv, NoNamesakes, Is, In
<1>8. ASSUME NEW q \in Procs PROVE RegistrySound(q, req[q])'
  <2>1. CASE q = p
    BY <1>1, <2>1 DEF RegistrySound, Idle
  <2>2. CASE q # p
    <3>1. RegistrySound(q, req[q]) /\ req'[q] = req[q]
      BY <1>1, <2>2 DEF RegistryInv
    <3>2. req[q].at = "rename" \/ req[q].at = "remove" => req[q].item # i
      BY <1>2, ItemFields DEF Fresh, TypeOK, ItemLabels
    <3>. QED BY <1>3, <1>4, <2>2, <3>1, <3>2 DEF RegistrySound, Is, In
  <2>. QED BY <2>1, <2>2
<1>9. UnitsStay
  BY <1>4 DEF UnitsStay, Units
<1>. QED BY <1>5, <1>6, <1>7, <1>8, <1>9 DEF RegistryInv

LEMMA RenameInv ==
  ASSUME TypeOK, RegistryInv, NEW p \in Procs, RenameCommit(p)
  PROVE  RegistryTypeOK' /\ RegistryInv' /\ UnitsStay
<1>. DEFINE i == req[p].item
<1>1. \A q \in Procs : req'[q] = IF q = p THEN Idle ELSE req[q]
  BY GotoType DEF RenameCommit, Finish, Continuation
<1>2. i \in DOMAIN items /\ items[i].kind \in Editable /\ req[p].name \in Names
  BY ItemFields DEF RenameCommit, At, TypeOK, RegistryInv, RegistrySound
<1>3. /\ DOMAIN items' = DOMAIN items /\ items' \in [DOMAIN items -> Row]
      /\ \A j \in DOMAIN items :
           /\ items'[j].kind = items[j].kind /\ items'[j].by = items[j].by
           /\ items'[j].name = IF j = i THEN req[p].name ELSE items[j].name
  BY <1>2 DEF RenameCommit, TypeOK, RegistryTypeOK, Row
<1>4. RegistryTypeOK'
  BY <1>3 DEF TypeOK, RegistryTypeOK
<1>5. IndexedNamesAreUnique'
  BY <1>2, <1>3 DEF RenameCommit, RegistryInv, IndexedNamesAreUnique, Is, In
<1>6. NoNamesakes'
  BY <1>2, <1>3 DEF RegistryInv, NoNamesakes, Is, In
<1>7. ASSUME NEW q \in Procs PROVE RegistrySound(q, req[q])'
  <2>1. CASE q = p
    BY <1>1, <2>1 DEF RegistrySound, Idle
  <2>2. CASE q # p
    BY <1>1, <1>2, <1>3, <2>2 DEF RegistryInv, RegistrySound, Is, In
  <2>. QED BY <2>1, <2>2
<1>8. UnitsStay
  BY <1>3 DEF UnitsStay, Units
<1>. QED BY <1>4, <1>5, <1>6, <1>7, <1>8 DEF RegistryInv

LEMMA RemoveInv ==
  ASSUME TypeOK, RegistryInv, NEW p \in Procs, RemoveCommit(p)
  PROVE  RegistryTypeOK' /\ RegistryInv' /\ UnitsStay
<1>. DEFINE i == req[p].item
<1>1. \A q \in Procs : req'[q] = IF q = p THEN Idle ELSE req[q]
  BY GotoType DEF RemoveCommit, Finish, Continuation
<1>2. i \in DOMAIN items /\ items[i].kind \in Deletable
  BY DEF RemoveCommit, At, RegistryInv, RegistrySound
<1>3. /\ DOMAIN items' = DOMAIN items \ {i} /\ items' \in [DOMAIN items' -> Row]
      /\ \A j \in DOMAIN items' : items'[j] = items[j]
  BY DEF RemoveCommit, TypeOK, RegistryTypeOK
<1>4. RegistryTypeOK'
  BY <1>3 DEF TypeOK, RegistryTypeOK
<1>5. IndexedNamesAreUnique' /\ NoNamesakes'
  BY <1>3 DEF RegistryInv, IndexedNamesAreUnique, NoNamesakes, Is, In
<1>6. \A q \in Procs : RegistrySound(q, req[q])'
  BY <1>1, <1>3 DEF RegistryInv, RegistrySound, Is, In, Idle
<1>7. UnitsStay
  BY <1>2, <1>3 DEF UnitsStay, Units, UnitKinds, Deletable
<1>. QED BY <1>4, <1>5, <1>6, <1>7 DEF RegistryInv

LEMMA RegistryStepInv ==
  ASSUME TypeOK, RegistryInv, NEW p \in Procs, RegistryArrive(p) \/ RegistryAdvance(p)
  PROVE  \E k \in {Idle} \cup RegistryContinuation :
           Goto(p, k) /\ RegistryTypeOK' /\ RegistryInv' /\ UnitsStay
<1>1. CASE RegistryArrive(p)
  BY <1>1, RegistryMoves, RegistryFrame DEF Continuation
<1>2. CASE RegistryAdvance(p)
  <2>1. Goto(p, Idle)
    BY <1>2 DEF RegistryAdvance, CreateCommit, RenameCommit, RemoveCommit, Finish
  <2>. QED BY <1>2, <2>1, CreateInv, RenameInv, RemoveInv DEF RegistryAdvance
<1>. QED BY <1>1, <1>2

-----------------------------------------------------------------------------
(* Heads.                                                                  *)

\* What a handler has found to clear is at most one unit, of the table it is about,
\* that its employee has headed.  An open appointment will clear whatever its employee
\* heads: the index keeps others from making the employee head of more.
HeadsSound(k) ==
  /\ k.at \in UnitLabels => k.item \in Units
  /\ k.at \in {"appoint", "appointFound", "appointTx"} => k.item \in wasIn[k.id]
  /\ k.at \in FromLabels =>
       /\ \A i \in k.from : i \in Units /\ items[i].kind = items[k.item].kind /\ i \in led[k.id]
       /\ \A i, j \in k.from : i = j
  /\ k.at = "appointTx" => Headed(k.id, items[k.item].kind) \subseteq k.from \cup {k.item}
  /\ k.at \in {"retire", "retireTx", "clearUnit"} => items[k.item].kind = "department"

\* Open appointments are for different employees of each table.
AppointmentsAreApart ==
  \A p, q \in Procs : At(p, "appointTx") /\ At(q, "appointTx") /\ p # q =>
    (req[p].id = req[q].id => items[req[p].item].kind # items[req[q].item].kind)

PlacedInUnits ==
  \A e \in Employees, k \in UnitKinds :
    place[e][k] \in Items => place[e][k] \in Units /\ place[e][k] \in wasIn[e]

HeadsAreOfUnits ==
  \A i \in Items : head[i] # Nobody => i \in Units /\ i \in wasIn[head[i]] \cap led[head[i]]

OneHead ==
  \A i, j \in Units :
    head[i] # Nobody /\ head[i] = head[j] /\ items[i].kind = items[j].kind => i = j

HeadsInv ==
  /\ PlacedInUnits
  /\ HeadsAreOfUnits
  /\ OneHead
  /\ AppointmentsAreApart
  /\ \A p \in Procs : HeadsSound(req[p])

\* Units stay units, and one made by this step has no head yet.
LEMMA UnitsGrow ==
  ASSUME TypeOK, HeadsInv, RegistryTypeOK', UnitsStay, UNCHANGED head
  PROVE  /\ \A i \in Units : i \in Units' /\ items'[i].kind = items[i].kind
         /\ \A i \in Units' : head[i] # Nobody => i \in Units
         /\ \A e \in Employees, kind \in Kinds : Headed(e, kind)' = Headed(e, kind)
<1>1. \A i \in Units : i \in Units' /\ items'[i].kind = items[i].kind
  BY DEF UnitsStay, Units
<1>2. \A i \in Units' : head[i] # Nobody => i \in Units
  BY DEF HeadsInv, HeadsAreOfUnits, RegistryTypeOK, Units
<1>3. ASSUME NEW e \in Employees, NEW kind \in Kinds PROVE Headed(e, kind)' = Headed(e, kind)
  <2>1. e # Nobody
    BY NobodyAssumption
  <2>. QED BY <1>1, <1>2, <2>1 DEF Headed
<1>. QED BY <1>1, <1>2, <1>3

\* A step that leaves heads and places alone.
LEMMA HeadsFrame ==
  ASSUME TypeOK, HeadsInv, UNCHANGED headVars, RegistryTypeOK', UnitsStay,
         NEW p \in Procs, NEW k \in Continuation, Goto(p, k), HeadsSound(k), k.at # "appointTx"
  PROVE  HeadsTypeOK' /\ HeadsInv'
<1>1. \A q \in Procs : req'[q] = IF q = p THEN k ELSE req[q]
  BY GotoType
<1>2. UNCHANGED <<place, head, wasIn, led>>
  BY DEF headVars
<1>3. /\ \A i \in Units : i \in Units' /\ items'[i].kind = items[i].kind
      /\ \A i \in Units' : head[i] # Nobody => i \in Units
      /\ \A e \in Employees, kind \in Kinds : Headed(e, kind)' = Headed(e, kind)
  BY <1>2, UnitsGrow
<1>4. HeadsTypeOK'
  BY <1>2 DEF TypeOK, HeadsTypeOK
<1>5. PlacedInUnits' /\ HeadsAreOfUnits'
  BY <1>2, <1>3 DEF HeadsInv, PlacedInUnits, HeadsAreOfUnits
<1>6. OneHead'
  BY <1>2, <1>3 DEF HeadsInv, OneHead
<1>7. \A q \in Procs : HeadsSound(req[q])'
  <2>1. ASSUME NEW c \in Continuation, HeadsSound(c) PROVE HeadsSound(c)'
    <3>1. c.at \in UnitLabels =>
            c.item \in Units' /\ items'[c.item].kind = items[c.item].kind
      BY <1>3, <2>1 DEF HeadsSound
    <3>2. c.at = "appointTx" => Headed(c.id, items[c.item].kind)' \subseteq c.from \cup {c.item}
      <4>1. c.at = "appointTx" =>
              c.id \in Employees /\ c.item \in Units /\ items[c.item].kind \in Kinds
        BY <2>1, ItemFields DEF HeadsSound, UnitLabels, FromLabels, Units, TypeOK, RegistryTypeOK, Row
      <4>. QED BY <1>3, <2>1, <3>1, <4>1 DEF HeadsSound, UnitLabels, FromLabels
    <3>3. c.at \in FromLabels => \A i \in c.from :
            i \in Units' /\ items'[i].kind = items'[c.item].kind /\ i \in led'[c.id]
      BY <1>2, <1>3, <2>1, <3>1 DEF HeadsSound, UnitLabels
    <3>4. c.at \in {"retire", "retireTx", "clearUnit"} => items'[c.item].kind = "department"
      BY <2>1, <3>1 DEF HeadsSound, UnitLabels, FromLabels
    <3>. QED BY <1>2, <2>1, <3>1, <3>2, <3>3, <3>4 DEF HeadsSound
  <2>. QED BY <1>1, <2>1 DEF HeadsInv, TypeOK
<1>8. AppointmentsAreApart'
  <2>1. \A q \in Procs : At(q, "appointTx")' =>
          /\ At(q, "appointTx") /\ req'[q] = req[q]
          /\ items'[req[q].item].kind = items[req[q].item].kind
    BY <1>1, <1>3 DEF At, HeadsInv, HeadsSound, UnitLabels, FromLabels
  <2>. QED BY <2>1 DEF HeadsInv, AppointmentsAreApart
<1>. QED BY <1>4, <1>5, <1>6, <1>7, <1>8 DEF HeadsInv

LEMMA IdleSound ==
  Idle \in Continuation /\ HeadsSound(Idle) /\ RolesSound(Idle) /\ Idle.at # "appointTx"
    /\ \A p : RegistrySound(p, Idle)
  BY DEF Idle, Continuation, HeadsSound, UnitLabels, FromLabels, RolesSound, RoleLabels, ListLabels, RegistrySound

LEMMA HeadsMoves ==
  ASSUME TypeOK, HeadsInv, NEW p \in Procs, HeadsArrive(p) \/ AppointFind(p) \/ RetireFind(p)
  PROVE  \E k \in HeadsContinuation :
           k.at # "appointTx" /\ HeadsSound(k) /\ Goto(p, k) /\ UNCHANGED headVars
<1>. req[p] \in Continuation /\ HeadsSound(req[p])
  BY DEF TypeOK, HeadsInv
<1>1. ASSUME NEW e \in Employees, NEW i \in Items, Appoint(p, e, i)
      PROVE  \E k \in HeadsContinuation :
               k.at # "appointTx" /\ HeadsSound(k) /\ Goto(p, k) /\ UNCHANGED headVars
  <2>. DEFINE k == [at |-> "appoint", id |-> e, item |-> i]
  <2>1. k \in HeadsContinuation /\ k.at # "appointTx"
    BY DEF HeadsContinuation
  <2>2. i \in Units /\ i \in wasIn[e]
    BY <1>1 DEF Appoint, Member, HeadsInv, PlacedInUnits, Units
  <2>3. HeadsSound(k)
    BY <2>2 DEF HeadsSound, UnitLabels, FromLabels
  <2>. QED BY <1>1, <2>1, <2>3 DEF Appoint
<1>2. ASSUME NEW e \in Employees, NEW i \in Items, Retire(p, e, i)
      PROVE  \E k \in HeadsContinuation :
               k.at # "appointTx" /\ HeadsSound(k) /\ Goto(p, k) /\ UNCHANGED headVars
  <2>. DEFINE k == [at |-> "retire", id |-> e, item |-> i]
  <2>1. k \in HeadsContinuation /\ k.at # "appointTx"
    BY DEF HeadsContinuation
  <2>2. HeadsSound(k)
    BY <1>2 DEF Retire, HeadsSound, UnitLabels, FromLabels
  <2>. QED BY <1>2, <2>1, <2>2 DEF Retire
<1>3. ASSUME NEW e \in Employees, NEW i \in Units
      PROVE  LET S == Headed(e, items[i].kind)
             IN  /\ S \in SUBSET Items
                 /\ \A j \in S : j \in Units /\ items[j].kind = items[i].kind /\ j \in led[e]
                 /\ \A j, l \in S : j = l
  <2>1. e # Nobody /\ Units \subseteq Items
    BY NobodyAssumption DEF Units, TypeOK, RegistryTypeOK
  <2>. QED BY <2>1 DEF Headed, HeadsInv, HeadsAreOfUnits, OneHead
<1>4. CASE AppointFind(p)
  <2>. DEFINE S == Headed(req[p].id, items[req[p].item].kind)
              k == [at |-> "appointFound", id |-> req[p].id, item |-> req[p].item, from |-> S]
  <2>1. /\ req[p].id \in Employees /\ req[p].item \in Items /\ req[p].item \in Units
        /\ req[p].item \in wasIn[req[p].id]
    BY <1>4, ItemFields DEF AppointFind, At, HeadsSound, UnitLabels, ItemLabels
  <2>2. Goto(p, k) /\ UNCHANGED headVars
    BY <1>4 DEF AppointFind
  <2>3. /\ S \in SUBSET Items
        /\ \A i \in S : i \in Units /\ items[i].kind = items[req[p].item].kind
                     /\ i \in led[req[p].id]
        /\ \A i, j \in S : i = j
    BY <1>3, <2>1
  <2>. HIDE DEF S
  <2>4. k \in HeadsContinuation /\ k.at # "appointTx"
    BY <2>1, <2>3 DEF HeadsContinuation
  <2>5. HeadsSound(k)
    BY <2>1, <2>3 DEF HeadsSound, UnitLabels, FromLabels
  <2>. QED BY <2>2, <2>4, <2>5
<1>5. CASE RetireFind(p)
  <2>. DEFINE k == [at |-> "retireTx", id |-> req[p].id, item |-> req[p].item,
                    from |-> Headed(req[p].id, "department")]
  <2>1. /\ req[p].id \in Employees /\ req[p].item \in Items /\ req[p].item \in Units
        /\ items[req[p].item].kind = "department"
    BY <1>5, ItemFields DEF RetireFind, At, HeadsSound, UnitLabels, ItemLabels
  <2>2. k \in HeadsContinuation /\ k.at # "appointTx"
    BY <1>3, <2>1 DEF HeadsContinuation
  <2>3. HeadsSound(k)
    BY <1>3, <2>1 DEF HeadsSound, UnitLabels, FromLabels
  <2>. QED BY <1>5, <2>2, <2>3 DEF RetireFind
<1>. QED BY <1>1, <1>2, <1>4, <1>5
     DEF HeadsArrive, HodRequests, TeamLeadRequests, HeadOfDepartment, TeamLead

\* What the continuation of a handler that has looked is made of.
LEMMA FromFields ==
  ASSUME NEW k \in Continuation, k.at \in FromLabels
  PROVE  /\ k.id \in Employees /\ k.item \in Items /\ k.from \in SUBSET Items
         /\ k = [at |-> k.at, id |-> k.id, item |-> k.item, from |-> k.from]
<1>1. k \in [at : FromLabels, id : Employees, item : Items, from : SUBSET Items]
  BY DEF FromLabels, Continuation, Idle, RolesContinuation, RegistryContinuation, HeadsContinuation
<1>. QED BY <1>1

\* Opening an appointment: nobody else is about to make its employee head of a unit of
\* this table, and it will clear what the employee heads.
LEMMA AppointTxInv ==
  ASSUME TypeOK, HeadsInv, UNCHANGED items, NEW p \in Procs, AppointTx(p)
  PROVE  (\E k \in HeadsContinuation : Goto(p, k)) /\ HeadsTypeOK' /\ HeadsInv'
<1>. DEFINE e == req[p].id
            u == req[p].item
            k == [at |-> "appointTx", id |-> e, item |-> u, from |-> req[p].from]
<1>1. /\ e \in Employees /\ u \in Items /\ req[p].from \in SUBSET Items
      /\ req[p] = [at |-> "appointFound", id |-> e, item |-> u, from |-> req[p].from]
  BY FromFields DEF AppointTx, At, TypeOK, FromLabels
<1>2. k = [req[p] EXCEPT !.at = "appointTx"] /\ k \in HeadsContinuation
  BY <1>1 DEF HeadsContinuation
<1>3. /\ ~ Claimed(e, items[u].kind) /\ Headed(e, items[u].kind) \subseteq req[p].from \cup {u}
      /\ Goto(p, k) /\ UNCHANGED <<place, head, wasIn, led>>
  BY <1>2 DEF AppointTx, headVars
<1>4. HeadsSound(k)
  BY <1>1, <1>3 DEF HeadsInv, HeadsSound, AppointTx, At, UnitLabels, FromLabels
<1>5. k \in Continuation /\ k.at = "appointTx" /\ k.id = e /\ k.item = u
  BY <1>2 DEF Continuation
<1>. HIDE DEF k
<1>6. \A q \in Procs : req'[q] = IF q = p THEN k ELSE req[q]
  BY <1>3, <1>5, GotoType
<1>7. HeadsTypeOK'
  BY <1>3 DEF TypeOK, HeadsTypeOK
<1>8. PlacedInUnits' /\ HeadsAreOfUnits' /\ OneHead'
  BY <1>3 DEF HeadsInv, PlacedInUnits, HeadsAreOfUnits, OneHead, Units
<1>9. \A q \in Procs : HeadsSound(req[q])'
  BY <1>3, <1>4, <1>6 DEF HeadsInv, HeadsSound, Headed, Units
<1>10. AppointmentsAreApart'
  <2>1. ASSUME NEW q \in Procs, At(q, "appointTx")
        PROVE  req[q].id = e => items[req[q].item].kind # items[u].kind
    BY <1>3, <2>1 DEF Claimed
  <2>2. \A q \in Procs : At(q, "appointTx")' => q = p \/ At(q, "appointTx")
    BY <1>6 DEF At
  <2>. QED BY <1>5, <1>6, <2>1, <2>2 DEF HeadsInv, AppointmentsAreApart, At
<1>. QED BY <1>2, <1>3, <1>7, <1>8, <1>9, <1>10 DEF HeadsInv

\* The commit makes its employee head of one unit, and of no other of its table.
LEMMA AppointCommitInv ==
  ASSUME TypeOK, HeadsInv, UNCHANGED items, NEW p \in Procs, AppointCommit(p)
  PROVE  HeadsTypeOK' /\ HeadsInv'
<1>. DEFINE e == req[p].id
            u == req[p].item
            from == req[p].from
<1>1. /\ e \in Employees /\ u \in Items /\ u \in Units /\ u \in wasIn[e]
      /\ Headed(e, items[u].kind) \subseteq from \cup {u}
  BY ItemFields DEF AppointCommit, At, HeadsInv, HeadsSound, UnitLabels, FromLabels, ItemLabels, TypeOK
<1>2. \A q \in Procs : req'[q] = IF q = p THEN Idle ELSE req[q]
  BY GotoType DEF AppointCommit, Finish, Continuation
<1>3. /\ \A i \in Items : head'[i] = IF i = u THEN e ELSE IF i \in from THEN Nobody ELSE head[i]
      /\ UNCHANGED <<items, place, wasIn>> /\ At(p, "appointTx")
  BY DEF AppointCommit
<1>4. /\ led' \in [Employees -> SUBSET Items]
      /\ \A f \in Employees : led'[f] = IF f = e THEN led[f] \cup {u} ELSE led[f]
  BY <1>1 DEF AppointCommit, TypeOK, HeadsTypeOK
<1>5. HeadsTypeOK'
  BY <1>1, <1>4 DEF AppointCommit, TypeOK, HeadsTypeOK
<1>6. PlacedInUnits' /\ HeadsAreOfUnits'
  <2>1. \A i \in Items : head[i] # Nobody => head[i] \in Employees
    BY DEF TypeOK, HeadsTypeOK
  <2>. QED BY <1>1, <1>3, <1>4, <2>1 DEF HeadsInv, PlacedInUnits, HeadsAreOfUnits, Units
<1>7. Units' = Units /\ Units \subseteq Items
  BY <1>3 DEF Units, TypeOK, RegistryTypeOK
<1>8. OneHead'
  <2>1. \A i \in Units : i # u /\ items[i].kind = items[u].kind => head'[i] # e
    BY <1>1, <1>3, <1>7, NobodyAssumption DEF Headed
  <2>. QED BY <1>3, <1>7, <2>1 DEF HeadsInv, OneHead
<1>9. ASSUME NEW q \in Procs PROVE HeadsSound(req[q])'
  <2>1. CASE q = p
    BY <1>2, <2>1 DEF HeadsSound, Idle, UnitLabels, FromLabels
  <2>2. CASE q # p
    <3>1. HeadsSound(req[q]) /\ req'[q] = req[q]
      BY <1>2, <2>2 DEF HeadsInv
    <3>2. ASSUME req[q].at = "appointTx"
          PROVE  Headed(req[q].id, items[req[q].item].kind)'
                   \subseteq Headed(req[q].id, items[req[q].item].kind)
      <4>1. req[q].id = e => items[req[q].item].kind # items[u].kind
        BY <1>3, <2>2, <3>2 DEF HeadsInv, AppointmentsAreApart, At
      <4>2. req[q].id \in Employees /\ req[q].id # Nobody
        BY <3>2, ItemFields, NobodyAssumption DEF TypeOK, UnitLabels, FromLabels
      <4>. QED BY <1>3, <1>7, <3>1, <4>1, <4>2 DEF Headed
    <3>3. req[q].at \in FromLabels => led[req[q].id] \subseteq led'[req[q].id]
      BY <1>4, FromFields DEF TypeOK
    <3>. QED BY <1>3, <1>7, <3>1, <3>2, <3>3 DEF HeadsSound
  <2>. QED BY <2>1, <2>2
<1>10. AppointmentsAreApart'
  BY <1>2, <1>3 DEF HeadsInv, AppointmentsAreApart, At, Idle
<1>. QED BY <1>5, <1>6, <1>8, <1>9, <1>10 DEF HeadsInv

\* Taking heads away.
LEMMA DisconnectStep ==
  ASSUME TypeOK, HeadsInv, UNCHANGED <<items, place, wasIn, led>>,
         NEW p \in Procs, NEW k \in Continuation, Goto(p, k), HeadsSound(k), k.at # "appointTx",
         NEW S,
         head' \in [Items -> Employees \cup {Nobody}],
         \A i \in Items : head'[i] = IF i \in S THEN Nobody ELSE head[i]
  PROVE  HeadsTypeOK' /\ HeadsInv'
<1>1. \A q \in Procs : req'[q] = IF q = p THEN k ELSE req[q]
  BY GotoType
<1>2. HeadsTypeOK'
  BY DEF TypeOK, HeadsTypeOK
<1>3. PlacedInUnits' /\ HeadsAreOfUnits'
  BY DEF HeadsInv, PlacedInUnits, HeadsAreOfUnits, Units
<1>4. OneHead'
  BY DEF HeadsInv, OneHead, Units, TypeOK, RegistryTypeOK
<1>5. Units' = Units /\ Units \subseteq Items
  BY DEF Units, TypeOK, RegistryTypeOK
<1>6. ASSUME NEW q \in Procs PROVE HeadsSound(req[q])'
  <2>1. CASE q = p
    BY <1>1, <1>5, <2>1 DEF HeadsSound
  <2>2. CASE q # p
    <3>1. HeadsSound(req[q]) /\ req'[q] = req[q]
      BY <1>1, <2>2 DEF HeadsInv
    <3>2. ASSUME req[q].at = "appointTx"
          PROVE  Headed(req[q].id, items[req[q].item].kind)'
                   \subseteq Headed(req[q].id, items[req[q].item].kind)
      <4>1. req[q].id # Nobody
        BY <3>2, ItemFields, NobodyAssumption DEF TypeOK, UnitLabels, FromLabels
      <4>. QED BY <1>5, <3>1, <4>1 DEF Headed
    <3>. QED BY <1>5, <3>1, <3>2 DEF HeadsSound
  <2>. QED BY <2>1, <2>2
<1>7. AppointmentsAreApart'
  BY <1>1 DEF HeadsInv, AppointmentsAreApart, At
<1>. QED BY <1>2, <1>3, <1>4, <1>6, <1>7 DEF HeadsInv

LEMMA RetireInv ==
  ASSUME TypeOK, HeadsInv, UNCHANGED items, NEW p \in Procs, RetireEmployee(p)
  PROVE  (\E k \in HeadsContinuation : Goto(p, k)) /\ HeadsTypeOK' /\ HeadsInv'
<1>. DEFINE S == req[p].from
            k == [at |-> "clearUnit", id |-> req[p].id, item |-> req[p].item]
<1>1. req[p].id \in Employees /\ req[p].item \in Items
  BY FromFields DEF RetireEmployee, At, TypeOK, FromLabels
<1>2. k \in HeadsContinuation
  BY <1>1 DEF HeadsContinuation
<1>3. k \in Continuation
  BY <1>2 DEF Continuation
<1>4. HeadsSound(k) /\ k.at # "appointTx"
  BY DEF RetireEmployee, At, HeadsInv, HeadsSound, UnitLabels, FromLabels
<1>5. /\ head' = [i \in Items |-> IF i \in S THEN Nobody ELSE head[i]]
      /\ Goto(p, k) /\ UNCHANGED <<place, wasIn, led>>
  BY DEF RetireEmployee
<1>6. /\ head' \in [Items -> Employees \cup {Nobody}]
      /\ \A i \in Items : head'[i] = IF i \in S THEN Nobody ELSE head[i]
  BY <1>5 DEF TypeOK, HeadsTypeOK
<1>. HIDE DEF k, S
<1>. QED BY <1>2, <1>3, <1>4, <1>5, <1>6, DisconnectStep

LEMMA ClearInv ==
  ASSUME TypeOK, HeadsInv, UNCHANGED items, NEW p \in Procs, ClearUnit(p)
  PROVE  HeadsTypeOK' /\ HeadsInv'
<1>1. /\ head' \in [Items -> Employees \cup {Nobody}]
      /\ \A i \in Items : head'[i] = IF i \in {req[p].item} THEN Nobody ELSE head[i]
  BY DEF ClearUnit, TypeOK, HeadsTypeOK
<1>2. Goto(p, Idle) /\ UNCHANGED <<items, place, wasIn, led>>
  BY DEF ClearUnit, Finish
<1>. QED BY <1>1, <1>2, IdleSound, DisconnectStep

LEMMA HeadsStepInv ==
  ASSUME TypeOK, HeadsInv, UNCHANGED items, NEW p \in Procs, HeadsArrive(p) \/ HeadsAdvance(p)
  PROVE  \E k \in {Idle} \cup HeadsContinuation : Goto(p, k) /\ HeadsTypeOK' /\ HeadsInv'
<1>1. CASE HeadsArrive(p) \/ AppointFind(p) \/ RetireFind(p)
  <2>1. RegistryTypeOK' /\ UnitsStay
    BY DEF TypeOK, RegistryTypeOK, UnitsStay, Units
  <2>. QED BY <1>1, <2>1, HeadsMoves, HeadsFrame DEF Continuation
<1>2. CASE AppointTx(p)
  BY <1>2, AppointTxInv
<1>3. CASE RetireEmployee(p)
  BY <1>3, RetireInv
<1>4. CASE AppointCommit(p) \/ ClearUnit(p)
  <2>1. Goto(p, Idle)
    BY <1>4 DEF AppointCommit, ClearUnit, Finish
  <2>. QED BY <1>4, <2>1, AppointCommitInv, ClearInv
<1>. QED BY <1>1, <1>2, <1>3, <1>4 DEF HeadsAdvance

\* Placing somebody makes nobody head of anything.
LEMMA PlaceInv ==
  ASSUME TypeOK, HeadsInv, UNCHANGED <<items, req>>,
         NEW e \in Employees, NEW S \in SUBSET Units, PlaceIn(e, S)
  PROVE  HeadsTypeOK' /\ HeadsInv'
<1>1. /\ UNCHANGED <<head, led, items, req>> /\ Units' = Units /\ Units \subseteq Items
      /\ \A i \in Units : items[i].kind \in UnitKinds
  BY DEF PlaceIn, Units, TypeOK, RegistryTypeOK
<1>2. \A k \in UnitKinds : (\E i \in S : items[i].kind = k) =>
        (CHOOSE i \in S : items[i].kind = k) \in S
  OBVIOUS
<1>3. /\ place' \in [Employees -> [UnitKinds -> Items \cup {Nowhere}]]
      /\ \A f \in Employees, k \in UnitKinds :
           place'[f][k] = place[f][k] \/ (f = e /\ place'[f][k] \in S)
  BY <1>1, <1>2 DEF PlaceIn, TypeOK, HeadsTypeOK
<1>4. /\ wasIn' \in [Employees -> SUBSET Items]
      /\ \A f \in Employees : wasIn[f] \subseteq wasIn'[f]
      /\ S \subseteq wasIn'[e]
  BY <1>1 DEF PlaceIn, TypeOK, HeadsTypeOK
<1>5. HeadsTypeOK'
  BY <1>1, <1>3, <1>4 DEF TypeOK, HeadsTypeOK
<1>6. PlacedInUnits'
  BY <1>1, <1>3, <1>4 DEF HeadsInv, PlacedInUnits
<1>7. HeadsAreOfUnits' /\ OneHead'
  <2>1. \A i \in Items : head[i] # Nobody => head[i] \in Employees
    BY DEF TypeOK, HeadsTypeOK
  <2>. QED BY <1>1, <1>4, <2>1 DEF HeadsInv, HeadsAreOfUnits, OneHead
<1>8. ASSUME NEW q \in Procs PROVE HeadsSound(req[q])'
  <2>1. req[q].at \in {"appoint", "appointFound", "appointTx"} => req[q].id \in Employees
    BY ItemFields DEF TypeOK, UnitLabels, FromLabels
  <2>2. HeadsSound(req[q])
    BY DEF HeadsInv
  <2>. QED BY <1>1, <1>4, <2>1, <2>2 DEF HeadsSound, Headed
<1>9. AppointmentsAreApart'
  BY <1>1 DEF HeadsInv, AppointmentsAreApart, At
<1>. QED BY <1>5, <1>6, <1>7, <1>8, <1>9 DEF HeadsInv

-----------------------------------------------------------------------------
(* The composition.                                                        *)

IInv == TypeOK /\ RolesInv /\ RegistryInv /\ HeadsInv

LEMMA InitIInv == Init => IInv
<1>. SUFFICES ASSUME Init PROVE IInv
  OBVIOUS
<1>. USE DEF Init
<1>1. \A p \in Procs : req[p] = Idle
  OBVIOUS
<1>2. RegistryTypeOK
  BY ExistingAssumption DEF RegistryInit, RegistryTypeOK, Row
<1>3. TypeOK
  BY <1>2 DEF TypeOK, RolesInit, RolesTypeOK, HeadsInit, HeadsTypeOK, Continuation
<1>4. RolesInv
  BY <1>1, IdleSound DEF RolesInv, RolesInit
<1>5. RegistryInv
  BY <1>1, IdleSound, ExistingAssumption
  DEF RegistryInv, RegistryInit, IndexedNamesAreUnique, NoNamesakes, Is, In
<1>6. PlacedInUnits
  BY NowhereAssumption DEF HeadsInit, PlacedInUnits
<1>7. HeadsAreOfUnits /\ OneHead
  <2>1. \A i \in Items : head[i] = Nobody
    BY DEF HeadsInit
  <2>. QED BY <2>1, <1>3 DEF HeadsAreOfUnits, OneHead, Units, TypeOK, RegistryTypeOK
<1>8. AppointmentsAreApart /\ \A p \in Procs : HeadsSound(req[p])
  BY <1>1, IdleSound DEF AppointmentsAreApart, At
<1>. QED BY <1>3, <1>4, <1>5, <1>6, <1>7, <1>8 DEF IInv, HeadsInv

\* To a component, what a handler holds of another is nothing to speak of.
LEMMA OthersSound ==
  ASSUME NEW p \in Procs, NEW k \in Continuation
  PROVE  /\ k \notin RolesContinuation => RolesSound(k)
         /\ k \notin RegistryContinuation => RegistrySound(p, k)
         /\ k \notin HeadsContinuation => HeadsSound(k) /\ k.at # "appointTx"
<1>1. CASE k = Idle
  BY <1>1, IdleSound
<1>2. CASE k \in RolesContinuation
  BY <1>2 DEF RolesContinuation, RegistrySound, HeadsSound, UnitLabels, FromLabels
<1>3. CASE k \in RegistryContinuation
  BY <1>3 DEF RegistryContinuation, RolesSound, RoleLabels, ListLabels, HeadsSound, UnitLabels,
     FromLabels
<1>4. CASE k \in HeadsContinuation
  BY <1>4 DEF HeadsContinuation, RolesSound, RoleLabels, ListLabels, RegistrySound
<1>. QED BY <1>1, <1>2, <1>3, <1>4 DEF Continuation

LEMMA ApartContinuations ==
  /\ ({Idle} \cup RolesContinuation) \cap (RegistryContinuation \cup HeadsContinuation) = {}
  /\ ({Idle} \cup RegistryContinuation) \cap (RolesContinuation \cup HeadsContinuation) = {}
  /\ ({Idle} \cup HeadsContinuation) \cap (RolesContinuation \cup RegistryContinuation) = {}
  BY DEF Idle, RolesContinuation, RegistryContinuation, HeadsContinuation

LEMMA RolesStepIInv ==
  ASSUME IInv, NEW p \in Procs, RolesStep(p)
  PROVE  IInv'
<1>1. PICK k \in {Idle} \cup RolesContinuation : Goto(p, k) /\ RolesTypeOK' /\ RolesInv'
  BY RolesStepInv DEF RolesStep, IInv
<1>2. k \in Continuation /\ RegistrySound(p, k) /\ HeadsSound(k) /\ k.at # "appointTx"
  BY OthersSound, ApartContinuations DEF Continuation
<1>3. UNCHANGED <<items, headVars>>
  BY DEF RolesStep
<1>4. RegistryTypeOK' /\ RegistryInv' /\ UnitsStay
  BY <1>1, <1>2, <1>3, RegistryFrame DEF IInv
<1>5. HeadsTypeOK' /\ HeadsInv'
  BY <1>1, <1>2, <1>3, <1>4, HeadsFrame DEF IInv
<1>. QED BY <1>1, <1>2, <1>4, <1>5, GotoType DEF IInv, TypeOK

LEMMA RegistryStepIInv ==
  ASSUME IInv, NEW p \in Procs, RegistryStep(p)
  PROVE  IInv'
<1>1. PICK k \in {Idle} \cup RegistryContinuation :
        Goto(p, k) /\ RegistryTypeOK' /\ RegistryInv' /\ UnitsStay
  BY RegistryStepInv DEF RegistryStep, IInv
<1>2. k \in Continuation /\ RolesSound(k) /\ HeadsSound(k) /\ k.at # "appointTx"
  BY OthersSound, ApartContinuations DEF Continuation
<1>3. UNCHANGED <<roleVars, headVars>>
  BY DEF RegistryStep
<1>4. RolesTypeOK' /\ RolesInv'
  BY <1>1, <1>2, <1>3, RolesFrame DEF IInv
<1>5. HeadsTypeOK' /\ HeadsInv'
  BY <1>1, <1>2, <1>3, HeadsFrame DEF IInv
<1>. QED BY <1>1, <1>2, <1>4, <1>5, GotoType DEF IInv, TypeOK

LEMMA HeadsStepIInv ==
  ASSUME IInv, NEW p \in Procs, HeadsStep(p)
  PROVE  IInv'
<1>1. UNCHANGED <<roleVars, items>>
  BY DEF HeadsStep
<1>2. PICK k \in {Idle} \cup HeadsContinuation : Goto(p, k) /\ HeadsTypeOK' /\ HeadsInv'
  BY <1>1, HeadsStepInv DEF HeadsStep, IInv
<1>3. k \in Continuation /\ RolesSound(k) /\ RegistrySound(p, k)
  BY OthersSound, ApartContinuations DEF Continuation
<1>4. RolesTypeOK' /\ RolesInv'
  BY <1>1, <1>2, <1>3, RolesFrame DEF IInv
<1>5. RegistryTypeOK' /\ RegistryInv'
  BY <1>1, <1>2, <1>3, RegistryFrame DEF IInv
<1>. QED BY <1>2, <1>3, <1>4, <1>5, GotoType DEF IInv, TypeOK

LEMMA FailIInv ==
  ASSUME IInv, NEW p \in Procs, Fail(p)
  PROVE  IInv'
<1>1. UNCHANGED roleVars /\ UNCHANGED items /\ UNCHANGED headVars /\ Goto(p, Idle)
  BY DEF Fail, Abandon, Finish
<1>2. RolesTypeOK' /\ RolesInv'
  BY <1>1, IdleSound, RolesFrame DEF IInv
<1>3. RegistryTypeOK' /\ RegistryInv' /\ UnitsStay
  BY <1>1, IdleSound, RegistryFrame DEF IInv
<1>4. HeadsTypeOK' /\ HeadsInv'
  BY <1>1, <1>3, IdleSound, HeadsFrame DEF IInv
<1>. QED BY <1>1, <1>2, <1>3, <1>4, IdleSound, GotoType DEF IInv, TypeOK

LEMMA AtOnceIInv ==
  ASSUME IInv, AtOnce
  PROVE  IInv'
<1>1. PICK e \in Employees, S \in SUBSET Units : Move(e, S) \/ \E r \in RoleNames : Hire(e, r, S)
  BY DEF AtOnce
<1>2. UNCHANGED <<items, req>> /\ PlaceIn(e, S)
  BY <1>1 DEF Move, Hire
<1>3. HeadsTypeOK' /\ HeadsInv'
  BY <1>2, PlaceInv DEF IInv
<1>4. RegistryTypeOK' /\ RegistryInv'
  BY <1>2 DEF IInv, TypeOK, RegistryTypeOK, RegistryInv, RegistrySound,
     IndexedNamesAreUnique, NoNamesakes, Is, In
<1>5. RolesTypeOK' /\ RolesInv'
  <2>1. CASE Move(e, S)
    BY <1>2, <2>1 DEF Move, roleVars, IInv, TypeOK, RolesTypeOK, RolesInv, RolesSound
  <2>2. ASSUME NEW r \in RoleNames, Hire(e, r, S) PROVE RolesTypeOK' /\ RolesInv'
    BY <1>2, <2>2, HireRoles DEF Hire, IInv
  <2>. QED BY <1>1, <2>1, <2>2
<1>6. req' \in [Procs -> Continuation]
  BY <1>2 DEF IInv, TypeOK
<1>. QED BY <1>3, <1>4, <1>5, <1>6 DEF IInv, TypeOK

LEMMA NextIInv ==
  ASSUME IInv, [Next]_vars
  PROVE  IInv'
<1>1. CASE AtOnce
  BY <1>1, AtOnceIInv
<1>2. ASSUME NEW p \in Procs, RolesStep(p) \/ RegistryStep(p) \/ HeadsStep(p) \/ Fail(p)
      PROVE  IInv'
  BY <1>2, RolesStepIInv, RegistryStepIInv, HeadsStepIInv, FailIInv
<1>3. CASE UNCHANGED vars
  <2>1. UNCHANGED <<req, roles, born, granted, items, place, head, wasIn, led>>
    BY <1>3 DEF vars, roleVars, headVars
  <2>2. TypeOK'
    BY <2>1 DEF IInv, TypeOK, RolesTypeOK, RegistryTypeOK, HeadsTypeOK
  <2>3. RolesInv'
    BY <2>1 DEF IInv, RolesInv, RolesSound
  <2>4. RegistryInv'
    BY <2>1 DEF IInv, RegistryInv, RegistrySound, IndexedNamesAreUnique, NoNamesakes, Is, In
  <2>5. HeadsInv'
    BY <2>1 DEF IInv, HeadsInv, HeadsSound, Headed, Units, PlacedInUnits, HeadsAreOfUnits,
       OneHead, AppointmentsAreApart, At
  <2>. QED BY <2>2, <2>3, <2>4, <2>5 DEF IInv
<1>. QED BY <1>1, <1>2, <1>3 DEF Next

LEMMA SpecIInv == Spec => []IInv
  BY InitIInv, NextIInv, PTL DEF Spec

-----------------------------------------------------------------------------
(* Theorems.                                                               *)

\* The tables of an organization and what its handlers hold have the right shape.
THEOREM TypeCorrect == Spec => []TypeOK
<1>1. IInv => TypeOK
  BY DEF IInv
<1>. QED BY <1>1, SpecIInv, PTL

\* Whatever lists are read, written back late and signed into tokens: nobody but who
\* was created with MANAGEMENT ever has it.
THEOREM ManagementStaysWhereItWas == Spec => []ManagementIsNeverGained
<1>1. ASSUME IInv PROVE ManagementIsNeverGained
  <2>1. \A e \in DOMAIN roles : born[e] # MANAGEMENT =>
          MANAGEMENT \notin RolesIn(roles[e]) \cup granted[e]
    BY <1>1 DEF IInv, RolesInv
  <2>2. ASSUME NEW p \in Procs, "list" \in DOMAIN req[p], born[req[p].id] # MANAGEMENT
        PROVE  MANAGEMENT \notin RolesIn(req[p].list)
    BY <1>1, <2>2, RolesFields DEF IInv, TypeOK, RolesInv, RolesSound
  <2>. QED BY <2>1, <2>2 DEF ManagementIsNeverGained
<1>2. IInv => ManagementIsNeverGained
  BY <1>1
<1>. QED BY <1>2, SpecIInv, PTL

\* A unique index keeps names apart for any number of creations and edits.
THEOREM IndexedNamesStayUnique == Spec => []IndexedNamesAreUnique
<1>1. IInv => IndexedNamesAreUnique
  BY DEF IInv, RegistryInv
<1>. QED BY <1>1, SpecIInv, PTL

\* Where there is none, it takes overlapping creations to give two rows one name.
THEOREM NamesakesAreOfOverlaps == Spec => []NamesakesWereRaced
<1>1. ASSUME IInv PROVE NamesakesWereRaced
  <2>1. \A i, j \in DOMAIN items :
          items[i].kind \notin Editable /\ Is(j, items[i].kind, items[i].name)
            /\ items[i].by = items[j].by => i = j
    BY <1>1 DEF IInv, RegistryInv, NoNamesakes
  <2>2. \A p \in Procs, i \in DOMAIN items :
          At(p, "create") /\ Is(i, req[p].kind, req[p].name)
            => req[p].kind \in Editable \/ items[i].by # p
    BY <1>1 DEF IInv, RegistryInv, RegistrySound, At
  <2>. QED BY <2>1, <2>2 DEF NamesakesWereRaced
<1>2. IInv => NamesakesWereRaced
  BY <1>1
<1>. QED BY <1>2, SpecIInv, PTL

\* However appointments, removals and moves interleave, nobody heads two departments
\* or two teams, and no open appointments are about to make that so.
THEOREM HeadsStayApart == Spec => []OneUnitEach
<1>1. ASSUME IInv PROVE OneUnitEach
  <2>1. \A p \in Procs, i \in Units :
          At(p, "appointTx") /\ head[i] = req[p].id /\ items[i].kind = items[req[p].item].kind
          => i \in req[p].from \cup {req[p].item}
    BY <1>1 DEF IInv, HeadsInv, HeadsSound, Headed, At
  <2>. QED BY <1>1, <2>1 DEF IInv, HeadsInv, OneHead, OneUnitEach
<1>2. IInv => OneUnitEach
  BY <1>1
<1>. QED BY <1>2, SpecIInv, PTL

\* Every head has been placed in the unit: the check of an appointment is not undone
\* by moves, since moving forgets nothing that the check relied on.
THEOREM HeadsWereOnceMembers == Spec => []HeadsWereMembers
<1>1. IInv => HeadsWereMembers
  BY DEF IInv, HeadsInv, HeadsAreOfUnits, HeadsSound, HeadsWereMembers, At, TypeOK, RegistryTypeOK, Units
<1>. QED BY <1>1, SpecIInv, PTL

\* How one unit can lose its head, from a state with IInv: who is in from is what an
\* appointment or a removal had found for its employee.
LEMMA HeadStep ==
  ASSUME IInv, [Next]_vars, NEW i \in Items, head[i] # Nobody, head'[i] # head[i]
  PROVE  \E p \in Procs :
           \/ At(p, "appointTx") /\ (req[p].item = i \/ i \in req[p].from)
           \/ At(p, "retireTx") /\ i \in req[p].from
           \/ At(p, "clearUnit") /\ req[p].item = i
<1>1. ASSUME UNCHANGED head PROVE FALSE
  BY <1>1
<1>2. CASE AtOnce
  BY <1>1, <1>2 DEF AtOnce, Move, Hire, PlaceIn
<1>3. ASSUME NEW p \in Procs, RolesStep(p) \/ RegistryStep(p) \/ Fail(p) PROVE FALSE
  BY <1>1, <1>3 DEF RolesStep, RegistryStep, Fail, headVars
<1>4. ASSUME NEW p \in Procs, HeadsArrive(p) \/ AppointFind(p) \/ AppointTx(p) \/ RetireFind(p)
      PROVE  FALSE
  BY <1>1, <1>4 DEF HeadsArrive, HodRequests, TeamLeadRequests, HeadOfDepartment, TeamLead,
     Appoint, Retire, AppointFind, AppointTx, RetireFind, headVars
<1>5. ASSUME NEW p \in Procs, AppointCommit(p)
      PROVE  At(p, "appointTx") /\ (req[p].item = i \/ i \in req[p].from)
  BY <1>5 DEF AppointCommit
<1>6. ASSUME NEW p \in Procs, RetireEmployee(p)
      PROVE  At(p, "retireTx") /\ i \in req[p].from
  BY <1>6 DEF RetireEmployee
<1>7. ASSUME NEW p \in Procs, ClearUnit(p)
      PROVE  At(p, "clearUnit") /\ req[p].item = i
  BY <1>7 DEF ClearUnit, IInv, TypeOK, HeadsTypeOK
<1>8. CASE UNCHANGED vars
  BY <1>1, <1>8 DEF vars, headVars
<1>. QED BY <1>2, <1>3, <1>4, <1>5, <1>6, <1>7, <1>8 DEF Next, HeadsStep, HeadsAdvance

\* Whatever runs at the same time, a unit's head is replaced, or goes with an appointment
\* or a removal of somebody who has headed the unit, or with a removal that named it.
THEOREM HeadsLeaveOnlySo == Spec => HeadsLeaveForAReason
<1>. DEFINE Step == \A i \in Items : head[i] # Nobody /\ head'[i] # head[i] =>
       \E p \in Procs :
         \/ At(p, "appointTx") /\ (req[p].item = i \/ i \in led[req[p].id])
         \/ At(p, "retireTx") /\ i \in led[req[p].id]
         \/ At(p, "clearUnit") /\ req[p].item = i
<1>1. IInv => \A p \in Procs, i \in Items :
        (At(p, "appointTx") \/ At(p, "retireTx")) /\ i \in req[p].from => i \in led[req[p].id]
  BY DEF IInv, HeadsInv, HeadsSound, FromLabels, At
<1>2. IInv /\ [Next]_vars => [Step]_<<req, roleVars, items, headVars>>
  BY <1>1, HeadStep
<1>. QED BY <1>2, SpecIInv, PTL DEF Spec, HeadsLeaveForAReason

-----------------------------------------------------------------------------
(* Organization implements OrgChart.                                       *)

LEMMA ChartInit == Init => Chart!Init
<1>. SUFFICES ASSUME Init PROVE Chart!Init
  OBVIOUS
<1>1. Units \in SUBSET Items /\ KindOf \in [Units -> Chart!UnitKinds]
  BY ExistingAssumption DEF Init, RegistryInit, Units, UnitKinds, KindOf, Chart!UnitKinds
<1>. QED BY <1>1 DEF Init, HeadsInit, Chart!Init

LEMMA SameChart ==
  ASSUME UNCHANGED <<items, head, wasIn, led>>
  PROVE  UNCHANGED Chart!vars
  BY DEF Chart!vars, KindOf, Units

LEMMA ChartHeaded == \A e \in Employees : \A kind : Chart!HeadedBy(e, kind) = Headed(e, kind)
  BY DEF Chart!HeadedBy, Headed, KindOf

\* A row made in one of the tables of units founds a unit; nothing else that happens
\* to names concerns the chart.
LEMMA RegistryChart ==
  ASSUME IInv, NEW p \in Procs, RegistryStep(p)
  PROVE  Chart!Next \/ UNCHANGED Chart!vars
<1>1. UNCHANGED <<head, wasIn, led>>
  BY DEF RegistryStep, headVars
<1>2. UnitsStay
  BY RegistryStepInv DEF RegistryStep, IInv
<1>3. CASE \A i \in DOMAIN items' : i \in DOMAIN items /\ items'[i].kind = items[i].kind
  <2>1. Units' = Units /\ \A i \in Units : items'[i].kind = items[i].kind
    BY <1>2, <1>3 DEF UnitsStay, Units
  <2>. QED BY <1>1, <2>1 DEF Chart!vars, KindOf
<1>4. CASE CreateCommit(p)
  <2>1. PICK i \in Items \ DOMAIN items :
          items' = Insert(items, i, [kind |-> req[p].kind, name |-> req[p].name, by |-> p])
    BY <1>4 DEF CreateCommit, Fresh
  <2>2. /\ DOMAIN items' = DOMAIN items \cup {i} /\ items'[i].kind = req[p].kind
        /\ \A j \in DOMAIN items : items'[j].kind = items[j].kind
    BY <2>1 DEF Insert
  <2>3. CASE req[p].kind \notin UnitKinds
    <3>1. Units' = Units /\ \A j \in Units : items'[j].kind = items[j].kind
      BY <2>2, <2>3 DEF Units
    <3>. QED BY <1>1, <3>1 DEF Chart!vars, KindOf
  <2>4. CASE req[p].kind \in UnitKinds
    <3>1. Units' = Units \cup {i} /\ \A j \in Units : items'[j].kind = items[j].kind
      BY <2>2, <2>4 DEF Units
    <3>2. i \notin Units
      BY DEF Units
    <3>3. Chart!Found(i, req[p].kind)
      BY <1>1, <2>2, <3>1, <3>2 DEF Chart!Found, KindOf
    <3>. QED BY <2>4, <3>3 DEF Chart!Next, Chart!UnitKinds, UnitKinds
  <2>. QED BY <2>3, <2>4
<1>5. RegistryArrive(p) => UNCHANGED items
  BY RegistryRequests DEF Create, Rename, Remove
<1>6. RenameCommit(p) \/ RemoveCommit(p) =>
        \A i \in DOMAIN items' : i \in DOMAIN items /\ items'[i].kind = items[i].kind
  BY DEF RenameCommit, RemoveCommit, IInv, TypeOK, RegistryTypeOK, Row
<1>. QED BY <1>3, <1>4, <1>5, <1>6 DEF RegistryStep, RegistryAdvance

\* The commit of an appointment takes away the one unit it had found, if any.
LEMMA AppointChart ==
  ASSUME IInv, NEW p \in Procs, HeadsStep(p), AppointCommit(p)
  PROVE  Chart!Next
<1>. DEFINE e == req[p].id
            i == req[p].item
            from == req[p].from
<1>1. /\ e \in Employees /\ i \in Items /\ i \in Units /\ i \in wasIn[e]
      /\ Headed(e, items[i].kind) \subseteq from \cup {i}
      /\ \A j \in from : j \in Units /\ items[j].kind = items[i].kind /\ j \in led[e]
      /\ \A j, l \in from : j = l
  BY ItemFields DEF AppointCommit, At, IInv, HeadsInv, HeadsSound, UnitLabels, FromLabels,
     ItemLabels, TypeOK
<1>2. Units \subseteq Items /\ head \in [Items -> Employees \cup {Nobody}]
  BY DEF Units, IInv, TypeOK, RegistryTypeOK, HeadsTypeOK
<1>3. PICK f \in Units : (f \in from \/ f = i) /\ from \cup {i} = {f, i}
  BY <1>1
<1>4. head' = [head EXCEPT ![f] = Nobody, ![i] = e]
  BY <1>1, <1>2, <1>3 DEF AppointCommit
<1>5. /\ KindOf[f] = KindOf[i] /\ f \in DOMAIN KindOf /\ i \in DOMAIN KindOf
      /\ Chart!HeadedBy(e, KindOf[i]) \subseteq {f, i}
  BY <1>1, <1>3, ChartHeaded DEF KindOf
<1>6. UNCHANGED <<KindOf, wasIn>> /\ led' = [led EXCEPT ![e] = @ \cup {i}]
  BY DEF HeadsStep, AppointCommit, KindOf, Units
<1>7. Chart!Appoint(e, i, f)
  BY <1>1, <1>3, <1>4, <1>5, <1>6 DEF Chart!Appoint
<1>. QED BY <1>1, <1>2, <1>7 DEF Chart!Next

\* Each of the two updates of a removal leaves one department without a head, if any.
LEMMA RemovalChart ==
  ASSUME IInv, NEW p \in Procs, HeadsStep(p), RetireEmployee(p) \/ ClearUnit(p)
  PROVE  Chart!Next \/ UNCHANGED Chart!vars
<1>1. UNCHANGED <<KindOf, wasIn, led>>
  BY DEF HeadsStep, RetireEmployee, ClearUnit, KindOf, Units
<1>2. Units \subseteq Items /\ head \in [Items -> Employees \cup {Nobody}]
  BY DEF Units, IInv, TypeOK, RegistryTypeOK, HeadsTypeOK
<1>3. ASSUME NEW i \in Units, items[i].kind = "department", head' = [head EXCEPT ![i] = Nobody]
      PROVE  Chart!Next
  <2>1. Chart!Vacate(i)
    BY <1>1, <1>3 DEF Chart!Vacate, KindOf
  <2>. QED BY <1>2, <2>1 DEF Chart!Next
<1>4. CASE RetireEmployee(p)
  <2>1. /\ \A i \in req[p].from : i \in Units /\ items[i].kind = "department"
        /\ \A i, j \in req[p].from : i = j
    BY <1>4 DEF RetireEmployee, At, IInv, HeadsInv, HeadsSound, FromLabels
  <2>2. CASE req[p].from = {}
    <3>1. UNCHANGED head
      BY <1>2, <1>4, <2>2 DEF RetireEmployee
    <3>. QED BY <1>1, <3>1 DEF Chart!vars
  <2>3. CASE req[p].from # {}
    <3>1. PICK i \in req[p].from : req[p].from = {i}
      BY <2>1, <2>3
    <3>2. head' = [head EXCEPT ![i] = Nobody]
      BY <1>2, <1>4, <3>1 DEF RetireEmployee
    <3>. QED BY <1>3, <2>1, <3>2
  <2>. QED BY <2>2, <2>3
<1>5. CASE ClearUnit(p)
  BY <1>3, <1>5 DEF ClearUnit, At, IInv, HeadsInv, HeadsSound, UnitLabels
<1>. QED BY <1>4, <1>5

LEMMA ChartNext == IInv /\ [Next]_vars => [Chart!Next]_(Chart!vars)
<1>. SUFFICES ASSUME IInv, [Next]_vars PROVE Chart!Next \/ UNCHANGED Chart!vars
  OBVIOUS
<1>1. CASE UNCHANGED vars
  BY <1>1, SameChart DEF vars, headVars
<1>2. CASE AtOnce
  <2>1. PICK e \in Employees, S \in SUBSET Units : PlaceIn(e, S) /\ UNCHANGED items
    BY <1>2 DEF AtOnce, Move, Hire
  <2>2. S \subseteq DOMAIN KindOf /\ UNCHANGED <<KindOf, head, led>> /\ S \in SUBSET Items
    BY <2>1 DEF PlaceIn, KindOf, Units, IInv, TypeOK, RegistryTypeOK
  <2>3. Chart!Place(e, S)
    BY <2>1, <2>2 DEF PlaceIn, Chart!Place
  <2>. QED BY <2>2, <2>3 DEF Chart!Next
<1>3. ASSUME NEW p \in Procs, RolesStep(p) \/ Fail(p) PROVE UNCHANGED Chart!vars
  BY <1>3, SameChart DEF RolesStep, Fail, headVars
<1>4. ASSUME NEW p \in Procs, HeadsStep(p) PROVE Chart!Next \/ UNCHANGED Chart!vars
  <2>1. CASE HeadsArrive(p) \/ AppointFind(p) \/ AppointTx(p) \/ RetireFind(p)
    <3>1. UNCHANGED <<items, head, wasIn, led>>
      BY <1>4, <2>1 DEF HeadsStep, HeadsArrive, HodRequests, TeamLeadRequests,
         HeadOfDepartment, TeamLead, Appoint, Retire, AppointFind, AppointTx, RetireFind, headVars
    <3>. QED BY <3>1, SameChart
  <2>. QED BY <1>4, <2>1, AppointChart, RemovalChart DEF HeadsStep, HeadsAdvance
<1>. QED BY <1>1, <1>2, <1>3, <1>4, RegistryChart DEF Next

\* The organization keeps the promises of OrgChart: what an appointment found before it
\* wrote is all that its commit takes away, and nothing is left that it should have.
THEOREM Refinement == Spec => ImplementsChart
  BY ChartInit, ChartNext, SpecIInv, PTL DEF Spec, Chart!Spec, ImplementsChart

\* No step of the chart takes the lead of a team away, but the appointment elsewhere of
\* somebody who has led the team.
LEMMA ChartLeads ==
  ASSUME Chart!Next, NEW i \in DOMAIN KindOf, i \in Items, KindOf[i] = "team",
         head[i] # Nobody, head \in [Items -> Employees \cup {Nobody}]
  PROVE  \/ head'[i] # Nobody
         \/ \E e \in Employees, j \in DOMAIN KindOf \ {i} :
              i \in led[e] /\ KindOf[j] = "team" /\ head'[j] = e
<1>1. CASE UNCHANGED head
  BY <1>1
<1>2. ASSUME NEW j \in Items, Chart!Vacate(j) PROVE head'[i] = head[i]
  BY <1>2 DEF Chart!Vacate
<1>3. ASSUME NEW e \in Employees, NEW j \in Items, NEW f \in Items, Chart!Appoint(e, j, f)
      PROVE  \/ head'[i] # Nobody
             \/ /\ j \in DOMAIN KindOf \ {i} /\ i \in led[e]
                /\ KindOf[j] = "team" /\ head'[j] = e
  <2>1. e # Nobody /\ j \in DOMAIN KindOf /\ KindOf[f] = KindOf[j] /\ (f \in led[e] \/ f = j)
        /\ head' = [head EXCEPT ![f] = Nobody, ![j] = e]
    BY <1>3, NobodyAssumption DEF Chart!Appoint
  <2>2. head'[j] = e
    BY <2>1
  <2>3. i # f => head'[i] # Nobody
    BY <2>1
  <2>. QED BY <2>1, <2>2, <2>3
<1>. QED BY <1>1, <1>2, <1>3 DEF Chart!Next, Chart!Found, Chart!Place

\* A team keeps a lead for good, unless somebody who has led it is appointed to another
\* team: a consequence of OrgChart, and so of the code that it stands for.
THEOREM TeamsStayLedOn == Spec => TeamsStayLed
<1>. DEFINE Step == \A i \in DOMAIN KindOf : KindOf[i] = "team" /\ head[i] # Nobody =>
       \/ head'[i] # Nobody
       \/ \E e \in Employees, j \in DOMAIN KindOf \ {i} :
            i \in led[e] /\ KindOf[j] = "team" /\ head'[j] = e
<1>1. IInv => DOMAIN KindOf \subseteq Items /\ head \in [Items -> Employees \cup {Nobody}]
  BY DEF IInv, TypeOK, RegistryTypeOK, HeadsTypeOK, KindOf, Units
<1>2. IInv /\ [Chart!Next]_(Chart!vars) => [Step]_(Chart!vars)
  BY <1>1, ChartLeads
<1>. QED BY <1>2, ChartNext, SpecIInv, PTL DEF Spec, TeamsStayLed, Chart!LedOn

-----------------------------------------------------------------------------
(* The limits of a list of roles hold as long as the requests that change   *)
(* the roles of one employee do not overlap.                               *)

LEMMA OneRole ==
  ASSUME NEW r \in RoleNames
  PROVE  WithinLimits(Only(r)) /\ HasOne(Only(r))
  BY DEF WithinLimits, Only, HasOne, RolesIn

LEMMA NotSeveral ==
  ASSUME NEW list, WithinLimits(list), ~ HasSeveral(list)
  PROVE  HasOne(list)
  BY DEF WithinLimits, HasSeveral

LEMMA RoleAdded ==
  ASSUME NEW list \in Lists, NEW r \in RoleNames, HasOne(list), r \notin RolesIn(list)
  PROVE  WithinLimits([s \in RoleNames |-> list[s] + (IF s = r THEN 1 ELSE 0)])
<1>. DEFINE new == [s \in RoleNames |-> list[s] + (IF s = r THEN 1 ELSE 0)]
<1>1. PICK o \in RoleNames : \A s \in RoleNames : list[s] = IF s = o THEN 1 ELSE 0
  BY DEF HasOne, Only
<1>2. r # o
  BY <1>1 DEF RolesIn
<1>3. \A s \in RoleNames : new[s] = IF s \in {o, r} THEN 1 ELSE 0
  BY <1>1, <1>2
<1>. HIDE DEF new
<1>4. RolesIn(new) = {o, r}
  BY <1>1, <1>3 DEF RolesIn
<1>5. WithinLimits(new)
  BY <1>3, <1>4 DEF WithinLimits
<1>. QED BY <1>5 DEF new

LEMMA RoleRemoved ==
  ASSUME NEW list \in Lists, NEW r \in RoleNames, WithinLimits(list), ~ HasOne(list)
  PROVE  WithinLimits([list EXCEPT ![r] = 0])
<1>. DEFINE new == [list EXCEPT ![r] = 0]
<1>1. \A s \in RoleNames : list[s] = IF s \in RolesIn(list) THEN 1 ELSE 0
  BY DEF WithinLimits, RolesIn, Lists
<1>2. \E s \in RolesIn(list) : s # r
  <2>1. SUFFICES ASSUME RolesIn(list) \subseteq {r} PROVE FALSE
    OBVIOUS
  <2>2. RolesIn(list) = {r}
    BY <2>1 DEF WithinLimits
  <2>3. list = Only(r)
    BY <1>1, <2>2 DEF Only, Lists
  <2>. QED BY <2>3 DEF HasOne
<1>3. \A s \in RoleNames : new[s] = IF s = r THEN 0 ELSE list[s]
  BY DEF Lists
<1>. HIDE DEF new
<1>4. RolesIn(new) = RolesIn(list) \ {r}
  BY <1>3 DEF RolesIn
<1>5. WithinLimits(new)
  BY <1>2, <1>3, <1>4 DEF WithinLimits
<1>. QED BY <1>5 DEF new

\* What a request has found out is still true, since nobody else changes the list.
LimitsSound(k) ==
  /\ k.at = "checkMax" => k.role \notin RolesIn(roles[k.id])
  /\ k.at \in {"addRole", "addRoleTx"} => HasOne(roles[k.id]) /\ k.role \notin RolesIn(roles[k.id])
  /\ k.at \in {"removeRole", "removeRoleTx"} => ~ HasOne(roles[k.id])
  /\ k.at \in {"addRoleTx", "removeRoleTx"} => k.list = roles[k.id]

LimitsInv == RolesWithinLimits /\ \A p \in Procs : LimitsSound(req[p])

\* Nobody's list changes, though employees may be hired.
RolesStay ==
  \A e \in DOMAIN roles' : IF e \in DOMAIN roles THEN roles'[e] = roles[e] ELSE WithinLimits(roles'[e])

LEMMA LimitsFrame ==
  ASSUME IInv, LimitsInv, DOMAIN roles \subseteq DOMAIN roles', RolesStay,
         NEW p \in Procs, NEW k \in Continuation, Goto(p, k), LimitsSound(k), RolesSound(k)
  PROVE  LimitsInv'
<1>1. \A q \in Procs : req'[q] = IF q = p THEN k ELSE req[q]
  BY GotoType DEF IInv
<1>2. ASSUME NEW c, RolesSound(c), LimitsSound(c) PROVE LimitsSound(c)'
  BY <1>2 DEF RolesSound, RoleLabels, ListLabels, LimitsSound, RolesStay
<1>3. \A q \in Procs : LimitsSound(req[q])'
  BY <1>1, <1>2 DEF LimitsInv, IInv, RolesInv
<1>4. RolesWithinLimits'
  BY DEF LimitsInv, RolesWithinLimits, RolesStay
<1>. QED BY <1>3, <1>4 DEF LimitsInv

\* One that writes a list within the limits disturbs nobody: it is alone.
LEMMA LimitsWrite ==
  ASSUME IInv, LimitsInv, RoleChangesApart, NEW p \in Procs, NEW e \in Employees,
         e \in DOMAIN roles, ChangesRoles(p, e), Finish(p), NEW list, WithinLimits(list),
         roles' = [roles EXCEPT ![e] = list]
  PROVE  LimitsInv'
<1>1. \A q \in Procs : req'[q] = IF q = p THEN Idle ELSE req[q]
  BY IdleSound, GotoType DEF Finish, IInv
<1>2. DOMAIN roles' = DOMAIN roles /\ \A f \in DOMAIN roles : roles'[f] = IF f = e THEN list ELSE roles[f]
  OBVIOUS
<1>3. RolesWithinLimits'
  BY <1>2 DEF LimitsInv, RolesWithinLimits
<1>4. LimitsSound(Idle)'
  BY DEF LimitsSound, Idle
<1>5. ASSUME NEW q \in Procs, q # p PROVE LimitsSound(req[q])'
  <2>1. ~ ChangesRoles(q, e)
    BY <1>5 DEF RoleChangesApart
  <2>2. LimitsSound(req[q]) /\ RolesSound(req[q]) /\ req'[q] = req[q]
    BY <1>1, <1>5 DEF LimitsInv, IInv, RolesInv
  <2>. QED BY <1>2, <2>1, <2>2 DEF ChangesRoles, LimitsSound, RolesSound, RoleLabels, ListLabels
<1>. QED BY <1>1, <1>3, <1>4, <1>5 DEF LimitsInv

\* The steps of role requests that read.
LEMMA LimitsReads ==
  ASSUME IInv, LimitsInv, NEW p \in Procs,
         RolesArrive(p) \/ CheckMaximumNumOfRoles(p) \/ AddRoleRead(p) \/ RemoveRoleRead(p)
  PROVE  \E k \in Continuation :
           Goto(p, k) /\ LimitsSound(k) /\ RolesSound(k) /\ UNCHANGED roleVars
<1>1. PICK k \in RolesContinuation : Goto(p, k) /\ RolesSound(k) /\ UNCHANGED roleVars
  BY RolesMoves DEF IInv
<1>2. k \in Continuation /\ req'[p] = k /\ UNCHANGED roles
  BY <1>1 DEF Continuation, Goto, IInv, TypeOK, roleVars
<1>3. LimitsSound(req[p]) /\ RolesSound(req[p]) /\ req[p] \in Continuation
  BY DEF LimitsInv, IInv, RolesInv, TypeOK
<1>4. CASE RolesArrive(p)
  <2>1. ASSUME NEW e \in Employees, NEW r \in RoleNames,
               ChangeRole(p, e, r) \/ AddRole(p, e, r) \/ RemoveRole(p, e, r) \/ Login(p, e)
        PROVE  LimitsSound(req'[p])
    BY <1>2, <2>1 DEF ChangeRole, AddRole, RemoveRole, Login, Goto, LimitsSound, IInv, TypeOK
  <2>2. ASSUME NEW e \in Employees, Login(p, e) PROVE LimitsSound(req'[p])
    BY <1>2, <2>2 DEF Login, Goto, LimitsSound, IInv, TypeOK
  <2>. QED BY <1>1, <1>2, <1>4, <2>1, <2>2 DEF RolesArrive
<1>5. CASE CheckMaximumNumOfRoles(p)
  <2>1. req[p].at = "checkMax" /\ HasOne(roles[req[p].id]) /\ req[p].role \notin RolesIn(roles[req[p].id])
    BY <1>3, <1>5, NotSeveral
    DEF CheckMaximumNumOfRoles, At, LimitsInv, RolesWithinLimits, LimitsSound, RolesSound, RoleLabels
  <2>2. req[p] \in [at : {"checkMax"}, id : Employees, role : RoleNames]
    BY <2>1, <1>3 DEF Continuation, Idle, RolesContinuation, RegistryContinuation, HeadsContinuation
  <2>3. k.at = "addRole" /\ k.id = req[p].id /\ k.role = req[p].role
    BY <1>2, <1>5, <2>2 DEF CheckMaximumNumOfRoles, Goto, IInv, TypeOK
  <2>4. LimitsSound(k)
    BY <2>1, <2>3 DEF LimitsSound
  <2>. QED BY <1>1, <1>2, <2>4
<1>6. CASE AddRoleRead(p) \/ RemoveRoleRead(p)
  <2>1. LimitsSound(req'[p])
    BY <1>3, <1>6 DEF AddRoleRead, RemoveRoleRead, At, Goto, LimitsSound, IInv, TypeOK
  <2>. QED BY <1>1, <1>2, <2>1
<1>. QED BY <1>4, <1>5, <1>6

\* The steps that write, and a log-in.
LEMMA LimitsCommits ==
  ASSUME IInv, LimitsInv, RoleChangesApart, NEW p \in Procs,
         ChangeRoleCommit(p) \/ AddRoleCommit(p) \/ RemoveRoleCommit(p) \/ SignToken(p)
  PROVE  LimitsInv'
<1>. DEFINE e == req[p].id
            r == req[p].role
            list == req[p].list
<1>1. req[p] \in Continuation /\ RolesSound(req[p]) /\ LimitsSound(req[p])
  BY DEF LimitsInv, IInv, RolesInv, TypeOK
<1>2. CASE ChangeRoleCommit(p)
  <2>1. e \in DOMAIN roles /\ e \in Employees /\ r \in RoleNames /\ ChangesRoles(p, e)
    BY <1>1, <1>2, RolesFields DEF ChangeRoleCommit, At, RolesSound, RoleLabels, ListLabels, ChangesRoles
  <2>. QED BY <1>2, <2>1, OneRole, LimitsWrite DEF ChangeRoleCommit
<1>3. CASE AddRoleCommit(p)
  <2>1. /\ e \in DOMAIN roles /\ e \in Employees /\ r \in RoleNames /\ ChangesRoles(p, e)
        /\ list \in Lists /\ HasOne(list) /\ r \notin RolesIn(list)
    BY <1>1, <1>3, RolesFields
    DEF AddRoleCommit, At, RolesSound, LimitsSound, RoleLabels, ListLabels, ChangesRoles
  <2>. DEFINE new == [s \in RoleNames |-> list[s] + (IF s = r THEN 1 ELSE 0)]
  <2>2. WithinLimits(new)
    BY <2>1, RoleAdded
  <2>3. roles' = [roles EXCEPT ![e] = new] /\ Finish(p)
    BY <1>3 DEF AddRoleCommit
  <2>. HIDE DEF new
  <2>. QED BY <2>1, <2>2, <2>3, LimitsWrite
<1>4. CASE RemoveRoleCommit(p)
  <2>1. /\ e \in DOMAIN roles /\ e \in Employees /\ r \in RoleNames /\ ChangesRoles(p, e)
        /\ list \in Lists /\ ~ HasOne(list) /\ WithinLimits(list)
    BY <1>1, <1>4, RolesFields
    DEF RemoveRoleCommit, At, RolesSound, LimitsSound, LimitsInv, RolesWithinLimits,
        RoleLabels, ListLabels, ChangesRoles
  <2>2. WithinLimits([list EXCEPT ![r] = 0])
    BY <2>1, RoleRemoved
  <2>. QED BY <1>4, <2>1, <2>2, LimitsWrite DEF RemoveRoleCommit
<1>5. CASE SignToken(p)
  <2>1. Goto(p, Idle) /\ UNCHANGED roles
    BY <1>5 DEF SignToken, Finish
  <2>2. RolesStay /\ DOMAIN roles \subseteq DOMAIN roles' /\ LimitsSound(Idle)
    BY <2>1 DEF RolesStay, LimitsSound, Idle
  <2>. QED BY <2>1, <2>2, IdleSound, LimitsFrame
<1>. QED BY <1>2, <1>3, <1>4, <1>5

\* The other components do not know of these requests.
LEMMA OthersLimits ==
  ASSUME NEW k \in {Idle} \cup RegistryContinuation \cup HeadsContinuation
  PROVE  k \in Continuation /\ LimitsSound(k) /\ RolesSound(k)
  BY DEF Idle, RegistryContinuation, HeadsContinuation, LimitsSound, RolesSound, RoleLabels,
     ListLabels, Continuation

LEMMA LimitsNext ==
  ASSUME IInv, LimitsInv, RoleChangesApart, [Next]_vars
  PROVE  LimitsInv'
<1>1. ASSUME NEW p \in Procs, RolesStep(p) PROVE LimitsInv'
  <2>1. CASE RolesArrive(p) \/ CheckMaximumNumOfRoles(p) \/ AddRoleRead(p) \/ RemoveRoleRead(p)
    <3>1. PICK k \in Continuation :
            Goto(p, k) /\ LimitsSound(k) /\ RolesSound(k) /\ UNCHANGED roleVars
      BY <2>1, LimitsReads
    <3>2. RolesStay /\ DOMAIN roles \subseteq DOMAIN roles'
      BY <3>1 DEF RolesStay, roleVars
    <3>. QED BY <3>1, <3>2, LimitsFrame
  <2>. QED BY <1>1, <2>1, LimitsCommits DEF RolesStep, RolesAdvance
<1>2. ASSUME NEW p \in Procs, RegistryStep(p) \/ HeadsStep(p) \/ Fail(p) PROVE LimitsInv'
  <2>1. PICK k \in {Idle} \cup RegistryContinuation \cup HeadsContinuation : Goto(p, k)
    BY <1>2, RegistryStepInv, HeadsStepInv
    DEF RegistryStep, HeadsStep, Fail, Abandon, Finish, IInv
  <2>2. RolesStay /\ DOMAIN roles \subseteq DOMAIN roles'
    BY <1>2 DEF RolesStay, RegistryStep, HeadsStep, Fail, roleVars
  <2>. QED BY <2>1, <2>2, OthersLimits, LimitsFrame
<1>3. CASE AtOnce
  <2>1. UNCHANGED req
    BY <1>3 DEF AtOnce, Move, Hire
  <2>2. DOMAIN roles \subseteq DOMAIN roles' /\ RolesStay
    <3>1. ASSUME NEW e \in Employees, NEW r \in RoleNames, HireAs(e, r)
          PROVE  DOMAIN roles \subseteq DOMAIN roles' /\ RolesStay
      BY <3>1, OneRole DEF HireAs, Insert, RolesStay
    <3>2. CASE UNCHANGED roles
      BY <3>2 DEF RolesStay
    <3>. QED BY <1>3, <3>1, <3>2 DEF AtOnce, Move, Hire, roleVars
  <2>3. ASSUME NEW q \in Procs PROVE LimitsSound(req[q])'
    BY <2>1, <2>2 DEF LimitsInv, LimitsSound, IInv, RolesInv, RolesSound, RoleLabels,
       ListLabels, RolesStay
  <2>4. RolesWithinLimits'
    BY <2>2 DEF LimitsInv, RolesWithinLimits, RolesStay
  <2>. QED BY <2>3, <2>4 DEF LimitsInv
<1>4. CASE UNCHANGED vars
  BY <1>4 DEF vars, roleVars, LimitsInv, RolesWithinLimits, LimitsSound
<1>. QED BY <1>1, <1>2, <1>3, <1>4 DEF Next

\* As long as no two requests that change the roles of one employee overlap, whatever
\* else does, everybody has one role or two, and none twice.
THEOREM RolesStayWithinLimits == Spec /\ []RoleChangesApart => []RolesWithinLimits
<1>1. Init => LimitsInv
  BY DEF Init, RolesInit, LimitsInv, RolesWithinLimits, LimitsSound, Idle
<1>2. IInv /\ LimitsInv /\ RoleChangesApart /\ [Next]_vars => LimitsInv'
  BY LimitsNext
<1>3. LimitsInv => RolesWithinLimits
  BY DEF LimitsInv
<1>. QED BY <1>1, <1>2, <1>3, SpecIInv, PTL DEF Spec

-----------------------------------------------------------------------------
(* As long as no two handlers hold what they have found, an employee's     *)
(* appointment or removal takes nobody else's unit away.                   *)

\* What a handler has found is headed by its employee, or by nobody any more.
FoundSound(k) ==
  k.at \in FromLabels => \A i \in k.from : head[i] = k.id \/ head[i] = Nobody

FoundInv == \A p \in Procs : FoundSound(req[p])

\* A step that makes nobody the head of anything.
LEMMA FoundFrame ==
  ASSUME IInv, FoundInv, NEW p \in Procs, NEW k \in Continuation, Goto(p, k), FoundSound(k)',
         \A i \in Items : head'[i] = head[i] \/ head'[i] = Nobody
  PROVE  FoundInv'
<1>1. \A q \in Procs : req'[q] = IF q = p THEN k ELSE req[q]
  BY GotoType DEF IInv
<1>2. ASSUME NEW q \in Procs, q # p PROVE FoundSound(req[q])'
  <2>1. req'[q] = req[q] /\ FoundSound(req[q])
    BY <1>1, <1>2 DEF FoundInv
  <2>2. req[q].at \in FromLabels => req[q].from \subseteq Items
    BY FromFields DEF IInv, TypeOK
  <2>. QED BY <2>1, <2>2 DEF FoundSound
<1>. QED BY <1>1, <1>2 DEF FoundInv

\* The steps of heads.
LEMMA FoundHeads ==
  ASSUME IInv, FoundInv, HeadChangesApart, NEW p \in Procs, HeadsStep(p)
  PROVE  FoundInv'
<1>1. PICK k \in {Idle} \cup HeadsContinuation : Goto(p, k)
  BY HeadsStepInv DEF HeadsStep, IInv
<1>2. k \in Continuation /\ req'[p] = k /\ req[p] \in Continuation
  BY <1>1, GotoType DEF Continuation, IInv, TypeOK
<1>3. CASE HeadsArrive(p)
  <2>1. req'[p].at \notin FromLabels /\ UNCHANGED head
    BY <1>3 DEF HeadsArrive, HodRequests, TeamLeadRequests, HeadOfDepartment, TeamLead,
       Appoint, Retire, Goto, FromLabels, headVars, IInv, TypeOK
  <2>. QED BY <1>1, <1>2, <2>1, FoundFrame DEF FoundSound
<1>4. CASE AppointFind(p) \/ RetireFind(p)
  <2>1. /\ UNCHANGED head
        /\ \E kind : req'[p].from = Headed(req[p].id, kind) /\ req'[p].id = req[p].id
    BY <1>4 DEF AppointFind, RetireFind, Goto, headVars, IInv, TypeOK
  <2>2. FoundSound(k)'
    BY <1>2, <2>1 DEF FoundSound, Headed
  <2>. QED BY <1>1, <1>2, <2>1, <2>2, FoundFrame
<1>5. CASE AppointTx(p)
  <2>1. UNCHANGED head /\ req[p].at \in FromLabels
    BY <1>5 DEF AppointTx, At, FromLabels, headVars
  <2>2. req'[p].from = req[p].from /\ req'[p].id = req[p].id
    BY <1>2, <1>5, <2>1, FromFields DEF AppointTx, Goto, IInv, TypeOK
  <2>3. FoundSound(k)'
    BY <1>2, <2>1, <2>2 DEF FoundInv, FoundSound
  <2>. QED BY <1>1, <1>2, <2>1, <2>3, FoundFrame
<1>6. CASE AppointCommit(p)
  <2>1. HasFound(p) /\ \A q \in Procs : req'[q] = IF q = p THEN Idle ELSE req[q]
    BY <1>6, GotoType DEF AppointCommit, At, HasFound, Finish, Continuation, IInv
  <2>. QED BY <2>1 DEF HeadChangesApart, HasFound, FoundInv, FoundSound, FromLabels, Idle
<1>7. CASE RetireEmployee(p) \/ ClearUnit(p)
  <2>1. req'[p].at \notin FromLabels
    BY <1>7 DEF RetireEmployee, ClearUnit, Finish, Goto, Idle, FromLabels, IInv, TypeOK
  <2>2. \A i \in Items : head'[i] = head[i] \/ head'[i] = Nobody
    BY <1>7 DEF RetireEmployee, ClearUnit, IInv, TypeOK, HeadsTypeOK
  <2>. QED BY <1>1, <1>2, <2>1, <2>2, FoundFrame DEF FoundSound
<1>. QED BY <1>3, <1>4, <1>5, <1>6, <1>7 DEF HeadsStep, HeadsAdvance

LEMMA FoundNext ==
  ASSUME IInv, FoundInv, HeadChangesApart, [Next]_vars
  PROVE  FoundInv'
<1>1. ASSUME NEW p \in Procs, RolesStep(p) \/ RegistryStep(p) \/ Fail(p) PROVE FoundInv'
  <2>1. PICK k \in {Idle} \cup RolesContinuation \cup RegistryContinuation : Goto(p, k)
    BY <1>1, RolesStepInv, RegistryStepInv
    DEF RolesStep, RegistryStep, Fail, Abandon, Finish, IInv
  <2>2. k \in Continuation /\ k.at \notin FromLabels
    BY DEF Continuation, Idle, RolesContinuation, RegistryContinuation, FromLabels
  <2>3. UNCHANGED head
    BY <1>1 DEF RolesStep, RegistryStep, Fail, headVars
  <2>. QED BY <2>1, <2>2, <2>3, FoundFrame DEF FoundSound
<1>2. CASE AtOnce
  <2>1. UNCHANGED <<head, req>>
    BY <1>2 DEF AtOnce, Move, Hire, PlaceIn
  <2>. QED BY <2>1 DEF FoundInv, FoundSound
<1>3. CASE UNCHANGED vars
  BY <1>3 DEF vars, headVars, FoundInv, FoundSound
<1>. QED BY <1>1, <1>2, <1>3, FoundHeads DEF Next

\* As long as no two appointments or removals overlap between looking for what their
\* employees head and clearing it, whatever else does, a unit loses its head only by a
\* request that names the unit or that very head.
THEOREM HeadsLeaveByNameWhenApart == Spec /\ []HeadChangesApart => HeadsLeaveByName
<1>. DEFINE Step == \A i \in Items : head[i] # Nobody /\ head'[i] # head[i] =>
       \E p \in Procs :
         \/ At(p, "appointTx") /\ (req[p].item = i \/ req[p].id = head[i])
         \/ At(p, "retireTx") /\ req[p].id = head[i]
         \/ At(p, "clearUnit") /\ req[p].item = i
<1>1. Init => FoundInv
  BY DEF Init, FoundInv, FoundSound, FromLabels, Idle
<1>2. IInv /\ FoundInv /\ HeadChangesApart /\ [Next]_vars => FoundInv'
  BY FoundNext
<1>3. FoundInv => \A p \in Procs, i \in Items :
        (At(p, "appointTx") \/ At(p, "retireTx")) /\ i \in req[p].from /\ head[i] # Nobody
          => req[p].id = head[i]
  BY DEF FoundInv, FoundSound, FromLabels, At
<1>4. IInv /\ FoundInv /\ [Next]_vars => [Step]_<<req, roleVars, items, headVars>>
  BY <1>3, HeadStep
<1>. QED BY <1>1, <1>2, <1>4, SpecIInv, PTL DEF Spec, HeadsLeaveByName
=============================================================================
