-------------------------------- MODULE Heads --------------------------------
(***************************************************************************)
(* The departments and teams employees are placed in, and who heads them.  *)
(*                                                                         *)
(* A unit's head is a unique column of its row.  Connecting an employee as *)
(* head takes the unit that the employee headed before away, and a removal *)
(* disconnects it: Prisma looks for that unit first, takes no lock, and    *)
(* then clears the row it found by id, whoever heads it by then.  Removing *)
(* a head of department is two commits, on the strength of earlier reads.  *)
(*                                                                         *)
(* Four requests change nothing at all and have no action: the updates of  *)
(* makeEmployeeBranchManager and removeTeamLead are built and never        *)
(* awaited, so they are never sent; removing a branch manager needs one;   *)
(* employeeHeadOfDepartment hands no organization to the mail of its       *)
(* transaction, which is always rolled back.                               *)
(***************************************************************************)
EXTENDS Roles, Registry

CONSTANTS
  Nobody,      \* no head
  Nowhere      \* no unit

ASSUME NobodyAssumption == Nobody \notin Employees
ASSUME NowhereAssumption == Nowhere \notin Items

VARIABLES
  place,       \* the department and the team of each employee
  head,        \* the head of each unit
  wasIn,       \* the units each employee has been placed in (history)
  led          \* the units each employee has headed (history)

headVars == <<place, head, wasIn, led>>

UnitKinds == {"department", "team"}
Units == {i \in DOMAIN items : items[i].kind \in UnitKinds}
Member(e, i) == place[e][items[i].kind] = i

HeadsContinuation ==
  [at : {"appoint", "retire", "clearUnit"}, id : Employees, item : Items]
  \cup [at : {"appointFound", "appointTx", "retireTx"}, id : Employees, item : Items,
        from : SUBSET Items]

HeadsTypeOK ==
  /\ place \in [Employees -> [UnitKinds -> Items \cup {Nowhere}]]
  /\ head \in [Items -> Employees \cup {Nobody}]
  /\ wasIn \in [Employees -> SUBSET Items]
  /\ led \in [Employees -> SUBSET Items]

HeadsInit ==
  /\ place = [e \in Employees |-> [k \in UnitKinds |-> Nowhere]]
  /\ head = [i \in Items |-> Nobody]
  /\ wasIn = [e \in Employees |-> {}]
  /\ led = [e \in Employees |-> {}]

-----------------------------------------------------------------------------

\* Mutant: the query forgets the employee.
HeadedByAnyone(e, kind) == {i \in Units : items[i].kind = kind /\ head[i] # Nobody}
\* The units of the same table that an employee heads; the index allows one.
Headed(e, kind) == {i \in Units : items[i].kind = kind /\ head[i] = e}

\* An appointment that waits for its mail holds the locks of the rows it has
\* written, and the entry of its employee in the index.
Locked(i) == \E p \in Procs : At(p, "appointTx") /\ i \in req[p].from \cup {req[p].item}
NobodyClaims(e, kind) == FALSE  \* mutant: there is no index
Claimed(e, kind) ==
  \E p \in Procs : At(p, "appointTx") /\ req[p].id = e /\ items[req[p].item].kind = kind

\* An employee is put in departments and teams (both columns at once in
\* updateEmployeeWorkDetails): checked or not, the update sets what it was told.
PlaceIn(e, S) ==
  /\ S \subseteq Units
  /\ \A i, j \in S : items[i].kind = items[j].kind => i = j
  /\ place' = [place EXCEPT ![e] =
       [k \in UnitKinds |-> IF \E i \in S : items[i].kind = k
                            THEN CHOOSE i \in S : items[i].kind = k
                            ELSE place[e][k]]]
  /\ wasIn' = [wasIn EXCEPT ![e] = @ \cup S]
  /\ UNCHANGED <<head, led>>

\* Mutant: does not look at the department of the employee.
AppointAnybody(p, e, i) ==
  /\ At(p, "idle")
  /\ e \in DOMAIN roles
  /\ i \in Units
  /\ Goto(p, [at |-> "appoint", id |-> e, item |-> i])
  /\ UNCHANGED headVars

\* The employee, as read, belongs to the unit.
Appoint(p, e, i) ==
  /\ At(p, "idle")
  /\ e \in DOMAIN roles
  /\ i \in Units
  /\ Member(e, i)
  /\ Goto(p, [at |-> "appoint", id |-> e, item |-> i])
  /\ UNCHANGED headVars

HeadOfDepartment(p, e, i) == In(i, "department") /\ Appoint(p, e, i)
TeamLead(p, e, i) == In(i, "team") /\ Appoint(p, e, i)

\* makeEmployeeHOD, makeEmployeeTeamLead: the head is connected.  The first query
\* looks for the unit that the employee heads.
AppointFind(p) ==
  /\ At(p, "appoint")
  /\ Goto(p, [at |-> "appointFound", id |-> req[p].id, item |-> req[p].item,
              from |-> Headed(req[p].id, items[req[p].item].kind)])
  /\ UNCHANGED headVars

\* The updates clear the unit found and set the head of the other.  They wait for
\* whoever has written those rows or entered the employee in the index, and fail
\* when the employee heads yet another unit by now.  Then the head of a department
\* is mailed.
AppointTx(p) ==
  LET e == req[p].id
      i == req[p].item
      rows == req[p].from \cup {i}
  IN  /\ At(p, "appointFound")
      /\ ~ Claimed(e, items[i].kind)
      /\ Headed(e, items[i].kind) \subseteq rows
      /\ \A j \in rows : ~ Locked(j)
      /\ Goto(p, [req[p] EXCEPT !.at = "appointTx"])
      /\ UNCHANGED headVars

\* Mutant: takes the former unit away last, and so the new one if it is the same.
AppointThenDisconnect(p) ==
  /\ At(p, "appointTx")
  /\ head' = [i \in Items |-> IF i \in req[p].from THEN Nobody
                              ELSE IF i = req[p].item THEN req[p].id
                              ELSE head[i]]
  /\ led' = [led EXCEPT ![req[p].id] = @ \cup {req[p].item}]
  /\ Finish(p)
  /\ UNCHANGED <<place, wasIn>>

AppointCommit(p) ==
  /\ At(p, "appointTx")
  /\ head' = [i \in Items |-> IF i = req[p].item THEN req[p].id
                              ELSE IF i \in req[p].from THEN Nobody
                              ELSE head[i]]
  /\ led' = [led EXCEPT ![req[p].id] = @ \cup {req[p].item}]
  /\ Finish(p)
  /\ UNCHANGED <<place, wasIn>>

\* removeEmployeeAsHeadOfDept, up to confirmIfEmployeeIsHeadOfDepartment.
Retire(p, e, i) ==
  /\ At(p, "idle")
  /\ e \in DOMAIN roles
  /\ i \in Units
  /\ items[i].kind = "department"
  /\ head[i] = e
  /\ Goto(p, [at |-> "retire", id |-> e, item |-> i])
  /\ UNCHANGED headVars

\* The first update disconnects the department that the employee heads by now, which
\* it looks for,
RetireFind(p) ==
  /\ At(p, "retire")
  /\ Goto(p, [at |-> "retireTx", id |-> req[p].id, item |-> req[p].item,
              from |-> Headed(req[p].id, "department")])
  /\ UNCHANGED headVars

\* and clears, whoever heads it by then.
RetireEmployee(p) ==
  /\ At(p, "retireTx")
  /\ \A j \in req[p].from : ~ Locked(j)
  /\ head' = [i \in Items |-> IF i \in req[p].from THEN Nobody ELSE head[i]]
  /\ Goto(p, [at |-> "clearUnit", id |-> req[p].id, item |-> req[p].item])
  /\ UNCHANGED <<place, wasIn, led>>

\* The second clears the department, whoever heads it by now.
ClearUnit(p) ==
  /\ At(p, "clearUnit")
  /\ ~ Locked(req[p].item)
  /\ head' = [head EXCEPT ![req[p].item] = Nobody]
  /\ Finish(p)
  /\ UNCHANGED <<place, wasIn, led>>

-----------------------------------------------------------------------------

HodRequests(p) ==
  \E e \in Employees, i \in Items : HeadOfDepartment(p, e, i) \/ Retire(p, e, i)

TeamLeadRequests(p) == \E e \in Employees, i \in Items : TeamLead(p, e, i)

HeadsArrive(p) == HodRequests(p) \/ TeamLeadRequests(p)

HeadsAdvance(p) ==
  \/ AppointFind(p) \/ AppointTx(p) \/ AppointCommit(p)
  \/ RetireFind(p) \/ RetireEmployee(p) \/ ClearUnit(p)

-----------------------------------------------------------------------------
(* Properties.                                                             *)

\* Nobody heads two departments, or two teams, and no two open appointments are
\* about to make that so.
OneUnitEach ==
  /\ \A i, j \in Units :
       head[i] # Nobody /\ head[i] = head[j] /\ items[i].kind = items[j].kind => i = j
  /\ \A p \in Procs, i \in Units :
       At(p, "appointTx") /\ head[i] = req[p].id /\ items[i].kind = items[req[p].item].kind
       => i \in req[p].from \cup {req[p].item}

\* Who heads a unit, or is about to, has been placed in it, though perhaps moved since.
HeadsWereMembers ==
  /\ \A i \in Units : head[i] # Nobody => i \in wasIn[head[i]]
  /\ \A p \in Procs : req[p].at \in {"appoint", "appointFound", "appointTx"} =>
       req[p].item \in wasIn[req[p].id]

\* A unit loses its head only to an appointment there, to an appointment or a removal
\* of somebody who has headed it, though perhaps replaced since, or to a removal that
\* was asked for this unit.
HeadsLeaveForAReason ==
  [][\A i \in Items : head[i] # Nobody /\ head'[i] # head[i] =>
       \E p \in Procs :
         \/ At(p, "appointTx") /\ (req[p].item = i \/ i \in led[req[p].id])
         \/ At(p, "retireTx") /\ i \in led[req[p].id]
         \/ At(p, "clearUnit") /\ req[p].item = i]_<<req, roleVars, items, headVars>>

\* A handler has looked for what its employee heads and has not cleared it yet.
HasFound(p) == req[p].at \in {"appointFound", "appointTx", "retireTx"}

\* No two handlers are in that state; the code does nothing to keep them apart.
\* Everything else may overlap.
HeadChangesApart == \A p, q \in Procs : HasFound(p) /\ HasFound(q) => p = q

\* What connecting and disconnecting are for: a unit loses its head only to an
\* appointment there, to an appointment of the head elsewhere, or to a removal that
\* was asked for this unit or for this head.
HeadsLeaveByName ==
  [][\A i \in Items : head[i] # Nobody /\ head'[i] # head[i] =>
       \E p \in Procs :
         \/ At(p, "appointTx") /\ (req[p].item = i \/ req[p].id = head[i])
         \/ At(p, "retireTx") /\ req[p].id = head[i]
         \/ At(p, "clearUnit") /\ req[p].item = i]_<<req, roleVars, items, headVars>>

\* What a reader of the tables sees of OrgChart's variables; the others are its own.
KindOf == [i \in Units |-> items[i].kind]
Chart == INSTANCE OrgChart WITH unit <- KindOf

\* Heads keeps the promises of OrgChart: an appointment looks like one step, although
\* it looked for what to take away before it wrote and before it waited for its mail.
ImplementsChart == Chart!Spec

\* Teams never lose their leads but to the appointment elsewhere of one who led them.
TeamsStayLed == Chart!LedOn
=============================================================================
