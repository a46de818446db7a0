------------------------------- MODULE OrgChart -------------------------------
(***************************************************************************)
(* What the organization promises about who heads its departments and      *)
(* teams, with each appointment and each removal a single step.  Whoever is*)
(* appointed has been in the unit, and gives up one unit of the same kind  *)
(* headed before.  That one is not always headed by the same employee      *)
(* still: then another loses it.  Departments lose their heads otherwise   *)
(* too, teams do not: no request takes the lead of a team away.            *)
(***************************************************************************)

CONSTANTS Employees, Items, Nobody

VARIABLES
  unit,        \* the kind of each unit there is
  head,        \* who heads it
  wasIn,       \* the units each employee has been placed in
  led          \* the units each employee has headed

vars == <<unit, head, wasIn, led>>

UnitKinds == {"department", "team"}
HeadedBy(e, kind) == {i \in DOMAIN unit : unit[i] = kind /\ head[i] = e}

Init ==
  /\ \E U \in SUBSET Items : unit \in [U -> UnitKinds]
  /\ head = [i \in Items |-> Nobody]
  /\ wasIn = [e \in Employees |-> {}]
  /\ led = [e \in Employees |-> {}]

Found(i, kind) ==
  /\ i \notin DOMAIN unit
  /\ unit' = [j \in DOMAIN unit \cup {i} |-> IF j = i THEN kind ELSE unit[j]]
  /\ UNCHANGED <<head, wasIn, led>>

Place(e, S) ==
  /\ S \subseteq DOMAIN unit
  /\ wasIn' = [wasIn EXCEPT ![e] = @ \cup S]
  /\ UNCHANGED <<unit, head, led>>

\* Somebody becomes the head of unit i and gives up unit f, which is i for one who
\* has nothing to give up.
Appoint(e, i, f) ==
  /\ i \in DOMAIN unit \cap wasIn[e]
  /\ f \in DOMAIN unit \cap (led[e] \cup {i})
  /\ unit[f] = unit[i]
  /\ HeadedBy(e, unit[i]) \subseteq {f, i}
  /\ head' = [head EXCEPT ![f] = Nobody, ![i] = e]
  /\ led' = [led EXCEPT ![e] = @ \cup {i}]
  /\ UNCHANGED <<unit, wasIn>>

\* A department is left without a head.
Vacate(i) ==
  /\ i \in DOMAIN unit
  /\ unit[i] = "department"
  /\ head' = [head EXCEPT ![i] = Nobody]
  /\ UNCHANGED <<unit, wasIn, led>>

Next ==
  \/ \E i \in Items : Vacate(i) \/ \E kind \in UnitKinds : Found(i, kind)
  \/ \E e \in Employees :
       \/ \E i, f \in Items : Appoint(e, i, f)
       \/ \E S \in SUBSET Items : Place(e, S)

Spec == Init /\ [][Next]_vars

\* A team that is led stays led, unless somebody who has led it is appointed to
\* another team.
LedOn ==
  [][\A i \in DOMAIN unit : unit[i] = "team" /\ head[i] # Nobody =>
       \/ head'[i] # Nobody
       \/ \E e \in Employees, j \in DOMAIN unit \ {i} :
            i \in led[e] /\ unit[j] = "team" /\ head'[j] = e]_vars
=============================================================================
