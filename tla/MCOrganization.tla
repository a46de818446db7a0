--------------------------- MODULE MCOrganization ---------------------------
(* Instances of Organization for TLC.                                      *)
EXTENDS Organization, TLC

CONSTANTS d1, d2, t1, t2, n1, n2, p, q

Made(kind, name) == [kind |-> kind, name |-> name, by |-> p]

MCNone == [i \in {} |-> Made("department", n1)]

\* Two departments and two teams, made before.
MCUnits ==
  (d1 :> Made("department", n1)) @@ (d2 :> Made("department", n2))
  @@ (t1 :> Made("team", n1)) @@ (t2 :> Made("team", n2))

\* Where anybody has been in the second department, nobody is placed in a team.
Used == UNION {wasIn[e] : e \in Employees}
DepartmentsOrTeams == Used' \subseteq {d1, d2} \/ d2 \notin Used'

\* The units alone: nobody asks for roles, tokens or names, which do not concern them.
\* An employee is placed in one unit at a time; several moves make any placement.
HeadsSpec ==
  Init /\ [][\/ \E e \in Employees :
                  \/ \E r \in RoleNames : Hire(e, r, {})
                  \/ \E i \in Units : Move(e, {i}) /\ DepartmentsOrTeams
             \/ \E handler \in Procs : HeadsStep(handler) \/ Fail(handler)]_vars

ItemSymmetry == Permutations(Items) \cup Permutations(Names) \cup Permutations(Procs)
StaffSymmetry == Permutations(Employees)
=============================================================================
