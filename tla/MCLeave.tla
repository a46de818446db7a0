------------------------------ MODULE MCLeave ------------------------------
(* Small instances of Leave for TLC.                                        *)
EXTENDS Leave, TLC, FiniteSets

CONSTANTS short, long

\* "LEAVE" is a substring of "SICK LEAVE".
MCContains == {<<short, short>>, <<long, long>>, <<long, short>>}
OneName == {short}
OneNameContains == {<<short, short>>}

\* Room in the column for one overdraft, of a one-day or of a two-day leave.
OneDayDebt == -1
TwoDayDebt == -2

\* A second employee is there only as long as nobody has applied.
OneApplies == Cardinality(DOMAIN units') <= 1 \/ DOMAIN app' = {}

\* Handlers, applications and employees are interchangeable.
Symmetry == Permutations(Procs) \cup Permutations(Apps) \cup Permutations(Employees)
=============================================================================
