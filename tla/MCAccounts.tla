----------------------------- MODULE MCAccounts -----------------------------
(* Instances of Accounts for TLC.                                          *)
EXTENDS Accounts, TLC

CONSTANTS a, A, b

\* Two addresses, one of which may also be written in capitals.
MCLower == (a :> a) @@ (A :> a) @@ (b :> b)

\* Rows, passwords and handlers are interchangeable.
Symmetry == Permutations(Employees) \cup Permutations(Passwords) \cup Permutations(Procs)
=============================================================================
