----------------------------- MODULE MCPayroll -----------------------------
(* Instances of Payroll for TLC. *)
EXTENDS Payroll, TLC

Symmetry ==
  Permutations(Employees) \cup Permutations(Previews) \cup Permutations(Payrolls)
    \cup Permutations(Procs) \cup Permutations(Names)
=============================================================================
