---------------------------- MODULE MCBackOffice ----------------------------
(* Instances of BackOffice for TLC.                                        *)
EXTENDS BackOffice, TLC

\* Accounts, addresses, passwords and handlers are interchangeable.
Symmetry ==
  Permutations(Users) \cup Permutations(Emails) \cup Permutations(Passwords)
    \cup Permutations(Procs)
=============================================================================
