----------------------------- MODULE MCCampaigns -----------------------------
(* Instances of Campaigns for TLC.                                         *)
EXTENDS Campaigns, TLC, FiniteSets

\* Once there are two employees there is one section at a time.
StaffOrSections == Cardinality(staff') <= 1 \/ Cardinality(section') <= 1

Symmetry ==
  Permutations(Employees) \cup Permutations(CampaignIds) \cup Permutations(Sections)
  \cup Permutations(Procs)
=============================================================================
