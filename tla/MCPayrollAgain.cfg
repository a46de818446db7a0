SPECIFICATION Spec
CONSTANTS
  Employees = {e1}
  Previews = {v1, v2}
  Payrolls = {k1, k2}
  Procs = {p, q}
  Names = {n1, n2}
  Pays = {low, high}
  Unset = Unset
  NoPreview = NoPreview
SYMMETRY Symmetry
INVARIANTS TypeOK OpenApprovalsMissNobody TotalsFollowTheListing ApprovedMeansIssued
PROPERTY ImplementsLedger
