SPECIFICATION Spec
CONSTANTS
  d1 = d1
  d2 = d2
  t1 = t1
  t2 = t2
  n1 = n1
  n2 = n2
  p = p
  q = q
  Procs = {p, q}
  Employees = {e1}
  MANAGEMENT = MANAGEMENT
  RoleNames = {MANAGEMENT, HUMAN_RESOURCE}
  MaxRoles = 2
  Items = {d1, d2}
  Kinds = {"organization", "branch", "client", "allowance", "deduction", "bonus", "payGroup", "section"}
  Names = {n1, n2}
  Existing <- MCNone
  Nobody = Nobody
  Nowhere = Nowhere
SYMMETRY ItemSymmetry
INVARIANTS TypeOK ManagementIsNeverGained IndexedNamesAreUnique NamesakesWereRaced
