SPECIFICATION HeadsSpec
CONSTANTS
  d1 = d1
  d2 = d2
  t1 = t1
  t2 = t2
  n1 = n1
  n2 = n2
  p = p
  q = q
  Procs = {p, q}
  Employees = {e1, e2}
  MANAGEMENT = MANAGEMENT
  RoleNames = {MANAGEMENT}
  MaxRoles = 1
  Items = {d1, d2, t1, t2}
  Kinds = {"department", "team"}
  Names = {n1, n2}
  Existing <- MCUnits
  Nobody = Nobody
  Nowhere = Nowhere
SYMMETRY StaffSymmetry
INVARIANTS OneUnitEach HeadsWereMembers
PROPERTIES HeadsLeaveForAReason ImplementsChart TeamsStayLed
