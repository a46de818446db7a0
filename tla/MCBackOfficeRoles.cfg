SPECIFICATION Spec
CONSTANTS
  Users = {u1, u2}
  Emails = {a, b, c}
  Roles = {admin, staff}
  Passwords = {x, y}
  Procs = {p1, p2}
  Unknown = Unknown
SYMMETRY Symmetry
INVARIANT RoleChangesReachTheirUser
