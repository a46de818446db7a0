SPECIFICATION Spec
CONSTANTS
  a = a
  A = A
  b = b
  Employees = {e1, e2}
  Emails = {a, A, b}
  Lower <- MCLower
  Passwords = {w, x, y, z}
  Procs = {p1, p2}
  Unknown = Unknown
SYMMETRY Symmetry
INVARIANTS TypeOK AddressesAreUnique OpenMailsAreLatest
PROPERTY PasswordsMoveOnlySo
