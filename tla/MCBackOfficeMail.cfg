SPECIFICATION Spec
CONSTANTS
  Users = {u1, u2}
  Emails = {a, b, c}
  Roles = {admin, staff}
  Passwords = {w, x, y, z}
  Procs = {p1, p2}
  Unknown = Unknown
SYMMETRY Symmetry
INVARIANTS
  TypeOK
  OpenMailsAreLatest
  AddressesAreUnique
PROPERTY
  PasswordsChangeOnlySo
