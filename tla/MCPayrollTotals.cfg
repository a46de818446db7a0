SPECIFICATION Spec
CONSTANTS
  Employees = {e1, e2}
  Previews = {v1, v2}
  Payrolls = {k1}
  Procs = {p, q}
  Names = {n1}
  Pays = {low}
  Unset = Unset
  NoPreview = NoPreview
SYMMETRY Symmetry
INVARIANT PayrollAddsUp
