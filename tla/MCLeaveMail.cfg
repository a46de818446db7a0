SPECIFICATION Spec
CONSTANTS
  short = short
  long = long
  Undefined = Undefined
  Employees = {e1}
  Plans = {l1}
  Apps = {a1}
  Procs = {p1, p2}
  Names <- OneName
  Contains <- OneNameContains
  Durations = {2}
  Spans = {2}
  MinInt <- TwoDayDebt
INVARIANT ToldTheTruth
