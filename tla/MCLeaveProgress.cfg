SPECIFICATION FairSpec
CONSTANTS
  short = short
  long = long
  Undefined = Undefined
  Employees = {e1}
  Plans = {l1}
  Apps = {a1}
  Procs = {p1, p2}
  Names = {short, long}
  Contains <- MCContains
  Durations = {1}
  Spans = {1}
  MinInt <- OneDayDebt
PROPERTIES HandlersFinish NamesDriftOnlyUnseen
