SPECIFICATION Spec
ACTION_CONSTRAINT OneApplies
CONSTANTS
  short = short
  long = long
  Undefined = Undefined
  Employees = {e1, e2}
  Plans = {l1}
  Apps = {a1, a2}
  Procs = {p1, p2}
  Names <- OneName
  Contains <- OneNameContains
  Durations = {1, 2}
  Spans = {0, 2}
  MinInt <- TwoDayDebt
SYMMETRY Symmetry
INVARIANTS TypeOK DecisionAgreement RoutedInOrder RoutingIsPrivate
PROPERTIES ApprovalCharges DeletedIsFinal BalanceMovesByApprovalOrPlanUpdate ImplementsLedger
