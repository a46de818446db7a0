SPECIFICATION Spec
ACTION_CONSTRAINT StaffOrSections
CONSTANTS
  Employees = {e1, e2}
  CampaignIds = {c1}
  Sections = {s1, s2}
  Questions = {x}
  Procs = {p, q}
  MaxRows = 2
SYMMETRY Symmetry
INVARIANTS TypeOK AppraisalsAreSentOnce SentCampaignsStay EverybodyDueIsReached QuestionsAreAnsweredOnce
