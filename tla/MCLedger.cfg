SPECIFICATION LedgerSpec
CHECK_DEADLOCK FALSE
CONSTANTS
  alpha = alpha
  beta = beta
  tr = tr
  se = se
  inject = inject
  Rules = {inject}
  RuleWindow <- MCRuleWindow
  P1Window = 2
  CandidateLimit = 4
  None = None
  Frames <- LedgerFrames
  Imported = {}
  ForeignIncidents = {}
INVARIANTS ExfiltrationReported SequenceReported AgreesWithBatch
