SPECIFICATION FairSpec
CONSTANTS
  Workers = {w1, w2}
  w1 = w1
  w2 = w2
  alpha = alpha
  beta = beta
  tr = tr
  se = se
  inject = inject
  Rules = {inject}
  RuleWindow <- MCRuleWindow
  P1Window = 2
  CandidateLimit = 3
  None = None
  NoWorker = NoWorker
  NoFrame = NoFrame
  Frames <- ProtocolFrames
  InvalidFrames = {}
  Imported = {}
  ForeignIncidents = {}
  MaxCrashes = 1
INVARIANTS DecisionsHold OneRowPerEvent ReceiptsMatchEvents AnswersDurable NoticesFollowCommit
PROPERTIES ImplementsLedger EveryFrameEnds
