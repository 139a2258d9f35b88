SPECIFICATION Spec
CONSTANTS
  Workers = {w1, w2}
  w1 = w1
  w2 = w2
  alpha = alpha
  beta = beta
  tr = tr
  se = se
  inject = inject
  Rules = {inject}
  RuleWindow <- MCRuleWindow
  P1Window = 2
  CandidateLimit = 3
  None = None
  NoWorker = NoWorker
  NoFrame = NoFrame
  Frames <- ForeignFrames
  InvalidFrames <- MCInvalid
  Imported <- MCImported
  ForeignIncidents <- MCForeign
  MaxCrashes = 0
INVARIANT OnlyForeignIncidentsCollide
SYMMETRY Threads
