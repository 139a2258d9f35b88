SPECIFICATION FairSpec
CONSTANTS
  Importers = {daemon, cli}
  daemon = daemon
  cli = cli
  alpha = alpha
  beta = beta
  tr = tr
  se = se
  inject = inject
  Rules = {inject}
  RuleWindow <- MCRuleWindow
  P1Window = 2
  CandidateLimit = 3
  None = None
  Lines <- ApartLines
  Frames <- ApartFrames
  Projected <- MCProjected
  MaxTime = 9
  MaxLines = 2
  MaxTruncations = 1
  Regrows = FALSE
  MaxStops = 1
INVARIANTS NoLineIsSkipped PassedSequencesReported
PROPERTIES CommittedPayloadsLast SpoolIsImported
