SPECIFICATION Spec
CHECK_DEADLOCK FALSE
CONSTANTS
  user = user
  tenant = tenant
  trace = trace
  session = session
  bad = bad
  None = None
  Rules <- MCRules
  RuleWindow <- MCRuleWindow
  P1Window = 2
  CandidateLimit = 8
  Imported = {}
  ForeignIncidents = {}
  OtherTools = {"web_search", "cronjob", "srv.tool", "simulation"}
  DottedTools = {"srv.tool"}
  BadIdentities = {bad}
  Tenant = tenant
  Trace = trace
  Source = user
  Observations <- MCObservations
  OtherEvents <- MCOthers
  Gaps = {0, 2, 3}
  Counts = {0, 8}
  MaxCount = 20
  IdentifierOf <- MCIdentifierOf
  MaxInputs = 1
INVARIANTS ToolResultsAreRecorded
