SPECIFICATION FairSpec
CONSTANTS
  c1 = c1
  c2 = c2
  p1 = p1
  p2 = p2
  uid = uid
  gateway = gateway
  worker = worker
  None = None
  Conns = {c1, c2}
  Peers = {p1, p2}
  Keys = {uid, gateway, worker}
  LegacyKey = uid
  RoleOf <- MCRoleOf
  Required = {"gateway"}
  Frames <- MCFrames
  MaxSources = 1
  StaleAfter = 1
  Retention = 2
  MaxConnections = 2
  ReadTimeout = 2
INVARIANTS SlotsAreWorkers DeadlineIsAbsolute TroubleShows HealthyMeansReported
PROPERTIES EveryConnectionEnds
