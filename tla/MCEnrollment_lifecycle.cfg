SPECIFICATION FairSpec
CONSTANTS
  Targets = {t1, t2}
  InitialUids = {}
  InitialMembers = {}
  Procs = {p1}
  MaxGeneration = 2
  MaxMishaps = 1
  None = None
INVARIANTS QuarantineIsNamed PluginsLeaveFirst UnenrollIsComplete EnrollmentLasts
PROPERTIES RollbackFences QuarantineEnds
