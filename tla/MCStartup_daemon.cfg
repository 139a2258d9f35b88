SPECIFICATION FairStartup
CONSTANTS
  daemon = daemon
  cli = cli
  NoSocket = NoSocket
  Daemons = {daemon}
  Clis = {cli}
  Ddl <- MCDdl
  SchemaVersion = 1
  Attempts = 3
  MaxCrashes = 2
INVARIANTS VersionMeansComplete
PROPERTIES DaemonComesUp
CHECK_DEADLOCK FALSE
