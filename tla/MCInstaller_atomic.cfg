SPECIFICATION Spec

CONSTANTS
  v0 = v0
  v1 = v1
  v2 = v2
  missing = missing
  foreign = foreign
  NumControllers = 2
  Releases <- AllReleases
  Legacy <- v0
  None <- missing
  Foreign <- foreign
  Modes = {TRUE, FALSE}
  Events = {"io", "discard", "undo", "interrupt", "crash", "owner"}
  MaxRuns = 3
  MaxEvents = 2

INVARIANTS
  TypeOK
  BackupIsPreUpgradeSet
  

PROPERTIES
  NothingLost
  InstallsAtomically

CHECK_DEADLOCK FALSE
