SPECIFICATION Spec

CONSTANTS
  v0 = v0
  v1 = v1
  v2 = v2
  missing = missing
  foreign = foreign
  NumControllers = 2
  Releases <- AllReleases
  Legacy <- v0
  None <- missing
  Foreign <- foreign
  Modes = {TRUE, FALSE}
  Events = {}
  MaxRuns = 2
  MaxEvents = 0

INVARIANTS
  RecognisesOwnInstalls

CHECK_DEADLOCK FALSE
