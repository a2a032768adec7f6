SPECIFICATION Spec

CONSTANTS
  f = f
  g = g
  o = o
  sub = sub
  m = m
  a = a
  b = b
  big = big
  Paths = {f, g, o, sub, m}
  Meta = {m}
  Ignored = {o}
  Files = {a, b, big}
  Pointee = f
  Above <- MCAbove
  Size <- MCSize
  Jobs <- MCJobs
  Cases <- MCCases
  Scenarios <- MCScenarios
  MaxMoves = 4
  FileBound = 2
  TotalBound = 3
  MountPoint = MountPoint
  ManifestName = o
  Manifest = Manifest
  Absent = Absent
  Undeclared = Undeclared
  Same = Same

INVARIANT ChangedFilesComplete

CHECK_DEADLOCK FALSE
