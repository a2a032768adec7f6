SPECIFICATION FairSpec

CONSTANTS
  case = case
  review = review
  temporary = temporary
  None = None
  Partial = Partial
  Inits = {i, j}
  Migrations = {g}
  LabDirectories <- MCLabDirectories
  Records = {case, review, temporary}
  Versions = {"one"}
  Contents <- MCContents
  Staged <- MCStaged
  DirOf <- MCDirOf
  Record = review
  Temporary = temporary
  Validated = {case}
  MaxFaults = 1
  MaxEdits = 1

INVARIANTS
  TypeOK
  PromotionReceiptTrue

PROPERTIES
  MadeOnce
  NothingOverwritten
  MigrationPublishes

CHECK_DEADLOCK FALSE
