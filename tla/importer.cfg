SPECIFICATION Spec
CONSTANTS
  Imports = {i1, i2}
  Files <- MCFiles
  Names <- MCNames
  NormalOf <- MCNormalOf
  Rank <- MCRank
  AtStart = {"tea"}
  Close <- MCClose
  CHUNK = 2
  MAX_ROWS = 4
  FreeMaxSuppliers = 1
  FreeMaxProducts = 2
  Licensed = {TRUE, FALSE}
  MaxSupplierId = 3
  MaxOthers = 1
INVARIANTS
  TypeOK
  RowsAccounted
  OneHome
  QuotaByOthers
PROPERTIES
  ImportsEnd
CHECK_DEADLOCK FALSE
