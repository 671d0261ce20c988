SPECIFICATION Spec
CONSTANTS
  w1 = w1
  w2 = w2
  Workers <- OneWorker
  Users <- ThreeUsers
  Admins = {}
  InitialAccounts <- ThreeAccounts
  Names <- MCNames
  Unnamed = "aly"
  LowerOf <- MCLowerOf
  NormalOf <- MCNormalOf
  Days = {"day1"}
  FreeMaxSuppliers = 1
  FreeMaxProducts = 1
  MaxShares = 1
  Requests <- OneWorkerRequests
  MaxSupplierId = 3
  MaxProductId = 2
  MaxShareId = 2
INVARIANTS
  NamesAndSharesHeld
PROPERTIES
  QuotaHeld
  AccessRespected
