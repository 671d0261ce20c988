SPECIFICATION Spec
CONSTANTS
  w1 = w1
  w2 = w2
  Workers <- TwoWorkers
  Users <- TwoUsers
  Admins = {}
  InitialAccounts <- LicensedAndAdmin
  Names <- MCNames
  Unnamed = "aly"
  LowerOf <- MCLowerOf
  NormalOf <- MCNormalOf
  Days = {"day1"}
  FreeMaxSuppliers = 1
  FreeMaxProducts = 1
  MaxShares = 1
  Requests <- TwoWorkerRequests
  MaxSupplierId = 2
  MaxProductId = 1
  MaxShareId = 2
SYMMETRY Symmetry
INVARIANTS
  TypeOK
  OwnerConsistent
  ReferencesOK
PROPERTIES
  SupplierIdentity
  OnlyOwnShares
