SPECIFICATION Spec
CONSTANTS
  w1 = w1
  w2 = w2
  Workers <- OneWorker
  Users = {1, 2}
  Products = {1, 2}
  SupplierOf <- MCSupplierOf
  Place <- MCPlace
  Sees <- MCSees
  InitialQuantity <- Halves
  Requests <- PageRequests
  MaxAmount = 45000
  Fine = 1000
INVARIANTS
  TypeOK
PROPERTIES
  TrimFits
