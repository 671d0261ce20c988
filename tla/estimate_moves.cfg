SPECIFICATION Spec
CONSTANTS
  w1 = w1
  w2 = w2
  Workers <- TwoWorkers
  Users = {1, 2}
  Products = {1, 2}
  SupplierOf <- MCSupplierOf
  Place <- MCPlace
  Sees <- MCSees
  InitialQuantity <- Halves
  Requests <- MoveRequests
  MaxAmount = 60000
  Fine = 1000
SYMMETRY Symmetry
INVARIANTS
  NoOverdraft
PROPERTIES
  QuantityConserved
