SPECIFICATION Spec
CONSTANTS
  p1 = p1
  p2 = p2
  l1 = l1
  l2 = l2
  t1 = t1
  r1 = r1
  r2 = r2
  Products <- MCProducts
  Locations <- MCLocations
  Transfers <- MCTransfers1
  Requests <- MCRequests
  Requestable <- MCRequestable
  Factors <- MCFactors
  Corrections <- MCCorrections
  MaxOnHand = 2
SYMMETRY Symmetry
INVARIANTS
  LinesMatchMovements
  FreshTransfersAreExact
  CompletedMeansArrived
