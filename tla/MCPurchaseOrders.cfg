SPECIFICATION Spec
CONSTANTS
  p1 = p1
  p2 = p2
  l1 = l1
  o1 = o1
  r1 = r1
  r2 = r2
  Products <- MCProducts
  Locations <- MCLocations
  Orders <- MCOrders
  Requests <- MCRequests
  Orderable <- MCOrderable
  Receipts <- MCReceipts
  Factors <- MCFactors
  ShippingCosts <- MCShippingCosts
SYMMETRY Symmetry
INVARIANTS
  ReceiptsMatchMovements
  FreshReceiptsAreOwed
  StatusMatchesReceipts
CHECK_DEADLOCK FALSE
