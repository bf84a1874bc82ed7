SPECIFICATION Spec
CONSTANTS
  p1 = p1
  o1 = o1
  o2 = o2
  r1 = r1
  r2 = r2
  Products <- MCProducts
  Orders <- MCOrders
  Busy <- MCBusy
  Requests <- MCRequests
  Saleable <- MCSaleable
  Returnable <- WithReturns
  Factors <- MCFactors
  Assignable <- ManyStatuses
  MaxOnHand = 2
SYMMETRY Symmetry
INVARIANTS
  CancelReversesOnce
  ReturnsWithinBought
  ReservedWhileSuspended
PROPERTIES
  StockPromise
  SettledIsFinal
  SalesLeaveReservations
