SPECIFICATION Spec
CONSTANTS
  p1 = p1
  c1 = c1
  r1 = r1
  r2 = r2
  Products <- MCProducts
  Counts <- MCCounts
  Requests <- MCRequests
  Countable <- MCCountable
  MaxOnHand = 2
SYMMETRY Symmetry
INVARIANTS
  StatusMatchesItems
PROPERTIES
  StockPromise
  PostingReconciles
  OnlyApprovedIsPosted
