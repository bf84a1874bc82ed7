SPECIFICATION Spec
CONSTANTS
  s1 = s1
  s2 = s2
  r1 = r1
  r2 = r2
  Seats = {till}
  Sessions <- MCSessions
  Requests <- MCRequests
  Amounts <- MCAmounts
  MaxCash <- MCMaxCash
SYMMETRY Symmetry
INVARIANTS
  CloseExpectsTheDrawer
  OneOpenSession
