SPECIFICATION ReportsSpec
CONSTANTS
  o1 = o1
  o2 = o2
  f1 = f1
  r1 = r1
  Orders <- MCOrders
  Refunds <- MCRefunds
  Requests <- MCRequests
  MonthDays <- MCMonthDays
  MonthsInYear = 2
  ShortSpan = 2
  LongSpan = 3
  Catalog <- MCCatalog
  CategoriesOf <- MCCategoriesOf
  Amounts <- MCAmounts
  Openings <- MCOpenings
  Horizon = 1
  Offset = 1
  Asked <- MCAsked
  AskedPlaces = {"anywhere"}
  Limit = 1
SYMMETRY Symmetry
INVARIANTS
  BreakdownsReconcile
  RangesComparable
  NetNeverOverstated
