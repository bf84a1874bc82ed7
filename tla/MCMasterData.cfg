SPECIFICATION MasterDataSpec
CONSTANTS
  None = None
  Keep = Keep
  i1 = i1
  i2 = i2
  d1 = d1
  n1 = n1
  n2 = n2
  r1 = r1
  r2 = r2
  p1 = p1
  c1 = c1
  name1 = name1
  l1 = l1
  call1 = call1
  call2 = call2
  Ids <- MCIds
  Deps <- MCDeps
  Names <- MCNames
  Requests <- MCRequests
  Products <- MCProducts
  Categories <- MCCategories
  CategoryNames <- MCCategoryNames
  Locations <- MCLocations
  Scopes <- MCScopes
  Calls <- MCCalls
  MaxVersion = 0
  MaxStock = 1
INVARIANTS
  OpenKeepsOwner
  NamesDiffer
  CacheCurrent
  OwnScopeOnly
PROPERTIES
  OutdatedEnds
