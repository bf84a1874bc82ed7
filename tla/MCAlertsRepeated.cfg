SPECIFICATION Spec
CONSTANTS
  clerk = clerk
  k1 = k1
  u1 = u1
  c1 = c1
  l1 = l1
  Users <- MCUsers
  Admins = {}
  Stationed <- MCUsers
  Streams <- MCStreams
  Locations <- MCLocations
  Checks <- MCChecks
  Updates <- MCUpdates
  Changes <- MCChanges
  DefaultConfig <- MCDefaultConfig
  Replacements <- MCReplacements
  StatusUpdates = {"ACTIVE"}
  ReorderPoints <- MCReorderPoints
  MaxAvailable = 2
  DedupeWindow = 1
  CacheTtl = 1
  MaxTick = 1
INVARIANTS
  NoRepeatWithinHour
