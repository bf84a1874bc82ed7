SPECIFICATION AccountsSpec
CONSTANTS
  u1 = u1
  r1 = r1
  r2 = r2
  Users <- MCUsers
  Calls <- MCCalls
  MaxTokens <- MCMaxTokens
  MaxLinks <- MCMaxLinks
  MaxResets <- MCMaxResets
SYMMETRY Symmetry
INVARIANTS
  RotatesOnce
  ResetEndsSessions
  DeletedHasNoSession
  OneResetLink
PROPERTIES
  LinkSpentOnce
