SPECIFICATION AccessSpec
CONSTANTS
  t1 = t1
  t2 = t2
  u1 = u1
  u2 = u2
  l1 = l1
  r1 = r1
  r2 = r2
  Tenants <- MCTenants
  UserIds <- MCUserIds
  Sites <- MCSites
  TenantOf <- MCTenantOf
  MaxRoles <- MCMaxRoles
  Calls <- MCCalls
SYMMETRY Symmetry
INVARIANTS
  PowersOfOwnTenant
  AdminRoleStands
PROPERTIES
  DeletionTakesNothing
  ReplacedAdminsOnly
