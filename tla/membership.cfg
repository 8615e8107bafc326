SPECIFICATION FairSpec
CONSTANTS
  u1 = u1
  u2 = u2
  Users <- TwoUsers
  Roles <- TwoRoles
  Scenarios <- AllScenarios
  Requests = 2
INVARIANTS TypeOK AcceptedIsMember RoleSound ExpiredOnlyAfterDeadline NoStaleRefusal
PROPERTIES StatusFinal InviteSettles
