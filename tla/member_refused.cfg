SPECIFICATION Spec
CONSTANTS
  u1 = u1
  u2 = u2
  Users <- TwoUsers
  Roles <- TwoRoles
  Scenarios <- OneAtATime
  Requests = 2
INVARIANT MemberAdmitted
