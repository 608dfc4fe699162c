\* Two administrators, two requests, any pause between the check and the act.
SPECIFICATION MCSpec
CONSTANTS
  a1 = a1
  a2 = a2
  r1 = r1
  manage = manage
  q1 = q1
  q2 = q2
  Super = Super
  Nobody = Nobody
  Manage = manage
  Admin <- MCAdmin
  Role <- MCRole
  Permission <- MCPermission
  Request <- MCRequest
  MaxChanges = 1
SYMMETRY Requests
INVARIANTS
  TypeOK
  SuperAdminRemains
  CacheIsCurrent
PROPERTIES
  ChangeIsSeen
CHECK_DEADLOCK FALSE
