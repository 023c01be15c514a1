SPECIFICATION FairSpec
CONSTANTS
  e1 = e1 a = a b = b manager = manager coordinator = coordinator i1 = i1 i2 = i2

  Procs = {p1, p2}
  Emails = {e1}
  Tenants = {a, b}
  Registered = {a}
  Roles = {manager, coordinator}
  Invitations <- MCInvitations
  Resets = {t1}
  Verifications = {v1}
  EmailOf <- MCEmailOf
  TenantOf <- MCTenantOf
  RolesOf <- MCRolesOf
  NoProc = NoProc
  Absent = Absent
  Deleted = Deleted
  MaxTokens = 2
  MaxLate = 1
CONSTRAINT Bound
INVARIANTS AccountsTypeOK AcceptedIsComplete RolesWereInvited SingleUse
PROPERTIES  RequestEnds
CHECK_DEADLOCK FALSE
