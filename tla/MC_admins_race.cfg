\* Two administrators disable each other at the same time.
CONSTANTS
  u1 = u1
  u2 = u2
  n1 = n1
  n2 = n2
  User = {u1, u2}
  Role = {r1}
  Name = {n1, n2}
  Permission <- ManageUsersAndRoles
  Session = {s1, s2}
  FirstName <- TwoAccounts
  FirstAdmin = u1
  MayOverlap = TRUE
  None = None
  PermissionSets <- AllOrNone
SPECIFICATION Spec
INVARIANTS AdministratorRemains
