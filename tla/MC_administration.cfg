\* Two accounts, two usernames, one role, two requests at once, of which one at a time
\* disables or demotes; three plans one level deep, all for one type and one night; one
\* plan over three days, with restrictions or for two types.
CONSTANTS
  u1 = u1
  u2 = u2
  n1 = n1
  n2 = n2
  p1 = p1
  Plan = {p1, p2, p3}
  RoomType = {1, 2}
  Day = {1, 2, 3}
  Amount = {3, 5}
  Adjustment <- TenPercentMore
  Edit <- EveryRestriction
  MAX_DERIVE_DEPTH = 1
  User = {u1, u2}
  Role = {r1}
  Name = {n1, n2}
  Permission <- ManageUsersAndRoles
  Session = {s1, s2}
  FirstName <- OneAccount
  FirstAdmin = u1
  MayOverlap = FALSE
  None = None
  PermissionSets <- AllOrNone
SYMMETRY Interchangeable
SPECIFICATION AdministrationSpec
INVARIANTS
  AdministratorRemains NamesUnique HeldRolesExist
  OnlyDeepPlansRefused OffersAreQuoted UpgradeCoversTheRise
