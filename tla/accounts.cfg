SPECIFICATION Spec
CONSTANTS
  Users = {"root", "ann", "bob"}
  Root = "root"
  Groups = {"admin", "users", "team"}
  Tokens = {"t1"}
  PermissionSets <- SmallPermissionSets
  DefaultPermissions <- SmallDefault
  GroupLists <- SmallGroupLists
  MaxTokens = 1
  Member = "ann"
  Team = "team"
  MaxRequests = 4
  InFlight = {r1}
  StoresSuspend = FALSE
  ReadOnlyUsers = FALSE
  ReadOnlyGroups = FALSE
  Coalitions <- AUserOrAToken
  NoRow = NoRow
  NoToken = NoToken
  NoWrite = NoWrite
  Keep = Keep
  Unscoped = Unscoped
INVARIANTS AdminRemains MembersOfExistingGroups NoEscalation
CHECK_DEADLOCK FALSE
