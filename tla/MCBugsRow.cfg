SPECIFICATION Spec
CONSTANTS
  adm = adm
  dev = dev
  rep = rep
  NoRequest = NoRequest
  NoUser = NoUser
  Bugs = {1}
  Users <- MCUsers
  Matrix <- CommunityTransitions
  Reporter <- MCReporter
  InitialRole <- MCRoles
  Requests = {r1, r2}
  Calls <- RowCalls
  Admin = {"archive_project", "remove_member", "change_member_role"}
  NewRoles = {"viewer"}
  MaxChainDepth = 3
  MaxVersion = 3
INVARIANTS
  TypeOK
  VersionIdentifiesRow
  FeedReplays
  TimestampsMatchStatus
PROPERTIES
  NoLostUpdate
  ArchivedIsFrozen
  RefinesLifecycle
SYMMETRY Interchangeable
CHECK_DEADLOCK FALSE
