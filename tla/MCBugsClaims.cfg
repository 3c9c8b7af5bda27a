\* Claims that the code refutes; with -continue TLC reports each.
SPECIFICATION Spec
CONSTANTS
  adm = adm
  dev = dev
  rep = rep
  NoRequest = NoRequest
  NoUser = NoUser
  Bugs = {1}
  Users <- MCUsers
  Matrix <- CommunityTransitions
  Reporter <- MCReporter
  InitialRole <- MCRoles
  Requests = {r1}
  Calls <- HandOverCalls
  Admin = {"archive_project", "remove_member"}
  NewRoles = {}
  MaxChainDepth = 3
  MaxVersion = 4
CHECK_DEADLOCK FALSE
INVARIANTS
  AssigneesAreMembers
PROPERTIES
  RemovalClearsOwnAssignments
  ArchivedProjectFreezesBugs
