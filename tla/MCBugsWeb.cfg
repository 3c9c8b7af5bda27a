SPECIFICATION FairSpec
CONSTANTS
  adm = adm
  dev = dev
  rep = rep
  NoRequest = NoRequest
  NoUser = NoUser
  Bugs = {1, 2, 3, 4}
  Users <- MCUsers
  Matrix <- CommunityTransitions
  Reporter <- MCReporter
  InitialRole <- MCRoles
  Requests = {r1, r2}
  Calls <- WebCalls
  Admin = {"archive_project", "restore_project"}
  NewRoles = {}
  MaxChainDepth = 2
  MaxVersion = 2
INVARIANTS
  RelatesToCanonical
PROPERTIES
  AllAnswered
CHECK_DEADLOCK FALSE
