SPECIFICATION Spec
CONSTANTS
  adm = adm
  dev = dev
  rep = rep
  NoRequest = NoRequest
  NoUser = NoUser
  Bugs = {1, 2, 3}
  Users <- MCUsers
  Matrix <- CommunityTransitions
  Reporter <- MCReporter
  InitialRole <- MCRoles
  Requests = {r1}
  Calls <- RemarkCalls
  Admin = {}
  NewRoles = {}
  MaxChainDepth = 3
  MaxVersion = 6
INVARIANTS
  DuplicatesAcyclic
CHECK_DEADLOCK FALSE
