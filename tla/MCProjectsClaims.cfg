\* Claims that the code refutes; with -continue TLC reports each.
SPECIFICATION Spec
CONSTANTS
  u1 = u1
  u2 = u2
  NoUser = NoUser
  NoRequest = NoRequest
  Keys = {k1}
  Users <- MCUsers
  Requests = {r1, r2}
  Calls <- MCCalls
  MaxBugs = 1
INVARIANTS
  LeadsAreMembers
PROPERTIES
  ArchivedProjectKeepsFields
