\* Claims that the code refutes; with -continue TLC reports each.
SPECIFICATION Spec
CONSTANTS
  author = author
  dev = dev
  lead = lead
  comment = comment
  activity = activity
  Users <- Two
  Sources <- MCSources
  Events <- Assignment
  Active = {dev}
  Workers = {w1, w2}
  MaxRetries = 1
  MaxAgain = 1
  Faults = {}
  Exhaustion = {"exc"}
INVARIANTS
  ClaimedOnceMeansOnce
  GaveUpIsResolved
CHECK_DEADLOCK FALSE
PROPERTIES
  NotifiedAreMembers
