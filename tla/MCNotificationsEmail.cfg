SPECIFICATION Spec
CONSTANTS
  author = author
  dev = dev
  lead = lead
  comment = comment
  activity = activity
  Users <- Two
  Sources <- MCSources
  Events <- Comment
  Active = {dev}
  Workers = {w1, w2}
  MaxRetries = 1
  MaxAgain = 1
  Faults = {"refuse", "crash"}
  Exhaustion = {"max_retries", "exc"}
INVARIANTS
  SentMeansAccepted
  OneEmailPerDelivery
  MentionPrecedence
PROPERTIES
  FinalStatusIsFinal
SYMMETRY Interchangeable
CHECK_DEADLOCK FALSE
