SPECIFICATION FairSpec
CONSTANTS
  author = author
  dev = dev
  lead = lead
  comment = comment
  activity = activity
  Users <- Three
  Sources <- MCSources
  Events <- StatusChange
  Active = {}
  Workers = {w1, w2}
  MaxRetries = 1
  MaxAgain = 1
  Faults = {}
  Exhaustion = {"exc", "max_retries"}
PROPERTIES
  EmailsSettle
CHECK_DEADLOCK FALSE
