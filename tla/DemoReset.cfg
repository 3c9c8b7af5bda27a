SPECIFICATION FairSpec
CONSTANTS
  Uploads = {u1}
  Projects = {}
  Resets = {p1, p2}
  Requests = {r1, r2}
  Nobody = Nobody
INVARIANTS
  OneResetAtATime
PROPERTIES
  CanonicalAtCommit
  FlagStaysUp
  ResetsEnd
