SPECIFICATION Spec
CONSTANTS
  Requests = {r1, r2}
  Payloads = {a, b}
  Refused = {}
  NoPayload = NoPayload
  Hole = Hole
  NChunks = 1
INVARIANTS
  AcceptedBytesStay
