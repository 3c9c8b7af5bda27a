SPECIFICATION Spec
CONSTANTS
  Uploads = {u1}
  Projects = {}
  Resets = {p1, p2}
  Requests = {r1}
  Nobody = Nobody
INVARIANTS
  OneProcessAtATime
