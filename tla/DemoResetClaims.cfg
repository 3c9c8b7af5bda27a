\* Claims that the code refutes; with -continue TLC reports each.
SPECIFICATION Spec
CONSTANTS
  Uploads = {u1}
  Projects = {j1}
  Resets = {p1, p2}
  Requests = {r1, r2}
  Nobody = Nobody
INVARIANTS
  UploadsHaveFiles
  FilesHaveRows
