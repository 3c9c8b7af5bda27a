\* A claim that the code refutes.
CONSTANTS
  None = None
  Threads = {t1, t2}
  Clients = {c1, c2}
  Users = {u1, u2}
  MaxId = 3
  MaxMessages = 2
SPECIFICATION Spec
CHECK_DEADLOCK FALSE
PROPERTIES
  RetriesKeepTheId
