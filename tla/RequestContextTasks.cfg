\* A task that dispatches another.
CONSTANTS
  None = None
  Threads = {t1}
  Clients = {c1}
  Users = {u1}
  MaxId = 2
  MaxMessages = 2
SPECIFICATION Spec
CHECK_DEADLOCK FALSE
PROPERTIES
  TasksPublishNoId
