\* Claims that the code refutes; with -continue TLC reports each.
SPECIFICATION Spec
CONSTANTS
  Bugs = {1, 2}
  p1 = p1
  p2 = p2
  Projects = {p1, p2}
  AnyProject = AnyProject
  Users = {u1}
  NoUser = NoUser
  t1 = t1
  t2 = t2
  Tags = {t1, t2}
  None = None
  ProjectOf <- MCProjectOf
  PriorityOf <- MCPriorityOf
  DueOf <- MCDueOf
  TagsOf <- MCTagsOf
  Matrix <- MCMatrix
  DayLength = 2
  Histories <- MCHistories
  FirstMoment = 4
  MaxMoment = 5
  MaxChanges = 4
  MaxResolutions = 2
  PageSize = 1
CHECK_DEADLOCK FALSE
INVARIANTS
  RankedPagesPartition
PROPERTIES
  UpdatedAtMoves
