\* The parts around bugs, one at a time.  As only one moves, they use the same
\* model values, and a permutation of them serves every part.
CONSTANTS
  None = None
  Runs = {r1}
  Personas <- MCPersonas
  DemoProjects <- MCDemoProjects
  DemoBugs <- MCDemoBugs
  DemoProjectOf <- MCDemoProjectOf
  DemoStepsOf <- MCDemoStepsOf
  DemoDuplicateOf <- MCDemoDuplicateOf
  MaxBugs = 3
  MaxEvents = 2
  Threads = {x1, x2}
  Clients = {y1, y2}
  Users = {z1, z2}
  MaxId = 3
  MaxMessages = 2
  Attempts = {q1, q2, q3}
  MAX_FAILED_ATTEMPTS = 2
  Viewers = {x1, x2}
  ANALYTICS_CACHE_TTL_SECONDS = 3
  Latency = 2
  Uploads = {x1, x2}
  Payloads = {a, bad}
  Refused = {bad}
  NoPayload = NoPayload
  Hole = Hole
  NChunks = 2
  ProjectKeys = {y1, y2}
  Staff <- MCStaff
  Editors = {x1, x2}
  NoRequest = NoRequest
  Calls <- MCCalls
  MaxNumber = 2
  u1 = u1
  u2 = u2
  p1 = p1
  p2 = p2
  tag1 = tag1
  tag2 = tag2
  Bugs <- MCBugs
  Projects = {p1, p2}
  AnyProject = AnyProject
  Members = {developer}
  NoUser = NoUser
  Tags = {tag1, tag2}
  ProjectOf <- MCProjectOf
  PriorityOf <- MCPriorityOf
  DueOf <- MCDueOf
  TagsOf <- MCTagsOf
  Matrix <- Workflow
  DayLength = 2
  Histories <- Backdated
  FirstMoment = 4
  MaxMoment = 5
  MaxResolutions = 2
  MaxChanges = 3
  PageSize = 1
SPECIFICATION Spec
INVARIANTS
  LoneRunDelivers
  LinesAreAttributed
  DescendantsCarryTheId
  WindowIsBounded
  LagIsBounded
  FeedMatchesRow
  ProjectsAreTyped
  NumbersAreGapless
  SectionsAgree
  ResolutionTimesHaveEvents
  PagesPartition
PROPERTIES
  RepeatChangesNothing
  StatusIsOneWay
  NoBugBornArchived
SYMMETRY Symmetry
CHECK_DEADLOCK FALSE
