SPECIFICATION FairSpec
CONSTANTS
  ann = ann
  bob = bob
  cho = cho
  hello = hello
  toCho = toCho
  c1 = c1
  c2 = c2
  Users = {ann, bob, cho}
  Comments = {c1, c2}
  Bodies = {hello, toCho}
  Blank = Blank
  MentionedIn <- Mentioned
  Requests = {r1, r2}
  Nobody = Nobody
  Archivable = {"bug"}
  StartRole <- Roles0
  RoleChanges <- BobToViewer
  Calls <- CrossCalls
INVARIANTS
  FeedMatchesRow
PROPERTIES
  RemovedForGood
  AllAnswered
