------------------------------- MODULE Platform -------------------------------
(***************************************************************************)
(* The parts of the platform around bugs.  Each has variables of its own   *)
(* for all that it reads and writes and none of another's, so a behaviour  *)
(* of all of them is one of each, in any order, and a property of one part *)
(* holds in it if it holds in the behaviours in which only that part       *)
(* moves: part, chosen at the start, says which.                           *)
(***************************************************************************)
EXTENDS Naturals, Sequences, FiniteSets

CONSTANTS
  None,
  Runs, Personas, DemoProjects, DemoBugs, DemoProjectOf, DemoStepsOf, DemoDuplicateOf,
  MaxBugs, MaxEvents,                                                 \* seeding
  Threads, Clients, Users, MaxId, MaxMessages,                        \* contexts
  Attempts, MAX_FAILED_ATTEMPTS,                                      \* throttling
  Viewers, ANALYTICS_CACHE_TTL_SECONDS, Latency,                      \* caching
  Uploads, Payloads, Refused, NoPayload, Hole, NChunks,               \* attachments
  ProjectKeys, Staff, Editors, NoRequest, Calls, MaxNumber,           \* numbering
  Bugs, Projects, AnyProject, Members, NoUser, Tags, ProjectOf, PriorityOf, DueOf, TagsOf,
  Matrix, DayLength, Histories, FirstMoment, MaxMoment, MaxResolutions, MaxChanges,
  PageSize                                                            \* reports

VARIABLES
  part,
  settings, organization, account, role, invitation, project, bugs, seedPc, at, found,
  events, alone, repeat,                                              \* seeding
  session, requestId, actor, stage, job, queue, used,                 \* contexts
  counter, attemptPc, failures,                                       \* throttling
  entry, sectionPc, spent, age,                                       \* caching
  status, removed, archived, feed, path, content, uploadPc, sent, fd, pos,
  cleanups, accepted,                                                 \* attachments
  exists, name, lead, closed, nextNumber, numbers, members, holder, projectPc, call,
  number,                                                             \* numbering
  now, bug, resolutions, projectArchived, membership, backdating, changes   \* reports

Seeding == INSTANCE SeedDemo WITH
  PERSONAS <- Personas, DEMO_PROJECTS <- DemoProjects, DEMO_BUGS <- DemoBugs,
  ProjectOf <- DemoProjectOf, StepsOf <- DemoStepsOf, DuplicateOf <- DemoDuplicateOf,
  pc <- seedPc

Contexts == INSTANCE RequestContext

Throttling == INSTANCE AdminLoginThrottle WITH Requests <- Attempts, pc <- attemptPc

Caching == INSTANCE DashboardCache WITH Requests <- Viewers, pc <- sectionPc

Uploading == INSTANCE Attachments WITH Requests <- Uploads, pc <- uploadPc

Numbering == INSTANCE Projects WITH
  Keys <- ProjectKeys, Users <- Staff, Requests <- Editors, MaxBugs <- MaxNumber,
  archived <- closed, next <- nextNumber, pc <- projectPc

Reporting == INSTANCE Reports WITH Users <- Members, role <- membership

\* What each part wants of its constants.
ASSUME PlatformAssumption ==
  /\ Seeding!SeedAssumption /\ Contexts!ContextAssumption /\ Throttling!ThrottleAssumption
  /\ Caching!CacheAssumption /\ Uploading!PayloadsAssumption /\ Uploading!SizesAssumption
  /\ Numbering!ProjectsAssumption /\ Reporting!ReportsAssumption

seedVars == <<settings, organization, account, role, invitation, project, bugs, seedPc, at,
              found, events, alone, repeat>>
contextVars == <<session, requestId, actor, stage, job, queue, used>>
throttleVars == <<counter, attemptPc, failures>>
cacheVars == <<entry, sectionPc, spent, age>>
uploadVars == <<status, removed, archived, feed, path, content, uploadPc, sent, fd, pos,
                cleanups, accepted>>
projectVars == <<exists, name, lead, closed, nextNumber, numbers, members, holder, projectPc,
                 call, number>>
reportVars == <<now, bug, resolutions, projectArchived, membership, backdating, changes>>
vars == <<part, seedVars, contextVars, throttleVars, cacheVars, uploadVars, projectVars,
          reportVars>>

Init ==
  /\ part \in {"seeding", "contexts", "throttling", "caching", "uploading", "numbering",
              "reporting"}
  /\ Seeding!Init
  /\ Contexts!Init
  /\ Throttling!Init
  /\ Caching!Init
  /\ Uploading!Init
  /\ Numbering!Init
  /\ Reporting!Init
  /\ part # "seeding" => settings = "development" /\ organization = "none"

Seed ==
  /\ part = "seeding"
  /\ Seeding!Next
  /\ UNCHANGED <<part, contextVars, throttleVars, cacheVars, uploadVars, projectVars, reportVars>>

Serve ==
  /\ part = "contexts"
  /\ Contexts!Next
  /\ UNCHANGED <<part, seedVars, throttleVars, cacheVars, uploadVars, projectVars, reportVars>>

Attempt ==
  /\ part = "throttling"
  /\ Throttling!Next
  /\ UNCHANGED <<part, seedVars, contextVars, cacheVars, uploadVars, projectVars, reportVars>>

Look ==
  /\ part = "caching"
  /\ Caching!Next
  /\ UNCHANGED <<part, seedVars, contextVars, throttleVars, uploadVars, projectVars, reportVars>>

Upload ==
  /\ part = "uploading"
  /\ Uploading!Next
  /\ UNCHANGED <<part, seedVars, contextVars, throttleVars, cacheVars, projectVars, reportVars>>

Edit ==
  /\ part = "numbering"
  /\ Numbering!Next
  /\ UNCHANGED <<part, seedVars, contextVars, throttleVars, cacheVars, uploadVars, reportVars>>

Work ==
  /\ part = "reporting"
  /\ Reporting!Next
  /\ UNCHANGED <<part, seedVars, contextVars, throttleVars, cacheVars, uploadVars, projectVars>>

Next == Seed \/ Serve \/ Attempt \/ Look \/ Upload \/ Edit \/ Work

Spec == Init /\ [][Next]_vars

-----------------------------------------------------------------------------
(* The properties of the parts.                                            *)

\* seed_demo: an undisturbed run repairs whatever it finds, and what it
\* reports as ready is so.
LoneRunDelivers == part = "seeding" => Seeding!LoneRunDelivers

\* seed_demo: on content that is there already a run changes nothing.
RepeatChangesNothing == Seeding!RepeatChangesNothing

\* Log lines carry the id and the actor of the job that the thread is doing.
LinesAreAttributed == part = "contexts" => Contexts!LinesAreAttributed

\* What a request dispatches itself runs under its id, redelivered and retried too.
DescendantsCarryTheId == part = "contexts" => Contexts!DescendantsCarryTheId

\* Failed sign-ins to Django admin in one window are bounded.
WindowIsBounded == part = "throttling" => Throttling!WindowIsBounded

\* How far a section of the dashboard lags behind is bounded.
LagIsBounded == part = "caching" => Caching!LagIsBounded

\* An attachment is announced and its removal announced once each.
FeedMatchesRow == part = "uploading" => Uploading!FeedMatchesRow

\* Uploaded and removed are for good.
StatusIsOneWay == Uploading!StatusIsOneWay

\* Projects and their requests have their types: a lead is a user or nobody.
ProjectsAreTyped == part = "numbering" => Numbering!TypeOK

\* Bug numbers of a project have neither holes nor repetitions.
NumbersAreGapless == part = "numbering" => Numbering!NumbersAreGapless

\* No bug is born in an archived project.
NoBugBornArchived == Numbering!NoBugBornArchived

\* The sections of the dashboard and the bug list agree.
SectionsAgree == part = "reporting" => Reporting!SectionsAgree

\* Resolution times are of resolutions that the activity feed has.
ResolutionTimesHaveEvents == part = "reporting" => Reporting!ResolutionTimesHaveEvents

\* Pages of the bug list show every matching bug once.
PagesPartition == part = "reporting" => Reporting!PagesPartition
=============================================================================
