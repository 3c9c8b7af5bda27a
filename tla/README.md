# A verification project for Quorfix

TLA+ models of the Quorfix backend (`src/backend/apps`), checked with TLC, with
theorems that TLAPS proves for every size of the system. Everything is
translated from the code at this commit; where a docstring or a document and the
code disagree, the model follows the code and the claim is stated as a property.

Contents: 1 the system · 2 the modules · 3 how the code is modelled · 4 the runs ·
5 bounds · 6 fairness · 7 what is proved · 8 what the code does not keep ·
9 what is not modelled · 10 plan · 11 running it

## 1. The system

Quorfix is a bug tracker: a Django REST backend on PostgreSQL (READ COMMITTED),
Celery workers on Redis, files in a local directory, a Next.js frontend. The
services (`*/services.py`) own all mutations; views read the caller's membership
and the object, then call one service.

| part | state it keeps | operations | meets |
|---|---|---|---|
| bug workflow, `bugs/workflow.py`, `policies.py` | none | transition matrix, timestamp rule, who may do what | bugs |
| bugs, `bugs/services.py` | bug row with `version`, tags, relationships, watchers | update, transition, assign, archive, restore, tag, relate, mark duplicate | membership and project are read, not locked; activities are written in the same transaction; notifications after it |
| projects, `projects/services.py` | project row with `next_bug_number`, `archived_at`, lead | create, update, archive, restore; numbering of bugs under the project's lock | bugs read `archived_at`; a removal clears leads |
| organizations, `organizations/services.py` | set-up lock, organization, invitations, memberships | set up, invite, accept, revoke, change role, remove | a removal clears assignments and leads |
| notifications, `notifications/` | notification rows with `email_status`, preferences | create for an event, send the e-mail, mark read | Celery messages published on commit |
| attachments, `attachments/` | attachment row with a status, file | initiate, upload, remove, delete the object later | bug and project are read, not locked |
| comments, `comments/` | comment row with a status, mentions | create, edit, delete, redact | as attachments; publishes two events |
| activities | append-only rows | written by the others | - |
| demo reset, `reset_public_demo`, `pg_advisory_lock`, `demo_reset_guard` | advisory lock, flag in the cache | delete and reseed all demo content | all requests of visitors |
| seeding, `seed_demo`, `demo_data` | what it makes, in one commit after the other | set up, invite and accept personas, make projects and bugs, walk and backdate them | the services, visitors, an operator, another run of itself |
| request and task context, `core/middleware`, `core/context`, `task_correlation` | context variables of a thread, the sender's id in message headers | receive, authenticate, log, leave; publish, execute, retry | Celery, the threads that serve one job after the other |
| accounts, `accounts/views.py` | session of a browser | log in, log out | the actor of the log |
| throttling, `admin_login_throttle` | a counter in the cache | count failures, refuse, forget | all workers |
| analytics, `analytics/` | cached sections | summary, trends, distributions, workload, projects | reads bugs, projects, memberships, activities |
| bug list, `bugs/selectors.py`, `ordering.py` | none | filters, orderings, pages | reads bugs |
| checks, registries, health, other commands, frontend | - | see section 9 | - |

What is hard here. No service runs alone: gunicorn workers and threads serve
requests concurrently, one transaction each, and lock as little as they can.
So the questions are which of the things a service has read are still true when
it commits, whether waiting for rows ends, and what a crash, a lost message or a
second delivery leaves behind. PROJECT.json lists each such place under
`hazards`, with the property that would notice it going wrong.

What makes each part correct:

- **bugs**: nobody overwrites what they have not seen; the activity feed replays
  to the present state; timestamps follow the status; archived bugs stand still;
  no relation is stored twice; every request ends.
- **projects**: bug numbers are 1 to n without holes; archived projects get no bugs.
- **organizations**: one organization, never without an administrator; nobody gets
  in except through an open invitation, nor twice.
- **notifications**: one row and one e-mail per person and event whatever is
  delivered twice; "sent" means accepted by the server; a resolved e-mail stays so.
- **attachments**: the status goes one way; the feed follows it; the bytes of an
  accepted upload stay.
- **comments**: a removal is final; the feed tells what happened.
- **demo reset**: one at a time, as long as sessions last; what commits is canonical; it ends; the flag stays up until then.
- **seeding**: a run that nobody disturbs repairs whatever it finds, and on content that is there changes nothing.
- **context**: a log line tells of the job at hand; what a request dispatches runs under its id, retried and redelivered too.
- **throttling, cache**: the failures of a window and the age of what the dashboard shows are bounded.
- **dashboard and list**: sections that count the same bugs agree; resolution times have events; pages show each bug once.

## 2. The modules

| module | what it is |
|---|---|
| `BugWorkflow` | constant operators: statuses, `COMMUNITY_TRANSITIONS`, the timestamp rule, the policies |
| `BugLifecycle` | abstract specification of a bug row: each change is one step on the row as it is |
| `Bugs` | the services of `bugs/services.py` as requests with locks, several SELECTs and a commit; `INSTANCE BugLifecycle` is what it implements |
| `BugsProofs` | the inductive invariant, seven properties, the refinement, and what it carries over from `BugLifecycle` |
| `Projects`, `ProjectsProofs` | projects and `create_bug`; theorems about it as the part "numbering" of `Platform` |
| `Organizations`, `OrganizationsProofs` | set-up, invitations, memberships; theorems |
| `Notifications`, `NotificationsProofs` | events, Celery messages, workers, e-mails, readers; theorems |
| `Attachments` | one attachment, its row and its file |
| `Comments`, `CommentsProofs` | the comments of one bug; theorems |
| `DemoReset`, `DemoResetProofs` | the reset among visitors' requests; theorems |
| `SeedDemo` | the command `seed_demo`, run again and again among visitors, an operator and crashes |
| `DemoData` | its content, and what the workflow demands of it (`DemoDataIsAccepted`, which TLC evaluates) |
| `RequestContext` | correlation id, actor and session through requests and tasks |
| `AdminLoginThrottle` | failed sign-ins to Django admin, counted in the cache |
| `DashboardCache` | one key of the dashboard's cache |
| `Reports` | the queries of the dashboard and of the bug list over rows that services and `backdate_bug_history` write |
| `Platform` | seven parts that share nothing, put together |
| `PlatformProofs` | theorems about five of them: contexts, caching, attachments, throttling, reports |
| `SeedingProofs` | theorems about seeding; those about the seventh part are in `ProjectsProofs` |
| `MC<module>` | the instance TLC runs: users, calls, symmetry. `DemoReset`, `Attachments` and `RequestContext` by itself are run as they are, `MCProjects` only for the claims on file |

Parts that interact are composed inside the module of the part that is hurt: the
removal of a member is an action of `Bugs` (`RemoveMemberBegin`,
`RemoveMemberCommit`, because `clear_bug_assignments` selects and then updates),
of `Projects` (one UPDATE), of `Notifications` (the resolver's query of members)
and of `Organizations` (the memberships themselves). Archiving a project is an
action of `Bugs` and of `Projects`.

`Platform` is a composition too, of parts that share no variable: seeding, contexts,
throttling, caching, attachments, projects and reports, each an `INSTANCE`. (The parts do meet in the
program, in a project's row for instance; what another does to the rows of a part is then an action of that part, as above.) A behaviour of all of them is one behaviour of each, interleaved, and
stuttering changes no property of a part; so it is enough to let `part`, chosen in `Init`, say which one moves. `MCPlatform` gives it the values TLC runs it with.

## 3. How the code is modelled

**A request** is a slot in `Requests` with a program counter. Its first action
reads what the view reads before the transaction; then there is one action for each
point where another transaction can come between: a row lock awaited, a SELECT
of rows that are not locked, the commit. Writes become visible at the commit
(READ COMMITTED), so the writes of a transaction are one action, and everything
the handler does in it (activity, watchers, dispatch on commit) is in that action. A service
exception is an action that answers and releases the locks.

**PostgreSQL**, as the services rely on it: `SELECT ... FOR UPDATE` waits for the
holder of the row; a foreign key is checked at the commit with `FOR KEY SHARE`, which
waits for a holder too; after waiting, the locking statement re-reads the locked
row but not the rows joined to it; a cycle of waiting transactions loses one of them
(`DeadlockAbort`), which answers with an error.

*Bugs.* `Submit` merges the reads of membership, bug and page: the client's
page is what it saw when it sent the version. `SelectForUpdate` takes the snapshot of the project
that `_lock_bug` joins in, `LockBug` the row. The version check, `_check_mutable`
and the permission are the guard of the step after. Each of `is_eligible_assignee`,
the duplicate's target, each hop of `_duplicate_chain_reaches` and the look-up of a relationship
is a step. `.first()` without an order on a random key is any row. Fields a reporter
may edit are one field and triage fields another; one call edits one of the two. Tag
rows exist already. Linking bumps the version of one of the two bugs only, as in the code.

*Projects.* Callers are administrators throughout; keys are already normalized. `create_bug` locks
the project, reads the number, and inserts bug and counter in its commit. The updates read
the project without a lock.

*Organizations.* `OrganizationMembership` rows are locked by one statement, row by row in any
order. The set-up row, the invitation with its organization, and the unique constraints are kept.
Accounts, passwords and demo protection are left out.

*Notifications.* `notify` publishes after the commit (or the broker refuses). A worker takes
a message, resolves recipients, inserts row by row inside one transaction, commits, and
publishes an e-mail task per new pending row. An e-mail task reads the row, sends (accepted,
refused, or accepted with the answer lost), retries up to `MaxRetries`, and records the outcome with
a conditional UPDATE. A message may be delivered twice (Redis' visibility timeout); a killed worker loses the
task it has, since Celery acknowledges early. `Exhaustion` says how the last `retry(exc=exc)` ends: by
`MaxRetriesExceededError`, as the code expects, or by the exception it was given, as Celery 5.4.0 does.

*Attachments.* One attachment stands for all. Payloads are abstract; `Refused` are those of the wrong size or signature.
The file has a `.part` path and a final one; chunks are written one by one, so two uploads interleave, and
a process may die between any two steps.

*Comments.* The locking SELECT joins the author without `of`, so it locks the comment and then the user.
Archiving, the loss of a role and the end of the edit window are environment. Dispatch is part of the commit;
losing it is in `Notifications`.

*DemoReset.* One canonical record stands for all seeded content, visitors' uploads and projects for all they make.
The run takes the advisory lock, raises the flag, locks the organization, lists the files, deletes
them, deletes the rows (waiting for those held), seeds, commits, lowers the flag, releases. It may
fail or die in between. Its session may also end at any point (`Disconnect`): PostgreSQL rolls back and frees the advisory lock and the rows at once, while
the process goes on (`lost`) until its next statement fails (`Notice`); raising and lowering the flag and deleting the files need no
statement, so meanwhile another run may start. Failures to delete a file are logged by the code and skipped. The
guards on the environment are assumed to hold.

*SeedDemo.* Each call of a service is one action, since each commits. The run keeps what it has read (`found`) and uses it later. An
account has no password, the documented one, the one of the deployment, or a changed one; a project is archived or edited; a bug has a
title, how far it has been walked, and whether somebody has handled it. Tokens of invitations are known to the run that made them
alone. A process may die after any step; `Environment` is visitors, who may not touch personas, and an operator, who may.
`DemoData` has the table of bugs itself and replays it through `BugWorkflow`.

*RequestContext.* Threads of gunicorn and of Celery are alike: each serves one job at a time, and its context variables stay until somebody resets
them. The `finally` of the middleware may run at any stage (`Leave`), since a view may raise or be interrupted. Messages are delivered
twice or more; a retry takes the header with it. `root` in a message is the request that dispatched it, if one did, kept for the property; a message
that a task or a command dispatches has none.

*AdminLoginThrottle, DashboardCache.* Each call of the cache is one action. The cache's clock: a key expires at any time
in the first; in the second time is counted in ticks, a value is as old as its first query, and a request may take `Latency` ticks.

*Reports.* The services are one step each here, on the columns that the queries read; the two statements of
`backdate_bug_history` are two. A moment is a number and a day `DayLength` moments. The queries are operators that follow the ORM
expressions filter by filter; a page is a query of its own, and the database may break ties differently in each.

## 4. The runs

Runs that pass:

| run | configuration | question | states, time |
|---|---|---|---|
| `bug_row` | `MCBugsRow` | every operation on one bug but tags and links, two requests, while the project is archived, a role changes and members leave | 0.6 M, 105 s |
| `bug_links` | `MCBugsWeb` | four bugs marked around a ring, related from both ends, unlinked, archived and tagged, with fairness | 0.15 M, 75 s |
| `notifications` | `MCNotificationsEmail` | the two events of a comment that mentions a watcher; refused publications, redelivery, crashes, failing and unanswered sends | 0.3 M, 40 s |
| `emails_settle` | `MCNotificationsFair` | liveness with two recipients and a redelivered creation | 34 k, 20 s |
| `organization` | `MCOrganizations` | set-up, one person invited twice, demotions, removals, with fairness | 0.26 M, 110 s |
| `comments` | `MCComments` | two administrators and each other's comments, with fairness | 0.3 M, 150 s |
| `demo_reset` | `DemoReset` | two runs of the command, two visitors and an attachment, with fairness | 0.16 M, 165 s |
| `platform` | `MCPlatform` | one part at a time: `seed_demo` run again after crashes, visitors and an operator; two threads, two browsers and their tasks; three sign-ins at a time; two requests for a section; two uploads of one attachment; two requests with every project call and `create_bug` on two projects; two bugs worked on and backdated under dashboard and list | 0.77 M, 170 s |

What the properties say:

- `VersionIdentifiesRow`, `NoLostUpdate`: equal versions mean equal rows, so the integer
  comparison in `_check_version` is enough and whatever is committed is committed on the row the client
  saw. It depends on every writer of the row, the bulk UPDATE of a removal included, raising the version.
- `FeedReplays` (bugs), `FeedMatchesRow` (attachments, comments): the activities
  replay to the present status and assignee, and tell each row's fate exactly once.
- `TimestampsMatchStatus`: `resolved_at` and `closed_at` are a function of the status.
- `ArchivedIsFrozen`: an archived bug's shared state stands still, but for the removal of its assignee.
- `RefinesLifecycle`: the locked, multi-step transactions do to a row what `BugLifecycle` does in one step.
- `RelatesToCanonical`: never both directions of a `relates_to`.
- `AllAnswered` (bugs, organizations, comments): a request that has begun is answered: chain walks
  end, row locks are handed on, deadlocks are broken.
- `ProjectsAreTyped`, `NumbersAreGapless`, `NoBugBornArchived`: numbering and archiving under concurrent `create_bug` and saves.
- `FinalStatusIsFinal`, `SentMeansAccepted`, `OneEmailPerDelivery`, `MentionPrecedence`: see section 1; more
  e-mails than one need a redelivery or a lost answer each, which the docstring of
  `send_notification_email` admits.
- `EmailsSettle`: while workers run and messages arrive, a pending e-mail is sent or failed in the end, or its task has given up
  after the last retry: nothing retries for ever, nothing is forgotten in between.
- `StatusIsOneWay`: pending, then uploaded or failed, then removed.
- `AtLeastOneAdministrator`, `OneOrganization`, `OneMembershipPerPerson`, `MembershipsComeFromOpenInvitations`
  (an invitation lets somebody in once, and not when it was used, revoked or, as the request decided, expired). A request decides on the
  roles that it read when it locked the rows (`seen`), not on those of the moment, so the first of them needs the locks.
- `RemovedForGood`: a deleted or redacted comment neither returns nor keeps its text.
- `OneResetAtATime`: of the runs that still have their session, one at a time is between its guards and its commit; one that has
  lost it may be overtaken (section 8). `FlagStaysUp`: nobody lowers the flag of such a run before its transaction has ended, except a run that has
  lost its session, or Redis. `CanonicalAtCommit`: nothing of the visitors is left at a commit. `ResetsEnd`: no run waits for ever.
- `LoneRunDelivers`, `RepeatChangesNothing` (seeding): whatever dead runs, an operator and visitors have left, a run that nobody disturbs
  gets through and what it reports is there; on content that is there already it changes nothing. Where it does not get through is
  in the property: another organization, or a duplicate to be made again of a bug that is archived.
- `LinesAreAttributed`, `DescendantsCarryTheId` (context): the second is about what a request dispatches itself; which id a task of a task has is in section 8.
- `WindowIsBounded` (throttling): n requests in progress can count n·limit + n(n-1)/2 failures in a window, no more. `LagIsBounded` (cache): what
  is shown is no older than the time to live and two requests' durations.
- `SectionsAgree`, `ResolutionTimesHaveEvents`, `PagesPartition` (reports): see the comments there; each relates two or more queries.

Each property has a mutant: a changed definition (the comment before it says which bug it stands for) with
which TLC finds the property violated.

Runs that end in a counterexample are described in section 8.

## 5. Bounds

- *Requests.* Two at a time. The races of this code are between a reader and one
  writer, or two holders of two locks. The theorems of section 7 lift the bound for bugs, projects, the organization,
  comments, the workers that notify, the demo reset with its visitors, and for all parts of `Platform`.
- *Bugs.* `bug_row` has one bug, because all but links concern one row; `bug_links` has four: a cycle of three and
  one bug outside it, which is what makes the chain walk go round. `MaxChainDepth` 2 or 3 stands for 25: a walk
  runs into the limit within it.
- *MaxVersion.* No call starts on a bug that has reached it: two commits follow one
  another on a row, with any number of refused requests between (in the cycle run five).
- *Notifications.* `MaxRetries` 1, `MaxAgain` 1: one retry, one redelivery or lost answer per message. `Active` names the
  users who read, leave, watch and opt out meanwhile.
- *Attachments.* Two chunks: one interleaving point inside a file. One good payload and a bad one.
- *Organizations.* Two addresses, two invitations of the same person, demotions but no promotions.
- *Comments.* Two comments by two authors, each an administrator.
- *DemoReset.* Two visitors, one attachment and no project of theirs (a project is a row without a file); two runs of the command, each repeated any number of times.
  The theorems lift these bounds.
- *Projects.* Two requests, two projects, at most two bugs each, every kind of call on each.
- *SeedDemo.* Two personas (the administrator, whose rules differ, and another), one project, a bug and its duplicate, one process that may run again and again; two
  events of others or crashes, which is enough for a run to find the work of a dead run that somebody has changed.
- *RequestContext.* Two threads, two browsers, two users, three new ids besides the one a client sends, two messages: a task and its retry, or the task of a task. The theorems lift these bounds.
- *AdminLoginThrottle.* Three attempts, a limit of two: the bound of `WindowIsBounded`, nine, is reached. *DashboardCache.* Two requests, three ticks to live, two for a request.
- *Reports.* Two bugs of two projects with the same priority, one without a due date, one with two tags; days of two moments; three changes, so that a bug can
  be resolved, reopened and resolved, or backdated between changes; pages of one row, the finest cut, so that each tie is across pages. The matrix is a short one, as a workflow provider may have it.

Symmetry is used over requests and workers in the safety runs only. The parts of `MCPlatform` use the same model values for their slots, so that one
permutation serves them all.

`CHECK_DEADLOCK FALSE` is in the runs of bugs and of notifications: with `MaxVersion` reached, and once every event has been handled,
nothing more happens.

## 6. Fairness

`FairSpec` assumes that who is being served goes on: gunicorn workers and Celery workers keep running (weak fairness of
`Serve` in `Notifications`), and, where a step waits for a row, that PostgreSQL hands the row to its waiters in
the order in which they queued (strong fairness of `Serve` and `Run`: a lock that is free again and again is obtained).
Redis may expire the flag at any time, and need not: that it comes down after a crash is its time to live and nothing else, and no property
rests on it. Nothing is assumed about clients, administrators, or failures,
and the fair notification run has no crashes: a killed worker loses the task it has acknowledged.

## 7. What is proved

All theorems hold for any sets of bugs, users, requests, calls, and any bounds, under the named assumptions on
constants, which say that model values are distinct from each other and that calls have the fields the serializers let through.

*Bugs* (`BugsProofs`). The properties are not inductive: that a commit finds the row its client saw
depends on the check being older than the commit. `IInv` adds what is in between:
`LocksMatchStages` (a request past `LockBug` holds the row of its bug, and nobody else does),
`StagesMatchCalls` (each stage belongs to the calls that have it, and no fetched version is ahead of the row),
`ChecksStillHold` (the version, the archived flag and the permission that were checked under the lock are still so).
The removal of a member is the one writer without a check; it waits for the lock, which is why `ChecksStillHold`
survives it. From `IInv`: `TypeCorrect`, `VersionsIdentifyRows`, `FeedCorrect`, `NoUpdateLost`, `ArchivedStaysFrozen`,
`RelatesToIsCanonical` (with the stronger `CanonicalOrder`: the smaller id first), and `ImplementsLifecycle`: each commit is a step of
`BugLifecycle`, every other action a stutter.

`TimestampsCorrect` needs of the matrix only `MatrixKeepsTimestamps`: the terminal statuses are left by reopening alone and "closed" comes after
a resolution. It is proved of `BugLifecycle`, where each change is one step, and carried over to the concurrent specification by the refinement.
`CommunityTimestampsCorrect` shows that the community matrix is such a matrix.
The docstring of `apply_timestamp_side_effects` claims it for "any transition path"; a workflow provider
whose matrix goes from resolved straight to in_progress would leave an open bug with a `resolved_at`.

*Organizations* (`OrganizationsProofs`). None of the four properties is inductive: the last administrator stays because what a request counted
is still so when it writes. `IInv` says where that comes from: `SeenIsTrue` (memberships that a request has read are locked by it, and as it read them), `AcceptanceIsExclusive`
and `HeldIsLocked` (the same of invitations), `SetupIsExclusive` and `NothingBeforeSetup` (who creates the organization holds the set-up row, and nobody could be invited before),
`InvitationsAreNamed`. `StepWithoutWrite` and `StepWithWrite` say once what any step leaves to the other requests; each action then has only to
justify itself. From `IInv`: `AdministratorRemains`, `OrganizationIsOne`, `PeopleJoinOnce`, and `NobodyElseGetsIn`.

*Comments* (`CommentsProofs`). That a removal is final depends on a status that was looked at some steps before the commit. `IInv` says why it still holds:
`RowIsHeld` (whoever has got past `LockComment` holds the row), `CreationIsExclusive` (nobody else knows of a comment that is being created, and every other call is about one that exists),
`DecisionStands` (status, author and text are as `Decide` found them); `FeedIsExact` is `FeedMatchesRow` with the removal's author named. `CommitIsAlone` puts the argument in one lemma, and `WriteKeeps` reduces
each commit to the row it writes. The lock on the author is not needed for it: what it brings is the deadlock, which `AllAnswered` is about. From `IInv`: `FeedTellsTheTruth` and `RemovalIsFinal`.

*Notifications* (`NotificationsProofs`). Two executions of a task meet only in the unique constraint, and an e-mail is sent long after its row was written. `IInv`:
`NewRowsAreFree` (a row that an execution has inserted and not committed is nobody else's, and was not there), `ToldAreEligible` (who has a row, or will, is named by a mention
or not named by a comment event), `EmailsHaveRows` (a message in the broker, or in work, is about a row that asked for it), `RecordedWereAccepted` (who records "sent" has been
answered by the server). From it `SentWereAccepted`, `MentionsGoFirst` and `ResolvedForGood`, with refused publications, redelivery, crashes and deadlocks among the steps.
`NoSecondEmail` counts: `EmailsAreCounted` says that the e-mails sent, the workers that are about to publish or to send one (`Handlers`) and the copies of its task
in the broker (`Copies`) never outnumber the deliveries. Each step uses up as much as it produces (`Accounts`) unless it is a delivery more; only the transaction that inserts
the row starts one from nothing, and by `IInv` nothing is under way for a row that was not there (`NobodyHandlesUnwanted`).

*DemoReset* (`DemoResetProofs`). Requests are not turned away during a reset, so why is nothing of theirs left at its commit? `IInv`: `AdvisoryIsHeld` and `OrganizationIsHeld`
(a run that has its session holds the advisory lock to its end and the organization until its transaction ends; one that has lost it does nothing to the rows), hence `AllIsRemoved` (after the DELETEs no row is added, because its foreign key would wait for
the organization). From it `ResetsAreOne`, `FlagStays` and `CommitsAreCanonical`.

*The parts of `Platform`* (`PlatformProofs`, `SeedingProofs`). A step of the platform is a step of the part that moves and leaves the others' variables alone. For each part there are
an invariant of its own variables and the two facts about its own `Init` and `Next`, as lemmas; the theorem about `Platform` follows from them by the lemma that
a behaviour of `Platform` is, on the variables of a part, a behaviour of that part (`ContextsMove`, `UploadingMoves`, ...).

- *Contexts.* `ContextInv` adds to the two properties that a thread between jobs knows of none (so that a reset to nothing is a reset to what was there),
  that a task acts for nobody, and that the header of a task that a request dispatched is the request's id, on which a retry depends. From it `LogsAreTrue` and `IdsAreHandedOn`.
- *Caching.* `CacheInv`: a value is stored by the request that computed it and is no older than that request (`StoresItsOwn`), and in the cache it ages by what it loses of its time to live
  (`AgesOnItsTime`), whoever overwrites whom. From it `DashboardLagIsBounded`.
- *Attachments.* `UploadInv` is `FeedMatchesRow` with `RemovalNeedsUpload`; each step, those of the file included, makes one of five moves of the row or none (`RowMoves`). From it `AnnouncedOnce` and `UploadedForGood`.
- *Throttling.* `WindowIsBounded` is a sum over the history of a window and far from inductive. `AdmittedInTime`: the counter leaves room for all who are past the test of the limit. `OverwritesAreBounded`:
  a request that writes 1 over the count has cost the window what had been counted by then, and is done; so the failures are bounded by the counter and a quadratic in the number of requests that have overwritten. From them `FailuresAreBounded`,
  for any number of sign-ins and any limit.
- *Reports, resolution times.* `ReportInv` ties each resolved row to an event of the feed (`ResolvedHaveEvents`), by the last place while nothing is backdated (`LastEventTells`), and says what the first statement of
  `backdate_bug_history` has written for the second (`BackdatingTells`). From it `ResolutionTimesAreEvents`, for any matrix.
- *Reports, pages.* `PagesShowEachBugOnce`: with the primary key as the last tie-breaker ORDER BY is total on the rows (`OrderIsTotal`), a set has one enumeration sorted by a total order (`SortedOneWay`, by the least place where
  two differ), so both queries cut the same list, at any page size.
- *Reports, sections.* `SectionsTellAlike`: a sum of counts by some value is the count of all, because each row has one value (`SumOfCounts`). A sum over a set is recursive;
  `SumIsDefined` shows that a function with that recursion exists, and it is the count, since among the sets where the two differ there would be a smallest (`Least`).
  What is left is that each section divides the same rows: an assignee is nobody, staff, or to be replaced (`OpenByAssignee`), a moment within a range lies on one of its days (`WithinIsOnADay`),
  and the join and the list filter as the summary does (`JoinedAreBase`, `ListOfProject`).
- *Seeding.* The run reports what it has not looked at for many steps. `SeedInv`: while a run is alone nobody else is at work (`OthersAreIdle`), so what it has read is so (`MemberKnown`, `ProjectKnown`, `BugKnown`), and what it has gone past
  is ready (`LoneProgress`): personas, then projects, then bugs. Nothing of this is true of a run that is disturbed, but what it does later depends on `RowsThere` and on `Tokens` (an invitation's token belongs to the run that is about to accept it).
  `LoneRepeat` keeps a run on complete content in the stages that only look. From it `LoneRunsDeliver` and `RepeatsChangeNothing`, for any lists of personas, projects and bugs.

*Projects* (`ProjectsProofs`, as a part of `Platform`). `IInv`: only `create_bug` holds a project's row, what it has read there (the number, not
archived) is still so, and numbers are 1 to the counter less one. From it `TypeCorrect`, `NumbersCorrect`, `NoneBornArchived`.

Assumptions: each module names those on its constants. The parts of `Platform` state theirs as operators (`SeedAssumption`,
`ContextAssumption`, ...), of which `PlatformAssumption` is the conjunction; TLC evaluates it with the values of `MCPlatform`.

Only model-checked:

- all liveness (`EmailsSettle`, `AllAnswered`, `ResetsEnd`), which is out of this prover's reach, as is ENABLED;
- the type invariants of modules whose runs leave them out; to check one, add `TypeOK` to the configuration. `IInv` and its like include them, so where there are theorems they are proved.

## 8. What the code does not keep

Four runs end in a counterexample, and PROJECT.json quotes the claims:

- `duplicate_cycle` (`MCBugsRemark`, one request at a time). Mark 1 as a duplicate of 2, reopen 1, triage it, mark it as a
  duplicate of 3: it has two links, since reopening deletes none. `_duplicate_chain_reaches` follows one of them, and a bug of
  the other can be marked as a duplicate of 1: a cycle, although the test `test_two_bug_cycle_rejected` wants one rejected.
- `double_submit` (`AttachmentsDouble`). Two uploads of one pending attachment: the first is accepted; the second is
  refused under the lock, but has already renamed its file over the accepted one.
- `reset_refusals` (`DemoResetRefused`). The deployment guide promises 503 while a reset runs; the permission that says so is in
  `DEFAULT_PERMISSION_CLASSES`, and each organization-scoped view sets its own classes.
- `request_tasks` (`RequestContextTasks`). The docstring of `correlation_headers` has no header for what "another task" dispatches, and that of
  `task_correlation_context` and docs/OBSERVABILITY.md an id of its own for such a task. But the dispatching task has bound its id, `get_request_id()` returns
  it, and it goes along: an e-mail task runs under the id of the task that inserted the notification.

Counterexamples on file. These claims fail as well; each has a configuration beside the modules, to be run by hand
(where a configuration has several claims, `-continue` makes TLC go on to the next):

| claim | configuration | what happens |
|---|---|---|
| `ArchivedProjectFreezesBugs` ("must freeze them too") | `MCBugsClaims` | the project is joined into the locking SELECT but not locked: a mutation commits after the archiving |
| `DuplicatesAcyclic` | `MCBugsMarkRace` | the same cycle, closed by two requests at once without any reopening |
| `AssigneesAreMembers` | `MCBugsClaims` | an assignment checked before a removal commits after it |
| `RemovalClearsOwnAssignments` | `MCBugsClaims` | a bug reassigned between the SELECT and the UPDATE loses the new assignee |
| `ArchivedProjectKeepsFields` | `MCProjectsClaims` | `archived_at` is tested on an object read without a lock |
| `LeadsAreMembers` | `MCProjectsClaims` | the lead is validated before the removal and saved after it |
| `NotifiedAreMembers` | `MCNotificationsClaims` | the members are read outside the transaction that inserts |
| `ClaimedOnceMeansOnce` | `MCNotificationsClaims` | two executions send; the slower logs "sent exactly once" |
| `GaveUpIsResolved` | `MCNotificationsClaims` | `retry(exc=exc)` raises exc at the end, so the row stays pending |
| `FinalPathIsWhole` | `AttachmentsPartial` | two uploads share one `.part` file |
| `OpenInvitationsAreForStrangers` | `MCOrganizationsStrangers` | membership is looked up before the pending invitation is locked |
| `MentionsAreInTheText` | `MCCommentsClaims` | an edit leaves the mentions of the old text |
| `NothingSaidWhileArchived` | `MCCommentsClaims` | bug and project are tested on objects read without a lock |
| `OneProcessAtATime` | `DemoResetOverlap` | a session ends while the run deletes files, which needs no statement; the lock is free and another run starts |
| `UploadsHaveFiles` | `DemoResetClaims` | a reset that rolls back has already deleted the files |
| `FilesHaveRows` | `DemoResetClaims` | an upload in flight saves its file after the deletion |
| `ReportedBugsAreWhole` | `MCSeedDemoClaims` | a run died between creating a bug and walking it; later runs find the title and go on |
| `SafeToReRun` | `MCSeedDemoClaims` | a renamed duplicate is made again, and the archived target is refused |
| `OneBugPerTitle` | `MCSeedDemoClaims` | two runs at a time look for a title and both create it |
| `RetriesKeepTheId` | `RequestContextClaims` | without a header each retry has a new id, not "a stable ID of its own" |
| `NoFailureIsLost` | `AdminLoginThrottleClaims` | the key expires between add and incr, and set overwrites what others have counted |
| `CachedForTheTTL` | `DashboardCacheClaims` | the time to live begins when the value is stored, not when it is computed |
| `NeverBackInTime` | `DashboardCacheClaims` | a slow computation is stored over a newer value |
| `RankedPagesPartition` | `MCReportsClaims` | `priority` and `severity` have `-created_at` as tie-breaker, which is not unique |
| `UpdatedAtMoves` | `MCReportsClaims` | the services save with `update_fields`, without `updated_at` |

## 9. What is not modelled

- Start-up checks, settings and `environment`: predicates over configuration that run once, before there is any state.
- Health endpoints, and the registries and placeholder packages: they keep nothing, or are filled once at import.
- Archive extraction and the malware scanner's registry: pure functions of a file.
- The commands that make and measure a large dataset: bulk inserts and timings, one process, nobody else at work.
- The frontend, deployment scripts, compose files, migrations.
- The framework's part of accounts: password hashing, CSRF, the session store, reset of passwords.

PROJECT.json gives the reason for each. Inside the modelled parts: text normalization and limits, serialization, the content checks of
attachments, the unread counter, creation of new tags, protection of demo personas in the organization's services,
the filters of the bug list that are conjuncts of the same kind as those that are there.

## 10. Plan

Done, in the order of the plan: workflow and bugs, with the abstract specification and its refinement; projects; notifications; attachments;
organizations, comments and notifications with proofs; the demo reset with proofs; seeding and its data; request and task context; throttling; the cache; the
dashboard and the bug list; the proofs of these parts; the count of e-mails; the sums of the dashboard.

Next, in this order:

1. An abstract specification of the attachment row and of the e-mail's status, and refinements to them.
2. That the file of an attachment is whole when one upload at a time is at work on it.
3. The bug page of the frontend: what it does with a version conflict, against `Bugs`.

## 11. Running it

    tlc -workers 2 -config MCBugsRow.cfg MCBugs.tla
    tlapm BugsProofs.tla

A configuration belongs to the module whose name it begins with: `MCBugsRow.cfg` to `MCBugs`,
`DemoResetClaims.cfg` to `DemoReset`.
