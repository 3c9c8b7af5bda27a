------------------------------- MODULE Reports -------------------------------
(***************************************************************************)
(* What is read from the bugs: the sections of the dashboard               *)
(* (apps/analytics/selectors.py), each a query of its own over bugs,       *)
(* projects, memberships and the activity feed, and the bug list           *)
(* (apps/bugs/selectors.py), read page by page.  The services that write   *)
(* the rows are here in one step each; Bugs has their interleavings.       *)
(***************************************************************************)
EXTENDS BugWorkflow, Integers, FiniteSets, SequencesExt

CONSTANTS
  Bugs,           \* bug rows, numbered in the order of their uuids
  Projects, AnyProject,
  Users, NoUser,
  Tags,
  ProjectOf, PriorityOf, DueOf, TagsOf,  \* columns that are not written here;
                                         \* DueOf[b] is a day, or None
  Matrix,         \* get_transition_matrix(project)
  DayLength,      \* moments in a day
  Histories,      \* what the command gives bugs: [created, resolutions], oldest first
  FirstMoment, MaxMoment,      \* bounds on moments
  MaxResolutions, \* bound: resolutions of one bug
  MaxChanges,     \* bound: calls that change a row
  PageSize,
  None

\* A bug's row, and what backdate_bug_history has still to write to which.
Rows ==
  [status : Statuses, assignee : Users \union {NoUser}, created : Nat, updated : Nat,
   resolved : Nat \union {None}, archived : BOOLEAN]
Backdatings == [bug : Bugs, created : Nat, resolved : Nat \union {None}]

ReportsAssumption ==
  /\ Bugs \subseteq Nat
  /\ IsFiniteSet(Bugs) /\ IsFiniteSet(Projects) /\ IsFiniteSet(Users)
  /\ None \notin Nat \union Rows \union Backdatings \union [bug : {None}]
  /\ AnyProject \notin Projects /\ NoUser \notin Users
  /\ ProjectOf \in [Bugs -> Projects] /\ PriorityOf \in [Bugs -> Nat]
  /\ \A b \in Bugs : DueOf[b] \in {None} \union (0 .. MaxMoment)
  /\ TagsOf \in [Bugs -> SUBSET Tags]
  /\ Matrix \in [Statuses -> SUBSET Statuses]
  /\ DayLength \in Nat \ {0} /\ PageSize \in Nat \ {0}
  /\ {FirstMoment, MaxMoment, MaxResolutions, MaxChanges} \subseteq Nat
  /\ \A h \in Histories :
       /\ h \in [created : Nat, resolutions : Seq(Nat)]
       /\ \A i \in DOMAIN h.resolutions : h.created <= h.resolutions[i]

VARIABLES
  now,
  bug,          \* bug[b]: None, or the row
  resolutions,  \* resolutions[b]: when the feed says that b was resolved, oldest first
  projectArchived,
  role,
  backdating,   \* backdate_bug_history: None before, its Backdatings under way, no bug after
  changes       \* how many calls have changed a row

vars == <<now, bug, resolutions, projectArchived, role, backdating, changes>>

Moments == 0..MaxMoment
Day(m) == m \div DayLength
Days == 0..Day(MaxMoment)
Exists(b) == bug[b] # None

TypeOK ==
  /\ now \in Nat
  /\ bug \in [Bugs -> Rows \union {None}]
  /\ resolutions \in [Bugs -> Seq(Nat)]
  /\ projectArchived \in [Projects -> BOOLEAN]
  /\ role \in [Users -> Roles \union {NoRole}]
  /\ backdating \in {None} \union [bug : {None}] \union Backdatings

Init ==
  /\ now = FirstMoment
  /\ bug = [b \in Bugs |-> None]
  /\ resolutions = [b \in Bugs |-> <<>>]
  /\ projectArchived = [p \in Projects |-> FALSE]
  /\ role = [u \in Users |-> "developer"]
  /\ backdating = None
  /\ changes = 0

-----------------------------------------------------------------------------
(* The services.                                                           *)

Changes == changes < MaxChanges /\ changes' = changes + 1

Mutable(b) == Exists(b) /\ ~bug[b].archived /\ ~projectArchived[ProjectOf[b]]

\* _resolve_assignee.
EligibleAssignees == {NoUser} \union {u \in Users : IsEligibleAssigneeRole(role[u])}

Create(b) ==
  /\ ~Exists(b) /\ ~projectArchived[ProjectOf[b]]
  /\ bug' = [bug EXCEPT ![b] =
       [status |-> "new", assignee |-> NoUser, created |-> now, updated |-> now,
        resolved |-> None, archived |-> FALSE]]
  /\ UNCHANGED <<now, resolutions, projectArchived, role, backdating, changes>>

\* apply_timestamp_side_effects on resolved_at.
ResolvedMoment(s, before, moment) ==
  IF s \in ResolutionStatuses THEN moment ELSE IF s = "reopened" THEN None ELSE before

\* transition_bug.  The row gets the time at which the workflow looks at the
\* clock, the feed that at which its own row is written.  No update_fields
\* name updated_at, so its auto_now is not saved, here or in any service.
Transition(b, s, a) ==
  /\ Mutable(b)
  /\ Changes
  /\ s \in Matrix[bug[b].status]
  /\ a \in EligibleAssignees \union {bug[b].assignee}
  /\ s \in AssigneeRequiredStatuses => a # NoUser
  /\ s \in ResolutionStatuses => Len(resolutions[b]) < MaxResolutions
  /\ now' \in {now, now + 1} \intersect Moments
  /\ bug' = [bug EXCEPT ![b] =
       [bug[b] EXCEPT !.status = s, !.assignee = a,
                      !.resolved = ResolvedMoment(s, bug[b].resolved, now)]]
  /\ resolutions' = IF s \in ResolutionStatuses
                    THEN [resolutions EXCEPT ![b] = Append(@, now')] ELSE resolutions
  /\ UNCHANGED <<projectArchived, role, backdating>>

Assign(b, a) ==
  /\ Mutable(b)
  /\ Changes
  /\ a # bug[b].assignee
  /\ a \in EligibleAssignees
  /\ bug' = [bug EXCEPT ![b].assignee = a]
  /\ UNCHANGED <<now, resolutions, projectArchived, role, backdating>>

\* archive_bug and restore_bug.
SetArchived(b) ==
  /\ Changes
  /\ Exists(b) /\ ~projectArchived[ProjectOf[b]]
  /\ bug' = [bug EXCEPT ![b].archived = ~@]
  /\ UNCHANGED <<now, resolutions, projectArchived, role, backdating>>

\* archive_project and restore_project.
SetProjectArchived(p) ==
  /\ Changes
  /\ projectArchived' = [projectArchived EXCEPT ![p] = ~@]
  /\ UNCHANGED <<now, bug, resolutions, role, backdating>>

ChangeRole(u, r) ==
  /\ Changes
  /\ role[u] # NoRole
  /\ role' = [role EXCEPT ![u] = r]
  /\ UNCHANGED <<now, bug, resolutions, projectArchived, backdating>>

\* remove_member and clear_bug_assignments.
RemoveMember(u) ==
  /\ Changes
  /\ role[u] # NoRole
  /\ role' = [role EXCEPT ![u] = NoRole]
  /\ bug' = [b \in Bugs |-> IF Exists(b) /\ bug[b].assignee = u
                            THEN [bug[b] EXCEPT !.assignee = NoUser] ELSE bug[b]]
  /\ UNCHANGED <<now, resolutions, projectArchived, backdating>>

\* Mutant: only the first of the rows is rewritten.
RewrittenFirst(old, moments) == IF moments = <<>> THEN old ELSE [old EXCEPT ![1] = moments[1]]

Rewritten(old, moments) ==
  [i \in DOMAIN old |-> IF i \in DOMAIN moments THEN moments[i] ELSE old[i]]

UnderWay == IF backdating = None THEN None ELSE backdating.bug

(***************************************************************************)
(* backdate_bug_history on a bug that seed_demo has just walked: the rows  *)
(* of the feed first, then its own row, by the status that the command     *)
(* remembers.  A bug that somebody has resolved once more in between fails *)
(* the strict zip, when the older rows have been rewritten.  All moments   *)
(* are before the command began (reference_now), so before it made b.      *)
(***************************************************************************)
Backdate(b, created, moments) ==
  /\ backdating = None
  /\ Exists(b) /\ created <= bug[b].created
  /\ Len(moments) <= Len(resolutions[b])
  /\ \A i \in DOMAIN moments : moments[i] <= bug[b].created
  /\ resolutions' = [resolutions EXCEPT ![b] = Rewritten(@, moments)]
  /\ backdating' =
       IF moments # <<>> /\ Len(moments) < Len(resolutions[b]) THEN [bug |-> None]
       ELSE [bug |-> b, created |-> created,
             resolved |-> IF moments # <<>> /\ bug[b].status \in TerminalStatuses
                          THEN Last(moments) ELSE None]
  /\ UNCHANGED <<now, bug, projectArchived, role, changes>>

BackdateRow ==
  /\ UnderWay # None
  /\ bug' = [bug EXCEPT ![backdating.bug] =
       [bug[backdating.bug] EXCEPT
          !.created = backdating.created,
          !.resolved = IF backdating.resolved = None THEN @ ELSE backdating.resolved]]
  /\ backdating' = [bug |-> None]
  /\ UNCHANGED <<now, resolutions, projectArchived, role, changes>>

Tick ==
  /\ now < MaxMoment
  /\ now' = now + 1
  /\ UNCHANGED <<bug, resolutions, projectArchived, role, backdating, changes>>

Next ==
  \/ \E b \in Bugs :
       \/ Create(b) \/ SetArchived(b)
       \/ \E a \in Users \union {NoUser} :
            Assign(b, a) \/ \E s \in Statuses : Transition(b, s, a)
       \/ \E h \in Histories : Backdate(b, h.created, h.resolutions)
  \/ \E p \in Projects : SetProjectArchived(p)
  \/ \E u \in Users : RemoveMember(u) \/ \E r \in {"developer", "viewer"} : ChangeRole(u, r)
  \/ BackdateRow
  \/ Tick

Spec == Init /\ [][Next]_vars

-----------------------------------------------------------------------------
(* The dashboard.  A range is two days, both inclusive.                    *)

Ranges == {r \in [from : Days, to : Days] : r.from <= r.to}

\* day_bounds: half-open.
DayBounds(r) == [start |-> r.from * DayLength, end |-> (r.to + 1) * DayLength]
Within(m, r) == DayBounds(r).start <= m /\ m < DayBounds(r).end

DateRange(r) == r.from..r.to

BaseBugs(p) ==
  {b \in Bugs : Mutable(b) /\ p \in {AnyProject, ProjectOf[b]}}

\* Rows of the feed, by bug and place.
BaseResolutionActivity(p, r) ==
  {x \in Bugs \X (1..MaxResolutions) :
     x[1] \in BaseBugs(p) /\ x[2] \in DOMAIN resolutions[x[1]] /\ Within(resolutions[x[1]][x[2]], r)}

IsOpen(b) == bug[b].status \in OpenStatuses

OpenBugCount(p) == Cardinality({b \in BaseBugs(p) : IsOpen(b)})

IsDueBefore(b, day) == DueOf[b] # None /\ DueOf[b] < day

OverdueBugCount(p) == Cardinality({b \in BaseBugs(p) : IsOpen(b) /\ IsDueBefore(b, Day(now))})

NewBugCount(p, r) == Cardinality({b \in BaseBugs(p) : Within(bug[b].created, r)})

ResolvedBugCount(p, r) == Cardinality(BaseResolutionActivity(p, r))

\* trends: by day, with a zero for a day without rows.
Trends(p, r) ==
  [d \in DateRange(r) |->
     [created |-> Cardinality({b \in BaseBugs(p) : Within(bug[b].created, r) /\ Day(bug[b].created) = d}),
      resolved |-> Cardinality({x \in BaseResolutionActivity(p, r) : Day(resolutions[x[1]][x[2]]) = d})]]

\* The bugs whose times resolution_time_by_priority averages.
ResolutionTimePopulation(p, r) ==
  {b \in BaseBugs(p) : /\ bug[b].status \in ResolutionStatuses
                       /\ bug[b].resolved # None /\ Within(bug[b].resolved, r)}

StatusDistribution(p) ==
  [s \in Statuses |-> Cardinality({b \in BaseBugs(p) : bug[b].status = s})]

\* Mutant: whoever is no longer staff is left out.
NeedsReassignmentOfMembers(u) == role[u] \in Roles \ (StaffRoles \union {"viewer"})

NeedsReassignment(u) == role[u] \notin StaffRoles

AssignedOpen(p, a) == Cardinality({b \in BaseBugs(p) : IsOpen(b) /\ bug[b].assignee = a})

Workload(p) ==
  [unassigned |-> AssignedOpen(p, NoUser),
   eligible |-> [u \in {v \in Users : role[v] \in StaffRoles} |-> AssignedOpen(p, u)],
   needsReassignment |-> [u \in {v \in Users : NeedsReassignment(v)} |-> AssignedOpen(p, u)]]

\* Counts over the join with bugs, which has its own filter on archived_at.
ActiveProjects ==
  [p \in {q \in Projects : ~projectArchived[q]} |->
     LET joined == {b \in Bugs : Exists(b) /\ ProjectOf[b] = p /\ ~bug[b].archived} IN
     [total |-> Cardinality(joined), open |-> Cardinality({b \in joined : IsOpen(b)})]]

-----------------------------------------------------------------------------
(* The bug list.                                                           *)

AnyBug == [project |-> AnyProject, open |-> FALSE, tags |-> {}, overdue |-> FALSE,
           unassigned |-> FALSE, archived |-> "false"]

\* The filters of list_bugs; open is status= with every open status.  An
\* archived project does not hide its bugs.
Matches(b, q) ==
  /\ Exists(b)
  /\ q.archived # "all" => (bug[b].archived <=> q.archived = "true")
  /\ q.project \in {AnyProject, ProjectOf[b]}
  /\ q.open => IsOpen(b)
  /\ q.overdue => IsDueBefore(b, Day(now))
  /\ q.unassigned => bug[b].assignee = NoUser

\* Mutant: the join as it is.
DistinctForgotten(rows) == rows

\* SELECT DISTINCT: the columns are those of the bug.
Distinct(rows) == {[bug |-> x.bug, tag |-> None] : x \in rows}

\* The rows of the query.  The filter on tags joins: a row for every match.
ListBugs(q) ==
  IF q.tags = {} THEN {[bug |-> b, tag |-> None] : b \in {c \in Bugs : Matches(c, q)}}
  ELSE Distinct({x \in [bug : Bugs, tag : q.tags] : Matches(x.bug, q) /\ x.tag \in TagsOf[x.bug]})

Orderings == {"created_at", "-created_at", "due_date", "-due_date", "updated_at", "-updated_at"}
RankedOrderings == {"priority", "-priority"}

\* Nulls come last, or first when descending.
DueRank(b) == IF DueOf[b] = None THEN MaxMoment + 1 ELSE DueOf[b]

\* Mutant: no tie-breaker.
TieBreakForgotten(a, b) == FALSE

TieBreak(a, b) == a > b

\* _apply_ordering: whether ORDER BY puts bug a before bug b.
Precedes(o, a, b) ==
  LET By(x, y, less) == x < y \/ (x = y /\ less)
  IN CASE o = "created_at" -> By(bug[a].created, bug[b].created, TieBreak(a, b))
       [] o = "-created_at" -> By(bug[b].created, bug[a].created, TieBreak(a, b))
       [] o = "updated_at" -> By(bug[a].updated, bug[b].updated, TieBreak(a, b))
       [] o = "-updated_at" -> By(bug[b].updated, bug[a].updated, TieBreak(a, b))
       [] o = "due_date" -> By(DueRank(a), DueRank(b), TieBreak(a, b))
       [] o = "-due_date" -> By(DueRank(b), DueRank(a), TieBreak(a, b))
       [] o = "priority" -> By(PriorityOf[a], PriorityOf[b], bug[b].created < bug[a].created)
       [] o = "-priority" -> By(PriorityOf[b], PriorityOf[a], bug[b].created < bug[a].created)

\* What the database may answer: the rows in any order that ORDER BY allows.
Answers(q, o) ==
  {s \in SetToSeqs(ListBugs(q)) :
     \A i, j \in DOMAIN s : Precedes(o, s[i].bug, s[j].bug) => i < j}

\* PageNumberPagination: a page is OFFSET and LIMIT of a query of its own.
Offset(s, n) == IF n * PageSize < Len(s) THEN n * PageSize ELSE Len(s)
UpToPage(s, n) == SubSeq(s, 1, Offset(s, n))
AfterPage(s, n) == SubSeq(s, Offset(s, n) + 1, Len(s))

-----------------------------------------------------------------------------
(* Properties.                                                             *)

SumOver(f, S) == MapThenSumSet(LAMBDA x : f[x], S)
Sum(f) == SumOver(f, DOMAIN f)

WorkloadTotal(w) == w.unassigned + Sum(w.eligible) + Sum(w.needsReassignment)

ListLength(q) == Cardinality(ListBugs(q))

\* What several sections and the list say of the same bugs they say alike,
\* although each has a query of its own: open bugs in the summary, by status,
\* by assignee whatever has become of the assignee's membership, by project
\* and in the list; new and resolved bugs in the summary and day by day.
SectionsAgree ==
  /\ \A p \in Projects \union {AnyProject} :
       /\ OpenBugCount(p) = SumOver(StatusDistribution(p), OpenStatuses)
       /\ OpenBugCount(p) = WorkloadTotal(Workload(p))
       /\ \A r \in Ranges :
            LET trends == Trends(p, r) IN
            /\ NewBugCount(p, r) = Sum([d \in DateRange(r) |-> trends[d].created])
            /\ ResolvedBugCount(p, r) = Sum([d \in DateRange(r) |-> trends[d].resolved])
  /\ OpenBugCount(AnyProject) = Sum([p \in DOMAIN ActiveProjects |-> ActiveProjects[p].open])
  /\ \A p \in DOMAIN ActiveProjects :
       LET list == [AnyBug EXCEPT !.project = p]
           openList == [list EXCEPT !.open = TRUE]
       IN /\ ActiveProjects[p].open = OpenBugCount(p)
          /\ ActiveProjects[p].total = ListLength(list)
          /\ OpenBugCount(p) = ListLength(openList)
          /\ OverdueBugCount(p) = ListLength([openList EXCEPT !.overdue = TRUE])
          /\ Workload(p).unassigned = ListLength([openList EXCEPT !.unassigned = TRUE])

\* Resolution times are of resolutions that the feed has too: a bug whose time
\* counts for some days has a resolution in the feed on one of them, or in the
\* first moment of the next day when the transaction ran over midnight, and
\* no time is negative.  Reopening, resolving again and backdating keep it so;
\* only between its two statements backdating shows a bug half done.
ResolutionTimesHaveEvents ==
  \A r \in Ranges : \A b \in ResolutionTimePopulation(AnyProject, r) :
    UnderWay # b =>
      /\ bug[b].created <= bug[b].resolved
      /\ \E i \in DOMAIN resolutions[b] :
           DayBounds(r).start <= resolutions[b][i] /\ resolutions[b][i] <= DayBounds(r).end

\* The pages of a list that stands still show every matching bug once, though
\* each page is sorted anew, the database may break ties differently every
\* time, and a bug with two of the tags asked for is joined twice.
PagesPartition ==
  \A tags \in {{}, Tags}, o \in Orderings :
    LET q == [AnyBug EXCEPT !.tags = tags]
        matching == {b \in Bugs : Matches(b, q) /\ (tags = {} \/ tags \intersect TagsOf[b] # {})}
    IN \A s, t \in Answers(q, o) : \A n \in 0..Len(s) :
         LET seen == UpToPage(s, n) \o AfterPage(t, n)
         IN {seen[i].bug : i \in DOMAIN seen} = matching /\ Len(seen) = Cardinality(matching)

\* --- Claims of the repository that the code refutes.

\* The bug list offers "priority" and "severity" as orderings with "-created_at"
\* as tie-breaker: pages in these orderings do not partition the bugs.
RankedPagesPartition ==
  \A o \in RankedOrderings : \A s, t \in Answers(AnyBug, o) : \A n \in 0..Len(s) :
    LET seen == UpToPage(s, n) \o AfterPage(t, n)
    IN {seen[i].bug : i \in DOMAIN seen} = {b \in Bugs : Matches(b, AnyBug)}

\* "Recently updated": a bug that has been worked on later has the later updated_at.
UpdatedAtMoves ==
  [][\A b \in Bugs : Exists(b) /\ bug'[b] # bug[b] => bug'[b].updated = now']_vars
=============================================================================
