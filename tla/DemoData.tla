------------------------------ MODULE DemoData ------------------------------
(***************************************************************************)
(* The content that seed_demo makes, PERSONAS, DEMO_PROJECTS and           *)
(* DEMO_BUGS, and what the calls of the services that _ensure_bug makes    *)
(* from it demand of it.  seed_demo handles none of their exceptions: an   *)
(* entry that the workflow refuses ends the command half way.  Titles are  *)
(* shortened; days are counted back from the run.                          *)
(***************************************************************************)
EXTENDS Naturals, Sequences, FiniteSets, BugWorkflow

NoOne == "no one"
NoTitle == "no title"

\* The role of each persona.
PERSONAS ==
  [admin |-> "administrator", developer |-> "developer", qa |-> "qa",
   reporter |-> "reporter", viewer |-> "viewer"]

\* The lead of each project.
DEMO_PROJECTS == [BFW |-> "admin", MOB |-> "developer", API |-> "qa"]

\* An entry: the reporter, the assignee or NoOne, the transitions, and how
\* many days ago it was created, resolved (each time) and closed (or none).
Entry(title, project, reporter, assignee, transitions, created, resolutions, closed) ==
  [title |-> title, project |-> project, reporter |-> reporter, assignee |-> assignee,
   transitions |-> transitions, created |-> created, resolutions |-> resolutions,
   closed |-> closed, duplicate_of |-> NoTitle]

Duplicate(entry, title) == [entry EXCEPT !.duplicate_of = title]

FirstBugs ==
  << Entry("login", "BFW", "reporter", NoOne, <<>>, 2, <<>>, <<>>),
     Entry("chart", "BFW", "reporter", "developer", <<"assigned">>, 4, <<>>, <<>>),
     Entry("session", "BFW", "qa", "developer", <<"assigned", "in_progress">>, 6, <<>>, <<>>),
     Entry("export", "BFW", "reporter", "qa", <<"assigned", "in_progress", "ready_for_qa">>,
           9, <<>>, <<>>),
     Entry("late email", "BFW", "reporter", "developer",
           <<"assigned", "in_progress", "resolved">>, 15, <<3>>, <<>>),
     Entry("footer", "BFW", "reporter", "developer",
           <<"assigned", "in_progress", "resolved", "closed">>, 20, <<10>>, <<4>>),
     Duplicate(Entry("chart twice", "BFW", "reporter", NoOne, <<"duplicate">>, 4, <<3>>, <<>>),
               "chart"),
     Entry("push crash", "MOB", "qa", "developer", <<"assigned", "blocked">>, 7, <<>>, <<>>),
     Entry("onboarding", "MOB", "reporter", NoOne, <<"triaged">>, 11, <<>>, <<>>),
     Entry("rate limit", "API", "developer", NoOne, <<>>, 14, <<>>, <<>>),
     Entry("empty payload", "API", "qa", "developer", <<"triaged", "wont_fix">>, 18, <<9>>, <<>>),
     Entry("token refresh", "API", "admin", "developer", <<"triaged", "cannot_reproduce">>,
           22, <<11>>, <<>>) >>

Phase5Additions ==
  << Entry("avatar", "BFW", "reporter", "qa", <<"triaged", "deferred">>, 13, <<>>, <<>>),
     Entry("keyboard", "BFW", "reporter", NoOne, <<>>, 1, <<>>, <<>>),
     Entry("bulk export", "BFW", "qa", "admin", <<"triaged", "assigned">>, 8, <<>>, <<>>),
     Entry("timezone", "BFW", "reporter", "developer",
           <<"triaged", "in_progress", "resolved", "reopened">>, 25, <<15>>, <<>>),
     Entry("search pages", "BFW", "reporter", "developer",
           <<"triaged", "in_progress", "resolved", "reopened", "in_progress", "resolved">>,
           40, <<30, 5>>, <<>>),
     Entry("push token", "MOB", "qa", "developer", <<"triaged", "in_progress">>, 3, <<>>, <<>>),
     Entry("deep link", "MOB", "reporter", NoOne, <<"triaged">>, 6, <<>>, <<>>),
     Entry("badge", "MOB", "reporter", "qa",
           <<"triaged", "assigned", "in_progress", "ready_for_qa", "resolved", "closed">>,
           35, <<20>>, <<10>>),
     Entry("webhook retries", "API", "developer", "admin", <<"triaged", "in_progress">>,
           5, <<>>, <<>>),
     Entry("cursor", "API", "qa", NoOne, <<"triaged", "blocked">>, 17, <<>>, <<>>),
     Entry("introspection", "API", "admin", "developer",
           <<"triaged", "in_progress", "resolved">>, 12, <<2>>, <<>>),
     Entry("webhook twice", "API", "reporter", NoOne, <<>>, 1, <<>>, <<>>) >>

DEMO_BUGS == FirstBugs \o Phase5Additions

EntryOf(title) == DEMO_BUGS[CHOOSE n \in DOMAIN DEMO_BUGS : DEMO_BUGS[n].title = title]

-----------------------------------------------------------------------------
(* What _ensure_bug makes of an entry.                                     *)

\* The statuses that the bug goes through, from the one of create_bug.
Walk(entry) == <<"new">> \o entry.transitions

\* assign_bug, if there is an assignee, and the transitions.
Steps(entry) == (IF entry.assignee = NoOne THEN 0 ELSE 1) + Len(entry.transitions)

\* The activities that backdate_bug_history pairs with resolution_days_ago.
ResolutionActivities(entry) ==
  {i \in DOMAIN entry.transitions : entry.transitions[i] \in ResolutionStatuses}

\* The days in the order in which the moments should have passed.
Days(entry) == <<entry.created>> \o entry.resolutions \o entry.closed

\* transition_bug accepts each step: the administrator may take it, the
\* matrix has it, and where an assignee is required there is one.
WalkIsLegal(entry) ==
  \A i \in DOMAIN entry.transitions :
    /\ Walk(entry)[i + 1] \in CommunityTransitions[Walk(entry)[i]]
    /\ Walk(entry)[i + 1] \in AssigneeRequiredStatuses => entry.assignee # NoOne
    /\ CanChangeStatus("administrator", FALSE, Walk(entry)[i], Walk(entry)[i + 1])

\* assign_bug accepts the assignee.
AssigneeIsEligible(entry) ==
  entry.assignee # NoOne => IsEligibleAssigneeRole(PERSONAS[entry.assignee])

\* zip(strict=True), and a closing moment exactly for what ends closed.
MomentsMatchWalk(entry) ==
  /\ Len(entry.resolutions) = Cardinality(ResolutionActivities(entry))
  /\ Walk(entry)[Len(Walk(entry))] = "closed" <=> entry.closed # <<>>

\* What is backdated stays in order: created, resolved, closed.
MomentsAreOrdered(entry) ==
  \A i, j \in DOMAIN Days(entry) : i < j => Days(entry)[i] >= Days(entry)[j]

\* bugs_by_title has the target already: it comes earlier.
TargetIsThere(n) ==
  LET entry == DEMO_BUGS[n] IN
  "duplicate" \in {entry.transitions[i] : i \in DOMAIN entry.transitions} =>
     \E m \in 1..n - 1 : DEMO_BUGS[m].title = entry.duplicate_of

\* The walk of every entry of DEMO_BUGS is one that the services accept, and
\* what is backdated fits it.
ASSUME DemoDataIsAccepted ==
  \A n \in DOMAIN DEMO_BUGS :
    LET entry == DEMO_BUGS[n] IN
    /\ entry.project \in DOMAIN DEMO_PROJECTS
    /\ PERSONAS[entry.reporter] # "viewer"
    /\ WalkIsLegal(entry)
    /\ AssigneeIsEligible(entry)
    /\ MomentsMatchWalk(entry)
    /\ MomentsAreOrdered(entry)
    /\ TargetIsThere(n)

\* A title names one bug: _ensure_bug finds a bug again by it.
ASSUME TitlesAreUnique ==
  \A m, n \in DOMAIN DEMO_BUGS : DEMO_BUGS[m].title = DEMO_BUGS[n].title => m = n
=============================================================================
