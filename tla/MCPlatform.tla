------------------------------ MODULE MCPlatform ------------------------------
(***************************************************************************)
(* Small instances of the parts around bugs.  The content that seed_demo   *)
(* fills in is a bug of DemoData and its duplicate.                        *)
(***************************************************************************)
EXTENDS Platform, DemoData, TLC

MCPersonas == <<"admin", "developer">>
MCDemoProjects == <<"BFW">>
MCDemoBugs == <<"chart", "chart twice">>

Titles == {MCDemoBugs[i] : i \in DOMAIN MCDemoBugs}

MCDemoProjectOf == [t \in Titles |-> EntryOf(t).project]
MCDemoStepsOf == [t \in Titles |-> Steps(EntryOf(t))]
MCDemoDuplicateOf ==
  [t \in Titles |-> IF EntryOf(t).duplicate_of = NoTitle THEN None ELSE EntryOf(t).duplicate_of]

CONSTANTS p1, p2, tag1, tag2, u1, u2

MCBugs == {1, 2}
MCProjectOf == <<p1, p2>>
MCPriorityOf == <<1, 1>>
MCDueOf == <<0, None>>
MCTagsOf == <<{tag1, tag2}, {tag1}>>

\* A workflow as a provider may have it: short, but it resolves, reopens and closes.
Workflow ==
  [s \in Statuses |->
     CASE s \in {"new", "reopened"} -> {"resolved"}
       [] s = "resolved" -> {"closed", "reopened"}
       [] s = "closed" -> {"reopened"}
       [] OTHER -> {}]

Backdated ==
  {[created |-> 0, resolutions |-> <<>>], [created |-> 0, resolutions |-> <<1>>],
   [created |-> 1, resolutions |-> <<1, 3>>]}

\* Every kind of project call on each of the projects.
MCStaff == {u1, u2}
MCCalls ==
  {[op |-> "create_project", key |-> k, lead |-> u1] : k \in ProjectKeys}
  \union {[op |-> "update_project", key |-> k, field |-> "name", value |-> 1] :
            k \in ProjectKeys}
  \union {[op |-> "update_project", key |-> k, field |-> "lead", value |-> u2] :
            k \in ProjectKeys}
  \union {[op |-> o, key |-> k] :
            o \in {"archive_project", "restore_project", "create_bug"}, k \in ProjectKeys}

\* The slots of the other parts that are interchangeable are these too.
ASSUME SharedSlots == {Uploads, Editors, Viewers} = {Threads} /\ ProjectKeys = Clients

Symmetry == Permutations(Threads) \union Permutations(Clients) \union Permutations(Users)
=============================================================================
