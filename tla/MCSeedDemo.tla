------------------------------ MODULE MCSeedDemo ------------------------------
\* Two personas, a project, and a bug with its duplicate for SeedDemo.
EXTENDS SeedDemo

MCPersonas == <<"admin", "developer">>
MCProjects == <<"BFW">>
MCBugs == <<"chart", "chart twice">>
MCProjectOf == [t \in Elements(MCBugs) |-> "BFW"]
MCStepsOf == [t \in Elements(MCBugs) |-> IF t = "chart" THEN 2 ELSE 1]
MCDuplicateOf == [t \in Elements(MCBugs) |-> IF t = "chart" THEN None ELSE "chart"]
=============================================================================
