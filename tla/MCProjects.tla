------------------------------ MODULE MCProjects ------------------------------
(* Projects by itself, for the claims that concurrent requests refute:     *)
(* every kind of call on each project.                                     *)
EXTENDS Projects

CONSTANTS u1, u2

MCUsers == {u1, u2}

MCCalls ==
  {[op |-> "create_project", key |-> k, lead |-> l] : k \in Keys, l \in {u1, NoUser}}
  \union {[op |-> "update_project", key |-> k, field |-> "name", value |-> n] :
            k \in Keys, n \in {1, 2}}
  \union {[op |-> "update_project", key |-> k, field |-> "lead", value |-> u2] : k \in Keys}
  \union {[op |-> o, key |-> k] :
            o \in {"archive_project", "restore_project", "create_bug"}, k \in Keys}
=============================================================================
