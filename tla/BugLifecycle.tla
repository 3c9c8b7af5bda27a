----------------------------- MODULE BugLifecycle -----------------------------
(***************************************************************************)
(* What apps/bugs/services.py promises about one bug row, stated without   *)
(* requests, locks or transactions: every change happens in one step, on   *)
(* the row as it is, and raises the version by one.  Bugs implements this  *)
(* specification.                                                          *)
(***************************************************************************)
EXTENDS BugWorkflow, Naturals

CONSTANTS Bugs,        \* the bug rows
          Users,       \* user accounts
          NoUser,      \* assignee_id is null
          Matrix       \* get_transition_matrix(project)

VARIABLES
  status,      \* status[b]
  assignee,    \* assignee[b], a user or NoUser
  archived,    \* archived_at is not null
  resolvedAt,  \* resolved_at is not null
  closedAt,    \* closed_at is not null
  version      \* the optimistic-concurrency counter

rowVars == <<status, assignee, archived, resolvedAt, closedAt, version>>

TypeOK ==
  /\ status \in [Bugs -> Statuses]
  /\ assignee \in [Bugs -> Users \union {NoUser}]
  /\ archived \in [Bugs -> BOOLEAN]
  /\ resolvedAt \in [Bugs -> BOOLEAN]
  /\ closedAt \in [Bugs -> BOOLEAN]
  /\ version \in [Bugs -> Nat]

Init ==
  /\ status = [b \in Bugs |-> "new"]
  /\ assignee = [b \in Bugs |-> NoUser]
  /\ archived = [b \in Bugs |-> FALSE]
  /\ resolvedAt = [b \in Bugs |-> FALSE]
  /\ closedAt = [b \in Bugs |-> FALSE]
  /\ version = [b \in Bugs |-> 1]

Bump(b) == version' = [version EXCEPT ![b] = @ + 1]

\* transition_bug: b moves to status s and is left with assignee a.
Transition(b, s, a) ==
  /\ ~archived[b]
  /\ s \in Matrix[status[b]]
  /\ s \in AssigneeRequiredStatuses => a # NoUser
  /\ status' = [status EXCEPT ![b] = s]
  /\ assignee' = [assignee EXCEPT ![b] = a]
  /\ resolvedAt' = [resolvedAt EXCEPT ![b] = ResolvedAtAfter(s, @)]
  /\ closedAt' = [closedAt EXCEPT ![b] = ClosedAtAfter(s, @)]
  /\ Bump(b)
  /\ UNCHANGED archived

\* assign_bug: never touches the status, whatever the status is.
Assign(b, a) ==
  /\ ~archived[b]
  /\ a # assignee[b]
  /\ assignee' = [assignee EXCEPT ![b] = a]
  /\ Bump(b)
  /\ UNCHANGED <<status, archived, resolvedAt, closedAt>>

\* update_bug, add_tag, remove_tag, create_relationship, remove_relationship:
\* as seen from the row, only the version moves.
Touch(b) ==
  /\ ~archived[b]
  /\ Bump(b)
  /\ UNCHANGED <<status, assignee, archived, resolvedAt, closedAt>>

Archive(b) ==
  /\ ~archived[b]
  /\ archived' = [archived EXCEPT ![b] = TRUE]
  /\ Bump(b)
  /\ UNCHANGED <<status, assignee, resolvedAt, closedAt>>

Restore(b) ==
  /\ archived[b]
  /\ archived' = [archived EXCEPT ![b] = FALSE]
  /\ Bump(b)
  /\ UNCHANGED <<status, assignee, resolvedAt, closedAt>>

\* clear_bug_assignments: one UPDATE over a set of rows, archived ones included.
ClearAssignments(S) ==
  /\ assignee' = [b \in Bugs |-> IF b \in S THEN NoUser ELSE assignee[b]]
  /\ version' = [b \in Bugs |-> IF b \in S THEN version[b] + 1 ELSE version[b]]
  /\ UNCHANGED <<status, archived, resolvedAt, closedAt>>

Next ==
  \/ \E b \in Bugs :
       \/ \E s \in Statuses, a \in Users \union {NoUser} : Transition(b, s, a)
       \/ \E a \in Users \union {NoUser} : Assign(b, a)
       \/ Touch(b)
       \/ Archive(b)
       \/ Restore(b)
  \/ \E S \in SUBSET Bugs : ClearAssignments(S)

Spec == Init /\ [][Next]_rowVars

-----------------------------------------------------------------------------
(***************************************************************************)
(* The two timestamps are a function of the status: an open bug has        *)
(* neither, a bug with a resolution has resolved_at only, a closed bug has *)
(* both.  analytics and the bug page read the timestamps without looking   *)
(* at the status, so this is what makes "time to resolution" mean anything.*)
(* apply_timestamp_side_effects looks at the target status only, so the    *)
(* invariant depends on the whole transition matrix.                       *)
(***************************************************************************)
TimestampsMatchStatus ==
  \A b \in Bugs :
    /\ resolvedAt[b] <=> status[b] \in TerminalStatuses
    /\ closedAt[b] <=> status[b] = "closed"

\* What the matrix must satisfy for that: the only way out of the terminal
\* statuses is a reopening, and "closed" comes after a resolution.
MatrixKeepsTimestamps ==
  \A s \in Statuses :
    /\ s \in ResolutionStatuses => Matrix[s] \subseteq ResolutionStatuses \union {"closed", "reopened"}
    /\ s = "closed" => Matrix[s] \subseteq {"closed", "reopened"}
    /\ s \in OpenStatuses => "closed" \notin Matrix[s]
=============================================================================
