----------------------------- MODULE BugWorkflow -----------------------------
(***************************************************************************)
(* The vocabulary of a bug's life and the rules on it that do not depend   *)
(* on the database: apps/bugs/workflow.py (statuses, the community         *)
(* transition matrix, what a status does to the two timestamps) and        *)
(* apps/bugs/policies.py (who may do what).  Everything here is a constant *)
(* operator; BugLifecycle and Bugs are built from it.                      *)
(***************************************************************************)

ResolutionStatuses == {"resolved", "duplicate", "cannot_reproduce", "wont_fix"}

TerminalStatuses == ResolutionStatuses \union {"closed"}

OpenStatuses == {"new", "triaged", "assigned", "in_progress", "ready_for_qa",
                 "reopened", "blocked", "deferred"}

Statuses == OpenStatuses \union TerminalStatuses

\* Entering one of these requires the bug to end up with an assignee.
AssigneeRequiredStatuses == {"assigned", "in_progress"}

\* COMMUNITY_TRANSITIONS: the statuses reachable from each status.
CommunityTransitions ==
  [ new              |-> {"triaged", "assigned", "blocked", "duplicate",
                          "cannot_reproduce", "wont_fix"},
    triaged          |-> {"assigned", "in_progress", "blocked", "deferred",
                          "duplicate", "cannot_reproduce", "wont_fix"},
    assigned         |-> {"in_progress", "triaged", "blocked", "deferred"},
    in_progress      |-> {"ready_for_qa", "resolved", "blocked", "deferred",
                          "assigned"},
    ready_for_qa     |-> {"resolved", "in_progress", "blocked"},
    blocked          |-> {"triaged", "in_progress"},
    deferred         |-> {"triaged", "assigned", "in_progress"},
    resolved         |-> {"closed", "reopened"},
    closed           |-> {"reopened"},
    reopened         |-> {"triaged", "assigned", "in_progress", "blocked"},
    duplicate        |-> {"reopened"},
    cannot_reproduce |-> {"reopened"},
    wont_fix         |-> {"reopened"} ]

(***************************************************************************)
(* apply_timestamp_side_effects: whether resolved_at (closed_at) is set    *)
(* after a move to status s, given whether it was set before.              *)
(***************************************************************************)
\* Mutant: reopening forgets to clear resolved_at.
ResolvedAtAfterKept(s, before) == s \in ResolutionStatuses \/ before

ResolvedAtAfter(s, before) == s \in ResolutionStatuses \/ (s # "reopened" /\ before)

ClosedAtAfter(s, before) == s = "closed" \/ (s # "reopened" /\ before)

-----------------------------------------------------------------------------
(* Roles and policies.  "none" is a user without a membership.             *)

Roles == {"administrator", "developer", "qa", "reporter", "viewer"}

NoRole == "none"

StaffRoles == {"administrator", "developer", "qa"}

AssignableRoles == StaffRoles

ReporterEditableStatuses == {"new", "triaged"}

ReopenEligibleStatuses == {"resolved", "closed", "duplicate",
                           "cannot_reproduce", "wont_fix"}

\* The fields of a bug, as far as policies tells them apart: the text a
\* reporter may edit too, and the triage fields (priority, severity, due date).
ReporterEditableFields == {"text"}

StaffEditableFields == ReporterEditableFields \union {"triage"}

\* editable_fields_for(bug, membership): own says that the caller reported the bug.
EditableFieldsFor(role, own, status) ==
  CASE role \in StaffRoles -> StaffEditableFields
    [] role = "reporter" /\ own /\ status \in ReporterEditableStatuses
         -> ReporterEditableFields
    [] OTHER -> {}

\* can_change_status(bug, membership, target_status)
CanChangeStatus(role, own, status, target) ==
  \/ role \in StaffRoles
  \/ /\ role = "reporter"
     /\ own
     /\ status \in ReopenEligibleStatuses
     /\ target = "reopened"

CanAssignBug(role) == role \in AssignableRoles

CanArchiveBug(role) == role = "administrator"

CanManageTags(role, own, status) == EditableFieldsFor(role, own, status) # {}

CanManageRelationships(role) == role \in StaffRoles

IsEligibleAssigneeRole(role) == role \in AssignableRoles
=============================================================================
