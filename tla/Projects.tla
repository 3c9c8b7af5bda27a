------------------------------- MODULE Projects -------------------------------
(***************************************************************************)
(* Projects and the numbering of their bugs: apps/projects (services,      *)
(* views, serializers) and create_bug of apps/bugs/services.py.  A project *)
(* request reads the project and validates its payload outside any         *)
(* transaction and then writes the columns it was given; create_bug works  *)
(* under the project's row lock; members are removed meanwhile.            *)
(* Every caller is an administrator of the organization.                   *)
(***************************************************************************)
EXTENDS Naturals, FiniteSets

CONSTANTS
  Keys,        \* project keys of the organization
  Users,       \* user accounts
  NoUser,      \* lead_id is null
  Requests,    \* slots for API requests in progress
  NoRequest,   \* the project row is not locked
  Calls,       \* the service calls that clients make
  MaxBugs      \* bound: no create_bug starts once a project has this many bugs

Leads == Users \union {NoUser}

CreateCalls == [op : {"create_project"}, key : Keys, lead : Leads]
RenameCalls == [op : {"update_project"}, key : Keys, field : {"name"}, value : Nat]
LeadCalls == [op : {"update_project"}, key : Keys, field : {"lead"}, value : Leads]
PlainCalls == [op : {"archive_project", "restore_project", "create_bug"}, key : Keys]

ServiceCalls == CreateCalls \union RenameCalls \union LeadCalls \union PlainCalls

ProjectsAssumption ==
  /\ NoUser \notin Users /\ NoRequest \notin Requests
  /\ \A c \in Calls : c \in ServiceCalls
  /\ MaxBugs \in Nat

VARIABLES
  exists,      \* exists[k]: there is a project with key k
  name,        \* name[k]: the columns an administrator edits
  lead,        \* lead[k]
  archived,    \* archived_at is not null
  next,        \* next_bug_number
  numbers,     \* numbers[k]: the numbers of the bugs of project k
  members,     \* users with a membership
  holder,      \* holder[k]: the create_bug that holds k's row FOR UPDATE
  pc, call,    \* pc[r], call[r]: what request r does next, for which call
  number       \* number[r]: the number create_bug has read

rows == <<exists, name, lead, archived, next, numbers>>
reqs == <<holder, pc, call, number>>
vars == <<rows, members, reqs>>

NoCall == [op |-> "none"]

Init ==
  /\ exists = [k \in Keys |-> FALSE]
  /\ name = [k \in Keys |-> 0]
  /\ lead = [k \in Keys |-> NoUser]
  /\ archived = [k \in Keys |-> FALSE]
  /\ next = [k \in Keys |-> 1]
  /\ numbers = [k \in Keys |-> {}]
  /\ members = Users
  /\ holder = [k \in Keys |-> NoRequest]
  /\ pc = [r \in Requests |-> "idle"]
  /\ call = [r \in Requests |-> NoCall]
  /\ number = [r \in Requests |-> 0]

TypeOK ==
  /\ exists \in [Keys -> BOOLEAN]
  /\ name \in [Keys -> Nat]
  /\ lead \in [Keys -> Leads]
  /\ archived \in [Keys -> BOOLEAN]
  /\ next \in [Keys -> Nat \ {0}]
  /\ numbers \in [Keys -> SUBSET (Nat \ {0})]
  /\ members \subseteq Users
  /\ holder \in [Keys -> Requests \union {NoRequest}]
  /\ pc \in [Requests -> {"idle", "validate", "write", "lock", "insert"}]
  /\ call \in [Requests -> Calls \union {NoCall}]
  /\ number \in [Requests -> Nat]

-----------------------------------------------------------------------------
(* A request, from the view's reads to the response.                       *)

Goto(r, stage) == pc' = [pc EXCEPT ![r] = stage]

Answer(r) ==
  /\ Goto(r, "idle")
  /\ call' = [call EXCEPT ![r] = NoCall]
  /\ number' = [number EXCEPT ![r] = 0]
  /\ holder' = [k \in Keys |-> IF holder[k] = r THEN NoRequest ELSE holder[k]]

Raise(r) == Answer(r) /\ UNCHANGED <<rows, members>>

\* What the view has read when it decides to go on: validate_key's "no such
\* key yet", get_object, and the checks of archived_at on that object, which
\* update_project, archive_project and restore_project repeat on the same
\* stale object.
MayStart(c) ==
  CASE c.op = "create_project" -> ~exists[c.key]
    [] c.op = "restore_project" -> exists[c.key] /\ archived[c.key]
    [] c.op = "create_bug" -> exists[c.key] /\ next[c.key] <= MaxBugs
    [] OTHER -> exists[c.key] /\ ~archived[c.key]

SetsLead(c) == "lead" \in DOMAIN c \/ ("field" \in DOMAIN c /\ c.field = "lead")
LeadOf(c) == IF c.op = "create_project" THEN c.lead ELSE c.value

Submit(r) ==
  /\ pc[r] = "idle"
  /\ \E c \in Calls :
       /\ MayStart(c)
       /\ call' = [call EXCEPT ![r] = c]
       /\ Goto(r, IF c.op = "create_bug" THEN "lock"
                  ELSE IF SetsLead(c) THEN "validate" ELSE "write")
  /\ UNCHANGED <<rows, members, holder, number>>

\* validate_lead: the lead is a member, or nobody.
ValidateLead(r) ==
  /\ pc[r] = "validate"
  /\ LeadOf(call[r]) \in members \union {NoUser}
  /\ Goto(r, "write")
  /\ UNCHANGED <<rows, members, holder, call, number>>

RefuseLead(r) ==
  /\ pc[r] = "validate"
  /\ LeadOf(call[r]) \notin members \union {NoUser}
  /\ Raise(r)

\* The UPDATE waits for a create_bug in progress on that project.
CanWrite(r, op) ==
  pc[r] = "write" /\ call[r].op = op /\ holder[call[r].key] = NoRequest

CreateProject(r) ==
  LET c == call[r]
  IN /\ CanWrite(r, "create_project")
     /\ ~exists[c.key]
     /\ exists' = [exists EXCEPT ![c.key] = TRUE]
     /\ lead' = [lead EXCEPT ![c.key] = c.lead]
     /\ Answer(r)
     /\ UNCHANGED <<name, archived, next, numbers, members>>

\* The unique constraint on the key: DuplicateProjectKey.
RefuseKey(r) ==
  /\ CanWrite(r, "create_project")
  /\ exists[call[r].key]
  /\ Raise(r)

\* Mutant: the value goes to the wrong column.
AssignLeadSwapped(c) == lead' = [lead EXCEPT ![c.key] = c.value]

AssignLead(c) == lead' = [lead EXCEPT ![c.key] = IF c.field = "lead" THEN c.value ELSE @]

\* Mutant: save() without update_fields writes the counter read with the row.
KeepCounterStale(c) == \E n \in 1..next[c.key] : next' = [next EXCEPT ![c.key] = n]

\* save(update_fields=[...]) leaves the counter of create_bug alone.
KeepCounter(c) == UNCHANGED next

UpdateProject(r) ==
  LET c == call[r]
  IN /\ CanWrite(r, "update_project")
     /\ name' = [name EXCEPT ![c.key] = IF c.field = "name" THEN c.value ELSE @]
     /\ AssignLead(c)
     /\ KeepCounter(c)
     /\ Answer(r)
     /\ UNCHANGED <<exists, archived, numbers, members>>

ArchiveOrRestore(r) ==
  LET c == call[r]
  IN /\ CanWrite(r, "archive_project") \/ CanWrite(r, "restore_project")
     /\ archived' = [archived EXCEPT ![c.key] = c.op = "archive_project"]
     /\ KeepCounter(c)
     /\ Answer(r)
     /\ UNCHANGED <<exists, name, lead, numbers, members>>

-----------------------------------------------------------------------------
(* create_bug.                                                             *)

\* Mutant: get() instead of select_for_update().get().
RowIsFreeUnlocked(k) == TRUE

RowIsFree(k) == holder[k] = NoRequest

LockProject(r) ==
  LET k == call[r].key
  IN /\ pc[r] = "lock"
     /\ RowIsFree(k)
     /\ ~archived[k]
     /\ holder' = [holder EXCEPT ![k] = r]
     /\ number' = [number EXCEPT ![r] = next[k]]
     /\ Goto(r, "insert")
     /\ UNCHANGED <<rows, members, call>>

\* ProjectArchivedForBugCreation.
RefuseArchived(r) ==
  /\ pc[r] = "lock"
  /\ RowIsFree(call[r].key)
  /\ archived[call[r].key]
  /\ Raise(r)

InsertBug(r) ==
  LET k == call[r].key
  IN /\ pc[r] = "insert"
     /\ number[r] \notin numbers[k]
     /\ next' = [next EXCEPT ![k] = number[r] + 1]
     /\ numbers' = [numbers EXCEPT ![k] = @ \union {number[r]}]
     /\ Answer(r)
     /\ UNCHANGED <<exists, name, lead, archived, members>>

\* An error after the counter was saved (a constraint, a lost connection):
\* the transaction takes the counter back with it.
RollBack(r) == pc[r] = "insert" /\ Raise(r)

\* remove_member: clear_project_leadership and the DELETE of the membership,
\* in one transaction that waits for the rows it updates.
RemoveMember(u) ==
  /\ u \in members
  /\ Cardinality(members) > 1
  /\ \A k \in Keys : lead[k] = u => holder[k] = NoRequest
  /\ lead' = [k \in Keys |-> IF lead[k] = u THEN NoUser ELSE lead[k]]
  /\ members' = members \ {u}
  /\ UNCHANGED <<exists, name, archived, next, numbers, reqs>>

Serve(r) ==
  \/ ValidateLead(r)
  \/ RefuseLead(r)
  \/ CreateProject(r)
  \/ RefuseKey(r)
  \/ UpdateProject(r)
  \/ ArchiveOrRestore(r)
  \/ LockProject(r)
  \/ RefuseArchived(r)
  \/ InsertBug(r)
  \/ RollBack(r)

Next ==
  \/ \E r \in Requests : Submit(r) \/ Serve(r)
  \/ \E u \in Users : RemoveMember(u)

Spec == Init /\ [][Next]_vars

-----------------------------------------------------------------------------
(* Properties.                                                             *)

\* create_bug's docstring: a rolled back creation takes the counter back, and
\* two creations never get the same number.  So the numbers of a project have
\* neither holes nor repetitions, whatever else is saved on the row meanwhile.
NumbersAreGapless ==
  \A k \in Keys : numbers[k] = 1..(next[k] - 1)

\* No bug is born in an archived project: create_bug reads archived_at under
\* the row lock, and the archiving waits for that lock.
NoBugBornArchived ==
  [][\A k \in Keys : numbers'[k] # numbers[k] => ~archived[k]]_vars

\* --- Claims of the repository that concurrent requests refute.

\* partial_update: "an archived project must come back restored before any
\* field can change".  Removing the lead is not a PATCH.
ArchivedProjectKeepsFields ==
  [][\A k \in Keys : archived[k] =>
       name'[k] = name[k] /\ lead'[k] \in {lead[k], NoUser}]_vars

\* validate_lead: "The project lead must be a current member of this
\* organization"; remove_member clears the projects the member led.
LeadsAreMembers == \A k \in Keys : lead[k] \in members \union {NoUser}
=============================================================================
