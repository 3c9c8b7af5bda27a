--------------------------------- MODULE Bugs ---------------------------------
(***************************************************************************)
(* apps/bugs/services.py as concurrent requests against one PostgreSQL     *)
(* database at READ COMMITTED.  A request reads the caller's membership    *)
(* and the bug before its transaction starts (Submit), waits for the bug's *)
(* row lock (_lock_bug), checks the locked row, reads rows it has NOT      *)
(* locked (memberships, other bugs, relationships), one SELECT per step,   *)
(* and commits.  Meanwhile projects are archived, roles change and members *)
(* are removed.                                                            *)
(***************************************************************************)
EXTENDS BugWorkflow, Naturals, FiniteSets

CONSTANTS
  Bugs,          \* bug rows of one project, numbered in the order of their uuids
  Users,         \* user accounts
  NoUser,        \* a null assignee
  Matrix,        \* get_transition_matrix(project)
  Reporter,      \* Reporter[b]: who reported bug b
  InitialRole,   \* the organization's memberships at the start
  Requests,      \* slots for API requests in progress
  NoRequest,     \* the row is not locked
  Calls,         \* the service calls that clients make
  Admin,         \* the administration that happens besides: see AdminOps
  NewRoles,      \* the roles members are moved to
  MaxChainDepth, \* MAX_DUPLICATE_CHAIN_DEPTH
  MaxVersion     \* bound: no call starts on a bug that has reached this version

NoBug == 0          \* duplicate_of not supplied
Unset == "unset"    \* assignee_id not supplied (the UNSET object)

RelationshipTypes == {"duplicate_of", "blocks", "relates_to"}
Rows == [from : Bugs, to : Bugs, type : RelationshipTypes]

AdminOps == {"archive_project", "restore_project", "remove_member",
             "change_member_role"}

\* The calls of the service layer, with what the serializers let through.
UpdateCalls == [op : {"update_bug"}, user : Users, bug : Bugs,
                field : StaffEditableFields, value : Nat]
TransitionCalls == [op : {"transition_bug"}, user : Users, bug : Bugs,
                    status : Statuses, other : Bugs \union {NoBug},
                    assignee : Users \union {NoUser, Unset}]
AssignCalls == [op : {"assign_bug"}, user : Users, bug : Bugs,
                assignee : Users \union {NoUser}]
ArchiveCalls == [op : {"archive_bug", "restore_bug"}, user : Users, bug : Bugs]
TagCalls == [op : {"add_tag", "remove_tag"}, user : Users, bug : Bugs, tag : Nat]
CreateRelationshipCalls == [op : {"create_relationship"}, user : Users, bug : Bugs,
                            other : Bugs, type : RelationshipTypes]
RemoveRelationshipCalls == [op : {"remove_relationship"}, user : Users,
                            bug : Bugs, row : Rows]

ServiceCalls == UpdateCalls \union TransitionCalls \union AssignCalls
                \union ArchiveCalls \union TagCalls
                \union CreateRelationshipCalls \union RemoveRelationshipCalls

ASSUME BugsAssumption == Bugs \subseteq Nat \ {NoBug}
ASSUME UsersAssumption == {NoUser, Unset} \intersect Users = {} /\ NoUser # Unset
ASSUME MatrixAssumption == Matrix \in [Statuses -> SUBSET Statuses]
ASSUME ReporterAssumption == Reporter \in [Bugs -> Users]
ASSUME RolesAssumption ==
  /\ InitialRole \in [Users -> Roles \union {NoRole}]
  /\ NewRoles \subseteq Roles
ASSUME RequestsAssumption == NoRequest \notin Requests
ASSUME CallsAssumption == \A c \in Calls : c \in ServiceCalls
ASSUME AdminAssumption == Admin \subseteq AdminOps
ASSUME BoundsAssumption == MaxChainDepth \in Nat /\ MaxVersion \in Nat

VARIABLES
  \* bugs_bug and the rows that hang off it
  status, assignee, archived, resolvedAt, closedAt, version,
  content,          \* content[b][f]: the value of the editable field(s) f
  tags,             \* tags[b]
  rels,             \* bugs_bugrelationship
  feed,             \* what replaying bugs_bugactivity in order says of b
  \* other tables
  projectArchived,  \* projects_project.archived_at is not null
  role,             \* organizations_organizationmembership
  \* database transactions in progress
  holder,           \* holder[b]: the request holding b's row FOR UPDATE
  pc,               \* pc[r]: what request r does next
  call,             \* call[r]: the call it serves
  fetched,          \* fetched[r]: what was read before the transaction
  walk,             \* walk[r]: the cursor of _duplicate_chain_reaches
  found,            \* found[r]: get_or_create / filter().first() saw the row
  removing,         \* the member remove_member is removing, or NoUser
  affected          \* affected_ids in clear_bug_assignments

rowVars == <<status, assignee, archived, resolvedAt, closedAt, version>>
sideVars == <<content, tags, rels, feed>>
orgVars == <<projectArchived, role, removing, affected>>
reqVars == <<holder, pc, call, fetched, walk, found>>
vars == <<rowVars, sideVars, orgVars, reqVars>>

Lifecycle == INSTANCE BugLifecycle WITH
  Bugs <- Bugs, Users <- Users, NoUser <- NoUser, Matrix <- Matrix,
  status <- status, assignee <- assignee, archived <- archived,
  resolvedAt <- resolvedAt, closedAt <- closedAt, version <- version

-----------------------------------------------------------------------------
(* What a client sees of a bug row, and the state of one request.          *)

Row(b) == [status |-> status[b], assignee |-> assignee[b],
           archived |-> archived[b], content |-> content[b], tags |-> tags[b]]

RowType == [status : Statuses, assignee : Users \union {NoUser},
            archived : BOOLEAN, content : [StaffEditableFields -> Nat],
            tags : SUBSET Nat]

FetchType == [version : Nat, row : RowType, frozen : BOOLEAN,
              role : Roles \union {NoRole}]

NoCall == [op |-> "none"]
NoFetch == [version |-> 0]
NoWalk == [at |-> NoBug, hops |-> 0]

Stages == {"idle", "select", "lock", "assignee", "target", "walk", "row", "commit"}

\* A request has the bug's row lock in every stage after "lock".
Holding == {"assignee", "target", "walk", "row", "commit"}

TypeOK ==
  /\ Lifecycle!TypeOK
  /\ content \in [Bugs -> [StaffEditableFields -> Nat]]
  /\ tags \in [Bugs -> SUBSET Nat]
  /\ rels \subseteq Rows
  /\ feed \in [Bugs -> [status : Statuses, assignee : Users \union {NoUser}]]
  /\ projectArchived \in BOOLEAN
  /\ role \in [Users -> Roles \union {NoRole}]
  /\ holder \in [Bugs -> Requests \union {NoRequest}]
  /\ pc \in [Requests -> Stages]
  /\ call \in [Requests -> Calls \union {NoCall}]
  /\ fetched \in [Requests -> FetchType \union {NoFetch}]
  /\ walk \in [Requests -> [at : Bugs \union {NoBug}, hops : 0..MaxChainDepth]]
  /\ found \in [Requests -> BOOLEAN]
  /\ removing \in Users \union {NoUser}
  /\ affected \subseteq Bugs

Init ==
  /\ Lifecycle!Init
  /\ content = [b \in Bugs |-> [f \in StaffEditableFields |-> 0]]
  /\ tags = [b \in Bugs |-> {}]
  /\ rels = {}
  /\ feed = [b \in Bugs |-> [status |-> "new", assignee |-> NoUser]]
  /\ projectArchived = FALSE
  /\ role = InitialRole
  /\ holder = [b \in Bugs |-> NoRequest]
  /\ pc = [r \in Requests |-> "idle"]
  /\ call = [r \in Requests |-> NoCall]
  /\ fetched = [r \in Requests |-> NoFetch]
  /\ walk = [r \in Requests |-> NoWalk]
  /\ found = [r \in Requests |-> FALSE]
  /\ removing = NoUser
  /\ affected = {}

-----------------------------------------------------------------------------
(* The request's own steps.                                                *)

\* The response is on its way: the transaction is over, its lock released.
Answer(r) ==
  /\ pc' = [pc EXCEPT ![r] = "idle"]
  /\ call' = [call EXCEPT ![r] = NoCall]
  /\ fetched' = [fetched EXCEPT ![r] = NoFetch]
  /\ walk' = [walk EXCEPT ![r] = NoWalk]
  /\ found' = [found EXCEPT ![r] = FALSE]
  /\ holder' = [b \in Bugs |-> IF holder[b] = r THEN NoRequest ELSE holder[b]]

\* A domain exception: the transaction rolls back and nothing has changed.
Raise(r) == Answer(r) /\ UNCHANGED <<rowVars, sideVars, orgVars>>

Goto(r, stage) == pc' = [pc EXCEPT ![r] = stage]

(***************************************************************************)
(* The view: OrganizationAwareSessionAuthentication reads the membership,  *)
(* get_object reads the bug, and the client's expected_version is the one  *)
(* of the page it shows.  The page is taken to be fetched now: a page that *)
(* is older than this would only be refused for its version.               *)
(***************************************************************************)
Submit(r) ==
  /\ pc[r] = "idle"
  /\ \E c \in Calls :
       /\ role[c.user] # NoRole
       /\ version[c.bug] < MaxVersion
       /\ call' = [call EXCEPT ![r] = c]
       /\ fetched' = [fetched EXCEPT ![r] =
            [version |-> version[c.bug], row |-> Row(c.bug),
             frozen |-> FALSE, role |-> role[c.user]]]
  /\ Goto(r, "select")
  /\ UNCHANGED <<rowVars, sideVars, orgVars, holder, walk, found>>

(***************************************************************************)
(* _lock_bug's SELECT ... FOR UPDATE OF bugs_bug starts.  The project it   *)
(* joins is the one of this moment's snapshot: if it then waits for the    *)
(* row, PostgreSQL re-reads the row it locks, not the rows joined to it.   *)
(***************************************************************************)
SelectForUpdate(r) ==
  /\ pc[r] = "select"
  /\ fetched' = [fetched EXCEPT ![r].frozen = projectArchived]
  /\ Goto(r, "lock")
  /\ UNCHANGED <<rowVars, sideVars, orgVars, holder, call, walk, found>>

\* Mutant: "not supplied" is taken for an assignee.
EffectiveAssigneeAsGiven(c) == c.assignee

\* The assignee a transition leaves the bug with.
EffectiveAssignee(c) == IF c.assignee = Unset THEN assignee[c.bug] ELSE c.assignee

\* The policy and input checks of call c by a caller whose membership says rl.
Permitted(c, rl) ==
  LET own == Reporter[c.bug] = c.user
      now == status[c.bug]
  IN CASE c.op = "update_bug" -> c.field \in EditableFieldsFor(rl, own, now)
       [] c.op = "transition_bug" ->
            /\ CanChangeStatus(rl, own, now, c.status)
            /\ c.status \in Matrix[now]
            /\ c.assignee # Unset => rl \in StaffRoles
            /\ c.status \in AssigneeRequiredStatuses => EffectiveAssignee(c) # NoUser
            /\ c.status = "duplicate" => c.other \notin {NoBug, c.bug}
       [] c.op = "assign_bug" -> CanAssignBug(rl)
       [] c.op \in {"archive_bug", "restore_bug"} -> CanArchiveBug(rl)
       [] c.op \in {"add_tag", "remove_tag"} -> CanManageTags(rl, own, now)
       [] c.op = "create_relationship" ->
            /\ CanManageRelationships(rl)
            /\ c.type # "duplicate_of"
            /\ c.other # c.bug
       [] OTHER -> /\ CanManageRelationships(rl)
                   /\ c.bug \in {c.row.from, c.row.to}

\* Mutant: nobody compares the versions.
AcceptsAnyVersion(r) ==
  LET c == call[r]
  IN /\ archived[c.bug] <=> c.op = "restore_bug"
     /\ ~fetched[r].frozen
     /\ Permitted(c, fetched[r].role)

\* Mutant: _check_mutable looks at the project only.
AcceptsArchived(r) ==
  LET c == call[r]
  IN /\ version[c.bug] = fetched[r].version
     /\ c.op = "restore_bug" => archived[c.bug]
     /\ ~fetched[r].frozen
     /\ Permitted(c, fetched[r].role)

\* _check_version, _check_mutable and Permitted on the locked row.
Accepts(r) ==
  LET c == call[r]
  IN /\ version[c.bug] = fetched[r].version
     /\ archived[c.bug] <=> c.op = "restore_bug"
     /\ ~fetched[r].frozen
     /\ Permitted(c, fetched[r].role)

\* "return locked": what was asked for is already so.
NothingToDo(c) ==
  CASE c.op = "update_bug" -> content[c.bug][c.field] = c.value
    [] c.op = "add_tag" -> c.tag \in tags[c.bug]
    [] c.op = "remove_tag" -> c.tag \notin tags[c.bug]
    [] OTHER -> FALSE

SuppliesAssignee(c) == c.op \in {"transition_bug", "assign_bug"} /\ c.assignee \in Users
MarksDuplicate(c) == c.op = "transition_bug" /\ c.status = "duplicate"

AfterAssignee(c) == IF MarksDuplicate(c) THEN "target" ELSE "commit"

AfterLock(c) ==
  IF SuppliesAssignee(c) THEN "assignee"
  ELSE IF c.op = "remove_relationship" THEN "row"
  ELSE AfterAssignee(c)

\* Mutant: get() instead of select_for_update().get().
LockIsFreeUnlocked(r) == pc[r] = "lock"

LockIsFree(r) == pc[r] = "lock" /\ holder[call[r].bug] = NoRequest

LockBug(r) ==
  /\ LockIsFree(r)
  /\ Accepts(r)
  /\ ~NothingToDo(call[r])
  /\ holder' = [holder EXCEPT ![call[r].bug] = r]
  /\ Goto(r, AfterLock(call[r]))
  /\ UNCHANGED <<rowVars, sideVars, orgVars, call, fetched, walk, found>>

Refuse(r) ==
  /\ LockIsFree(r)
  /\ ~Accepts(r) \/ NothingToDo(call[r])
  /\ Raise(r)

\* _resolve_assignee: is_eligible_assignee reads a membership row without locking it.
ResolveAssignee(r) ==
  LET c == call[r]
  IN /\ pc[r] = "assignee"
     /\ IsEligibleAssigneeRole(role[c.assignee])
     /\ ~(c.op = "assign_bug" /\ c.assignee = assignee[c.bug])
     /\ Goto(r, AfterAssignee(c))
     /\ UNCHANGED <<rowVars, sideVars, orgVars, holder, call, fetched, walk, found>>

\* IneligibleAssignee, or the bug already has the requested assignee.
RefuseAssignee(r) ==
  LET c == call[r]
  IN /\ pc[r] = "assignee"
     /\ \/ ~IsEligibleAssigneeRole(role[c.assignee])
        \/ c.op = "assign_bug" /\ c.assignee = assignee[c.bug]
     /\ Raise(r)

\* _validate_duplicate_target: the target is read, not locked.
FindTarget(r) ==
  /\ pc[r] = "target"
  /\ ~archived[call[r].other]
  /\ walk' = [walk EXCEPT ![r] = [at |-> call[r].other, hops |-> 0]]
  /\ Goto(r, "walk")
  /\ UNCHANGED <<rowVars, sideVars, orgVars, holder, call, fetched, found>>

RefuseTarget(r) ==
  /\ pc[r] = "target"
  /\ archived[call[r].other]
  /\ Raise(r)

(***************************************************************************)
(* _duplicate_chain_reaches, one SELECT per step.  A bug may have several  *)
(* duplicate_of rows; .first() takes the one with the least primary key, a *)
(* random uuid, so any of them.                                            *)
(***************************************************************************)
DuplicateOf(b) == {x \in rels : x.from = b /\ x.type = "duplicate_of"}

\* Mutant: "while True" instead of the bounded range.
WalkOnForEver(r) ==
  /\ pc[r] = "walk"
  /\ walk[r].at # call[r].bug
  /\ \E x \in DuplicateOf(walk[r].at) : walk' = [walk EXCEPT ![r].at = x.to]
  /\ UNCHANGED <<rowVars, sideVars, orgVars, holder, pc, call, fetched, found>>

WalkOn(r) ==
  /\ pc[r] = "walk"
  /\ walk[r].hops < MaxChainDepth
  /\ walk[r].at # call[r].bug
  /\ \E x \in DuplicateOf(walk[r].at) :
       walk' = [walk EXCEPT ![r] = [at |-> x.to, hops |-> @.hops + 1]]
  /\ UNCHANGED <<rowVars, sideVars, orgVars, holder, pc, call, fetched, found>>

WalkEnds(r) ==
  /\ pc[r] = "walk"
  /\ walk[r].hops < MaxChainDepth
  /\ walk[r].at # call[r].bug
  /\ DuplicateOf(walk[r].at) = {}
  /\ Goto(r, "row")
  /\ UNCHANGED <<rowVars, sideVars, orgVars, holder, call, fetched, walk, found>>

\* DuplicateCycleDetected, or DuplicateChainUnverifiable.
RefuseChain(r) ==
  /\ pc[r] = "walk"
  /\ walk[r].hops = MaxChainDepth \/ walk[r].at = call[r].bug
  /\ Raise(r)

\* Mutant: a relates_to row is stored the way round it was asked for.
RowOfAsAsked(c) ==
  CASE c.op = "remove_relationship" -> c.row
    [] c.op = "create_relationship" -> [from |-> c.bug, to |-> c.other, type |-> c.type]
    [] OTHER -> [from |-> c.bug, to |-> c.other, type |-> "duplicate_of"]

\* The relationship row a call is about: get_or_create's key, or the row to
\* delete.  A relates_to row is stored with the smaller id first.
RowOf(c) ==
  CASE c.op = "remove_relationship" -> c.row
    [] c.op = "create_relationship" ->
         IF c.type = "relates_to" /\ c.other < c.bug
         THEN [from |-> c.other, to |-> c.bug, type |-> c.type]
         ELSE [from |-> c.bug, to |-> c.other, type |-> c.type]
    [] OTHER -> [from |-> c.bug, to |-> c.other, type |-> "duplicate_of"]

\* The SELECT of get_or_create (a transition) or filter().first() (a removal).
FindRow(r) ==
  /\ pc[r] = "row"
  /\ call[r].op = "remove_relationship" => RowOf(call[r]) \in rels
  /\ found' = [found EXCEPT ![r] = RowOf(call[r]) \in rels]
  /\ Goto(r, "commit")
  /\ UNCHANGED <<rowVars, sideVars, orgVars, holder, call, fetched, walk>>

RefuseRow(r) ==
  /\ \/ pc[r] = "row" /\ call[r].op = "remove_relationship"
        /\ RowOf(call[r]) \notin rels
     \/ pc[r] = "commit" /\ call[r].op = "create_relationship"
        /\ RowOf(call[r]) \in rels        \* DuplicateBugRelationship
  /\ Raise(r)

-----------------------------------------------------------------------------
(***************************************************************************)
(* Commits.  Inserting a relationship makes PostgreSQL check its foreign   *)
(* keys at commit: it takes FOR KEY SHARE on both bugs, which waits for    *)
(* another request's FOR UPDATE.                                           *)
(***************************************************************************)
Inserts(r) ==
  \/ call[r].op = "create_relationship"
  \/ MarksDuplicate(call[r]) /\ ~found[r]

WaitsFor(r) ==
  IF pc[r] = "commit" /\ Inserts(r)
  THEN {holder[call[r].other]} \ {r, NoRequest}
  ELSE {}

CanCommit(r, op) == pc[r] = "commit" /\ call[r].op = op /\ WaitsFor(r) = {}

\* Mutant: the version is not raised.
BumpForgotten(b) == UNCHANGED version

Bump(b) == version' = [version EXCEPT ![b] = @ + 1]

CommitUpdate(r) ==
  LET c == call[r]
  IN /\ CanCommit(r, "update_bug")
     /\ content' = [content EXCEPT ![c.bug][c.field] = c.value]
     /\ Bump(c.bug)
     /\ Answer(r)
     /\ UNCHANGED <<status, assignee, archived, resolvedAt, closedAt,
                    tags, rels, feed, orgVars>>

CommitTransition(r) ==
  LET c == call[r]
      a == EffectiveAssignee(c)
  IN /\ CanCommit(r, "transition_bug")
     /\ status' = [status EXCEPT ![c.bug] = c.status]
     /\ assignee' = [assignee EXCEPT ![c.bug] = a]
     /\ resolvedAt' = [resolvedAt EXCEPT ![c.bug] = ResolvedAtAfter(c.status, @)]
     /\ closedAt' = [closedAt EXCEPT ![c.bug] = ClosedAtAfter(c.status, @)]
     /\ Bump(c.bug)
     /\ rels' = IF Inserts(r) THEN rels \union {RowOf(c)} ELSE rels
     /\ feed' = [feed EXCEPT ![c.bug] =
          [status |-> c.status,
           assignee |-> IF a # assignee[c.bug] THEN a ELSE @.assignee]]
     /\ Answer(r)
     /\ UNCHANGED <<archived, content, tags, orgVars>>

\* Mutant: only ASSIGNED is recorded, UNASSIGNED is not.
CommitAssignUnrecorded(r) ==
  LET c == call[r]
  IN /\ CanCommit(r, "assign_bug")
     /\ c.assignee # assignee[c.bug]
     /\ assignee' = [assignee EXCEPT ![c.bug] = c.assignee]
     /\ Bump(c.bug)
     /\ feed' = IF c.assignee = NoUser THEN feed
                ELSE [feed EXCEPT ![c.bug].assignee = c.assignee]
     /\ Answer(r)
     /\ UNCHANGED <<status, archived, resolvedAt, closedAt,
                    content, tags, rels, orgVars>>

CommitAssign(r) ==
  LET c == call[r]
  IN /\ CanCommit(r, "assign_bug")
     /\ c.assignee # assignee[c.bug]
     /\ assignee' = [assignee EXCEPT ![c.bug] = c.assignee]
     /\ Bump(c.bug)
     /\ feed' = [feed EXCEPT ![c.bug].assignee = c.assignee]
     /\ Answer(r)
     /\ UNCHANGED <<status, archived, resolvedAt, closedAt,
                    content, tags, rels, orgVars>>

\* Unassigning a bug that nobody is assigned to changes nothing.
AlreadyUnassigned(r) ==
  /\ CanCommit(r, "assign_bug")
  /\ call[r].assignee = assignee[call[r].bug]
  /\ Raise(r)

CommitArchive(r) ==
  LET c == call[r]
  IN /\ \/ CanCommit(r, "archive_bug")
        \/ CanCommit(r, "restore_bug")
     /\ archived' = [archived EXCEPT ![c.bug] = c.op = "archive_bug"]
     /\ Bump(c.bug)
     /\ Answer(r)
     /\ UNCHANGED <<status, assignee, resolvedAt, closedAt, sideVars, orgVars>>

CommitTags(r) ==
  LET c == call[r]
  IN /\ \/ /\ CanCommit(r, "add_tag")
           /\ tags' = [tags EXCEPT ![c.bug] = @ \union {c.tag}]
        \/ /\ CanCommit(r, "remove_tag")
           /\ tags' = [tags EXCEPT ![c.bug] = @ \ {c.tag}]
     /\ Bump(c.bug)
     /\ Answer(r)
     /\ UNCHANGED <<status, assignee, archived, resolvedAt, closedAt,
                    content, rels, feed, orgVars>>

\* remove_relationship deletes by primary key: a row that another request has
\* deleted since FindRow is gone already, and the call succeeds all the same.
CommitRelationship(r) ==
  LET c == call[r]
  IN /\ \/ /\ CanCommit(r, "create_relationship")
           /\ RowOf(c) \notin rels
           /\ rels' = rels \union {RowOf(c)}
        \/ /\ CanCommit(r, "remove_relationship")
           /\ rels' = rels \ {RowOf(c)}
     /\ Bump(c.bug)
     /\ Answer(r)
     /\ UNCHANGED <<status, assignee, archived, resolvedAt, closedAt,
                    content, tags, feed, orgVars>>

(***************************************************************************)
(* PostgreSQL's deadlock detector: requests that wait for each other in a  *)
(* circle (each inserts a relationship to a bug the next has locked); it   *)
(* aborts one of them.                                                     *)
(***************************************************************************)
DeadlockAbort(r) ==
  /\ \E S \in SUBSET Requests : r \in S /\ UNION {WaitsFor(q) : q \in S} = S
  /\ Raise(r)

-----------------------------------------------------------------------------
(* The rest of the system, as far as bugs feel it.                         *)

\* archive_project / restore_project: an UPDATE of the project row, which no
\* bug mutation locks.
ArchiveProject ==
  /\ "archive_project" \in Admin
  /\ ~projectArchived
  /\ projectArchived' = TRUE
  /\ UNCHANGED <<rowVars, sideVars, reqVars, role, removing, affected>>

RestoreProject ==
  /\ "restore_project" \in Admin
  /\ projectArchived
  /\ projectArchived' = FALSE
  /\ UNCHANGED <<rowVars, sideVars, reqVars, role, removing, affected>>

OtherAdministrators(u) == {v \in Users \ {u} : role[v] = "administrator"}
LastAdministrator(u) == role[u] = "administrator" /\ OtherAdministrators(u) = {}

\* change_member_role holds every membership row for its whole transaction, so
\* it waits while a removal is in progress.
ChangeMemberRole(u, rl) ==
  /\ "change_member_role" \in Admin
  /\ removing = NoUser
  /\ role[u] \notin {NoRole, rl}
  /\ LastAdministrator(u) => rl = "administrator"
  /\ role' = [role EXCEPT ![u] = rl]
  /\ UNCHANGED <<rowVars, sideVars, reqVars, projectArchived, removing, affected>>

\* remove_member up to the first SELECT of clear_bug_assignments.
RemoveMemberBegin(u) ==
  /\ "remove_member" \in Admin
  /\ removing = NoUser
  /\ role[u] # NoRole
  /\ ~LastAdministrator(u)
  /\ removing' = u
  /\ affected' = {b \in Bugs : assignee[b] = u}
  /\ UNCHANGED <<rowVars, sideVars, reqVars, projectArchived, role>>

\* The UPDATE of the affected rows by id, which waits for their locks, the
\* activity rows, the DELETE of the membership, and the commit.
RemoveMemberCommit ==
  /\ removing # NoUser
  /\ \A b \in affected : holder[b] = NoRequest
  /\ assignee' = [b \in Bugs |-> IF b \in affected THEN NoUser ELSE assignee[b]]
  /\ version' = [b \in Bugs |-> IF b \in affected THEN version[b] + 1 ELSE version[b]]
  /\ feed' = [b \in Bugs |-> IF b \in affected
                             THEN [feed[b] EXCEPT !.assignee = NoUser] ELSE feed[b]]
  /\ role' = [role EXCEPT ![removing] = NoRole]
  /\ removing' = NoUser
  /\ affected' = {}
  /\ UNCHANGED <<status, archived, resolvedAt, closedAt, content, tags, rels,
                 projectArchived, reqVars>>

-----------------------------------------------------------------------------
Commit(r) ==
  \/ CommitUpdate(r)
  \/ CommitTransition(r)
  \/ CommitAssign(r)
  \/ CommitArchive(r)
  \/ CommitTags(r)
  \/ CommitRelationship(r)

\* What the server does for request r once it has been submitted.
Serve(r) ==
  \/ SelectForUpdate(r)
  \/ LockBug(r)
  \/ Refuse(r)
  \/ ResolveAssignee(r)
  \/ RefuseAssignee(r)
  \/ FindTarget(r)
  \/ RefuseTarget(r)
  \/ WalkOn(r)
  \/ WalkEnds(r)
  \/ RefuseChain(r)
  \/ FindRow(r)
  \/ RefuseRow(r)
  \/ AlreadyUnassigned(r)
  \/ Commit(r)
  \/ DeadlockAbort(r)

Administer ==
  \/ ArchiveProject
  \/ RestoreProject
  \/ \E u \in Users :
       \/ \E rl \in NewRoles : ChangeMemberRole(u, rl)
       \/ RemoveMemberBegin(u)
  \/ RemoveMemberCommit

Next ==
  \/ \E r \in Requests : Submit(r) \/ Serve(r)
  \/ Administer

Spec == Init /\ [][Next]_vars

\* A worker keeps serving the request it has.  Strong fairness, because a lock
\* a request waits for may be taken again and again: PostgreSQL queues the
\* waiters of a row, so a waiter gets it after finitely many others.
FairSpec == Spec /\ \A r \in Requests : SF_vars(Serve(r))

-----------------------------------------------------------------------------
(* Properties.                                                             *)

\* The bookkeeping of row locks (_lock_bug): a request past its locking SELECT
\* holds the row of the bug it was called on, and only that one.
LocksMatchStages ==
  /\ \A r \in Requests : pc[r] \in Holding => holder[call[r].bug] = r
  /\ \A b \in Bugs : holder[b] # NoRequest =>
       pc[holder[b]] \in Holding /\ call[holder[b]].bug = b

\* A version number stands for one state of the row: if the bug still has the
\* version a client fetched, it is still exactly the bug that client saw.  It
\* needs every writer of the row, clear_bug_assignments included, to raise the
\* version, and is what makes the integer comparison of _check_version enough.
VersionIdentifiesRow ==
  \A r \in Requests :
    pc[r] # "idle" /\ fetched[r].version = version[call[r].bug]
      => fetched[r].row = Row(call[r].bug)

\* Replaying the activity feed of a bug (STATUS_CHANGED, ASSIGNED, UNASSIGNED
\* rows) gives its present status and assignee, whichever of transition_bug,
\* assign_bug and clear_bug_assignments wrote them and in whatever order.
FeedReplays ==
  \A b \in Bugs : feed[b] = [status |-> status[b], assignee |-> assignee[b]]

\* "A relates_to B" and "B relates_to A" never coexist (BugRelationship's
\* docstring), even when two requests create them at the same time, each
\* holding the lock of its own bug only.
RelatesToCanonical ==
  \A x, y \in rels :
    x.type = "relates_to" /\ y.type = "relates_to"
      => ~(x.from = y.to /\ x.to = y.from)

\* No lost update: whatever a request commits, it commits on the very row its
\* client was looking at, although row, membership and project were read at
\* different times and only the row is locked.
NoLostUpdate ==
  [][\A r \in Requests :
       Commit(r) => fetched[r].row = Row(call[r].bug)]_vars

\* _check_mutable, first half: an archived bug's shared state stands still
\* until it is restored; only the removal of its assignee still reaches it.
ArchivedIsFrozen ==
  [][\A b \in Bugs : archived[b] /\ archived'[b] =>
       /\ status'[b] = status[b]
       /\ content'[b] = content[b]
       /\ tags'[b] = tags[b]
       /\ assignee'[b] # assignee[b] => assignee'[b] = NoUser /\ b \in affected]_vars

\* resolved_at and closed_at stay a function of the status under concurrent
\* transitions, which BugLifecycle promises for one transition at a time:
\* analytics and the bug page read them without looking at the status.
TimestampsMatchStatus == Lifecycle!TimestampsMatchStatus

\* The locked, multi-step transactions do to each row what the one-step
\* specification BugLifecycle allows, in the same order.
RefinesLifecycle == Lifecycle!Spec

\* Every request gets its answer: no request waits for a lock for ever, and
\* requests that lock each other's bugs in opposite orders do not stop for good.
AllAnswered == \A r \in Requests : pc[r] # "idle" ~> pc[r] = "idle"

(***************************************************************************)
(* The inductive invariant behind the theorems of BugsProofs: what a       *)
(* request has checked under the row lock is still so when it commits.     *)
(***************************************************************************)
StagesMatchCalls ==
  \A r \in Requests :
    /\ pc[r] # "idle" => /\ call[r] \in Calls
                         /\ fetched[r] \in FetchType
                         /\ fetched[r].version <= version[call[r].bug]
    /\ pc[r] = "assignee" => SuppliesAssignee(call[r])
    /\ pc[r] \in {"target", "walk"} => MarksDuplicate(call[r])
    /\ pc[r] = "row" => MarksDuplicate(call[r]) \/ call[r].op = "remove_relationship"

ChecksStillHold ==
  \A r \in Requests : pc[r] \in Holding =>
    /\ version[call[r].bug] = fetched[r].version
    /\ archived[call[r].bug] <=> call[r].op = "restore_bug"
    /\ Permitted(call[r], fetched[r].role)

IInv ==
  /\ TypeOK
  /\ StagesMatchCalls
  /\ LocksMatchStages
  /\ ChecksStillHold
  /\ VersionIdentifiesRow
  /\ FeedReplays

\* --- Claims of the repository that concurrent runs refute.

\* _check_mutable's docstring: "a project archived after its bugs were created
\* must freeze them too".
ArchivedProjectFreezesBugs ==
  [][projectArchived => \A r \in Requests : ~Commit(r)]_vars

\* test_two_bug_cycle_rejected, and _duplicate_chain_reaches' docstring: no
\* chain of duplicate_of links comes back to where it started.
DuplicatesAcyclic ==
  \A S \in SUBSET Bugs \ {{}} :
    ~ \A b \in S : \E x \in DuplicateOf(b) : x.to \in S

\* remove_member: a bug must not "keep pointing at someone with no access".
AssigneesAreMembers ==
  \A b \in Bugs : assignee[b] # NoUser => role[assignee[b]] # NoRole

\* clear_bug_assignments clears the assignments of the member being removed.
RemovalClearsOwnAssignments ==
  [][removing # NoUser /\ removing' = NoUser =>
       \A b \in Bugs : assignee'[b] # assignee[b] => assignee[b] = removing]_vars
=============================================================================
