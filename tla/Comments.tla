-------------------------------- MODULE Comments --------------------------------
(***************************************************************************)
(* The discussion of one bug: apps/comments/services.py with the views     *)
(* that call it.  A comment is created with its mentions, edited by its    *)
(* author while the edit window is open, and deleted or redacted once for  *)
(* all, under a lock on its row and on its author's.  Archiving and        *)
(* membership are seen as the request read them.                           *)
(***************************************************************************)
EXTENDS Naturals, FiniteSets

CONSTANTS
  Users,
  Comments,      \* comment rows: a bound
  Bodies,        \* texts that _normalize_body lets through
  Blank,         \* one that it refuses
  MentionedIn,   \* MentionedIn[b]: the users whose id stands in a token of b
  Requests,      \* slots for requests in progress
  Nobody,        \* a row is not locked
  Archivable,    \* what somebody may archive or restore meanwhile
  StartRole,     \* StartRole[u]: the role of u at first
  RoleChanges,   \* <<u, x>>: somebody may give u the role x
  Calls          \* the service calls that clients make

Empty == "empty"                       \* the body of a comment that was removed
Roles == {"administrator", "member", "viewer"}
NotMember == "none"
Removals == {"deleted", "redacted"}
Statuses == {"absent", "active"} \union Removals
Holders == {"bug", "project"}          \* what can be archived

CommentCalls ==
  [op : {"create", "edit"}, actor : Users, comment : Comments, body : Bodies \union {Blank}]
    \union [op : {"delete", "redact"}, actor : Users, comment : Comments]

ASSUME BodiesAssumption == Blank \notin Bodies /\ Empty \notin Bodies
ASSUME MentionsAssumption == MentionedIn \in [Bodies \union {Blank} -> SUBSET Users]
ASSUME RolesAssumption ==
  /\ StartRole \in [Users -> Roles]
  /\ RoleChanges \subseteq Users \X (Roles \union {NotMember})
ASSUME ArchivableAssumption == Archivable \subseteq Holders
ASSUME CallsAssumption == Nobody \notin Requests /\ \A c \in Calls : c \in CommentCalls

CommentRow(c) == <<"comment", c>>
UserRow(u) == <<"user", u>>
Rows == {CommentRow(c) : c \in Comments} \union {UserRow(u) : u \in Users}

VARIABLES
  role, archived,                \* role[u]; the set of Holders that are archived
  status, body, author, edited,  \* of each comment; edited: edited_at is not null
  closed,                        \* comments whose edit window has passed
  mentions,                      \* Mention rows <<comment, user>>
  feed,                          \* activities <<verb, comment, user>>
  dispatched,                    \* <<event, comment>> given to notify
  lock,                          \* lock[x]: the request that holds row x FOR UPDATE
  pc, call,
  seen                           \* seen[r]: what request r read before it locked anything

row == <<status, body, author, edited>>
told == <<mentions, feed, dispatched>>
world == <<role, archived, closed>>
reqs == <<lock, pc, call, seen>>
vars == <<world, row, told, reqs>>

NoCall == [op |-> "none"]
NothingSeen == [role |-> NotMember, archived |-> {}, mentioned |-> {}]

Init ==
  /\ role = StartRole
  /\ archived = {} /\ closed = {}
  /\ status = [c \in Comments |-> "absent"]
  /\ body = [c \in Comments |-> Empty]
  /\ author = [c \in Comments |-> Nobody]
  /\ edited = [c \in Comments |-> FALSE]
  /\ mentions = {} /\ feed = {} /\ dispatched = {}
  /\ lock = [x \in Rows |-> Nobody]
  /\ pc = [r \in Requests |-> "idle"]
  /\ call = [r \in Requests |-> NoCall]
  /\ seen = [r \in Requests |-> NothingSeen]

TypeOK ==
  /\ role \in [Users -> Roles \union {NotMember}]
  /\ archived \subseteq Holders
  /\ closed \subseteq {c \in Comments : status[c] # "absent"}
  /\ status \in [Comments -> Statuses]
  /\ body \in [Comments -> Bodies \union {Empty}]
  /\ author \in [Comments -> Users \union {Nobody}]
  /\ edited \in [Comments -> BOOLEAN]
  /\ mentions \subseteq Comments \X Users
  /\ feed \subseteq {"added", "edited", "deleted", "redacted", "mentioned"} \X Comments \X Users
  /\ dispatched \subseteq {"comment_added", "mentioned"} \X Comments
  /\ lock \in [Rows -> Requests \union {Nobody}]
  /\ pc \in [Requests -> {"idle", "check", "lock", "lock_author", "decide", "commit"}]
  /\ call \in [Requests -> Calls \union {NoCall}]
  /\ seen \in [Requests -> [role : Roles \union {NotMember}, archived : SUBSET Holders,
                            mentioned : SUBSET Users]]

-----------------------------------------------------------------------------
Goto(r, stage) == pc' = [pc EXCEPT ![r] = stage]
Acquire(r, x) == lock' = [lock EXCEPT ![x] = r]
Unlock(r) == [x \in Rows |-> IF lock[x] = r THEN Nobody ELSE lock[x]]

\* The end of the transaction releases its locks.
Answer(r) ==
  /\ Goto(r, "idle")
  /\ call' = [call EXCEPT ![r] = NoCall]
  /\ seen' = [seen EXCEPT ![r] = NothingSeen]
  /\ lock' = Unlock(r)

Raise(r) == Answer(r) /\ UNCHANGED <<world, row, told>>

\* The view reads the membership, the bug with its project, and the comment.
Submit(r) ==
  /\ pc[r] = "idle"
  /\ \E k \in Calls :
       /\ role[k.actor] # NotMember
       /\ IF k.op = "create"
          THEN /\ status[k.comment] = "absent"
               /\ \A q \in Requests : call[q] # NoCall => call[q].comment # k.comment
          ELSE status[k.comment] # "absent"
       /\ call' = [call EXCEPT ![r] = k]
       /\ seen' = [seen EXCEPT ![r] = [role |-> role[k.actor], archived |-> archived,
                                       mentioned |-> {}]]
       /\ Goto(r, IF k.op = "create" THEN "check" ELSE "lock")
  /\ UNCHANGED <<world, row, told, lock>>

-----------------------------------------------------------------------------
(* create_comment.                                                         *)

Commentable(r) == seen[r].archived = {}

Valid(text) == text # Blank

MayCreate(r) == seen[r].role # "viewer" /\ Commentable(r) /\ Valid(call[r].body)

\* resolve_mentions keeps the users who are members when it looks.
ResolveMentions(r) ==
  /\ pc[r] = "check"
  /\ MayCreate(r)
  /\ seen' = [seen EXCEPT ![r].mentioned =
                {u \in MentionedIn[call[r].body] : role[u] # NotMember}]
  /\ Goto(r, "commit")
  /\ UNCHANGED <<world, row, told, lock, call>>

RefuseComment(r) ==
  /\ pc[r] = "check"
  /\ ~MayCreate(r)
  /\ Raise(r)

\* The users that the rows written refer to: at its commit a foreign key
\* waits for whoever holds one of them FOR UPDATE.
Referred(r) == {call[r].actor} \union seen[r].mentioned
Committable(r) == \A u \in Referred(r) : lock[UserRow(u)] \in {Nobody, r}

CommitComment(r) ==
  LET c == call[r].comment
      found == seen[r].mentioned
  IN /\ pc[r] = "commit" /\ call[r].op = "create"
     /\ Committable(r)
     /\ status' = [status EXCEPT ![c] = "active"]
     /\ body' = [body EXCEPT ![c] = call[r].body]
     /\ author' = [author EXCEPT ![c] = call[r].actor]
     /\ mentions' = mentions \union ({c} \X found)
     /\ feed' = feed \union {<<"added", c, call[r].actor>>}
                     \union {<<"mentioned", c, u>> : u \in found}
     /\ dispatched' = dispatched \union {<<"comment_added", c>>}
                        \union (IF found = {} THEN {} ELSE {<<"mentioned", c>>})
     /\ Answer(r)
     /\ UNCHANGED <<edited, world>>

-----------------------------------------------------------------------------
(* edit_comment, delete_comment and redact_comment.                        *)

\* select_for_update with select_related: one statement locks the comment,
LockComment(r) ==
  LET x == CommentRow(call[r].comment)
  IN /\ pc[r] = "lock"
     /\ lock[x] = Nobody
     /\ Acquire(r, x)
     /\ Goto(r, "lock_author")
     /\ UNCHANGED <<world, row, told, call, seen>>

\* and the row of its author.
LockAuthor(r) ==
  LET x == UserRow(author[call[r].comment])
  IN /\ pc[r] = "lock_author"
     /\ lock[x] = Nobody
     /\ Acquire(r, x)
     /\ Goto(r, "decide")
     /\ UNCHANGED <<world, row, told, call, seen>>

IsAuthor(r) == author[call[r].comment] = call[r].actor

MayWrite(r) == IsAuthor(r)

IsModerator(r) == seen[r].role = "administrator"

\* Mutant: the status is not looked at again under the lock.
IsActiveUnlocked(r) == TRUE

IsActive(r) == status[call[r].comment] = "active"

InWindow(r) == call[r].comment \notin closed

Allowed(r) ==
  LET op == call[r].op
  IN /\ IsActive(r)
     /\ op = "edit" =>
          MayWrite(r) /\ Commentable(r) /\ InWindow(r) /\ Valid(call[r].body)
     /\ op = "delete" => IsModerator(r) \/ (IsAuthor(r) /\ Commentable(r) /\ InWindow(r))
     /\ op = "redact" => IsModerator(r)

NoChange(r) == call[r].op = "edit" /\ call[r].body = body[call[r].comment]

Decide(r) ==
  /\ pc[r] = "decide"
  /\ IF Allowed(r) /\ ~NoChange(r)
     THEN Goto(r, "commit") /\ UNCHANGED <<world, row, told, lock, call, seen>>
     ELSE Raise(r)

CommitEdit(r) ==
  LET c == call[r].comment
  IN /\ pc[r] = "commit" /\ call[r].op = "edit"
     /\ Committable(r)
     /\ body' = [body EXCEPT ![c] = call[r].body]
     /\ edited' = [edited EXCEPT ![c] = TRUE]
     /\ feed' = feed \union {<<"edited", c, call[r].actor>>}
     /\ Answer(r)
     /\ UNCHANGED <<status, author, mentions, dispatched, world>>

StatusAfter(op) == IF op = "delete" THEN "deleted" ELSE "redacted"

\* Mutant: the text stays.
BodyAfterKept(c) == body[c]

BodyAfter(c) == Empty

CommitRemoval(r) ==
  LET c == call[r].comment
      after == StatusAfter(call[r].op)
  IN /\ pc[r] = "commit" /\ call[r].op \in {"delete", "redact"}
     /\ Committable(r)
     /\ status' = [status EXCEPT ![c] = after]
     /\ body' = [body EXCEPT ![c] = BodyAfter(c)]
     /\ feed' = feed \union {<<after, c, call[r].actor>>}
     /\ Answer(r)
     /\ UNCHANGED <<author, edited, mentions, dispatched, world>>

-----------------------------------------------------------------------------
(* Locks that wait for each other: two administrators each remove what the *)
(* other wrote, and the activity of each refers to the author that the     *)
(* other has locked.  PostgreSQL aborts one of the transactions.           *)

Awaited(r) ==
  CASE pc[r] = "lock" -> {CommentRow(call[r].comment)}
    [] pc[r] = "lock_author" -> {UserRow(author[call[r].comment])}
    [] pc[r] = "commit" -> {UserRow(u) : u \in Referred(r)}
    [] OTHER -> {}

Blocked(r, S) == \E x \in Awaited(r) : lock[x] \in S \ {r}

\* Mutant: the victim starts over.
AnswerVictimRetry(r) ==
  /\ Goto(r, IF call[r].op = "create" THEN "check" ELSE "lock")
  /\ lock' = Unlock(r)
  /\ UNCHANGED <<call, seen, world, row, told>>

AnswerVictim(r) == Raise(r)

DeadlockAbort(r) ==
  /\ \E S \in SUBSET Requests : r \in S /\ \A q \in S : Blocked(q, S)
  /\ AnswerVictim(r)

-----------------------------------------------------------------------------
(* What other parts of the program, and the clock, do meanwhile.           *)

ArchiveOrRestore(h) ==
  /\ archived' = IF h \in archived THEN archived \ {h} ELSE archived \union {h}
  /\ UNCHANGED <<role, closed, row, told, reqs>>

ChangeRole(u, x) ==
  /\ role[u] # NotMember
  /\ role' = [role EXCEPT ![u] = x]
  /\ UNCHANGED <<archived, closed, row, told, reqs>>

CloseWindow(c) ==
  /\ status[c] # "absent"
  /\ closed' = closed \union {c}
  /\ UNCHANGED <<role, archived, row, told, reqs>>

Serve(r) ==
  \/ ResolveMentions(r) \/ RefuseComment(r) \/ CommitComment(r)
  \/ LockComment(r) \/ LockAuthor(r) \/ Decide(r)
  \/ CommitEdit(r) \/ CommitRemoval(r)
  \/ DeadlockAbort(r)

Next ==
  \/ \E r \in Requests : Submit(r) \/ Serve(r)
  \/ \E h \in Archivable : ArchiveOrRestore(h)
  \/ \E p \in RoleChanges : ChangeRole(p[1], p[2])
  \/ \E c \in Comments : CloseWindow(c)

Spec == Init /\ [][Next]_vars

\* A request in progress is served, and PostgreSQL hands a row lock to the
\* requests that wait for it in turn.
FairSpec == Spec /\ \A r \in Requests : SF_vars(Serve(r))

-----------------------------------------------------------------------------
(* Properties.                                                             *)

\* The activity feed tells what became of a comment: who added it; that it
\* was edited, and by its author alone; who deleted or redacted it, once,
\* and which of the two it was (comment_status_timestamp_consistency).
FeedMatchesRow ==
  \A c \in Comments :
    LET entries(verb) == {e \in feed : e[1] = verb /\ e[2] = c}
    IN /\ entries("added") =
            IF status[c] = "absent" THEN {} ELSE {<<"added", c, author[c]>>}
       /\ entries("edited") = IF edited[c] THEN {<<"edited", c, author[c]>>} ELSE {}
       /\ \A v \in Removals : Cardinality(entries(v)) = IF status[c] = v THEN 1 ELSE 0

\* "delete and redact are both irreversible, with no recovery path", and
\* "body is cleared the moment status leaves ACTIVE", whatever edits were
\* waiting for the row.
RemovedForGood ==
  [][\A c \in Comments :
       /\ status[c] \in Removals => status'[c] = status[c] /\ edited'[c] = edited[c]
       /\ status'[c] \in Removals => body'[c] = Empty]_vars

\* Every request is answered: administrators who remove each other's comments
\* do not wait for ever.
AllAnswered == \A r \in Requests : (pc[r] # "idle") ~> (pc[r] = "idle")

\* --- Claims of the repository that the code refutes.

\* Mention: "A structured record that `comment` names `mentioned_user`".
MentionsAreInTheText ==
  \A m \in mentions : status[m[1]] = "active" => m[2] \in MentionedIn[body[m[1]]]

\* _check_bug_commentable: "neither the bug nor its project may be archived.
\* Applies to comment creation, editing, and author-initiated deletion".
NothingSaidWhileArchived ==
  [][archived # {} => \A c \in Comments : body'[c] \in {body[c], Empty}]_vars
=============================================================================
