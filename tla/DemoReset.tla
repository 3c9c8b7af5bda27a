------------------------------- MODULE DemoReset -------------------------------
(***************************************************************************)
(* The reset of the public demo, reset_public_demo, with the advisory lock *)
(* and the maintenance flag around it, among the visitors' requests.  The  *)
(* rows that visitors have made are told from the canonical content, of    *)
(* which one record stands for all.                                        *)
(***************************************************************************)
EXTENDS Naturals, FiniteSets

CONSTANTS
  Uploads,     \* attachments of visitors: a row each, and a file
  Projects,    \* projects of visitors
  Resets,      \* runs of the command; each may be run again
  Requests,    \* slots for requests in progress
  Nobody

Items == Uploads \union Projects
Actors == Resets \union Requests

ASSUME NamesAssumption ==
  /\ Uploads \intersect Projects = {}
  /\ Resets \intersect Requests = {}
  /\ Nobody \notin Actors

VARIABLES
  rows,           \* items with a row
  uploaded,       \* attachments whose row says "uploaded"
  files,          \* attachments with a file in the storage directory
  edited,         \* a visitor has changed the canonical record
  advisory,       \* the run that holds DEMO_RESET_LOCK_KEY
  organization,   \* the run that holds the organization row FOR UPDATE
  record,         \* who holds the canonical record's row
  flag,           \* the reset-in-progress key is in the cache
  lost,           \* runs whose session, and what it held, has ended
  pc,             \* of runs and of requests
  keys, removed,  \* keys[p], removed[p]: files run p still has to delete; rows it deletes
  item,           \* item[r]: what request r is about
  stale           \* stale[r]: a reset has replaced the record since r read it

tables == <<rows, uploaded, edited>>
locks == <<advisory, organization, record>>
locals == <<pc, keys, removed, item, stale>>
vars == <<tables, files, locks, flag, lost, locals>>

\* The transaction of a reset is open.
InTransaction == {"list", "files", "delete", "seed", "commit"}
ResetStages == {"flag", "begin", "unflag", "unlock"} \union InTransaction
RequestStages == {"create", "save", "flip", "lock", "edit"}

Init ==
  /\ rows = {} /\ uploaded = {} /\ files = {}
  /\ edited = FALSE
  /\ advisory = Nobody /\ organization = Nobody /\ record = Nobody
  /\ flag = FALSE
  /\ lost = {}
  /\ pc = [a \in Actors |-> "idle"]
  /\ keys = [p \in Resets |-> {}]
  /\ removed = [p \in Resets |-> {}]
  /\ item = [r \in Requests |-> Nobody]
  /\ stale = [r \in Requests |-> FALSE]

TypeOK ==
  /\ rows \subseteq Items
  /\ uploaded \subseteq Uploads \intersect rows
  /\ files \subseteq Uploads
  /\ edited \in BOOLEAN
  /\ advisory \in Resets \union {Nobody}
  /\ organization \in Resets \union {Nobody}
  /\ record \in Actors \union {Nobody}
  /\ flag \in BOOLEAN
  /\ lost \subseteq Resets
  /\ pc \in [Actors -> {"idle"} \union ResetStages \union RequestStages]
  /\ keys \in [Resets -> SUBSET Uploads]
  /\ removed \in [Resets -> SUBSET Items]
  /\ item \in [Requests -> Items \union {Nobody}]
  /\ stale \in [Requests -> BOOLEAN]

Goto(a, stage) == pc' = [pc EXCEPT ![a] = stage]
FreeRecord(a) == record' = IF record = a THEN Nobody ELSE record

-----------------------------------------------------------------------------
(* The command.  The advisory lock is its session's, and raising the flag, *)
(* deleting files and lowering the flag need no session: a run that has    *)
(* lost its connection goes on until its next statement.                   *)

\* Mutant: pg_try_advisory_lock's answer is not looked at.
LockAvailableIgnored == TRUE

LockAvailable == advisory = Nobody

\* The guards hold; otherwise, or when the lock is taken, the run refuses.
Start(p) ==
  /\ pc[p] = "idle"
  /\ LockAvailable
  /\ advisory' = p
  /\ Goto(p, "flag")
  /\ UNCHANGED <<tables, files, organization, record, flag, lost, keys, removed, item, stale>>

RaiseFlag(p) ==
  /\ pc[p] = "flag"
  /\ flag' = TRUE
  /\ Goto(p, "begin")
  /\ UNCHANGED <<tables, files, locks, lost, keys, removed, item, stale>>

\* Mutant: the organization is read without select_for_update.
HolderNone(p) == Nobody

Holder(p) == p

Connected(p) == p \notin lost

Begin(p) ==
  /\ pc[p] = "begin" /\ Connected(p)
  /\ organization = Nobody
  /\ organization' = Holder(p)
  /\ Goto(p, "list")
  /\ UNCHANGED <<tables, files, advisory, record, flag, lost, keys, removed, item, stale>>

ListFiles(p) ==
  /\ pc[p] = "list" /\ Connected(p)
  /\ keys' = [keys EXCEPT ![p] = rows \intersect Uploads]
  /\ Goto(p, "files")
  /\ UNCHANGED <<tables, files, locks, flag, lost, removed, item, stale>>

\* An exception is logged and the file stays.
DeleteFile(p) ==
  /\ pc[p] = "files"
  /\ \E f \in keys[p] :
       /\ files' \in {files, files \ {f}}
       /\ keys' = [keys EXCEPT ![p] = @ \ {f}]
  /\ UNCHANGED <<tables, locks, flag, lost, pc, removed, item, stale>>

FilesDone(p) ==
  /\ pc[p] = "files" /\ keys[p] = {}
  /\ Goto(p, "delete")
  /\ UNCHANGED <<tables, files, locks, flag, lost, keys, removed, item, stale>>

\* The DELETE statements wait for the rows that requests have locked.
DeleteRows(p) ==
  /\ pc[p] = "delete" /\ Connected(p)
  /\ record = Nobody
  /\ record' = p
  /\ removed' = [removed EXCEPT ![p] = rows]
  /\ Goto(p, "seed")
  /\ UNCHANGED <<tables, files, advisory, organization, flag, lost, keys, item, stale>>

\* seed_demo and the verification succeed; see Fail.
Seed(p) ==
  /\ pc[p] = "seed" /\ Connected(p)
  /\ Goto(p, "commit")
  /\ UNCHANGED <<tables, files, locks, flag, lost, keys, removed, item, stale>>

Drop(p) == advisory' = IF advisory = p THEN Nobody ELSE advisory

\* Mutant: pg_try_advisory_xact_lock, which the end of the transaction frees.
KeepAdvisoryInTransaction(p) == Drop(p)

\* The lock is the session's, whatever becomes of the transaction.
KeepAdvisory(p) == UNCHANGED advisory

Commit(p) ==
  /\ pc[p] = "commit" /\ Connected(p)
  /\ rows' = rows \ removed[p]
  /\ uploaded' = uploaded \ removed[p]
  /\ edited' = FALSE
  /\ stale' = [r \in Requests |-> pc[r] # "idle"]
  /\ organization' = Nobody
  /\ KeepAdvisory(p)
  /\ FreeRecord(p)
  /\ removed' = [removed EXCEPT ![p] = {}]
  /\ Goto(p, "unflag")
  /\ UNCHANGED <<files, flag, lost, keys, item>>

\* The transaction is rolled back.
Rollback(p) ==
  /\ organization' = IF organization = p THEN Nobody ELSE organization
  /\ FreeRecord(p)
  /\ removed' = [removed EXCEPT ![p] = {}]
  /\ UNCHANGED <<tables, files, item, stale>>

\* The command leaves its with blocks; what it has read goes with them.
Unwind(p, stage) ==
  /\ keys' = [keys EXCEPT ![p] = {}]
  /\ Goto(p, stage)
  /\ UNCHANGED flag

\* seed_demo, the verification or a statement raises.
Fail(p) ==
  /\ pc[p] \in {"seed", "commit"} /\ Connected(p)
  /\ Rollback(p)
  /\ KeepAdvisory(p)
  /\ Unwind(p, "unflag")
  /\ UNCHANGED lost

\* The next statement of a run without its session raises.
Notice(p) ==
  /\ pc[p] \in {"begin", "list", "delete", "seed", "commit"} /\ ~Connected(p)
  /\ Unwind(p, "unflag")
  /\ UNCHANGED <<tables, files, locks, lost, removed, item, stale>>

LowerFlag(p) ==
  /\ pc[p] = "unflag"
  /\ flag' = FALSE
  /\ Goto(p, "unlock")
  /\ UNCHANGED <<tables, files, locks, lost, keys, removed, item, stale>>

\* Without its session it raises, or asks another one to free a lock that is
\* not its own: the run ends either way.
Release(p) ==
  /\ pc[p] = "unlock"
  /\ Drop(p)
  /\ lost' = lost \ {p}
  /\ Goto(p, "idle")
  /\ UNCHANGED <<tables, files, organization, record, flag, keys, removed, item, stale>>

\* The process dies, and PostgreSQL ends its session.
Crash(p) ==
  /\ pc[p] # "idle"
  /\ Rollback(p)
  /\ Drop(p)
  /\ lost' = lost \ {p}
  /\ Unwind(p, "idle")

\* The session ends at any point, and PostgreSQL rolls its transaction back
\* and frees what it held.  The process does not know.
Disconnect(p) ==
  /\ pc[p] # "idle" /\ Connected(p)
  /\ Rollback(p)
  /\ Drop(p)
  /\ lost' = lost \union {p}
  /\ UNCHANGED <<flag, pc, keys>>

\* _MAX_DURATION_SECONDS have passed.
Expire ==
  /\ flag
  /\ flag' = FALSE
  /\ UNCHANGED <<tables, files, locks, lost, locals>>

-----------------------------------------------------------------------------
(* Requests of visitors.  The views set permission_classes of their own,   *)
(* so none consults DemoResetInProgressPermission.                         *)

InProgress(i) == \E r \in Requests : pc[r] # "idle" /\ item[r] = i

Accept(r, i, stage) ==
  /\ pc[r] = "idle"
  /\ item' = [item EXCEPT ![r] = i]
  /\ stale' = [stale EXCEPT ![r] = FALSE]
  /\ Goto(r, stage)
  /\ UNCHANGED <<tables, files, locks, flag, lost, keys, removed>>

\* Each attachment has a storage key of its own, which no run knows yet.
Unused(i) == i \notin rows \union files /\ ~InProgress(i) /\ \A p \in Resets : i \notin keys[p]

\* create_project, or initiate_upload on the canonical record.
SubmitCreate(r) == \E i \in Items : Unused(i) /\ Accept(r, i, "create")
\* receive_local_upload of a pending attachment.
SubmitUpload(r) == \E i \in (Uploads \intersect rows) \ uploaded : ~InProgress(i) /\ Accept(r, i, "save")
\* A change of the canonical record.
SubmitEdit(r) == Accept(r, Nobody, "lock")

Answer(r) ==
  /\ Goto(r, "idle")
  /\ item' = [item EXCEPT ![r] = Nobody]
  /\ stale' = [stale EXCEPT ![r] = FALSE]
  /\ UNCHANGED <<keys, removed, advisory, organization, flag, lost>>

Raise(r) == Answer(r) /\ FreeRecord(r) /\ UNCHANGED <<tables, files>>

\* Every row refers to the organization: its foreign key, checked at the
\* commit, waits for whoever holds the organization FOR UPDATE.
Committable == organization = Nobody

\* An attachment refers to its bug, and cannot be added when that is gone.
CommitCreate(r) ==
  /\ pc[r] = "create"
  /\ Committable
  /\ IF item[r] \in Uploads /\ stale[r] THEN Raise(r)
     ELSE /\ rows' = rows \union {item[r]}
          /\ Answer(r)
          /\ UNCHANGED <<uploaded, edited, files, record>>

\* The file is saved before the transaction that flips the row.
Save(r) ==
  /\ pc[r] = "save"
  /\ files' = files \union {item[r]}
  /\ Goto(r, "flip")
  /\ UNCHANGED <<tables, locks, flag, lost, keys, removed, item, stale>>

RowIsThere(r) == item[r] \in rows

Flip(r) ==
  /\ pc[r] = "flip"
  /\ Committable
  /\ IF RowIsThere(r)
     THEN /\ uploaded' = uploaded \union {item[r]}
          /\ Answer(r)
          /\ UNCHANGED <<rows, edited, files, record>>
     ELSE Raise(r)

LockRecord(r) ==
  /\ pc[r] = "lock"
  /\ record = Nobody
  /\ IF stale[r] THEN Raise(r)
     ELSE /\ record' = r
          /\ Goto(r, "edit")
          /\ UNCHANGED <<tables, files, advisory, organization, flag, lost, keys, removed, item, stale>>

\* Mutant: the row stays locked after the commit.
FreeRecordNever(a) == UNCHANGED record

\* The transaction of a change ends, and its lock with it.
EndChange(a) == FreeRecord(a)

CommitEdit(r) ==
  /\ pc[r] = "edit"
  /\ Committable
  /\ edited' = TRUE
  /\ Answer(r)
  /\ EndChange(r)
  /\ UNCHANGED <<rows, uploaded, files>>

-----------------------------------------------------------------------------
(* A request that has locked the record waits for the organization, and    *)
(* the reset that has locked the organization waits for the record.        *)

Deadlocked(p, r) ==
  /\ pc[p] = "delete" /\ organization = p
  /\ pc[r] = "edit" /\ record = r

AbortReset(p) ==
  /\ \E r \in Requests : Deadlocked(p, r)
  /\ Rollback(p)
  /\ KeepAdvisory(p)
  /\ Unwind(p, "unflag")
  /\ UNCHANGED lost

AbortRequest(r) ==
  /\ \E p \in Resets : Deadlocked(p, r)
  /\ Raise(r)

-----------------------------------------------------------------------------
Run(p) ==
  \/ RaiseFlag(p) \/ Begin(p) \/ ListFiles(p) \/ DeleteFile(p) \/ FilesDone(p)
  \/ DeleteRows(p) \/ Seed(p) \/ Commit(p) \/ Notice(p) \/ LowerFlag(p)
  \/ Release(p) \/ AbortReset(p)

Submit(r) == SubmitCreate(r) \/ SubmitUpload(r) \/ SubmitEdit(r)

Serve(r) ==
  \/ CommitCreate(r) \/ Save(r) \/ Flip(r) \/ LockRecord(r) \/ CommitEdit(r)
  \/ AbortRequest(r)

Next ==
  \/ \E p \in Resets : Start(p) \/ Run(p) \/ Fail(p) \/ Crash(p) \/ Disconnect(p)
  \/ \E r \in Requests : Submit(r) \/ Serve(r)
  \/ Expire

Spec == Init /\ [][Next]_vars

\* Processes keep running, and PostgreSQL hands a row lock to those who wait
\* for it in turn.
FairSpec ==
  /\ Spec
  /\ \A p \in Resets : SF_vars(Run(p))
  /\ \A r \in Requests : SF_vars(Serve(r))

-----------------------------------------------------------------------------
(* Properties.                                                             *)

\* Between its guards and the end of its transaction a run that still has its
\* session is the only one that has, also when runs crash, lose their
\* connection and are started again.  One that has lost its connection has
\* lost the lock with it, and may be overtaken before it notices.
OneResetAtATime ==
  \A p, q \in Resets \ lost :
    {pc[p], pc[q]} \subseteq InTransaction \union {"flag", "begin"} => p = q

\* A reset that commits leaves the canonical content and nothing else: no
\* visitor's write lands between its deletions and its end, although no
\* request is turned away.
CanonicalAtCommit ==
  [][\A p \in Resets : Commit(p) => rows' = {} /\ uploaded' = {} /\ ~edited']_vars

\* Whatever happens to it, a run comes to its end: it is not left waiting for
\* a request that waits for it, nor without its connection.
ResetsEnd == \A p \in Resets : (pc[p] # "idle") ~> (pc[p] = "idle")

\* All runs raise and lower one key.  While a run is in its transaction nobody
\* else lowers the flag that it has raised, unless the key expires or the other
\* had lost its connection: the advisory lock outlasts the transaction, until
\* the flag is down.
FlagStaysUp ==
  [][\A p \in Resets \ lost :
       pc[p] \in InTransaction /\ flag /\ ~flag' =>
         Expire \/ \E q \in lost : LowerFlag(q)]_vars

\* --- Claims of the repository that the code refutes.

\* "every organization-scoped mutating API request returns 503" while a
\* reset is in progress.
RefusedWhileResetting ==
  [][\A r \in Requests : pc[r] = "idle" /\ pc'[r] # "idle" => ~flag]_vars

\* "a process-wide, at-most-one operation across containers/processes": not
\* when the lock has gone with its connection.
OneProcessAtATime ==
  \A p, q \in Resets :
    {pc[p], pc[q]} \subseteq InTransaction \union {"flag", "begin"} => p = q

\* "a failure anywhere rolls back everything": an attachment that is there
\* has its file.
UploadsHaveFiles == uploaded \subseteq files

\* "Every attachment scoped to the demo organization is removed as part of a
\* reset", file and all, when no upload is under way.
FilesHaveRows ==
  (\A r \in Requests : pc[r] \notin {"save", "flip"}) => files \subseteq rows
=============================================================================
