------------------------------ MODULE Attachments ------------------------------
(***************************************************************************)
(* One attachment and its file: apps/attachments (services, providers,     *)
(* tasks).  Attachments share neither rows nor paths, so one stands for    *)
(* all.  An upload streams its chunks to a ".part" file that every upload  *)
(* of the attachment shares, renames it, and flips the row under a lock.   *)
(* Uploads overlap, fail, and are killed; the file is removed and cleaned. *)
(***************************************************************************)
EXTENDS Naturals, Sequences, FiniteSets

CONSTANTS
  Requests,    \* slots for requests in progress
  Payloads,    \* files that clients send
  Refused,     \* those of the wrong size or with the wrong signature
  NoPayload,   \* the request sends no file
  Hole,        \* a chunk of zeros
  NChunks      \* chunks of a file of the declared size

NoInode == 0
Inodes == 1..(Cardinality(Requests) + 2)
Paths == {"part", "final"}

PayloadsAssumption == Refused \subseteq Payloads /\ NoPayload \notin Payloads
SizesAssumption == NChunks \in Nat \ {0} /\ IsFiniteSet(Requests)

VARIABLES
  status,     \* "none" before initiate_upload
  removed,    \* removed_at is not null
  archived,   \* the bug or its project is archived
  feed,       \* the ADDED and REMOVED activities, oldest first
  path,       \* path[p]: the inode that the path names
  content,    \* content[i]: the chunks of inode i
  pc, sent,   \* pc[r], sent[r]: what request r does next, with which payload
  fd, pos,    \* fd[r], pos[r]: the file r has open, and where it writes
  cleanups,   \* delete_attachment_object tasks in the broker
  accepted    \* the payload of the upload that flipped the row

row == <<status, removed, feed, accepted>>
files == <<path, content>>
upload == <<sent, fd, pos>>
vars == <<row, archived, files, pc, upload, cleanups>>

Init ==
  /\ status = "none"
  /\ removed = FALSE
  /\ archived = FALSE
  /\ feed = <<>>
  /\ path = [p \in Paths |-> NoInode]
  /\ content = [i \in Inodes |-> <<>>]
  /\ pc = [r \in Requests |-> "idle"]
  /\ sent = [r \in Requests |-> NoPayload]
  /\ fd = [r \in Requests |-> NoInode]
  /\ pos = [r \in Requests |-> 0]
  /\ cleanups = 0
  /\ accepted = NoPayload

Stages == {"idle", "fail", "open", "write", "head", "flip", "remove"}
Chunks == (Payloads \X (1..NChunks)) \union {Hole}

TypeOK ==
  /\ status \in {"none", "pending", "uploaded", "failed"}
  /\ removed \in BOOLEAN /\ archived \in BOOLEAN
  /\ feed \in Seq({"ADDED", "REMOVED"})
  /\ path \in [Paths -> Inodes \union {NoInode}]
  /\ content \in [Inodes -> Seq(Chunks)]
  /\ pc \in [Requests -> Stages]
  /\ sent \in [Requests -> Payloads \union {NoPayload}]
  /\ fd \in [Requests -> Inodes \union {NoInode}]
  /\ pos \in [Requests -> 0..NChunks]
  /\ cleanups \in Nat
  /\ accepted \in Payloads \union {NoPayload}

-----------------------------------------------------------------------------
At(r, stage) == pc[r] = stage
Goto(r, stage) == pc' = [pc EXCEPT ![r] = stage]

\* The end of a request closes its file.
Finish(r) ==
  /\ Goto(r, "idle")
  /\ sent' = [sent EXCEPT ![r] = NoPayload]
  /\ fd' = [fd EXCEPT ![r] = NoInode]
  /\ pos' = [pos EXCEPT ![r] = 0]

InitiateUpload ==
  /\ status = "none"
  /\ ~archived
  /\ status' = "pending"
  /\ UNCHANGED <<removed, feed, accepted, archived, files, pc, upload, cleanups>>

MayUpload == status = "pending"

\* receive_local_upload, up to the storage: what it reads is not locked.
BeginUpload(r) ==
  /\ At(r, "idle")
  /\ MayUpload
  /\ ~archived
  /\ \E p \in Payloads :
       /\ sent' = [sent EXCEPT ![r] = p]
       /\ Goto(r, IF p \in Refused THEN "fail" ELSE "open")
  /\ UNCHANGED <<row, archived, files, fd, pos, cleanups>>

\* Mutant: whatever the row has become.
MayFailAlways == TRUE

\* _mark_failed: "already resolved by a concurrent request".
MayFail == status = "pending"

MarkFailed(r) ==
  /\ At(r, "fail")
  /\ status' = IF MayFail THEN "failed" ELSE status
  /\ Finish(r)
  /\ UNCHANGED <<removed, feed, accepted, archived, files, cleanups>>

-----------------------------------------------------------------------------
(* save_stream.                                                            *)

TmpPath == "part"

Unused(i) == (\A p \in Paths : path[p] # i) /\ \A r \in Requests : fd[r] # i

\* open(tmp_path, "wb") truncates the file that is there.
Open(r) ==
  LET i == IF path[TmpPath] # NoInode THEN path[TmpPath]
           ELSE CHOOSE j \in Inodes : Unused(j)
  IN /\ At(r, "open")
     /\ path' = [path EXCEPT ![TmpPath] = i]
     /\ content' = [content EXCEPT ![i] = <<>>]
     /\ fd' = [fd EXCEPT ![r] = i]
     /\ Goto(r, "write")
     /\ UNCHANGED <<row, archived, sent, pos, cleanups>>

\* The file with chunk c at position n: what lies before it and was never
\* written, or was truncated, reads as zeros.
Put(file, n, c) ==
  [k \in 1..(IF Len(file) > n THEN Len(file) ELSE n) |->
     IF k = n THEN c ELSE IF k <= Len(file) THEN file[k] ELSE Hole]

MoreToWrite(r) == pos[r] < NChunks

Write(r) ==
  /\ At(r, "write")
  /\ MoreToWrite(r)
  /\ pos' = [pos EXCEPT ![r] = @ + 1]
  /\ content' = [content EXCEPT ![fd[r]] = Put(@, pos[r] + 1, <<sent[r], pos[r] + 1>>)]
  /\ UNCHANGED <<row, archived, path, pc, sent, fd, cleanups>>

\* os.replace(tmp_path, final_path), by name.
Replace(r) ==
  /\ At(r, "write")
  /\ ~MoreToWrite(r)
  /\ path[TmpPath] # NoInode
  /\ path' = [path EXCEPT !["final"] = path[TmpPath], !["part"] = NoInode]
  /\ fd' = [fd EXCEPT ![r] = NoInode]
  /\ Goto(r, "head")
  /\ UNCHANGED <<row, archived, content, sent, pos, cleanups>>

\* FileNotFoundError in os.replace, or an error of the disk: the handler
\* unlinks the temporary file, whoever is writing to it.
StreamError(r) ==
  /\ At(r, "open") \/ At(r, "write")
  /\ path' = [path EXCEPT ![TmpPath] = NoInode]
  /\ Finish(r)
  /\ UNCHANGED <<row, archived, content, cleanups>>

SizeIsRight ==
  path["final"] # NoInode /\ Len(content[path["final"]]) = NChunks

HeadObject(r) ==
  /\ At(r, "head")
  /\ Goto(r, IF SizeIsRight THEN "flip" ELSE "fail")
  /\ UNCHANGED <<row, archived, files, upload, cleanups>>

-----------------------------------------------------------------------------
\* Mutant: the row read at the beginning was pending.
StillPendingUnchecked == TRUE

\* The second look at the status, under the row lock.
StillPending == status = "pending"

Flip(r) ==
  /\ At(r, "flip")
  /\ StillPending
  /\ status' = "uploaded"
  /\ accepted' = sent[r]
  /\ feed' = Append(feed, "ADDED")
  /\ Finish(r)
  /\ UNCHANGED <<removed, archived, files, cleanups>>

\* AttachmentNotPending.
RefuseFlip(r) ==
  /\ At(r, "flip")
  /\ ~StillPending
  /\ Finish(r)
  /\ UNCHANGED <<row, archived, files, cleanups>>

\* remove_attachment.  An archived bug stops the uploader, never a moderator,
\* so that some caller may always remove.
BeginRemove(r) ==
  /\ At(r, "idle")
  /\ status # "none"
  /\ Goto(r, "remove")
  /\ UNCHANGED <<row, archived, files, upload, cleanups>>

MayRemove == status = "uploaded" /\ ~removed

\* on_commit publishes the cleanup, or logs that the broker is unreachable.
Remove(r) ==
  /\ At(r, "remove")
  /\ MayRemove
  /\ removed' = TRUE
  /\ feed' = Append(feed, "REMOVED")
  /\ cleanups' \in {cleanups, cleanups + 1}
  /\ Finish(r)
  /\ UNCHANGED <<status, accepted, archived, files>>

RefuseRemove(r) ==
  /\ At(r, "remove")
  /\ ~MayRemove
  /\ Finish(r)
  /\ UNCHANGED <<row, archived, files, cleanups>>

\* delete_attachment_object; a failed attempt is retried until it is given up.
DeleteObject ==
  /\ cleanups > 0
  /\ cleanups' = cleanups - 1
  /\ path' \in {path, [path EXCEPT !["final"] = NoInode]}
  /\ UNCHANGED <<row, archived, content, pc, upload>>

\* The process serving the request is killed: nothing is unlinked.
Crash(r) ==
  /\ ~At(r, "idle")
  /\ Finish(r)
  /\ UNCHANGED <<row, archived, files, cleanups>>

ArchiveOrRestoreBug ==
  /\ archived' = ~archived
  /\ UNCHANGED <<row, files, pc, upload, cleanups>>

Serve(r) ==
  \/ BeginUpload(r) \/ MarkFailed(r)
  \/ Open(r) \/ Write(r) \/ Replace(r) \/ StreamError(r)
  \/ HeadObject(r) \/ Flip(r) \/ RefuseFlip(r)
  \/ BeginRemove(r) \/ Remove(r) \/ RefuseRemove(r)
  \/ Crash(r)

Next ==
  \/ InitiateUpload
  \/ \E r \in Requests : Serve(r)
  \/ DeleteObject
  \/ ArchiveOrRestoreBug

Spec == Init /\ [][Next]_vars

-----------------------------------------------------------------------------
(* Properties.                                                             *)

\* Attachment's docstring: "a one-way upload lifecycle", and a removal that is
\* layered on top of uploaded and never undone, whichever requests overlap.
StatusIsOneWay ==
  [][/\ status' # status => status \in {"none", "pending"} /\ (status = "none" => status' = "pending")
     /\ removed' # removed => removed' /\ status = "uploaded"]_vars

\* Each attachment is announced once, when it is uploaded, and its removal
\* once after that: two uploads or two removals never both count.
FeedMatchesRow ==
  feed = (IF status = "uploaded" THEN <<"ADDED">> ELSE <<>>)
         \o (IF removed THEN <<"REMOVED">> ELSE <<>>)

FileOf(p) == [k \in 1..NChunks |-> <<p, k>>]

\* save_stream's docstring: "a failure partway through never leaves a partial
\* file at the real path".
FinalPathIsWhole ==
  path["final"] # NoInode => \E p \in Payloads : content[path["final"]] = FileOf(p)

\* receive_local_upload's docstring: the locked status flip "is what actually
\* closes the race against a genuine concurrent double-submit": what is
\* downloaded is what the accepted upload sent.
AcceptedBytesStay ==
  status = "uploaded" /\ ~removed =>
    /\ path["final"] # NoInode
    /\ content[path["final"]] = FileOf(accepted)
=============================================================================
