------------------------------ MODULE DemoResetProofs ------------------------------
(***************************************************************************)
(* That one reset runs at a time and that one which commits leaves nothing *)
(* of the visitors, for any number of runs, requests and records, with     *)
(* crashes, lost connections and deadlocks.                                *)
(***************************************************************************)
EXTENDS DemoReset, TLAPS

\* Requests are about what their calls are about.
ItemsMatchStages ==
  \A r \in Requests :
    /\ pc[r] = "create" => item[r] \in Items
    /\ pc[r] \in {"save", "flip"} => item[r] \in Uploads

\* A run has the advisory lock from its guards to its end, unless its session
\* has ended.
AdvisoryIsHeld ==
  \A p \in Resets \ lost : pc[p] # "idle" => advisory = p

\* In its transaction it holds the organization,
OrganizationIsHeld ==
  \A p \in Resets \ lost : pc[p] \in InTransaction => organization = p

\* so that no row appears which it has not seen.
AllIsRemoved ==
  \A p \in Resets \ lost : pc[p] \in {"seed", "commit"} => rows \subseteq removed[p]

IInv ==
  /\ TypeOK
  /\ ItemsMatchStages
  /\ AdvisoryIsHeld
  /\ OrganizationIsHeld
  /\ AllIsRemoved

-----------------------------------------------------------------------------
(* What a step has to show.                                                *)

\* Runs and requests are told apart.
LEMMA Names ==
  /\ \A p \in Resets : p \in Actors /\ p \notin Requests /\ p # Nobody
  /\ \A r \in Requests : r \in Actors /\ r \notin Resets /\ r # Nobody
  BY NamesAssumption DEF Actors

\* A step of a run that adds no row keeps the invariant if the run has
\* what its next stage calls for, and takes nothing from the others.
LEMMA StepOfRun ==
  ASSUME IInv, TypeOK', NEW p \in Resets,
         \A a \in Actors \ {p} : pc'[a] = pc[a],
         item' = item,
         rows' \subseteq rows,
         \A q \in Resets \ {p} :
           /\ advisory = q => advisory' = q
           /\ organization = q => organization' = q
           /\ removed'[q] = removed[q]
           /\ q \in lost => q \in lost',
         p \notin lost' /\ pc'[p] # "idle" => advisory' = p,
         p \notin lost' /\ pc'[p] \in InTransaction => organization' = p,
         p \notin lost' /\ pc'[p] \in {"seed", "commit"} => rows' \subseteq removed'[p]
  PROVE  IInv'
<1>1. \A r \in Requests : pc'[r] = pc[r] /\ item'[r] = item[r]
  BY Names
<1>2. \A q \in Resets \ {p} : pc'[q] = pc[q]
  BY Names
<1>3. ItemsMatchStages'
  BY <1>1 DEF IInv, ItemsMatchStages
<1>4. AdvisoryIsHeld'
  BY <1>2 DEF IInv, AdvisoryIsHeld
<1>5. OrganizationIsHeld'
  BY <1>2 DEF IInv, OrganizationIsHeld
<1>6. AllIsRemoved'
  BY <1>2 DEF IInv, AllIsRemoved
<1> QED
  BY <1>3, <1>4, <1>5, <1>6 DEF IInv

\* A request keeps it if it adds rows only while no run is in its
\* transaction.
LEMMA StepOfRequest ==
  ASSUME IInv, TypeOK', NEW r \in Requests,
         \A a \in Actors \ {r} : pc'[a] = pc[a],
         \A q \in Requests \ {r} : item'[q] = item[q],
         advisory' = advisory, organization' = organization, removed' = removed,
         lost' = lost,
         rows' = rows \/ Committable,
         pc'[r] = "create" => item'[r] \in Items,
         pc'[r] \in {"save", "flip"} => item'[r] \in Uploads
  PROVE  IInv'
<1>1. \A p \in Resets : pc'[p] = pc[p]
  BY Names
<1>2. \A q \in Requests \ {r} : pc'[q] = pc[q]
  BY Names
<1>3. ItemsMatchStages'
  BY <1>2 DEF IInv, ItemsMatchStages
<1>4. AdvisoryIsHeld'
  BY <1>1 DEF IInv, AdvisoryIsHeld
<1>5. OrganizationIsHeld'
  BY <1>1 DEF IInv, OrganizationIsHeld
<1>6. AllIsRemoved'
  <2>1. CASE rows' = rows
    BY <1>1, <2>1 DEF IInv, AllIsRemoved
  <2>2. CASE Committable
    BY <1>1, <2>2, Names DEF Committable, IInv, OrganizationIsHeld, AllIsRemoved, InTransaction
  <2> QED
    BY <2>1, <2>2
<1> QED
  BY <1>3, <1>4, <1>5, <1>6 DEF IInv

-----------------------------------------------------------------------------
(* The command.                                                            *)

\* A step that moves on within the transaction, or outside, and changes
\* neither rows nor the two locks.
LEMMA MoveOfRun ==
  ASSUME IInv, NEW p \in Resets, NEW s \in {"idle"} \union ResetStages, Goto(p, s),
         UNCHANGED <<tables, locks, lost, removed, item, stale>>,
         files' \subseteq files, flag' \in BOOLEAN, keys' \in [Resets -> SUBSET Uploads],
         p \notin lost /\ s # "idle" => advisory = p,
         p \notin lost /\ s \in InTransaction => organization = p,
         p \notin lost /\ s \in {"seed", "commit"} => rows \subseteq removed[p]
  PROVE  IInv'
<1>1. p \in Actors
  BY Names
<1>2. TypeOK /\ TypeOK'
  BY <1>1 DEF IInv, TypeOK, Goto, tables, locks
<1>3. pc'[p] = s /\ \A a \in Actors \ {p} : pc'[a] = pc[a]
  BY <1>1, <1>2 DEF TypeOK, Goto
<1> QED
  BY <1>2, <1>3, StepOfRun DEF tables, locks

\* What a run holds according to where it is.
LEMMA Holdings ==
  ASSUME IInv, NEW p \in Resets
  PROVE  /\ p \notin lost /\ pc[p] # "idle" => advisory = p
         /\ p \notin lost /\ pc[p] \in InTransaction => organization = p
         /\ p \notin lost /\ pc[p] \in {"seed", "commit"} => rows \subseteq removed[p]
  BY DEF IInv, AdvisoryIsHeld, OrganizationIsHeld, AllIsRemoved

LEMMA StartStep ==
  ASSUME IInv, NEW p \in Resets, Start(p)
  PROVE  IInv'
<1>1. p \in Actors
  BY Names
<1>2. TypeOK /\ TypeOK'
  BY <1>1 DEF IInv, TypeOK, Start, Goto, tables, ResetStages
<1>3. pc'[p] = "flag" /\ \A a \in Actors \ {p} : pc'[a] = pc[a]
  BY <1>1, <1>2 DEF TypeOK, Start, Goto
<1>4. \A q \in Resets : advisory # q
  BY Names DEF Start, LockAvailable
<1> QED
  BY <1>2, <1>3, <1>4, StepOfRun DEF Start, tables, InTransaction

LEMMA BeginStep ==
  ASSUME IInv, NEW p \in Resets, Begin(p)
  PROVE  IInv'
<1>1. p \in Actors
  BY Names
<1>2. TypeOK /\ TypeOK'
  BY <1>1 DEF IInv, TypeOK, Begin, Holder, Goto, tables, ResetStages, InTransaction
<1>3. pc'[p] = "list" /\ \A a \in Actors \ {p} : pc'[a] = pc[a]
  BY <1>1, <1>2 DEF TypeOK, Begin, Goto
<1>4. \A q \in Resets : organization # q
  BY Names DEF Begin
<1>5. advisory = p
  BY Holdings DEF Begin, Connected
<1> QED
  BY <1>2, <1>3, <1>4, <1>5, StepOfRun DEF Begin, Holder, tables

LEMMA DeleteRowsStep ==
  ASSUME IInv, NEW p \in Resets, DeleteRows(p)
  PROVE  IInv'
<1>1. p \in Actors
  BY Names
<1>2. TypeOK /\ TypeOK'
  BY <1>1 DEF IInv, TypeOK, DeleteRows, Goto, tables, ResetStages, InTransaction
<1>3. pc'[p] = "seed" /\ \A a \in Actors \ {p} : pc'[a] = pc[a]
  BY <1>1, <1>2 DEF TypeOK, DeleteRows, Goto
<1>4. removed'[p] = rows /\ \A q \in Resets \ {p} : removed'[q] = removed[q]
  BY <1>2 DEF TypeOK, DeleteRows
<1>5. advisory = p /\ organization = p
  BY Holdings DEF DeleteRows, Connected, InTransaction
<1> QED
  BY <1>2, <1>3, <1>4, <1>5, StepOfRun DEF DeleteRows, tables

\* The quiet steps of a run.
LEMMA QuietStep ==
  ASSUME IInv, NEW p \in Resets,
         \/ RaiseFlag(p) \/ ListFiles(p) \/ FilesDone(p) \/ Seed(p) \/ Notice(p)
         \/ LowerFlag(p)
  PROVE  IInv'
<1>1. TypeOK
  BY DEF IInv
<1>2. keys \in [Resets -> SUBSET Uploads] /\ flag \in BOOLEAN
  BY <1>1 DEF TypeOK
<1>3. CASE RaiseFlag(p)
  BY <1>2, <1>3, Holdings, MoveOfRun DEF RaiseFlag, ResetStages, InTransaction
<1>4. CASE ListFiles(p)
  <2>1. keys' \in [Resets -> SUBSET Uploads]
    BY <1>2, <1>4 DEF ListFiles
  <2> QED
    BY <1>2, <1>4, <2>1, Holdings, MoveOfRun DEF ListFiles, ResetStages, InTransaction
<1>5. CASE FilesDone(p)
  BY <1>2, <1>5, Holdings, MoveOfRun DEF FilesDone, ResetStages, InTransaction
<1>6. CASE Seed(p)
  BY <1>2, <1>6, Holdings, MoveOfRun DEF Seed, ResetStages, InTransaction
<1>7. CASE LowerFlag(p)
  BY <1>2, <1>7, Holdings, MoveOfRun DEF LowerFlag, ResetStages, InTransaction
<1>8. CASE Notice(p)
  <2>1. keys' \in [Resets -> SUBSET Uploads]
    BY <1>2, <1>8 DEF Notice, Unwind
  <2> QED
    BY <1>2, <1>8, <2>1, MoveOfRun DEF Notice, Connected, Unwind, ResetStages
<1> QED
  BY <1>3, <1>4, <1>5, <1>6, <1>7, <1>8

LEMMA DeleteFileStep ==
  ASSUME IInv, NEW p \in Resets, DeleteFile(p)
  PROVE  IInv'
<1>1. TypeOK /\ files' \subseteq files /\ UNCHANGED <<tables, locks, flag, lost, pc, removed, item, stale>>
  BY DEF IInv, DeleteFile
<1>2. keys' \in [Resets -> SUBSET Uploads]
  BY <1>1 DEF DeleteFile, TypeOK
<1>3. TypeOK'
  BY <1>1, <1>2 DEF TypeOK, tables, locks
<1> QED
  BY <1>1, <1>3, Holdings, StepOfRun DEF tables, locks

LEMMA CommitStep ==
  ASSUME IInv, NEW p \in Resets, Commit(p)
  PROVE  IInv' /\ rows' = {} /\ uploaded' = {} /\ ~edited'
<1>1. p \in Actors /\ TypeOK
  BY Names DEF IInv
<1>2. pc' = [pc EXCEPT ![p] = "unflag"] /\ removed' = [removed EXCEPT ![p] = {}]
  BY DEF Commit, Goto
<1>3. /\ pc' \in [Actors -> {"idle"} \union ResetStages \union RequestStages]
      /\ pc'[p] = "unflag"
      /\ \A a \in Actors \ {p} : pc'[a] = pc[a]
  BY <1>1, <1>2 DEF TypeOK, ResetStages
<1>4. removed' \in [Resets -> SUBSET Items] /\ \A q \in Resets \ {p} : removed'[q] = removed[q]
  BY <1>1, <1>2 DEF TypeOK
<1>5. rows' \subseteq rows /\ uploaded' \subseteq Uploads \intersect rows'
  BY <1>1 DEF TypeOK, Commit
<1>6. stale' \in [Requests -> BOOLEAN]
  BY DEF Commit
<1>7. record' \in Actors \union {Nobody}
  BY <1>1 DEF TypeOK, Commit, FreeRecord
<1>8. TypeOK'
  BY <1>1, <1>3, <1>4, <1>5, <1>6, <1>7 DEF TypeOK, Commit, KeepAdvisory
<1>9. rows \subseteq removed[p] /\ organization = p /\ advisory = p
  BY Holdings DEF Commit, Connected, InTransaction
<1>10. rows' = {} /\ uploaded' = {} /\ ~edited'
  BY <1>1, <1>9 DEF TypeOK, Commit
<1>11. IInv'
  BY <1>3, <1>4, <1>5, <1>8, <1>9, StepOfRun DEF Commit, KeepAdvisory, InTransaction
<1> QED
  BY <1>10, <1>11

Holds(p) == p \notin lost => advisory = p

\* What a transaction that is rolled back leaves of the types and the locks.
LEMMA RollbackTypes ==
  ASSUME IInv, NEW p \in Resets, Rollback(p), KeepAdvisory(p) \/ Drop(p)
  PROVE  /\ rows' = rows /\ uploaded' = uploaded /\ edited' = edited /\ files' = files
         /\ item' = item /\ stale' = stale
         /\ advisory' \in Resets \union {Nobody} /\ organization' \in Resets \union {Nobody}
         /\ record' \in Actors \union {Nobody}
         /\ removed' \in [Resets -> SUBSET Items]
         /\ \A q \in Resets \ {p} :
              /\ advisory = q => advisory' = q
              /\ organization = q => organization' = q
              /\ removed'[q] = removed[q]
<1>1. TypeOK
  BY DEF IInv
<1> QED
  BY <1>1 DEF TypeOK, Rollback, FreeRecord, KeepAdvisory, Drop, tables

\* A failure, and the end of the process.
LEMMA RollbackStep ==
  ASSUME IInv, NEW p \in Resets, Rollback(p),
         \/ KeepAdvisory(p) /\ Unwind(p, "unflag") /\ UNCHANGED lost /\ Holds(p)
         \/ Drop(p) /\ Unwind(p, "idle") /\ lost' = lost \ {p}
  PROVE  IInv'
<1>1. p \in Actors /\ TypeOK
  BY Names DEF IInv
<1> DEFINE s == pc'[p]
<1>2. /\ pc' \in [Actors -> {"idle"} \union ResetStages \union RequestStages]
      /\ \/ s = "unflag" /\ advisory' = advisory /\ lost' = lost /\ Holds(p)
         \/ s = "idle"
      /\ \A a \in Actors \ {p} : pc'[a] = pc[a]
  BY <1>1 DEF TypeOK, ResetStages, Unwind, Goto, KeepAdvisory
<1>3. keys' \in [Resets -> SUBSET Uploads] /\ flag' = flag /\ lost' \subseteq Resets
  BY <1>1 DEF TypeOK, Unwind
<1>4. TypeOK'
  BY <1>1, <1>2, <1>3, RollbackTypes DEF TypeOK
<1>5. s # "idle" /\ p \notin lost' => advisory' = p
  BY <1>2 DEF Holds
<1>6. \A q \in Resets \ {p} : q \in lost => q \in lost'
  OBVIOUS
<1> QED
  BY <1>2, <1>4, <1>5, <1>6, RollbackTypes, StepOfRun DEF InTransaction

\* A run whose session ends keeps its place and loses what it held.
LEMMA DisconnectStep ==
  ASSUME IInv, NEW p \in Resets, Disconnect(p)
  PROVE  IInv'
<1>1. p \in Actors /\ TypeOK
  BY Names DEF IInv
<1>2. lost' = lost \union {p} /\ UNCHANGED <<flag, pc, keys>>
  BY DEF Disconnect
<1>3. Rollback(p) /\ Drop(p)
  BY DEF Disconnect
<1>4. TypeOK'
  BY <1>1, <1>2, <1>3, RollbackTypes DEF TypeOK
<1> QED
  BY <1>2, <1>3, <1>4, RollbackTypes, StepOfRun

LEMMA ReleaseStep ==
  ASSUME IInv, NEW p \in Resets, Release(p)
  PROVE  IInv'
<1>1. p \in Actors
  BY Names
<1>2. TypeOK /\ TypeOK'
  BY <1>1 DEF IInv, TypeOK, Release, Drop, Goto, tables
<1>3. pc'[p] = "idle" /\ \A a \in Actors \ {p} : pc'[a] = pc[a]
  BY <1>1, <1>2 DEF TypeOK, Release, Goto
<1>4. \A q \in Resets \ {p} : (advisory = q => advisory' = q) /\ (q \in lost => q \in lost')
  BY DEF Release, Drop
<1> QED
  BY <1>2, <1>3, <1>4, StepOfRun DEF Release, tables, InTransaction

LEMMA CommandStep ==
  ASSUME IInv, NEW p \in Resets, Start(p) \/ Run(p) \/ Fail(p) \/ Crash(p) \/ Disconnect(p)
  PROVE  IInv'
<1>1. CASE Start(p)
  BY <1>1, StartStep
<1>2. CASE Begin(p)
  BY <1>2, BeginStep
<1>3. CASE DeleteRows(p)
  BY <1>3, DeleteRowsStep
<1>4. CASE DeleteFile(p)
  BY <1>4, DeleteFileStep
<1>5. CASE Commit(p)
  BY <1>5, CommitStep
<1>6. CASE Release(p)
  BY <1>6, ReleaseStep
<1>7. CASE RaiseFlag(p) \/ ListFiles(p) \/ FilesDone(p) \/ Seed(p) \/ Notice(p) \/ LowerFlag(p)
  BY <1>7, QuietStep
<1>8. CASE AbortReset(p)
  <2>1. Holds(p)
    BY <1>8, Holdings DEF AbortReset, Deadlocked, Holds
  <2> QED
    BY <1>8, <2>1, RollbackStep DEF AbortReset
<1>9. CASE Fail(p)
  <2>1. Holds(p)
    BY <1>9, Holdings DEF Fail, Holds
  <2> QED
    BY <1>9, <2>1, RollbackStep DEF Fail
<1>10. CASE Crash(p)
  BY <1>10, RollbackStep DEF Crash
<1>11. CASE Disconnect(p)
  BY <1>11, DisconnectStep
<1> QED
  BY <1>1, <1>2, <1>3, <1>4, <1>5, <1>6, <1>7, <1>8, <1>9, <1>10, <1>11 DEF Run

-----------------------------------------------------------------------------
(* Requests.                                                               *)

\* A request that is answered, its record's lock released or not.
LEMMA AnswerStep ==
  ASSUME IInv, NEW r \in Requests, Answer(r),
         rows' \subseteq Items, uploaded' \subseteq Uploads \intersect rows',
         edited' \in BOOLEAN, files' = files,
         record' = record \/ FreeRecord(r),
         rows' = rows \/ Committable
  PROVE  IInv'
<1>1. r \in Actors /\ TypeOK
  BY Names DEF IInv
<1>2. /\ pc' \in [Actors -> {"idle"} \union ResetStages \union RequestStages]
      /\ pc'[r] = "idle"
      /\ \A a \in Actors \ {r} : pc'[a] = pc[a]
  BY <1>1 DEF TypeOK, Answer, Goto
<1>3. /\ item' \in [Requests -> Items \union {Nobody}]
      /\ \A q \in Requests \ {r} : item'[q] = item[q]
  BY <1>1 DEF TypeOK, Answer
<1>4. stale' \in [Requests -> BOOLEAN]
  BY <1>1 DEF TypeOK, Answer
<1>5. record' \in Actors \union {Nobody}
  BY <1>1 DEF TypeOK, FreeRecord
<1>6. TypeOK'
  BY <1>1, <1>2, <1>3, <1>4, <1>5 DEF TypeOK, Answer
<1> QED
  BY <1>2, <1>3, <1>6, StepOfRequest DEF Answer

LEMMA RaiseStep ==
  ASSUME IInv, NEW r \in Requests, Raise(r)
  PROVE  IInv'
<1>1. TypeOK
  BY DEF IInv
<1> QED
  BY <1>1, AnswerStep DEF Raise, TypeOK, tables

LEMMA AcceptStep ==
  ASSUME IInv, NEW r \in Requests, NEW i \in Items \union {Nobody},
         NEW s \in {"create", "save", "lock"}, Accept(r, i, s),
         s = "create" => i \in Items, s = "save" => i \in Uploads
  PROVE  IInv'
<1>1. r \in Actors /\ TypeOK
  BY Names DEF IInv
<1>2. /\ pc' \in [Actors -> {"idle"} \union ResetStages \union RequestStages]
      /\ pc'[r] = s
      /\ \A a \in Actors \ {r} : pc'[a] = pc[a]
  BY <1>1 DEF TypeOK, Accept, Goto, RequestStages
<1>3. /\ item' \in [Requests -> Items \union {Nobody}]
      /\ item'[r] = i
      /\ \A q \in Requests \ {r} : item'[q] = item[q]
  BY <1>1 DEF TypeOK, Accept
<1>4. stale' \in [Requests -> BOOLEAN]
  BY <1>1 DEF TypeOK, Accept
<1>5. TypeOK'
  BY <1>1, <1>2, <1>3, <1>4 DEF TypeOK, Accept, tables, locks
<1> QED
  BY <1>2, <1>3, <1>5, StepOfRequest DEF Accept, tables, locks

LEMMA SubmitStep ==
  ASSUME IInv, NEW r \in Requests, Submit(r)
  PROVE  IInv'
<1>1. CASE SubmitCreate(r)
  <2>1. PICK i \in Items : Accept(r, i, "create")
    BY <1>1 DEF SubmitCreate
  <2> QED
    BY <2>1, AcceptStep
<1>2. CASE SubmitUpload(r)
  <2>1. PICK i \in Uploads : Accept(r, i, "save")
    BY <1>2 DEF SubmitUpload
  <2> QED
    BY <2>1, AcceptStep DEF Items
<1>3. CASE SubmitEdit(r)
  BY <1>3, AcceptStep DEF SubmitEdit
<1> QED
  BY <1>1, <1>2, <1>3 DEF Submit

LEMMA SaveStep ==
  ASSUME IInv, NEW r \in Requests, Save(r)
  PROVE  IInv'
<1>1. r \in Actors /\ TypeOK /\ item[r] \in Uploads
  BY Names DEF IInv, ItemsMatchStages, Save
<1>2. /\ pc' \in [Actors -> {"idle"} \union ResetStages \union RequestStages]
      /\ pc'[r] = "flip"
      /\ \A a \in Actors \ {r} : pc'[a] = pc[a]
  BY <1>1 DEF TypeOK, Save, Goto, RequestStages
<1>3. TypeOK'
  BY <1>1, <1>2 DEF TypeOK, Save, tables, locks
<1> QED
  BY <1>1, <1>2, <1>3, StepOfRequest DEF Save, tables, locks

LEMMA LockRecordStep ==
  ASSUME IInv, NEW r \in Requests, LockRecord(r)
  PROVE  IInv'
<1>1. CASE stale[r]
  BY <1>1, RaiseStep DEF LockRecord
<1>2. CASE ~stale[r]
  <2>1. r \in Actors /\ TypeOK
    BY Names DEF IInv
  <2>2. /\ pc' \in [Actors -> {"idle"} \union ResetStages \union RequestStages]
        /\ pc'[r] = "edit"
        /\ \A a \in Actors \ {r} : pc'[a] = pc[a]
    BY <1>2, <2>1 DEF TypeOK, LockRecord, Goto, RequestStages
  <2>3. TypeOK'
    BY <1>2, <2>1, <2>2 DEF TypeOK, LockRecord, tables
  <2> QED
    BY <1>2, <2>1, <2>2, <2>3, StepOfRequest DEF LockRecord, tables
<1> QED
  BY <1>1, <1>2

LEMMA ServeStep ==
  ASSUME IInv, NEW r \in Requests, Serve(r)
  PROVE  IInv'
<1>1. TypeOK /\ ItemsMatchStages
  BY DEF IInv
<1>2. CASE CommitCreate(r)
  <2>1. item[r] \in Items
    BY <1>1, <1>2 DEF ItemsMatchStages, CommitCreate
  <2>2. Raise(r) \/ (rows' = rows \union {item[r]} /\ Answer(r) /\ UNCHANGED <<uploaded, edited, files, record>>)
    BY <1>2 DEF CommitCreate
  <2> QED
    BY <1>1, <1>2, <2>1, <2>2, RaiseStep, AnswerStep DEF CommitCreate, TypeOK
<1>3. CASE Save(r)
  BY <1>3, SaveStep
<1>4. CASE Flip(r)
  <2>1. item[r] \in Uploads
    BY <1>1, <1>4 DEF ItemsMatchStages, Flip
  <2> QED
    BY <1>1, <1>4, <2>1, RaiseStep, AnswerStep DEF Flip, RowIsThere, TypeOK
<1>5. CASE LockRecord(r)
  BY <1>5, LockRecordStep
<1>6. CASE CommitEdit(r)
  BY <1>1, <1>6, AnswerStep DEF CommitEdit, EndChange, TypeOK
<1>7. CASE AbortRequest(r)
  BY <1>7, RaiseStep DEF AbortRequest
<1> QED
  BY <1>2, <1>3, <1>4, <1>5, <1>6, <1>7 DEF Serve

-----------------------------------------------------------------------------
(* The theorems.                                                           *)

LEMMA InitHolds == Init => IInv
<1> SUFFICES ASSUME Init PROVE IInv
  OBVIOUS
<1>1. \A a \in Actors : pc[a] = "idle"
  BY DEF Init
<1>2. TypeOK
  BY DEF Init, TypeOK
<1> QED
  BY <1>1, <1>2, Names
  DEF IInv, ItemsMatchStages, AdvisoryIsHeld, OrganizationIsHeld, AllIsRemoved, InTransaction

LEMMA NextHolds == IInv /\ [Next]_vars => IInv'
<1> SUFFICES ASSUME IInv, [Next]_vars PROVE IInv'
  OBVIOUS
<1>1. CASE \E p \in Resets : Start(p) \/ Run(p) \/ Fail(p) \/ Crash(p) \/ Disconnect(p)
  BY <1>1, CommandStep
<1>2. CASE \E r \in Requests : Submit(r) \/ Serve(r)
  BY <1>2, SubmitStep, ServeStep
<1>3. CASE Expire
  BY <1>3 DEF Expire, IInv, TypeOK, ItemsMatchStages, AdvisoryIsHeld, OrganizationIsHeld,
              AllIsRemoved, tables, locks, locals
<1>4. CASE UNCHANGED vars
  BY <1>4 DEF vars, IInv, TypeOK, ItemsMatchStages, AdvisoryIsHeld, OrganizationIsHeld,
              AllIsRemoved, tables, locks, locals
<1> QED
  BY <1>1, <1>2, <1>3, <1>4 DEF Next

\* A run that has its session has its locks, requests are about what their
\* calls are about, and nothing is added behind a deletion.
THEOREM InvariantHolds == Spec => []IInv
  BY InitHolds, NextHolds, PTL DEF Spec

\* pg_try_advisory_lock keeps the runs apart: of any number of them, whatever
\* becomes of each, one at a time is between its guards and its commit and
\* still has the session in which it took the lock.
THEOREM ResetsAreOne == Spec => []OneResetAtATime
<1>1. IInv => OneResetAtATime
  BY DEF IInv, AdvisoryIsHeld, OneResetAtATime, InTransaction
<1> QED
  BY <1>1, InvariantHolds, PTL

\* The flag that a run has raised stays up until its transaction has ended:
\* only a run that has lost its connection can lower it before, or its expiry.
THEOREM FlagStays == Spec => FlagStaysUp
<1>1. IInv /\ [Next]_vars =>
        [\A p \in Resets \ lost :
           pc[p] \in InTransaction /\ flag /\ ~flag' =>
             Expire \/ \E q \in lost : LowerFlag(q)]_vars
  <2> SUFFICES ASSUME IInv, Next, NEW p \in Resets \ lost, pc[p] \in InTransaction,
                      flag, ~flag'
               PROVE  Expire \/ \E q \in lost : LowerFlag(q)
    OBVIOUS
  <2>1. CASE \E q \in Resets : LowerFlag(q)
    <3>1. PICK q \in Resets : LowerFlag(q)
      BY <2>1
    <3>2. q # p /\ pc[q] # "idle" /\ pc[p] # "idle"
      BY <3>1 DEF LowerFlag, InTransaction
    <3>3. q \in lost
      BY <3>2 DEF IInv, AdvisoryIsHeld
    <3> QED
      BY <3>1, <3>3
  <2>2. CASE Expire
    BY <2>2
  <2>3. CASE \E r \in Requests : Submit(r) \/ Serve(r)
    BY <2>3 DEF Submit, SubmitCreate, SubmitUpload, SubmitEdit, Accept, Serve, CommitCreate,
                Save, Flip, LockRecord, CommitEdit, AbortRequest, Raise, Answer
  <2>4. CASE \E q \in Resets : ~LowerFlag(q) /\ (Start(q) \/ Run(q) \/ Fail(q) \/ Crash(q) \/ Disconnect(q))
    BY <2>4 DEF Start, Run, RaiseFlag, Begin, ListFiles, DeleteFile, FilesDone, DeleteRows, Seed,
                Commit, Notice, Release, AbortReset, Fail, Crash, Disconnect, Unwind
  <2> QED
    BY <2>1, <2>2, <2>3, <2>4 DEF Next
<1> QED
  BY <1>1, InvariantHolds, PTL DEF Spec, FlagStaysUp

\* A reset that commits leaves the canonical content and nothing else,
\* whatever the visitors have under way.
THEOREM CommitsAreCanonical == Spec => CanonicalAtCommit
<1>1. IInv /\ [Next]_vars =>
        [\A p \in Resets : Commit(p) => rows' = {} /\ uploaded' = {} /\ ~edited']_vars
  BY CommitStep
<1> QED
  BY <1>1, InvariantHolds, PTL DEF Spec, CanonicalAtCommit
=============================================================================
