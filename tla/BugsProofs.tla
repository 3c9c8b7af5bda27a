------------------------------ MODULE BugsProofs ------------------------------
(***************************************************************************)
(* Theorems about Bugs, for any number of bugs, users and requests, any    *)
(* set of calls and any transition matrix.                                 *)
(***************************************************************************)
EXTENDS Bugs, TLAPS

\* BugLifecycle has the same vocabulary.
LEMMA SameVocabulary ==
  /\ Lifecycle!Statuses = Statuses
  /\ Lifecycle!AssigneeRequiredStatuses = AssigneeRequiredStatuses
BY DEF Lifecycle!Statuses, Statuses, Lifecycle!OpenStatuses, OpenStatuses,
       Lifecycle!TerminalStatuses, TerminalStatuses,
       Lifecycle!ResolutionStatuses, ResolutionStatuses,
       Lifecycle!AssigneeRequiredStatuses, AssigneeRequiredStatuses

\* What a call of each kind carries.
LEMMA CallTypes ==
  ASSUME NEW c \in Calls
  PROVE  /\ c.op # "none" /\ c.user \in Users /\ c.bug \in Bugs
         /\ c.op = "update_bug" => c.field \in StaffEditableFields /\ c.value \in Nat
         /\ c.op = "transition_bug" =>
              /\ c.status \in Statuses
              /\ c.other \in Bugs \union {NoBug}
              /\ c.assignee \in Users \union {NoUser, Unset}
         /\ c.op = "assign_bug" => c.assignee \in Users \union {NoUser}
         /\ c.op \in {"add_tag", "remove_tag"} => c.tag \in Nat
         /\ c.op = "create_relationship" =>
              c.other \in Bugs /\ c.type \in RelationshipTypes
         /\ c.op = "remove_relationship" => c.row \in Rows
<1>1. c \in ServiceCalls
  BY CallsAssumption
<1>2. CASE c \in UpdateCalls
  BY <1>2 DEF UpdateCalls
<1>3. CASE c \in TransitionCalls
  BY <1>3 DEF TransitionCalls
<1>4. CASE c \in AssignCalls
  BY <1>4 DEF AssignCalls
<1>5. CASE c \in ArchiveCalls
  BY <1>5 DEF ArchiveCalls
<1>6. CASE c \in TagCalls
  BY <1>6 DEF TagCalls
<1>7. CASE c \in CreateRelationshipCalls
  BY <1>7 DEF CreateRelationshipCalls
<1>8. CASE c \in RemoveRelationshipCalls
  BY <1>8 DEF RemoveRelationshipCalls
<1> QED BY <1>1, <1>2, <1>3, <1>4, <1>5, <1>6, <1>7, <1>8 DEF ServiceCalls

\* A row that stays the same keeps every decision taken on it.
LEMMA PermittedKept ==
  ASSUME NEW r \in Requests, call'[r] = call[r], fetched'[r] = fetched[r],
         status'[call[r].bug] = status[call[r].bug],
         assignee'[call[r].bug] = assignee[call[r].bug],
         Permitted(call[r], fetched[r].role)
  PROVE  Permitted(call[r], fetched[r].role)'
BY DEF Permitted, EffectiveAssignee

\* The part of the invariant about requests, without the types.
RInv == StagesMatchCalls /\ LocksMatchStages /\ ChecksStillHold /\ VersionIdentifiesRow

RowKept(b) ==
  /\ status'[b] = status[b] /\ assignee'[b] = assignee[b] /\ archived'[b] = archived[b]
  /\ content'[b] = content[b] /\ tags'[b] = tags[b] /\ version'[b] = version[b]

\* Everything a request is made of, for a request that does not move.
RequestKept(q) ==
  pc'[q] = pc[q] /\ call'[q] = call[q] /\ fetched'[q] = fetched[q]

(***************************************************************************)
(* The heart of the argument.  A step leaves request q where it is; every  *)
(* row either stays as it is or, unless q has it locked, gets a version it *)
(* never had; and q keeps its lock.  Then what q knows is still true.      *)
(***************************************************************************)
LEMMA OthersKept ==
  ASSUME TypeOK, RInv, NEW q \in Requests, RequestKept(q),
         \A b \in Bugs : RowKept(b) \/ (holder[b] # q /\ version'[b] = version[b] + 1),
         \A b \in Bugs : holder[b] = q => holder'[b] = q
  PROVE  /\ pc'[q] # "idle" =>
              /\ call'[q] \in Calls
              /\ fetched'[q] \in FetchType
              /\ fetched'[q].version <= version'[call'[q].bug]
         /\ pc'[q] # "idle" /\ fetched'[q].version = version'[call'[q].bug]
              => (fetched[q].row = Row(call[q].bug))'
         /\ pc'[q] \in Holding =>
              /\ holder'[call'[q].bug] = q
              /\ version'[call'[q].bug] = fetched'[q].version
              /\ archived'[call'[q].bug] <=> call'[q].op = "restore_bug"
              /\ Permitted(call[q], fetched[q].role)'
<1> USE DEF RequestKept, RInv
<1>1. CASE pc[q] = "idle"
  BY <1>1 DEF Holding
<1>2. CASE pc[q] # "idle"
  <2> DEFINE b == call[q].bug
  <2>1. b \in Bugs /\ call[q] \in Calls /\ fetched[q] \in FetchType
        /\ fetched[q].version <= version[b] /\ version[b] \in Nat /\ fetched[q].version \in Nat
    BY <1>2, CallTypes DEF StagesMatchCalls, FetchType, TypeOK, Lifecycle!TypeOK
  <2>2. CASE RowKept(b)
    <3>1. Row(b)' = Row(b)
      BY <2>2 DEF RowKept, Row
    <3>2. (fetched[q].row = Row(call[q].bug))' <=> fetched[q].row = Row(b)
      BY <2>2 DEF RowKept, Row
    <3>3. pc[q] \in Holding => Permitted(call[q], fetched[q].role)'
      BY <2>2, PermittedKept DEF RowKept, ChecksStillHold
    <3> QED BY <1>2, <2>1, <2>2, <3>2, <3>3
            DEF RowKept, StagesMatchCalls, VersionIdentifiesRow, ChecksStillHold, LocksMatchStages
  <2>3. CASE ~RowKept(b)
    <3>1. holder[b] # q /\ version'[b] = version[b] + 1
      BY <2>1, <2>3
    <3>2. pc[q] \notin Holding
      BY <3>1 DEF LocksMatchStages
    <3> QED BY <1>2, <2>1, <3>1, <3>2
  <2> QED BY <2>2, <2>3
<1> QED BY <1>1, <1>2

LEMMA AnswerType ==
  ASSUME TypeOK, NEW r \in Requests, Answer(r)
  PROVE  /\ holder' \in [Bugs -> Requests \union {NoRequest}]
         /\ pc' \in [Requests -> Stages]
         /\ call' \in [Requests -> Calls \union {NoCall}]
         /\ fetched' \in [Requests -> FetchType \union {NoFetch}]
         /\ walk' \in [Requests -> [at : Bugs \union {NoBug}, hops : 0..MaxChainDepth]]
         /\ found' \in [Requests -> BOOLEAN]
         /\ pc'[r] = "idle"
         /\ \A q \in Requests \ {r} : RequestKept(q)
         /\ \A b \in Bugs : holder'[b] = IF holder[b] = r THEN NoRequest ELSE holder[b]
<1>1. NoWalk \in [at : Bugs \union {NoBug}, hops : 0..MaxChainDepth]
  BY BoundsAssumption DEF NoWalk
<1> QED BY <1>1 DEF Answer, TypeOK, Stages, RequestKept

\* A request that ends, having changed nothing but rows it had locked.
LEMMA AnswerKept ==
  ASSUME TypeOK, RInv, NEW r \in Requests, Answer(r),
         \A b \in Bugs : RowKept(b) \/ (holder[b] = r /\ version'[b] = version[b] + 1)
  PROVE  RInv'
<1> USE AnswerType
<1>1. ASSUME NEW q \in Requests \ {r}
      PROVE  /\ RequestKept(q)
             /\ \A b \in Bugs : RowKept(b) \/ (holder[b] # q /\ version'[b] = version[b] + 1)
             /\ \A b \in Bugs : holder[b] = q => holder'[b] = q
  OBVIOUS
<1>2. StagesMatchCalls'
  BY <1>1, OthersKept DEF StagesMatchCalls, RequestKept, RInv, SuppliesAssignee, MarksDuplicate
<1>3. LocksMatchStages'
  <2>1. ASSUME NEW q \in Requests, pc'[q] \in Holding PROVE holder'[call'[q].bug] = q
    BY <2>1, <1>1, OthersKept DEF Holding
  <2>2. ASSUME NEW b \in Bugs, holder'[b] # NoRequest
        PROVE  pc'[holder'[b]] \in Holding /\ call'[holder'[b]].bug = b
    <3>1. holder'[b] = holder[b] /\ holder[b] \in Requests \ {r}
      BY <2>2 DEF TypeOK
    <3> QED BY <3>1, <1>1, RequestsAssumption DEF RequestKept, RInv, LocksMatchStages
  <2> QED BY <2>1, <2>2 DEF LocksMatchStages
<1>4. ChecksStillHold'
  BY <1>1, OthersKept DEF ChecksStillHold, Holding
<1>5. VersionIdentifiesRow'
  BY <1>1, OthersKept DEF VersionIdentifiesRow
<1> QED BY <1>2, <1>3, <1>4, <1>5 DEF RInv

\* A request that goes on to its next stage under the lock.
LEMMA AdvanceKept ==
  ASSUME TypeOK, RInv, NEW r \in Requests, NEW stage \in Holding,
         pc[r] \in Holding, Goto(r, stage),
         UNCHANGED <<rowVars, sideVars, holder, call, fetched>>,
         stage = "assignee" => SuppliesAssignee(call[r]),
         stage \in {"target", "walk"} => MarksDuplicate(call[r]),
         stage = "row" => MarksDuplicate(call[r]) \/ call[r].op = "remove_relationship"
  PROVE  RInv' /\ pc' \in [Requests -> Stages]
<1> USE DEF Goto, TypeOK
<1>0. pc' \in [Requests -> Stages] /\ "idle" \notin Holding
  BY DEF Holding, Stages
<1>1. StagesMatchCalls'
  BY <1>0 DEF RInv, StagesMatchCalls, rowVars, SuppliesAssignee, MarksDuplicate
<1>2. LocksMatchStages'
  BY RequestsAssumption DEF RInv, LocksMatchStages
<1>3. ChecksStillHold'
  <2> SUFFICES ASSUME NEW q \in Requests, pc'[q] \in Holding
               PROVE  /\ version'[call'[q].bug] = fetched'[q].version
                      /\ archived'[call'[q].bug] <=> call'[q].op = "restore_bug"
                      /\ Permitted(call[q], fetched[q].role)'
    BY DEF ChecksStillHold
  <2>1. pc[q] \in Holding
    OBVIOUS
  <2> QED BY <2>1, PermittedKept DEF RInv, ChecksStillHold, rowVars
<1>4. VersionIdentifiesRow'
  BY <1>0 DEF RInv, VersionIdentifiesRow, Row, rowVars, sideVars
<1> QED BY <1>0, <1>1, <1>2, <1>3, <1>4 DEF RInv

-----------------------------------------------------------------------------
(* One lemma per step of a request.                                        *)

\* What is known of a request about to commit.
LEMMA AtCommit ==
  ASSUME IInv, NEW r \in Requests, pc[r] \in Holding
  PROVE  /\ TypeOK /\ RInv /\ FeedReplays
         /\ call[r] \in Calls /\ call[r].bug \in Bugs
         /\ holder[call[r].bug] = r
         /\ archived[call[r].bug] <=> call[r].op = "restore_bug"
         /\ Permitted(call[r], fetched[r].role)
         /\ fetched[r].row = Row(call[r].bug)
<1>1. pc[r] # "idle"
  BY DEF Holding
<1>2. call[r] \in Calls /\ call[r].bug \in Bugs
  BY <1>1, CallTypes DEF IInv, StagesMatchCalls
<1> QED BY <1>1, <1>2 DEF IInv, RInv, LocksMatchStages, ChecksStillHold, VersionIdentifiesRow

LEMMA CommitUpdateKeeps ==
  ASSUME IInv, NEW r \in Requests, CommitUpdate(r)
  PROVE  IInv'
<1> DEFINE c == call[r]
<1>1. pc[r] \in Holding /\ c.op = "update_bug"
  BY DEF CommitUpdate, CanCommit, Holding
<1>2. TypeOK /\ RInv /\ FeedReplays /\ c \in Calls /\ c.bug \in Bugs /\ holder[c.bug] = r
  BY <1>1, AtCommit
<1>3. TypeOK'
  <2>1. c.field \in StaffEditableFields /\ c.value \in Nat
    BY <1>1, <1>2, CallTypes
  <2>2. content' \in [Bugs -> [StaffEditableFields -> Nat]]
    BY <1>2, <2>1 DEF CommitUpdate, TypeOK
  <2> QED BY <1>2, <2>2, AnswerType DEF CommitUpdate, TypeOK, Lifecycle!TypeOK, Bump, orgVars
<1>4. RInv'
  BY <1>2, AnswerKept DEF CommitUpdate, RowKept, Bump, TypeOK, Lifecycle!TypeOK
<1>5. FeedReplays'
  BY <1>2 DEF CommitUpdate, FeedReplays
<1> QED BY <1>3, <1>4, <1>5 DEF IInv, RInv

LEMMA CommitTransitionKeeps ==
  ASSUME IInv, NEW r \in Requests, CommitTransition(r)
  PROVE  IInv'
<1> DEFINE c == call[r]
           a == EffectiveAssignee(c)
<1>1. pc[r] \in Holding /\ c.op = "transition_bug"
  BY DEF CommitTransition, CanCommit, Holding
<1>2. /\ TypeOK /\ RInv /\ FeedReplays /\ c \in Calls /\ c.bug \in Bugs
      /\ holder[c.bug] = r /\ Permitted(c, fetched[r].role)
  BY <1>1, AtCommit
<1>3. a \in Users \union {NoUser} /\ c.status \in Statuses
  BY <1>1, <1>2, CallTypes DEF EffectiveAssignee, TypeOK, Lifecycle!TypeOK
<1>4. rels' \subseteq Rows
  <2>1. CASE Inserts(r)
    <3>1. c.other \in Bugs
      BY <1>1, <1>2, <2>1, CallTypes DEF Inserts, MarksDuplicate, Permitted
    <3>2. RowOf(c) \in Rows
      BY <1>1, <1>2, <3>1 DEF RowOf, Rows, RelationshipTypes
    <3> QED BY <1>2, <2>1, <3>2 DEF CommitTransition, TypeOK
  <2>2. CASE ~Inserts(r)
    BY <1>2, <2>2 DEF CommitTransition, TypeOK
  <2> QED BY <2>1, <2>2
<1>5. TypeOK'
  <2>1. ResolvedAtAfter(c.status, resolvedAt[c.bug]) \in BOOLEAN
        /\ ClosedAtAfter(c.status, closedAt[c.bug]) \in BOOLEAN
    BY DEF ResolvedAtAfter, ClosedAtAfter
  <2>2. resolvedAt' \in [Bugs -> BOOLEAN] /\ closedAt' \in [Bugs -> BOOLEAN]
    BY <1>2, <2>1 DEF CommitTransition, TypeOK, Lifecycle!TypeOK
  <2>3. status' \in [Bugs -> Statuses] /\ assignee' \in [Bugs -> Users \union {NoUser}]
        /\ version' \in [Bugs -> Nat]
    <3>1. /\ status' = [status EXCEPT ![c.bug] = c.status]
          /\ assignee' = [assignee EXCEPT ![c.bug] = a]
          /\ version' = [version EXCEPT ![c.bug] = @ + 1]
      BY DEF CommitTransition, Bump
    <3> HIDE DEF a
    <3> QED BY <1>2, <1>3, <3>1, SameVocabulary DEF TypeOK, Lifecycle!TypeOK
  <2>4. feed' \in [Bugs -> [status : Statuses, assignee : Users \union {NoUser}]]
    <3>1. feed'[c.bug].status = c.status
          /\ feed'[c.bug].assignee \in {a, feed[c.bug].assignee}
      BY <1>2 DEF CommitTransition, TypeOK
    <3>2. feed' = [feed EXCEPT ![c.bug] =
                     [status |-> c.status, assignee |-> feed'[c.bug].assignee]]
      BY <1>2 DEF CommitTransition, TypeOK
    <3> HIDE DEF a
    <3>3. feed'[c.bug].assignee \in Users \union {NoUser}
      BY <1>2, <1>3, <3>1 DEF TypeOK
    <3>4. [status |-> c.status, assignee |-> feed'[c.bug].assignee]
            \in [status : Statuses, assignee : Users \union {NoUser}]
      BY <1>3, <3>3
    <3> QED BY <1>2, <3>2, <3>4 DEF TypeOK
  <2> QED BY <1>2, <1>4, <2>2, <2>3, <2>4, AnswerType, SameVocabulary
          DEF CommitTransition, TypeOK, Lifecycle!TypeOK, orgVars
<1>6. RInv'
  <2>1. Answer(r)
    BY DEF CommitTransition
  <2>2. \A b \in Bugs : RowKept(b) \/ (holder[b] = r /\ version'[b] = version[b] + 1)
    BY <1>2 DEF CommitTransition, RowKept, Bump, TypeOK, Lifecycle!TypeOK
  <2> QED BY <1>2, <2>1, <2>2, AnswerKept
<1>7. FeedReplays'
  <2> SUFFICES ASSUME NEW b \in Bugs
               PROVE  feed'[b] = [status |-> status'[b], assignee |-> assignee'[b]]
    BY DEF FeedReplays
  <2>1. feed[b] = [status |-> status[b], assignee |-> assignee[b]]
    BY <1>2 DEF FeedReplays
  <2> QED BY <1>2, <2>1 DEF CommitTransition, TypeOK, Lifecycle!TypeOK
<1> QED BY <1>5, <1>6, <1>7 DEF IInv, RInv

LEMMA CommitAssignKeeps ==
  ASSUME IInv, NEW r \in Requests, CommitAssign(r)
  PROVE  IInv'
<1> DEFINE c == call[r]
<1>1. pc[r] \in Holding /\ c.op = "assign_bug"
  BY DEF CommitAssign, CanCommit, Holding
<1>2. TypeOK /\ RInv /\ FeedReplays /\ c \in Calls /\ c.bug \in Bugs /\ holder[c.bug] = r
  BY <1>1, AtCommit
<1>3. c.assignee \in Users \union {NoUser}
  BY <1>1, <1>2, CallTypes
<1>4. TypeOK'
  <2>1. assignee' \in [Bugs -> Users \union {NoUser}] /\ version' \in [Bugs -> Nat]
    BY <1>2, <1>3 DEF CommitAssign, TypeOK, Lifecycle!TypeOK, Bump
  <2>2. feed' \in [Bugs -> [status : Statuses, assignee : Users \union {NoUser}]]
    BY <1>2, <1>3 DEF CommitAssign, TypeOK
  <2> QED BY <1>2, <2>1, <2>2, AnswerType DEF CommitAssign, TypeOK, Lifecycle!TypeOK, orgVars
<1>5. RInv'
  <2>1. \A b \in Bugs : RowKept(b) \/ (holder[b] = r /\ version'[b] = version[b] + 1)
    BY <1>2 DEF CommitAssign, RowKept, Bump, TypeOK, Lifecycle!TypeOK
  <2> QED BY <1>2, <2>1, AnswerKept DEF CommitAssign
<1>6. FeedReplays'
  <2> SUFFICES ASSUME NEW b \in Bugs
               PROVE  feed'[b] = [status |-> status'[b], assignee |-> assignee'[b]]
    BY DEF FeedReplays
  <2>1. feed[b] = [status |-> status[b], assignee |-> assignee[b]]
    BY <1>2 DEF FeedReplays
  <2>2. CASE b = c.bug
    <3>1. feed'[b] = [feed[b] EXCEPT !.assignee = c.assignee]
      BY <1>2, <2>2 DEF CommitAssign, TypeOK
    <3> QED BY <1>2, <2>1, <2>2, <3>1 DEF CommitAssign, TypeOK, Lifecycle!TypeOK
  <2>3. CASE b # c.bug
    BY <1>2, <2>1, <2>3 DEF CommitAssign, TypeOK, Lifecycle!TypeOK
  <2> QED BY <2>2, <2>3
<1> QED BY <1>4, <1>5, <1>6 DEF IInv, RInv

LEMMA CommitArchiveKeeps ==
  ASSUME IInv, NEW r \in Requests, CommitArchive(r)
  PROVE  IInv'
<1> DEFINE c == call[r]
<1>1. pc[r] \in Holding
  BY DEF CommitArchive, CanCommit, Holding
<1>2. TypeOK /\ RInv /\ FeedReplays /\ c \in Calls /\ c.bug \in Bugs /\ holder[c.bug] = r
  BY <1>1, AtCommit
<1>3. TypeOK'
  BY <1>2, AnswerType DEF CommitArchive, TypeOK, Lifecycle!TypeOK, Bump, sideVars, orgVars
<1>4. RInv'
  <2>1. \A b \in Bugs : RowKept(b) \/ (holder[b] = r /\ version'[b] = version[b] + 1)
    BY <1>2 DEF CommitArchive, RowKept, Bump, TypeOK, Lifecycle!TypeOK, sideVars
  <2> QED BY <1>2, <2>1, AnswerKept DEF CommitArchive
<1>5. FeedReplays'
  BY <1>2 DEF CommitArchive, FeedReplays, sideVars
<1> QED BY <1>3, <1>4, <1>5 DEF IInv, RInv

LEMMA CommitTagsKeeps ==
  ASSUME IInv, NEW r \in Requests, CommitTags(r)
  PROVE  IInv'
<1> DEFINE c == call[r]
<1>1. pc[r] \in Holding /\ c.op \in {"add_tag", "remove_tag"}
  BY DEF CommitTags, CanCommit, Holding
<1>2. TypeOK /\ RInv /\ FeedReplays /\ c \in Calls /\ c.bug \in Bugs /\ holder[c.bug] = r
  BY <1>1, AtCommit
<1>3. TypeOK'
  <2>1. c.tag \in Nat
    BY <1>1, <1>2, CallTypes
  <2>2. tags' \in [Bugs -> SUBSET Nat]
    BY <1>2, <2>1 DEF CommitTags, TypeOK
  <2> QED BY <1>2, <2>2, AnswerType DEF CommitTags, TypeOK, Lifecycle!TypeOK, Bump, orgVars
<1>4. RInv'
  <2>1. \A b \in Bugs : RowKept(b) \/ (holder[b] = r /\ version'[b] = version[b] + 1)
    BY <1>2 DEF CommitTags, RowKept, Bump, TypeOK, Lifecycle!TypeOK
  <2> QED BY <1>2, <2>1, AnswerKept DEF CommitTags
<1>5. FeedReplays'
  BY <1>2 DEF CommitTags, FeedReplays
<1> QED BY <1>3, <1>4, <1>5 DEF IInv, RInv

LEMMA CommitRelationshipKeeps ==
  ASSUME IInv, NEW r \in Requests, CommitRelationship(r)
  PROVE  IInv'
<1> DEFINE c == call[r]
<1>1. pc[r] \in Holding /\ c.op \in {"create_relationship", "remove_relationship"}
  BY DEF CommitRelationship, CanCommit, Holding
<1>2. TypeOK /\ RInv /\ FeedReplays /\ c \in Calls /\ c.bug \in Bugs /\ holder[c.bug] = r
  BY <1>1, AtCommit
<1>3. TypeOK'
  <2>1. c.op = "create_relationship" => RowOf(c) \in Rows
    BY <1>2, CallTypes DEF RowOf, Rows
  <2>2. rels' \subseteq Rows
    BY <1>2, <2>1 DEF CommitRelationship, CanCommit, TypeOK
  <2> QED BY <1>2, <2>2, AnswerType DEF CommitRelationship, TypeOK, Lifecycle!TypeOK, Bump, orgVars
<1>4. RInv'
  <2>1. \A b \in Bugs : RowKept(b) \/ (holder[b] = r /\ version'[b] = version[b] + 1)
    BY <1>2 DEF CommitRelationship, RowKept, Bump, TypeOK, Lifecycle!TypeOK
  <2> QED BY <1>2, <2>1, AnswerKept DEF CommitRelationship
<1>5. FeedReplays'
  BY <1>2 DEF CommitRelationship, FeedReplays
<1> QED BY <1>3, <1>4, <1>5 DEF IInv, RInv

\* Every answer without a commit.
LEMMA RaiseKeeps ==
  ASSUME IInv, NEW r \in Requests, Raise(r)
  PROVE  IInv'
<1>1. TypeOK /\ RInv /\ FeedReplays
  BY DEF IInv, RInv
<1>2. TypeOK'
  BY <1>1, AnswerType DEF Raise, TypeOK, Lifecycle!TypeOK, rowVars, sideVars, orgVars
<1>3. RInv'
  <2>1. \A b \in Bugs : RowKept(b)
    BY DEF Raise, RowKept, rowVars, sideVars
  <2> QED BY <1>1, <2>1, AnswerKept DEF Raise
<1>4. FeedReplays'
  BY <1>1 DEF Raise, FeedReplays, rowVars, sideVars
<1> QED BY <1>2, <1>3, <1>4 DEF IInv, RInv

\* The stages under the lock.
LEMMA LookupsKeep ==
  ASSUME IInv, NEW r \in Requests,
         \/ ResolveAssignee(r) \/ FindTarget(r) \/ WalkEnds(r) \/ FindRow(r)
  PROVE  IInv'
<1> DEFINE stage == pc'[r]
<1>1. TypeOK /\ RInv /\ FeedReplays /\ pc \in [Requests -> Stages]
  BY DEF IInv, RInv, TypeOK
<1>2. /\ pc[r] \in Holding
      /\ \E st \in Holding : Goto(r, st)
      /\ UNCHANGED <<rowVars, sideVars, orgVars, holder, call, fetched>>
  BY DEF ResolveAssignee, FindTarget, WalkEnds, FindRow, AfterAssignee, Holding
<1>3. stage \in Holding /\ Goto(r, stage)
  BY <1>1, <1>2 DEF Goto
<1>4. /\ stage # "assignee"
      /\ stage \in {"target", "walk"} => MarksDuplicate(call[r])
      /\ stage = "row" => MarksDuplicate(call[r])
  BY <1>1 DEF ResolveAssignee, FindTarget, WalkEnds, FindRow, AfterAssignee, Goto, RInv,
              StagesMatchCalls
<1>5. RInv' /\ pc' \in [Requests -> Stages]
  <2> HIDE DEF stage
  <2> QED BY <1>1, <1>2, <1>3, <1>4, AdvanceKept
<1>6. found' \in [Requests -> BOOLEAN]
  <2>1. CASE FindRow(r)
    <3> DEFINE there == RowOf(call[r]) \in rels
    <3>1. there \in BOOLEAN /\ found' = [found EXCEPT ![r] = there]
      BY <2>1 DEF FindRow
    <3> HIDE DEF there
    <3> QED BY <1>1, <3>1 DEF TypeOK
  <2>2. CASE ~FindRow(r)
    BY <1>1, <2>2 DEF ResolveAssignee, FindTarget, WalkEnds, TypeOK
  <2> QED BY <2>1, <2>2
<1>7. walk' \in [Requests -> [at : Bugs \union {NoBug}, hops : 0..MaxChainDepth]]
  <2>1. CASE FindTarget(r)
    <3>1. call[r] \in Calls /\ call[r].other \in Bugs \union {NoBug}
      BY <1>1, <2>1, CallTypes DEF FindTarget, RInv, StagesMatchCalls, MarksDuplicate
    <3>2. [at |-> call[r].other, hops |-> 0] \in [at : Bugs \union {NoBug}, hops : 0..MaxChainDepth]
      BY <3>1, BoundsAssumption
    <3> QED BY <1>1, <2>1, <3>2 DEF FindTarget, TypeOK
  <2>2. CASE ~FindTarget(r)
    BY <1>1, <2>2 DEF ResolveAssignee, WalkEnds, FindRow, TypeOK
  <2> QED BY <2>1, <2>2
<1>8. TypeOK'
  BY <1>1, <1>2, <1>5, <1>6, <1>7 DEF TypeOK, Lifecycle!TypeOK, rowVars, sideVars, orgVars
<1>9. FeedReplays'
  BY <1>1, <1>2 DEF FeedReplays, rowVars, sideVars
<1> QED BY <1>5, <1>8, <1>9 DEF IInv, RInv

LEMMA WalkOnKeeps ==
  ASSUME IInv, NEW r \in Requests, WalkOn(r)
  PROVE  IInv'
<1>1. TypeOK /\ RInv /\ FeedReplays
  BY DEF IInv, RInv
<1>2. PICK x \in DuplicateOf(walk[r].at) :
        walk' = [walk EXCEPT ![r] = [at |-> x.to, hops |-> @.hops + 1]]
  BY DEF WalkOn
<1>3. [at |-> x.to, hops |-> walk[r].hops + 1]
        \in [at : Bugs \union {NoBug}, hops : 0..MaxChainDepth]
  <2>1. x.to \in Bugs
    BY <1>1, <1>2 DEF DuplicateOf, TypeOK, Rows
  <2>2. walk[r].hops \in 0..MaxChainDepth /\ walk[r].hops < MaxChainDepth
    BY <1>1 DEF WalkOn, TypeOK
  <2> QED BY <2>1, <2>2, BoundsAssumption
<1>4. TypeOK'
  BY <1>1, <1>2, <1>3 DEF WalkOn, TypeOK, Lifecycle!TypeOK, rowVars, sideVars, orgVars
<1>5. RInv' /\ FeedReplays'
  <2>1. Goto(r, "walk") /\ UNCHANGED <<rowVars, sideVars, holder, call, fetched>>
        /\ pc[r] = "walk"
    BY <1>1 DEF WalkOn, Goto, TypeOK
  <2>2. RInv'
    BY <1>1, <2>1, AdvanceKept DEF Holding, RInv, StagesMatchCalls
  <2> QED BY <1>1, <2>1, <2>2 DEF FeedReplays, rowVars, sideVars
<1> QED BY <1>1, <1>4, <1>5 DEF IInv, RInv

\* A new request knows the row as it is.
LEMMA SubmitKeeps ==
  ASSUME IInv, NEW r \in Requests, Submit(r)
  PROVE  IInv'
<1>1. TypeOK /\ RInv /\ FeedReplays
  BY DEF IInv, RInv
<1>2. PICK c \in Calls :
        /\ call' = [call EXCEPT ![r] = c]
        /\ fetched' = [fetched EXCEPT ![r] =
             [version |-> version[c.bug], row |-> Row(c.bug),
              frozen |-> FALSE, role |-> role[c.user]]]
  BY DEF Submit
<1>3. c.bug \in Bugs /\ c.user \in Users
  BY CallTypes
<1>4. [version |-> version[c.bug], row |-> Row(c.bug),
       frozen |-> FALSE, role |-> role[c.user]] \in FetchType
  <2>1. Row(c.bug) \in RowType
    BY <1>1, <1>3, SameVocabulary DEF Row, RowType, TypeOK, Lifecycle!TypeOK
  <2> QED BY <1>1, <1>3, <2>1 DEF FetchType, TypeOK, Lifecycle!TypeOK
<1>5. /\ UNCHANGED <<rowVars, sideVars, orgVars, holder, walk, found>>
      /\ pc[r] = "idle" /\ pc' = [pc EXCEPT ![r] = "select"]
  BY DEF Submit, Goto
<1>6. TypeOK'
  <2> HIDE DEF FetchType
  <2> QED BY <1>1, <1>2, <1>4, <1>5
          DEF TypeOK, Lifecycle!TypeOK, Stages, rowVars, sideVars, orgVars
<1>7. /\ \A q \in Requests \ {r} : RequestKept(q)
      /\ pc'[r] = "select" /\ call'[r] = c /\ fetched'[r] \in FetchType
      /\ fetched'[r].version = version[c.bug] /\ fetched'[r].row = Row(c.bug)
  BY <1>1, <1>2, <1>4, <1>5 DEF RequestKept, TypeOK
<1>8. \A b \in Bugs : RowKept(b) /\ holder'[b] = holder[b]
  BY <1>5 DEF RowKept, rowVars, sideVars
<1>9. StagesMatchCalls'
  <2> DEFINE Fits(q) ==
        /\ pc[q] # "idle" => /\ call[q] \in Calls
                             /\ fetched[q] \in FetchType
                             /\ fetched[q].version <= version[call[q].bug]
        /\ pc[q] = "assignee" => SuppliesAssignee(call[q])
        /\ pc[q] \in {"target", "walk"} => MarksDuplicate(call[q])
        /\ pc[q] = "row" => MarksDuplicate(call[q]) \/ call[q].op = "remove_relationship"
  <2>1. ASSUME NEW q \in Requests \ {r} PROVE Fits(q)'
    BY <1>1, <1>7, <1>8, OthersKept
       DEF StagesMatchCalls, RInv, RequestKept, SuppliesAssignee, MarksDuplicate
  <2>2. Fits(r)'
    BY <1>1, <1>3, <1>7, <1>8 DEF RowKept, TypeOK, Lifecycle!TypeOK
  <2> QED BY <2>1, <2>2 DEF StagesMatchCalls
<1>10. LocksMatchStages'
  <2>1. ASSUME NEW q \in Requests, pc'[q] \in Holding PROVE holder'[call'[q].bug] = q
    BY <2>1, <1>1, <1>7, <1>8, OthersKept DEF Holding
  <2>2. ASSUME NEW b \in Bugs, holder'[b] # NoRequest
        PROVE  pc'[holder'[b]] \in Holding /\ call'[holder'[b]].bug = b
    <3>1. holder'[b] = holder[b] /\ holder[b] \in Requests
      BY <2>2, <1>1, <1>8 DEF TypeOK
    <3>2. pc[holder[b]] \in Holding
      BY <2>2, <1>1, <3>1 DEF RInv, LocksMatchStages
    <3>3. holder[b] # r
      BY <1>5, <3>2 DEF Holding
    <3> QED BY <3>1, <3>3, <2>2, <1>1, <1>7 DEF RequestKept, RInv, LocksMatchStages
  <2> QED BY <2>1, <2>2 DEF LocksMatchStages
<1>11. ChecksStillHold'
  BY <1>1, <1>7, <1>8, OthersKept DEF ChecksStillHold, Holding
<1>12. VersionIdentifiesRow'
  <2>1. Row(c.bug)' = Row(c.bug)
    BY <1>3, <1>8 DEF RowKept, Row
  <2>2. (fetched[r].row = Row(call[r].bug))'
    BY <1>3, <1>7, <1>8 DEF RowKept, Row
  <2> QED BY <1>1, <1>7, <1>8, <2>2, OthersKept DEF VersionIdentifiesRow
<1>13. FeedReplays'
  BY <1>1, <1>5 DEF FeedReplays, rowVars, sideVars
<1> QED BY <1>6, <1>9, <1>10, <1>11, <1>12, <1>13 DEF IInv

\* The project is read before the row is locked.
LEMMA SelectForUpdateKeeps ==
  ASSUME IInv, NEW r \in Requests, SelectForUpdate(r)
  PROVE  IInv'
<1>1. TypeOK /\ RInv /\ FeedReplays
  BY DEF IInv, RInv
<1>2. /\ UNCHANGED <<rowVars, sideVars, orgVars, holder, call, walk, found>>
      /\ pc[r] = "select" /\ pc' = [pc EXCEPT ![r] = "lock"]
      /\ fetched' = [fetched EXCEPT ![r] = [fetched[r] EXCEPT !.frozen = projectArchived]]
  BY <1>1 DEF SelectForUpdate, Goto, TypeOK
<1>3. /\ call[r] \in Calls /\ call[r].bug \in Bugs /\ fetched[r] \in FetchType
      /\ fetched[r].version <= version[call[r].bug]
  BY <1>1, <1>2, CallTypes DEF RInv, StagesMatchCalls
<1>4. /\ fetched'[r] \in FetchType
      /\ fetched'[r].version = fetched[r].version /\ fetched'[r].row = fetched[r].row
  BY <1>1, <1>2, <1>3 DEF FetchType, TypeOK
<1>5. /\ \A q \in Requests \ {r} : RequestKept(q)
      /\ pc'[r] = "lock" /\ call'[r] = call[r]
  BY <1>1, <1>2 DEF RequestKept, TypeOK
<1>6. TypeOK'
  <2>1. fetched' \in [Requests -> FetchType \union {NoFetch}]
    <3> HIDE DEF FetchType
    <3> QED BY <1>1, <1>2, <1>4 DEF TypeOK
  <2> QED BY <1>1, <1>2, <2>1
          DEF TypeOK, Lifecycle!TypeOK, Stages, rowVars, sideVars, orgVars
<1>7. \A q \in Requests : pc'[q] \in Holding => q # r /\ pc[q] \in Holding
  BY <1>5 DEF RequestKept, Holding
<1>8. StagesMatchCalls'
  BY <1>1, <1>2, <1>3, <1>4, <1>5
     DEF RInv, StagesMatchCalls, RequestKept, SuppliesAssignee, MarksDuplicate, rowVars
<1>9. LocksMatchStages'
  <2>1. \A b \in Bugs : holder[b] # r
    BY <1>1, <1>2, RequestsAssumption DEF RInv, LocksMatchStages, Holding
  <2> QED BY <1>1, <1>2, <1>5, <1>7, <2>1 DEF RInv, LocksMatchStages, RequestKept, TypeOK
<1>10. ChecksStillHold'
  <2> SUFFICES ASSUME NEW q \in Requests, pc'[q] \in Holding
               PROVE  /\ version'[call'[q].bug] = fetched'[q].version
                      /\ archived'[call'[q].bug] <=> call'[q].op = "restore_bug"
                      /\ Permitted(call[q], fetched[q].role)'
    BY DEF ChecksStillHold
  <2>1. RequestKept(q) /\ pc[q] \in Holding
    BY <1>5, <1>7
  <2> QED BY <1>1, <1>2, <2>1, PermittedKept DEF RInv, ChecksStillHold, RequestKept, rowVars
<1>11. VersionIdentifiesRow'
  BY <1>1, <1>2, <1>4, <1>5
     DEF RInv, VersionIdentifiesRow, Row, RequestKept, rowVars, sideVars
<1>12. FeedReplays'
  BY <1>1, <1>2 DEF FeedReplays, rowVars, sideVars
<1> QED BY <1>6, <1>8, <1>9, <1>10, <1>11, <1>12 DEF IInv

\* The locking SELECT: what is checked on the locked row becomes what
\* ChecksStillHold says.
LEMMA LockBugKeeps ==
  ASSUME IInv, NEW r \in Requests, LockBug(r)
  PROVE  IInv'
<1> DEFINE b == call[r].bug
<1>1. TypeOK /\ RInv /\ FeedReplays
  BY DEF IInv, RInv
<1>2. /\ pc[r] = "lock" /\ holder[b] = NoRequest
      /\ UNCHANGED <<rowVars, sideVars, orgVars, call, fetched, walk, found>>
      /\ holder' = [holder EXCEPT ![b] = r]
      /\ pc' = [pc EXCEPT ![r] = AfterLock(call[r])]
  BY DEF LockBug, LockIsFree, Goto
<1>3. call[r] \in Calls /\ b \in Bugs
  BY <1>1, <1>2, CallTypes DEF RInv, StagesMatchCalls
<1>4. /\ version[b] = fetched[r].version
      /\ archived[b] <=> call[r].op = "restore_bug"
      /\ Permitted(call[r], fetched[r].role)
  BY DEF LockBug, Accepts
<1>5. /\ AfterLock(call[r]) \in Holding /\ AfterLock(call[r]) \in Stages
      /\ AfterLock(call[r]) = "assignee" => SuppliesAssignee(call[r])
      /\ AfterLock(call[r]) = "target" => MarksDuplicate(call[r])
      /\ AfterLock(call[r]) # "walk"
      /\ AfterLock(call[r]) = "row" => call[r].op = "remove_relationship"
  BY DEF AfterLock, AfterAssignee, Holding, Stages
<1>6. pc'[r] = AfterLock(call[r]) /\ \A q \in Requests \ {r} : RequestKept(q)
  BY <1>1, <1>2 DEF RequestKept, TypeOK
<1>7. \A a \in Bugs : RowKept(a) /\ holder'[a] = IF a = b THEN r ELSE holder[a]
  BY <1>1, <1>2 DEF RowKept, rowVars, sideVars, TypeOK
<1>8. TypeOK'
  BY <1>1, <1>2, <1>3, <1>5 DEF TypeOK, Lifecycle!TypeOK, rowVars, sideVars, orgVars
<1>9. StagesMatchCalls'
  BY <1>1, <1>2, <1>5
     DEF StagesMatchCalls, RInv, rowVars, TypeOK, SuppliesAssignee, MarksDuplicate
<1>10. LocksMatchStages'
  <2>1. ASSUME NEW q \in Requests, pc'[q] \in Holding PROVE holder'[call'[q].bug] = q
    <3>1. CASE q = r
      BY <1>2, <1>3, <1>7, <3>1
    <3>2. CASE q # r
      <4>1. pc[q] \in Holding /\ call'[q] = call[q] /\ holder[call[q].bug] = q
        BY <1>1, <1>6, <2>1, <3>2 DEF RequestKept, RInv, LocksMatchStages
      <4>2. call[q].bug \in Bugs
        BY <1>1, <4>1, CallTypes DEF RInv, StagesMatchCalls, Holding
      <4> QED BY <1>2, <1>7, <4>1, <4>2, RequestsAssumption
    <3> QED BY <3>1, <3>2
  <2>2. ASSUME NEW a \in Bugs, holder'[a] # NoRequest
        PROVE  pc'[holder'[a]] \in Holding /\ call'[holder'[a]].bug = a
    <3>1. CASE a = b
      BY <1>2, <1>5, <1>6, <1>7, <3>1
    <3>2. CASE a # b
      <4>1. holder'[a] = holder[a] /\ holder[a] \in Requests
        BY <1>1, <1>7, <2>2, <3>2 DEF TypeOK
      <4>2. pc[holder[a]] \in Holding /\ call[holder[a]].bug = a
        BY <1>1, <2>2, <4>1 DEF RInv, LocksMatchStages
      <4> QED BY <1>2, <1>6, <4>1, <4>2 DEF RequestKept, Holding
    <3> QED BY <3>1, <3>2
  <2> QED BY <2>1, <2>2 DEF LocksMatchStages
<1>11. ChecksStillHold'
  <2> SUFFICES ASSUME NEW q \in Requests, pc'[q] \in Holding
               PROVE  /\ version'[call'[q].bug] = fetched'[q].version
                      /\ archived'[call'[q].bug] <=> call'[q].op = "restore_bug"
                      /\ Permitted(call[q], fetched[q].role)'
    BY DEF ChecksStillHold
  <2>1. /\ version[call[q].bug] = fetched[q].version
        /\ archived[call[q].bug] <=> call[q].op = "restore_bug"
        /\ Permitted(call[q], fetched[q].role)
    BY <1>1, <1>4, <1>6 DEF RequestKept, RInv, ChecksStillHold
  <2> QED BY <1>2, <2>1, PermittedKept DEF rowVars
<1>12. VersionIdentifiesRow'
  BY <1>1, <1>2, <1>6 DEF RInv, VersionIdentifiesRow, Row, rowVars, sideVars, RequestKept
<1>13. FeedReplays'
  BY <1>1, <1>2 DEF FeedReplays, rowVars, sideVars
<1> QED BY <1>8, <1>9, <1>10, <1>11, <1>12, <1>13 DEF IInv

\* Administration that leaves the bugs alone.
LEMMA OrganizationKeeps ==
  ASSUME IInv,
         \/ ArchiveProject \/ RestoreProject
         \/ \E u \in Users : RemoveMemberBegin(u) \/ \E rl \in NewRoles : ChangeMemberRole(u, rl)
  PROVE  IInv'
<1>1. TypeOK /\ RInv /\ FeedReplays
  BY DEF IInv, RInv
<1>2. UNCHANGED <<rowVars, sideVars, reqVars>>
  BY DEF ArchiveProject, RestoreProject, RemoveMemberBegin, ChangeMemberRole
<1>3. /\ projectArchived' \in BOOLEAN /\ role' \in [Users -> Roles \union {NoRole}]
      /\ removing' \in Users \union {NoUser} /\ affected' \subseteq Bugs
  BY <1>1, RolesAssumption
     DEF ArchiveProject, RestoreProject, RemoveMemberBegin, ChangeMemberRole, TypeOK
<1>4. TypeOK' /\ FeedReplays'
  BY <1>1, <1>2, <1>3
     DEF TypeOK, Lifecycle!TypeOK, FeedReplays, rowVars, sideVars, reqVars
<1>5. StagesMatchCalls' /\ LocksMatchStages' /\ VersionIdentifiesRow'
  BY <1>1, <1>2 DEF RInv, StagesMatchCalls, LocksMatchStages, VersionIdentifiesRow, Row,
                    SuppliesAssignee, MarksDuplicate, rowVars, sideVars, reqVars
<1>6. ChecksStillHold'
  BY <1>1, <1>2, PermittedKept DEF RInv, ChecksStillHold, rowVars, reqVars
<1> QED BY <1>4, <1>5, <1>6 DEF IInv

\* clear_bug_assignments raises the version of every row it writes, and
\* writes no locked row.
LEMMA RemoveMemberCommitKeeps ==
  ASSUME IInv, RemoveMemberCommit
  PROVE  IInv'
<1>1. TypeOK /\ RInv /\ FeedReplays
  BY DEF IInv, RInv
<1>2. UNCHANGED reqVars /\ \A b \in affected : holder[b] = NoRequest
  BY DEF RemoveMemberCommit
<1>3. \A b \in Bugs : \/ RowKept(b)
                      \/ holder[b] = NoRequest /\ version'[b] = version[b] + 1
  BY <1>1 DEF RemoveMemberCommit, RowKept, TypeOK, Lifecycle!TypeOK
<1>4. ASSUME NEW q \in Requests
      PROVE  /\ RequestKept(q)
             /\ \A b \in Bugs : RowKept(b) \/ (holder[b] # q /\ version'[b] = version[b] + 1)
             /\ \A b \in Bugs : holder[b] = q => holder'[b] = q
  BY <1>2, <1>3, RequestsAssumption DEF RequestKept, reqVars
<1>5. TypeOK'
  <2>1. /\ assignee' \in [Bugs -> Users \union {NoUser}] /\ version' \in [Bugs -> Nat]
        /\ role' \in [Users -> Roles \union {NoRole}]
    BY <1>1 DEF RemoveMemberCommit, TypeOK, Lifecycle!TypeOK
  <2>2. feed' \in [Bugs -> [status : Statuses, assignee : Users \union {NoUser}]]
    BY <1>1 DEF RemoveMemberCommit, TypeOK
  <2> QED BY <1>1, <2>1, <2>2 DEF RemoveMemberCommit, TypeOK, Lifecycle!TypeOK, reqVars
<1>6. StagesMatchCalls'
  BY <1>1, <1>4, OthersKept
     DEF StagesMatchCalls, RInv, RequestKept, SuppliesAssignee, MarksDuplicate
<1>7. LocksMatchStages'
  BY <1>1, <1>2 DEF RInv, LocksMatchStages, reqVars
<1>8. ChecksStillHold' /\ VersionIdentifiesRow'
  BY <1>1, <1>4, OthersKept DEF ChecksStillHold, VersionIdentifiesRow, Holding
<1>9. FeedReplays'
  BY <1>1 DEF RemoveMemberCommit, FeedReplays, TypeOK
<1> QED BY <1>5, <1>6, <1>7, <1>8, <1>9 DEF IInv

-----------------------------------------------------------------------------
(* The theorems.                                                           *)

LEMMA InitKeeps == Init => IInv
<1> SUFFICES ASSUME Init PROVE IInv
  OBVIOUS
<1>1. TypeOK
  <2>1. NoWalk \in [at : Bugs \union {NoBug}, hops : 0..MaxChainDepth]
    BY BoundsAssumption DEF NoWalk
  <2>2. Lifecycle!TypeOK
    BY DEF Init, Lifecycle!Init, Lifecycle!TypeOK, Lifecycle!Statuses, Lifecycle!OpenStatuses
  <2>3. [status |-> "new", assignee |-> NoUser]
          \in [status : Statuses, assignee : Users \union {NoUser}]
    BY DEF Statuses, OpenStatuses
  <2> QED BY <2>1, <2>2, <2>3, RolesAssumption DEF Init, TypeOK, Stages
<1>2. \A r \in Requests : pc[r] = "idle" /\ "idle" \notin Holding
  BY DEF Init, Holding
<1>3. StagesMatchCalls /\ ChecksStillHold /\ VersionIdentifiesRow
  BY <1>2 DEF StagesMatchCalls, ChecksStillHold, VersionIdentifiesRow
<1>4. LocksMatchStages
  BY <1>2 DEF Init, LocksMatchStages
<1>5. FeedReplays
  BY DEF Init, Lifecycle!Init, FeedReplays
<1> QED BY <1>1, <1>3, <1>4, <1>5 DEF IInv

LEMMA ServeKeeps ==
  ASSUME IInv, NEW r \in Requests, Serve(r)
  PROVE  IInv'
<1>1. CASE SelectForUpdate(r) \/ LockBug(r)
  BY <1>1, SelectForUpdateKeeps, LockBugKeeps
<1>2. CASE ResolveAssignee(r) \/ FindTarget(r) \/ WalkEnds(r) \/ FindRow(r)
  BY <1>2, LookupsKeep
<1>3. CASE WalkOn(r)
  BY <1>3, WalkOnKeeps
<1>4. CASE \/ Refuse(r) \/ RefuseAssignee(r) \/ RefuseTarget(r) \/ RefuseChain(r)
           \/ RefuseRow(r) \/ AlreadyUnassigned(r) \/ DeadlockAbort(r)
  <2>1. Raise(r)
    BY <1>4 DEF Refuse, RefuseAssignee, RefuseTarget, RefuseChain, RefuseRow,
                AlreadyUnassigned, DeadlockAbort
  <2> QED BY <2>1, RaiseKeeps
<1>5. CASE Commit(r)
  BY <1>5, CommitUpdateKeeps, CommitTransitionKeeps, CommitAssignKeeps, CommitArchiveKeeps,
     CommitTagsKeeps, CommitRelationshipKeeps DEF Commit
<1> QED BY <1>1, <1>2, <1>3, <1>4, <1>5 DEF Serve

LEMMA NextKeeps == IInv /\ [Next]_vars => IInv'
<1> SUFFICES ASSUME IInv, [Next]_vars PROVE IInv'
  OBVIOUS
<1>1. CASE \E r \in Requests : Submit(r) \/ Serve(r)
  BY <1>1, SubmitKeeps, ServeKeeps
<1>2. CASE Administer
  BY <1>2, OrganizationKeeps, RemoveMemberCommitKeeps DEF Administer
<1>3. CASE UNCHANGED vars
  <2> USE <1>3 DEF vars, rowVars, sideVars, orgVars, reqVars
  <2>1. TypeOK'
    BY DEF IInv, TypeOK, Lifecycle!TypeOK
  <2>2. StagesMatchCalls' /\ LocksMatchStages' /\ VersionIdentifiesRow' /\ FeedReplays'
    BY DEF IInv, StagesMatchCalls, LocksMatchStages, VersionIdentifiesRow, Row,
           FeedReplays, SuppliesAssignee, MarksDuplicate
  <2>3. ChecksStillHold'
    BY PermittedKept DEF IInv, ChecksStillHold
  <2> QED BY <2>1, <2>2, <2>3 DEF IInv
<1> QED BY <1>1, <1>2, <1>3 DEF Next

\* Whatever a request has checked on the row it locked stays true until it
\* commits, and a version number stands for one state of the row.
THEOREM InvariantHolds == Spec => []IInv
BY InitKeeps, NextKeeps, PTL DEF Spec

\* Every reachable state is well typed.
THEOREM TypeCorrect == Spec => []TypeOK
BY InvariantHolds, PTL DEF IInv

\* _check_version's comparison of two integers is enough: whoever has the
\* current version of a bug has the current bug.
THEOREM VersionsIdentifyRows == Spec => []VersionIdentifiesRow
BY InvariantHolds, PTL DEF IInv

\* The activity feed always replays to the present status and assignee.
THEOREM FeedCorrect == Spec => []FeedReplays
BY InvariantHolds, PTL DEF IInv

\* No request commits over a row that its client has not seen.
THEOREM NoUpdateLost == Spec => NoLostUpdate
<1>1. IInv => \A r \in Requests : Commit(r) => fetched[r].row = Row(call[r].bug)
  <2> SUFFICES ASSUME IInv, NEW r \in Requests, Commit(r)
               PROVE  fetched[r].row = Row(call[r].bug)
    OBVIOUS
  <2>1. pc[r] = "commit"
    BY DEF Commit, CommitUpdate, CommitTransition, CommitAssign, CommitArchive,
           CommitTags, CommitRelationship, CanCommit
  <2> QED BY <2>1, AtCommit DEF Holding
<1> QED BY <1>1, InvariantHolds, PTL DEF NoLostUpdate

\* A commit on an archived bug is a restore; one on another bug leaves it alone.
LEMMA CommitLeavesArchived ==
  ASSUME IInv, NEW r \in Requests, Commit(r), NEW b \in Bugs, archived[b], archived'[b]
  PROVE  status'[b] = status[b] /\ content'[b] = content[b] /\ tags'[b] = tags[b]
         /\ assignee'[b] = assignee[b]
<1>1. pc[r] \in Holding
  BY DEF Commit, CommitUpdate, CommitTransition, CommitAssign, CommitArchive,
         CommitTags, CommitRelationship, CanCommit, Holding
<1>2. /\ TypeOK /\ call[r].bug \in Bugs
      /\ archived[call[r].bug] <=> call[r].op = "restore_bug"
  BY <1>1, AtCommit
<1>3. CASE call[r].bug = b
  <2>1. CommitArchive(r) /\ call[r].op = "restore_bug"
    BY <1>2, <1>3 DEF Commit, CommitUpdate, CommitTransition, CommitAssign,
                      CommitTags, CommitRelationship, CanCommit
  <2> QED BY <1>2, <1>3, <2>1 DEF CommitArchive, TypeOK, Lifecycle!TypeOK
<1>4. CASE call[r].bug # b
  BY <1>2, <1>4 DEF Commit, CommitUpdate, CommitTransition, CommitAssign, CommitArchive,
                    CommitTags, CommitRelationship, TypeOK, Lifecycle!TypeOK, sideVars
<1> QED BY <1>3, <1>4

\* While a bug is archived nothing but the removal of its assignee changes it,
\* however stale the page a request was sent from.
THEOREM ArchivedStaysFrozen == Spec => ArchivedIsFrozen
<1> DEFINE Frozen(b) ==
      /\ status'[b] = status[b]
      /\ content'[b] = content[b]
      /\ tags'[b] = tags[b]
      /\ assignee'[b] # assignee[b] => assignee'[b] = NoUser /\ b \in affected
<1>1. IInv /\ [Next]_vars => \A b \in Bugs : archived[b] /\ archived'[b] => Frozen(b)
  <2> SUFFICES ASSUME IInv, [Next]_vars, NEW b \in Bugs, archived[b], archived'[b]
               PROVE  Frozen(b)
    OBVIOUS
  <2>1. CASE UNCHANGED <<rowVars, sideVars>>
    BY <2>1 DEF rowVars, sideVars
  <2>2. CASE RemoveMemberCommit
    BY <2>2 DEF RemoveMemberCommit
  <2>3. CASE \E r \in Requests : Commit(r)
    BY <2>3, CommitLeavesArchived
  <2>4. ASSUME NEW r \in Requests, Submit(r) \/ (Serve(r) /\ ~Commit(r))
        PROVE  UNCHANGED <<rowVars, sideVars>>
    BY <2>4 DEF Submit, Serve, Raise, SelectForUpdate, LockBug, Refuse, ResolveAssignee, RefuseAssignee,
                FindTarget, RefuseTarget, WalkOn, WalkEnds, RefuseChain, FindRow,
                RefuseRow, AlreadyUnassigned, DeadlockAbort
  <2>5. Administer => RemoveMemberCommit \/ UNCHANGED <<rowVars, sideVars>>
    BY DEF Administer, ArchiveProject, RestoreProject, ChangeMemberRole, RemoveMemberBegin
  <2>6. UNCHANGED vars => UNCHANGED <<rowVars, sideVars>>
    BY DEF vars
  <2> QED BY <2>1, <2>2, <2>3, <2>4, <2>5, <2>6 DEF Next
<1> QED BY <1>1, InvariantHolds, PTL DEF Spec, ArchivedIsFrozen

-----------------------------------------------------------------------------
(* The implementation of BugLifecycle: each commit is one step of it, every *)
(* other step of a request is none.                                         *)

LEMMA SameTimestampRules ==
  \A s \in Statuses, before \in BOOLEAN :
    /\ Lifecycle!ResolvedAtAfter(s, before) = ResolvedAtAfter(s, before)
    /\ Lifecycle!ClosedAtAfter(s, before) = ClosedAtAfter(s, before)
BY DEF Lifecycle!ResolvedAtAfter, Lifecycle!ClosedAtAfter, ResolvedAtAfter, ClosedAtAfter,
       Lifecycle!ResolutionStatuses, ResolutionStatuses

LEMMA TransitionImplements ==
  ASSUME IInv, NEW r \in Requests, CommitTransition(r)
  PROVE  Lifecycle!Next
<1> DEFINE c == call[r]
           a == EffectiveAssignee(c)
<1>1. pc[r] \in Holding /\ c.op = "transition_bug"
  BY DEF CommitTransition, CanCommit, Holding
<1>2. /\ TypeOK /\ c \in Calls /\ c.bug \in Bugs /\ ~archived[c.bug]
      /\ Permitted(c, fetched[r].role)
  BY <1>1, AtCommit
<1>3. a \in Users \union {NoUser} /\ c.status \in Statuses
  BY <1>1, <1>2, CallTypes DEF EffectiveAssignee, TypeOK, Lifecycle!TypeOK
<1>4. /\ c.status \in Matrix[status[c.bug]]
      /\ c.status \in Lifecycle!AssigneeRequiredStatuses => a # NoUser
  BY <1>1, <1>2, SameVocabulary DEF Permitted
<1>5. /\ resolvedAt' = [resolvedAt EXCEPT ![c.bug] = Lifecycle!ResolvedAtAfter(c.status, @)]
      /\ closedAt' = [closedAt EXCEPT ![c.bug] = Lifecycle!ClosedAtAfter(c.status, @)]
  BY <1>2, <1>3, SameTimestampRules DEF CommitTransition, TypeOK, Lifecycle!TypeOK
<1>6. /\ status' = [status EXCEPT ![c.bug] = c.status]
      /\ assignee' = [assignee EXCEPT ![c.bug] = a]
      /\ version' = [version EXCEPT ![c.bug] = @ + 1]
      /\ UNCHANGED archived
  BY DEF CommitTransition, Bump
<1> HIDE DEF c, a
<1>7. Lifecycle!Transition(c.bug, c.status, a)
  BY <1>2, <1>4, <1>5, <1>6 DEF Lifecycle!Transition, Lifecycle!Bump
<1> QED BY <1>2, <1>3, <1>7, SameVocabulary DEF Lifecycle!Next

\* The commits of the other calls.
LEMMA CommitImplements ==
  ASSUME IInv, NEW r \in Requests, Commit(r)
  PROVE  Lifecycle!Next
<1> DEFINE b == call[r].bug
<1>1. pc[r] \in Holding
  BY DEF Commit, CommitUpdate, CommitTransition, CommitAssign, CommitArchive,
         CommitTags, CommitRelationship, CanCommit, Holding
<1>2. /\ call[r] \in Calls /\ b \in Bugs
      /\ archived[b] <=> call[r].op = "restore_bug"
  BY <1>1, AtCommit
<1>3. CASE CommitUpdate(r) \/ CommitTags(r) \/ CommitRelationship(r)
  <2>1. Lifecycle!Touch(b)
    BY <1>2, <1>3 DEF CommitUpdate, CommitTags, CommitRelationship, CanCommit, Bump,
                      Lifecycle!Touch, Lifecycle!Bump
  <2> QED BY <1>2, <2>1 DEF Lifecycle!Next
<1>4. CASE CommitAssign(r)
  <2>1. Lifecycle!Assign(b, call[r].assignee)
    BY <1>2, <1>4 DEF CommitAssign, CanCommit, Bump, Lifecycle!Assign, Lifecycle!Bump
  <2>2. call[r].assignee \in Users \union {NoUser}
    BY <1>2, <1>4, CallTypes DEF CommitAssign, CanCommit
  <2> QED BY <1>2, <2>1, <2>2 DEF Lifecycle!Next
<1>5. CASE CommitArchive(r)
  <2>1. Lifecycle!Archive(b) \/ Lifecycle!Restore(b)
    BY <1>2, <1>5 DEF CommitArchive, CanCommit, Bump, Lifecycle!Archive,
                      Lifecycle!Restore, Lifecycle!Bump
  <2> QED BY <1>2, <2>1 DEF Lifecycle!Next
<1> QED BY <1>3, <1>4, <1>5, TransitionImplements DEF Commit

\* Row by row, the multi-step transactions of the service layer implement the
\* one-step specification: locks, version checks and refusals are enough for
\* every request to look as if it had happened in one step.
THEOREM ImplementsLifecycle == Spec => RefinesLifecycle
<1>1. Init => Lifecycle!Init
  BY DEF Init
<1>2. IInv /\ [Next]_vars => [Lifecycle!Next]_(Lifecycle!rowVars)
  <2> SUFFICES ASSUME IInv, [Next]_vars
               PROVE  Lifecycle!Next \/ UNCHANGED Lifecycle!rowVars
    OBVIOUS
  <2>1. CASE RemoveMemberCommit
    <3>1. Lifecycle!ClearAssignments(affected) /\ affected \in SUBSET Bugs
      BY <2>1 DEF RemoveMemberCommit, Lifecycle!ClearAssignments, IInv, TypeOK
    <3> QED BY <3>1 DEF Lifecycle!Next
  <2>2. CASE \E r \in Requests : Commit(r)
    BY <2>2, CommitImplements
  <2>3. CASE UNCHANGED rowVars
    BY <2>3 DEF rowVars, Lifecycle!rowVars
  <2>4. ASSUME NEW r \in Requests, Submit(r) \/ (Serve(r) /\ ~Commit(r))
        PROVE  UNCHANGED rowVars
    BY <2>4 DEF Submit, Serve, Raise, SelectForUpdate, LockBug, Refuse, ResolveAssignee, RefuseAssignee,
                FindTarget, RefuseTarget, WalkOn, WalkEnds, RefuseChain, FindRow,
                RefuseRow, AlreadyUnassigned, DeadlockAbort
  <2>5. Administer => RemoveMemberCommit \/ UNCHANGED rowVars
    BY DEF Administer, ArchiveProject, RestoreProject, ChangeMemberRole, RemoveMemberBegin
  <2>6. UNCHANGED vars => UNCHANGED rowVars
    BY DEF vars
  <2> QED BY <2>1, <2>2, <2>3, <2>4, <2>5, <2>6 DEF Next
<1> QED BY <1>1, <1>2, InvariantHolds, PTL DEF Spec, RefinesLifecycle, Lifecycle!Spec

-----------------------------------------------------------------------------
(* The promise itself, BugLifecycle, and what it gives for the rows.       *)

LEMMA RowsInitType == Lifecycle!Init => Lifecycle!TypeOK
BY DEF Lifecycle!Init, Lifecycle!TypeOK, Lifecycle!Statuses, Lifecycle!OpenStatuses

LEMMA RowsNextType ==
  ASSUME Lifecycle!TypeOK, [Lifecycle!Next]_(Lifecycle!rowVars)
  PROVE  Lifecycle!TypeOK'
<1> USE DEF Lifecycle!TypeOK, Lifecycle!Bump
<1>1. ASSUME NEW b \in Bugs, NEW s \in Lifecycle!Statuses, NEW a \in Users \union {NoUser},
             Lifecycle!Transition(b, s, a)
      PROVE  Lifecycle!TypeOK'
  <2>1. /\ Lifecycle!ResolvedAtAfter(s, resolvedAt[b]) \in BOOLEAN
        /\ Lifecycle!ClosedAtAfter(s, closedAt[b]) \in BOOLEAN
    BY DEF Lifecycle!ResolvedAtAfter, Lifecycle!ClosedAtAfter
  <2>2. resolvedAt' \in [Bugs -> BOOLEAN] /\ closedAt' \in [Bugs -> BOOLEAN]
    BY <1>1, <2>1 DEF Lifecycle!Transition
  <2> QED BY <1>1, <2>2 DEF Lifecycle!Transition
<1>2. ASSUME NEW b \in Bugs, NEW a \in Users \union {NoUser}, Lifecycle!Assign(b, a)
      PROVE  Lifecycle!TypeOK'
  BY <1>2 DEF Lifecycle!Assign
<1>3. ASSUME NEW b \in Bugs, Lifecycle!Touch(b) PROVE Lifecycle!TypeOK'
  BY <1>3 DEF Lifecycle!Touch
<1>4. ASSUME NEW b \in Bugs, Lifecycle!Archive(b) PROVE Lifecycle!TypeOK'
  BY <1>4 DEF Lifecycle!Archive
<1>5. ASSUME NEW b \in Bugs, Lifecycle!Restore(b) PROVE Lifecycle!TypeOK'
  BY <1>5 DEF Lifecycle!Restore
<1>6. ASSUME NEW S \in SUBSET Bugs, Lifecycle!ClearAssignments(S) PROVE Lifecycle!TypeOK'
  BY <1>6 DEF Lifecycle!ClearAssignments
<1>7. CASE UNCHANGED Lifecycle!rowVars
  BY <1>7 DEF Lifecycle!rowVars
<1> QED BY <1>1, <1>2, <1>3, <1>4, <1>5, <1>6, <1>7 DEF Lifecycle!Next

\* A move the matrix allows keeps the timestamps in step with the status: this
\* is where the shape of the matrix is needed.
LEMMA TransitionKeepsTimestamps ==
  ASSUME Lifecycle!MatrixKeepsTimestamps, Lifecycle!TypeOK, Lifecycle!TimestampsMatchStatus,
         NEW b \in Bugs, NEW s \in Lifecycle!Statuses, NEW a \in Users \union {NoUser},
         Lifecycle!Transition(b, s, a)
  PROVE  Lifecycle!TimestampsMatchStatus'
<1> USE DEF Lifecycle!TypeOK, Lifecycle!Transition, Lifecycle!Statuses, Lifecycle!OpenStatuses,
            Lifecycle!TerminalStatuses, Lifecycle!ResolutionStatuses
<1>1. status' = [status EXCEPT ![b] = s]
  OBVIOUS
<1>2. resolvedAt'[b] <=> s \in Lifecycle!TerminalStatuses
  <2>1. resolvedAt'[b] <=> Lifecycle!ResolvedAtAfter(s, resolvedAt[b])
    OBVIOUS
  <2>2. s = "closed" => status[b] \in Lifecycle!TerminalStatuses
    BY DEF Lifecycle!MatrixKeepsTimestamps
  <2>3. s \in Lifecycle!OpenStatuses \ {"reopened"} => status[b] \notin Lifecycle!TerminalStatuses
    BY DEF Lifecycle!MatrixKeepsTimestamps
  <2> QED BY <2>1, <2>2, <2>3 DEF Lifecycle!ResolvedAtAfter, Lifecycle!TimestampsMatchStatus
<1>3. closedAt'[b] <=> s = "closed"
  <2>1. closedAt'[b] <=> Lifecycle!ClosedAtAfter(s, closedAt[b])
    OBVIOUS
  <2>2. status[b] = "closed" => s \in {"closed", "reopened"}
    BY DEF Lifecycle!MatrixKeepsTimestamps
  <2> QED BY <2>1, <2>2 DEF Lifecycle!ClosedAtAfter, Lifecycle!TimestampsMatchStatus
<1>4. ASSUME NEW c \in Bugs, c # b
      PROVE  (resolvedAt'[c] <=> status'[c] \in Lifecycle!TerminalStatuses)
             /\ (closedAt'[c] <=> status'[c] = "closed")
  BY <1>4 DEF Lifecycle!TimestampsMatchStatus
<1> QED BY <1>1, <1>2, <1>3, <1>4 DEF Lifecycle!TimestampsMatchStatus

LEMMA RowsKeepTimestamps ==
  ASSUME Lifecycle!MatrixKeepsTimestamps
  PROVE  Lifecycle!Spec => []Lifecycle!TimestampsMatchStatus
<1>1. Lifecycle!Init => Lifecycle!TypeOK /\ Lifecycle!TimestampsMatchStatus
  BY RowsInitType DEF Lifecycle!Init, Lifecycle!TimestampsMatchStatus, Lifecycle!TerminalStatuses,
                      Lifecycle!ResolutionStatuses
<1>2. ASSUME Lifecycle!TypeOK, Lifecycle!TimestampsMatchStatus,
             [Lifecycle!Next]_(Lifecycle!rowVars)
      PROVE  Lifecycle!TypeOK' /\ Lifecycle!TimestampsMatchStatus'
  <2>1. ASSUME NEW b \in Bugs, NEW s \in Lifecycle!Statuses, NEW a \in Users \union {NoUser},
               Lifecycle!Transition(b, s, a)
        PROVE  Lifecycle!TimestampsMatchStatus'
    BY <1>2, <2>1, TransitionKeepsTimestamps
  <2>2. ASSUME UNCHANGED <<status, resolvedAt, closedAt>>
        PROVE  Lifecycle!TimestampsMatchStatus'
    BY <1>2, <2>2 DEF Lifecycle!TimestampsMatchStatus
  <2>3. Lifecycle!TimestampsMatchStatus'
    BY <1>2, <2>1, <2>2
       DEF Lifecycle!Next, Lifecycle!rowVars, Lifecycle!Assign, Lifecycle!Touch,
           Lifecycle!Archive, Lifecycle!Restore, Lifecycle!ClearAssignments
  <2> QED BY <1>2, <2>3, RowsNextType
<1> QED BY <1>1, <1>2, PTL DEF Lifecycle!Spec

\* With a matrix that leaves the terminal statuses only by reopening,
\* apply_timestamp_side_effects keeps resolved_at and closed_at a function of
\* the status, through every history of concurrent requests.
THEOREM TimestampsCorrect ==
  ASSUME Lifecycle!MatrixKeepsTimestamps
  PROVE  Spec => []TimestampsMatchStatus
<1>1. Lifecycle!TimestampsMatchStatus => TimestampsMatchStatus
  BY DEF TimestampsMatchStatus
<1> QED BY <1>1, RowsKeepTimestamps, ImplementsLifecycle, PTL DEF RefinesLifecycle

\* The community matrix is such a matrix, so community bugs' timestamps are
\* right; with a workflow provider's matrix they need not be.
COROLLARY CommunityTimestampsCorrect ==
  ASSUME Matrix = CommunityTransitions
  PROVE  Spec => []TimestampsMatchStatus
<1>1. Lifecycle!MatrixKeepsTimestamps
  BY DEF CommunityTransitions, Lifecycle!MatrixKeepsTimestamps, Lifecycle!Statuses,
         Lifecycle!OpenStatuses, Lifecycle!TerminalStatuses, Lifecycle!ResolutionStatuses
<1> QED BY <1>1, TimestampsCorrect

-----------------------------------------------------------------------------
(* relates_to rows.                                                        *)

\* create_relationship stores them with the smaller id first.
CanonicalOrder == \A x \in rels : x.type = "relates_to" => x.from < x.to

\* No two requests, in whatever order, leave "A relates_to B" beside
\* "B relates_to A".
THEOREM RelatesToIsCanonical == Spec => []RelatesToCanonical
<1>1. Init => CanonicalOrder
  BY DEF Init, CanonicalOrder
<1>2. IInv /\ CanonicalOrder /\ [Next]_vars => CanonicalOrder'
  <2> SUFFICES ASSUME IInv, CanonicalOrder, [Next]_vars PROVE CanonicalOrder'
    OBVIOUS
  <2>1. CASE UNCHANGED rels
    BY <2>1 DEF CanonicalOrder
  <2>2. ASSUME NEW r \in Requests, CommitTransition(r) PROVE CanonicalOrder'
    <3>1. RowOf(call[r]).type = "duplicate_of"
      BY <2>2 DEF CommitTransition, CanCommit, RowOf
    <3> QED BY <2>2, <3>1 DEF CommitTransition, CanonicalOrder
  <2>3. ASSUME NEW r \in Requests, CommitRelationship(r) PROVE CanonicalOrder'
    <3>1. CASE call[r].op = "create_relationship"
      <4> DEFINE c == call[r]
      <4>1. c \in Calls /\ c.bug \in Bugs /\ c.other \in Bugs /\ c.other # c.bug
        BY <2>3, <3>1, AtCommit, CallTypes
           DEF CommitRelationship, CanCommit, Holding, Permitted
      <4>2. c.bug \in Nat /\ c.other \in Nat
        BY <4>1, BugsAssumption
      <4>3. RowOf(c).type = "relates_to" => RowOf(c).from < RowOf(c).to
        BY <3>1, <4>1, <4>2 DEF RowOf
      <4>4. rels' = rels \union {RowOf(c)}
        BY <2>3, <3>1 DEF CommitRelationship, CanCommit
      <4> HIDE DEF c
      <4> QED BY <4>3, <4>4 DEF CanonicalOrder
    <3>2. CASE call[r].op # "create_relationship"
      BY <2>3, <3>2 DEF CommitRelationship, CanCommit, CanonicalOrder
    <3> QED BY <3>1, <3>2
  <2>4. ASSUME NEW r \in Requests, Submit(r) \/ Serve(r),
               ~CommitTransition(r), ~CommitRelationship(r)
        PROVE  UNCHANGED rels
    BY <2>4 DEF Submit, Serve, Raise, SelectForUpdate, LockBug, Refuse, ResolveAssignee, RefuseAssignee,
                FindTarget, RefuseTarget, WalkOn, WalkEnds, RefuseChain, FindRow,
                RefuseRow, AlreadyUnassigned, DeadlockAbort, Commit, CommitUpdate,
                CommitAssign, CommitArchive, CommitTags, sideVars
  <2>5. Administer \/ UNCHANGED vars => UNCHANGED rels
    BY DEF Administer, ArchiveProject, RestoreProject, ChangeMemberRole,
           RemoveMemberBegin, RemoveMemberCommit, vars, sideVars
  <2> QED BY <2>1, <2>2, <2>3, <2>4, <2>5 DEF Next
<1>3. TypeOK /\ CanonicalOrder => RelatesToCanonical
  <2> SUFFICES ASSUME TypeOK, CanonicalOrder, NEW x \in rels, NEW y \in rels,
                      x.type = "relates_to", y.type = "relates_to",
                      x.from = y.to, x.to = y.from
               PROVE  FALSE
    BY DEF RelatesToCanonical
  <2>1. x.from \in Nat /\ x.to \in Nat
    BY BugsAssumption DEF TypeOK, Rows
  <2> QED BY <2>1 DEF CanonicalOrder
<1> QED BY <1>1, <1>2, <1>3, InvariantHolds, TypeCorrect, PTL DEF Spec
=============================================================================
