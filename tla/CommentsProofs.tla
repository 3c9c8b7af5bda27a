------------------------------ MODULE CommentsProofs ------------------------------
(***************************************************************************)
(* That a removal is final and that the feed tells what became of each     *)
(* comment, for any number of users, comments and overlapping requests.    *)
(* The argument: a request decides about a comment while it holds its row, *)
(* and nobody else knows of a comment that is being created; so what was   *)
(* decided still holds when the transaction commits.                       *)
(***************************************************************************)
EXTENDS Comments, FiniteSetTheorems, TLAPS

Entries(verb, c) == {e \in feed : e[1] = verb /\ e[2] = c}

StagesMatchCalls ==
  \A r \in Requests :
    /\ pc[r] = "idle" <=> call[r] = NoCall
    /\ pc[r] = "check" => call[r].op = "create"
    /\ pc[r] \in {"lock", "lock_author", "decide"} => call[r].op # "create"

\* Every call but a creation is about a comment that exists; whoever creates
\* one is alone with it.
CreationIsExclusive ==
  \A r \in Requests : call[r] # NoCall =>
    /\ call[r].op = "create" <=> status[call[r].comment] = "absent"
    /\ call[r].op = "create" =>
         \A q \in Requests \ {r} :
           call[q] # NoCall => call[q].comment # call[r].comment

RowIsHeld ==
  \A r \in Requests :
    /\ pc[r] \in {"lock_author", "decide", "commit"}
    /\ call[r].op # "create"
    => lock[CommentRow(call[r].comment)] = r

DecisionStands ==
  \A r \in Requests : pc[r] = "commit" =>
    /\ call[r].op # "create" => status[call[r].comment] = "active"
    /\ call[r].op = "edit" => author[call[r].comment] = call[r].actor
    /\ call[r].op \in {"create", "edit"} => Valid(call[r].body)

RemovedIsCleared == \A c \in Comments : status[c] \in Removals => body[c] = Empty

FeedIsExact ==
  \A c \in Comments :
    /\ status[c] = "absent" => ~edited[c]
    /\ Entries("added", c) = IF status[c] = "absent" THEN {} ELSE {<<"added", c, author[c]>>}
    /\ Entries("edited", c) = IF edited[c] THEN {<<"edited", c, author[c]>>} ELSE {}
    /\ \A v \in Removals :
         IF status[c] = v THEN \E u \in Users : Entries(v, c) = {<<v, c, u>>}
                          ELSE Entries(v, c) = {}

IInv ==
  /\ TypeOK
  /\ StagesMatchCalls
  /\ CreationIsExclusive
  /\ RowIsHeld
  /\ DecisionStands
  /\ RemovedIsCleared
  /\ FeedIsExact

-----------------------------------------------------------------------------
(* Facts about calls, locks and answers.                                   *)

LEMMA FieldsOfCalls ==
  ASSUME NEW k \in Calls
  PROVE  /\ k # NoCall
         /\ k.op \in {"create", "edit", "delete", "redact"}
         /\ k.actor \in Users /\ k.comment \in Comments
         /\ k.op \in {"create", "edit"} => k.body \in Bodies \union {Blank}
  BY CallsAssumption DEF CommentCalls, NoCall

LEMMA FieldsOfRequests ==
  ASSUME TypeOK, StagesMatchCalls, NEW r \in Requests, pc[r] # "idle"
  PROVE  /\ call[r] \in Calls /\ call[r] # NoCall
         /\ call[r].op \in {"create", "edit", "delete", "redact"}
         /\ call[r].actor \in Users /\ call[r].comment \in Comments
         /\ call[r].op \in {"create", "edit"} => call[r].body \in Bodies \union {Blank}
<1>1. call[r] \in Calls
  BY DEF TypeOK, StagesMatchCalls
<1> QED
  BY <1>1, FieldsOfCalls

LEMMA RowsAreRows ==
  /\ \A c \in Comments : CommentRow(c) \in Rows
  /\ \A u \in Users : UserRow(u) \in Rows
  BY DEF Rows

\* The others are where they were, and hold what they held.
OthersStay(r) ==
  \A q \in Requests \ {r} :
    /\ pc'[q] = pc[q] /\ call'[q] = call[q]
    /\ \A x \in Rows : lock[x] = q => lock'[x] = q

\* What an answered request leaves to the others.
LEMMA AnswerFrees ==
  ASSUME TypeOK, NEW r \in Requests, Answer(r)
  PROVE  /\ pc' \in [Requests -> {"idle", "check", "lock", "lock_author", "decide", "commit"}]
         /\ call' \in [Requests -> Calls \union {NoCall}]
         /\ lock' \in [Rows -> Requests \union {Nobody}]
         /\ seen' \in [Requests -> [role : Roles \union {NotMember}, archived : SUBSET Holders,
                                    mentioned : SUBSET Users]]
         /\ pc'[r] = "idle" /\ call'[r] = NoCall
         /\ OthersStay(r)
<1>1. NothingSeen \in [role : Roles \union {NotMember}, archived : SUBSET Holders,
                       mentioned : SUBSET Users]
  BY DEF NothingSeen
<1> QED
  BY <1>1 DEF TypeOK, Answer, Goto, Unlock, OthersStay

-----------------------------------------------------------------------------
(* Steps that write no comment.                                            *)

\* A step that writes neither comment nor feed keeps the invariant if the
\* request that makes it has grounds for what it is about to do.
LEMMA StepWithoutWrite ==
  ASSUME IInv, TypeOK', NEW r \in Requests, OthersStay(r), UNCHANGED <<row, feed>>,
         pc'[r] = "idle" <=> call'[r] = NoCall,
         pc'[r] = "check" => call'[r].op = "create",
         pc'[r] \in {"lock", "lock_author", "decide"} => call'[r].op # "create",
         call'[r] # NoCall =>
           /\ call'[r].op = "create" <=> status[call'[r].comment] = "absent"
           /\ call'[r].op = "create" =>
                \A q \in Requests \ {r} :
                  call[q] # NoCall => call[q].comment # call'[r].comment,
         pc'[r] \in {"lock_author", "decide", "commit"} /\ call'[r].op # "create"
           => lock'[CommentRow(call'[r].comment)] = r,
         pc'[r] = "commit" =>
           /\ call'[r].op # "create" => status[call'[r].comment] = "active"
           /\ call'[r].op = "edit" => author[call'[r].comment] = call'[r].actor
           /\ call'[r].op \in {"create", "edit"} => Valid(call'[r].body)
  PROVE  IInv'
<1>1. /\ status' = status /\ body' = body /\ author' = author /\ edited' = edited
      /\ feed' = feed
      /\ \A q \in Requests : q = r \/
           /\ pc'[q] = pc[q] /\ call'[q] = call[q]
           /\ \A x \in Rows : lock[x] = q => lock'[x] = q
  BY DEF row, OthersStay
<1>2. TypeOK /\ StagesMatchCalls
  BY DEF IInv
<1>3. StagesMatchCalls'
  BY <1>1 DEF IInv, StagesMatchCalls
<1>4. CreationIsExclusive'
  <2>1. SUFFICES ASSUME NEW q \in Requests, call'[q] # NoCall
                 PROVE  /\ call'[q].op = "create" <=> status[call'[q].comment] = "absent"
                        /\ call'[q].op = "create" =>
                             \A p \in Requests \ {q} :
                               call'[p] # NoCall => call'[p].comment # call'[q].comment
    BY <1>1 DEF CreationIsExclusive
  <2>2. CASE q = r
    BY <1>1, <2>1, <2>2
  <2>3. CASE q # r
    BY <1>1, <2>1, <2>3 DEF IInv, CreationIsExclusive
  <2> QED
    BY <2>2, <2>3
<1>5. RowIsHeld'
  <2>1. SUFFICES ASSUME NEW q \in Requests, q # r,
                        pc[q] \in {"lock_author", "decide", "commit"}, call[q].op # "create"
                 PROVE  lock'[CommentRow(call[q].comment)] = q
    BY <1>1 DEF RowIsHeld
  <2>2. call[q].comment \in Comments /\ lock[CommentRow(call[q].comment)] = q
    BY <1>2, <2>1, FieldsOfRequests DEF IInv, RowIsHeld
  <2> QED
    BY <1>1, <2>1, <2>2, RowsAreRows
<1>6. DecisionStands'
  BY <1>1 DEF IInv, DecisionStands, Valid
<1>7. RemovedIsCleared' /\ FeedIsExact'
  BY <1>1 DEF IInv, RemovedIsCleared, FeedIsExact, Entries
<1> QED
  BY <1>3, <1>4, <1>5, <1>6, <1>7 DEF IInv

\* An answer that writes nothing.
LEMMA RaiseKeeps ==
  ASSUME IInv, NEW r \in Requests, Raise(r)
  PROVE  IInv'
<1>1. TypeOK /\ Answer(r) /\ UNCHANGED <<world, row, told>>
  BY DEF IInv, Raise
<1>2. OthersStay(r) /\ pc'[r] = "idle" /\ call'[r] = NoCall
  BY <1>1, AnswerFrees
<1>3. TypeOK'
  BY <1>1, AnswerFrees DEF TypeOK, world, row, told
<1> QED
  BY <1>1, <1>2, <1>3, StepWithoutWrite DEF told

LEMMA SubmitKeeps ==
  ASSUME IInv, NEW r \in Requests, Submit(r)
  PROVE  IInv'
<1>1. PICK k \in Calls :
        /\ IF k.op = "create"
           THEN /\ status[k.comment] = "absent"
                /\ \A q \in Requests : call[q] # NoCall => call[q].comment # k.comment
           ELSE status[k.comment] # "absent"
        /\ call' = [call EXCEPT ![r] = k]
        /\ seen' = [seen EXCEPT ![r] = [role |-> role[k.actor], archived |-> archived,
                                        mentioned |-> {}]]
        /\ pc' = [pc EXCEPT ![r] = IF k.op = "create" THEN "check" ELSE "lock"]
  BY DEF Submit, Goto
<1>2. TypeOK /\ UNCHANGED <<world, row, told, lock>>
  BY DEF IInv, Submit
<1>3. k # NoCall /\ k.actor \in Users
  BY FieldsOfCalls
<1>4. TypeOK'
  BY <1>1, <1>2, <1>3 DEF TypeOK, world, row, told
<1>5. /\ OthersStay(r) /\ call'[r] = k
      /\ pc'[r] = IF k.op = "create" THEN "check" ELSE "lock"
  BY <1>1, <1>2 DEF OthersStay, TypeOK
<1> QED
  BY <1>1, <1>2, <1>3, <1>4, <1>5, StepWithoutWrite DEF told

\* A request goes on to a stage that its call has, with locks that it keeps.
LEMMA KeptByMoving ==
  ASSUME IInv, NEW r \in Requests, pc[r] # "idle",
         NEW s \in {"lock_author", "decide", "commit"}, pc' = [pc EXCEPT ![r] = s],
         s # "commit" => call[r].op # "create",
         UNCHANGED <<world, row, told, call>>,
         seen' \in [Requests -> [role : Roles \union {NotMember}, archived : SUBSET Holders,
                                 mentioned : SUBSET Users]],
         \/ lock' = lock
         \/ \E x \in Rows : lock[x] = Nobody /\ lock' = [lock EXCEPT ![x] = r],
         call[r].op # "create" => lock'[CommentRow(call[r].comment)] = r,
         s = "commit" =>
           /\ call[r].op # "create" => status[call[r].comment] = "active"
           /\ call[r].op = "edit" => author[call[r].comment] = call[r].actor
           /\ call[r].op \in {"create", "edit"} => Valid(call[r].body)
  PROVE  IInv'
<1>1. TypeOK /\ call[r] # NoCall
  BY FieldsOfRequests DEF IInv
<1>2. TypeOK'
  BY <1>1 DEF TypeOK, world, row, told
<1>3. OthersStay(r) /\ pc'[r] = s /\ call'[r] = call[r]
  BY <1>1, CallsAssumption DEF OthersStay, TypeOK
<1>4. /\ call[r].op = "create" <=> status[call[r].comment] = "absent"
      /\ call[r].op = "create" =>
           \A q \in Requests \ {r} :
             call[q] # NoCall => call[q].comment # call[r].comment
  BY <1>1 DEF IInv, CreationIsExclusive
<1> QED
  BY <1>1, <1>2, <1>3, <1>4, StepWithoutWrite DEF told

LEMMA ResolveKeeps ==
  ASSUME IInv, NEW r \in Requests, ResolveMentions(r)
  PROVE  IInv'
<1>1. /\ TypeOK /\ pc[r] = "check" /\ call[r].op = "create" /\ Valid(call[r].body)
      /\ UNCHANGED <<world, row, told, lock, call>>
      /\ pc' = [pc EXCEPT ![r] = "commit"]
  BY DEF IInv, StagesMatchCalls, ResolveMentions, MayCreate, Goto
<1>2. PICK found \in SUBSET Users : seen' = [seen EXCEPT ![r].mentioned = found]
  <2>1. call[r].body \in Bodies \union {Blank}
    BY <1>1, FieldsOfRequests DEF IInv
  <2>2. {u \in MentionedIn[call[r].body] : role[u] # NotMember} \in SUBSET Users
    BY <2>1, MentionsAssumption
  <2> QED
    BY <2>2 DEF ResolveMentions
<1>3. seen' \in [Requests -> [role : Roles \union {NotMember}, archived : SUBSET Holders,
                              mentioned : SUBSET Users]]
  <2>1. [seen[r] EXCEPT !.mentioned = found]
          = [role |-> seen[r].role, archived |-> seen[r].archived, mentioned |-> found]
    BY <1>1 DEF TypeOK
  <2>2. seen' = [seen EXCEPT ![r] = [role |-> seen[r].role, archived |-> seen[r].archived,
                                     mentioned |-> found]]
    BY <1>2, <2>1, Zenon
  <2> QED
    BY <1>1, <2>2 DEF TypeOK
<1> QED
  BY <1>1, <1>3, KeptByMoving

LEMMA LockCommentKeeps ==
  ASSUME IInv, NEW r \in Requests, LockComment(r)
  PROVE  IInv'
<1>1. /\ TypeOK /\ pc[r] = "lock" /\ call[r].op # "create"
      /\ lock[CommentRow(call[r].comment)] = Nobody
      /\ lock' = [lock EXCEPT ![CommentRow(call[r].comment)] = r]
      /\ pc' = [pc EXCEPT ![r] = "lock_author"]
      /\ UNCHANGED <<world, row, told, call, seen>>
  BY DEF IInv, StagesMatchCalls, LockComment, Acquire, Goto
<1>2. CommentRow(call[r].comment) \in Rows
  BY <1>1, FieldsOfRequests, RowsAreRows DEF IInv
<1>3. lock'[CommentRow(call[r].comment)] = r
  BY <1>1, <1>2 DEF TypeOK
<1>4. seen' \in [Requests -> [role : Roles \union {NotMember}, archived : SUBSET Holders,
                              mentioned : SUBSET Users]]
  BY <1>1 DEF TypeOK
<1> QED
  BY <1>1, <1>2, <1>3, <1>4, KeptByMoving

LEMMA LockAuthorKeeps ==
  ASSUME IInv, NEW r \in Requests, LockAuthor(r)
  PROVE  IInv'
<1> DEFINE x == UserRow(author[call[r].comment])
<1>1. /\ TypeOK /\ pc[r] = "lock_author" /\ call[r].op # "create"
      /\ lock[x] = Nobody
      /\ lock' = [lock EXCEPT ![x] = r]
      /\ pc' = [pc EXCEPT ![r] = "decide"]
      /\ UNCHANGED <<world, row, told, call, seen>>
  BY DEF IInv, StagesMatchCalls, LockAuthor, Acquire, Goto
<1>2. /\ lock[CommentRow(call[r].comment)] = r
      /\ CommentRow(call[r].comment) \in Rows
  BY <1>1, FieldsOfRequests, RowsAreRows DEF IInv, RowIsHeld
<1>3. lock'[CommentRow(call[r].comment)] = r
  BY <1>1, <1>2 DEF TypeOK
<1>4. seen' \in [Requests -> [role : Roles \union {NotMember}, archived : SUBSET Holders,
                              mentioned : SUBSET Users]]
  BY <1>1 DEF TypeOK
<1>5. lock' = lock \/ \E y \in Rows : lock[y] = Nobody /\ lock' = [lock EXCEPT ![y] = r]
  <2>1. CASE x \in Rows
    BY <1>1, <2>1
  <2>2. CASE x \notin Rows
    <3>1. lock' = lock
      BY <1>1, <2>2 DEF TypeOK
    <3> QED
      BY <3>1
  <2> QED
    BY <2>1, <2>2
<1> HIDE DEF x
<1> QED
  BY <1>1, <1>3, <1>4, <1>5, KeptByMoving

LEMMA DecideKeeps ==
  ASSUME IInv, NEW r \in Requests, Decide(r)
  PROVE  IInv'
<1>1. CASE Raise(r)
  BY <1>1, RaiseKeeps
<1>2. CASE ~Raise(r)
  <2>1. /\ TypeOK /\ pc[r] = "decide" /\ call[r].op # "create"
        /\ lock[CommentRow(call[r].comment)] = r
        /\ Allowed(r)
        /\ pc' = [pc EXCEPT ![r] = "commit"]
        /\ UNCHANGED <<world, row, told, lock, call, seen>>
    BY <1>2 DEF IInv, StagesMatchCalls, RowIsHeld, Decide, Goto
  <2>2. /\ status[call[r].comment] = "active"
        /\ call[r].op = "edit" =>
             author[call[r].comment] = call[r].actor /\ Valid(call[r].body)
    BY <2>1 DEF Allowed, IsActive, MayWrite, IsAuthor
  <2>3. seen' \in [Requests -> [role : Roles \union {NotMember}, archived : SUBSET Holders,
                                mentioned : SUBSET Users]]
    BY <2>1 DEF TypeOK
  <2> QED
    BY <2>1, <2>2, <2>3, KeptByMoving
<1> QED
  BY <1>1, <1>2

-----------------------------------------------------------------------------
(* Steps that write a comment.                                             *)

\* The request that commits is the only one that has decided about the comment.
LEMMA CommitIsAlone ==
  ASSUME IInv, NEW r \in Requests, pc[r] = "commit",
         NEW q \in Requests \ {r}, call[q] # NoCall, call[q].comment = call[r].comment
  PROVE  /\ call[r].op # "create" /\ call[q].op # "create"
         /\ pc[q] \notin {"lock_author", "decide", "commit"}
<1>1. TypeOK /\ StagesMatchCalls
  BY DEF IInv
<1>2. call[r] # NoCall
  BY <1>1, FieldsOfRequests
<1>3. call[r].op # "create" /\ call[q].op # "create"
  BY <1>2 DEF IInv, CreationIsExclusive
<1> QED
  BY <1>3 DEF IInv, RowIsHeld

\* Then the invariant is a matter of the row that it writes.
LEMMA WriteKeeps ==
  ASSUME IInv, TypeOK', NEW r \in Requests, pc[r] = "commit", Answer(r),
         NEW c \in Comments, c = call[r].comment,
         status'[c] # "absent",
         \A d \in Comments \ {c} : status'[d] = status[d] /\ author'[d] = author[d],
         RemovedIsCleared', FeedIsExact'
  PROVE  IInv'
<1>1. TypeOK /\ StagesMatchCalls
  BY DEF IInv
<1>2. OthersStay(r) /\ pc'[r] = "idle" /\ call'[r] = NoCall
  BY <1>1, AnswerFrees
<1>3. \A q \in Requests : pc[q] # "idle" => call[q].comment \in Comments /\ call[q] # NoCall
  BY <1>1, FieldsOfRequests
<1>4. \A q \in Requests \ {r} : pc[q] = "idle" <=> call[q] = NoCall
  BY <1>1 DEF StagesMatchCalls
<1>5. StagesMatchCalls'
  BY <1>1, <1>2 DEF StagesMatchCalls, OthersStay
<1>6. CreationIsExclusive'
  <2>1. SUFFICES ASSUME NEW q \in Requests \ {r}, call[q] # NoCall
                 PROVE  /\ call[q].op = "create" <=> status'[call[q].comment] = "absent"
                        /\ call[q].op = "create" =>
                             \A p \in Requests \ {q} :
                               call'[p] # NoCall => call'[p].comment # call[q].comment
    BY <1>2 DEF CreationIsExclusive, OthersStay
  <2>2. /\ call[q].op = "create" <=> status[call[q].comment] = "absent"
        /\ call[q].op = "create" =>
             \A p \in Requests \ {q} :
               call[p] # NoCall => call[p].comment # call[q].comment
    BY <2>1 DEF IInv, CreationIsExclusive
  <2>3. call[q].op = "create" <=> status'[call[q].comment] = "absent"
    <3>1. CASE call[q].comment = c
      BY <2>1, <3>1, CommitIsAlone
    <3>2. CASE call[q].comment # c
      BY <1>3, <1>4, <2>1, <2>2, <3>2
    <3> QED
      BY <3>1, <3>2
  <2> QED
    BY <1>2, <2>2, <2>3 DEF OthersStay
<1>7. RowIsHeld'
  <2>1. SUFFICES ASSUME NEW q \in Requests \ {r},
                        pc[q] \in {"lock_author", "decide", "commit"}, call[q].op # "create"
                 PROVE  lock'[CommentRow(call[q].comment)] = q
    BY <1>2 DEF RowIsHeld, OthersStay
  <2>2. call[q].comment \in Comments /\ lock[CommentRow(call[q].comment)] = q
    BY <1>3, <2>1 DEF IInv, RowIsHeld
  <2> QED
    BY <1>2, <2>2, RowsAreRows DEF OthersStay
<1>8. DecisionStands'
  <2>1. SUFFICES ASSUME NEW q \in Requests \ {r}, pc[q] = "commit"
                 PROVE  /\ call[q].op # "create" => status'[call[q].comment] = "active"
                        /\ call[q].op = "edit" => author'[call[q].comment] = call[q].actor
                        /\ call[q].op \in {"create", "edit"} => Valid(call[q].body)
    BY <1>2 DEF DecisionStands, OthersStay, Valid
  <2>2. call[q].comment \in Comments \ {c}
    BY <1>3, <2>1, CommitIsAlone
  <2> QED
    BY <2>1, <2>2 DEF IInv, DecisionStands
<1> QED
  BY <1>5, <1>6, <1>7, <1>8 DEF IInv

LEMMA CommitCommentKeeps ==
  ASSUME IInv, NEW r \in Requests, CommitComment(r)
  PROVE  IInv'
<1> DEFINE found == seen[r].mentioned
<1>1. TypeOK /\ StagesMatchCalls /\ pc[r] = "commit" /\ call[r].op = "create"
  BY DEF IInv, CommitComment
<1>2. PICK c \in Comments :
        /\ c = call[r].comment /\ call[r].actor \in Users /\ call[r] # NoCall
        /\ call[r].body \in Bodies
  BY <1>1, FieldsOfRequests DEF IInv, DecisionStands, Valid
<1>3. status[c] = "absent"
  BY <1>1, <1>2 DEF IInv, CreationIsExclusive
<1>4. /\ status' = [status EXCEPT ![c] = "active"]
      /\ body' = [body EXCEPT ![c] = call[r].body]
      /\ author' = [author EXCEPT ![c] = call[r].actor]
      /\ mentions' = mentions \union ({c} \X found)
      /\ feed' = feed \union {<<"added", c, call[r].actor>>}
                      \union {<<"mentioned", c, u>> : u \in found}
      /\ dispatched' \subseteq dispatched \union {<<"comment_added", c>>, <<"mentioned", c>>}
      /\ Answer(r) /\ UNCHANGED <<edited, world>>
  BY <1>2 DEF CommitComment
<1>5. found \subseteq Users
  BY <1>1 DEF TypeOK
<1> HIDE DEF found
<1>6. TypeOK'
  <2>1. /\ status' \in [Comments -> Statuses] /\ body' \in [Comments -> Bodies \union {Empty}]
        /\ author' \in [Comments -> Users \union {Nobody}]
        /\ edited' \in [Comments -> BOOLEAN]
        /\ role' \in [Users -> Roles \union {NotMember}] /\ archived' \subseteq Holders
        /\ closed' \subseteq {d \in Comments : status'[d] # "absent"}
    BY <1>1, <1>2, <1>4 DEF TypeOK, world, Statuses
  <2>2. mentions' \subseteq Comments \X Users
    BY <1>1, <1>2, <1>4, <1>5 DEF TypeOK
  <2>3. feed' \subseteq {"added", "edited", "deleted", "redacted", "mentioned"} \X Comments \X Users
    BY <1>1, <1>2, <1>4, <1>5 DEF TypeOK
  <2>4. dispatched' \subseteq {"comment_added", "mentioned"} \X Comments
    BY <1>1, <1>2, <1>4 DEF TypeOK
  <2> QED
    BY <1>1, <1>4, <2>1, <2>2, <2>3, <2>4, AnswerFrees DEF TypeOK
<1>7. RemovedIsCleared'
  BY <1>1, <1>2, <1>4 DEF IInv, TypeOK, RemovedIsCleared, Removals
<1>8. FeedIsExact'
  <2>1. \A d \in Comments : \A v \in {"added", "edited", "deleted", "redacted"} :
          v # "added" \/ d # c => Entries(v, d)' = Entries(v, d)
    BY <1>4 DEF Entries
  <2>2. Entries("added", c)' = Entries("added", c) \union {<<"added", c, call[r].actor>>}
    BY <1>4 DEF Entries
  <2>3. Entries("added", c) = {}
    BY <1>3 DEF IInv, FeedIsExact
  <2>4. Entries("added", c)' = {<<"added", c, call[r].actor>>}
    BY <2>2, <2>3
  <2>5. /\ status'[c] = "active" /\ author'[c] = call[r].actor /\ edited' = edited
        /\ \A d \in Comments \ {c} : status'[d] = status[d] /\ author'[d] = author[d]
    BY <1>1, <1>4 DEF TypeOK
  <2>6. ~edited[c]
    BY <1>3 DEF IInv, FeedIsExact
  <2> QED
    BY <1>3, <2>1, <2>4, <2>5, <2>6 DEF IInv, FeedIsExact, Removals
<1>9. /\ status'[c] # "absent"
      /\ \A d \in Comments \ {c} : status'[d] = status[d] /\ author'[d] = author[d]
  BY <1>1, <1>4 DEF TypeOK
<1> QED
  BY <1>1, <1>2, <1>4, <1>6, <1>7, <1>8, <1>9, WriteKeeps

LEMMA CommitEditKeeps ==
  ASSUME IInv, NEW r \in Requests, CommitEdit(r)
  PROVE  IInv'
<1>1. TypeOK /\ StagesMatchCalls /\ pc[r] = "commit" /\ call[r].op = "edit"
  BY DEF IInv, CommitEdit
<1>2. PICK c \in Comments :
        /\ c = call[r].comment /\ call[r].actor \in Users /\ call[r].body \in Bodies
        /\ status[c] = "active" /\ author[c] = call[r].actor
  BY <1>1, FieldsOfRequests DEF IInv, DecisionStands, Valid
<1>3. /\ body' = [body EXCEPT ![c] = call[r].body]
      /\ edited' = [edited EXCEPT ![c] = TRUE]
      /\ feed' = feed \union {<<"edited", c, call[r].actor>>}
      /\ Answer(r) /\ UNCHANGED <<status, author, mentions, dispatched, world>>
  BY <1>2 DEF CommitEdit
<1>4. TypeOK'
  BY <1>1, <1>2, <1>3, AnswerFrees DEF TypeOK, world
<1>5. RemovedIsCleared'
  BY <1>1, <1>2, <1>3 DEF IInv, TypeOK, RemovedIsCleared, Removals
<1>6. FeedIsExact'
  <2>1. \A d \in Comments : \A v \in {"added", "edited", "deleted", "redacted"} :
          v # "edited" \/ d # c => Entries(v, d)' = Entries(v, d)
    BY <1>3 DEF Entries
  <2>2. Entries("edited", c)' = Entries("edited", c) \union {<<"edited", c, author[c]>>}
    BY <1>2, <1>3 DEF Entries
  <2>3. Entries("edited", c) \subseteq {<<"edited", c, author[c]>>}
    BY <1>2 DEF IInv, FeedIsExact
  <2>4. Entries("edited", c)' = {<<"edited", c, author[c]>>}
    BY <2>2, <2>3
  <2>5. /\ edited'[c] = TRUE /\ status' = status /\ author' = author
        /\ \A d \in Comments \ {c} : edited'[d] = edited[d]
    BY <1>1, <1>2, <1>3 DEF TypeOK
  <2> QED
    BY <1>2, <2>1, <2>4, <2>5 DEF IInv, FeedIsExact, Removals
<1> QED
  BY <1>1, <1>2, <1>3, <1>4, <1>5, <1>6, WriteKeeps

LEMMA CommitRemovalKeeps ==
  ASSUME IInv, NEW r \in Requests, CommitRemoval(r)
  PROVE  IInv'
<1>1. TypeOK /\ StagesMatchCalls /\ pc[r] = "commit" /\ call[r].op # "create"
  BY DEF IInv, CommitRemoval
<1>2. PICK c \in Comments, after \in Removals :
        /\ c = call[r].comment /\ after = StatusAfter(call[r].op)
        /\ call[r].actor \in Users /\ status[c] = "active"
  BY <1>1, FieldsOfRequests DEF IInv, DecisionStands, StatusAfter, Removals
<1>3. /\ status' = [status EXCEPT ![c] = after]
      /\ body' = [body EXCEPT ![c] = Empty]
      /\ feed' = feed \union {<<after, c, call[r].actor>>}
      /\ Answer(r) /\ UNCHANGED <<author, edited, mentions, dispatched, world>>
  BY <1>2 DEF CommitRemoval, BodyAfter
<1>4. TypeOK'
  BY <1>1, <1>2, <1>3, AnswerFrees DEF TypeOK, world, Statuses, Removals
<1>5. RemovedIsCleared'
  BY <1>1, <1>2, <1>3 DEF IInv, TypeOK, RemovedIsCleared
<1>6. FeedIsExact'
  <2>1. \A d \in Comments : \A v \in {"added", "edited", "deleted", "redacted"} :
          v # after \/ d # c => Entries(v, d)' = Entries(v, d)
    BY <1>3 DEF Entries
  <2>2. Entries(after, c)' = Entries(after, c) \union {<<after, c, call[r].actor>>}
    BY <1>3 DEF Entries
  <2>3. \A v \in Removals : Entries(v, c) = {}
    BY <1>2 DEF IInv, FeedIsExact, Removals
  <2>4. Entries(after, c)' = {<<after, c, call[r].actor>>}
    BY <2>2, <2>3
  <2>5. /\ status'[c] = after /\ author' = author /\ edited' = edited
        /\ \A d \in Comments \ {c} : status'[d] = status[d]
    BY <1>1, <1>2, <1>3 DEF TypeOK
  <2> QED
    BY <1>2, <2>1, <2>3, <2>4, <2>5 DEF IInv, FeedIsExact, Removals
<1> QED
  BY <1>1, <1>2, <1>3, <1>4, <1>5, <1>6, WriteKeeps DEF Removals

-----------------------------------------------------------------------------
(* The invariant.                                                          *)

\* Archiving, roles and the edit window are nobody's decision here: what a
\* request has decided does not rest on them.
LEMMA WorldKeeps ==
  ASSUME IInv, UNCHANGED <<row, told, reqs>>, TypeOK'
  PROVE  IInv'
  BY DEF IInv, row, told, reqs, StagesMatchCalls, CreationIsExclusive, RowIsHeld,
     DecisionStands, Valid, RemovedIsCleared, FeedIsExact, Entries

LEMMA ServeKeeps ==
  ASSUME IInv, NEW r \in Requests, Serve(r)
  PROVE  IInv'
  BY RaiseKeeps, ResolveKeeps, LockCommentKeeps, LockAuthorKeeps, DecideKeeps,
     CommitCommentKeeps, CommitEditKeeps, CommitRemovalKeeps
     DEF Serve, RefuseComment, DeadlockAbort, AnswerVictim

LEMMA StepKeeps ==
  ASSUME IInv, [Next]_vars
  PROVE  IInv'
<1>1. TypeOK
  BY DEF IInv
<1>2. ASSUME NEW h \in Archivable, ArchiveOrRestore(h)
      PROVE  IInv'
  BY <1>1, <1>2, WorldKeeps, ArchivableAssumption DEF ArchiveOrRestore, TypeOK, row, told, reqs
<1>3. ASSUME NEW p \in RoleChanges, ChangeRole(p[1], p[2])
      PROVE  IInv'
  <2>1. p[1] \in Users /\ p[2] \in Roles \union {NotMember}
    BY RolesAssumption
  <2> QED
    BY <1>1, <1>3, <2>1, WorldKeeps DEF ChangeRole, TypeOK, row, told, reqs
<1>4. ASSUME NEW c \in Comments, CloseWindow(c)
      PROVE  IInv'
  BY <1>1, <1>4, WorldKeeps DEF CloseWindow, TypeOK, row, told, reqs
<1>5. CASE UNCHANGED vars
  BY <1>1, <1>5, WorldKeeps DEF vars, world, TypeOK, row, told, reqs
<1> QED
  BY <1>2, <1>3, <1>4, <1>5, SubmitKeeps, ServeKeeps DEF Next

LEMMA InitHolds ==
  ASSUME Init
  PROVE  IInv
<1>1. NothingSeen \in [role : Roles \union {NotMember}, archived : SUBSET Holders,
                       mentioned : SUBSET Users]
  BY DEF NothingSeen
<1>2. TypeOK
  BY <1>1, RolesAssumption DEF Init, TypeOK, Statuses
<1>3. FeedIsExact /\ RemovedIsCleared
  BY DEF Init, FeedIsExact, RemovedIsCleared, Entries, Removals
<1>4. StagesMatchCalls /\ CreationIsExclusive /\ RowIsHeld /\ DecisionStands
  BY DEF Init, StagesMatchCalls, CreationIsExclusive, RowIsHeld, DecisionStands
<1> QED
  BY <1>2, <1>3, <1>4 DEF IInv

\* A request that decides about a comment holds its row, creates alone, and
\* what it decided holds until it commits (the locks of comments/services.py).
THEOREM InvariantHolds == Spec => []IInv
<1>1. Init => IInv
  BY InitHolds
<1>2. IInv /\ [Next]_vars => IInv'
  BY StepKeeps
<1> QED
  BY <1>1, <1>2, PTL DEF Spec

\* The feed tells who added each comment, that its author edited it, and who
\* removed it, once, however many requests wanted to (record_activity in
\* create_comment, edit_comment, delete_comment and redact_comment).
THEOREM FeedTellsTheTruth == Spec => []FeedMatchesRow
<1>1. IInv => FeedMatchesRow
  <2>1. SUFFICES ASSUME IInv, NEW c \in Comments, NEW v \in Removals
                 PROVE  Cardinality(Entries(v, c)) = IF status[c] = v THEN 1 ELSE 0
    BY DEF IInv, FeedIsExact, FeedMatchesRow, Entries
  <2>2. CASE status[c] = v
    <3>1. PICK u \in Users : Entries(v, c) = {<<v, c, u>>}
      BY <2>1, <2>2 DEF IInv, FeedIsExact
    <3> QED
      BY <2>2, <3>1, FS_Singleton
  <2>3. CASE status[c] # v
    BY <2>1, <2>3, FS_EmptySet DEF IInv, FeedIsExact
  <2> QED
    BY <2>2, <2>3
<1> QED
  BY <1>1, InvariantHolds, PTL

\* Nothing brings a removed comment back, edits it or keeps its text: edits
\* and removals that waited for the row find it removed (delete_comment,
\* redact_comment).
THEOREM RemovalIsFinal == Spec => RemovedForGood
<1> DEFINE Final == \A c \in Comments :
              /\ status[c] \in Removals => status'[c] = status[c] /\ edited'[c] = edited[c]
              /\ status'[c] \in Removals => body'[c] = Empty
<1>1. IInv /\ [Next]_vars => [Final]_vars
  <2>1. SUFFICES ASSUME IInv, [Next]_vars, NEW c \in Comments, status[c] \in Removals
                 PROVE  status'[c] = status[c] /\ edited'[c] = edited[c]
    BY StepKeeps DEF IInv, RemovedIsCleared
  <2>2. TypeOK /\ status[c] # "active" /\ status[c] # "absent"
    BY <2>1 DEF IInv, Removals
  <2>3. \A r \in Requests : pc[r] = "commit" =>
          /\ call[r].op = "create" => status[call[r].comment] = "absent"
          /\ call[r].op # "create" => status[call[r].comment] = "active"
    BY <2>1, <2>2, FieldsOfRequests DEF IInv, CreationIsExclusive, DecisionStands
  <2>4. CASE UNCHANGED row
    BY <2>4 DEF row
  <2>5. CASE \E r \in Requests : CommitComment(r) \/ CommitEdit(r) \/ CommitRemoval(r)
    <3>1. PICK r \in Requests : CommitComment(r) \/ CommitEdit(r) \/ CommitRemoval(r)
      BY <2>5
    <3>2. call[r].comment # c
      BY <2>2, <2>3, <3>1 DEF CommitComment, CommitEdit, CommitRemoval
    <3> QED
      BY <2>2, <3>1, <3>2 DEF TypeOK, CommitComment, CommitEdit, CommitRemoval
  <2> QED
    BY <2>1, <2>4, <2>5 DEF Next, Serve, Submit, ResolveMentions, RefuseComment, Raise,
       LockComment, LockAuthor, Decide, DeadlockAbort, AnswerVictim,
       ArchiveOrRestore, ChangeRole, CloseWindow, vars
<1> QED
  BY <1>1, InvariantHolds, PTL DEF Spec, RemovedForGood
=============================================================================
