----------------------------- MODULE PlatformProofs -----------------------------
(***************************************************************************)
(* Theorems about the parts around bugs, for every value of the constants. *)
(* Each part has an inductive invariant of its own; a behaviour of the     *)
(* platform is a behaviour of each part, so what a part's specification    *)
(* promises the platform keeps.                                            *)
(***************************************************************************)
EXTENDS Platform, FiniteSetTheorems, SequenceTheorems, TLAPS

-----------------------------------------------------------------------------
(* Contexts: log lines are attributed and ids handed on.  What ContextInv  *)
(* adds to the two is that a thread without a job knows of none, and that  *)
(* the message of a task that a request dispatched has its id, which a     *)
(* retry depends on.                                                       *)

\* A thread between two jobs remembers neither.
IdleIsIdle == \A t \in Threads : stage[t] = "idle" => job[t] = Contexts!Idle

\* The header of a task that a request dispatched is the request's id.
HeaderIsTheId ==
  \A t \in Threads : stage[t] = "task" /\ job[t].id # None => job[t].header = job[t].id

\* A request has come from a client.
RequestsHaveClients ==
  \A t \in Threads : stage[t] \in Contexts!RequestStages => job[t].client \in Clients

\* Nobody is bound in a task.
TasksActForNobody == \A t \in Threads : stage[t] = "task" => job[t].user = None

ContextInv ==
  /\ Contexts!TypeOK
  /\ Contexts!LinesAreAttributed
  /\ Contexts!DescendantsCarryTheId
  /\ IdleIsIdle
  /\ HeaderIsTheId
  /\ RequestsHaveClients
  /\ TasksActForNobody

\* A request publishes under its own id.
LEMMA PublishKeeps ==
  ASSUME Contexts!ContextAssumption, ContextInv, NEW t \in Threads, Contexts!Publish(t)
  PROVE  queue' \subseteq Contexts!Messages /\ \A m \in queue' : m.root # None => m.header = m.root
  BY DEF ContextInv, Contexts!TypeOK, Contexts!DescendantsCarryTheId, Contexts!Publish,
         Contexts!Headers, Contexts!Messages

LEMMA ContextInit == Contexts!ContextAssumption /\ Contexts!Init => ContextInv
  BY DEF Contexts!ContextAssumption, Contexts!Init, ContextInv, Contexts!TypeOK,
         Contexts!LinesAreAttributed, Contexts!DescendantsCarryTheId, IdleIsIdle, HeaderIsTheId,
         RequestsHaveClients, TasksActForNobody, Contexts!Idle, Contexts!Job, Contexts!Messages,
         Contexts!RequestStages, Contexts!Ids

\* What the actions of requests leave of the invariant.
LEMMA RequestKeeps ==
  ASSUME Contexts!ContextAssumption, ContextInv, NEW t \in Threads,
         \/ \E c \in Clients : Contexts!Receive(t, c)
         \/ Contexts!Authenticate(t) \/ Contexts!LoginFails(t) \/ Contexts!Logout(t)
         \/ Contexts!View(t)
         \/ \E u \in Users : Contexts!Login(t, u)
         \/ Contexts!LogCompletion(t) \/ Contexts!Leave(t)
  PROVE  ContextInv'
<1> USE DEF ContextInv, Contexts!TypeOK, Contexts!LinesAreAttributed,
            Contexts!DescendantsCarryTheId, IdleIsIdle, HeaderIsTheId, RequestsHaveClients,
            TasksActForNobody, Contexts!Idle, Contexts!Job, Contexts!Goto, Contexts!RequestStages
<1>1. CASE \E c \in Clients : Contexts!Receive(t, c)
  <2>0. PICK c \in Clients : Contexts!Receive(t, c)
    BY <1>1
  <2>1. PICK id \in Contexts!Ids :
          /\ stage[t] = "idle"
          /\ used' = used \/ used' = id
          /\ requestId' = [requestId EXCEPT ![t] = id]
          /\ job' = [job EXCEPT ![t] = [client |-> c, id |-> id, user |-> None, header |-> None]]
          /\ stage' = [stage EXCEPT ![t] = "received"]
          /\ session' = session /\ actor' = actor /\ queue' = queue
    BY <2>0 DEF Contexts!Receive, Contexts!Fresh, Contexts!Bind, Contexts!Job
  <2>2. id # None
    BY DEF Contexts!ContextAssumption
  <2>3. Contexts!TypeOK'
    BY <2>1
  <2>4. Contexts!LinesAreAttributed'
    BY <2>1, <2>2
  <2>5. Contexts!DescendantsCarryTheId' /\ IdleIsIdle'
    BY <2>1
  <2>6. HeaderIsTheId' /\ RequestsHaveClients' /\ TasksActForNobody'
    BY <2>1
  <2> QED
    BY <2>3, <2>4, <2>5, <2>6
<1>2. CASE Contexts!Authenticate(t)
  <2>1. CASE session[job[t].client] # None /\ Contexts!BindActor(t, session[job[t].client])
    <3>1. session[job[t].client] \in Users
      BY <1>2, <2>1 DEF Contexts!Authenticate
    <3> QED
      BY <1>2, <2>1, <3>1 DEF Contexts!Authenticate, Contexts!BindActor
  <2>2. CASE UNCHANGED <<actor, job>>
    BY <1>2, <2>2 DEF Contexts!Authenticate
  <2> QED
    BY <1>2, <2>1, <2>2 DEF Contexts!Authenticate
<1>3. CASE Contexts!LoginFails(t)
  BY <1>3 DEF Contexts!LoginFails
<1>4. CASE Contexts!Logout(t)
  BY <1>4 DEF Contexts!Logout
<1>5. CASE Contexts!View(t)
  <2>1. queue' \subseteq Contexts!Messages /\ \A m \in queue' : m.root # None => m.header = m.root
    BY <1>5, PublishKeeps DEF Contexts!View
  <2> QED
    BY <1>5, <2>1 DEF Contexts!View
<1>6. CASE \E u \in Users : Contexts!Login(t, u)
  BY <1>6 DEF Contexts!Login, Contexts!BindActor
<1>7. CASE Contexts!LogCompletion(t)
  BY <1>7 DEF Contexts!LogCompletion
<1>8. CASE Contexts!Leave(t)
  BY <1>8 DEF Contexts!Leave, Contexts!Reset, Contexts!ClearActor
<1> QED
  BY <1>1, <1>2, <1>3, <1>4, <1>5, <1>6, <1>7, <1>8

\* What the actions of tasks and commands leave of it.
LEMMA TaskKeeps ==
  ASSUME Contexts!ContextAssumption, ContextInv, NEW t \in Threads,
         \/ \E m \in queue : Contexts!Execute(t, m)
         \/ Contexts!PublishFromTask(t) \/ Contexts!EndTask(t) \/ Contexts!PublishFromCommand
  PROVE  ContextInv'
<1> USE DEF ContextInv, Contexts!TypeOK, Contexts!LinesAreAttributed,
            Contexts!DescendantsCarryTheId, IdleIsIdle, HeaderIsTheId, RequestsHaveClients,
            TasksActForNobody, Contexts!Idle, Contexts!Job, Contexts!Goto, Contexts!RequestStages
<1>1. CASE \E m \in queue : Contexts!Execute(t, m)
  <2>0. PICK m \in queue : Contexts!Execute(t, m)
    BY <1>1
  <2>2. /\ m.root # None => m.header = m.root
        /\ m.header \in Contexts!Ids \union {None} /\ m.root \in Contexts!Ids \union {None}
    BY DEF Contexts!Messages
  <2>1. PICK id \in Contexts!Ids :
          /\ stage[t] = "idle"
          /\ id = m.header \/ m.header = None
          /\ used' = used \/ used' = id
          /\ requestId' = [requestId EXCEPT ![t] = id]
          /\ job' = [job EXCEPT ![t] =
               [client |-> None, id |-> m.root, user |-> None, header |-> m.header]]
          /\ queue' \in {queue \ {m}, queue}
          /\ stage' = [stage EXCEPT ![t] = "task"]
          /\ session' = session /\ actor' = actor
    BY <2>0 DEF Contexts!Execute, Contexts!Propagated, Contexts!Fresh, Contexts!Bind, Contexts!Job
  <2>3. id # None
    BY DEF Contexts!ContextAssumption
  <2>4. Contexts!TypeOK'
    BY <2>1, <2>2, <2>3
  <2>5. Contexts!LinesAreAttributed'
    BY <2>1, <2>2, <2>3
  <2>6. Contexts!DescendantsCarryTheId' /\ IdleIsIdle'
    BY <2>1, <2>2, <2>3
  <2>7. HeaderIsTheId' /\ RequestsHaveClients' /\ TasksActForNobody'
    BY <2>1, <2>2, <2>3
  <2> QED
    BY <2>4, <2>5, <2>6, <2>7
<1>2. CASE Contexts!PublishFromTask(t)
  <2>1. queue' \subseteq Contexts!Messages /\ \A m \in queue' : m.root # None => m.header = m.root
    BY <1>2, PublishKeeps DEF Contexts!PublishFromTask
  <2> QED
    BY <1>2, <2>1 DEF Contexts!PublishFromTask
<1>3. CASE Contexts!EndTask(t)
  <2>1. queue' \subseteq Contexts!Messages /\ \A m \in queue' : m.root # None => m.header = m.root
    <3>1. job[t].header \in Contexts!Ids \union {None} /\ job[t].id \in Contexts!Ids \union {None}
      OBVIOUS
    <3>2. [header |-> job[t].header, root |-> job[t].id] \in Contexts!Messages
      BY <3>1 DEF Contexts!Messages
    <3>3. job[t].id # None => job[t].header = job[t].id
      BY <1>3 DEF Contexts!EndTask
    <3> QED
      BY <1>3, <3>2, <3>3 DEF Contexts!EndTask
  <2>2. /\ requestId' = [requestId EXCEPT ![t] = None]
        /\ job' = [job EXCEPT ![t] = Contexts!Idle]
        /\ stage' = [stage EXCEPT ![t] = "idle"]
        /\ session' = session /\ actor' = actor /\ used' = used
        /\ stage[t] = "task"
    BY <1>3 DEF Contexts!EndTask, Contexts!Reset
  <2>3. actor[t] = None
    BY <2>2
  <2>4. Contexts!TypeOK'
    BY <2>1, <2>2
  <2>5. Contexts!LinesAreAttributed'
    BY <2>2, <2>3
  <2>6. Contexts!DescendantsCarryTheId' /\ IdleIsIdle'
    BY <2>1, <2>2
  <2>7. HeaderIsTheId' /\ RequestsHaveClients' /\ TasksActForNobody'
    BY <2>2
  <2> QED
    BY <2>4, <2>5, <2>6, <2>7
<1>4. CASE Contexts!PublishFromCommand
  BY <1>4 DEF Contexts!PublishFromCommand, Contexts!Messages
<1> QED
  BY <1>1, <1>2, <1>3, <1>4

LEMMA ContextStep ==
  ASSUME Contexts!ContextAssumption, ContextInv, [Contexts!Next]_(Contexts!vars)
  PROVE  ContextInv'
<1>1. CASE Contexts!Next
  <2>1. CASE \E t \in Threads :
               \/ \E c \in Clients : Contexts!Receive(t, c)
               \/ Contexts!Authenticate(t) \/ Contexts!LoginFails(t) \/ Contexts!Logout(t)
               \/ Contexts!View(t)
               \/ \E u \in Users : Contexts!Login(t, u)
               \/ Contexts!LogCompletion(t) \/ Contexts!Leave(t)
    BY <2>1, RequestKeeps
  <2>2. CASE \E t \in Threads :
               (\E m \in queue : Contexts!Execute(t,
               m)) \/ Contexts!PublishFromTask(t) \/ Contexts!EndTask(t)
    BY <2>2, TaskKeeps
  <2>3. CASE Contexts!PublishFromCommand
    BY <2>3 DEF Contexts!PublishFromCommand, ContextInv, Contexts!TypeOK,
                Contexts!LinesAreAttributed, Contexts!DescendantsCarryTheId, IdleIsIdle,
                HeaderIsTheId, RequestsHaveClients, TasksActForNobody, Contexts!Messages
  <2> QED
    BY <1>1, <2>1, <2>2, <2>3 DEF Contexts!Next
<1>2. CASE UNCHANGED Contexts!vars
  BY <1>2 DEF Contexts!vars, ContextInv, Contexts!TypeOK, Contexts!LinesAreAttributed,
              Contexts!DescendantsCarryTheId, IdleIsIdle, HeaderIsTheId, RequestsHaveClients,
              TasksActForNobody
<1> QED
  BY <1>1, <1>2

LEMMA ContextsMove == Spec => Contexts!Spec
<1>1. Init => Contexts!Init
  BY DEF Init
<1>2. [Next]_vars => [Contexts!Next]_(Contexts!vars)
  BY DEF Next, vars, contextVars, Contexts!vars, Seed, Serve, Attempt, Look, Upload, Edit, Work
<1> QED
  BY <1>1, <1>2, PTL DEF Spec, Contexts!Spec

\* However many threads serve however many clients and users, a thread between
\* jobs remembers neither id, actor nor job, and the message of a task that a
\* request dispatched has the request's id.
THEOREM ContextsAreSound == Spec => []ContextInv
<1>1. Contexts!Init => ContextInv
  BY ContextInit, PlatformAssumption
<1>2. ContextInv /\ [Contexts!Next]_(Contexts!vars) => ContextInv'
  BY ContextStep, PlatformAssumption
<1> QED
  BY <1>1, <1>2, ContextsMove, PTL DEF Contexts!Spec

\* A line carries the id and the actor of the job at hand, however threads
\* are reused and wherever a request is left (RequestIdMiddleware, the actor
\* context, task_correlation_context).
THEOREM LogsAreTrue == Spec => []LinesAreAttributed
<1>1. ContextInv => LinesAreAttributed
  BY DEF ContextInv, LinesAreAttributed
<1> QED
  BY <1>1, ContextsAreSound, PTL

\* What a request dispatches itself runs under its id, at the first delivery,
\* at every other and at every retry (correlation_headers,
\* task_correlation_context).  Of the tasks of tasks it says nothing.
THEOREM IdsAreHandedOn == Spec => []DescendantsCarryTheId
<1>1. ContextInv => DescendantsCarryTheId
  BY DEF ContextInv, DescendantsCarryTheId
<1> QED
  BY <1>1, ContextsAreSound, PTL

-----------------------------------------------------------------------------
(* Caching: the lag of the dashboard.  A value is as old as the request    *)
(* that computed it has been at work when it is stored, and what it ages   *)
(* in the cache it loses of its time to live.                              *)

\* A request has no value before its first query.
NoValueYet ==
  \A r \in Viewers : sectionPc[r] \in {"idle", "get", "query", "bypass"} => age[r] = 0

\* A value that is about to be stored was computed by this request.
StoresItsOwn == \A r \in Viewers : sectionPc[r] = "store" => age[r] <= spent[r]

\* Age and time to live together do not grow in the cache.
AgesOnItsTime == entry # None => entry.age + entry.left <= Caching!TTL + Latency

\* Since a request got its value, it has aged as long as the request at most.
AnswersInTime ==
  \A r \in Viewers :
    sectionPc[r] = "answer" => age[r] <= Caching!TTL + Latency + spent[r]

CacheInv ==
  /\ Caching!TypeOK
  /\ NoValueYet
  /\ StoresItsOwn
  /\ AgesOnItsTime
  /\ AnswersInTime

\* What is left of the time to live leaves room for one more tick.
LEMMA EntryBounds ==
  ASSUME CacheInv, entry # None
  PROVE  /\ entry.age \in Nat /\ entry.left \in 1 .. Caching!TTL
         /\ entry.age + entry.left <= Caching!TTL + Latency
  BY DEF CacheInv, Caching!TypeOK, Caching!Ages, AgesOnItsTime

LEMMA CacheInit == Caching!Init => CacheInv
  BY PlatformAssumption
     DEF Caching!CacheAssumption, Caching!Init, CacheInv, Caching!TypeOK, Caching!Ages, Caching!TTL,
         NoValueYet, StoresItsOwn, AgesOnItsTime, AnswersInTime

LEMMA CacheStep == CacheInv /\ [Caching!Next]_(Caching!vars) => CacheInv'
<1> SUFFICES ASSUME CacheInv, [Caching!Next]_(Caching!vars) PROVE CacheInv'
  OBVIOUS
<1>0. Caching!TTL \in Nat /\ Latency \in Nat
  BY PlatformAssumption DEF Caching!CacheAssumption, Caching!TTL
<1> USE <1>0 DEF CacheInv, Caching!TypeOK, Caching!Ages, NoValueYet, StoresItsOwn, AgesOnItsTime,
                 AnswersInTime, Caching!Goto
<1>1. ASSUME NEW r \in Viewers, Caching!Ask(r) PROVE CacheInv'
  BY <1>1 DEF Caching!Ask
<1>2. ASSUME NEW r \in Viewers, Caching!Hit(r) PROVE CacheInv'
  <2>1. /\ sectionPc[r] = "get" /\ entry # None
        /\ age' = [age EXCEPT ![r] = entry.age]
        /\ entry' = entry /\ spent' = spent
        /\ sectionPc' = [sectionPc EXCEPT ![r] = "answer"]
    BY <1>2 DEF Caching!Hit, Caching!AfterHit
  <2>2. entry.age \in Caching!Ages /\ entry.age <= Caching!TTL + Latency + spent[r]
    BY <2>1, EntryBounds
  <2> QED
    BY <2>1, <2>2
<1>3. ASSUME NEW r \in Viewers, Caching!Miss(r) \/ Caching!Unreadable(r) PROVE CacheInv'
  BY <1>3 DEF Caching!Miss, Caching!Unreadable
<1>4. ASSUME NEW r \in Viewers, Caching!Query(r) PROVE CacheInv'
  BY <1>4 DEF Caching!Query
<1>5. ASSUME NEW r \in Viewers, Caching!Store(r) PROVE CacheInv'
  <2>1. age[r] \in Caching!Ages /\ age[r] <= Latency
    BY <1>5 DEF Caching!Store
  <2>2. entry' = entry \/ entry' = None \/ (Caching!TTL # 0 /\ entry' = [age |-> age[r], left |-> Caching!TTL])
    BY <1>5 DEF Caching!Store
  <2>3. entry' \in {None} \union [age : Caching!Ages, left : 1 .. Caching!TTL]
    BY <2>1, <2>2
  <2>4. entry' # None => entry'.age + entry'.left <= Caching!TTL + Latency
    BY <2>1, <2>2
  <2>5. /\ sectionPc[r] = "store"
        /\ sectionPc' = [sectionPc EXCEPT ![r] = "answer"] /\ spent' = spent /\ age' = age
    BY <1>5 DEF Caching!Store
  <2> QED
    BY <2>1, <2>3, <2>4, <2>5
<1>6. ASSUME NEW r \in Viewers, Caching!Answer(r) PROVE CacheInv'
  BY <1>6 DEF Caching!Answer
<1>7. CASE Caching!Evict
  BY <1>7 DEF Caching!Evict
<1>8. CASE Caching!Tick
  <2>1. entry' \in {None} \union [age : Caching!Ages, left : 1 .. Caching!TTL]
        /\ (entry' # None => entry'.age + entry'.left <= Caching!TTL + Latency)
    <3>1. CASE entry = None \/ entry.left = 1
      BY <1>8, <3>1 DEF Caching!Tick
    <3>2. CASE entry # None /\ entry.left # 1
      <4>1. entry' = [age |-> entry.age + 1, left |-> entry.left - 1]
        BY <1>8, <3>2 DEF Caching!Tick
      <4>2. /\ entry.age \in Nat /\ entry.left \in 1 .. Caching!TTL
            /\ entry.age + entry.left <= Caching!TTL + Latency
        BY <3>2, EntryBounds
      <4>3. entry.age + 1 \in Caching!Ages /\ entry.left - 1 \in 1 .. Caching!TTL
        BY <3>2, <4>2
      <4> QED
        BY <4>1, <4>2, <4>3
    <3> QED
      BY <3>1, <3>2
  <2>2. ASSUME NEW r \in Viewers
        PROVE  /\ spent'[r] = IF sectionPc[r] = "idle" THEN 0 ELSE spent[r] + 1
               /\ spent'[r] \in 0 .. Latency
               /\ age'[r] = IF sectionPc[r] \in {"store", "answer"} THEN age[r] + 1 ELSE age[r]
    BY <1>8 DEF Caching!Tick
  <2>3. ASSUME NEW r \in Viewers PROVE age'[r] \in Caching!Ages
    BY <2>2
  <2>4. sectionPc' = sectionPc /\ spent' \in [Viewers -> 0 .. Latency]
        /\ age' \in [Viewers -> Caching!Ages]
    BY <1>8, <2>2, <2>3 DEF Caching!Tick
  <2>5. NoValueYet' /\ StoresItsOwn' /\ AnswersInTime'
    BY <2>2, <2>4
  <2> QED
    BY <2>1, <2>4, <2>5
<1>9. CASE UNCHANGED Caching!vars
  BY <1>9 DEF Caching!vars
<1> QED
  BY <1>1, <1>2, <1>3, <1>4, <1>5, <1>6, <1>7, <1>8, <1>9 DEF Caching!Next

LEMMA CachingMoves == Spec => Caching!Spec
<1>1. Init => Caching!Init
  BY DEF Init
<1>2. [Next]_vars => [Caching!Next]_(Caching!vars)
  BY DEF Next, vars, cacheVars, Caching!vars, Seed, Serve, Attempt, Look, Upload, Edit, Work
<1> QED
  BY <1>1, <1>2, PTL DEF Spec, Caching!Spec

\* cache_or_compute: for every time to live and every latency, and however
\* many requests compute, store late and read one key, what is answered is no
\* older than the time to live and twice the latency.
THEOREM DashboardLagIsBounded == Spec => []LagIsBounded
<1>1. CacheInv => LagIsBounded
  <2>1. Latency \in Nat /\ Caching!TTL \in Nat
    BY PlatformAssumption DEF Caching!CacheAssumption, Caching!TTL
  <2> QED
    BY <2>1 DEF CacheInv, AnswersInTime, Caching!TypeOK, Caching!Ages, LagIsBounded,
                Caching!LagIsBounded
<1> QED
  BY <1>1, CacheInit, CacheStep, CachingMoves, PTL DEF Caching!Spec

-----------------------------------------------------------------------------
(* Attachments: what the feed and the row say.  Both are written under the *)
(* row's lock by whoever finds the row as the step needs it, so the row    *)
(* alone decides what the feed has.                                        *)

\* Only an uploaded file is removed.
RemovalNeedsUpload == removed => status = "uploaded"

UploadInv ==
  /\ status \in {"none", "pending", "uploaded", "failed"}
  /\ removed \in BOOLEAN
  /\ RemovalNeedsUpload
  /\ Uploading!FeedMatchesRow

LEMMA UploadInit == Uploading!Init => UploadInv
<1>1. <<>> \o <<>> = <<>>
  <2>1. <<>> \in Seq({"ADDED"})
    OBVIOUS
  <2> QED
    BY <2>1, ConcatEmptySeq
<1> QED
  BY <1>1 DEF Uploading!Init, UploadInv, RemovalNeedsUpload, Uploading!FeedMatchesRow

\* What a step may do to the row: nothing, or one move of its life cycle,
\* which the feed tells of.
RowMoves ==
  \/ status' = status /\ removed' = removed /\ feed' = feed
  \/ status = "none" /\ status' = "pending" /\ removed' = removed /\ feed' = feed
  \/ status = "pending" /\ status' = "failed" /\ removed' = removed /\ feed' = feed
  \/ status = "pending" /\ status' = "uploaded" /\ removed' = removed /\ feed' = Append(feed, "ADDED")
  \/ status = "uploaded" /\ ~removed /\ status' = status /\ removed' = TRUE
     /\ feed' = Append(feed, "REMOVED")

LEMMA EachStepMovesTheRow == [Uploading!Next]_(Uploading!vars) => RowMoves
<1> SUFFICES ASSUME [Uploading!Next]_(Uploading!vars) PROVE RowMoves
  OBVIOUS
<1> USE DEF RowMoves, Uploading!row, Uploading!MayFail, Uploading!StillPending,
            Uploading!MayRemove
<1>1. CASE Uploading!InitiateUpload
  BY <1>1 DEF Uploading!InitiateUpload
<1>2. ASSUME NEW r \in Uploads, Uploading!BeginUpload(r) PROVE RowMoves
  BY <1>2 DEF Uploading!BeginUpload
<1>3. ASSUME NEW r \in Uploads, Uploading!MarkFailed(r) PROVE RowMoves
  BY <1>3 DEF Uploading!MarkFailed
<1>4. ASSUME NEW r \in Uploads,
             Uploading!Open(r) \/ Uploading!Write(r) \/ Uploading!Replace(r)
             \/ Uploading!StreamError(r) \/ Uploading!HeadObject(r)
      PROVE  RowMoves
  BY <1>4 DEF Uploading!Open, Uploading!Write, Uploading!Replace, Uploading!StreamError,
              Uploading!HeadObject
<1>5. ASSUME NEW r \in Uploads, Uploading!Flip(r) PROVE RowMoves
  BY <1>5 DEF Uploading!Flip
<1>6. ASSUME NEW r \in Uploads,
             Uploading!RefuseFlip(r) \/ Uploading!BeginRemove(r) \/ Uploading!RefuseRemove(r)
             \/ Uploading!Crash(r)
      PROVE  RowMoves
  BY <1>6 DEF Uploading!RefuseFlip, Uploading!BeginRemove, Uploading!RefuseRemove, Uploading!Crash
<1>7. ASSUME NEW r \in Uploads, Uploading!Remove(r) PROVE RowMoves
  BY <1>7 DEF Uploading!Remove
<1>8. CASE Uploading!DeleteObject
  BY <1>8 DEF Uploading!DeleteObject
<1>9. CASE Uploading!ArchiveOrRestoreBug
  BY <1>9 DEF Uploading!ArchiveOrRestoreBug
<1>10. CASE UNCHANGED Uploading!vars
  BY <1>10 DEF Uploading!vars
<1> HIDE DEF RowMoves
<1> QED
  BY <1>1, <1>2, <1>3, <1>4, <1>5, <1>6, <1>7, <1>8, <1>9, <1>10
     DEF Uploading!Next, Uploading!Serve

LEMMA UploadStep == UploadInv /\ RowMoves => UploadInv'
<1> SUFFICES ASSUME UploadInv, RowMoves PROVE UploadInv'
  OBVIOUS
<1> USE DEF UploadInv, RemovalNeedsUpload, Uploading!FeedMatchesRow, RowMoves
<1>1. CASE feed' = feed
  <2>1. /\ status' \in {"none", "pending", "uploaded", "failed"} /\ removed' \in BOOLEAN
        /\ removed' = removed
        /\ status' = "uploaded" <=> status = "uploaded"
    BY <1>1
  <2> QED
    BY <1>1, <2>1
<1>2. CASE status = "pending" /\ status' = "uploaded" /\ removed' = removed
           /\ feed' = Append(feed, "ADDED")
  <2>1. ~removed /\ feed = <<>>
    BY <1>2
  <2> QED
    BY <1>2, <2>1
<1>3. CASE status = "uploaded" /\ ~removed /\ status' = status /\ removed' = TRUE
           /\ feed' = Append(feed, "REMOVED")
  <2>1. feed = <<"ADDED">>
    BY <1>3
  <2> QED
    BY <1>3, <2>1
<1> QED
  BY <1>1, <1>2, <1>3

LEMMA UploadingMoves == Spec => Uploading!Spec
<1>1. Init => Uploading!Init
  BY DEF Init
<1>2. [Next]_vars => [Uploading!Next]_(Uploading!vars)
  BY DEF Next, vars, uploadVars, Uploading!vars, Uploading!row, Uploading!files, Uploading!upload,
         Seed, Serve, Attempt, Look, Upload, Edit, Work
<1> QED
  BY <1>1, <1>2, PTL DEF Spec, Uploading!Spec

\* What the activity feed says of an attachment follows from its row, whichever
\* uploads, removals and crashes overlap.
THEOREM UploadsAreSound == Spec => []UploadInv
  BY UploadInit, EachStepMovesTheRow, UploadStep, UploadingMoves, PTL DEF Uploading!Spec

\* receive_local_upload and remove_attachment: an attachment is announced once,
\* when it is uploaded, and its removal once after that.
THEOREM AnnouncedOnce == Spec => []FeedMatchesRow
<1>1. UploadInv => FeedMatchesRow
  BY DEF UploadInv, FeedMatchesRow
<1> QED
  BY <1>1, UploadsAreSound, PTL

\* Attachment: "a one-way upload lifecycle", and a removal that is never undone.
THEOREM UploadedForGood == Spec => StatusIsOneWay
<1>1. UploadInv /\ RowMoves =>
        /\ status' # status => status \in {"none", "pending"}
                               /\ (status = "none" => status' = "pending")
        /\ removed' # removed => removed' /\ status = "uploaded"
  BY DEF UploadInv, RowMoves
<1>2. UploadInv /\ [Uploading!Next]_(Uploading!vars) =>
        [/\ status' # status => status \in {"none", "pending"}
                                /\ (status = "none" => status' = "pending")
         /\ removed' # removed => removed' /\ status = "uploaded"]_(Uploading!vars)
  BY <1>1, EachStepMovesTheRow
<1> QED
  BY <1>2, UploadsAreSound, UploadingMoves, PTL
     DEF StatusIsOneWay, Uploading!StatusIsOneWay, Uploading!Spec

-----------------------------------------------------------------------------
(* Throttling: how many sign-ins fail in a window.  Requests that were     *)
(* admitted together may all fail, and those that have seen the counter    *)
(* expire write 1 over what the others have counted: each costs the window *)
(* what was counted by then.                                               *)

\* Admitted, and not answered or counted yet.
Admitted == {r \in Attempts : attemptPc[r] \in {"view", "add", "incr", "set"}}

\* About to write 1.
Overwriting == {r \in Attempts : attemptPc[r] = "set"}

\* Without a key nothing has failed.
NoKeyNoFailure == counter = 0 => failures = 0

\* The counter leaves room for those that may still raise it.
AdmittedInTime ==
  counter + Cardinality(Admitted) <= MAX_FAILED_ATTEMPTS + Cardinality(Attempts) - 1

\* Each request that is through with writing 1 over others' counts has cost
\* the limit, and one more for each that did so before it.
OverwritesAreBounded ==
  counter > 0 =>
    LET n == Cardinality(Attempts)
        m == n - 1 - Cardinality(Overwriting)
    IN m >= 0 /\ 2 * failures <= 2 * counter + m * (2 * MAX_FAILED_ATTEMPTS + m - 1)

ThrottleInv ==
  /\ Throttling!TypeOK
  /\ NoKeyNoFailure
  /\ AdmittedInTime
  /\ OverwritesAreBounded

\* One overwrite more.
LEMMA OneOverwriteMore ==
  ASSUME NEW m \in Nat, NEW c \in Nat, NEW f \in Nat, NEW max \in Nat \ {0},
         2 * f <= 2 * c + m * (2 * max + m - 1), c <= max + m
  PROVE  2 * (f + 1) <= 2 + (m + 1) * (2 * max + m)
<1>1. (m + 1) * (2 * max + m) = m * (2 * max + m - 1) + 2 * m + 2 * max
  OBVIOUS
<1>2. PICK x \in Int : x = m * (2 * max + m - 1)
  OBVIOUS
<1> QED
  BY <1>1, <1>2

\* What that comes to when all but one have overwritten.
LEMMA OverwritesAddUp ==
  ASSUME NEW m \in Nat, NEW c \in Nat, NEW f \in Nat, NEW max \in Nat \ {0}, NEW n \in Nat,
         2 * f <= 2 * c + m * (2 * max + m - 1), c <= max + m, m + 1 <= n
  PROVE  f <= n * max + (n * (n - 1)) \div 2
<1>1. 2 * c + m * (2 * max + m - 1) <= 2 * ((m + 1) * max) + (m + 1) * m
  OBVIOUS
<1>2. (m + 1) * max <= n * max /\ (m + 1) * m <= n * (n - 1)
  OBVIOUS
<1>3. PICK x \in Nat, y \in Nat : x = n * max /\ y = n * (n - 1)
  BY <1>2
<1>4. 2 * f <= 2 * x + y
  BY <1>1, <1>2, <1>3
<1>5. f <= x + y \div 2
  BY <1>4
<1> QED
  BY <1>3, <1>5

\* The part counts as everybody does.
LEMMA SameCardinality ==
  /\ \A S : Throttling!IsFiniteSet(S) <=> IsFiniteSet(S)
  /\ \A S : Throttling!Cardinality(S) = Cardinality(S)
<1>1. \A S : Throttling!IsFiniteSet(S) <=> IsFiniteSet(S)
  BY DEF Throttling!IsFiniteSet, IsFiniteSet
<1>2. \A S : Throttling!Cardinality(S) = Cardinality(S)
  BY DEF Throttling!Cardinality, Cardinality
<1> QED
  BY <1>1, <1>2

LEMMA AttemptsAreFinite ==
  /\ Cardinality(Attempts) \in Nat
  /\ IsFiniteSet(Admitted) /\ IsFiniteSet(Overwriting)
  /\ Cardinality(Admitted) \in Nat /\ Cardinality(Overwriting) \in Nat
  /\ Cardinality(Admitted) <= Cardinality(Attempts)
  /\ Cardinality(Overwriting) <= Cardinality(Admitted)
<1>1. IsFiniteSet(Attempts)
  BY PlatformAssumption, SameCardinality DEF Throttling!ThrottleAssumption
<1>2. Admitted \in SUBSET Attempts /\ Overwriting \in SUBSET Admitted
  BY DEF Admitted, Overwriting
<1>3. IsFiniteSet(Admitted) /\ Cardinality(Admitted) <= Cardinality(Attempts)
  BY <1>1, <1>2, FS_Subset
<1>4. IsFiniteSet(Overwriting) /\ Cardinality(Overwriting) <= Cardinality(Admitted)
  BY <1>2, <1>3, FS_Subset
<1> QED
  BY <1>1, <1>3, <1>4, FS_CardinalityType

\* The two sets after a step of one request.
LEMMA AfterTheStep ==
  ASSUME ThrottleInv, NEW r \in Attempts, NEW s \in Throttling!Stages, Throttling!Goto(r, s)
  PROVE  /\ Admitted' = IF s \in {"view", "add", "incr", "set"} THEN Admitted \union {r}
                        ELSE Admitted \ {r}
         /\ Overwriting' = IF s = "set" THEN Overwriting \union {r} ELSE Overwriting \ {r}
  BY DEF ThrottleInv, Throttling!TypeOK, Throttling!Goto, Admitted, Overwriting

\* A request that is done with the counter, as the two sets count it.
LEMMA DoneWithTheCounter ==
  ASSUME ThrottleInv, NEW r \in Admitted, NEW s \in {"idle", "delete"}, Throttling!Goto(r, s)
  PROVE  /\ Cardinality(Admitted') = Cardinality(Admitted) - 1
         /\ Cardinality(Overwriting') = IF attemptPc[r] = "set" THEN Cardinality(Overwriting) - 1
                                        ELSE Cardinality(Overwriting)
<1>1. r \in Attempts /\ s \in Throttling!Stages
  BY DEF Admitted, Throttling!Stages
<1>2. Admitted' = Admitted \ {r} /\ Overwriting' = Overwriting \ {r}
  BY <1>1, AfterTheStep
<1>3. r \in Overwriting <=> attemptPc[r] = "set"
  BY <1>1 DEF Overwriting
<1> QED
  BY <1>2, <1>3, AttemptsAreFinite, FS_RemoveElement

LEMMA ThrottleInit == Throttling!Init => ThrottleInv
<1> SUFFICES ASSUME Throttling!Init PROVE ThrottleInv
  OBVIOUS
<1>1. Admitted = {}
  BY DEF Throttling!Init, Admitted
<1>2. Cardinality(Admitted) = 0
  BY <1>1, FS_EmptySet
<1>3. MAX_FAILED_ATTEMPTS \in Nat \ {0}
  BY PlatformAssumption DEF Throttling!ThrottleAssumption
<1> QED
  BY <1>2, <1>3, AttemptsAreFinite
     DEF Throttling!Init, ThrottleInv, Throttling!TypeOK, Throttling!Stages, NoKeyNoFailure,
         AdmittedInTime, OverwritesAreBounded

\* Steps that neither count nor forget.
LEMMA AdmitKeeps ==
  ASSUME ThrottleInv, NEW r \in Attempts, Throttling!Admit(r)
  PROVE  ThrottleInv'
<1>1. /\ attemptPc[r] = "idle" /\ counter < MAX_FAILED_ATTEMPTS
      /\ Throttling!Goto(r, "view") /\ counter' = counter /\ failures' = failures
  BY DEF Throttling!Admit, Throttling!BelowLimit
<1>2. Overwriting' = Overwriting /\ attemptPc' \in [Attempts -> Throttling!Stages]
  BY <1>1 DEF Overwriting, Throttling!Goto, ThrottleInv, Throttling!TypeOK, Throttling!Stages
<1>3. Cardinality(Admitted') <= Cardinality(Attempts) /\ Cardinality(Admitted') \in Nat
  <2>1. Admitted' \in SUBSET Attempts /\ IsFiniteSet(Attempts)
    BY PlatformAssumption, SameCardinality DEF Admitted, Throttling!ThrottleAssumption
  <2> QED
    BY <2>1, FS_Subset, FS_CardinalityType
<1>4. counter \in Nat /\ failures \in Nat /\ MAX_FAILED_ATTEMPTS \in Nat
  BY PlatformAssumption DEF ThrottleInv, Throttling!TypeOK, Throttling!ThrottleAssumption
<1> QED
  BY <1>1, <1>2, <1>3, <1>4, AttemptsAreFinite
     DEF ThrottleInv, Throttling!TypeOK, NoKeyNoFailure, AdmittedInTime, OverwritesAreBounded

LEMMA AnswerKeeps ==
  ASSUME ThrottleInv, NEW r \in Attempts, Throttling!Answer(r)
  PROVE  ThrottleInv'
<1>1. PICK s \in {"add", "delete", "idle"} :
        /\ attemptPc[r] = "view" /\ Throttling!Goto(r, s)
        /\ counter' = counter /\ failures' = failures
  BY DEF Throttling!Answer
<1>2. Overwriting' = Overwriting /\ attemptPc' \in [Attempts -> Throttling!Stages]
  BY <1>1 DEF Overwriting, Throttling!Goto, ThrottleInv, Throttling!TypeOK, Throttling!Stages
<1>3. Cardinality(Admitted') <= Cardinality(Admitted) /\ Cardinality(Admitted') \in Nat
  <2>1. Admitted' \in SUBSET Admitted
    BY <1>1 DEF Admitted, Throttling!Goto, ThrottleInv, Throttling!TypeOK
  <2> QED
    BY <2>1, AttemptsAreFinite, FS_Subset, FS_CardinalityType
<1>4. counter \in Nat /\ failures \in Nat /\ MAX_FAILED_ATTEMPTS \in Nat
  BY PlatformAssumption DEF ThrottleInv, Throttling!TypeOK, Throttling!ThrottleAssumption
<1> QED
  BY <1>1, <1>2, <1>3, <1>4, AttemptsAreFinite
     DEF ThrottleInv, Throttling!TypeOK, NoKeyNoFailure, AdmittedInTime, OverwritesAreBounded

\* add on a key that is there, incr on one that is not: nothing is counted.
LEMMA FallsThrough ==
  ASSUME ThrottleInv, NEW r \in Attempts, Throttling!Add(r) \/ Throttling!Incr(r),
         failures' = failures
  PROVE  ThrottleInv'
<1>0. counter \in Nat /\ failures \in Nat /\ MAX_FAILED_ATTEMPTS \in Nat
  BY PlatformAssumption DEF ThrottleInv, Throttling!TypeOK, Throttling!ThrottleAssumption
<1>1. PICK s \in {"incr", "set"} :
        /\ attemptPc[r] \in {"add", "incr"} /\ Throttling!Goto(r, s)
        /\ counter' = counter /\ (s = "set" => counter = 0)
        /\ (s = "incr" => attemptPc[r] = "add")
  BY <1>0 DEF Throttling!Add, Throttling!Incr, Throttling!Counted
<1>2. Admitted' = Admitted /\ attemptPc' \in [Attempts -> Throttling!Stages]
  BY <1>1 DEF Admitted, Throttling!Goto, ThrottleInv, Throttling!TypeOK, Throttling!Stages
<1>3. counter # 0 => Overwriting' = Overwriting
  BY <1>1 DEF Overwriting, Throttling!Goto, ThrottleInv, Throttling!TypeOK
<1> QED
  BY <1>0, <1>1, <1>2, <1>3, AttemptsAreFinite
     DEF ThrottleInv, Throttling!TypeOK, NoKeyNoFailure, AdmittedInTime, OverwritesAreBounded

\* add makes the key, incr raises it: the count and the failures keep step.
LEMMA CountingKeeps ==
  ASSUME ThrottleInv, NEW r \in Attempts, attemptPc[r] \in {"add", "incr"},
         counter' = counter + 1, failures' = failures + 1, Throttling!Goto(r, "idle")
  PROVE  ThrottleInv'
<1>0. counter \in Nat /\ failures \in Nat /\ MAX_FAILED_ATTEMPTS \in Nat \ {0}
  BY PlatformAssumption DEF ThrottleInv, Throttling!TypeOK, Throttling!ThrottleAssumption
<1>1. r \in Admitted
  BY DEF Admitted
<1>2. /\ Cardinality(Admitted') = Cardinality(Admitted) - 1
      /\ Cardinality(Overwriting') = Cardinality(Overwriting)
  BY <1>1, DoneWithTheCounter
<1>3. attemptPc' \in [Attempts -> Throttling!Stages]
  BY DEF Throttling!Goto, ThrottleInv, Throttling!TypeOK, Throttling!Stages
<1>4. AdmittedInTime'
  BY <1>0, <1>2, AttemptsAreFinite DEF ThrottleInv, AdmittedInTime
<1>5. OverwritesAreBounded'
  <2> DEFINE n == Cardinality(Attempts)
             m == n - 1 - Cardinality(Overwriting)
  <2>1. m \in Nat
    <3>1. Overwriting \in SUBSET (Attempts \ {r}) /\ r \in Attempts
      BY DEF Overwriting
    <3>2. IsFiniteSet(Attempts)
      BY PlatformAssumption, SameCardinality DEF Throttling!ThrottleAssumption
    <3>3. IsFiniteSet(Attempts \ {r}) /\ Cardinality(Attempts \ {r}) = n - 1
      BY <3>1, <3>2, FS_RemoveElement
    <3>4. Cardinality(Overwriting) <= n - 1
      BY <3>1, <3>3, FS_Subset
    <3> QED
      BY <3>4, AttemptsAreFinite
  <2>2. 2 * failures <= 2 * counter + m * (2 * MAX_FAILED_ATTEMPTS + m - 1)
    <3>1. CASE counter = 0
      <4>1. failures = 0
        BY <3>1 DEF ThrottleInv, NoKeyNoFailure
      <4>2. m * (2 * MAX_FAILED_ATTEMPTS + m - 1) \in Nat
        <5>1. 2 * MAX_FAILED_ATTEMPTS + m - 1 \in Nat
          BY <1>0, <2>1
        <5> HIDE DEF m
        <5> QED
          BY <2>1, <5>1
      <4> HIDE DEF m
      <4> QED
        BY <3>1, <4>1, <4>2
    <3>2. CASE counter # 0
      BY <1>0, <3>2 DEF ThrottleInv, OverwritesAreBounded
    <3> QED
      BY <3>1, <3>2
  <2>3. PICK x \in Int : x = m * (2 * MAX_FAILED_ATTEMPTS + m - 1)
    BY <1>0, <2>1
  <2>4. 2 * (failures + 1) <= 2 * (counter + 1) + m * (2 * MAX_FAILED_ATTEMPTS + m - 1)
    <3> HIDE DEF m
    <3> QED
      BY <1>0, <2>2, <2>3
  <2> QED
    BY <1>2, <2>1, <2>4 DEF OverwritesAreBounded
<1> QED
  BY <1>0, <1>3, <1>4, <1>5 DEF ThrottleInv, Throttling!TypeOK, NoKeyNoFailure

\* The set after a missed incr: what others have counted since is lost.
LEMMA SetKeeps ==
  ASSUME ThrottleInv, NEW r \in Attempts, Throttling!Set(r)
  PROVE  ThrottleInv'
<1>0. counter \in Nat /\ failures \in Nat /\ MAX_FAILED_ATTEMPTS \in Nat \ {0}
  BY PlatformAssumption DEF ThrottleInv, Throttling!TypeOK, Throttling!ThrottleAssumption
<1>1. /\ attemptPc[r] = "set" /\ Throttling!Goto(r, "idle")
      /\ counter' = 1 /\ failures' = failures + 1
  BY DEF Throttling!Set, Throttling!Counted
<1>2. r \in Admitted /\ r \in Overwriting
  BY <1>1 DEF Admitted, Overwriting
<1>3. /\ Cardinality(Admitted') = Cardinality(Admitted) - 1
      /\ Cardinality(Overwriting') = Cardinality(Overwriting) - 1
  BY <1>1, <1>2, DoneWithTheCounter
<1>4. attemptPc' \in [Attempts -> Throttling!Stages]
  BY <1>1 DEF Throttling!Goto, ThrottleInv, Throttling!TypeOK, Throttling!Stages
<1>5. AdmittedInTime'
  BY <1>0, <1>1, <1>3, AttemptsAreFinite DEF ThrottleInv, AdmittedInTime
<1>6. OverwritesAreBounded'
  <2> DEFINE n == Cardinality(Attempts)
             m == n - 1 - Cardinality(Overwriting)
  <2>1. CASE counter = 0
    <3>1. failures = 0
      BY <2>1 DEF ThrottleInv, NoKeyNoFailure
    <3>2. m + 1 \in Nat
      BY AttemptsAreFinite
    <3>3. (m + 1) * (2 * MAX_FAILED_ATTEMPTS + (m + 1) - 1) \in Nat
      <4>1. 2 * MAX_FAILED_ATTEMPTS + (m + 1) - 1 \in Nat
        BY <1>0, <3>2
      <4> HIDE DEF m
      <4> QED
        BY <3>2, <4>1
    <3>4. 2 * 1 <= 2 * 1 + (m + 1) * (2 * MAX_FAILED_ATTEMPTS + (m + 1) - 1)
      <4> HIDE DEF m
      <4> QED
        BY <3>3
    <3>5. n - 1 - Cardinality(Overwriting') = m + 1
      BY <1>3, AttemptsAreFinite
    <3> HIDE DEF m
    <3> QED
      BY <1>1, <3>1, <3>2, <3>4, <3>5 DEF OverwritesAreBounded
  <2>2. CASE counter # 0
    <3>1. /\ m \in Nat
          /\ 2 * failures <= 2 * counter + m * (2 * MAX_FAILED_ATTEMPTS + m - 1)
      BY <1>0, <2>2, AttemptsAreFinite DEF ThrottleInv, OverwritesAreBounded
    <3>2. counter <= MAX_FAILED_ATTEMPTS + m
      BY <1>0, AttemptsAreFinite DEF ThrottleInv, AdmittedInTime
    <3>3. n - 1 - Cardinality(Overwriting') = m + 1
      BY <1>3, AttemptsAreFinite
    <3> HIDE DEF m
    <3>4. 2 * (failures + 1) <= 2 + (m + 1) * (2 * MAX_FAILED_ATTEMPTS + m)
      BY <1>0, <3>1, <3>2, OneOverwriteMore
    <3>5. 2 * MAX_FAILED_ATTEMPTS + (m + 1) - 1 = 2 * MAX_FAILED_ATTEMPTS + m
      BY <1>0, <3>1
    <3> QED
      BY <1>1, <3>1, <3>3, <3>4, <3>5 DEF OverwritesAreBounded
  <2> QED
    BY <2>1, <2>2
<1> QED
  BY <1>0, <1>1, <1>4, <1>5, <1>6 DEF ThrottleInv, Throttling!TypeOK, NoKeyNoFailure

\* A sign-in that succeeds deletes the key, and time does.
LEMMA ForgettingKeeps ==
  ASSUME ThrottleInv, Throttling!Expire \/ \E r \in Attempts : Throttling!Delete(r)
  PROVE  ThrottleInv'
<1>0. counter \in Nat /\ failures \in Nat /\ MAX_FAILED_ATTEMPTS \in Nat
  BY PlatformAssumption DEF ThrottleInv, Throttling!TypeOK, Throttling!ThrottleAssumption
<1>1. counter' = 0 /\ failures' = 0
  BY DEF Throttling!Expire, Throttling!Delete
<1>2. Admitted' = Admitted /\ attemptPc' \in [Attempts -> Throttling!Stages]
  BY DEF Throttling!Expire, Throttling!Delete, Throttling!Goto, ThrottleInv, Throttling!TypeOK,
         Admitted, Throttling!Stages
<1> QED
  BY <1>0, <1>1, <1>2, AttemptsAreFinite
     DEF ThrottleInv, Throttling!TypeOK, NoKeyNoFailure, AdmittedInTime, OverwritesAreBounded

LEMMA ThrottleStep == ThrottleInv /\ [Throttling!Next]_(Throttling!vars) => ThrottleInv'
<1> SUFFICES ASSUME ThrottleInv, [Throttling!Next]_(Throttling!vars) PROVE ThrottleInv'
  OBVIOUS
<1>1. ASSUME NEW r \in Attempts, Throttling!Add(r) \/ Throttling!Incr(r) PROVE ThrottleInv'
  <2>1. CASE failures' = failures
    BY <1>1, <2>1, FallsThrough
  <2>2. CASE failures' # failures
    <3>1. counter \in Nat
      BY DEF ThrottleInv, Throttling!TypeOK
    <3>2. /\ attemptPc[r] \in {"add", "incr"} /\ counter' = counter + 1
          /\ failures' = failures + 1 /\ Throttling!Goto(r, "idle")
      BY <1>1, <2>2, <3>1 DEF Throttling!Add, Throttling!Incr, Throttling!Counted
    <3> QED
      BY <3>2, CountingKeeps
  <2> QED
    BY <2>1, <2>2
<1>2. CASE UNCHANGED Throttling!vars
  <2>1. /\ counter' = counter /\ attemptPc' = attemptPc /\ failures' = failures
        /\ Admitted' = Admitted /\ Overwriting' = Overwriting
    BY <1>2 DEF Throttling!vars, Admitted, Overwriting
  <2> QED
    BY <2>1 DEF ThrottleInv, Throttling!TypeOK, NoKeyNoFailure, AdmittedInTime,
                OverwritesAreBounded
<1> QED
  BY <1>1, <1>2, AdmitKeeps, AnswerKeeps, SetKeeps, ForgettingKeeps DEF Throttling!Next

LEMMA ThrottlingMoves == Spec => Throttling!Spec
<1>1. Init => Throttling!Init
  BY DEF Init
<1>2. [Next]_vars => [Throttling!Next]_(Throttling!vars)
  BY DEF Next, vars, throttleVars, Throttling!vars, Seed, Serve, Attempt, Look, Upload, Edit, Work
<1> QED
  BY <1>1, <1>2, PTL DEF Spec, Throttling!Spec

\* AdminLoginThrottleMiddleware: for every limit and any number of sign-ins in
\* progress, whatever is added, raised, overwritten and expires in which order,
\* so many of them fail in a window and no more.
THEOREM FailuresAreBounded == Spec => []WindowIsBounded
<1>1. ThrottleInv => WindowIsBounded
  <2> SUFFICES ASSUME ThrottleInv PROVE WindowIsBounded
    OBVIOUS
  <2> DEFINE n == Cardinality(Attempts)
             m == n - 1 - Cardinality(Overwriting)
  <2>0. /\ counter \in Nat /\ failures \in Nat /\ MAX_FAILED_ATTEMPTS \in Nat \ {0} /\ n \in Nat
    BY PlatformAssumption, AttemptsAreFinite
       DEF ThrottleInv, Throttling!TypeOK, Throttling!ThrottleAssumption
  <2>1. failures <= n * MAX_FAILED_ATTEMPTS + (n * (n - 1)) \div 2
    <3>1. CASE counter = 0
      <4>1. failures = 0
        BY <3>1 DEF ThrottleInv, NoKeyNoFailure
      <4> HIDE DEF n
      <4>2. n * MAX_FAILED_ATTEMPTS \in Nat /\ n * (n - 1) \in Nat
        BY <2>0
      <4>3. PICK x \in Nat, y \in Nat : x = n * MAX_FAILED_ATTEMPTS /\ y = n * (n - 1)
        BY <4>2
      <4> QED
        BY <4>1, <4>3
    <3>2. CASE counter # 0
      <4>1. /\ m \in Nat
            /\ 2 * failures <= 2 * counter + m * (2 * MAX_FAILED_ATTEMPTS + m - 1)
        BY <2>0, <3>2, AttemptsAreFinite DEF ThrottleInv, OverwritesAreBounded
      <4>2. counter <= MAX_FAILED_ATTEMPTS + m /\ m + 1 <= n
        BY <2>0, AttemptsAreFinite DEF ThrottleInv, AdmittedInTime
      <4> HIDE DEF m, n
      <4> QED
        BY <2>0, <4>1, <4>2, OverwritesAddUp
    <3> QED
      BY <3>1, <3>2
  <2>2. Throttling!Cardinality(Attempts) = n
    BY SameCardinality
  <2> HIDE DEF n
  <2> QED
    BY <2>1, <2>2 DEF WindowIsBounded, Throttling!WindowIsBounded
<1> QED
  BY <1>1, ThrottleInit, ThrottleStep, ThrottlingMoves, PTL DEF Throttling!Spec

-----------------------------------------------------------------------------
(* Reporting: resolution times have events.  Until it is backdated, a      *)
(* resolved bug's last row in the feed is of the moment that its own row   *)
(* has; backdating writes moments to the feed that it will write to the    *)
(* row.                                                                    *)

\* The feed has, at place i, the resolution that moment m of b's row is of.
Tells(b, i, m) ==
  i \in DOMAIN resolutions[b] /\ m <= resolutions[b][i] /\ resolutions[b][i] <= m + 1

IsResolved(b) ==
  Reporting!Exists(b) /\ bug[b].status \in Reporting!ResolutionStatuses /\ bug[b].resolved # None

NothingFromTheFuture == \A b \in Bugs : Reporting!Exists(b) => bug[b].created <= now

\* Unless backdating is about to write another moment to the row.
ResolvedHaveEvents ==
  \A b \in Bugs :
    IsResolved(b) /\ (Reporting!UnderWay = b => backdating.resolved = None) =>
      /\ bug[b].created <= bug[b].resolved
      /\ \E i \in Nat : Tells(b, i, bug[b].resolved)

\* Backdating may rewrite all but the last.
LastEventTells ==
  backdating = None =>
    \A b \in Bugs : IsResolved(b) => Tells(b, Len(resolutions[b]), bug[b].resolved)

\* What backdating is about to write.
BackdatingTells ==
  \A b \in Bugs : Reporting!UnderWay = b =>
    /\ Reporting!Exists(b) /\ backdating.created <= bug[b].created
    /\ backdating.resolved # None =>
         /\ backdating.created <= backdating.resolved
         /\ \E i \in Nat : Tells(b, i, backdating.resolved)

ReportInv ==
  /\ Reporting!TypeOK
  /\ NothingFromTheFuture
  /\ ResolvedHaveEvents
  /\ LastEventTells
  /\ BackdatingTells

LEMMA NoneIsNothingElse ==
  /\ None \notin Nat /\ None \notin Bugs /\ None \notin Reporting!Rows
  /\ None \notin Reporting!Backdatings /\ None # [bug |-> None]
  BY PlatformAssumption DEF Reporting!ReportsAssumption

LEMMA RowTypes ==
  ASSUME ReportInv, NEW b \in Bugs
  PROVE  /\ now \in Nat
         /\ bug \in [Bugs -> Reporting!Rows \union {None}]
         /\ resolutions[b] \in Seq(Nat)
         /\ Reporting!Exists(b) =>
              /\ bug[b] \in Reporting!Rows
              /\ bug[b].status \in Reporting!Statuses
              /\ bug[b].created \in Nat
              /\ bug[b].resolved \in Nat \union {None}
  BY DEF ReportInv, Reporting!TypeOK, Reporting!Exists, Reporting!Rows

\* Whose bug is being backdated, and with what.
LEMMA UnderWayType ==
  ASSUME ReportInv
  PROVE  /\ Reporting!UnderWay \in Bugs \union {None}
         /\ backdating = None => Reporting!UnderWay = None
         /\ Reporting!UnderWay # None => /\ backdating \in Reporting!Backdatings
                                         /\ Reporting!UnderWay = backdating.bug
  BY DEF ReportInv, Reporting!TypeOK, Reporting!UnderWay, Reporting!Backdatings

LEMMA ReportInit == Reporting!Init => ReportInv
<1> SUFFICES ASSUME Reporting!Init PROVE ReportInv
  OBVIOUS
<1>1. FirstMoment \in Nat
  BY PlatformAssumption DEF Reporting!ReportsAssumption
<1>2. \A b \in Bugs : ~Reporting!Exists(b)
  BY DEF Reporting!Init, Reporting!Exists
<1>3. Reporting!UnderWay = None
  BY DEF Reporting!Init, Reporting!UnderWay
<1>4. Reporting!TypeOK
  <2>1. <<>> \in Seq(Nat)
    OBVIOUS
  <2>2. "developer" \in Reporting!Roles
    BY DEF Reporting!Roles
  <2> QED
    BY <1>1, <2>1, <2>2 DEF Reporting!Init, Reporting!TypeOK
<1> QED
  BY <1>2, <1>3, <1>4, NoneIsNothingElse
     DEF ReportInv, NothingFromTheFuture, ResolvedHaveEvents, LastEventTells, BackdatingTells,
         IsResolved

\* A row as the invariant sees it.
SameRow(b) ==
  /\ Reporting!Exists(b)' <=> Reporting!Exists(b)
  /\ Reporting!Exists(b) => /\ bug'[b].status = bug[b].status
                            /\ bug'[b].created = bug[b].created
                            /\ bug'[b].resolved = bug[b].resolved

\* A step that leaves the feed alone, and of the rows what the invariant sees.
LEMMA QuietStepKeeps ==
  ASSUME ReportInv, Reporting!TypeOK', \A b \in Bugs : SameRow(b), now <= now',
         resolutions' = resolutions, backdating' = backdating
  PROVE  ReportInv'
<1> USE DEF SameRow
<1>1. NothingFromTheFuture'
  <2> SUFFICES ASSUME NEW b \in Bugs, Reporting!Exists(b)' PROVE bug'[b].created <= now'
    BY DEF NothingFromTheFuture
  <2>1. bug[b].created \in Nat /\ bug'[b].created = bug[b].created /\ bug[b].created <= now
    BY RowTypes DEF ReportInv, NothingFromTheFuture
  <2>2. now \in Nat /\ now' \in Nat
    BY DEF ReportInv, Reporting!TypeOK
  <2> QED
    BY <2>1, <2>2
<1>2. \A b \in Bugs : /\ IsResolved(b)' <=> IsResolved(b)
                      /\ \A i, m : Tells(b, i, m)' <=> Tells(b, i, m)
  BY DEF IsResolved, Tells
<1>3. Reporting!UnderWay' = Reporting!UnderWay
  BY DEF Reporting!UnderWay
<1>4. ResolvedHaveEvents'
  BY <1>2, <1>3 DEF ReportInv, ResolvedHaveEvents, IsResolved, Tells
<1>5. LastEventTells'
  BY <1>2 DEF ReportInv, LastEventTells, IsResolved, Tells
<1>6. BackdatingTells'
  BY <1>3 DEF ReportInv, BackdatingTells, Tells
<1> QED
  BY <1>1, <1>4, <1>5, <1>6 DEF ReportInv

\* A row that changes in nothing that the invariant sees.
LEMMA QuietRowKeeps ==
  ASSUME ReportInv, NEW b \in Bugs, Reporting!Exists(b), NEW new \in Reporting!Rows,
         bug' = [bug EXCEPT ![b] = new],
         new.status = bug[b].status, new.created = bug[b].created,
         new.resolved = bug[b].resolved,
         UNCHANGED <<now, resolutions, projectArchived, membership, backdating>>
  PROVE  ReportInv'
<1>1. bug \in [Bugs -> Reporting!Rows \union {None}] /\ now \in Nat
  BY RowTypes
<1>2. Reporting!TypeOK'
  BY <1>1 DEF ReportInv, Reporting!TypeOK
<1>3. \A c \in Bugs : SameRow(c)
  BY <1>1, NoneIsNothingElse DEF SameRow, Reporting!Exists
<1> QED
  BY <1>1, <1>2, <1>3, QuietStepKeeps

LEMMA QuietStepsKeep ==
  ASSUME ReportInv,
         \/ Reporting!Tick \/ UNCHANGED Reporting!vars
         \/ \E p \in Projects : Reporting!SetProjectArchived(p)
         \/ \E u \in Members : Reporting!RemoveMember(u)
         \/ \E u \in Members : \E r \in {"developer", "viewer"} : Reporting!ChangeRole(u, r)
  PROVE  ReportInv'
<1>1. now \in Nat /\ bug \in [Bugs -> Reporting!Rows \union {None}]
  BY DEF ReportInv, Reporting!TypeOK
<1>2. CASE Reporting!Tick
  <2>1. Reporting!TypeOK' /\ now <= now'
    BY <1>1, <1>2 DEF ReportInv, Reporting!TypeOK, Reporting!Tick
  <2>2. \A b \in Bugs : SameRow(b)
    BY <1>2 DEF SameRow, Reporting!Exists, Reporting!Tick
  <2> QED
    BY <1>2, <2>1, <2>2, QuietStepKeeps DEF Reporting!Tick
<1>3. CASE UNCHANGED Reporting!vars
  <2>1. Reporting!TypeOK' /\ now <= now'
    BY <1>1, <1>3 DEF ReportInv, Reporting!TypeOK, Reporting!vars
  <2>2. \A b \in Bugs : SameRow(b)
    BY <1>3 DEF SameRow, Reporting!Exists, Reporting!vars
  <2> QED
    BY <1>3, <2>1, <2>2, QuietStepKeeps DEF Reporting!vars
<1>4. ASSUME NEW p \in Projects, Reporting!SetProjectArchived(p)
      PROVE  ReportInv'
  <2>1. Reporting!TypeOK' /\ now <= now'
    BY <1>1, <1>4 DEF ReportInv, Reporting!TypeOK, Reporting!SetProjectArchived
  <2>2. \A b \in Bugs : SameRow(b)
    BY <1>4 DEF SameRow, Reporting!Exists, Reporting!SetProjectArchived
  <2> QED
    BY <1>4, <2>1, <2>2, QuietStepKeeps DEF Reporting!SetProjectArchived
<1>5. ASSUME NEW u \in Members, NEW r \in {"developer", "viewer"}, Reporting!ChangeRole(u, r)
      PROVE  ReportInv'
  <2>1. r \in Reporting!Roles
    BY DEF Reporting!Roles
  <2>2. Reporting!TypeOK' /\ now <= now'
    BY <1>1, <1>5, <2>1 DEF ReportInv, Reporting!TypeOK, Reporting!ChangeRole
  <2>3. \A b \in Bugs : SameRow(b)
    BY <1>5 DEF SameRow, Reporting!Exists, Reporting!ChangeRole
  <2> QED
    BY <1>5, <2>2, <2>3, QuietStepKeeps DEF Reporting!ChangeRole
<1>6. ASSUME NEW u \in Members, Reporting!RemoveMember(u)
      PROVE  ReportInv'
  <2>1. \A b \in Bugs : bug'[b] = IF Reporting!Exists(b) /\ bug[b].assignee = u
                                  THEN [bug[b] EXCEPT !.assignee = NoUser] ELSE bug[b]
    BY <1>6 DEF Reporting!RemoveMember
  <2>2. \A b \in Bugs : bug'[b] \in Reporting!Rows \union {None} /\ SameRow(b)
    <3> SUFFICES ASSUME NEW b \in Bugs
                 PROVE  bug'[b] \in Reporting!Rows \union {None} /\ SameRow(b)
      OBVIOUS
    <3>1. CASE Reporting!Exists(b) /\ bug[b].assignee = u
      <4>1. bug[b] \in Reporting!Rows
        BY <3>1, RowTypes
      <4>2. bug'[b] = [bug[b] EXCEPT !.assignee = NoUser]
        BY <2>1, <3>1
      <4>3. bug'[b] \in Reporting!Rows
        BY <4>1, <4>2 DEF Reporting!Rows
      <4>4. /\ bug'[b].status = bug[b].status /\ bug'[b].created = bug[b].created
            /\ bug'[b].resolved = bug[b].resolved
        BY <4>1, <4>2 DEF Reporting!Rows
      <4> QED
        BY <3>1, <4>3, <4>4, NoneIsNothingElse DEF SameRow, Reporting!Exists
    <3>2. CASE ~(Reporting!Exists(b) /\ bug[b].assignee = u)
      <4>1. bug'[b] = bug[b]
        BY <2>1, <3>2
      <4> QED
        BY <1>1, <4>1 DEF SameRow, Reporting!Exists
    <3> QED
      BY <3>1, <3>2
  <2>3. bug' = [b \in Bugs |-> bug'[b]]
    BY <1>6 DEF Reporting!RemoveMember
  <2>4. bug' \in [Bugs -> Reporting!Rows \union {None}]
    BY <2>2, <2>3
  <2>5. Reporting!TypeOK' /\ now <= now'
    BY <1>1, <1>6, <2>4 DEF ReportInv, Reporting!TypeOK, Reporting!RemoveMember
  <2> QED
    BY <1>6, <2>2, <2>5, QuietStepKeeps DEF Reporting!RemoveMember
<1> QED
  BY <1>2, <1>3, <1>4, <1>5, <1>6

LEMMA AssignAndArchiveKeep ==
  ASSUME ReportInv, NEW b \in Bugs,
         Reporting!SetArchived(b) \/ \E a \in Members \union {NoUser} : Reporting!Assign(b, a)
  PROVE  ReportInv'
<1>1. CASE Reporting!SetArchived(b)
  <2>1. PICK new : new = [bug[b] EXCEPT !.archived = ~@]
    OBVIOUS
  <2>2. Reporting!Exists(b) /\ bug[b] \in Reporting!Rows
    BY <1>1, RowTypes DEF Reporting!SetArchived
  <2>3. /\ new \in Reporting!Rows /\ new.status = bug[b].status
        /\ new.created = bug[b].created /\ new.resolved = bug[b].resolved
    BY <2>1, <2>2 DEF Reporting!Rows
  <2>4. bug' = [bug EXCEPT ![b] = new]
    BY <1>1, <2>1 DEF Reporting!SetArchived
  <2> QED
    BY <1>1, <2>2, <2>3, <2>4, QuietRowKeeps DEF Reporting!SetArchived
<1>2. ASSUME NEW a \in Members \union {NoUser}, Reporting!Assign(b, a)
      PROVE  ReportInv'
  <2>1. PICK new : new = [bug[b] EXCEPT !.assignee = a]
    OBVIOUS
  <2>2. Reporting!Exists(b) /\ bug[b] \in Reporting!Rows
    BY <1>2, RowTypes DEF Reporting!Assign, Reporting!Mutable
  <2>3. /\ new \in Reporting!Rows /\ new.status = bug[b].status
        /\ new.created = bug[b].created /\ new.resolved = bug[b].resolved
    BY <2>1, <2>2 DEF Reporting!Rows
  <2>4. bug' = [bug EXCEPT ![b] = new]
    BY <1>2, <2>1 DEF Reporting!Assign
  <2> QED
    BY <1>2, <2>2, <2>3, <2>4, QuietRowKeeps DEF Reporting!Assign
<1> QED
  BY <1>1, <1>2

\* Only b's row changes: what the invariant says of the others stays.
LEMMA OtherRows ==
  ASSUME ReportInv, NEW b \in Bugs, NEW new \in Reporting!Rows,
         bug' = [bug EXCEPT ![b] = new]
  PROVE  /\ bug' \in [Bugs -> Reporting!Rows \union {None}]
         /\ bug'[b] = new /\ Reporting!Exists(b)'
         /\ \A c \in Bugs \ {b} : bug'[c] = bug[c] /\ (Reporting!Exists(c)' <=> Reporting!Exists(c))
                                  /\ (IsResolved(c)' <=> IsResolved(c))
  BY RowTypes, NoneIsNothingElse DEF Reporting!Exists, IsResolved

LEMMA CreateKeeps ==
  ASSUME ReportInv, NEW b \in Bugs, Reporting!Create(b)
  PROVE  ReportInv'
<1>1. PICK new : new = [status |-> "new", assignee |-> NoUser, created |-> now, updated |-> now,
                        resolved |-> None, archived |-> FALSE]
  OBVIOUS
<1>2. new \in Reporting!Rows /\ new.resolved = None /\ new.created = now
  BY <1>1, RowTypes DEF Reporting!Rows, Reporting!Statuses, Reporting!OpenStatuses
<1>3. bug' = [bug EXCEPT ![b] = new]
  BY <1>1 DEF Reporting!Create
<1>4. ~Reporting!Exists(b) /\ UNCHANGED <<now, resolutions, projectArchived, membership, backdating>>
  BY DEF Reporting!Create
<1>5. Reporting!TypeOK'
  BY <1>2, <1>3, <1>4, OtherRows DEF ReportInv, Reporting!TypeOK
<1>6. ~IsResolved(b)'
  BY <1>2, <1>3, OtherRows DEF IsResolved
<1>7. NothingFromTheFuture'
  <2>1. now' = now /\ now \in Nat /\ bug'[b].created = now
    BY <1>2, <1>3, <1>4, RowTypes, OtherRows
  <2>2. \A c \in Bugs \ {b} : Reporting!Exists(c)' => bug'[c].created <= now'
    BY <1>2, <1>3, <2>1, OtherRows DEF ReportInv, NothingFromTheFuture
  <2> QED
    BY <2>1, <2>2 DEF NothingFromTheFuture
<1>8. \A c, i, m : Tells(c, i, m)' <=> Tells(c, i, m)
  BY <1>4 DEF Tells
<1>9. Reporting!UnderWay' = Reporting!UnderWay
  BY <1>4 DEF Reporting!UnderWay
<1>10. ResolvedHaveEvents'
  BY <1>2, <1>3, <1>4, <1>6, <1>8, <1>9, OtherRows DEF ReportInv, ResolvedHaveEvents
<1>11. LastEventTells'
  BY <1>2, <1>3, <1>4, <1>6, <1>8, OtherRows DEF ReportInv, LastEventTells
<1>12. BackdatingTells'
  BY <1>2, <1>3, <1>4, <1>8, <1>9, OtherRows DEF ReportInv, BackdatingTells
<1> QED
  BY <1>5, <1>7, <1>10, <1>11, <1>12 DEF ReportInv

\* The feed's row for a resolution that is made now is written now or a moment later.
LEMMA TransitionKeeps ==
  ASSUME ReportInv, NEW b \in Bugs, NEW s \in Reporting!Statuses,
         NEW a \in Members \union {NoUser}, Reporting!Transition(b, s, a)
  PROVE  ReportInv'
<1>1. PICK new : new = [bug[b] EXCEPT !.status = s, !.assignee = a,
                          !.resolved = Reporting!ResolvedMoment(s, bug[b].resolved, now)]
  OBVIOUS
<1>2. /\ Reporting!Exists(b) /\ bug[b] \in Reporting!Rows /\ now \in Nat
      /\ now' \in {now, now + 1} /\ now' \in Nat
  BY RowTypes DEF Reporting!Transition, Reporting!Mutable
<1>3. Reporting!ResolvedMoment(s, bug[b].resolved, now) \in Nat \union {None}
  BY <1>2 DEF Reporting!ResolvedMoment, Reporting!Rows
<1>4. /\ new \in Reporting!Rows /\ new.status = s /\ new.created = bug[b].created
      /\ new.resolved = Reporting!ResolvedMoment(s, bug[b].resolved, now)
  BY <1>1, <1>2, <1>3 DEF Reporting!Rows
<1>5. bug' = [bug EXCEPT ![b] = new]
  BY <1>1 DEF Reporting!Transition
<1>6. UNCHANGED <<projectArchived, membership, backdating>>
  BY DEF Reporting!Transition
<1>7. /\ resolutions \in [Bugs -> Seq(Nat)] /\ resolutions' \in [Bugs -> Seq(Nat)]
      /\ \A c \in Bugs \ {b} : resolutions'[c] = resolutions[c]
      /\ resolutions'[b] = IF s \in Reporting!ResolutionStatuses
                           THEN Append(resolutions[b], now') ELSE resolutions[b]
  <2>1. resolutions \in [Bugs -> Seq(Nat)]
    BY DEF ReportInv, Reporting!TypeOK
  <2>2. resolutions' = IF s \in Reporting!ResolutionStatuses
                       THEN [resolutions EXCEPT ![b] = Append(resolutions[b], now')] ELSE resolutions
    BY DEF Reporting!Transition
  <2>3. Append(resolutions[b], now') \in Seq(Nat)
    BY <1>2, <2>1
  <2> QED
    BY <2>1, <2>2, <2>3
<1>8. Reporting!TypeOK'
  BY <1>2, <1>4, <1>5, <1>6, <1>7, OtherRows DEF ReportInv, Reporting!TypeOK
<1>9. \A c \in Bugs : \A i \in Nat : \A m : Tells(c, i, m) => Tells(c, i, m)'
  <2>1. \A c \in Bugs : \A i \in DOMAIN resolutions[c] :
          i \in DOMAIN resolutions'[c] /\ resolutions'[c][i] = resolutions[c][i]
    <3>1. \A i \in DOMAIN resolutions[b] :
            /\ i \in DOMAIN Append(resolutions[b], now')
            /\ Append(resolutions[b], now')[i] = resolutions[b][i]
      BY <1>2, <1>7
    <3> QED
      BY <1>7, <3>1
  <2> QED
    BY <2>1 DEF Tells
<1>10. IsResolved(b)' => bug'[b].resolved = now /\ s \in Reporting!ResolutionStatuses
  BY <1>4, <1>5, OtherRows DEF IsResolved, Reporting!ResolvedMoment
<1>11. \A m : m = now /\ s \in Reporting!ResolutionStatuses =>
                Tells(b, Len(resolutions[b]), m)'
  <2> SUFFICES ASSUME NEW m, m = now, s \in Reporting!ResolutionStatuses
               PROVE  Tells(b, Len(resolutions[b]), m)'
    OBVIOUS
  <2>1. resolutions'[b] = Append(resolutions[b], now') /\ resolutions[b] \in Seq(Nat)
    BY <1>7
  <2>2. /\ Len(resolutions'[b]) \in DOMAIN resolutions'[b]
        /\ resolutions'[b][Len(resolutions'[b])] = now'
    BY <1>2, <2>1
  <2> QED
    BY <1>2, <2>2 DEF Tells
<1>12. Len(resolutions'[b]) \in Nat
  BY <1>7
<1>13. NothingFromTheFuture'
  <2>1. \A c \in Bugs : Reporting!Exists(c) => bug[c].created \in Nat /\ bug[c].created <= now
    BY RowTypes DEF ReportInv, NothingFromTheFuture
  <2>2. \A c \in Bugs : Reporting!Exists(c) => bug[c].created <= now'
    BY <1>2, <2>1
  <2>3. \A c \in Bugs \ {b} : bug'[c] = bug[c] /\ (Reporting!Exists(c)' <=> Reporting!Exists(c))
    BY <1>4, <1>5, OtherRows
  <2>4. bug'[b].created = bug[b].created
    BY <1>4, <1>5, OtherRows
  <2> QED
    BY <1>2, <2>2, <2>3, <2>4 DEF NothingFromTheFuture
<1>14. Reporting!UnderWay' = Reporting!UnderWay /\ backdating' = backdating
  BY <1>6 DEF Reporting!UnderWay
<1>15. ResolvedHaveEvents'
  <2> SUFFICES ASSUME NEW c \in Bugs, IsResolved(c)',
                      (Reporting!UnderWay = c => backdating.resolved = None)'
               PROVE  /\ bug'[c].created <= bug'[c].resolved
                      /\ \E i \in Nat : Tells(c, i, bug[c].resolved)'
    BY DEF ResolvedHaveEvents
  <2>1. CASE c = b
    <3>1. bug'[b].resolved = now /\ s \in Reporting!ResolutionStatuses
      BY <1>10, <2>1
    <3>2. bug'[b].created <= now
      BY <1>2, <1>4, <1>5, OtherRows DEF ReportInv, NothingFromTheFuture
    <3>3. PICK m : m = bug'[b].resolved
      OBVIOUS
    <3>4. Tells(b, Len(resolutions[b]), m)'
      BY <1>11, <3>1, <3>3
    <3> QED
      BY <1>12, <2>1, <3>1, <3>2, <3>3, <3>4 DEF Tells
  <2>2. CASE c # b
    <3>1. bug'[c] = bug[c] /\ IsResolved(c)
      BY <1>4, <1>5, <2>2, OtherRows
    <3>2. PICK m : m = bug[c].resolved
      OBVIOUS
    <3>3. /\ bug[c].created <= bug[c].resolved
          /\ \E i \in Nat : Tells(c, i, m)
      BY <1>14, <3>1, <3>2 DEF ReportInv, ResolvedHaveEvents
    <3>4. PICK i \in Nat : Tells(c, i, m)'
      BY <1>9, <3>3
    <3> QED
      BY <3>1, <3>2, <3>3, <3>4 DEF Tells
  <2> QED
    BY <2>1, <2>2
<1>16. LastEventTells'
  <2> SUFFICES ASSUME backdating' = None, NEW c \in Bugs, IsResolved(c)'
               PROVE  Tells(c, Len(resolutions[c]), bug[c].resolved)'
    BY DEF LastEventTells
  <2>1. CASE c = b
    <3>1. PICK m : m = bug'[b].resolved
      OBVIOUS
    <3>2. Tells(b, Len(resolutions[b]), m)'
      BY <1>10, <1>11, <2>1, <3>1
    <3> QED
      BY <2>1, <3>1, <3>2 DEF Tells
  <2>2. CASE c # b
    <3>1. bug'[c] = bug[c] /\ IsResolved(c) /\ resolutions'[c] = resolutions[c]
      BY <1>4, <1>5, <1>7, <2>2, OtherRows
    <3>2. Tells(c, Len(resolutions[c]), bug[c].resolved)
      BY <1>14, <3>1 DEF ReportInv, LastEventTells
    <3> QED
      BY <3>1, <3>2 DEF Tells
  <2> QED
    BY <2>1, <2>2
<1>17. BackdatingTells'
  <2> SUFFICES ASSUME NEW c \in Bugs, Reporting!UnderWay' = c
               PROVE  /\ Reporting!Exists(c)' /\ backdating'.created <= bug'[c].created
                      /\ backdating'.resolved # None =>
                           /\ backdating'.created <= backdating'.resolved
                           /\ \E i \in Nat : Tells(c, i, backdating.resolved)'
    BY DEF BackdatingTells
  <2>1. /\ Reporting!Exists(c) /\ backdating.created <= bug[c].created
        /\ backdating.resolved # None =>
             /\ backdating.created <= backdating.resolved
             /\ \E i \in Nat : Tells(c, i, backdating.resolved)
    BY <1>14 DEF ReportInv, BackdatingTells
  <2>2. Reporting!Exists(c)' /\ bug'[c].created = bug[c].created
    BY <1>4, <1>5, <2>1, OtherRows
  <2>3. PICK m : m = backdating.resolved
    OBVIOUS
  <2>4. backdating.resolved # None => \E i \in Nat : Tells(c, i, m)'
    BY <1>9, <2>1, <2>3
  <2>5. \A i \in Nat : Tells(c, i, m)' => Tells(c, i, backdating.resolved)'
    BY <1>14, <2>3 DEF Tells
  <2> QED
    BY <1>14, <2>1, <2>2, <2>4, <2>5
<1> QED
  BY <1>8, <1>13, <1>15, <1>16, <1>17 DEF ReportInv

\* What rewriting the beginning of a sequence does to it.
LEMMA RewrittenType ==
  ASSUME NEW old \in Seq(Nat), NEW moments \in Seq(Nat), Len(moments) <= Len(old)
  PROVE  /\ Reporting!Rewritten(old, moments) \in Seq(Nat)
         /\ Len(Reporting!Rewritten(old, moments)) = Len(old)
         /\ \A i \in 1..Len(old) :
              Reporting!Rewritten(old, moments)[i] = IF i <= Len(moments) THEN moments[i] ELSE old[i]
<1>1. PICK new : new = [i \in 1..Len(old) |-> IF i \in 1..Len(moments) THEN moments[i] ELSE old[i]]
  OBVIOUS
<1>2. new = Reporting!Rewritten(old, moments)
  <2>1. DOMAIN old = 1..Len(old) /\ DOMAIN moments = 1..Len(moments)
    OBVIOUS
  <2> QED
    BY <1>1, <2>1 DEF Reporting!Rewritten
<1>3. \A i \in 1..Len(old) :
        (IF i \in 1..Len(moments) THEN moments[i] ELSE old[i]) \in Nat
  OBVIOUS
<1>4. new \in Seq(Nat) /\ Len(new) = Len(old)
  BY <1>1, <1>3
<1>5. \A i \in 1..Len(old) : new[i] = IF i <= Len(moments) THEN moments[i] ELSE old[i]
  BY <1>1
<1> QED
  BY <1>2, <1>4, <1>5

\* The three ways in which the moments for the feed and the feed can meet:
\* too few moments, none, or one for every row.
LEMMA BackdateKeeps ==
  ASSUME ReportInv, NEW b \in Bugs, NEW h \in Histories,
         Reporting!Backdate(b, h.created, h.resolutions)
  PROVE  ReportInv'
<1> DEFINE moments == h.resolutions
           new == Reporting!Rewritten(resolutions[b], moments)
<1>1. /\ h.created \in Nat /\ moments \in Seq(Nat)
      /\ \A i \in 1..Len(moments) : h.created <= moments[i]
  BY PlatformAssumption DEF Reporting!ReportsAssumption
<1>2. /\ backdating = None /\ Reporting!Exists(b) /\ h.created <= bug[b].created
      /\ Len(moments) <= Len(resolutions[b])
      /\ resolutions' = [resolutions EXCEPT ![b] = new]
      /\ UNCHANGED <<now, bug, projectArchived, membership>>
  BY DEF Reporting!Backdate
<1>3. /\ resolutions \in [Bugs -> Seq(Nat)] /\ now \in Nat
      /\ bug[b].status \in Reporting!Statuses
  BY <1>2, RowTypes DEF ReportInv, Reporting!TypeOK
<1>4. /\ new \in Seq(Nat) /\ Len(new) = Len(resolutions[b])
      /\ \A i \in 1..Len(new) : new[i] = IF i <= Len(moments) THEN moments[i] ELSE resolutions[b][i]
  <2>1. resolutions[b] \in Seq(Nat) /\ Len(moments) <= Len(resolutions[b])
    BY <1>2, <1>3
  <2> HIDE DEF moments
  <2>2. /\ new \in Seq(Nat) /\ Len(new) = Len(resolutions[b])
        /\ \A i \in 1..Len(resolutions[b]) :
             new[i] = IF i <= Len(moments) THEN moments[i] ELSE resolutions[b][i]
    BY <1>1, <2>1, RewrittenType
  <2> HIDE DEF new
  <2> QED
    BY <2>2
<1>5. /\ resolutions' \in [Bugs -> Seq(Nat)] /\ resolutions'[b] = new
      /\ \A c \in Bugs \ {b} : resolutions'[c] = resolutions[c]
  BY <1>2, <1>3, <1>4
<1> HIDE DEF new
<1>6. Reporting!UnderWay = None
  BY <1>2, UnderWayType
<1>7. NothingFromTheFuture'
  BY <1>2 DEF ReportInv, NothingFromTheFuture, Reporting!Exists
<1>8. \A c \in Bugs : IsResolved(c) =>
        /\ bug[c].created <= bug[c].resolved
        /\ Tells(c, Len(resolutions[c]), bug[c].resolved)
  BY <1>2, <1>6, NoneIsNothingElse DEF ReportInv, ResolvedHaveEvents, LastEventTells
<1>9. \A c \in Bugs \ {b} : IsResolved(c) => Tells(c, Len(resolutions[c]), bug[c].resolved)'
  BY <1>2, <1>5, <1>8 DEF Tells
<1>10. \A c \in Bugs : Len(resolutions'[c]) \in Nat
  BY <1>5
<1>11. \A c \in Bugs : (IsResolved(c)' <=> IsResolved(c)) /\ (Reporting!Exists(c)' <=> Reporting!Exists(c))
  BY <1>2 DEF IsResolved, Reporting!Exists
<1>12. ASSUME Len(moments) < Len(resolutions[b]) PROVE IsResolved(b) => Tells(b, Len(resolutions[b]), bug[b].resolved)'
  <2> SUFFICES ASSUME IsResolved(b) PROVE Tells(b, Len(resolutions[b]), bug[b].resolved)'
    OBVIOUS
  <2>1. Tells(b, Len(resolutions[b]), bug[b].resolved)
    BY <1>8
  <2>2. Len(resolutions[b]) \in 1..Len(new) /\ Len(moments) \in Nat
    BY <1>1, <1>3, <1>4, <2>1 DEF Tells
  <2>3. new[Len(resolutions[b])] = resolutions[b][Len(resolutions[b])]
    BY <1>3, <1>4, <1>12, <2>2
  <2>4. DOMAIN new = 1..Len(new)
    BY <1>4
  <2> QED
    BY <1>2, <1>4, <1>5, <2>1, <2>2, <2>3, <2>4 DEF Tells
<1>13. CASE moments # <<>> /\ Len(moments) < Len(resolutions[b])
  <2>1. backdating' = [bug |-> None]
    BY <1>13 DEF Reporting!Backdate
  <2>2. Reporting!UnderWay' = None /\ backdating' # None
    BY <2>1, NoneIsNothingElse DEF Reporting!UnderWay
  <2>3. Reporting!TypeOK'
    BY <1>2, <1>5, <2>1 DEF ReportInv, Reporting!TypeOK
  <2>4. ResolvedHaveEvents'
    <3> SUFFICES ASSUME NEW c \in Bugs, IsResolved(c)
                 PROVE  /\ bug[c].created <= bug[c].resolved
                        /\ \E i \in Nat : Tells(c, i, bug[c].resolved)'
      BY <1>2, <1>11 DEF ResolvedHaveEvents
    <3>1. Tells(c, Len(resolutions[c]), bug[c].resolved)'
      BY <1>9, <1>12, <1>13
    <3> QED
      BY <1>8, <1>10, <3>1
  <2>5. LastEventTells' /\ BackdatingTells'
    BY <2>2, NoneIsNothingElse DEF LastEventTells, BackdatingTells
  <2> QED
    BY <1>7, <2>3, <2>4, <2>5 DEF ReportInv
<1>14. CASE ~(moments # <<>> /\ Len(moments) < Len(resolutions[b]))
  <2> DEFINE terminal == moments # <<>> /\ bug[b].status \in Reporting!TerminalStatuses
             moment == IF terminal THEN moments[Len(moments)] ELSE None
  <2>1. backdating' = [bug |-> b, created |-> h.created, resolved |-> moment]
    BY <1>14 DEF Reporting!Backdate, Reporting!Last
  <2>2. moments # <<>> => Len(moments) \in 1..Len(moments) /\ Len(moments) = Len(new)
    BY <1>1, <1>2, <1>3, <1>4, <1>14
  <2>3. moments = <<>> => Len(moments) < Len(resolutions[b]) \/ Len(resolutions[b]) = 0
    BY <1>3
  <2>4. terminal => moments[Len(moments)] \in Nat /\ h.created <= moments[Len(moments)]
    BY <1>1, <2>2
  <2>5. moment \in Nat \union {None} /\ (terminal <=> moment # None)
    BY <2>4, NoneIsNothingElse
  <2>6. \A m : m = moment /\ m # None =>
          h.created <= m /\ Tells(b, Len(resolutions[b]), m)'
    <3> SUFFICES ASSUME NEW m, m = moment, m # None
                 PROVE  h.created <= m /\ Tells(b, Len(resolutions[b]), m)'
      OBVIOUS
    <3>1. terminal /\ m = moments[Len(moments)] /\ h.created <= m /\ m \in Nat
      BY <2>4, <2>5
    <3>2. Len(new) \in 1..Len(new) /\ new[Len(new)] = moments[Len(moments)] /\ DOMAIN new = 1..Len(new)
      BY <1>4, <2>2, <3>1
    <3> QED
      BY <1>5, <3>1, <3>2 DEF Tells
  <2> HIDE DEF moment
  <2>7. backdating' \in Reporting!Backdatings /\ backdating' # None
    BY <1>1, <2>1, <2>5, NoneIsNothingElse DEF Reporting!Backdatings
  <2>8. Reporting!UnderWay' = b /\ backdating'.created = h.created /\ backdating'.resolved = moment
    BY <2>1, <2>7 DEF Reporting!UnderWay
  <2>9. Reporting!TypeOK'
    BY <1>2, <1>5, <2>7 DEF ReportInv, Reporting!TypeOK
  <2>10. LastEventTells'
    BY <2>7 DEF LastEventTells
  <2>11. ResolvedHaveEvents'
    <3> SUFFICES ASSUME NEW c \in Bugs, IsResolved(c), c = b => moment = None
                 PROVE  /\ bug[c].created <= bug[c].resolved
                        /\ \E i \in Nat : Tells(c, i, bug[c].resolved)'
      BY <1>2, <1>11, <2>8 DEF ResolvedHaveEvents
    <3>1. CASE c # b
      BY <1>8, <1>9, <1>10, <3>1
    <3>2. CASE c = b
      <4>1. bug[b].status \in Reporting!TerminalStatuses
        BY <3>2 DEF IsResolved, Reporting!TerminalStatuses
      <4>2. moments = <<>>
        BY <2>5, <3>2, <4>1
      <4>3. Len(resolutions[b]) \in DOMAIN resolutions[b]
        BY <1>8, <3>2 DEF Tells
      <4>4. Len(moments) < Len(resolutions[b])
        BY <1>3, <2>3, <4>2, <4>3
      <4> QED
        BY <1>8, <1>10, <1>12, <3>2, <4>4
    <3> QED
      BY <3>1, <3>2
  <2>12. BackdatingTells'
    <3>1. moment # None => \E i \in Nat : Tells(b, i, backdating.resolved)'
      <4>1. PICK m : m = moment
        OBVIOUS
      <4>2. m # None => Tells(b, Len(resolutions[b]), m)'
        BY <2>6, <4>1
      <4>3. \A i : Tells(b, i, m)' => Tells(b, i, backdating.resolved)'
        BY <2>8, <4>1 DEF Tells
      <4> QED
        BY <1>10, <4>1, <4>2, <4>3
    <3>2. moment # None => h.created <= moment
      BY <2>6
    <3> QED
      BY <1>2, <1>11, <2>8, <3>1, <3>2 DEF BackdatingTells
  <2> QED
    BY <1>7, <2>9, <2>10, <2>11, <2>12 DEF ReportInv
<1> QED
  BY <1>13, <1>14

LEMMA BackdateRowKeeps ==
  ASSUME ReportInv, Reporting!BackdateRow
  PROVE  ReportInv'
<1>1. PICK b : b = backdating.bug
  OBVIOUS
<1>2. /\ b \in Bugs /\ Reporting!UnderWay = b /\ backdating # None
      /\ backdating.created \in Nat /\ backdating.resolved \in Nat \union {None}
  BY <1>1, UnderWayType DEF Reporting!BackdateRow, Reporting!Backdatings
<1>3. /\ Reporting!Exists(b) /\ backdating.created <= bug[b].created
      /\ backdating.resolved # None =>
           /\ backdating.created <= backdating.resolved
           /\ \E i \in Nat : Tells(b, i, backdating.resolved)
  BY <1>2 DEF ReportInv, BackdatingTells
<1>4. /\ bug[b] \in Reporting!Rows /\ bug[b].created \in Nat /\ now \in Nat
      /\ bug[b].resolved \in Nat \union {None} /\ bug[b].created <= now
  BY <1>2, <1>3, RowTypes DEF ReportInv, NothingFromTheFuture
<1>5. PICK resolved : resolved = IF backdating.resolved = None THEN bug[b].resolved
                                 ELSE backdating.resolved
  OBVIOUS
<1>6. PICK new : new = [bug[b] EXCEPT !.created = backdating.created, !.resolved = resolved]
  OBVIOUS
<1>7. resolved \in Nat \union {None}
  BY <1>2, <1>4, <1>5
<1>8. /\ new \in Reporting!Rows /\ new.status = bug[b].status
      /\ new.created = backdating.created /\ new.resolved = resolved
  BY <1>2, <1>4, <1>6, <1>7 DEF Reporting!Rows
<1>9. new = [bug[b] EXCEPT !.created = backdating.created,
                           !.resolved = IF backdating.resolved = None THEN bug[b].resolved
                                        ELSE backdating.resolved]
  BY <1>5, <1>6
<1>10. bug' = [bug EXCEPT ![b] = new]
  BY <1>1, <1>9 DEF Reporting!BackdateRow
<1>11. backdating' = [bug |-> None] /\ UNCHANGED <<now, resolutions, projectArchived, membership>>
  BY DEF Reporting!BackdateRow
<1>12. Reporting!UnderWay' = None /\ backdating' # None
  BY <1>11, NoneIsNothingElse DEF Reporting!UnderWay
<1>13. Reporting!TypeOK'
  BY <1>2, <1>8, <1>10, <1>11, OtherRows DEF ReportInv, Reporting!TypeOK
<1>14. LastEventTells' /\ BackdatingTells'
  BY <1>12, NoneIsNothingElse DEF LastEventTells, BackdatingTells
<1>15. \A c \in Bugs \ {b} : bug'[c] = bug[c] /\ (Reporting!Exists(c)' <=> Reporting!Exists(c))
                             /\ (IsResolved(c)' <=> IsResolved(c))
  BY <1>2, <1>8, <1>10, OtherRows
<1>16. bug'[b] = new
  BY <1>2, <1>8, <1>10, OtherRows
<1>17. NothingFromTheFuture'
  <2>1. bug'[b].created <= now
    BY <1>2, <1>3, <1>4, <1>8, <1>16
  <2> QED
    BY <1>11, <1>15, <2>1 DEF ReportInv, NothingFromTheFuture
<1>18. \A c, i, m : Tells(c, i, m)' <=> Tells(c, i, m)
  BY <1>11 DEF Tells
<1>19. ResolvedHaveEvents'
  <2> SUFFICES ASSUME NEW c \in Bugs, IsResolved(c)'
               PROVE  /\ bug'[c].created <= bug'[c].resolved
                      /\ \E i \in Nat : Tells(c, i, bug'[c].resolved)
    BY <1>18 DEF ResolvedHaveEvents, Tells
  <2>1. CASE c # b
    BY <1>2, <1>15, <2>1 DEF ReportInv, ResolvedHaveEvents
  <2>2. CASE c = b
    <3>1. bug[b].status \in Reporting!ResolutionStatuses /\ resolved # None
      BY <1>8, <1>16, <2>2 DEF IsResolved
    <3>2. CASE backdating.resolved # None
      BY <1>3, <1>5, <1>8, <1>16, <2>2, <3>2
    <3>3. CASE backdating.resolved = None
      <4>1. resolved = bug[b].resolved /\ IsResolved(b)
        BY <1>3, <1>5, <3>1, <3>3 DEF IsResolved
      <4>2. bug[b].created <= bug[b].resolved /\ \E i \in Nat : Tells(b, i, bug[b].resolved)
        BY <1>2, <3>3, <4>1 DEF ReportInv, ResolvedHaveEvents
      <4>3. bug'[b].created <= bug'[b].resolved
        BY <1>2, <1>3, <1>4, <1>8, <1>16, <3>1, <4>1, <4>2
      <4> QED
        BY <1>8, <1>16, <2>2, <4>1, <4>2, <4>3
    <3> QED
      BY <3>2, <3>3
  <2> QED
    BY <2>1, <2>2
<1> QED
  BY <1>13, <1>14, <1>17, <1>19 DEF ReportInv

LEMMA ReportStep == ReportInv /\ [Reporting!Next]_(Reporting!vars) => ReportInv'
<1> SUFFICES ASSUME ReportInv, [Reporting!Next]_(Reporting!vars) PROVE ReportInv'
  OBVIOUS
<1>1. CASE \E b \in Bugs :
             \/ Reporting!SetArchived(b)
             \/ \E a \in Members \union {NoUser} : Reporting!Assign(b, a)
  BY <1>1, AssignAndArchiveKeep
<1>2. CASE \E b \in Bugs : Reporting!Create(b)
  BY <1>2, CreateKeeps
<1>3. CASE \E b \in Bugs : \E a \in Members \union {NoUser} : \E s \in Reporting!Statuses :
             Reporting!Transition(b, s, a)
  BY <1>3, TransitionKeeps
<1>4. CASE \E b \in Bugs : \E h \in Histories : Reporting!Backdate(b, h.created, h.resolutions)
  BY <1>4, BackdateKeeps
<1>5. CASE Reporting!BackdateRow
  BY <1>5, BackdateRowKeeps
<1>6. CASE \/ Reporting!Tick \/ UNCHANGED Reporting!vars
           \/ \E p \in Projects : Reporting!SetProjectArchived(p)
           \/ \E u \in Members : Reporting!RemoveMember(u)
           \/ \E u \in Members : \E r \in {"developer", "viewer"} : Reporting!ChangeRole(u, r)
  BY <1>6, QuietStepsKeep
<1> QED
  BY <1>1, <1>2, <1>3, <1>4, <1>5, <1>6 DEF Reporting!Next

LEMMA ReportingMoves == [Next]_vars => [Reporting!Next]_(Reporting!vars)
  BY DEF Next, Seed, Serve, Attempt, Look, Upload, Edit, Work, vars, reportVars, Reporting!vars

LEMMA DayBoundsAreMoments ==
  ASSUME NEW r \in Reporting!Ranges
  PROVE  Reporting!DayBounds(r).start \in Int /\ Reporting!DayBounds(r).end \in Int
<1>1. DayLength \in Nat \ {0}
  BY PlatformAssumption DEF Reporting!ReportsAssumption
<1>2. r.from \in Nat /\ r.to \in Nat
  BY DEF Reporting!Ranges, Reporting!Days
<1>3. \A x \in Nat : x * DayLength \in Int
  BY <1>1
<1> QED
  BY <1>2, <1>3 DEF Reporting!DayBounds

LEMMA ReportImplies == ReportInv => Reporting!ResolutionTimesHaveEvents
<1> SUFFICES ASSUME ReportInv, NEW r \in Reporting!Ranges,
                    NEW b \in Reporting!ResolutionTimePopulation(AnyProject, r),
                    Reporting!UnderWay # b
             PROVE  /\ bug[b].created <= bug[b].resolved
                    /\ \E i \in DOMAIN resolutions[b] :
                         /\ Reporting!DayBounds(r).start <= resolutions[b][i]
                         /\ resolutions[b][i] <= Reporting!DayBounds(r).end
  BY DEF Reporting!ResolutionTimesHaveEvents
<1>1. b \in Bugs /\ IsResolved(b) /\ Reporting!Within(bug[b].resolved, r)
  BY DEF Reporting!ResolutionTimePopulation, Reporting!BaseBugs, Reporting!Mutable, IsResolved
<1>2. bug[b].created <= bug[b].resolved /\ \E i \in Nat : Tells(b, i, bug[b].resolved)
  BY <1>1 DEF ReportInv, ResolvedHaveEvents
<1>3. PICK i \in Nat : Tells(b, i, bug[b].resolved)
  BY <1>2
<1>4. bug[b].resolved \in Nat /\ resolutions[b] \in Seq(Nat)
  BY <1>1, RowTypes DEF IsResolved
<1>5. i \in DOMAIN resolutions[b] /\ resolutions[b][i] \in Nat
  BY <1>3, <1>4 DEF Tells
<1>6. PICK start \in Int, end \in Int :
        start = Reporting!DayBounds(r).start /\ end = Reporting!DayBounds(r).end
  BY DayBoundsAreMoments
<1>7. start <= bug[b].resolved /\ bug[b].resolved < end
  BY <1>1, <1>6 DEF Reporting!Within
<1>8. bug[b].resolved <= resolutions[b][i] /\ resolutions[b][i] <= bug[b].resolved + 1
  BY <1>3 DEF Tells
<1>9. start <= resolutions[b][i] /\ resolutions[b][i] <= end
  BY <1>4, <1>5, <1>7, <1>8
<1> QED
  BY <1>2, <1>5, <1>6, <1>9

\* What holds of the rows, the feed and a backdating under way, with any
\* bugs, members, histories and calendar.
THEOREM ReportsAreSound == Spec => []ReportInv
<1>1. Init => ReportInv
  BY ReportInit DEF Init
<1>2. ReportInv /\ [Next]_vars => ReportInv'
  BY ReportStep, ReportingMoves
<1> QED
  BY <1>1, <1>2, PTL DEF Spec

\* A bug whose resolution time counts for some days has a resolution in the
\* feed on them, or a moment after: transition_bug writes its row and the feed
\* by two looks at the clock, and backdate_bug_history both from one history.
THEOREM ResolutionTimesAreEvents == Spec => []ResolutionTimesHaveEvents
<1>1. ReportInv => ResolutionTimesHaveEvents
  BY ReportImplies DEF ResolutionTimesHaveEvents
<1> QED
  BY <1>1, ReportsAreSound, PTL

-----------------------------------------------------------------------------
(* Reporting: pages partition the list.  ORDER BY is total on the rows of  *)
(* the query, so the database has one answer and every page is cut from    *)
(* it.                                                                     *)

\* Sets of naturals have a least element.
LEMMA Least ==
  ASSUME NEW T \in SUBSET Nat, T # {}
  PROVE  \E x \in T : \A y \in T : x <= y
<1>1. PICK R : R = OpToRel(<, Nat)
  OBVIOUS
<1>2. IsWellFoundedOn(R, Nat)
  BY <1>1, NatLessThanWellFounded
<1>3. ASSUME NEW x \in Nat, NEW y \in Nat, x < y PROVE <<x, y>> \in R
  BY <1>1, <1>3 DEF OpToRel
<1>4. PICK x \in T : \A y \in T : <<y, x>> \notin R
  BY <1>2, WFMin
<1>5. \A y \in T : ~(y < x)
  BY <1>3, <1>4
<1> QED
  BY <1>5

Enumerates(s, S, n) ==
  /\ s \in [1..n -> S]
  /\ \A i, j \in 1..n : i # j => s[i] # s[j]
  /\ \A x \in S : \E i \in 1..n : s[i] = x

TotalOn(Before, S) == \A x, y \in S : x # y => <<x, y>> \in Before \/ <<y, x>> \in Before

SortedBy(s, n, Before) == \A i, j \in 1..n : <<s[i], s[j]>> \in Before => i < j

\* Two enumerations of a set that are sorted by the same total relation are one.
LEMMA SortedOneWay ==
  ASSUME NEW S, NEW n \in Nat, NEW s, Enumerates(s, S, n), NEW t, Enumerates(t, S, n),
         NEW Before, TotalOn(Before, S), SortedBy(s, n, Before), SortedBy(t, n, Before)
  PROVE  s = t
<1> USE DEF Enumerates, TotalOn, SortedBy
<1> SUFFICES ASSUME s # t PROVE FALSE
  OBVIOUS
<1>1. PICK Differ : Differ = {k \in 1..n : s[k] # t[k]}
  OBVIOUS
<1>2. Differ \in SUBSET Nat /\ Differ # {}
  <2>1. PICK k \in 1..n : s[k] # t[k]
    <3>1. s = [k \in 1..n |-> s[k]] /\ t = [k \in 1..n |-> t[k]]
      OBVIOUS
    <3> QED
      BY <3>1
  <2>2. Differ \in SUBSET Nat
    BY <1>1
  <2> QED
    BY <1>1, <2>1, <2>2
<1>3. PICK k \in Differ : \A j \in Differ : k <= j
  BY <1>2, Least
<1>4. k \in 1..n /\ s[k] # t[k] /\ s[k] \in S /\ t[k] \in S
  BY <1>1, <1>3
<1>5. \A j \in 1..n : j < k => s[j] = t[j]
  BY <1>1, <1>3
<1>6. PICK i \in 1..n : t[i] = s[k]
  BY <1>4
<1>7. PICK j \in 1..n : s[j] = t[k]
  BY <1>4
<1>8. ~(i < k)
  <2>1. i < k => s[i] = s[k]
    BY <1>5, <1>6
  <2>2. s[i] = s[k] => i = k
    BY <1>4, <1>6
  <2> QED
    BY <1>4, <1>6, <2>1, <2>2
<1>9. ~(j < k)
  <2>1. j < k => t[j] = t[k]
    BY <1>5, <1>7
  <2>2. t[j] = t[k] => j = k
    BY <1>4, <1>7
  <2> QED
    BY <1>4, <1>7, <2>1, <2>2
<1>10. <<s[k], t[k]>> \in Before \/ <<t[k], s[k]>> \in Before
  BY <1>4
<1>11. CASE <<s[k], t[k]>> \in Before
  <2>1. <<t[i], t[k]>> \in Before
    BY <1>6, <1>11
  <2>2. i < k
    BY <1>4, <1>6, <2>1
  <2> QED
    BY <1>8, <2>2
<1>12. CASE <<t[k], s[k]>> \in Before
  <2>1. <<s[j], s[k]>> \in Before
    BY <1>7, <1>12
  <2>2. j < k
    BY <1>4, <1>7, <2>1
  <2> QED
    BY <1>9, <2>2
<1> QED
  BY <1>10, <1>11, <1>12

LEMMA SameSizes ==
  /\ \A S : Reporting!IsFiniteSet(S) <=> IsFiniteSet(S)
  /\ \A S : Reporting!Cardinality(S) = Cardinality(S)
<1>1. \A S : Reporting!IsFiniteSet(S) <=> IsFiniteSet(S)
  BY DEF Reporting!IsFiniteSet, IsFiniteSet
<1>2. \A S : Reporting!Cardinality(S) = Cardinality(S)
  BY DEF Reporting!Cardinality, Cardinality
<1> QED
  BY <1>1, <1>2

\* What the database answers has every row of the query once.
LEMMA AnswersEnumerate ==
  ASSUME NEW S, IsFiniteSet(S), NEW s \in Reporting!SetToSeqs(S)
  PROVE  Cardinality(S) \in Nat /\ Enumerates(s, S, Cardinality(S))
<1> DEFINE D == 1..Cardinality(S)
<1>1. Cardinality(S) \in Nat
  BY FS_CardinalityType
<1>2. s \in [D -> S] /\ \A i, j \in D : i # j => s[i] # s[j]
  BY SameSizes DEF Reporting!SetToSeqs
<1>3. Cardinality(D) = Cardinality(S)
  BY <1>1, FS_Interval
<1>4. s \in Injection(D, S)
  BY <1>2 DEF Injection, IsInjective
<1>5. s \in Surjection(D, S)
  BY <1>3, <1>4, FS_Injection
<1>6. \A x \in S : \E i \in D : s[i] = x
  BY <1>5 DEF Surjection
<1> QED
  BY <1>1, <1>2, <1>6 DEF Enumerates

\* With the primary key as tie-breaker ORDER BY puts any two bugs in an order.
LEMMA OrderIsTotal ==
  ASSUME ReportInv, NEW o \in Reporting!Orderings, NEW a \in Bugs, NEW b \in Bugs, a # b,
         Reporting!Exists(a), Reporting!Exists(b)
  PROVE  Reporting!Precedes(o, a, b) \/ Reporting!Precedes(o, b, a)
<1>1. a \in Nat /\ b \in Nat /\ MaxMoment \in Nat
  BY PlatformAssumption DEF Reporting!ReportsAssumption
<1>2. /\ bug[a].created \in Nat /\ bug[a].updated \in Nat
      /\ bug[b].created \in Nat /\ bug[b].updated \in Nat
  BY RowTypes DEF Reporting!Rows
<1>3. Reporting!DueRank(a) \in Nat /\ Reporting!DueRank(b) \in Nat
  BY <1>1, PlatformAssumption DEF Reporting!ReportsAssumption, Reporting!DueRank
<1>4. Reporting!TieBreak(a, b) \/ Reporting!TieBreak(b, a)
  BY <1>1 DEF Reporting!TieBreak
<1>5. CASE o = "created_at"
  <2>1. \A x, y \in Bugs : Reporting!Precedes(o, x, y) <=>
          \/ bug[x].created < bug[y].created
          \/ bug[x].created = bug[y].created /\ Reporting!TieBreak(x, y)
    BY <1>5 DEF Reporting!Precedes
  <2> QED
    BY <1>2, <1>4, <2>1
<1>6. CASE o = "-created_at"
  <2>1. \A x, y \in Bugs : Reporting!Precedes(o, x, y) <=>
          \/ bug[y].created < bug[x].created
          \/ bug[y].created = bug[x].created /\ Reporting!TieBreak(x, y)
    BY <1>6 DEF Reporting!Precedes
  <2> QED
    BY <1>2, <1>4, <2>1
<1>7. CASE o = "updated_at"
  <2>1. \A x, y \in Bugs : Reporting!Precedes(o, x, y) <=>
          \/ bug[x].updated < bug[y].updated
          \/ bug[x].updated = bug[y].updated /\ Reporting!TieBreak(x, y)
    BY <1>7 DEF Reporting!Precedes
  <2> QED
    BY <1>2, <1>4, <2>1
<1>8. CASE o = "-updated_at"
  <2>1. \A x, y \in Bugs : Reporting!Precedes(o, x, y) <=>
          \/ bug[y].updated < bug[x].updated
          \/ bug[y].updated = bug[x].updated /\ Reporting!TieBreak(x, y)
    BY <1>8 DEF Reporting!Precedes
  <2> QED
    BY <1>2, <1>4, <2>1
<1>9. CASE o = "due_date"
  <2>1. \A x, y \in Bugs : Reporting!Precedes(o, x, y) <=>
          \/ Reporting!DueRank(x) < Reporting!DueRank(y)
          \/ Reporting!DueRank(x) = Reporting!DueRank(y) /\ Reporting!TieBreak(x, y)
    BY <1>9 DEF Reporting!Precedes
  <2> QED
    BY <1>3, <1>4, <2>1
<1>10. CASE o = "-due_date"
  <2>1. \A x, y \in Bugs : Reporting!Precedes(o, x, y) <=>
          \/ Reporting!DueRank(y) < Reporting!DueRank(x)
          \/ Reporting!DueRank(y) = Reporting!DueRank(x) /\ Reporting!TieBreak(x, y)
    BY <1>10 DEF Reporting!Precedes
  <2> QED
    BY <1>3, <1>4, <2>1
<1> QED
  BY <1>5, <1>6, <1>7, <1>8, <1>9, <1>10 DEF Reporting!Orderings

\* A page and what comes after it, cut from one answer, are the answer.
LEMMA PagesOfOneAnswer ==
  ASSUME NEW S, NEW s \in Seq(S), NEW n \in Nat
  PROVE  Reporting!UpToPage(s, n) \o Reporting!AfterPage(s, n) = s
<1> DEFINE m == Reporting!Offset(s, n)
<1>1. m \in 0..Len(s)
  <2>1. n * PageSize \in Nat
    <3>1. PageSize \in Nat
      BY PlatformAssumption DEF Reporting!ReportsAssumption
    <3> QED
      BY <3>1
  <2>2. PICK x \in Nat : x = n * PageSize
    BY <2>1
  <2> QED
    BY <2>2 DEF Reporting!Offset
<1> HIDE DEF m
<1>2. /\ SubSeq(s, 1, m) \in Seq(S) /\ Len(SubSeq(s, 1, m)) = m
      /\ \A i \in 1..m : SubSeq(s, 1, m)[i] = s[i]
  BY <1>1
<1>3. /\ SubSeq(s, m + 1, Len(s)) \in Seq(S) /\ Len(SubSeq(s, m + 1, Len(s))) = Len(s) - m
      /\ \A i \in 1..(Len(s) - m) : SubSeq(s, m + 1, Len(s))[i] = s[m + i]
  BY <1>1
<1>4. PICK u \in Seq(S), v \in Seq(S) : u = SubSeq(s, 1, m) /\ v = SubSeq(s, m + 1, Len(s))
  BY <1>2, <1>3
<1>5. /\ Len(u) = m /\ Len(v) = Len(s) - m /\ m \in Nat /\ Len(s) \in Nat /\ m <= Len(s)
      /\ \A i \in 1..m : u[i] = s[i]
      /\ \A i \in 1..(Len(s) - m) : v[i] = s[m + i]
  BY <1>1, <1>2, <1>3, <1>4
<1>6. u \o v = s
  <2>1. /\ u \o v \in Seq(S) /\ Len(u \o v) = Len(u) + Len(v)
        /\ \A i \in 1..(Len(u) + Len(v)) :
             (u \o v)[i] = IF i <= Len(u) THEN u[i] ELSE v[i - Len(u)]
    BY ConcatProperties
  <2>2. Len(u) + Len(v) = Len(s)
    BY <1>5
  <2>3. \A i \in 1..Len(s) : (u \o v)[i] = s[i]
    <3> SUFFICES ASSUME NEW i \in 1..Len(s) PROVE (u \o v)[i] = s[i]
      OBVIOUS
    <3>1. CASE i <= m
      BY <1>5, <2>1, <2>2, <3>1
    <3>2. CASE ~(i <= m)
      <4>1. (u \o v)[i] = v[i - m] /\ i - m \in 1..(Len(s) - m) /\ m + (i - m) = i
        BY <1>5, <2>1, <2>2, <3>2
      <4> QED
        BY <1>5, <4>1
    <3> QED
      BY <3>1, <3>2
  <2>4. Len(u \o v) = Len(s)
    BY <2>1, <2>2
  <2> QED
    BY <2>1, <2>3, <2>4, SeqEqual
<1> QED
  BY <1>4, <1>6 DEF Reporting!UpToPage, Reporting!AfterPage, m

\* A list of bugs with one of these tags, and the bugs that it is to show.
ListOf(tags) == [Reporting!AnyBug EXCEPT !.tags = tags]

Matching(tags) ==
  {b \in Bugs : /\ Reporting!Matches(b, ListOf(tags))
                /\ tags = {} \/ tags \intersect TagsOf[b] # {}}

\* The query has a row for each, however many of the tags it has.
LEMMA ListIsMatching ==
  ASSUME NEW tags
  PROVE  Reporting!ListBugs(ListOf(tags)) = {[bug |-> b, tag |-> None] : b \in Matching(tags)}
<1> DEFINE q == ListOf(tags)
<1>1. q.tags = tags
  BY DEF Reporting!AnyBug, ListOf
<1> HIDE DEF q
<1>2. CASE tags = {}
  <2>1. Reporting!ListBugs(q) =
          {[bug |-> b, tag |-> None] : b \in {c \in Bugs : Reporting!Matches(c, q)}}
    BY <1>1, <1>2 DEF Reporting!ListBugs
  <2>2. Matching(tags) = {c \in Bugs : Reporting!Matches(c, q)}
    BY <1>2 DEF Matching, q
  <2> QED
    BY <2>1, <2>2 DEF q
<1>3. CASE tags # {}
  <2>1. PICK rows : rows = {x \in [bug : Bugs, tag : tags] :
                              Reporting!Matches(x.bug, q) /\ x.tag \in TagsOf[x.bug]}
    OBVIOUS
  <2>2. Reporting!ListBugs(q) = {[bug |-> x.bug, tag |-> None] : x \in rows}
    BY <1>1, <1>3, <2>1 DEF Reporting!ListBugs, Reporting!Distinct
  <2>3. \A x \in rows : x.bug \in Matching(tags)
    BY <1>3, <2>1 DEF Matching, q
  <2>4. \A b \in Matching(tags) : \E x \in rows : x.bug = b
    <3> SUFFICES ASSUME NEW b \in Matching(tags) PROVE \E x \in rows : x.bug = b
      OBVIOUS
    <3>1. b \in Bugs /\ Reporting!Matches(b, q) /\ tags \intersect TagsOf[b] # {}
      BY <1>3 DEF Matching, q
    <3>2. PICK tag \in tags : tag \in TagsOf[b]
      BY <3>1
    <3>3. PICK x : x = [bug |-> b, tag |-> tag]
      OBVIOUS
    <3>4. x \in [bug : Bugs, tag : tags] /\ x.bug = b /\ x.tag = tag
      BY <3>1, <3>3
    <3>5. x \in rows
      BY <2>1, <3>1, <3>2, <3>4
    <3> QED
      BY <3>4, <3>5
  <2>5. {[bug |-> x.bug, tag |-> None] : x \in rows}
          = {[bug |-> b, tag |-> None] : b \in Matching(tags)}
    BY <2>3, <2>4
  <2> QED
    BY <2>2, <2>5 DEF q
<1> QED
  BY <1>2, <1>3

\* So many rows as bugs, each of another bug.
LEMMA RowsOfTheList ==
  ASSUME NEW Found \in SUBSET Bugs, NEW S, S = {[bug |-> b, tag |-> None] : b \in Found}
  PROVE  /\ IsFiniteSet(S) /\ Cardinality(S) = Cardinality(Found)
         /\ \A x \in S : x.bug \in Found
         /\ \A b \in Found : \E x \in S : x.bug = b
         /\ \A x, y \in S : x # y => x.bug # y.bug
<1>1. IsFiniteSet(Found)
  <2>1. IsFiniteSet(Bugs)
    BY PlatformAssumption, SameSizes DEF Reporting!ReportsAssumption
  <2> QED
    BY <2>1, FS_Subset
<1>2. PICK f : f = [b \in Found |-> [bug |-> b, tag |-> None]]
  OBVIOUS
<1>3. f \in [Found -> S] /\ \A x \in S : \E b \in Found : f[b] = x
  BY <1>2
<1>4. \A b, c \in Found : f[b] = f[c] => b = c
  <2>1. \A b \in Found : f[b].bug = b
    BY <1>2
  <2> QED
    BY <2>1
<1>5. f \in Surjection(Found, S) /\ f \in Injection(Found, S)
  BY <1>3, <1>4 DEF Surjection, Injection, IsInjective
<1>6. IsFiniteSet(S) /\ Cardinality(S) = Cardinality(Found)
  BY <1>1, <1>5, FS_Surjection
<1>7. \A x \in S : \E b \in Found : x = [bug |-> b, tag |-> None] /\ x.bug = b
  OBVIOUS
<1>8. \A b \in Found : \E x \in S : x.bug = b
  <2>1. \A b \in Found : f[b] \in S /\ f[b].bug = b
    BY <1>2
  <2> QED
    BY <2>1
<1> QED
  BY <1>6, <1>7, <1>8

LEMMA OneAnswer ==
  ASSUME ReportInv, NEW tags, NEW o \in Reporting!Orderings,
         NEW s \in Reporting!Answers(ListOf(tags), o), NEW t \in Reporting!Answers(ListOf(tags), o)
  PROVE  /\ s = t /\ s \in Seq(Reporting!ListBugs(ListOf(tags)))
         /\ Len(s) = Cardinality(Matching(tags))
         /\ {s[i].bug : i \in DOMAIN s} = Matching(tags)
<1>1. PICK S : S = Reporting!ListBugs(ListOf(tags))
  OBVIOUS
<1>2. PICK Found : Found = Matching(tags)
  OBVIOUS
<1>3. Found \in SUBSET Bugs /\ \A b \in Found : Reporting!Exists(b)
  BY <1>2 DEF Matching, Reporting!Matches
<1>4. S = {[bug |-> b, tag |-> None] : b \in Found}
  BY <1>1, <1>2, ListIsMatching
<1>5. /\ IsFiniteSet(S) /\ Cardinality(S) = Cardinality(Found)
      /\ \A x \in S : x.bug \in Found
      /\ \A b \in Found : \E x \in S : x.bug = b
      /\ \A x, y \in S : x # y => x.bug # y.bug
  BY <1>3, <1>4, RowsOfTheList
<1>6. /\ s \in Reporting!SetToSeqs(S) /\ t \in Reporting!SetToSeqs(S)
      /\ \A i, j \in DOMAIN s : Reporting!Precedes(o, s[i].bug, s[j].bug) => i < j
      /\ \A i, j \in DOMAIN t : Reporting!Precedes(o, t[i].bug, t[j].bug) => i < j
  BY <1>1 DEF Reporting!Answers
<1>7. PICK n : n = Cardinality(S)
  OBVIOUS
<1>8. n \in Nat
  BY <1>5, <1>7, FS_CardinalityType
<1>9. Enumerates(s, S, n) /\ Enumerates(t, S, n)
  BY <1>5, <1>6, <1>7, AnswersEnumerate
<1>10. PICK Before : Before = {z \in S \X S : Reporting!Precedes(o, z[1].bug, z[2].bug)}
  OBVIOUS
<1>11. /\ Before \in SUBSET (S \X S)
       /\ \A x, y \in S : <<x, y>> \in Before <=> Reporting!Precedes(o, x.bug, y.bug)
  BY <1>10
<1>12. TotalOn(Before, S)
  <2> SUFFICES ASSUME NEW x \in S, NEW y \in S, x # y
               PROVE  Reporting!Precedes(o, x.bug, y.bug) \/ Reporting!Precedes(o, y.bug, x.bug)
    BY <1>11 DEF TotalOn
  <2>1. /\ x.bug \in Bugs /\ y.bug \in Bugs /\ x.bug # y.bug
        /\ Reporting!Exists(x.bug) /\ Reporting!Exists(y.bug)
    BY <1>3, <1>5
  <2> QED
    BY <2>1, OrderIsTotal
<1>13. s \in [1..n -> S] /\ t \in [1..n -> S]
  BY <1>9 DEF Enumerates
<1>14. SortedBy(s, n, Before) /\ SortedBy(t, n, Before)
  <2>1. DOMAIN s = 1..n /\ DOMAIN t = 1..n /\ \A i \in 1..n : s[i] \in S /\ t[i] \in S
    BY <1>13
  <2> QED
    BY <1>6, <1>11, <2>1 DEF SortedBy
<1>15. s = t
  BY <1>8, <1>9, <1>12, <1>14, SortedOneWay
<1>16. s \in Seq(S) /\ Len(s) = n /\ DOMAIN s = 1..n
  BY <1>8, <1>13
<1>17. {s[i].bug : i \in DOMAIN s} = Found
  <2>1. \A i \in 1..n : s[i].bug \in Found
    BY <1>5, <1>13
  <2>2. \A b \in Found : \E i \in 1..n : s[i].bug = b
    <3> TAKE b \in Found
    <3>1. PICK x \in S : x.bug = b
      BY <1>5
    <3>2. PICK i \in 1..n : s[i] = x
      BY <1>9 DEF Enumerates
    <3> QED
      BY <3>1, <3>2
  <2> QED
    BY <1>16, <2>1, <2>2
<1> QED
  BY <1>1, <1>2, <1>5, <1>7, <1>15, <1>16, <1>17

\* BugListView with any page size: in an ordering whose tie-breaker is the
\* primary key the pages of a list show every matching bug once, however the
\* database breaks what it takes for ties.
THEOREM PagesShowEachBugOnce == Spec => []PagesPartition
<1>1. ReportInv => PagesPartition
  <2> SUFFICES ASSUME ReportInv PROVE Reporting!PagesPartition
    BY DEF PagesPartition
  <2>1. \A tags \in {{}, Tags}, o \in Reporting!Orderings :
          \A s, t \in Reporting!Answers(ListOf(tags), o) : \A n \in 0..Len(s) :
            LET seen == Reporting!UpToPage(s, n) \o Reporting!AfterPage(t, n)
            IN {seen[i].bug : i \in DOMAIN seen} = Matching(tags)
               /\ Len(seen) = Reporting!Cardinality(Matching(tags))
    <3> TAKE tags \in {{}, Tags}, o \in Reporting!Orderings
    <3> TAKE s, t \in Reporting!Answers(ListOf(tags), o)
    <3> TAKE n \in 0..Len(s)
    <3>1. /\ s = t /\ s \in Seq(Reporting!ListBugs(ListOf(tags)))
          /\ Len(s) = Cardinality(Matching(tags))
          /\ {s[i].bug : i \in DOMAIN s} = Matching(tags)
      BY OneAnswer
    <3>2. n \in Nat
      BY <3>1
    <3>3. Reporting!UpToPage(s, n) \o Reporting!AfterPage(t, n) = s
      BY <3>1, <3>2, PagesOfOneAnswer
    <3> QED
      BY <3>1, <3>3, SameSizes
  <2> QED
    BY <2>1 DEF Reporting!PagesPartition, Matching, ListOf
<1> QED
  BY <1>1, ReportsAreSound, PTL

-----------------------------------------------------------------------------
(* Reporting: sections agree.  A sum of counts by something is the count   *)
(* of all, because every row is counted by one value.                      *)

\* The rows of U that h gives a value in s.
Counted(U, h, s) == {b \in U : h[b] \in s}

\* The community module's sum, as the function that it is: of a set, of what
\* the sum of the set without one element is.
SumStep(f, X, G) ==
  [s \in SUBSET X |->
     IF s = {} THEN 0 ELSE f[CHOOSE x \in s : TRUE] + G[s \ {CHOOSE x \in s : TRUE}]]
SumOf(f, X) == CHOOSE G : G = SumStep(f, X, G)

LEMMA SumIsRecursive ==
  ASSUME NEW X, NEW f
  PROVE  Reporting!SumOver(f, X) = SumOf(f, X)[X]
  BY DEF Reporting!SumOver, Reporting!MapThenSumSet, Reporting!MapThenFoldSet, SumOf, SumStep

LEMMA SumIsDefined ==
  ASSUME NEW X, NEW f, NEW g, g = SumStep(f, X, g)
  PROVE  SumOf(f, X) = SumStep(f, X, SumOf(f, X))
  BY Zenon DEF SumOf

LEMMA CountedApart ==
  ASSUME NEW U, IsFiniteSet(U), NEW h, NEW s, NEW t, s \intersect t = {}
  PROVE  /\ IsFiniteSet(Counted(U, h, s)) /\ Cardinality(Counted(U, h, s)) \in Nat
         /\ Cardinality(Counted(U, h, t)) \in Nat
         /\ Cardinality(Counted(U, h, s \union t))
              = Cardinality(Counted(U, h, s)) + Cardinality(Counted(U, h, t))
<1> DEFINE both == Counted(U, h, s \union t)
           left == Counted(U, h, s)
           right == Counted(U, h, t)
<1>1. left \in SUBSET U /\ right \in SUBSET U
  BY DEF Counted
<1>2. both = left \union right /\ left \intersect right = {}
  BY DEF Counted
<1> HIDE DEF both, left, right
<1>3. IsFiniteSet(left) /\ IsFiniteSet(right)
  BY <1>1, FS_Subset
<1>4. Cardinality(left) \in Nat /\ Cardinality(right) \in Nat
  BY <1>3, FS_CardinalityType
<1>5. Cardinality(both) = Cardinality(left) + Cardinality(right) - Cardinality(left \intersect right)
  BY <1>2, <1>3, FS_Union
<1>6. Cardinality(left \intersect right) = 0
  BY <1>2, FS_EmptySet
<1>7. Cardinality(both) = Cardinality(left) + Cardinality(right)
  BY <1>4, <1>5, <1>6
<1> QED
  BY <1>3, <1>4, <1>7 DEF both, left, right

LEMMA CountedOneByOne ==
  ASSUME NEW U, IsFiniteSet(U), NEW h, NEW s, NEW x \in s
  PROVE  Cardinality(Counted(U, h, s))
           = Cardinality(Counted(U, h, {x})) + Cardinality(Counted(U, h, s \ {x}))
<1>1. {x} \union (s \ {x}) = s /\ {x} \intersect (s \ {x}) = {}
  OBVIOUS
<1>2. Cardinality(Counted(U, h, {x} \union (s \ {x})))
        = Cardinality(Counted(U, h, {x})) + Cardinality(Counted(U, h, s \ {x}))
  BY <1>1, CountedApart
<1> QED
  BY <1>1, <1>2

LEMMA SumOfCounts ==
  ASSUME NEW U, IsFiniteSet(U), NEW h, NEW X, IsFiniteSet(X), NEW f,
         \A x \in X : f[x] = Cardinality(Counted(U, h, {x}))
  PROVE  Reporting!SumOver(f, X) = Cardinality(Counted(U, h, X))
<1> DEFINE g == [s \in SUBSET X |-> Cardinality(Counted(U, h, s))]
<1>1. \A s \in SUBSET X : \A x \in s : g[s] = f[x] + g[s \ {x}]
  <2>1. SUFFICES ASSUME NEW s \in SUBSET X, NEW x \in s
                 PROVE  g[s] = f[x] + g[s \ {x}]
    OBVIOUS
  <2>2. g[s] = Cardinality(Counted(U, h, s))
        /\ g[s \ {x}] = Cardinality(Counted(U, h, s \ {x}))
        /\ f[x] = Cardinality(Counted(U, h, {x}))
    OBVIOUS
  <2> QED
    BY <2>2, CountedOneByOne
<1>2. g[{}] = 0
  <2>1. Counted(U, h, {}) = {}
    BY DEF Counted
  <2> QED
    BY <2>1, FS_EmptySet
<1>3. g[X] = Cardinality(Counted(U, h, X))
  OBVIOUS
<1>4. g = [s \in SUBSET X |-> g[s]]
  OBVIOUS
<1> HIDE DEF g
<1>5. g = SumStep(f, X, g)
  <2>1. \A s \in SUBSET X : s # {} => (CHOOSE x \in s : TRUE) \in s
    OBVIOUS
  <2>2. \A s \in SUBSET X : g[s] =
          IF s = {} THEN 0 ELSE f[CHOOSE x \in s : TRUE] + g[s \ {CHOOSE x \in s : TRUE}]
    BY <1>1, <1>2, <2>1
  <2> QED
    BY <1>4, <2>2 DEF SumStep
<1>6. PICK F : F = SumOf(f, X)
  OBVIOUS
<1>6a. F = SumStep(f, X, F)
  BY <1>5, <1>6, SumIsDefined
<1>6b. \A s \in SUBSET X : F[s] =
             IF s = {} THEN 0 ELSE f[CHOOSE x \in s : TRUE] + F[s \ {CHOOSE x \in s : TRUE}]
  BY <1>6a DEF SumStep
<1>7. \A s \in SUBSET X : F[s] = g[s]
  <2> SUFFICES ASSUME \E s \in SUBSET X : F[s] # g[s] PROVE FALSE
    OBVIOUS
  <2>1. \A s \in SUBSET X : IsFiniteSet(s) /\ Cardinality(s) \in Nat
    BY FS_Subset, FS_CardinalityType
  <2>2. PICK T : T = {n \in Nat : \E s \in SUBSET X : Cardinality(s) = n /\ F[s] # g[s]}
    OBVIOUS
  <2>3. T \in SUBSET Nat /\ T # {}
    BY <2>1, <2>2
  <2>4. PICK n \in T : \A m \in T : n <= m
    BY <2>3, Least
  <2>5. PICK s \in SUBSET X : Cardinality(s) = n /\ F[s] # g[s]
    BY <2>2, <2>4
  <2>6. s # {}
    BY <1>2, <1>6b, <2>5
  <2>7. PICK x \in s : x = CHOOSE y \in s : TRUE
    BY <2>6
  <2>8. Cardinality(s \ {x}) = n - 1 /\ n - 1 \in Nat /\ ~(n <= n - 1)
    <3>1. IsFiniteSet(s) /\ Cardinality(s) \in Nat
      BY <2>1
    <3>2. Cardinality(s \ {x}) = Cardinality(s) - 1
      BY <3>1, FS_RemoveElement
    <3>3. Cardinality(s \ {x}) \in Nat
      BY <2>1
    <3> QED
      BY <2>5, <3>1, <3>2, <3>3
  <2>9. s \ {x} \in SUBSET X /\ F[s \ {x}] = g[s \ {x}]
    BY <2>2, <2>4, <2>8
  <2>10. F[s] = f[x] + F[s \ {x}]
    BY <1>6b, <2>6, <2>7
  <2> QED
    BY <1>1, <2>5, <2>9, <2>10
<1> QED
  BY <1>3, <1>6, <1>7, SumIsRecursive

\* The same in the terms of Reports.
LEMMA SumByValue ==
  ASSUME NEW U, IsFiniteSet(U), NEW h, NEW X, IsFiniteSet(X), NEW f,
         \A x \in X : f[x] = Reporting!Cardinality(Counted(U, h, {x}))
  PROVE  Reporting!SumOver(f, X) = Reporting!Cardinality(Counted(U, h, X))
<1>1. \A x \in X : f[x] = Cardinality(Counted(U, h, {x}))
  BY SameSizes
<1>2. Reporting!SumOver(f, X) = Cardinality(Counted(U, h, X))
  BY <1>1, SumOfCounts
<1> QED
  BY <1>2, SameSizes

LEMMA RowsAreFinite ==
  /\ \A p : IsFiniteSet(Reporting!BaseBugs(p))
  /\ \A p : IsFiniteSet({b \in Reporting!BaseBugs(p) : Reporting!IsOpen(b)})
  /\ \A p, r : IsFiniteSet(Reporting!BaseResolutionActivity(p, r))
<1>1. IsFiniteSet(Bugs)
  BY PlatformAssumption, SameSizes DEF Reporting!ReportsAssumption
<1>2. \A p : Reporting!BaseBugs(p) \in SUBSET Bugs
  BY DEF Reporting!BaseBugs
<1>3. \A p : IsFiniteSet(Reporting!BaseBugs(p))
  BY <1>1, <1>2, FS_Subset
<1>4. \A p : IsFiniteSet({b \in Reporting!BaseBugs(p) : Reporting!IsOpen(b)})
  BY <1>3, FS_Subset
<1>5. 1 \in Int /\ MaxResolutions \in Int
  BY PlatformAssumption DEF Reporting!ReportsAssumption
<1>6. IsFiniteSet(Bugs \X (1..MaxResolutions))
  BY <1>1, <1>5, FS_Interval, FS_Product
<1>7. \A p, r : Reporting!BaseResolutionActivity(p, r) \in SUBSET (Bugs \X (1..MaxResolutions))
  BY DEF Reporting!BaseResolutionActivity
<1>8. \A p, r : IsFiniteSet(Reporting!BaseResolutionActivity(p, r))
  BY <1>6, <1>7, FS_Subset
<1> QED
  BY <1>3, <1>4, <1>8

\* status_distribution_section and the summary.
LEMMA OpenByStatus ==
  ASSUME NEW p
  PROVE  Reporting!OpenBugCount(p)
           = Reporting!SumOver(Reporting!StatusDistribution(p), Reporting!OpenStatuses)
<1> DEFINE h == [b \in Bugs |-> bug[b].status]
           U == Reporting!BaseBugs(p)
           X == Reporting!OpenStatuses
           f == Reporting!StatusDistribution(p)
<1>1. IsFiniteSet(X)
  <2> DEFINE g == <<"new", "triaged", "assigned", "in_progress", "ready_for_qa",
                    "reopened", "blocked", "deferred">>
  <2>1. g \in [1..8 -> X]
    BY DEF Reporting!OpenStatuses
  <2>2. \A x \in X : \E i \in 1..8 : g[i] = x
    <3>1. /\ g[1] = "new" /\ g[2] = "triaged" /\ g[3] = "assigned" /\ g[4] = "in_progress"
          /\ g[5] = "ready_for_qa" /\ g[6] = "reopened" /\ g[7] = "blocked" /\ g[8] = "deferred"
      OBVIOUS
    <3> HIDE DEF g
    <3> QED
      BY <3>1 DEF Reporting!OpenStatuses
  <2> HIDE DEF g, X
  <2>3. g \in Surjection(1..8, X)
    BY <2>1, <2>2 DEF Surjection
  <2>4. IsFiniteSet(1..8)
    <3>1. 1 \in Int /\ 8 \in Int
      OBVIOUS
    <3> QED
      BY <3>1, FS_Interval
  <2> QED
    BY <2>3, <2>4, FS_Surjection
<1>2. U \in SUBSET Bugs /\ IsFiniteSet(U)
  BY RowsAreFinite DEF Reporting!BaseBugs
<1>3. \A x \in X : f[x] = Reporting!Cardinality(Counted(U, h, {x}))
  <2> TAKE x \in X
  <2>1. f[x] = Reporting!Cardinality({b \in U : bug[b].status = x})
    BY DEF Reporting!StatusDistribution, Reporting!Statuses
  <2>2. {b \in U : bug[b].status = x} = Counted(U, h, {x})
    BY <1>2 DEF Counted
  <2> QED
    BY <2>1, <2>2
<1>4. Counted(U, h, X) = {b \in U : Reporting!IsOpen(b)}
  BY <1>2 DEF Counted, Reporting!IsOpen
<1> HIDE DEF h, U, X, f
<1>5. Reporting!SumOver(f, X) = Reporting!Cardinality(Counted(U, h, X))
  BY <1>1, <1>2, <1>3, SumByValue
<1> QED
  BY <1>4, <1>5 DEF U, X, f, Reporting!OpenBugCount

\* workload_section and the summary: an open bug is assigned to nobody, to
\* staff, or to somebody who is to be replaced.
LEMMA OpenByAssignee ==
  ASSUME ReportInv, NEW p
  PROVE  Reporting!OpenBugCount(p) = Reporting!WorkloadTotal(Reporting!Workload(p))
<1> DEFINE h == [b \in Bugs |-> bug[b].assignee]
           U == {b \in Reporting!BaseBugs(p) : Reporting!IsOpen(b)}
           staff == {u \in Members : membership[u] \in Reporting!StaffRoles}
           others == {u \in Members : Reporting!NeedsReassignment(u)}
           w == Reporting!Workload(p)
<1>1. U \in SUBSET Bugs /\ IsFiniteSet(U)
  BY RowsAreFinite DEF Reporting!BaseBugs
<1>2. IsFiniteSet(staff) /\ IsFiniteSet(others)
  <2>1. IsFiniteSet(Members)
    BY PlatformAssumption, SameSizes DEF Reporting!ReportsAssumption
  <2> QED
    BY <2>1, FS_Subset
<1>3. /\ staff \intersect others = {} /\ staff \union others = Members
      /\ NoUser \notin Members
  BY PlatformAssumption DEF Reporting!NeedsReassignment, Reporting!ReportsAssumption
<1>4. \A b \in U : h[b] \in Members \union {NoUser}
  <2> TAKE b \in U
  <2>1. b \in Bugs /\ Reporting!Exists(b)
    BY DEF Reporting!BaseBugs, Reporting!Mutable
  <2>2. bug[b] \in Reporting!Rows
    BY <2>1, RowTypes
  <2> QED
    BY <2>1, <2>2 DEF Reporting!Rows
<1>5. \A u : Reporting!AssignedOpen(p, u) = Reporting!Cardinality(Counted(U, h, {u}))
  <2> TAKE u
  <2>1. {b \in Reporting!BaseBugs(p) : Reporting!IsOpen(b) /\ bug[b].assignee = u}
          = Counted(U, h, {u})
    BY <1>1 DEF Counted
  <2> QED
    BY <2>1 DEF Reporting!AssignedOpen
<1>6. /\ w.unassigned = Reporting!AssignedOpen(p, NoUser)
      /\ w.eligible = [u \in staff |-> Reporting!AssignedOpen(p, u)]
      /\ w.needsReassignment = [u \in others |-> Reporting!AssignedOpen(p, u)]
  BY DEF Reporting!Workload
<1>7. Reporting!WorkloadTotal(w) =
        w.unassigned + Reporting!SumOver(w.eligible, DOMAIN w.eligible)
          + Reporting!SumOver(w.needsReassignment, DOMAIN w.needsReassignment)
  BY DEF Reporting!WorkloadTotal, Reporting!Sum
<1>8. Counted(U, h, {NoUser} \union (staff \union others)) = U
  BY <1>3, <1>4 DEF Counted
<1>9. Reporting!OpenBugCount(p) = Reporting!Cardinality(U)
  BY DEF Reporting!OpenBugCount
<1> HIDE DEF h, U, staff, others, w
<1>10. /\ Reporting!SumOver(w.eligible, DOMAIN w.eligible) = Cardinality(Counted(U, h, staff))
       /\ Reporting!SumOver(w.needsReassignment, DOMAIN w.needsReassignment)
            = Cardinality(Counted(U, h, others))
  <2>1. DOMAIN w.eligible = staff /\ DOMAIN w.needsReassignment = others
    BY <1>6
  <2>2. \A u \in staff : w.eligible[u] = Reporting!Cardinality(Counted(U, h, {u}))
    BY <1>5, <1>6
  <2>3. \A u \in others : w.needsReassignment[u] = Reporting!Cardinality(Counted(U, h, {u}))
    BY <1>5, <1>6
  <2>4. Reporting!SumOver(w.eligible, staff) = Reporting!Cardinality(Counted(U, h, staff))
    BY <1>1, <1>2, <2>2, SumByValue
  <2>5. Reporting!SumOver(w.needsReassignment, others) = Reporting!Cardinality(Counted(U, h, others))
    BY <1>1, <1>2, <2>3, SumByValue
  <2> QED
    BY <2>1, <2>4, <2>5, SameSizes
<1>11. w.unassigned = Cardinality(Counted(U, h, {NoUser}))
  BY <1>5, <1>6, SameSizes
<1>12. /\ Cardinality(Counted(U, h, staff)) \in Nat /\ Cardinality(Counted(U, h, others)) \in Nat
       /\ Cardinality(Counted(U, h, staff \union others))
            = Cardinality(Counted(U, h, staff)) + Cardinality(Counted(U, h, others))
  <2>1. staff \intersect others = {}
    BY <1>3
  <2> QED
    BY <1>1, <2>1, CountedApart
<1>13. /\ Cardinality(Counted(U, h, {NoUser})) \in Nat
       /\ Cardinality(Counted(U, h, {NoUser} \union (staff \union others)))
            = Cardinality(Counted(U, h, {NoUser})) + Cardinality(Counted(U, h, staff \union others))
  <2>1. {NoUser} \intersect (staff \union others) = {}
    BY <1>3
  <2> QED
    BY <1>1, <2>1, CountedApart
<1>14. Reporting!WorkloadTotal(w) = Cardinality(U)
  BY <1>7, <1>8, <1>10, <1>11, <1>12, <1>13
<1> QED
  BY <1>9, <1>14, SameSizes DEF w

\* A moment within a range is on a day of the range, and only there.
LEMMA WithinIsOnADay ==
  ASSUME NEW r \in Reporting!Ranges, NEW m \in Nat, Reporting!Within(m, r)
  PROVE  Reporting!Day(m) \in Reporting!DateRange(r)
<1>1. DayLength \in Nat \ {0} /\ MaxMoment \in Nat
  BY PlatformAssumption DEF Reporting!ReportsAssumption
<1>2. r.from \in Nat /\ r.to \in Nat
  BY <1>1 DEF Reporting!Ranges, Reporting!Days, Reporting!Day
<1>3. r.from * DayLength <= m /\ m < (r.to + 1) * DayLength
  BY DEF Reporting!Within, Reporting!DayBounds
<1>4. PICK q \in Nat : q = m \div DayLength
  BY <1>1
<1>5. q * DayLength <= m /\ m < (q + 1) * DayLength
  BY <1>1, <1>4
<1>6. r.from <= q
  BY <1>1, <1>2, <1>3, <1>5
<1>7. q <= r.to
  BY <1>1, <1>2, <1>3, <1>5
<1> QED
  BY <1>2, <1>4, <1>6, <1>7 DEF Reporting!Day, Reporting!DateRange

LEMMA DaysAreFinite ==
  ASSUME NEW r \in Reporting!Ranges
  PROVE  IsFiniteSet(Reporting!DateRange(r))
<1>1. r.from \in Int /\ r.to \in Int
  BY PlatformAssumption
     DEF Reporting!Ranges, Reporting!Days, Reporting!Day, Reporting!ReportsAssumption
<1> QED
  BY <1>1, FS_Interval DEF Reporting!DateRange

\* trends_section and the summary, on new bugs.
LEMMA NewByDay ==
  ASSUME ReportInv, NEW p, NEW r \in Reporting!Ranges
  PROVE  Reporting!NewBugCount(p, r)
           = Reporting!Sum([d \in Reporting!DateRange(r) |-> Reporting!Trends(p, r)[d].created])
<1> DEFINE h == [b \in Bugs |-> Reporting!Day(bug[b].created)]
           U == {b \in Reporting!BaseBugs(p) : Reporting!Within(bug[b].created, r)}
           X == Reporting!DateRange(r)
           f == [d \in X |-> Reporting!Trends(p, r)[d].created]
<1>1. U \in SUBSET Bugs /\ IsFiniteSet(U)
  BY RowsAreFinite, FS_Subset DEF Reporting!BaseBugs
<1>2. IsFiniteSet(X)
  BY DaysAreFinite
<1>3. \A d \in X : f[d] = Reporting!Cardinality(Counted(U, h, {d}))
  <2> TAKE d \in X
  <2>1. f[d] = Reporting!Cardinality({b \in Reporting!BaseBugs(p) :
                 Reporting!Within(bug[b].created, r) /\ Reporting!Day(bug[b].created) = d})
    BY DEF Reporting!Trends
  <2>2. {b \in Reporting!BaseBugs(p) :
           Reporting!Within(bug[b].created, r) /\ Reporting!Day(bug[b].created) = d}
          = Counted(U, h, {d})
    BY <1>1 DEF Counted
  <2> QED
    BY <2>1, <2>2
<1>4. \A b \in U : h[b] \in X
  <2> TAKE b \in U
  <2>1. b \in Bugs /\ Reporting!Exists(b) /\ Reporting!Within(bug[b].created, r)
    BY DEF Reporting!BaseBugs, Reporting!Mutable
  <2>2. bug[b].created \in Nat
    BY <2>1, RowTypes
  <2> QED
    BY <2>1, <2>2, WithinIsOnADay
<1>5. Counted(U, h, X) = U
  BY <1>4 DEF Counted
<1>6. DOMAIN f = X
  OBVIOUS
<1>7. Reporting!NewBugCount(p, r) = Reporting!Cardinality(U)
  BY DEF Reporting!NewBugCount
<1> HIDE DEF h, U, X, f
<1>8. Reporting!SumOver(f, X) = Reporting!Cardinality(Counted(U, h, X))
  BY <1>1, <1>2, <1>3, SumByValue
<1>9. Reporting!NewBugCount(p, r) = Reporting!Sum(f)
  BY <1>5, <1>6, <1>7, <1>8 DEF Reporting!Sum
<1> QED
  BY <1>9 DEF f, X

\* The same on resolutions, which are counted in the activity feed.
LEMMA ResolvedByDay ==
  ASSUME ReportInv, NEW p, NEW r \in Reporting!Ranges
  PROVE  Reporting!ResolvedBugCount(p, r)
           = Reporting!Sum([d \in Reporting!DateRange(r) |-> Reporting!Trends(p, r)[d].resolved])
<1> DEFINE U == Reporting!BaseResolutionActivity(p, r)
           h == [x \in U |-> Reporting!Day(resolutions[x[1]][x[2]])]
           X == Reporting!DateRange(r)
           f == [d \in X |-> Reporting!Trends(p, r)[d].resolved]
<1>1. IsFiniteSet(U) /\ IsFiniteSet(X)
  BY RowsAreFinite, DaysAreFinite
<1>2. \A d \in X : f[d] = Reporting!Cardinality(Counted(U, h, {d}))
  <2> TAKE d \in X
  <2>1. f[d] = Reporting!Cardinality({x \in U : Reporting!Day(resolutions[x[1]][x[2]]) = d})
    BY DEF Reporting!Trends
  <2> HIDE DEF U
  <2>2. {x \in U : Reporting!Day(resolutions[x[1]][x[2]]) = d} = Counted(U, h, {d})
    BY DEF Counted
  <2> QED
    BY <2>1, <2>2
<1>3. \A x \in U : h[x] \in X
  <2> TAKE x \in U
  <2>1. /\ x[1] \in Bugs /\ x[2] \in DOMAIN resolutions[x[1]]
        /\ Reporting!Within(resolutions[x[1]][x[2]], r)
    BY DEF Reporting!BaseResolutionActivity
  <2>2. resolutions[x[1]][x[2]] \in Nat
    <3>1. resolutions[x[1]] \in Seq(Nat)
      BY <2>1, RowTypes
    <3> QED
      BY <2>1, <3>1
  <2>3. Reporting!Day(resolutions[x[1]][x[2]]) \in X
    BY <2>1, <2>2, WithinIsOnADay
  <2> QED
    BY <2>3
<1> HIDE DEF U, h, X
<1>4. Counted(U, h, X) = U
  BY <1>3 DEF Counted
<1>5. DOMAIN f = X
  OBVIOUS
<1>6. Reporting!ResolvedBugCount(p, r) = Reporting!Cardinality(U)
  BY DEF Reporting!ResolvedBugCount, U
<1> HIDE DEF f
<1>7. Reporting!SumOver(f, X) = Reporting!Cardinality(Counted(U, h, X))
  BY <1>1, <1>2, SumByValue
<1>8. Reporting!ResolvedBugCount(p, r) = Reporting!Sum(f)
  BY <1>4, <1>5, <1>6, <1>7 DEF Reporting!Sum
<1> QED
  BY <1>8 DEF f, X

Active == {p \in Projects : ~projectArchived[p]}
Joined(p) ==
  {b \in Bugs : Reporting!Exists(b) /\ ProjectOf[b] = p /\ ~bug[b].archived}

\* Without the filter on archived projects the join finds the same bugs.
LEMMA JoinedAreBase ==
  /\ DOMAIN Reporting!ActiveProjects = Active
  /\ \A p \in Active :
       /\ Reporting!ActiveProjects[p].total = Reporting!Cardinality(Joined(p))
       /\ Reporting!ActiveProjects[p].open
            = Reporting!Cardinality({b \in Joined(p) : Reporting!IsOpen(b)})
       /\ Joined(p) = Reporting!BaseBugs(p)
       /\ p # AnyProject
<1>1. DOMAIN Reporting!ActiveProjects = Active
  BY DEF Reporting!ActiveProjects, Active
<1>2. ASSUME NEW p \in Active
      PROVE  /\ Reporting!ActiveProjects[p].total = Reporting!Cardinality(Joined(p))
             /\ Reporting!ActiveProjects[p].open
                  = Reporting!Cardinality({b \in Joined(p) : Reporting!IsOpen(b)})
  BY DEF Reporting!ActiveProjects, Active, Joined
<1>3. ASSUME NEW p \in Active
      PROVE  p # AnyProject /\ Joined(p) = Reporting!BaseBugs(p)
  <2>1. p # AnyProject /\ p \in Projects /\ ~projectArchived[p]
    BY PlatformAssumption DEF Reporting!ReportsAssumption, Active
  <2> QED
    BY <2>1 DEF Joined, Reporting!BaseBugs, Reporting!Mutable
<1> QED
  BY <1>1, <1>2, <1>3

\* active_projects_section and the summary.
LEMMA OpenByProject ==
  Reporting!OpenBugCount(AnyProject)
    = Reporting!Sum([p \in DOMAIN Reporting!ActiveProjects |-> Reporting!ActiveProjects[p].open])
<1> DEFINE h == [b \in Bugs |-> ProjectOf[b]]
           U == {b \in Reporting!BaseBugs(AnyProject) : Reporting!IsOpen(b)}
           f == [p \in DOMAIN Reporting!ActiveProjects |-> Reporting!ActiveProjects[p].open]
<1>1. U \in SUBSET Bugs /\ IsFiniteSet(U)
  BY RowsAreFinite DEF Reporting!BaseBugs
<1>2. IsFiniteSet(Active)
  <2>1. IsFiniteSet(Projects)
    BY PlatformAssumption, SameSizes DEF Reporting!ReportsAssumption
  <2> QED
    BY <2>1, FS_Subset DEF Active
<1>3. DOMAIN f = Active /\ \A p \in Active : f[p] = Reporting!ActiveProjects[p].open
  BY JoinedAreBase
<1>4. \A p \in Active : {b \in Joined(p) : Reporting!IsOpen(b)} = Counted(U, h, {p})
  BY DEF Joined, Active, Counted, Reporting!BaseBugs, Reporting!Mutable
<1>5. Counted(U, h, Active) = U
  <2>1. \A b \in U : ProjectOf[b] \in Active
    BY PlatformAssumption
       DEF Active, Reporting!BaseBugs, Reporting!Mutable, Reporting!ReportsAssumption
  <2> QED
    BY <1>1, <2>1 DEF Counted
<1>6. Reporting!OpenBugCount(AnyProject) = Reporting!Cardinality(U)
  BY DEF Reporting!OpenBugCount
<1> HIDE DEF h, U, f
<1>7. \A p \in Active : f[p] = Reporting!Cardinality(Counted(U, h, {p}))
  BY <1>3, <1>4, JoinedAreBase
<1>8. Reporting!SumOver(f, Active) = Reporting!Cardinality(Counted(U, h, Active))
  BY <1>1, <1>2, <1>7, SumByValue
<1>9. Reporting!OpenBugCount(AnyProject) = Reporting!Sum(f)
  BY <1>3, <1>5, <1>6, <1>8 DEF Reporting!Sum
<1> QED
  BY <1>9 DEF f

\* A list that asks for no tags is as long as the bugs are many that match.
LEMMA ListLengthIsCount ==
  ASSUME NEW q, q.tags = {}
  PROVE  Reporting!ListLength(q) = Reporting!Cardinality({b \in Bugs : Reporting!Matches(b, q)})
<1> DEFINE Found == {b \in Bugs : Reporting!Matches(b, q)}
<1>1. Found \in SUBSET Bugs
  OBVIOUS
<1>2. Reporting!ListBugs(q) = {[bug |-> b, tag |-> None] : b \in Found}
  BY DEF Reporting!ListBugs
<1> HIDE DEF Found
<1>3. Cardinality(Reporting!ListBugs(q)) = Cardinality(Found)
  BY <1>1, <1>2, RowsOfTheList
<1>4. Reporting!ListLength(q) = Reporting!Cardinality(Found)
  BY <1>3, SameSizes DEF Reporting!ListLength
<1> QED
  BY <1>4 DEF Found

\* What the list finds in a project, by the filters on its columns.
LEMMA ListOfProject ==
  ASSUME NEW p \in Active, NEW q,
         q.tags = {}, q.project = p, q.archived = "false"
  PROVE  Reporting!ListLength(q)
           = Reporting!Cardinality(
               {b \in Reporting!BaseBugs(p) :
                  /\ q.open => Reporting!IsOpen(b)
                  /\ q.overdue => Reporting!IsDueBefore(b, Reporting!Day(now))
                  /\ q.unassigned => bug[b].assignee = NoUser})
<1> DEFINE Filter(b) == /\ q.open => Reporting!IsOpen(b)
                        /\ q.overdue => Reporting!IsDueBefore(b, Reporting!Day(now))
                        /\ q.unassigned => bug[b].assignee = NoUser
<1>1. Joined(p) = Reporting!BaseBugs(p) /\ p # AnyProject
  BY JoinedAreBase
<1>2. \A b \in Bugs : Reporting!Matches(b, q) <=> b \in Joined(p) /\ Filter(b)
  <2> TAKE b \in Bugs
  <2>1. Reporting!Matches(b, q)
          <=> Reporting!Exists(b) /\ ~bug[b].archived /\ ProjectOf[b] = p /\ Filter(b)
    BY <1>1 DEF Reporting!Matches
  <2> QED
    BY <2>1 DEF Joined
<1>3. {b \in Bugs : Reporting!Matches(b, q)} = {b \in Joined(p) : Filter(b)}
  BY <1>2 DEF Joined
<1> QED
  BY <1>1, <1>3, ListLengthIsCount

\* The dashboard's sections and the bug list for any rows: every pair of
\* queries that should say the same of the same bugs does, in every state that
\* the services and the backdating leave.
THEOREM SectionsTellAlike == Spec => []SectionsAgree
<1>1. ASSUME ReportInv, NEW p \in Projects \union {AnyProject}
      PROVE  /\ Reporting!OpenBugCount(p)
                  = Reporting!SumOver(Reporting!StatusDistribution(p), Reporting!OpenStatuses)
             /\ Reporting!OpenBugCount(p) = Reporting!WorkloadTotal(Reporting!Workload(p))
             /\ \A r \in Reporting!Ranges :
                  LET trends == Reporting!Trends(p, r) IN
                  /\ Reporting!NewBugCount(p, r)
                       = Reporting!Sum([d \in Reporting!DateRange(r) |-> trends[d].created])
                  /\ Reporting!ResolvedBugCount(p, r)
                       = Reporting!Sum([d \in Reporting!DateRange(r) |-> trends[d].resolved])
  <2>1. \A r \in Reporting!Ranges :
          Reporting!NewBugCount(p, r)
            = Reporting!Sum([d \in Reporting!DateRange(r) |-> Reporting!Trends(p, r)[d].created])
    BY <1>1, NewByDay
  <2>2. \A r \in Reporting!Ranges :
          Reporting!ResolvedBugCount(p, r)
            = Reporting!Sum([d \in Reporting!DateRange(r) |-> Reporting!Trends(p, r)[d].resolved])
    BY <1>1, ResolvedByDay
  <2>3. /\ Reporting!OpenBugCount(p)
             = Reporting!SumOver(Reporting!StatusDistribution(p), Reporting!OpenStatuses)
        /\ Reporting!OpenBugCount(p) = Reporting!WorkloadTotal(Reporting!Workload(p))
    BY <1>1, OpenByStatus, OpenByAssignee
  <2> QED
    BY <2>1, <2>2, <2>3
<1>2. ASSUME NEW p \in Active
      PROVE  LET list == [Reporting!AnyBug EXCEPT !.project = p]
                 openList == [list EXCEPT !.open = TRUE]
             IN /\ Reporting!ActiveProjects[p].open = Reporting!OpenBugCount(p)
                /\ Reporting!ActiveProjects[p].total = Reporting!ListLength(list)
                /\ Reporting!OpenBugCount(p) = Reporting!ListLength(openList)
                /\ Reporting!OverdueBugCount(p)
                     = Reporting!ListLength([openList EXCEPT !.overdue = TRUE])
                /\ Reporting!Workload(p).unassigned
                     = Reporting!ListLength([openList EXCEPT !.unassigned = TRUE])
  <2> DEFINE list == [Reporting!AnyBug EXCEPT !.project = p]
             openList == [list EXCEPT !.open = TRUE]
             overdueList == [openList EXCEPT !.overdue = TRUE]
             unassignedList == [openList EXCEPT !.unassigned = TRUE]
             base == Reporting!BaseBugs(p)
  <2>1. /\ list.tags = {} /\ list.project = p /\ list.archived = "false"
        /\ ~list.open /\ ~list.overdue /\ ~list.unassigned
    BY DEF Reporting!AnyBug
  <2>2. /\ openList.tags = {} /\ openList.project = p /\ openList.archived = "false"
        /\ openList.open /\ ~openList.overdue /\ ~openList.unassigned
    BY DEF Reporting!AnyBug
  <2>3. /\ overdueList.tags = {} /\ overdueList.project = p /\ overdueList.archived = "false"
        /\ overdueList.open /\ overdueList.overdue /\ ~overdueList.unassigned
    BY DEF Reporting!AnyBug
  <2>4. /\ unassignedList.tags = {} /\ unassignedList.project = p
        /\ unassignedList.archived = "false"
        /\ unassignedList.open /\ ~unassignedList.overdue /\ unassignedList.unassigned
    BY DEF Reporting!AnyBug
  <2> HIDE DEF list, openList, overdueList, unassignedList
  <2>5. Reporting!ListLength(list) = Reporting!Cardinality(base)
    BY <2>1, ListOfProject
  <2>6. Reporting!ListLength(openList) = Reporting!Cardinality({b \in base : Reporting!IsOpen(b)})
    BY <2>2, ListOfProject
  <2>7. Reporting!ListLength(overdueList)
          = Reporting!Cardinality({b \in base : Reporting!IsOpen(b)
                                     /\ Reporting!IsDueBefore(b, Reporting!Day(now))})
    BY <2>3, ListOfProject
  <2>8. Reporting!ListLength(unassignedList)
          = Reporting!Cardinality({b \in base : Reporting!IsOpen(b) /\ bug[b].assignee = NoUser})
    BY <2>4, ListOfProject
  <2>9. Reporting!Workload(p).unassigned
          = Reporting!Cardinality({b \in base : Reporting!IsOpen(b) /\ bug[b].assignee = NoUser})
    BY DEF Reporting!Workload, Reporting!AssignedOpen
  <2>10. /\ Reporting!ActiveProjects[p].open = Reporting!OpenBugCount(p)
         /\ Reporting!ActiveProjects[p].total = Reporting!Cardinality(base)
    BY JoinedAreBase DEF Reporting!OpenBugCount
  <2>11. /\ Reporting!OpenBugCount(p) = Reporting!ListLength(openList)
         /\ Reporting!OverdueBugCount(p) = Reporting!ListLength(overdueList)
    BY <2>6, <2>7 DEF Reporting!OpenBugCount, Reporting!OverdueBugCount
  <2> QED
    BY <2>5, <2>8, <2>9, <2>10, <2>11 DEF list, openList, overdueList, unassignedList
<1>3. ReportInv => SectionsAgree
  BY <1>1, <1>2, OpenByProject, JoinedAreBase DEF SectionsAgree, Reporting!SectionsAgree
<1> QED
  BY <1>3, ReportsAreSound, PTL
=============================================================================
