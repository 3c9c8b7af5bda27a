---------------------------- MODULE RequestContext ----------------------------
(***************************************************************************)
(* Who is at work, for the log: the correlation id and the actor of a      *)
(* request live in context variables of the thread that serves it, the id  *)
(* travels in the headers of Celery messages, and threads serve one job    *)
(* after the other.  Sessions are kept as far as login, demo login and     *)
(* logout change them.                                                     *)
(***************************************************************************)
EXTENDS Naturals, FiniteSets

CONSTANTS
  Threads,      \* threads of gunicorn workers and of Celery workers
  Clients,      \* browsers, each with a session cookie
  Users,
  MaxId,        \* bound: ids that uuid4 makes
  MaxMessages,  \* bound: messages in the queue
  None

\* X-Request-ID of a client or a proxy that sends one.
ClientId == 0
Ids == 0 .. MaxId

ContextAssumption ==
  /\ MaxId \in Nat /\ MaxMessages \in Nat
  /\ None \notin Users \union Ids

VARIABLES
  session,    \* session[c]: the user of the client's session
  requestId,  \* requestId[t]: _current_request_id of thread t
  actor,      \* actor[t]: _user_id_var
  stage,      \* of the job of thread t
  job,        \* job[t]: [client, id, user, header]
  queue,      \* messages in the broker; root is the request that dispatched it
  used        \* ids made so far

vars == <<session, requestId, actor, stage, job, queue, used>>

\* id is the id of the request that the job serves, or that dispatched its
\* message itself, and None of any other task; user is who the job is known to
\* act for, header the header of its message.
Job(c, id, h) == [client |-> c, id |-> id, user |-> None, header |-> h]
Idle == Job(None, None, None)
Messages == [header : Ids \union {None}, root : Ids \union {None}]

RequestStages == {"received", "admitted", "answering", "ending"}

TypeOK ==
  /\ session \in [Clients -> Users \union {None}]
  /\ requestId \in [Threads -> Ids \union {None}]
  /\ actor \in [Threads -> Users \union {None}]
  /\ stage \in [Threads -> {"idle", "task"} \union RequestStages]
  /\ job \in [Threads -> [client : Clients \union {None}, id : Ids \union {None},
                          user : Users \union {None}, header : Ids \union {None}]]
  /\ queue \subseteq Messages
  /\ used \in Ids

Init ==
  /\ session = [c \in Clients |-> None]
  /\ requestId = [t \in Threads |-> None]
  /\ actor = [t \in Threads |-> None]
  /\ stage = [t \in Threads |-> "idle"]
  /\ job = [t \in Threads |-> Idle]
  /\ queue = {}
  /\ used = 0

Goto(t, s) == stage' = [stage EXCEPT ![t] = s]

\* uuid4: an id that nobody has.
Fresh(id) == used < MaxId /\ id = used + 1 /\ used' = id

\* bound_request_id and RequestIdMiddleware set the variable and reset it to
\* what it was, which outside a job is nothing.
Bind(t, id) == requestId' = [requestId EXCEPT ![t] = id]
Reset(t) == requestId' = [requestId EXCEPT ![t] = None]

BindActor(t, u) ==
  /\ actor' = [actor EXCEPT ![t] = u]
  /\ job' = [job EXCEPT ![t].user = u]

-----------------------------------------------------------------------------
(* Requests.                                                               *)

\* RequestIdMiddleware: the id of a trustworthy header, or a new one.
Receive(t, c) ==
  /\ stage[t] = "idle"
  /\ \E id \in Ids :
       /\ \/ id = ClientId /\ UNCHANGED used
          \/ Fresh(id)
       /\ Bind(t, id)
       /\ job' = [job EXCEPT ![t] = Job(c, id, None)]
  /\ Goto(t, "received")
  /\ UNCHANGED <<session, actor, queue>>

\* OrganizationAwareSessionAuthentication.  An anonymous request, one whose
\* CSRF token is wrong, and a view that is not of the API bind nobody.
Authenticate(t) ==
  /\ stage[t] = "received"
  /\ \/ session[job[t].client] # None /\ BindActor(t, session[job[t].client])
     \/ UNCHANGED <<actor, job>>
  /\ Goto(t, "admitted")
  /\ UNCHANGED <<session, requestId, queue, used>>

\* LoginView and DemoLoginView: start_session, whoever had the session.
\* Their authentication_classes are empty.
Login(t, u) ==
  /\ stage[t] = "received"
  /\ session' = [session EXCEPT ![job[t].client] = u]
  /\ BindActor(t, u)
  /\ Goto(t, "answering")
  /\ UNCHANGED <<requestId, queue, used>>

LoginFails(t) ==
  /\ stage[t] = "received"
  /\ Goto(t, "answering")
  /\ UNCHANGED <<session, requestId, actor, job, queue, used>>

\* LogoutView.
Logout(t) ==
  /\ stage[t] = "admitted" /\ job[t].user # None
  /\ session' = [session EXCEPT ![job[t].client] = None]
  /\ Goto(t, "answering")
  /\ UNCHANGED <<requestId, actor, job, queue, used>>

\* correlation_headers.
Headers(t) == requestId[t]

\* delay or apply_async in a view's service, or in a task.
Publish(t) ==
  /\ Cardinality(queue) < MaxMessages
  /\ queue' = queue \union
       {[header |-> Headers(t), root |-> IF stage[t] = "task" THEN None ELSE job[t].id]}

\* A view that is done, and has perhaps published.
View(t) ==
  /\ stage[t] = "admitted"
  /\ Publish(t) \/ UNCHANGED queue
  /\ Goto(t, "answering")
  /\ UNCHANGED <<session, requestId, actor, job, used>>

\* RequestLoggingMiddleware, inside RequestIdMiddleware.
LogCompletion(t) ==
  /\ stage[t] = "answering"
  /\ Goto(t, "ending")
  /\ UNCHANGED <<session, requestId, actor, job, queue, used>>

\* Mutant: the actor stays for whoever is served next.
ClearActorForgotten(t) == UNCHANGED actor

\* clear_actor_context.
ClearActor(t) == actor' = [actor EXCEPT ![t] = None]

\* The finally clause: after the answer, or as SystemExit passes through.
Leave(t) ==
  /\ stage[t] \in RequestStages
  /\ Reset(t)
  /\ ClearActor(t)
  /\ job' = [job EXCEPT ![t] = Idle]
  /\ Goto(t, "idle")
  /\ UNCHANGED <<session, queue, used>>

-----------------------------------------------------------------------------
(* Tasks.                                                                  *)

\* A management command publishes outside of any request.
PublishFromCommand ==
  /\ Cardinality(queue) < MaxMessages
  /\ queue' = queue \union {[header |-> None, root |-> None]}
  /\ UNCHANGED <<session, requestId, actor, stage, job, used>>

\* Mutant: a key that Celery's Context has an attribute for is dropped from
\* the headers of a task that comes over the broker.
PropagatedNothing(m) == None

\* _propagated_correlation_id.
Propagated(m) == m.header

\* task_correlation_context: the id of the header, or one of its own.
Execute(t, m) ==
  /\ stage[t] = "idle"
  /\ \E id \in Ids :
       /\ \/ id = Propagated(m) /\ UNCHANGED used
          \/ Propagated(m) = None /\ Fresh(id)
       /\ Bind(t, id)
       /\ job' = [job EXCEPT ![t] = Job(None, m.root, m.header)]
  /\ queue' \in {queue \ {m}, queue}          \* delivered twice, perhaps
  /\ Goto(t, "task")
  /\ UNCHANGED <<session, actor>>

\* create_notifications_for_event publishes the e-mail tasks.
PublishFromTask(t) ==
  /\ stage[t] = "task"
  /\ Publish(t)
  /\ UNCHANGED <<session, requestId, actor, stage, job, used>>

\* retry publishes the message again with the headers it came with; else the
\* task is over.
EndTask(t) ==
  /\ stage[t] = "task"
  /\ \/ UNCHANGED queue
     \/ /\ Cardinality(queue) < MaxMessages
        /\ queue' = queue \union {[header |-> job[t].header, root |-> job[t].id]}
  /\ Reset(t)
  /\ job' = [job EXCEPT ![t] = Idle]
  /\ Goto(t, "idle")
  /\ UNCHANGED <<session, actor, used>>

-----------------------------------------------------------------------------
Next ==
  \/ \E t \in Threads :
       \/ \E c \in Clients : Receive(t, c)
       \/ Authenticate(t) \/ LoginFails(t) \/ Logout(t) \/ View(t)
       \/ \E u \in Users : Login(t, u)
       \/ LogCompletion(t) \/ Leave(t)
       \/ \E m \in queue : Execute(t, m)
       \/ PublishFromTask(t) \/ EndTask(t)
  \/ PublishFromCommand

Spec == Init /\ [][Next]_vars

-----------------------------------------------------------------------------
(* Properties.                                                             *)

\* RequestContextFilter: a line that a thread writes at any point carries the
\* id and the actor of the job it is doing, never those of the job before it
\* or of the session's last user.
LinesAreAttributed ==
  \A t \in Threads :
    IF stage[t] = "idle" THEN requestId[t] = None /\ actor[t] = None
    ELSE requestId[t] # None /\ actor[t] = job[t].user

\* "Propagates the current HTTP request's correlation ID into Celery task
\* headers": what a request dispatches itself runs under the request's id, the
\* first time, when it is delivered again and when it is retried.
DescendantsCarryTheId ==
  /\ \A t \in Threads : job[t].id # None => requestId[t] = job[t].id
  /\ \A m \in queue : m.root # None => m.header = m.root

\* --- Claims of the repository that the code refutes.

\* correlation_headers is "empty when there is no request in progress (e.g. a
\* management command or another task dispatching this one)": but in a task
\* the id is bound that it runs under.
TasksPublishNoId ==
  [][\A t \in Threads : PublishFromTask(t) => \A m \in queue' \ queue : m.header = None]_vars

\* "a task triggered by a non-HTTP source (retry, ...) still logs under a
\* stable ID of its own": without a header each retry has an id of its own.
RetriesKeepTheId ==
  [][\A t \in Threads : stage[t] = "task" /\ stage'[t] = "idle" =>
       \A m \in queue' \ queue : m.header = requestId[t]]_vars
=============================================================================
