---------------------------- MODULE Notifications ----------------------------
(***************************************************************************)
(* Notifications and their e-mails: apps/notifications (services, tasks,   *)
(* resolvers).  A committed mutation publishes an event; a Celery worker   *)
(* resolves its recipients, inserts their rows in one transaction and      *)
(* publishes an e-mail task for each new pending row; a worker sends the   *)
(* e-mail and records the outcome.  Messages may be refused, delivered     *)
(* twice or lost with a worker; members, watchers and preferences change   *)
(* meanwhile.                                                              *)
(***************************************************************************)
EXTENDS Naturals, FiniteSets

CONSTANTS
  Users,        \* user accounts
  Sources,      \* bug activities and comments
  Events,       \* the calls of notify that mutations make
  Active,       \* bound: the users who read, watch, leave or set preferences
  Workers,      \* Celery worker processes
  MaxRetries,   \* max_retries of send_notification_email
  MaxAgain,     \* bound: redeliveries and lost answers, per event and per e-mail
  Faults,       \* which of "refuse", "crash" happen
  Exhaustion    \* how retry() may end the last attempt: "max_retries", "exc"

WatcherEvents == {"status_changed", "bug_reopened"}
EventTypes == {"bug_assigned", "mentioned", "comment_added"} \union WatcherEvents

\* named: the assignee of a bug_assigned, the Mention rows of a comment.
EventRecords ==
  [type : EventTypes, source : Sources, actor : Users, named : SUBSET Users]

ASSUME EventsAssumption == Events \subseteq EventRecords
ASSUME MentionsAssumption ==
  \A e, f \in Events : e.source = f.source => e.named = f.named
ASSUME BoundsAssumption ==
  MaxRetries \in Nat /\ MaxAgain \in Nat /\ Active \subseteq Users
ASSUME FaultsAssumption ==
  Faults \subseteq {"refuse", "crash"} /\ Exhaustion \subseteq {"max_retries", "exc"}

Statuses == {"none", "pending", "sent", "failed", "disabled"}

CreateMessages == [task : {"create"}, event : Events]
EmailMessages == [task : {"email"}, event : Events, user : Users, retries : 0..MaxRetries]
Messages == CreateMessages \union EmailMessages

VARIABLES
  waiting,     \* events whose mutation has not committed yet
  watchers,    \* watchers of the bug
  members,     \* users with a membership
  optedOut,    \* (user, event type) with email_enabled = False
  status,      \* status[e][u]: email_status of u's notification of e, or "none"
  unread,      \* unread[e]: the recipients whose read_at is null
  reading,     \* reading[u]: the (event, status) mark_read has loaded for u
  broker,      \* broker[m]: copies of message m
  job,         \* job[w]: what worker w is doing
  mails,       \* mails[e][u]: e-mails the SMTP server has accepted
  again,       \* again[e][u]: deliveries of that e-mail task beyond the first
  redone,      \* redone[e]: redeliveries of the creation task
  gaveUp,      \* (e, u) whose last retry has failed
  claimed      \* (e, u) logged as "sent exactly once"

people == <<watchers, members, optedOut>>
rows == <<status, unread, reading>>
history == <<mails, again, redone, gaveUp, claimed>>
vars == <<waiting, people, rows, broker, job, history>>

Idle == [stage |-> "idle"]

Init ==
  /\ waiting = Events
  /\ watchers = Users
  /\ members = Users
  /\ optedOut = {}
  /\ status = [e \in Events |-> [u \in Users |-> "none"]]
  /\ unread = [e \in Events |-> {}]
  /\ reading = [u \in Users |-> {}]
  /\ broker = [m \in Messages |-> 0]
  /\ job = [w \in Workers |-> Idle]
  /\ mails = [e \in Events |-> [u \in Users |-> 0]]
  /\ again = [e \in Events |-> [u \in Users |-> 0]]
  /\ redone = [e \in Events |-> 0]
  /\ gaveUp = {}
  /\ claimed = {}

\* rows: the notifications inserted by a transaction still open.
Jobs ==
  [stage : {"resolve"}, msg : CreateMessages]
  \union [stage : {"insert"}, msg : CreateMessages, users : SUBSET Users,
          rows : [Users -> {"none", "pending", "disabled"}]]
  \union [stage : {"dispatch"}, msg : CreateMessages, users : SUBSET Users]
  \union [stage : {"read", "send", "record"}, msg : EmailMessages]

TypeOK ==
  /\ waiting \subseteq Events
  /\ watchers \subseteq Users
  /\ members \subseteq Users
  /\ optedOut \subseteq Users \X EventTypes
  /\ status \in [Events -> [Users -> Statuses]]
  /\ unread \in [Events -> SUBSET Users]
  /\ reading \in [Users -> SUBSET (Events \X Statuses)]
  /\ broker \in [Messages -> Nat]
  /\ job \in [Workers -> {Idle} \union Jobs]
  /\ mails \in [Events -> [Users -> Nat]]
  /\ again \in [Events -> [Users -> Nat]]
  /\ redone \in [Events -> Nat]
  /\ gaveUp \subseteq Events \X Users
  /\ claimed \subseteq Events \X Users

-----------------------------------------------------------------------------
(* The broker.                                                             *)

CreateTask(e) == [task |-> "create", event |-> e]
EmailTask(e, u, n) == [task |-> "email", event |-> e, user |-> u, retries |-> n]

\* apply_async: the broker takes the message, or is unreachable and the
\* caller logs that it has lost it.
Publish(m) ==
  \/ broker' = [broker EXCEPT ![m] = @ + 1]
  \/ "refuse" \in Faults /\ UNCHANGED broker

\* notify: on_commit of the mutation publishes the event.
Notify(e) ==
  /\ e \in waiting
  /\ waiting' = waiting \ {e}
  /\ Publish(CreateTask(e))
  /\ UNCHANGED <<people, rows, job, history>>

Start(w, m) ==
  /\ job[w] = Idle
  /\ broker[m] > 0
  /\ job' = [job EXCEPT ![w] =
       [stage |-> IF m.task = "create" THEN "resolve" ELSE "read", msg |-> m]]

Take(w) ==
  \E m \in Messages :
    /\ Start(w, m)
    /\ broker' = [broker EXCEPT ![m] = @ - 1]
    /\ UNCHANGED <<waiting, people, rows, history>>

\* A message whose acknowledgement is lost stays and is delivered again.
TakeUnacknowledged(w) ==
  \E m \in Messages :
    /\ Start(w, m)
    /\ IF m.task = "create"
       THEN /\ redone[m.event] < MaxAgain
            /\ redone' = [redone EXCEPT ![m.event] = @ + 1]
            /\ UNCHANGED again
       ELSE /\ again[m.event][m.user] < MaxAgain
            /\ again' = [again EXCEPT ![m.event][m.user] = @ + 1]
            /\ UNCHANGED redone
    /\ UNCHANGED <<waiting, people, rows, broker, mails, gaveUp, claimed>>

\* A worker killed in a task: its open transaction is rolled back, and the
\* task was acknowledged when it started.
Crash(w) ==
  /\ "crash" \in Faults
  /\ job[w] # Idle
  /\ job' = [job EXCEPT ![w] = Idle]
  /\ UNCHANGED <<waiting, people, rows, broker, history>>

-----------------------------------------------------------------------------
(* create_notifications_for_event.                                         *)

\* Mutant: only those whose mention notification exists already.
ExcludedNotified(e) ==
  {u \in e.named : \E f \in Events : /\ f.type = "mentioned"
                                     /\ f.source = e.source
                                     /\ status[f][u] # "none"}

\* mentioned_user_ids_for_comment: every mention of the comment.
Excluded(e) == e.named

Audience(e) ==
  CASE e.type \in {"bug_assigned", "mentioned"} -> e.named
    [] e.type = "comment_added" -> watchers \ Excluded(e)
    [] e.type \in WatcherEvents -> watchers

\* _resolve_recipients: not the actor, and only current members.
Recipients(e) == (Audience(e) \ {e.actor}) \intersect members

At(w, stage) == job[w].stage = stage

\* The transaction that has inserted some rows and has users to go.
Inserting(m, users, inserted) ==
  [stage |-> "insert", msg |-> m, users |-> users, rows |-> inserted]

Resolve(w) ==
  /\ At(w, "resolve")
  /\ LET found == Recipients(job[w].msg.event)
     IN job' = [job EXCEPT ![w] =
          IF found = {} THEN Idle
          ELSE Inserting(job[w].msg, found, [u \in Users |-> "none"])]
  /\ UNCHANGED <<waiting, people, rows, broker, history>>

\* The unique constraint makes an insertion wait for the transaction of
\* another execution of the same task that has inserted the same row.
Holds(v, e, u) ==
  At(v, "insert") /\ job[v].msg.event = e /\ job[v].rows[u] # "none"

CanInsert(w, u) ==
  \A v \in Workers \ {w} : ~Holds(v, job[w].msg.event, u)

\* is_email_enabled, evaluated as the row is inserted.
NewStatus(e, u) == IF <<u, e.type>> \in optedOut THEN "disabled" ELSE "pending"

\* get_or_create for one recipient.
GetOrCreate(w, u) ==
  LET e == job[w].msg.event
  IN /\ At(w, "insert")
     /\ u \in job[w].users
     /\ CanInsert(w, u)
     /\ job' = [job EXCEPT ![w] = Inserting(job[w].msg, job[w].users \ {u},
          [job[w].rows EXCEPT ![u] = IF status[e][u] = "none" THEN NewStatus(e, u) ELSE @])]
     /\ UNCHANGED <<waiting, people, rows, broker, history>>

\* Mutant: every recipient, whether the row is new or not.
ToEmailAgain(w) ==
  {u \in Users : job[w].rows[u] = "pending" \/ status[job[w].msg.event][u] = "pending"}

\* The commit leaves the e-mails of users to be published.
Dispatching(m, users) ==
  IF users = {} THEN Idle ELSE [stage |-> "dispatch", msg |-> m, users |-> users]

\* newly_created_pending_ids
ToEmail(w) == {u \in Users : job[w].rows[u] = "pending"}

CommitRows(w) ==
  LET e == job[w].msg.event
  IN /\ At(w, "insert")
     /\ job[w].users = {}
     /\ status' = [status EXCEPT ![e] = [u \in Users |->
          IF job[w].rows[u] # "none" THEN job[w].rows[u] ELSE @[u]]]
     /\ unread' = [unread EXCEPT ![e] = @ \union {u \in Users : job[w].rows[u] # "none"}]
     /\ job' = [job EXCEPT ![w] = Dispatching(@.msg, ToEmail(w))]
     /\ UNCHANGED <<waiting, people, reading, broker, history>>

\* Two executions that wait for each other's rows: PostgreSQL aborts one, and
\* the task, which never calls retry, ends with the error.
Stuck(w) == At(w, "insert") /\ job[w].users # {} /\ \A u \in job[w].users : ~CanInsert(w, u)

DeadlockAbort(w) ==
  /\ Stuck(w)
  /\ \E v \in Workers \ {w} : Stuck(v) /\ job[v].msg = job[w].msg
  /\ job' = [job EXCEPT ![w] = Idle]
  /\ UNCHANGED <<waiting, people, rows, broker, history>>

Dispatch(w, u) ==
  /\ At(w, "dispatch")
  /\ u \in job[w].users
  /\ Publish(EmailTask(job[w].msg.event, u, 0))
  /\ job' = [job EXCEPT ![w] = Dispatching(@.msg, @.users \ {u})]
  /\ UNCHANGED <<waiting, people, rows, history>>

-----------------------------------------------------------------------------
(* send_notification_email.                                                *)

Goto(w, next) == job' = [job EXCEPT ![w] = [stage |-> next, msg |-> @.msg]]
Finish(w) == job' = [job EXCEPT ![w] = Idle]

\* Only a pending notification is acted on.
ReadNotification(w) ==
  LET m == job[w].msg
  IN /\ At(w, "read")
     /\ IF status[m.event][m.user] = "pending" THEN Goto(w, "send") ELSE Finish(w)
     /\ UNCHANGED <<waiting, people, rows, broker, history>>

Accepted(m) == mails' = [mails EXCEPT ![m.event][m.user] = @ + 1]

SendEmail(w) ==
  /\ At(w, "send")
  /\ Accepted(job[w].msg)
  /\ Goto(w, "record")
  /\ UNCHANGED <<waiting, people, rows, broker, again, redone, gaveUp, claimed>>

\* filter(email_status=PENDING).update(...)
ResolveTo(m, outcome) ==
  status' = [status EXCEPT ![m.event][m.user] = IF @ = "pending" THEN outcome ELSE @]

\* Mutant: the retry counts from zero again.
NextAttemptForEver(m) == EmailTask(m.event, m.user, 0)

NextAttempt(m) == EmailTask(m.event, m.user, m.retries + 1)

\* self.retry: the task again, or after the last attempt an exception:
\* MaxRetriesExceededError, which marks the row failed, or exc itself, which
\* ends the task.
RetryOrGiveUp(m) ==
  IF m.retries < MaxRetries
  THEN Publish(NextAttempt(m)) /\ UNCHANGED <<status, gaveUp>>
  ELSE /\ gaveUp' = gaveUp \union {<<m.event, m.user>>}
       /\ \/ "max_retries" \in Exhaustion /\ ResolveTo(m, "failed")
          \/ "exc" \in Exhaustion /\ UNCHANGED status
       /\ UNCHANGED broker

\* Mutant: fail_silently=True.
SendFailsSilently(w) ==
  /\ At(w, "send")
  /\ Goto(w, "record")
  /\ UNCHANGED <<waiting, people, rows, broker, history>>

SendFails(w) ==
  /\ At(w, "send")
  /\ Finish(w)
  /\ RetryOrGiveUp(job[w].msg)
  /\ UNCHANGED <<waiting, people, unread, reading, mails, again, redone, claimed>>

\* The server takes the message, but the connection breaks before its answer.
SendAnswerLost(w) ==
  LET m == job[w].msg
  IN /\ At(w, "send")
     /\ again[m.event][m.user] < MaxAgain
     /\ again' = [again EXCEPT ![m.event][m.user] = @ + 1]
     /\ Accepted(m)
     /\ Finish(w)
     /\ RetryOrGiveUp(m)
     /\ UNCHANGED <<waiting, people, unread, reading, redone, claimed>>

RecordSent(w) ==
  LET m == job[w].msg
  IN /\ At(w, "record")
     /\ ResolveTo(m, "sent")
     /\ claimed' = IF status[m.event][m.user] = "pending" THEN claimed
                   ELSE claimed \union {<<m.event, m.user>>}
     /\ Finish(w)
     /\ UNCHANGED <<waiting, people, unread, reading, broker, mails, again, redone, gaveUp>>

-----------------------------------------------------------------------------
(* Reading notifications, and the people.                                  *)

MarkReadBegin(u) ==
  /\ reading[u] = {}
  /\ \E e \in Events :
       /\ u \in unread[e]
       /\ reading' = [reading EXCEPT ![u] = {<<e, status[e][u]>>}]
  /\ UNCHANGED <<waiting, people, status, unread, broker, job, history>>

\* Mutant: save() writes every column of the object mark_read has loaded.
KeepStatusStale(e, u, s) == status' = [status EXCEPT ![e][u] = s]

\* save(update_fields=["read_at"])
KeepStatus(e, u, s) == UNCHANGED status

MarkReadSave(u) ==
  /\ \E p \in reading[u] :
       /\ unread' = [unread EXCEPT ![p[1]] = @ \ {u}]
       /\ KeepStatus(p[1], u, p[2])
  /\ reading' = [reading EXCEPT ![u] = {}]
  /\ UNCHANGED <<waiting, people, broker, job, history>>

MarkAllRead(u) ==
  /\ \E e \in Events : u \in unread[e]
  /\ unread' = [e \in Events |-> unread[e] \ {u}]
  /\ UNCHANGED <<waiting, people, status, reading, broker, job, history>>

UpdatePreference(u, t) ==
  /\ optedOut' = IF <<u, t>> \in optedOut THEN optedOut \ {<<u, t>>}
                 ELSE optedOut \union {<<u, t>>}
  /\ UNCHANGED <<waiting, watchers, members, rows, broker, job, history>>

Unwatch(u) ==
  /\ watchers' = watchers \ {u}
  /\ UNCHANGED <<waiting, members, optedOut, rows, broker, job, history>>

Watch(u) ==
  /\ u \in members
  /\ watchers' = watchers \union {u}
  /\ UNCHANGED <<waiting, members, optedOut, rows, broker, job, history>>

RemoveMember(u) ==
  /\ u \in members
  /\ members' = members \ {u}
  /\ UNCHANGED <<waiting, watchers, optedOut, rows, broker, job, history>>

-----------------------------------------------------------------------------
Serve(w) ==
  \/ Take(w) \/ TakeUnacknowledged(w)
  \/ Resolve(w)
  \/ \E u \in Users : GetOrCreate(w, u) \/ Dispatch(w, u)
  \/ CommitRows(w)
  \/ DeadlockAbort(w)
  \/ ReadNotification(w)
  \/ SendEmail(w) \/ SendFails(w) \/ SendAnswerLost(w)
  \/ RecordSent(w)

UserSteps(u) ==
  \/ MarkReadBegin(u) \/ MarkReadSave(u) \/ MarkAllRead(u)
  \/ \E e \in Events : UpdatePreference(u, e.type)
  \/ Watch(u) \/ Unwatch(u)
  \/ RemoveMember(u)

Next ==
  \/ \E e \in Events : Notify(e)
  \/ \E w \in Workers : Serve(w) \/ Crash(w)
  \/ \E u \in Active : UserSteps(u)

Spec == Init /\ [][Next]_vars

\* Workers keep running.
FairSpec == Spec /\ \A w \in Workers : WF_vars(Serve(w))

-----------------------------------------------------------------------------
(* Properties.                                                             *)

\* A notification leaves "pending" once and for all: a stale task, a second
\* execution and a reader saving an old object never resurrect or overwrite
\* what has been resolved.
FinalStatusIsFinal ==
  [][\A e \in Events, u \in Users : status'[e][u] # status[e][u] =>
       \/ status[e][u] = "none" /\ status'[e][u] \in {"pending", "disabled"}
       \/ status[e][u] = "pending" /\ status'[e][u] \in {"sent", "failed"}]_vars

\* emailed_at is only set for an e-mail that the server accepted, and a user
\* who had opted out when notified gets none.
SentMeansAccepted ==
  \A e \in Events, u \in Users :
    /\ status[e][u] = "sent" => mails[e][u] > 0
    /\ status[e][u] \in {"none", "disabled"} => mails[e][u] = 0

\* Mention takes precedence: whichever of the two tasks of a comment runs
\* first, nobody gets both of its notifications.
MentionPrecedence ==
  \A e, f \in Events, u \in Users :
    e.type = "mentioned" /\ f.type = "comment_added" /\ e.source = f.source =>
      status[e][u] = "none" \/ status[f][u] = "none"

\* Redelivering the creation task never sends a second e-mail: only a
\* redelivered e-mail task, or an answer of the server that was lost, does.
OneEmailPerDelivery ==
  \A e \in Events, u \in Users : mails[e][u] <= 1 + again[e][u]

\* While no worker dies and the broker loses nothing, retrying ends: every
\* pending e-mail ends up sent or failed, or a task has given up on it after
\* the last retry, whichever exception retry() raises then.
EmailsSettle ==
  \A e \in Events, u \in Users :
    (status[e][u] = "pending") ~>
      (status[e][u] \in {"sent", "failed"} \/ <<e, u>> \in gaveUp)

\* --- Claims of the repository that the code refutes.

\* _active_members: "the single check that keeps a removed member from ever
\* receiving a new notification".
NotifiedAreMembers ==
  [][\A e \in Events, u \in Users :
       status[e][u] = "none" /\ status'[e][u] # "none" => u \in members]_vars

\* send_notification_email's warning: "the email was still sent exactly once".
ClaimedOnceMeansOnce ==
  \A e \in Events, u \in Users : <<e, u>> \in claimed => mails[e][u] = 1

\* test_exhausted_retries_set_failed_state: after the last retry the
\* notification is failed (or another execution has sent it).
GaveUpIsResolved ==
  \A e \in Events, u \in Users : <<e, u>> \in gaveUp => status[e][u] # "pending"
=============================================================================
