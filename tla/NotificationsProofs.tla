---------------------------- MODULE NotificationsProofs ----------------------------
(***************************************************************************)
(* That an e-mail status is final, that "sent" is said only of e-mails     *)
(* that the server took, that a mention takes precedence and that nobody   *)
(* is e-mailed twice about one event unless the e-mail's own task is       *)
(* delivered again, for any events, users and workers, redeliveries,       *)
(* retries and crashes.                                                    *)
(***************************************************************************)
EXTENDS Notifications, FiniteSetTheorems, TLAPS

Emailing == {"read", "send", "record"}

\* Whoever is e-mailed, or about to be, has a row that asks for it.
WantsEmail(e, u) == status[e][u] \notin {"none", "disabled"}

\* What the type of an event says of those it may be told to.
Eligible(e, u) ==
  /\ e.type = "mentioned" => u \in e.named
  /\ e.type = "comment_added" => u \notin e.named

NewRowsAreFree ==
  \A w \in Workers : At(w, "insert") => \A u \in Users :
    job[w].rows[u] # "none" =>
      /\ status[job[w].msg.event][u] = "none"
      /\ CanInsert(w, u)

ToldAreEligible ==
  /\ \A e \in Events, u \in Users : status[e][u] # "none" => Eligible(e, u)
  /\ \A w \in Workers : At(w, "insert") => \A u \in Users :
       u \in job[w].users \/ job[w].rows[u] # "none" => Eligible(job[w].msg.event, u)

EmailsHaveRows ==
  /\ \A m \in EmailMessages : broker[m] > 0 => WantsEmail(m.event, m.user)
  /\ \A w \in Workers : At(w, "dispatch") =>
       \A u \in job[w].users : WantsEmail(job[w].msg.event, u)
  /\ \A w \in Workers : job[w].stage \in Emailing =>
       WantsEmail(job[w].msg.event, job[w].msg.user)

RecordedWereAccepted ==
  \A w \in Workers : At(w, "record") => mails[job[w].msg.event][job[w].msg.user] > 0

IInv ==
  /\ TypeOK
  /\ NewRowsAreFree
  /\ ToldAreEligible
  /\ EmailsHaveRows
  /\ RecordedWereAccepted
  /\ SentMeansAccepted

-----------------------------------------------------------------------------
(* What messages and jobs have.                                            *)

LEMMA FieldsOfMessages ==
  /\ \A m \in Messages : m.event \in Events
  /\ \A m \in Messages : m.task = "create" => m \in CreateMessages
  /\ \A m \in Messages : m.task # "create" => m \in EmailMessages
  /\ \A m \in EmailMessages : m.task = "email" /\ m.user \in Users /\ m.retries \in 0..MaxRetries
  /\ \A m \in CreateMessages : m.task = "create" /\ m \in Messages
  BY DEF Messages, CreateMessages, EmailMessages

LEMMA FieldsOfJobs ==
  ASSUME TypeOK, NEW w \in Workers
  PROVE  /\ job[w].stage = "resolve" => job[w].msg \in CreateMessages
         /\ job[w].stage = "insert" =>
              /\ job[w].msg \in CreateMessages /\ job[w].users \in SUBSET Users
              /\ job[w].rows \in [Users -> {"none", "pending", "disabled"}]
         /\ job[w].stage = "dispatch" =>
              job[w].msg \in CreateMessages /\ job[w].users \in SUBSET Users
         /\ job[w].stage \in Emailing => job[w].msg \in EmailMessages
         /\ job[w].stage # "idle" => job[w].msg \in Messages /\ job[w].msg.event \in Events
<1>1. job[w] = Idle \/ job[w] \in Jobs
  BY DEF TypeOK
<1>2. CASE job[w] = Idle
  BY <1>2 DEF Idle, Emailing
<1>3. CASE job[w] \in Jobs
  BY <1>3, FieldsOfMessages DEF Jobs, Emailing, Messages
<1> QED
  BY <1>1, <1>2, <1>3

LEMMA JobsAreJobs ==
  /\ \A m \in CreateMessages : [stage |-> "resolve", msg |-> m] \in Jobs
  /\ \A m \in CreateMessages, S \in SUBSET Users,
        f \in [Users -> {"none", "pending", "disabled"}] : Inserting(m, S, f) \in Jobs
  /\ \A m \in CreateMessages, S \in SUBSET Users : Dispatching(m, S) \in {Idle} \union Jobs
  /\ \A m \in EmailMessages, s \in Emailing : [stage |-> s, msg |-> m] \in Jobs
  BY DEF Jobs, Inserting, Dispatching, Emailing

\* What becomes of a table in which one cell is written.
LEMMA OneCell ==
  ASSUME NEW A, NEW B, NEW V, NEW f \in [A -> [B -> V]], NEW a \in A, NEW b \in B,
         NEW v \in V, NEW g, g = [f EXCEPT ![a][b] = v]
  PROVE  /\ g \in [A -> [B -> V]]
         /\ \A c \in A, d \in B : g[c][d] = IF c = a /\ d = b THEN v ELSE f[c][d]
<1>1. f[a] \in [B -> V]
  OBVIOUS
<1>2. g = [f EXCEPT ![a] = [f[a] EXCEPT ![b] = v]]
  OBVIOUS
<1>3. [f[a] EXCEPT ![b] = v] \in [B -> V]
  BY <1>1
<1> QED
  BY <1>1, <1>2, <1>3

LEMMA MessagesAreMessages ==
  ASSUME NEW e \in Events
  PROVE  /\ CreateTask(e) \in CreateMessages
         /\ \A u \in Users, n \in 0..MaxRetries : EmailTask(e, u, n) \in EmailMessages
  BY DEF CreateTask, EmailTask, CreateMessages, EmailMessages

-----------------------------------------------------------------------------
(* The steps of a worker.                                                  *)

\* How a step of w may change the status of a notification.
Moved(w, e, u) ==
  \/ status'[e][u] = status[e][u]
  \/ status[e][u] = "pending" /\ status'[e][u] = "failed"
  \/ status[e][u] = "pending" /\ status'[e][u] = "sent" /\ mails'[e][u] > 0
  \/ Holds(w, e, u) /\ job'[w].stage # "insert" /\ status'[e][u] = job[w].rows[u]

\* What w may be about to do, and what it may have done.
Grounds(w) ==
  /\ \A v \in Workers \ {w} : job'[v] = job[v]
  /\ \A e \in Events, u \in Users :
       /\ Moved(w, e, u)
       /\ mails'[e][u] = mails[e][u] \/ (mails'[e][u] = mails[e][u] + 1 /\ WantsEmail(e, u))
  /\ \A m \in EmailMessages :
       broker'[m] > 0 => broker[m] > 0 \/ WantsEmail(m.event, m.user)
  /\ job'[w].stage = "insert" => \A u \in Users :
       /\ u \in job'[w].users \/ job'[w].rows[u] # "none" => Eligible(job'[w].msg.event, u)
       /\ job'[w].rows[u] # "none" =>
            /\ status[job'[w].msg.event][u] = "none"
            /\ \A v \in Workers \ {w} : ~Holds(v, job'[w].msg.event, u)
  /\ job'[w].stage = "dispatch" =>
       \A u \in job'[w].users : status'[job'[w].msg.event][u] \notin {"none", "disabled"}
  /\ job'[w].stage \in Emailing => WantsEmail(job'[w].msg.event, job'[w].msg.user)
  /\ job'[w].stage = "record" => mails'[job'[w].msg.event][job'[w].msg.user] > 0

\* Once a notification asks for an e-mail, or has none, it stays so but for
\* the transaction that holds it.
LEMMA WishesStay ==
  ASSUME IInv, NEW w \in Workers, NEW e \in Events, NEW u \in Users, Moved(w, e, u)
  PROVE  /\ WantsEmail(e, u) => status'[e][u] \notin {"none", "disabled"}
         /\ status[e][u] = "none" /\ ~Holds(w, e, u) => status'[e][u] = "none"
  BY DEF IInv, NewRowsAreFree, Moved, Holds, WantsEmail

LEMMA GroundsKeep ==
  ASSUME IInv, TypeOK', NEW w \in Workers, Grounds(w)
  PROVE  IInv'
<1> USE DEF At
<1>1. TypeOK
  BY DEF IInv
<1>2. \A v \in Workers : v = w \/ job'[v] = job[v]
  BY DEF Grounds
<1>0. \A v \in Workers : job'[v].stage # "idle" => job'[v].msg.event \in Events
  <2>1. SUFFICES ASSUME NEW v \in Workers, job'[v] \in Jobs
                 PROVE  job'[v].msg.event \in Events
    BY DEF TypeOK, Idle
  <2> QED
    BY <2>1 DEF Jobs, CreateMessages, EmailMessages
<1>3. NewRowsAreFree'
  <2>1. SUFFICES ASSUME NEW v \in Workers, job'[v].stage = "insert", NEW u \in Users,
                        job'[v].rows[u] # "none"
                 PROVE  /\ status'[job'[v].msg.event][u] = "none"
                        /\ \A x \in Workers \ {v} : ~(/\ job'[x].stage = "insert"
                                                      /\ job'[x].msg.event = job'[v].msg.event
                                                      /\ job'[x].rows[u] # "none")
    BY DEF NewRowsAreFree, CanInsert, Holds
  <2>2. PICK e \in Events : e = job'[v].msg.event
    BY <1>0, <2>1
  <2>3. CASE v = w
    <3>1. status[e][u] = "none" /\ \A x \in Workers \ {w} : ~Holds(x, e, u)
      BY <2>1, <2>2, <2>3 DEF Grounds
    <3>2. status'[e][u] = "none"
      BY <2>1, <2>3, <3>1, WishesStay DEF Grounds, Moved, IInv
    <3> QED
      BY <1>2, <2>2, <2>3, <3>1, <3>2 DEF Holds
  <2>4. CASE v # w
    <3>1. Holds(v, e, u) /\ status[e][u] = "none"
          /\ \A x \in Workers \ {v} : ~Holds(x, e, u)
      BY <1>2, <2>1, <2>2, <2>4 DEF IInv, NewRowsAreFree, CanInsert, Holds
    <3>2. status'[e][u] = "none"
      BY <2>4, <3>1, WishesStay DEF Grounds
    <3>3. ~(/\ job'[w].stage = "insert" /\ job'[w].msg.event = e
            /\ job'[w].rows[u] # "none")
      BY <2>4, <3>1 DEF Grounds
    <3> QED
      BY <1>2, <2>2, <3>1, <3>2, <3>3 DEF Holds
  <2> QED
    BY <2>3, <2>4
<1>4. ToldAreEligible'
  <2>1. ASSUME NEW e \in Events, NEW u \in Users, status'[e][u] # "none"
        PROVE  Eligible(e, u)
    <3>1. status[e][u] # "none" \/ Holds(w, e, u)
      BY <2>1, WishesStay DEF Grounds
    <3> QED
      BY <3>1 DEF IInv, ToldAreEligible, Holds
  <2>2. ASSUME NEW v \in Workers, job'[v].stage = "insert", NEW u \in Users,
               u \in job'[v].users \/ job'[v].rows[u] # "none"
        PROVE  Eligible(job'[v].msg.event, u)
    BY <1>2, <2>2 DEF Grounds, IInv, ToldAreEligible
  <2> QED
    BY <2>1, <2>2 DEF ToldAreEligible, Eligible
<1>5. EmailsHaveRows'
  <2>1. ASSUME NEW m \in EmailMessages, broker'[m] > 0
        PROVE  status'[m.event][m.user] \notin {"none", "disabled"}
    <3>1. m.event \in Events /\ m.user \in Users
      BY DEF EmailMessages
    <3>2. WantsEmail(m.event, m.user)
      BY <2>1 DEF IInv, EmailsHaveRows, Grounds
    <3> QED
      BY <3>1, <3>2, WishesStay DEF Grounds
  <2>2. ASSUME NEW v \in Workers, job'[v].stage = "dispatch", NEW u \in job'[v].users
        PROVE  status'[job'[v].msg.event][u] \notin {"none", "disabled"}
    <3>1. CASE v = w
      BY <2>2, <3>1 DEF Grounds, WantsEmail
    <3>2. CASE v # w
      <4>1. job'[v] = job[v] /\ WantsEmail(job[v].msg.event, u)
        BY <1>2, <2>2, <3>2 DEF IInv, EmailsHaveRows
      <4>2. job[v].msg.event \in Events /\ u \in Users
        BY <1>1, <2>2, <4>1, FieldsOfJobs
      <4> QED
        BY <4>1, <4>2, WishesStay DEF Grounds
    <3> QED
      BY <3>1, <3>2
  <2>3. ASSUME NEW v \in Workers, job'[v].stage \in Emailing
        PROVE  status'[job'[v].msg.event][job'[v].msg.user] \notin {"none", "disabled"}
    <3>1. WantsEmail(job'[v].msg.event, job'[v].msg.user)
      BY <1>2, <2>3 DEF Grounds, IInv, EmailsHaveRows
    <3>2. PICK e \in Events, u \in Users : e = job'[v].msg.event /\ u = job'[v].msg.user
      <4>1. job'[v] \in Jobs
        BY <2>3 DEF TypeOK, Idle, Emailing
      <4>2. job'[v].msg \in EmailMessages
        BY <2>3, <4>1 DEF Jobs, Emailing
      <4> QED
        BY <4>2 DEF EmailMessages
    <3> QED
      BY <3>1, <3>2, WishesStay DEF Grounds
  <2> QED
    BY <2>1, <2>2, <2>3 DEF EmailsHaveRows, WantsEmail
<1>6. RecordedWereAccepted'
  <2>1. SUFFICES ASSUME NEW v \in Workers, v # w, job[v].stage = "record"
                 PROVE  mails'[job[v].msg.event][job[v].msg.user] > 0
    BY <1>2 DEF RecordedWereAccepted, Grounds
  <2>2. PICK e \in Events, u \in Users : e = job[v].msg.event /\ u = job[v].msg.user
    BY <1>1, <2>1, FieldsOfJobs DEF Emailing, EmailMessages
  <2>3. mails[e][u] \in Nat /\ mails[e][u] > 0
    BY <1>1, <2>1, <2>2 DEF IInv, RecordedWereAccepted, TypeOK
  <2>4. mails'[e][u] = mails[e][u] \/ mails'[e][u] = mails[e][u] + 1
    BY DEF Grounds
  <2> QED
    BY <2>2, <2>3, <2>4
<1>7. SentMeansAccepted'
  <2>1. SUFFICES ASSUME NEW e \in Events, NEW u \in Users
                 PROVE  /\ status'[e][u] = "sent" => mails'[e][u] > 0
                        /\ status'[e][u] \in {"none", "disabled"} => mails'[e][u] = 0
    BY DEF SentMeansAccepted
  <2>2. /\ mails[e][u] \in Nat
        /\ mails'[e][u] = mails[e][u] \/ (mails'[e][u] = mails[e][u] + 1 /\ WantsEmail(e, u))
        /\ status[e][u] = "sent" => mails[e][u] > 0
        /\ status[e][u] \in {"none", "disabled"} => mails[e][u] = 0
    BY <1>1 DEF Grounds, TypeOK, IInv, SentMeansAccepted
  <2>3. CASE Holds(w, e, u)
    <3>1. status[e][u] = "none" /\ job[w].rows[u] # "sent"
      BY <1>1, <2>3, FieldsOfJobs DEF IInv, NewRowsAreFree, Holds
    <3> QED
      BY <2>2, <3>1 DEF Grounds, Moved, WantsEmail
  <2>4. CASE ~Holds(w, e, u)
    BY <2>2, <2>4 DEF Grounds, Moved, WantsEmail
  <2> QED
    BY <2>3, <2>4
<1> QED
  BY <1>3, <1>4, <1>5, <1>6, <1>7 DEF IInv

-----------------------------------------------------------------------------
(* Each step of a worker has its grounds.                                  *)

LEMMA PublishAdds ==
  ASSUME broker \in [Messages -> Nat], NEW m \in Messages, Publish(m)
  PROVE  /\ broker' \in [Messages -> Nat]
         /\ \A n \in Messages : broker'[n] > 0 => broker[n] > 0 \/ n = m
  BY DEF Publish

\* A step that leaves the notifications alone.
LEMMA QuietStep ==
  ASSUME IInv, NEW w \in Workers, NEW j \in {Idle} \union Jobs, job' = [job EXCEPT ![w] = j],
         UNCHANGED <<waiting, people, rows, mails, gaveUp, claimed>>,
         broker' \in [Messages -> Nat],
         again' \in [Events -> [Users -> Nat]], redone' \in [Events -> Nat],
         \A m \in EmailMessages : broker'[m] > 0 => broker[m] > 0 \/ WantsEmail(m.event, m.user),
         j.stage = "insert" => \A u \in Users :
           /\ u \in j.users \/ j.rows[u] # "none" => Eligible(j.msg.event, u)
           /\ j.rows[u] # "none" =>
                /\ status[j.msg.event][u] = "none"
                /\ \A v \in Workers \ {w} : ~Holds(v, j.msg.event, u),
         j.stage = "dispatch" => \A u \in j.users : WantsEmail(j.msg.event, u),
         j.stage \in Emailing => WantsEmail(j.msg.event, j.msg.user),
         j.stage = "record" => mails[j.msg.event][j.msg.user] > 0
  PROVE  TypeOK' /\ Grounds(w)
<1>1. TypeOK /\ job'[w] = j /\ \A v \in Workers \ {w} : job'[v] = job[v]
  BY DEF IInv, TypeOK
<1>2. TypeOK'
  BY <1>1 DEF TypeOK, people, rows
<1>3. status' = status /\ mails' = mails
  BY DEF rows
<1> QED
  BY <1>1, <1>2, <1>3 DEF Grounds, Moved, WantsEmail

LEMMA StartGrounds ==
  ASSUME IInv, NEW w \in Workers, NEW m \in Messages, Start(w, m),
         UNCHANGED <<waiting, people, rows, mails, gaveUp, claimed>>,
         broker' = broker \/ broker' = [broker EXCEPT ![m] = @ - 1],
         again' \in [Events -> [Users -> Nat]], redone' \in [Events -> Nat]
  PROVE  TypeOK' /\ Grounds(w)
<1>1. TypeOK /\ broker[m] > 0
  BY DEF IInv, Start
<1>2. PICK j : /\ j = [stage |-> IF m.task = "create" THEN "resolve" ELSE "read", msg |-> m]
               /\ job' = [job EXCEPT ![w] = j]
  BY DEF Start
<1>3. j \in Jobs /\ j.stage \in {"resolve", "read"} /\ j.msg = m
  BY <1>2, FieldsOfMessages, JobsAreJobs DEF Emailing
<1>4. /\ broker' \in [Messages -> Nat]
      /\ \A n \in Messages : broker'[n] > 0 => broker[n] > 0
  BY <1>1 DEF TypeOK
<1>5. j.stage \in Emailing => WantsEmail(m.event, m.user)
  <2>1. SUFFICES ASSUME m.task # "create"
                 PROVE  WantsEmail(m.event, m.user)
    BY <1>2 DEF Emailing
  <2> QED
    BY <1>1, <2>1, FieldsOfMessages DEF IInv, EmailsHaveRows
<1>6. EmailMessages \subseteq Messages
  BY DEF Messages
<1> QED
  BY <1>2, <1>3, <1>4, <1>5, <1>6, QuietStep

LEMMA TakeGrounds ==
  ASSUME IInv, NEW w \in Workers, Take(w) \/ TakeUnacknowledged(w)
  PROVE  TypeOK' /\ Grounds(w)
<1>1. TypeOK
  BY DEF IInv
<1>2. CASE Take(w)
  BY <1>1, <1>2, StartGrounds DEF Take, history, TypeOK
<1>3. CASE TakeUnacknowledged(w)
  <2>1. PICK m \in Messages :
          /\ Start(w, m)
          /\ m.task = "create" =>
               redone' = [redone EXCEPT ![m.event] = @ + 1] /\ again' = again
          /\ m.task # "create" =>
               again' = [again EXCEPT ![m.event][m.user] = @ + 1] /\ redone' = redone
          /\ UNCHANGED <<waiting, people, rows, broker, mails, gaveUp, claimed>>
    BY <1>3 DEF TakeUnacknowledged
  <2>2. m.event \in Events /\ (m.task # "create" => m.user \in Users)
    BY FieldsOfMessages
  <2>3. again' \in [Events -> [Users -> Nat]] /\ redone' \in [Events -> Nat]
    <3>0. again \in [Events -> [Users -> Nat]] /\ redone \in [Events -> Nat]
      BY <1>1 DEF TypeOK
    <3>1. CASE m.task = "create"
      BY <2>1, <2>2, <3>0, <3>1
    <3>2. CASE m.task # "create"
      <4>1. PICK e \in Events, u \in Users : e = m.event /\ u = m.user
        BY <2>2, <3>2
      <4>2. again' = [again EXCEPT ![e][u] = again[e][u] + 1] /\ again[e][u] + 1 \in Nat
        BY <2>1, <3>0, <3>2, <4>1
      <4> QED
        BY <2>1, <3>0, <3>2, <4>2, OneCell
    <3> QED
      BY <3>1, <3>2
  <2> QED
    BY <2>1, <2>3, StartGrounds
<1> QED
  BY <1>2, <1>3

\* A worker that stops, whatever it was doing.
LEMMA StopGrounds ==
  ASSUME IInv, NEW w \in Workers, job' = [job EXCEPT ![w] = Idle],
         UNCHANGED <<waiting, people, rows, broker, history>>
  PROVE  TypeOK' /\ Grounds(w)
<1>1. TypeOK /\ Idle.stage = "idle"
  BY DEF IInv, Idle
<1>2. UNCHANGED <<mails, again, redone, gaveUp, claimed>>
  BY DEF history
<1> QED
  BY <1>1, <1>2, QuietStep DEF TypeOK, Emailing

LEMMA RecipientsAreEligible ==
  ASSUME NEW e \in Events, NEW u \in Recipients(e), watchers \subseteq Users
  PROVE  u \in Users /\ Eligible(e, u)
<1>1. e.type \in EventTypes /\ e.named \subseteq Users
  BY EventsAssumption DEF EventRecords
<1> QED
  BY <1>1 DEF Recipients, Audience, Excluded, Eligible, EventTypes, WatcherEvents

LEMMA ResolveGrounds ==
  ASSUME IInv, NEW w \in Workers, Resolve(w)
  PROVE  TypeOK' /\ Grounds(w)
<1>1. TypeOK /\ At(w, "resolve")
  BY DEF IInv, Resolve
<1>2. job[w].msg \in CreateMessages /\ job[w].msg.event \in Events
  BY <1>1, FieldsOfJobs DEF At
<1>3. CASE job' = [job EXCEPT ![w] = Idle]
  BY <1>3, StopGrounds DEF Resolve
<1>4. CASE job' # [job EXCEPT ![w] = Idle]
  <2>1. PICK j, found :
          /\ found = Recipients(job[w].msg.event)
          /\ j = Inserting(job[w].msg, found, [u \in Users |-> "none"])
          /\ job' = [job EXCEPT ![w] = j]
    BY <1>4 DEF Resolve
  <2>2. found \subseteq Users /\ \A u \in found : Eligible(job[w].msg.event, u)
    BY <1>1, <1>2, <2>1, RecipientsAreEligible DEF TypeOK
  <2>3. /\ j \in Jobs /\ j.stage = "insert" /\ j.users = found /\ j.msg = job[w].msg
        /\ j.rows = [u \in Users |-> "none"]
    BY <1>2, <2>1, <2>2, JobsAreJobs DEF Inserting
  <2>4. UNCHANGED <<waiting, people, rows, broker, mails, again, redone, gaveUp, claimed>>
    BY DEF Resolve, history
  <2> QED
    BY <1>1, <2>1, <2>2, <2>3, <2>4, QuietStep DEF TypeOK, Emailing
<1> QED
  BY <1>3, <1>4

LEMMA GetOrCreateGrounds ==
  ASSUME IInv, NEW w \in Workers, NEW u \in Users, GetOrCreate(w, u)
  PROVE  TypeOK' /\ Grounds(w)
<1>1. TypeOK /\ job[w].stage = "insert" /\ u \in job[w].users /\ CanInsert(w, u)
  BY DEF IInv, GetOrCreate, At
<1>2. PICK e \in Events, m \in CreateMessages, S \in SUBSET Users,
           f \in [Users -> {"none", "pending", "disabled"}] :
        m = job[w].msg /\ e = m.event /\ S = job[w].users /\ f = job[w].rows
  BY <1>1, FieldsOfJobs
<1> DEFINE g == [f EXCEPT ![u] = IF status[e][u] = "none" THEN NewStatus(e, u) ELSE @]
           j == Inserting(m, S \ {u}, g)
<1>3. job' = [job EXCEPT ![w] = j]
  <2>1. job' = [job EXCEPT ![w] = Inserting(job[w].msg, job[w].users \ {u},
                  [job[w].rows EXCEPT ![u] = IF status[job[w].msg.event][u] = "none"
                     THEN NewStatus(job[w].msg.event, u) ELSE job[w].rows[u]])]
    BY DEF GetOrCreate
  <2> QED
    BY <1>2, <2>1
<1>4. /\ g \in [Users -> {"none", "pending", "disabled"}]
      /\ \A x \in Users \ {u} : g[x] = f[x]
      /\ g[u] = f[u] \/ status[e][u] = "none"
  BY DEF NewStatus
<1> HIDE DEF g
<1>5. j \in Jobs /\ j.stage = "insert" /\ j.users = S \ {u} /\ j.rows = g /\ j.msg = m
  BY <1>4, JobsAreJobs DEF Inserting
<1> HIDE DEF j
<1>6. ASSUME NEW x \in Users
      PROVE  /\ x \in S \/ g[x] # "none" => Eligible(e, x)
             /\ g[x] # "none" =>
                  status[e][x] = "none" /\ \A v \in Workers \ {w} : ~Holds(v, e, x)
  <2>1. /\ x \in S \/ f[x] # "none" => Eligible(e, x)
        /\ f[x] # "none" =>
             status[e][x] = "none" /\ \A v \in Workers \ {w} : ~Holds(v, e, x)
    BY <1>1, <1>2 DEF IInv, ToldAreEligible, NewRowsAreFree, CanInsert, At
  <2>2. CASE x = u
    BY <1>1, <1>2, <1>4, <2>1, <2>2 DEF CanInsert
  <2>3. CASE x # u
    BY <1>4, <2>1, <2>3
  <2> QED
    BY <2>2, <2>3
<1>7. /\ UNCHANGED <<waiting, people, rows, broker, mails, again, redone, gaveUp, claimed>>
      /\ broker' \in [Messages -> Nat] /\ again' \in [Events -> [Users -> Nat]]
      /\ redone' \in [Events -> Nat]
  BY <1>1 DEF GetOrCreate, history, TypeOK
<1>8. \A x \in Users :
        /\ x \in j.users \/ j.rows[x] # "none" => Eligible(j.msg.event, x)
        /\ j.rows[x] # "none" =>
             /\ status[j.msg.event][x] = "none"
             /\ \A v \in Workers \ {w} : ~Holds(v, j.msg.event, x)
  BY <1>2, <1>5, <1>6
<1> QED
  BY <1>3, <1>5, <1>7, <1>8, QuietStep DEF Emailing

LEMMA DispatchGrounds ==
  ASSUME IInv, NEW w \in Workers, NEW u \in Users, Dispatch(w, u)
  PROVE  TypeOK' /\ Grounds(w)
<1>1. TypeOK /\ job[w].stage = "dispatch" /\ u \in job[w].users
  BY DEF IInv, Dispatch, At
<1>2. PICK e \in Events, m \in CreateMessages, S \in SUBSET Users :
        m = job[w].msg /\ e = m.event /\ S = job[w].users
  BY <1>1, FieldsOfJobs
<1>3. \A x \in S : WantsEmail(e, x)
  BY <1>1, <1>2 DEF IInv, EmailsHaveRows, At
<1> DEFINE j == Dispatching(m, S \ {u})
<1>4. /\ job' = [job EXCEPT ![w] = j]
      /\ Publish(EmailTask(e, u, 0))
      /\ UNCHANGED <<waiting, people, rows, history>>
  BY <1>2 DEF Dispatch
<1>5. /\ j \in {Idle} \union Jobs
      /\ j = Idle \/ (j.stage = "dispatch" /\ j.msg = m /\ j.users \subseteq S)
  BY JobsAreJobs DEF Dispatching
<1>6. Idle.stage = "idle"
  BY DEF Idle
<1> HIDE DEF j
<1>7. PICK n \in EmailMessages : n = EmailTask(e, u, 0) /\ n.event = e /\ n.user = u
  <2>1. 0 \in 0..MaxRetries
    BY BoundsAssumption
  <2> QED
    BY <2>1, MessagesAreMessages DEF EmailTask
<1>8. /\ broker' \in [Messages -> Nat]
      /\ \A k \in EmailMessages : broker'[k] > 0 => broker[k] > 0 \/ WantsEmail(k.event, k.user)
  <2>1. broker \in [Messages -> Nat] /\ n \in Messages /\ EmailMessages \subseteq Messages
    BY <1>1 DEF TypeOK, Messages
  <2>2. WantsEmail(n.event, n.user)
    BY <1>1, <1>2, <1>3, <1>7
  <2> QED
    BY <1>4, <1>7, <2>1, <2>2, PublishAdds
<1>9. UNCHANGED <<mails, again, redone, gaveUp, claimed>>
  BY <1>4 DEF history
<1>10. again' \in [Events -> [Users -> Nat]] /\ redone' \in [Events -> Nat]
  BY <1>1, <1>9 DEF TypeOK
<1>11. j.stage = "dispatch" => \A x \in j.users : WantsEmail(j.msg.event, x)
  BY <1>2, <1>3, <1>5, <1>6
<1> QED
  BY <1>4, <1>5, <1>6, <1>8, <1>9, <1>10, <1>11, QuietStep DEF Emailing

LEMMA ReadGrounds ==
  ASSUME IInv, NEW w \in Workers, ReadNotification(w)
  PROVE  TypeOK' /\ Grounds(w)
<1>1. TypeOK /\ job[w].stage = "read"
  BY DEF IInv, ReadNotification, At
<1>2. PICK m \in EmailMessages : m = job[w].msg
  BY <1>1, FieldsOfJobs DEF Emailing
<1>3. CASE Finish(w)
  BY <1>3, StopGrounds DEF Finish, ReadNotification
<1>4. CASE ~Finish(w)
  <2> DEFINE j == [stage |-> "send", msg |-> m]
  <2>1. job' = [job EXCEPT ![w] = j] /\ WantsEmail(m.event, m.user)
    BY <1>2, <1>4 DEF ReadNotification, Goto, WantsEmail
  <2>2. j \in Jobs /\ j.stage = "send" /\ j.msg = m
    BY JobsAreJobs DEF Emailing
  <2> HIDE DEF j
  <2>3. /\ UNCHANGED <<waiting, people, rows, broker, mails, again, redone, gaveUp, claimed>>
        /\ broker' \in [Messages -> Nat] /\ again' \in [Events -> [Users -> Nat]]
        /\ redone' \in [Events -> Nat]
    BY <1>1 DEF ReadNotification, history, TypeOK
  <2> QED
    BY <2>1, <2>2, <2>3, QuietStep
<1> QED
  BY <1>3, <1>4

\* The transaction commits the rows that it holds.
LEMMA CommitRowsGrounds ==
  ASSUME IInv, NEW w \in Workers, CommitRows(w)
  PROVE  TypeOK' /\ Grounds(w)
<1>1. TypeOK /\ job[w].stage = "insert"
  BY DEF IInv, CommitRows, At
<1>2. PICK e \in Events, m \in CreateMessages,
           f \in [Users -> {"none", "pending", "disabled"}] :
        m = job[w].msg /\ e = m.event /\ f = job[w].rows
  BY <1>1, FieldsOfJobs
<1>3. ToEmail(w) = {u \in Users : f[u] = "pending"}
  BY <1>2 DEF ToEmail
<1> DEFINE j == Dispatching(m, ToEmail(w))
<1>4. /\ job' = [job EXCEPT ![w] = j]
      /\ status' = [status EXCEPT ![e] = [u \in Users |-> IF f[u] # "none" THEN f[u]
                                                          ELSE status[e][u]]]
      /\ unread' = [unread EXCEPT ![e] = @ \union {u \in Users : f[u] # "none"}]
      /\ UNCHANGED <<waiting, people, reading, broker, history>>
  BY <1>2 DEF CommitRows
<1>5. /\ j \in {Idle} \union Jobs
      /\ j = Idle \/ (j.stage = "dispatch" /\ j.msg = m /\ j.users = ToEmail(w))
  BY <1>3, JobsAreJobs DEF Dispatching
<1>6. Idle.stage = "idle"
  BY DEF Idle
<1> HIDE DEF j
<1>7. \A d \in Events, u \in Users :
        status'[d][u] = IF d = e /\ f[u] # "none" THEN f[u] ELSE status[d][u]
  BY <1>1, <1>4 DEF TypeOK
<1>8. status' \in [Events -> [Users -> Statuses]]
  BY <1>1, <1>4 DEF TypeOK, Statuses
<1>9. TypeOK'
  <2>1. job' \in [Workers -> {Idle} \union Jobs]
    BY <1>1, <1>4, <1>5 DEF TypeOK
  <2>2. unread' \in [Events -> SUBSET Users]
    BY <1>1, <1>4 DEF TypeOK
  <2> QED
    BY <1>1, <1>4, <1>8, <2>1, <2>2 DEF TypeOK, people, history
<1>10. job'[w] = j /\ \A v \in Workers \ {w} : job'[v] = job[v]
  BY <1>1, <1>4 DEF TypeOK
<1>11. \A d \in Events, u \in Users : Moved(w, d, u)
  <2>1. SUFFICES ASSUME NEW u \in Users, f[u] # "none"
                 PROVE  Moved(w, e, u)
    BY <1>7 DEF Moved
  <2>2. Holds(w, e, u) /\ status'[e][u] = job[w].rows[u] /\ job'[w].stage # "insert"
    BY <1>1, <1>2, <1>5, <1>6, <1>7, <1>10, <2>1 DEF Holds, At
  <2> QED
    BY <2>2 DEF Moved
<1>12. mails' = mails /\ broker' = broker
  BY <1>4 DEF history
<1>13. j.stage = "dispatch" =>
         \A u \in j.users : status'[j.msg.event][u] \notin {"none", "disabled"}
  BY <1>2, <1>3, <1>5, <1>6, <1>7
<1> QED
  BY <1>5, <1>6, <1>9, <1>10, <1>11, <1>12, <1>13 DEF Grounds, Emailing

LEMMA ResolveMoves ==
  ASSUME TypeOK, NEW m \in EmailMessages, NEW x \in {"sent", "failed"}, ResolveTo(m, x)
  PROVE  /\ status' \in [Events -> [Users -> Statuses]]
         /\ \A d \in Events, y \in Users :
              \/ status'[d][y] = status[d][y]
              \/ /\ d = m.event /\ y = m.user
                 /\ status[d][y] = "pending" /\ status'[d][y] = x
<1>1. PICK e \in Events, u \in Users : e = m.event /\ u = m.user
  BY DEF EmailMessages
<1>2. PICK v \in Statuses : v = IF status[e][u] = "pending" THEN x ELSE status[e][u]
  BY DEF TypeOK, Statuses
<1>3. status' = [status EXCEPT ![e][u] = v]
  BY <1>1, <1>2 DEF ResolveTo
<1>4. status \in [Events -> [Users -> Statuses]]
  BY DEF TypeOK
<1>5. /\ status' \in [Events -> [Users -> Statuses]]
      /\ \A d \in Events, y \in Users :
           status'[d][y] = IF d = e /\ y = u THEN v ELSE status[d][y]
  BY <1>3, <1>4, OneCell
<1> QED
  BY <1>1, <1>2, <1>5

LEMMA AcceptedCounts ==
  ASSUME TypeOK, NEW m \in EmailMessages, Accepted(m)
  PROVE  /\ mails' \in [Events -> [Users -> Nat]]
         /\ mails'[m.event][m.user] > 0
         /\ \A d \in Events, y \in Users :
              \/ mails'[d][y] = mails[d][y]
              \/ d = m.event /\ y = m.user /\ mails'[d][y] = mails[d][y] + 1
<1>1. PICK e \in Events, u \in Users : e = m.event /\ u = m.user
  BY DEF EmailMessages
<1>2. mails \in [Events -> [Users -> Nat]]
  BY DEF TypeOK
<1>3. PICK n \in Nat : n = mails[e][u] + 1 /\ n > 0
  BY <1>2
<1>4. mails' = [mails EXCEPT ![e][u] = n]
  BY <1>1, <1>3 DEF Accepted
<1>5. /\ mails' \in [Events -> [Users -> Nat]]
      /\ \A d \in Events, y \in Users :
           mails'[d][y] = IF d = e /\ y = u THEN n ELSE mails[d][y]
  BY <1>2, <1>4, OneCell
<1> QED
  BY <1>1, <1>3, <1>5

LEMMA StatusMoves ==
  ASSUME TypeOK, NEW m \in EmailMessages,
         \/ status' = status
         \/ \E x \in {"sent", "failed"} :
              ResolveTo(m, x) /\ (x = "sent" => mails'[m.event][m.user] > 0)
  PROVE  /\ status' \in [Events -> [Users -> Statuses]]
         /\ \A d \in Events, x \in Users :
              \/ status'[d][x] = status[d][x]
              \/ status[d][x] = "pending" /\ status'[d][x] = "failed"
              \/ /\ status[d][x] = "pending" /\ status'[d][x] = "sent"
                 /\ mails'[d][x] > 0
<1>1. CASE status' = status
  BY <1>1 DEF TypeOK
<1>2. CASE status' # status
  <2>1. PICK x \in {"sent", "failed"} :
          ResolveTo(m, x) /\ (x = "sent" => mails'[m.event][m.user] > 0)
    BY <1>2
  <2> QED
    BY <2>1, ResolveMoves
<1> QED
  BY <1>1, <1>2

LEMMA MailsMove ==
  ASSUME TypeOK, NEW m \in EmailMessages, WantsEmail(m.event, m.user),
         mails' = mails \/ Accepted(m)
  PROVE  /\ mails' \in [Events -> [Users -> Nat]]
         /\ \A d \in Events, x \in Users :
              \/ mails'[d][x] = mails[d][x]
              \/ mails'[d][x] = mails[d][x] + 1 /\ WantsEmail(d, x)
<1>1. CASE mails' = mails
  BY <1>1 DEF TypeOK
<1>2. CASE Accepted(m)
  BY <1>2, AcceptedCounts
<1> QED
  BY <1>1, <1>2

\* A step that sends or records one e-mail, about which w holds job j next.
LEMMA EmailStep ==
  ASSUME IInv, NEW w \in Workers, NEW m \in EmailMessages,
         job[w].stage \in Emailing, m = job[w].msg,
         NEW j \in {Idle} \union Jobs, job' = [job EXCEPT ![w] = j],
         j = Idle \/ (j.stage = "record" /\ j.msg = m /\ mails'[m.event][m.user] > 0),
         UNCHANGED <<waiting, people, unread, reading, redone>>,
         \/ status' = status
         \/ \E x \in {"sent", "failed"} :
              ResolveTo(m, x) /\ (x = "sent" => mails'[m.event][m.user] > 0),
         mails' = mails \/ Accepted(m),
         broker' \in [Messages -> Nat],
         \A n \in EmailMessages : broker'[n] > 0 => broker[n] > 0 \/ n = NextAttempt(m),
         again' \in [Events -> [Users -> Nat]],
         gaveUp' \subseteq gaveUp \union {<<m.event, m.user>>},
         claimed' \subseteq claimed \union {<<m.event, m.user>>}
  PROVE  TypeOK' /\ Grounds(w)
<1>1. TypeOK /\ WantsEmail(m.event, m.user)
  BY DEF IInv, EmailsHaveRows
<1>2. m.event \in Events /\ m.user \in Users
  BY DEF EmailMessages
<1>3. /\ status' \in [Events -> [Users -> Statuses]]
      /\ \A d \in Events, x \in Users :
           \/ status'[d][x] = status[d][x]
           \/ status[d][x] = "pending" /\ status'[d][x] = "failed"
           \/ /\ status[d][x] = "pending" /\ status'[d][x] = "sent"
              /\ mails'[d][x] > 0
  BY <1>1, StatusMoves
<1>4. /\ mails' \in [Events -> [Users -> Nat]]
      /\ \A d \in Events, x \in Users :
           \/ mails'[d][x] = mails[d][x]
           \/ mails'[d][x] = mails[d][x] + 1 /\ WantsEmail(d, x)
  BY <1>1, MailsMove
<1>5. TypeOK'
  BY <1>1, <1>2, <1>3, <1>4 DEF TypeOK, people
<1>6. job'[w] = j /\ \A v \in Workers \ {w} : job'[v] = job[v]
  BY <1>1 DEF TypeOK
<1>7. \A n \in EmailMessages : broker'[n] > 0 => broker[n] > 0 \/ WantsEmail(n.event, n.user)
  BY <1>1 DEF NextAttempt, EmailTask
<1>8. Idle.stage = "idle"
  BY DEF Idle
<1>9. \A d \in Events, x \in Users : Moved(w, d, x)
  BY <1>3 DEF Moved
<1> QED
  BY <1>1, <1>4, <1>5, <1>6, <1>7, <1>8, <1>9 DEF Grounds, Emailing

LEMMA RetryGoesOn ==
  ASSUME TypeOK, NEW m \in EmailMessages, RetryOrGiveUp(m)
  PROVE  /\ status' = status \/ ResolveTo(m, "failed")
         /\ broker' \in [Messages -> Nat]
         /\ \A n \in EmailMessages : broker'[n] > 0 => broker[n] > 0 \/ n = NextAttempt(m)
         /\ gaveUp' \subseteq gaveUp \union {<<m.event, m.user>>}
<1>1. broker \in [Messages -> Nat] /\ EmailMessages \subseteq Messages
  BY DEF TypeOK, Messages
<1>2. CASE m.retries < MaxRetries
  <2>1. Publish(NextAttempt(m)) /\ UNCHANGED <<status, gaveUp>>
    BY <1>2 DEF RetryOrGiveUp
  <2>2. m.event \in Events /\ m.user \in Users /\ m.retries + 1 \in 0..MaxRetries
    BY <1>2, BoundsAssumption DEF EmailMessages
  <2>3. NextAttempt(m) \in Messages
    BY <1>1, <2>2, MessagesAreMessages DEF NextAttempt
  <2> QED
    BY <1>1, <2>1, <2>3, PublishAdds
<1>3. CASE ~(m.retries < MaxRetries)
  BY <1>1, <1>3 DEF RetryOrGiveUp
<1> QED
  BY <1>2, <1>3

LEMMA SendGrounds ==
  ASSUME IInv, NEW w \in Workers, SendEmail(w) \/ SendFails(w) \/ SendAnswerLost(w)
  PROVE  TypeOK' /\ Grounds(w)
<1>1. TypeOK /\ job[w].stage = "send"
  BY DEF IInv, SendEmail, SendFails, SendAnswerLost, At
<1>2. PICK m \in EmailMessages : m = job[w].msg
  BY <1>1, FieldsOfJobs DEF Emailing
<1>3. /\ broker \in [Messages -> Nat] /\ mails \in [Events -> [Users -> Nat]]
      /\ again \in [Events -> [Users -> Nat]]
  BY <1>1 DEF TypeOK
<1>4. PICK e \in Events, u \in Users : e = m.event /\ u = m.user
  BY DEF EmailMessages
<1>5. CASE SendEmail(w)
  <2> DEFINE j == [stage |-> "record", msg |-> m]
  <2>1. /\ job' = [job EXCEPT ![w] = j] /\ Accepted(m)
        /\ UNCHANGED <<waiting, people, rows, broker, again, redone, gaveUp, claimed>>
    BY <1>2, <1>5 DEF SendEmail, Goto
  <2>2. j \in Jobs /\ j.stage = "record" /\ j.msg = m
    BY JobsAreJobs DEF Emailing
  <2> HIDE DEF j
  <2>4. /\ status' = status /\ UNCHANGED <<unread, reading>>
        /\ UNCHANGED <<waiting, people, broker, again, redone, gaveUp, claimed>>
    BY <2>1 DEF rows
  <2>5. mails'[m.event][m.user] > 0
    BY <1>1, <2>1, AcceptedCounts
  <2> QED
    BY <1>1, <1>2, <1>3, <2>1, <2>2, <2>4, <2>5, EmailStep DEF Emailing
<1>6. CASE SendFails(w)
  <2>1. /\ job' = [job EXCEPT ![w] = Idle] /\ RetryOrGiveUp(m)
        /\ UNCHANGED <<waiting, people, unread, reading, mails, again, redone, claimed>>
    BY <1>2, <1>6 DEF SendFails, Finish
  <2> QED
    BY <1>1, <1>2, <1>3, <2>1, RetryGoesOn, EmailStep DEF Emailing
<1>7. CASE SendAnswerLost(w)
  <2>1. /\ job' = [job EXCEPT ![w] = Idle] /\ RetryOrGiveUp(m) /\ Accepted(m)
        /\ again' = [again EXCEPT ![e][u] = again[e][u] + 1]
        /\ UNCHANGED <<waiting, people, unread, reading, redone, claimed>>
    BY <1>2, <1>4, <1>7 DEF SendAnswerLost, Finish
  <2>2. again' \in [Events -> [Users -> Nat]]
    <3>1. again[e][u] + 1 \in Nat
      BY <1>3
    <3> QED
      BY <1>3, <2>1, <3>1, OneCell
  <2> QED
    BY <1>1, <1>2, <1>3, <2>1, <2>2, RetryGoesOn, EmailStep DEF Emailing
<1> QED
  BY <1>5, <1>6, <1>7

LEMMA RecordGrounds ==
  ASSUME IInv, NEW w \in Workers, RecordSent(w)
  PROVE  TypeOK' /\ Grounds(w)
<1>1. TypeOK /\ job[w].stage = "record"
  BY DEF IInv, RecordSent, At
<1>2. PICK m \in EmailMessages : m = job[w].msg
  BY <1>1, FieldsOfJobs DEF Emailing
<1>3. mails[m.event][m.user] > 0
  BY <1>1, <1>2 DEF IInv, RecordedWereAccepted, At
<1>4. /\ job' = [job EXCEPT ![w] = Idle] /\ ResolveTo(m, "sent")
      /\ claimed' \subseteq claimed \union {<<m.event, m.user>>}
      /\ UNCHANGED <<waiting, people, unread, reading, broker, mails, again, redone, gaveUp>>
  BY <1>2 DEF RecordSent, Finish
<1>5. broker' \in [Messages -> Nat] /\ again' \in [Events -> [Users -> Nat]]
  BY <1>1, <1>4 DEF TypeOK
<1> QED
  BY <1>1, <1>2, <1>3, <1>4, <1>5, EmailStep DEF Emailing

-----------------------------------------------------------------------------
(* The invariant.                                                          *)

LEMMA ServeGrounds ==
  ASSUME IInv, NEW w \in Workers, Serve(w) \/ Crash(w)
  PROVE  TypeOK' /\ Grounds(w)
  BY TakeGrounds, StopGrounds, ResolveGrounds, GetOrCreateGrounds, DispatchGrounds,
     CommitRowsGrounds, ReadGrounds, SendGrounds, RecordGrounds
     DEF Serve, Crash, DeadlockAbort

\* What clients and administrators do leaves statuses, jobs and e-mails alone.
LEMMA OthersKeep ==
  ASSUME IInv, TypeOK', UNCHANGED <<status, job, mails>>,
         \A m \in EmailMessages : broker'[m] = broker[m]
  PROVE  IInv'
  BY DEF IInv, NewRowsAreFree, CanInsert, Holds, At, ToldAreEligible, Eligible, EmailsHaveRows,
     WantsEmail, RecordedWereAccepted, SentMeansAccepted

LEMMA NotifyKeeps ==
  ASSUME IInv, NEW e \in Events, Notify(e)
  PROVE  IInv' /\ status' = status
<1>1. TypeOK /\ CreateTask(e) \in CreateMessages /\ CreateTask(e) \in Messages
  BY MessagesAreMessages DEF IInv, Messages
<1>2. /\ Publish(CreateTask(e)) /\ waiting' = waiting \ {e}
      /\ UNCHANGED <<people, rows, job, history>>
  BY DEF Notify
<1>3. broker \in [Messages -> Nat]
  BY <1>1 DEF TypeOK
<1>4. broker' \in [Messages -> Nat]
  BY <1>1, <1>2, <1>3, PublishAdds
<1>5. CreateTask(e) \notin EmailMessages
  BY FieldsOfMessages DEF CreateTask
<1>6. \A m \in EmailMessages : broker'[m] = broker[m]
  BY <1>1, <1>2, <1>3, <1>5 DEF Publish, Messages
<1>7. TypeOK'
  BY <1>1, <1>2, <1>4 DEF TypeOK, people, rows, history
<1>8. UNCHANGED <<status, job, mails>>
  BY <1>2 DEF rows, history
<1> QED
  BY <1>6, <1>7, <1>8, OthersKeep

LEMMA UserStepsKeep ==
  ASSUME IInv, NEW u \in Active, UserSteps(u)
  PROVE  IInv' /\ status' = status
<1>1. TypeOK /\ u \in Users
  BY BoundsAssumption DEF IInv
<1>2. \A e \in Events : e.type \in EventTypes
  BY EventsAssumption DEF EventRecords
<1>3. UNCHANGED <<waiting, status, broker, job, mails, again, redone, gaveUp, claimed>>
  BY DEF UserSteps, MarkReadBegin, MarkReadSave, KeepStatus, MarkAllRead, UpdatePreference,
     Watch, Unwatch, RemoveMember, rows, history
<1>4. /\ watchers' \subseteq Users /\ members' \subseteq Users
      /\ optedOut' \subseteq Users \X EventTypes
  <2>1. watchers \subseteq Users /\ members \subseteq Users
          /\ optedOut \subseteq Users \X EventTypes
    BY <1>1 DEF TypeOK
  <2>2. CASE UNCHANGED people
    BY <2>1, <2>2 DEF people
  <2>3. ASSUME NEW e \in Events, UpdatePreference(u, e.type)
        PROVE  /\ UNCHANGED <<watchers, members>>
               /\ optedOut' \subseteq optedOut \union {<<u, e.type>>}
    BY <2>3 DEF UpdatePreference
  <2>4. CASE Watch(u) \/ Unwatch(u) \/ RemoveMember(u)
    BY <1>1, <2>1, <2>4 DEF Watch, Unwatch, RemoveMember
  <2> QED
    BY <1>1, <1>2, <2>1, <2>2, <2>3, <2>4 DEF UserSteps, MarkReadBegin, MarkReadSave, MarkAllRead
<1>5. unread' \in [Events -> SUBSET Users] /\ reading' \in [Users -> SUBSET (Events \X Statuses)]
  <2>1. /\ unread \in [Events -> SUBSET Users]
        /\ reading \in [Users -> SUBSET (Events \X Statuses)]
        /\ status \in [Events -> [Users -> Statuses]]
    BY <1>1 DEF TypeOK
  <2>2. CASE MarkReadBegin(u)
    <3>1. PICK e \in Events : reading' = [reading EXCEPT ![u] = {<<e, status[e][u]>>}]
      BY <2>2 DEF MarkReadBegin
    <3>2. status[e][u] \in Statuses
      BY <1>1, <2>1
    <3> QED
      BY <1>1, <2>1, <2>2, <3>1, <3>2 DEF MarkReadBegin
  <2>3. CASE MarkReadSave(u)
    <3>1. PICK p \in reading[u] : unread' = [unread EXCEPT ![p[1]] = unread[p[1]] \ {u}]
      BY <2>3 DEF MarkReadSave
    <3>2. p[1] \in Events
      BY <1>1, <2>1
    <3> QED
      BY <1>1, <2>1, <2>3, <3>1, <3>2 DEF MarkReadSave
  <2>4. CASE MarkAllRead(u)
    BY <2>1, <2>4 DEF MarkAllRead
  <2>5. CASE UNCHANGED rows
    BY <2>1, <2>5 DEF rows
  <2> QED
    BY <2>2, <2>3, <2>4, <2>5 DEF UserSteps, UpdatePreference, Watch, Unwatch, RemoveMember
<1>6. TypeOK'
  BY <1>1, <1>3, <1>4, <1>5 DEF TypeOK
<1> QED
  BY <1>3, <1>6, OthersKeep

LEMMA InitHolds ==
  ASSUME Init
  PROVE  IInv
<1> USE DEF Init
<1>1. TypeOK
  BY DEF TypeOK, Statuses
<1>2. \A w \in Workers : job[w].stage = "idle"
  BY DEF Idle
<1>3. EmailsHaveRows
  BY <1>2 DEF EmailsHaveRows, Emailing, At, Messages
<1>4. NewRowsAreFree /\ ToldAreEligible /\ RecordedWereAccepted /\ SentMeansAccepted
  BY <1>2 DEF NewRowsAreFree, ToldAreEligible, RecordedWereAccepted, SentMeansAccepted, At
<1> QED
  BY <1>1, <1>3, <1>4 DEF IInv

\* Either nothing happens to the statuses, or one worker has grounds for it.
LEMMA StepKeeps ==
  ASSUME IInv, [Next]_vars
  PROVE  IInv' /\ (status' = status \/ \E w \in Workers : Grounds(w))
<1>1. CASE UNCHANGED vars
  <2>1. UNCHANGED <<status, job, mails, broker>>
    BY <1>1 DEF vars, rows, history
  <2>2. TypeOK'
    BY <1>1 DEF IInv, TypeOK, vars, people, rows, history
  <2> QED
    BY <2>1, <2>2, OthersKeep
<1>2. CASE \E w \in Workers : Serve(w) \/ Crash(w)
  BY <1>2, ServeGrounds, GroundsKeep
<1>3. CASE \E e \in Events : Notify(e)
  BY <1>3, NotifyKeeps
<1>4. CASE \E u \in Active : UserSteps(u)
  BY <1>4, UserStepsKeep
<1> QED
  BY <1>1, <1>2, <1>3, <1>4 DEF Next

\* Whoever is e-mailed has a row that asks for it, and a row that a transaction
\* is about to commit is nobody else's (the unique constraint behind
\* get_or_create, and the dispatch of new pending rows only).
THEOREM InvariantHolds == Spec => []IInv
<1>1. Init => IInv
  BY InitHolds
<1>2. IInv /\ [Next]_vars => IInv'
  BY StepKeeps
<1> QED
  BY <1>1, <1>2, PTL DEF Spec

\* "sent" is said of e-mails that the server took, and an opted-out user gets
\* none (send_notification_email, is_email_enabled).
THEOREM SentWereAccepted == Spec => []SentMeansAccepted
<1>1. IInv => SentMeansAccepted
  BY DEF IInv
<1> QED
  BY <1>1, InvariantHolds, PTL

\* Nobody is told twice of the comment that mentions them, whichever task runs
\* first (mentioned_user_ids_for_comment).
THEOREM MentionsGoFirst == Spec => []MentionPrecedence
<1>1. IInv => MentionPrecedence
  <2>1. SUFFICES ASSUME IInv, NEW e \in Events, NEW f \in Events, NEW u \in Users,
                        e.type = "mentioned", f.type = "comment_added", e.source = f.source,
                        status[e][u] # "none", status[f][u] # "none"
                 PROVE  FALSE
    BY DEF MentionPrecedence
  <2>2. u \in e.named /\ u \notin f.named
    BY <2>1 DEF IInv, ToldAreEligible, Eligible
  <2> QED
    BY <2>1, <2>2, MentionsAssumption
<1> QED
  BY <1>1, InvariantHolds, PTL

\* A status that was resolved stays resolved (the filter on PENDING in
\* send_notification_email and _mark_email_failed, update_fields in mark_read).
THEOREM ResolvedForGood == Spec => FinalStatusIsFinal
<1> DEFINE Final == \A e \in Events, u \in Users : status'[e][u] # status[e][u] =>
              \/ status[e][u] = "none" /\ status'[e][u] \in {"pending", "disabled"}
              \/ status[e][u] = "pending" /\ status'[e][u] \in {"sent", "failed"}
<1>1. IInv /\ [Next]_vars => [Final]_vars
  <2>1. SUFFICES ASSUME IInv, NEW w \in Workers, Grounds(w),
                        NEW e \in Events, NEW u \in Users, Holds(w, e, u),
                        status'[e][u] = job[w].rows[u]
                 PROVE  status[e][u] = "none" /\ status'[e][u] \in {"pending", "disabled"}
    BY StepKeeps DEF Grounds, Moved
  <2>2. job[w].rows \in [Users -> {"none", "pending", "disabled"}]
    BY <2>1, FieldsOfJobs DEF IInv, Holds, At
  <2> QED
    BY <2>1, <2>2 DEF IInv, NewRowsAreFree, Holds
<1> QED
  BY <1>1, InvariantHolds, PTL DEF Spec, FinalStatusIsFinal

-----------------------------------------------------------------------------
(* How many e-mails there can be.  What may still become an e-mail of a    *)
(* notification is a worker that is about to publish or to send it, or a   *)
(* copy of its task in the broker: together with the e-mails sent they     *)
(* never outnumber the deliveries.                                         *)

Handles(j, e, u) ==
  /\ j.stage \in {"dispatch", "read", "send"}
  /\ j.msg.event = e
  /\ IF j.stage = "dispatch" THEN u \in j.users ELSE j.msg.user = u

Handlers(e, u) == {w \in Workers : Handles(job[w], e, u)}

Copies(e, u) == {c \in (0..MaxRetries) \X Nat : c[2] < broker[EmailTask(e, u, c[1])]}

EmailsAreCounted ==
  \A e \in Events, u \in Users :
    /\ IsFiniteSet(Handlers(e, u)) /\ IsFiniteSet(Copies(e, u))
    /\ mails[e][u] + Cardinality(Handlers(e, u)) + Cardinality(Copies(e, u)) <= 1 + again[e][u]

Share(j, e, u) == IF Handles(j, e, u) THEN 1 ELSE 0

\* A step of w produces at most the e-mails and tasks that it uses up, unless
\* it delivers again.
Accounts(w, e, u) ==
  /\ IsFiniteSet(Copies(e, u)')
  /\ mails'[e][u] + Share(job'[w], e, u) + Cardinality(Copies(e, u)') + again[e][u]
       <= mails[e][u] + Share(job[w], e, u) + Cardinality(Copies(e, u)) + again'[e][u]

LEMMA HandlersMove ==
  ASSUME NEW w \in Workers, NEW e, NEW u, IsFiniteSet(Handlers(e, u)),
         \A v \in Workers \ {w} : job'[v] = job[v]
  PROVE  /\ IsFiniteSet(Handlers(e, u)')
         /\ Cardinality(Handlers(e, u)') + Share(job[w], e, u)
              = Cardinality(Handlers(e, u)) + Share(job'[w], e, u)
<1> DEFINE H == Handlers(e, u)
           G == Handlers(e, u)'
<1>1. /\ w \in H <=> Handles(job[w], e, u)
      /\ w \in G <=> Handles(job'[w], e, u)
  BY DEF Handlers
<1>2. H \ {w} = G \ {w}
  BY DEF Handlers
<1>3. G = IF w \in G THEN (H \ {w}) \union {w} ELSE H \ {w}
  BY <1>2
<1>4. /\ IsFiniteSet(H \ {w}) /\ Cardinality(H) \in Nat
      /\ Cardinality(H \ {w}) = IF w \in H THEN Cardinality(H) - 1 ELSE Cardinality(H)
  BY FS_RemoveElement, FS_CardinalityType
<1>5. /\ IsFiniteSet((H \ {w}) \union {w})
      /\ Cardinality((H \ {w}) \union {w}) = Cardinality(H \ {w}) + 1
  BY <1>4, FS_AddElement
<1> HIDE DEF H, G
<1>6. IsFiniteSet(G)
  BY <1>3, <1>4, <1>5
<1>7. Cardinality(G) = IF w \in G THEN Cardinality(H \ {w}) + 1 ELSE Cardinality(H \ {w})
  BY <1>3, <1>5
<1>8. Cardinality(G) + Share(job[w], e, u) = Cardinality(H) + Share(job'[w], e, u)
  BY <1>1, <1>4, <1>7 DEF Share
<1> QED
  BY <1>6, <1>8 DEF G, H

LEMMA TasksDiffer ==
  \A d, e \in Events, x, u \in Users, m, n \in 0..MaxRetries :
    EmailTask(d, x, m) = EmailTask(e, u, n) => d = e /\ x = u /\ m = n
<1>1. \A d, x, m : /\ EmailTask(d, x, m).event = d /\ EmailTask(d, x, m).user = x
                   /\ EmailTask(d, x, m).retries = m
  BY DEF EmailTask
<1> QED
  BY <1>1

\* One more copy of a task, or one less.
LEMMA CopiesMove ==
  ASSUME TypeOK, NEW e \in Events, NEW u \in Users, NEW n \in 0..MaxRetries,
         \A d \in Events, x \in Users : IsFiniteSet(Copies(d, x))
  PROVE  /\ broker' = [broker EXCEPT ![EmailTask(e, u, n)] = @ + 1] =>
              \A d \in Events, x \in Users :
                /\ IsFiniteSet(Copies(d, x)')
                /\ Cardinality(Copies(d, x)')
                     = IF d = e /\ x = u THEN Cardinality(Copies(d,
                       x)) + 1 ELSE Cardinality(Copies(d, x))
         /\ broker' = [broker EXCEPT ![EmailTask(e, u, n)] = @ - 1] /\ broker[EmailTask(e, u,
              n)] > 0 =>
              \A d \in Events, x \in Users :
                /\ IsFiniteSet(Copies(d, x)')
                /\ Cardinality(Copies(d, x)')
                     = IF d = e /\ x = u THEN Cardinality(Copies(d,
                       x)) - 1 ELSE Cardinality(Copies(d, x))
<1> DEFINE t == EmailTask(e, u, n)
<1>1. t \in Messages /\ broker \in [Messages -> Nat] /\ broker[t] \in Nat
  BY MessagesAreMessages DEF TypeOK, Messages
<1>2. ASSUME NEW v \in Nat, broker' = [broker EXCEPT ![t] = v],
             NEW d \in Events, NEW x \in Users, ~(d = e /\ x = u)
      PROVE  Copies(d, x)' = Copies(d, x)
  <2>1. \A m \in 0..MaxRetries : EmailTask(d, x, m) # t /\ EmailTask(d, x, m) \in Messages
    BY <1>2, TasksDiffer, MessagesAreMessages DEF Messages
  <2>2. \A m \in 0..MaxRetries : broker'[EmailTask(d, x, m)] = broker[EmailTask(d, x, m)]
    BY <1>1, <1>2, <2>1
  <2> QED
    BY <2>2 DEF Copies
<1>3. \A m \in 0..MaxRetries : /\ EmailTask(e, u, m) \in Messages
                               /\ EmailTask(e, u, m) = t => m = n
  BY TasksDiffer, MessagesAreMessages DEF Messages
<1>4. ASSUME broker' = [broker EXCEPT ![t] = broker[t] + 1]
      PROVE  /\ IsFiniteSet(Copies(e, u)')
             /\ Cardinality(Copies(e, u)') = Cardinality(Copies(e, u)) + 1
  <2>1. \A m \in 0..MaxRetries : broker'[EmailTask(e, u, m)]
          = IF m = n THEN broker[t] + 1 ELSE broker[EmailTask(e, u, m)]
    BY <1>1, <1>3, <1>4
  <2>2. Copies(e, u)' = Copies(e, u) \union {<<n, broker[t]>>}
    <3>1. ASSUME NEW m \in 0..MaxRetries, NEW k \in Nat
          PROVE  <<m, k>> \in Copies(e, u)' <=>
                   <<m, k>> \in Copies(e, u) \/ (m = n /\ k = broker[t])
      BY <1>1, <2>1 DEF Copies
    <3>2. Copies(e, u)' \subseteq (0..MaxRetries) \X Nat
          /\ Copies(e, u) \subseteq (0..MaxRetries) \X Nat
      BY DEF Copies
    <3> QED
      BY <1>1, <3>1, <3>2
  <2>3. <<n, broker[t]>> \notin Copies(e, u)
    BY <1>1 DEF Copies
  <2> QED
    BY <2>2, <2>3, FS_AddElement
<1>5. ASSUME broker' = [broker EXCEPT ![t] = broker[t] - 1], broker[t] > 0
      PROVE  /\ IsFiniteSet(Copies(e, u)')
             /\ Cardinality(Copies(e, u)') = Cardinality(Copies(e, u)) - 1
  <2>1. \A m \in 0..MaxRetries : broker'[EmailTask(e, u, m)]
          = IF m = n THEN broker[t] - 1 ELSE broker[EmailTask(e, u, m)]
    BY <1>1, <1>3, <1>5
  <2>2. Copies(e, u)' = Copies(e, u) \ {<<n, broker[t] - 1>>}
    <3>1. ASSUME NEW m \in 0..MaxRetries, NEW k \in Nat
          PROVE  <<m, k>> \in Copies(e, u)' <=>
                   <<m, k>> \in Copies(e, u) /\ ~(m = n /\ k = broker[t] - 1)
      BY <1>1, <2>1 DEF Copies
    <3>2. Copies(e, u)' \subseteq (0..MaxRetries) \X Nat
          /\ Copies(e, u) \subseteq (0..MaxRetries) \X Nat
      BY DEF Copies
    <3> QED
      BY <1>1, <3>1, <3>2
  <2>3. <<n, broker[t] - 1>> \in Copies(e, u)
    BY <1>1, <1>5 DEF Copies
  <2>4. \A S, x : IsFiniteSet(S) /\ x \in S =>
          IsFiniteSet(S \ {x}) /\ Cardinality(S \ {x}) = Cardinality(S) - 1
    BY FS_RemoveElement
  <2> QED
    BY <2>2, <2>3, <2>4
<1>6. ASSUME broker' = [broker EXCEPT ![t] = @ + 1]
      PROVE  \A d \in Events, x \in Users :
               /\ IsFiniteSet(Copies(d, x)')
               /\ Cardinality(Copies(d, x)')
                    = IF d = e /\ x = u THEN Cardinality(Copies(d,
                      x)) + 1 ELSE Cardinality(Copies(d, x))
  <2>1. broker' = [broker EXCEPT ![t] = broker[t] + 1] /\ broker[t] + 1 \in Nat
    BY <1>1, <1>6
  <2>2. ASSUME NEW d \in Events, NEW x \in Users
        PROVE  /\ IsFiniteSet(Copies(d, x)')
               /\ Cardinality(Copies(d, x)')
                    = IF d = e /\ x = u THEN Cardinality(Copies(d,
                      x)) + 1 ELSE Cardinality(Copies(d, x))
    <3>1. CASE d = e /\ x = u
      BY <1>4, <2>1, <3>1
    <3>2. CASE ~(d = e /\ x = u)
      <4>1. Copies(d, x)' = Copies(d, x)
        BY <1>2, <2>1, <3>2
      <4> QED
        BY <3>2, <4>1
    <3> QED
      BY <3>1, <3>2
  <2> QED
    BY <2>2
<1>7. ASSUME broker' = [broker EXCEPT ![t] = @ - 1], broker[t] > 0
      PROVE  \A d \in Events, x \in Users :
               /\ IsFiniteSet(Copies(d, x)')
               /\ Cardinality(Copies(d, x)')
                    = IF d = e /\ x = u THEN Cardinality(Copies(d,
                      x)) - 1 ELSE Cardinality(Copies(d, x))
  <2>1. broker' = [broker EXCEPT ![t] = broker[t] - 1] /\ broker[t] - 1 \in Nat
    BY <1>1, <1>7
  <2>2. ASSUME NEW d \in Events, NEW x \in Users
        PROVE  /\ IsFiniteSet(Copies(d, x)')
               /\ Cardinality(Copies(d, x)')
                    = IF d = e /\ x = u THEN Cardinality(Copies(d,
                      x)) - 1 ELSE Cardinality(Copies(d, x))
    <3>1. CASE d = e /\ x = u
      BY <1>5, <1>7, <2>1, <3>1
    <3>2. CASE ~(d = e /\ x = u)
      <4>1. Copies(d, x)' = Copies(d, x)
        BY <1>2, <2>1, <3>2
      <4> QED
        BY <3>2, <4>1
    <3> QED
      BY <3>1, <3>2
  <2> QED
    BY <2>2
<1> QED
  BY <1>6, <1>7

\* A row that does not ask for an e-mail has none under way, so that the
\* transaction that inserts it may start one.
Starts(e, u) ==
  /\ ~WantsEmail(e, u)
  /\ mails'[e][u] = mails[e][u] /\ again'[e][u] = again[e][u]
  /\ broker' = broker

LEMMA NobodyHandlesUnwanted ==
  ASSUME IInv, NEW e \in Events, NEW u \in Users, ~WantsEmail(e, u)
  PROVE  Handlers(e, u) = {} /\ Copies(e, u) = {} /\ mails[e][u] = 0
<1>1. TypeOK
  BY DEF IInv
<1>2. ASSUME NEW v \in Workers, Handles(job[v], e, u)
      PROVE  FALSE
  BY <1>2 DEF Handles, IInv, EmailsHaveRows, At, Emailing
<1>3. \A n \in 0..MaxRetries : ~(broker[EmailTask(e, u, n)] > 0)
  BY MessagesAreMessages DEF IInv, EmailsHaveRows, EmailTask
<1>4. \A n \in 0..MaxRetries : broker[EmailTask(e, u, n)] \in Nat
  BY <1>1, MessagesAreMessages DEF TypeOK, Messages
<1>5. Copies(e, u) = {}
  BY <1>3, <1>4 DEF Copies
<1>6. mails[e][u] = 0
  BY DEF IInv, SentMeansAccepted, WantsEmail
<1> QED
  BY <1>2, <1>5, <1>6 DEF Handlers

LEMMA AccountsKeep ==
  ASSUME IInv, TypeOK', EmailsAreCounted, NEW w \in Workers,
         \A v \in Workers \ {w} : job'[v] = job[v],
         \A e \in Events, u \in Users : Accounts(w, e, u) \/ Starts(e, u)
  PROVE  EmailsAreCounted'
<1>1. SUFFICES ASSUME NEW e \in Events, NEW u \in Users
               PROVE  /\ IsFiniteSet(Handlers(e, u)') /\ IsFiniteSet(Copies(e, u)')
                      /\ mails'[e][u] + Cardinality(Handlers(e, u)') + Cardinality(Copies(e, u)')
                           <= 1 + again'[e][u]
  BY DEF EmailsAreCounted
<1>2. /\ IsFiniteSet(Handlers(e, u)) /\ IsFiniteSet(Copies(e, u))
      /\ mails[e][u] + Cardinality(Handlers(e, u)) + Cardinality(Copies(e, u)) <= 1 + again[e][u]
  BY DEF EmailsAreCounted
<1>3. /\ IsFiniteSet(Handlers(e, u)')
      /\ Cardinality(Handlers(e, u)') + Share(job[w], e, u)
           = Cardinality(Handlers(e, u)) + Share(job'[w], e, u)
  BY <1>2, HandlersMove
<1>4. /\ mails[e][u] \in Nat /\ again[e][u] \in Nat
      /\ mails'[e][u] \in Nat /\ again'[e][u] \in Nat
      /\ Share(job[w], e, u) \in 0..1 /\ Share(job'[w], e, u) \in 0..1
  BY DEF IInv, TypeOK, Share
<1>5. /\ Cardinality(Handlers(e, u)) \in Nat /\ Cardinality(Handlers(e, u)') \in Nat
      /\ Cardinality(Copies(e, u)) \in Nat
  BY <1>2, <1>3, FS_CardinalityType
<1>6. CASE Accounts(w, e, u)
  <2>1. IsFiniteSet(Copies(e, u)') /\ Cardinality(Copies(e, u)') \in Nat
    BY <1>6, FS_CardinalityType DEF Accounts
  <2>2. mails'[e][u] + Share(job'[w], e, u) + Cardinality(Copies(e, u)') + again[e][u]
          <= mails[e][u] + Share(job[w], e, u) + Cardinality(Copies(e, u)) + again'[e][u]
    BY <1>6 DEF Accounts
  <2> QED
    BY <1>2, <1>3, <1>4, <1>5, <2>1, <2>2
<1>7. CASE Starts(e, u)
  <2>1. Handlers(e, u) = {} /\ Copies(e, u) = {} /\ mails[e][u] = 0
    BY <1>7, NobodyHandlesUnwanted DEF Starts
  <2>2. Copies(e, u)' = Copies(e, u)
    BY <1>7 DEF Starts, Copies
  <2>3. Cardinality(Handlers(e, u)) = 0 /\ Cardinality(Copies(e, u)') = 0
    BY <2>1, <2>2, FS_EmptySet
  <2>4. mails'[e][u] = 0
    BY <1>7, <2>1 DEF Starts
  <2> QED
    BY <1>2, <1>3, <1>4, <1>5, <2>2, <2>3, <2>4
<1> QED
  BY <1>1, <1>6, <1>7

\* The copies of every task, in a step that publishes or takes none.
LEMMA CopiesStay ==
  ASSUME EmailsAreCounted, UNCHANGED broker, NEW e \in Events, NEW u \in Users
  PROVE  /\ Copies(e, u)' = Copies(e, u) /\ IsFiniteSet(Copies(e, u)')
         /\ Cardinality(Copies(e, u)) \in Nat
<1>1. Copies(e, u)' = Copies(e, u)
  BY DEF Copies
<1>2. IsFiniteSet(Copies(e, u))
  BY DEF EmailsAreCounted
<1> QED
  BY <1>1, <1>2, FS_CardinalityType

\* A step that sends and publishes nothing.
LEMMA QuietAccounts ==
  ASSUME TypeOK, EmailsAreCounted, NEW w \in Workers, UNCHANGED <<mails, again, broker>>,
         \A e \in Events, u \in Users : Handles(job'[w], e, u) => Handles(job[w], e, u)
  PROVE  \A e \in Events, u \in Users : Accounts(w, e, u)
<1>1. SUFFICES ASSUME NEW e \in Events, NEW u \in Users
               PROVE  Accounts(w, e, u)
  OBVIOUS
<1>2. /\ mails[e][u] \in Nat /\ again[e][u] \in Nat
      /\ Copies(e, u)' = Copies(e, u) /\ IsFiniteSet(Copies(e, u)')
      /\ Cardinality(Copies(e, u)) \in Nat
  BY CopiesStay DEF TypeOK
<1>3. Share(job'[w], e, u) <= Share(job[w], e, u) /\ Share(job[w], e, u) \in 0..1
      /\ Share(job'[w], e, u) \in 0..1
  BY DEF Share
<1> QED
  BY <1>2, <1>3 DEF Accounts

\* Steps that neither send nor publish, and hand nothing on to be sent.
LEMMA QuietStepsAccount ==
  ASSUME IInv, EmailsAreCounted, NEW w \in Workers,
         \/ Resolve(w) \/ DeadlockAbort(w) \/ Crash(w) \/ ReadNotification(w) \/ RecordSent(w)
         \/ \E u \in Users : GetOrCreate(w, u)
  PROVE  \A e \in Events, u \in Users : Accounts(w, e, u)
<1>1. TypeOK
  BY DEF IInv
<1>2. UNCHANGED <<mails, again, broker>>
  BY DEF Resolve, DeadlockAbort, Crash, ReadNotification, RecordSent, GetOrCreate, history
<1>3. \/ job'[w].stage \notin {"dispatch", "read", "send"}
      \/ /\ job[w].stage = "read" /\ job'[w].stage = "send" /\ job'[w].msg = job[w].msg
  <2>1. CASE Resolve(w)
    BY <1>1, <2>1 DEF Resolve, Inserting, Idle, TypeOK
  <2>2. CASE DeadlockAbort(w) \/ Crash(w) \/ RecordSent(w)
    BY <1>1, <2>2 DEF DeadlockAbort, Crash, RecordSent, Finish, Idle, TypeOK
  <2>3. CASE ReadNotification(w)
    BY <1>1, <2>3 DEF ReadNotification, At, Goto, Finish, Idle, TypeOK
  <2>4. ASSUME NEW u \in Users, GetOrCreate(w, u)
        PROVE  job'[w].stage = "insert"
    BY <1>1, <2>4 DEF GetOrCreate, Inserting, TypeOK
  <2> QED
    BY <2>1, <2>2, <2>3, <2>4
<1>4. \A e \in Events, u \in Users : Handles(job'[w], e, u) => Handles(job[w], e, u)
  BY <1>3 DEF Handles
<1> QED
  BY <1>1, <1>2, <1>4, QuietAccounts

LEMMA CommitAccounts ==
  ASSUME IInv, EmailsAreCounted, NEW w \in Workers, CommitRows(w)
  PROVE  \A e \in Events, u \in Users : Accounts(w, e, u) \/ Starts(e, u)
<1>1. TypeOK /\ job[w].stage = "insert" /\ UNCHANGED <<broker, mails, again>>
  BY DEF IInv, CommitRows, At, history
<1>2. PICK j : j = Dispatching(job[w].msg, ToEmail(w)) /\ job' = [job EXCEPT ![w] = j]
  <2>1. job' = [job EXCEPT ![w] = Dispatching(job[w].msg, ToEmail(w))]
    BY DEF CommitRows
  <2> QED
    BY <2>1
<1>3. job'[w] = j
  BY <1>1, <1>2 DEF TypeOK
<1>4. SUFFICES ASSUME NEW e \in Events, NEW u \in Users
               PROVE  Accounts(w, e, u) \/ Starts(e, u)
  OBVIOUS
<1>5. CASE Handles(j, e, u)
  <2>1. e = job[w].msg.event /\ job[w].rows[u] # "none"
    BY <1>2, <1>5 DEF Handles, Dispatching, Idle, ToEmail
  <2>2. ~WantsEmail(e, u)
    BY <1>1, <2>1 DEF IInv, NewRowsAreFree, At, WantsEmail
  <2> QED
    BY <1>1, <2>2 DEF Starts
<1>6. CASE ~Handles(j, e, u)
  <2>1. Share(job'[w], e, u) = 0 /\ Share(job[w], e, u) \in 0..1
    BY <1>3, <1>6 DEF Share
  <2>2. /\ mails[e][u] \in Nat /\ again[e][u] \in Nat
        /\ Copies(e, u)' = Copies(e, u) /\ IsFiniteSet(Copies(e, u)')
        /\ Cardinality(Copies(e, u)) \in Nat
    BY <1>1, CopiesStay DEF TypeOK
  <2> QED
    BY <1>1, <2>1, <2>2 DEF Accounts
<1> QED
  BY <1>5, <1>6

\* Taking a task: a copy becomes a worker, or a redelivery makes one more.
LEMMA TakeAccounts ==
  ASSUME IInv, TypeOK', EmailsAreCounted, NEW w \in Workers, Take(w) \/ TakeUnacknowledged(w)
  PROVE  /\ \A v \in Workers \ {w} : job'[v] = job[v]
         /\ \A e \in Events, u \in Users : Accounts(w, e, u)
<1>1. TypeOK /\ mails' = mails
  BY DEF IInv, Take, TakeUnacknowledged, history
<1>2. PICK m \in Messages :
        /\ Start(w, m)
        /\ \/ broker' = [broker EXCEPT ![m] = @ - 1] /\ again' = again
           \/ /\ UNCHANGED broker /\ m.task = "create" /\ again' = again
           \/ /\ UNCHANGED broker /\ m.task # "create"
              /\ again' = [again EXCEPT ![m.event][m.user] = @ + 1]
  BY DEF Take, TakeUnacknowledged, history
<1>3. PICK j : /\ j = [stage |-> IF m.task = "create" THEN "resolve" ELSE "read", msg |-> m]
               /\ job' = [job EXCEPT ![w] = j]
  BY <1>2 DEF Start
<1>4. /\ job'[w] = j /\ job[w].stage = "idle" /\ broker[m] > 0
      /\ \A v \in Workers \ {w} : job'[v] = job[v]
  BY <1>1, <1>2, <1>3 DEF TypeOK, Start, Idle
<1>5. \A e \in Events, u \in Users : ~Handles(job[w], e, u)
  BY <1>4 DEF Handles
<1>6. CASE m.task = "create"
  <2>1. \A e \in Events, u \in Users : ~Handles(job'[w], e, u)
    BY <1>3, <1>4, <1>6 DEF Handles
  <2>2. again' = again
    BY <1>2, <1>6
  <2>3. \A e \in Events, u \in Users : Copies(e, u)' = Copies(e, u)
    <3>1. \A e \in Events, u \in Users, n \in 0..MaxRetries :
            EmailTask(e, u, n) # m /\ EmailTask(e, u, n) \in Messages
      BY <1>6, MessagesAreMessages, FieldsOfMessages DEF Messages
    <3>2. broker' = broker \/ broker' = [broker EXCEPT ![m] = broker[m] - 1]
      BY <1>2
    <3>3. \A e \in Events, u \in Users, n \in 0..MaxRetries :
            broker'[EmailTask(e, u, n)] = broker[EmailTask(e, u, n)]
      BY <1>1, <3>1, <3>2 DEF TypeOK
    <3> QED
      BY <3>3 DEF Copies
  <2>4. SUFFICES ASSUME NEW e \in Events, NEW u \in Users
                 PROVE  Accounts(w, e, u)
    BY <1>4
  <2>5. mails[e][u] \in Nat /\ again[e][u] \in Nat /\ IsFiniteSet(Copies(e, u))
    BY <1>1 DEF TypeOK, EmailsAreCounted
  <2>6. Cardinality(Copies(e, u)) \in Nat
    BY <2>5, FS_CardinalityType
  <2>7. Share(job[w], e, u) = 0 /\ Share(job'[w], e, u) = 0
    BY <1>5, <2>1 DEF Share
  <2> QED
    BY <1>1, <2>2, <2>3, <2>5, <2>6, <2>7 DEF Accounts
<1>7. CASE m.task # "create"
  <2>1. PICK e \in Events, u \in Users, n \in 0..MaxRetries : m = EmailTask(e, u, n)
    BY <1>7, FieldsOfMessages DEF EmailMessages, EmailTask
  <2>2. m.event = e /\ m.user = u
    BY <2>1 DEF EmailTask
  <2>3. \A d \in Events, x \in Users : Share(job'[w], d, x) = IF d = e /\ x = u THEN 1 ELSE 0
    BY <1>3, <1>4, <1>7, <2>2 DEF Handles, Share
  <2>4. \A d \in Events, x \in Users : Share(job[w], d, x) = 0
    BY <1>5 DEF Share
  <2>5. \A d \in Events, x \in Users : IsFiniteSet(Copies(d, x))
    BY DEF EmailsAreCounted
  <2>6. \A d \in Events, x \in Users : Cardinality(Copies(d, x)) \in Nat
    BY <2>5, FS_CardinalityType
  <2>7. \A d \in Events, x \in Users : mails[d][x] \in Nat /\ again[d][x] \in Nat
    BY <1>1 DEF TypeOK
  <2>8. SUFFICES ASSUME NEW d \in Events, NEW x \in Users
                 PROVE  Accounts(w, d, x)
    BY <1>4
  <2>9. CASE broker' = [broker EXCEPT ![m] = @ - 1] /\ again' = again
    <3>1. /\ broker' = [broker EXCEPT ![EmailTask(e, u, n)] = @ - 1]
          /\ broker[EmailTask(e, u, n)] > 0
      BY <1>4, <2>1, <2>9
    <3>2. \A c \in Events, y \in Users :
            /\ IsFiniteSet(Copies(c, y)')
            /\ Cardinality(Copies(c, y)')
                 = IF c = e /\ y = u THEN Cardinality(Copies(c, y)) - 1 ELSE Cardinality(Copies(c,
                   y))
      BY <1>1, <2>5, <3>1, CopiesMove
    <3> QED
      BY <1>1, <2>3, <2>4, <2>6, <2>7, <2>9, <3>2 DEF Accounts
  <2>10. CASE UNCHANGED broker /\ again' = [again EXCEPT ![m.event][m.user] = @ + 1]
    <3>1. again' = [again EXCEPT ![e][u] = again[e][u] + 1]
      BY <2>2, <2>10
    <3>2. again[e][u] + 1 \in Nat /\ again \in [Events -> [Users -> Nat]]
      BY <1>1, <2>7 DEF TypeOK
    <3>3. again'[d][x] = IF d = e /\ x = u THEN again[e][u] + 1 ELSE again[d][x]
      BY <3>1, <3>2, OneCell
    <3>4. Copies(d, x)' = Copies(d, x)
      BY <2>10 DEF Copies
    <3> QED
      BY <1>1, <2>3, <2>4, <2>5, <2>6, <2>7, <3>3, <3>4 DEF Accounts
  <2> QED
    BY <1>2, <1>7, <2>9, <2>10
<1> QED
  BY <1>6, <1>7

\* Publishing a task adds a copy of it, or none.
LEMMA PublishCopies ==
  ASSUME TypeOK, EmailsAreCounted, NEW e \in Events, NEW u \in Users, NEW n \in 0..MaxRetries,
         Publish(EmailTask(e, u, n)) \/ UNCHANGED broker
  PROVE  \A d \in Events, x \in Users :
           /\ IsFiniteSet(Copies(d, x)') /\ Cardinality(Copies(d, x)) \in Nat
           /\ \/ Cardinality(Copies(d, x)') = Cardinality(Copies(d, x))
              \/ d = e /\ x = u /\ Cardinality(Copies(d, x)') = Cardinality(Copies(d, x)) + 1
<1>1. \A d \in Events, x \in Users : IsFiniteSet(Copies(d, x))
  BY DEF EmailsAreCounted
<1>2. \A d \in Events, x \in Users : Cardinality(Copies(d, x)) \in Nat
  BY <1>1, FS_CardinalityType
<1>3. CASE UNCHANGED broker
  <2>1. \A d \in Events, x \in Users : Copies(d, x)' = Copies(d, x)
    BY <1>3 DEF Copies
  <2> QED
    BY <1>1, <1>2, <2>1
<1>4. CASE broker' = [broker EXCEPT ![EmailTask(e, u, n)] = @ + 1]
  <2>1. \A d \in Events, x \in Users :
          /\ IsFiniteSet(Copies(d, x)')
          /\ Cardinality(Copies(d, x)')
               = IF d = e /\ x = u THEN Cardinality(Copies(d, x)) + 1 ELSE Cardinality(Copies(d, x))
    BY <1>1, <1>4, CopiesMove
  <2> QED
    BY <1>2, <2>1
<1> QED
  BY <1>3, <1>4 DEF Publish

\* A worker uses up one e-mail that it was to publish or to send.
LEMMA SpendAccounts ==
  ASSUME TypeOK, TypeOK', EmailsAreCounted, NEW w \in Workers, NEW e \in Events, NEW u \in Users,
         Handles(job[w], e, u),
         \A d \in Events, x \in Users :
           Handles(job'[w], d, x) => Handles(job[w], d, x) /\ ~(d = e /\ x = u),
         \A d \in Events, x \in Users :
           /\ IsFiniteSet(Copies(d, x)')
           /\ IF d = e /\ x = u
              THEN mails'[d][x] + Cardinality(Copies(d, x)') + again[d][x]
                     <= 1 + mails[d][x] + Cardinality(Copies(d, x)) + again'[d][x]
              ELSE /\ mails'[d][x] = mails[d][x] /\ again'[d][x] = again[d][x]
                   /\ Cardinality(Copies(d, x)') = Cardinality(Copies(d, x))
  PROVE  \A d \in Events, x \in Users : Accounts(w, d, x)
<1>1. SUFFICES ASSUME NEW d \in Events, NEW x \in Users
               PROVE  Accounts(w, d, x)
  OBVIOUS
<1>2. /\ mails[d][x] \in Nat /\ again[d][x] \in Nat
      /\ mails'[d][x] \in Nat /\ again'[d][x] \in Nat
  BY DEF TypeOK
<1>3. IsFiniteSet(Copies(d, x)) /\ IsFiniteSet(Copies(d, x)')
  BY DEF EmailsAreCounted
<1>4. Cardinality(Copies(d, x)) \in Nat /\ Cardinality(Copies(d, x)') \in Nat
  BY <1>3, FS_CardinalityType
<1>5. CASE d = e /\ x = u
  <2>1. Share(job[w], d, x) = 1 /\ Share(job'[w], d, x) = 0
    BY <1>5 DEF Share
  <2> QED
    BY <1>2, <1>3, <1>4, <1>5, <2>1 DEF Accounts
<1>6. CASE ~(d = e /\ x = u)
  <2>1. /\ Share(job[w], d, x) \in 0..1 /\ Share(job'[w], d, x) \in 0..1
        /\ Share(job'[w], d, x) <= Share(job[w], d, x)
    BY DEF Share
  <2> QED
    BY <1>2, <1>3, <1>4, <1>6, <2>1 DEF Accounts
<1> QED
  BY <1>5, <1>6

LEMMA DispatchAccounts ==
  ASSUME IInv, TypeOK', EmailsAreCounted, NEW w \in Workers, NEW u \in Users, Dispatch(w, u)
  PROVE  \A d \in Events, x \in Users : Accounts(w, d, x)
<1>1. TypeOK /\ job[w].stage = "dispatch" /\ u \in job[w].users
  BY DEF IInv, Dispatch, At
<1>2. PICK e \in Events : e = job[w].msg.event
  BY <1>1, FieldsOfJobs
<1>3. /\ job' = [job EXCEPT ![w] = Dispatching(job[w].msg, job[w].users \ {u})]
      /\ Publish(EmailTask(e, u, 0)) /\ UNCHANGED <<mails, again>>
  BY <1>2 DEF Dispatch, history
<1>4. job'[w] = Dispatching(job[w].msg, job[w].users \ {u})
  BY <1>1, <1>3 DEF TypeOK
<1>5. Handles(job[w], e, u)
  BY <1>1, <1>2 DEF Handles
<1>6. \A d \in Events, x \in Users :
        Handles(job'[w], d, x) => Handles(job[w], d, x) /\ ~(d = e /\ x = u)
  BY <1>1, <1>2, <1>4 DEF Handles, Dispatching, Idle
<1>7. 0 \in 0..MaxRetries
  BY BoundsAssumption
<1>8. \A d \in Events, x \in Users :
        /\ IsFiniteSet(Copies(d, x)') /\ Cardinality(Copies(d, x)) \in Nat
        /\ \/ Cardinality(Copies(d, x)') = Cardinality(Copies(d, x))
           \/ d = e /\ x = u /\ Cardinality(Copies(d, x)') = Cardinality(Copies(d, x)) + 1
  BY <1>1, <1>3, <1>7, PublishCopies
<1>9. \A d \in Events, x \in Users : mails[d][x] \in Nat /\ again[d][x] \in Nat
  BY <1>1 DEF TypeOK
<1>10. \A d \in Events, x \in Users :
         /\ IsFiniteSet(Copies(d, x)')
         /\ IF d = e /\ x = u
            THEN mails'[d][x] + Cardinality(Copies(d, x)') + again[d][x]
                   <= 1 + mails[d][x] + Cardinality(Copies(d, x)) + again'[d][x]
            ELSE /\ mails'[d][x] = mails[d][x] /\ again'[d][x] = again[d][x]
                 /\ Cardinality(Copies(d, x)') = Cardinality(Copies(d, x))
  BY <1>3, <1>8, <1>9
<1> QED
  BY <1>1, <1>5, <1>6, <1>10, SpendAccounts

\* What an e-mail that is sent, or that fails, adds up to.
LEMMA SendAccounts ==
  ASSUME IInv, TypeOK', EmailsAreCounted, NEW w \in Workers,
         SendEmail(w) \/ SendFails(w) \/ SendAnswerLost(w)
  PROVE  /\ \A v \in Workers \ {w} : job'[v] = job[v]
         /\ \A d \in Events, x \in Users : Accounts(w, d, x)
<1>1. TypeOK /\ job[w].stage = "send"
  BY DEF IInv, SendEmail, SendFails, SendAnswerLost, At
<1>2. PICK m \in EmailMessages : m = job[w].msg
  BY <1>1, FieldsOfJobs DEF Emailing
<1>3. PICK e \in Events, u \in Users : e = m.event /\ u = m.user
  BY DEF EmailMessages
<1>4. /\ job'[w].stage \notin {"dispatch", "read", "send"}
      /\ \A v \in Workers \ {w} : job'[v] = job[v]
  BY <1>1 DEF SendEmail, SendFails, SendAnswerLost, Goto, Finish, Idle, TypeOK
<1>5. Handles(job[w], e, u)
  BY <1>1, <1>2, <1>3 DEF Handles
<1>6. \A d \in Events, x \in Users :
        Handles(job'[w], d, x) => Handles(job[w], d, x) /\ ~(d = e /\ x = u)
  BY <1>4 DEF Handles
<1>7. \A d \in Events, x \in Users : mails[d][x] \in Nat /\ again[d][x] \in Nat
  BY <1>1 DEF TypeOK
<1>8. /\ mails \in [Events -> [Users -> Nat]] /\ again \in [Events -> [Users -> Nat]]
      /\ mails[e][u] + 1 \in Nat /\ again[e][u] + 1 \in Nat
  BY <1>1, <1>7 DEF TypeOK
<1>9. Accepted(m) => \A d \in Events, x \in Users :
        mails'[d][x] = IF d = e /\ x = u THEN mails[e][u] + 1 ELSE mails[d][x]
  <2>1. SUFFICES ASSUME Accepted(m)
                 PROVE  \A d \in Events, x \in Users :
                          mails'[d][x] = IF d = e /\ x = u THEN mails[e][u] + 1 ELSE mails[d][x]
    OBVIOUS
  <2>2. mails' = [mails EXCEPT ![e][u] = mails[e][u] + 1]
    BY <1>3, <2>1 DEF Accepted
  <2> QED
    BY <1>8, <2>2, OneCell
<1>10. PICK n \in 0..MaxRetries :
         RetryOrGiveUp(m) \/ UNCHANGED broker => Publish(EmailTask(e, u, n)) \/ UNCHANGED broker
  <2>1. 0 \in 0..MaxRetries
    BY BoundsAssumption
  <2>2. CASE m.retries < MaxRetries
    <3>1. m.retries + 1 \in 0..MaxRetries
      BY <2>2, BoundsAssumption DEF EmailMessages
    <3> QED
      BY <1>3, <3>1 DEF RetryOrGiveUp, NextAttempt
  <2>3. CASE ~(m.retries < MaxRetries)
    BY <2>1, <2>3 DEF RetryOrGiveUp
  <2> QED
    BY <2>2, <2>3
<1>11. RetryOrGiveUp(m) \/ UNCHANGED broker
  BY <1>2 DEF SendEmail, SendFails, SendAnswerLost
<1>12. \A d \in Events, x \in Users :
        /\ IsFiniteSet(Copies(d, x)') /\ Cardinality(Copies(d, x)) \in Nat
        /\ \/ Cardinality(Copies(d, x)') = Cardinality(Copies(d, x))
           \/ d = e /\ x = u /\ Cardinality(Copies(d, x)') = Cardinality(Copies(d, x)) + 1
  BY <1>1, <1>10, <1>11, PublishCopies
<1>13. \A d \in Events, x \in Users :
         /\ IsFiniteSet(Copies(d, x)')
         /\ IF d = e /\ x = u
            THEN mails'[d][x] + Cardinality(Copies(d, x)') + again[d][x]
                   <= 1 + mails[d][x] + Cardinality(Copies(d, x)) + again'[d][x]
            ELSE /\ mails'[d][x] = mails[d][x] /\ again'[d][x] = again[d][x]
                 /\ Cardinality(Copies(d, x)') = Cardinality(Copies(d, x))
  <2>1. CASE SendEmail(w)
    <3>1. Accepted(m) /\ UNCHANGED <<broker, again>>
      BY <1>2, <2>1 DEF SendEmail
    <3>2. \A d \in Events, x \in Users : Copies(d, x)' = Copies(d, x)
      BY <3>1 DEF Copies
    <3> QED
      BY <1>7, <1>9, <1>12, <3>1, <3>2
  <2>2. CASE SendFails(w)
    <3>1. UNCHANGED <<mails, again>>
      BY <2>2 DEF SendFails
    <3> QED
      BY <1>7, <1>12, <3>1
  <2>3. CASE SendAnswerLost(w)
    <3>1. Accepted(m) /\ again' = [again EXCEPT ![e][u] = again[e][u] + 1]
      BY <1>2, <1>3, <2>3 DEF SendAnswerLost
    <3>2. \A d \in Events, x \in Users :
            again'[d][x] = IF d = e /\ x = u THEN again[e][u] + 1 ELSE again[d][x]
      BY <1>8, <3>1, OneCell
    <3> QED
      BY <1>7, <1>9, <1>12, <3>1, <3>2
  <2> QED
    BY <2>1, <2>2, <2>3
<1>14. \A d \in Events, x \in Users : Accounts(w, d, x)
  BY <1>1, <1>5, <1>6, <1>13, SpendAccounts
<1> QED
  BY <1>4, <1>14

\* Steps that leave the e-mails, and everybody who handles them, alone.
LEMMA OthersAccount ==
  ASSUME EmailsAreCounted, UNCHANGED <<job, mails, again>>,
         \A m \in EmailMessages : broker'[m] = broker[m]
  PROVE  EmailsAreCounted'
<1>1. \A e \in Events, u \in Users : Copies(e, u)' = Copies(e, u)
  <2>1. \A e \in Events, u \in Users, n \in 0..MaxRetries :
          broker'[EmailTask(e, u, n)] = broker[EmailTask(e, u, n)]
    BY MessagesAreMessages
  <2> QED
    BY <2>1 DEF Copies
<1>2. \A e \in Events, u \in Users : Handlers(e, u)' = Handlers(e, u)
  BY DEF Handlers
<1> QED
  BY <1>1, <1>2 DEF EmailsAreCounted

LEMMA InitCounted ==
  ASSUME Init
  PROVE  EmailsAreCounted
<1>1. SUFFICES ASSUME NEW e \in Events, NEW u \in Users
               PROVE  /\ IsFiniteSet(Handlers(e, u)) /\ IsFiniteSet(Copies(e, u))
                      /\ mails[e][u] + Cardinality(Handlers(e, u)) + Cardinality(Copies(e, u))
                           <= 1 + again[e][u]
  BY DEF EmailsAreCounted
<1>2. Handlers(e, u) = {}
  BY DEF Init, Handlers, Handles, Idle
<1>3. Copies(e, u) = {}
  <2>1. \A n \in 0..MaxRetries : broker[EmailTask(e, u, n)] = 0
    BY MessagesAreMessages DEF Init, Messages
  <2> QED
    BY <2>1 DEF Copies
<1>4. mails[e][u] = 0 /\ again[e][u] = 0
  BY DEF Init
<1> QED
  BY <1>2, <1>3, <1>4, FS_EmptySet

LEMMA StepCounts ==
  ASSUME IInv, EmailsAreCounted, [Next]_vars
  PROVE  EmailsAreCounted'
<1>1. TypeOK /\ TypeOK'
  BY StepKeeps DEF IInv
<1>2. CASE UNCHANGED vars
  BY <1>2, OthersAccount DEF vars, history
<1>3. ASSUME NEW e \in Events, Notify(e)
      PROVE  EmailsAreCounted'
  <2>1. CreateTask(e) \in Messages /\ CreateTask(e) \notin EmailMessages
    BY MessagesAreMessages, FieldsOfMessages
  <2>2. \A m \in EmailMessages : broker'[m] = broker[m]
    BY <1>1, <1>3, <2>1 DEF Notify, Publish, TypeOK, Messages
  <2>3. UNCHANGED <<job, mails, again>>
    BY <1>3 DEF Notify, history
  <2> QED
    BY <2>2, <2>3, OthersAccount
<1>4. ASSUME NEW w \in Workers, Serve(w) \/ Crash(w)
      PROVE  EmailsAreCounted'
  <2>1. \A v \in Workers \ {w} : job'[v] = job[v]
    BY <1>4, ServeGrounds DEF Grounds
  <2>2. \A e \in Events, u \in Users : Accounts(w, e, u) \/ Starts(e, u)
    <3>1. CASE Take(w) \/ TakeUnacknowledged(w)
      BY <1>1, <3>1, TakeAccounts
    <3>2. CASE \/ Resolve(w) \/ DeadlockAbort(w) \/ Crash(w) \/ ReadNotification(w) \/ RecordSent(w)
               \/ \E u \in Users : GetOrCreate(w, u)
      BY <3>2, QuietStepsAccount
    <3>3. ASSUME NEW u \in Users, Dispatch(w, u)
          PROVE  \A e \in Events, x \in Users : Accounts(w, e, x)
      BY <1>1, <3>3, DispatchAccounts
    <3>4. CASE CommitRows(w)
      BY <3>4, CommitAccounts
    <3>5. CASE SendEmail(w) \/ SendFails(w) \/ SendAnswerLost(w)
      BY <1>1, <3>5, SendAccounts
    <3> QED
      BY <1>4, <3>1, <3>2, <3>3, <3>4, <3>5 DEF Serve
  <2> QED
    BY <1>1, <2>1, <2>2, AccountsKeep
<1>5. ASSUME NEW u \in Active, UserSteps(u)
      PROVE  EmailsAreCounted'
  <2>1. UNCHANGED <<job, mails, again, broker>>
    BY <1>5 DEF UserSteps, MarkReadBegin, MarkReadSave, KeepStatus, MarkAllRead, UpdatePreference,
       Watch, Unwatch, RemoveMember, rows, history
  <2> QED
    BY <2>1, OthersAccount
<1> QED
  BY <1>2, <1>3, <1>4, <1>5 DEF Next

\* However often the creation task is redelivered or its workers die, a
\* notification has no more e-mails than its e-mail task has deliveries
\* (get_or_create, and the dispatch of the newly created pending rows only).
THEOREM NoSecondEmail == Spec => []OneEmailPerDelivery
<1>1. Init => EmailsAreCounted
  BY InitCounted
<1>2. IInv /\ EmailsAreCounted /\ [Next]_vars => EmailsAreCounted'
  BY StepCounts
<1>3. IInv /\ EmailsAreCounted => OneEmailPerDelivery
  <2>1. SUFFICES ASSUME IInv, EmailsAreCounted, NEW e \in Events, NEW u \in Users
                 PROVE  mails[e][u] <= 1 + again[e][u]
    BY DEF OneEmailPerDelivery
  <2>2. /\ IsFiniteSet(Handlers(e, u)) /\ IsFiniteSet(Copies(e, u))
        /\ mails[e][u] + Cardinality(Handlers(e, u)) + Cardinality(Copies(e, u)) <= 1 + again[e][u]
    BY <2>1 DEF EmailsAreCounted
  <2>3. Cardinality(Handlers(e, u)) \in Nat /\ Cardinality(Copies(e, u)) \in Nat
    BY <2>2, FS_CardinalityType
  <2>4. mails[e][u] \in Nat /\ again[e][u] \in Nat
    BY <2>1 DEF IInv, TypeOK
  <2> QED
    BY <2>2, <2>3, <2>4
<1> QED
  BY <1>1, <1>2, <1>3, InvariantHolds, PTL DEF Spec
=============================================================================
