---------------------------- MODULE DashboardCache ----------------------------
(***************************************************************************)
(* cache_or_compute: one key of the dashboard's cache and the requests     *)
(* that read, compute and store it.  Values are told apart by their age,   *)
(* the ticks since the first of the queries they were computed from.       *)
(***************************************************************************)
EXTENDS Naturals

CONSTANTS
  Requests,
  ANALYTICS_CACHE_TTL_SECONDS,
  Latency,      \* a worker that serves a request for longer is killed
  None

CacheAssumption == ANALYTICS_CACHE_TTL_SECONDS \in Nat /\ Latency \in Nat

TTL == ANALYTICS_CACHE_TTL_SECONDS

VARIABLES
  entry,    \* the cached value: None or [age, left]
  pc,
  spent,    \* spent[r]: ticks since request r came in
  age       \* age[r]: age of the value it has, 0 before

vars == <<entry, pc, spent, age>>

Ages == 0 .. TTL + 2 * Latency

TypeOK ==
  /\ entry \in {None} \union [age : Ages, left : 1 .. TTL]
  /\ pc \in [Requests -> {"idle", "get", "query", "store", "bypass", "answer"}]
  /\ spent \in [Requests -> 0 .. Latency]
  /\ age \in [Requests -> Ages]

Init ==
  /\ entry = None
  /\ pc = [r \in Requests |-> "idle"]
  /\ spent = [r \in Requests |-> 0]
  /\ age = [r \in Requests |-> 0]

Goto(r, stage) == pc' = [pc EXCEPT ![r] = stage]

Ask(r) ==
  /\ pc[r] = "idle"
  /\ Goto(r, "get")
  /\ UNCHANGED <<entry, spent, age>>

\* Mutant: a value that is asked for is kept for longer.
AfterHitTouched == [entry EXCEPT !.left = TTL]

AfterHit == entry

Hit(r) ==
  /\ pc[r] = "get" /\ entry # None
  /\ age' = [age EXCEPT ![r] = entry.age]
  /\ entry' = AfterHit
  /\ Goto(r, "answer")
  /\ UNCHANGED spent

Miss(r) ==
  /\ pc[r] = "get" /\ entry = None
  /\ Goto(r, "query")
  /\ UNCHANGED <<entry, spent, age>>

\* The cache cannot be read: what is computed is not stored either.
Unreadable(r) ==
  /\ pc[r] = "get"
  /\ Goto(r, "bypass")
  /\ UNCHANGED <<entry, spent, age>>

\* The first query of compute(); the others take their time.
Query(r) ==
  /\ pc[r] \in {"query", "bypass"}
  /\ Goto(r, IF pc[r] = "query" THEN "store" ELSE "answer")
  /\ UNCHANGED <<entry, spent, age>>

\* A failure is logged.  A timeout of 0 does not store.
Store(r) ==
  /\ pc[r] = "store"
  /\ \/ UNCHANGED entry
     \/ entry' = IF TTL = 0 THEN None ELSE [age |-> age[r], left |-> TTL]
  /\ Goto(r, "answer")
  /\ UNCHANGED <<spent, age>>

\* Also a worker that is killed.
Answer(r) ==
  /\ pc[r] # "idle"
  /\ Goto(r, "idle")
  /\ spent' = [spent EXCEPT ![r] = 0]
  /\ age' = [age EXCEPT ![r] = 0]
  /\ UNCHANGED entry

Evict ==
  /\ entry # None
  /\ entry' = None
  /\ UNCHANGED <<pc, spent, age>>

\* A value ages from its first query on; Redis drops the key on time.
Tick ==
  /\ \A r \in Requests : pc[r] # "idle" => spent[r] < Latency
  /\ spent' = [r \in Requests |-> IF pc[r] = "idle" THEN 0 ELSE spent[r] + 1]
  /\ age' = [r \in Requests |-> IF pc[r] \in {"store", "answer"} THEN age[r] + 1 ELSE age[r]]
  /\ entry' = IF entry = None \/ entry.left = 1 THEN None
              ELSE [age |-> entry.age + 1, left |-> entry.left - 1]
  /\ UNCHANGED pc

Next ==
  \/ \E r \in Requests :
       \/ Ask(r) \/ Hit(r) \/ Miss(r) \/ Unreadable(r) \/ Query(r) \/ Store(r)
       \/ Answer(r)
  \/ Evict
  \/ Tick

Spec == Init /\ [][Next]_vars

-----------------------------------------------------------------------------
(* Properties.                                                             *)

\* How far the dashboard lags behind: what is answered was so at a moment no
\* further back than the time to live, the time in which it was computed and
\* the time in which it is answered, whoever stores late, over what, and
\* however often the section is asked for.
LagIsBounded == \A r \in Requests : pc[r] = "answer" => age[r] <= TTL + 2 * Latency

\* --- Claims that the code refutes.

\* "Dashboard data can lag up to 60 seconds behind the very latest change":
\* the 60 seconds begin when the value is stored, not when it is computed.
CachedForTheTTL == entry # None => entry.age <= TTL

\* A value is never replaced by an older one.
NeverBackInTime == [][entry # None /\ entry' # None => entry'.age <= entry.age + 1]_vars
=============================================================================
