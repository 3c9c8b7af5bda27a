-------------------------- MODULE AdminLoginThrottle --------------------------
(***************************************************************************)
(* AdminLoginThrottleMiddleware: failed attempts to sign in to Django admin *)
(* from one address, counted in the cache that all workers share.  The     *)
(* counter is read before the view runs and raised after it, with an       *)
(* atomic add, an atomic incr and, when the key has expired in between, a  *)
(* set.                                                                    *)
(***************************************************************************)
EXTENDS Naturals, FiniteSets

CONSTANTS
  Requests,               \* attempts in progress at a time
  MAX_FAILED_ATTEMPTS

ThrottleAssumption == IsFiniteSet(Requests) /\ MAX_FAILED_ATTEMPTS \in Nat \ {0}

VARIABLES
  counter,   \* the cached value, 0 without a key
  pc,
  failures   \* attempts that have failed since the key last expired or was deleted

vars == <<counter, pc, failures>>

Stages == {"idle", "view", "add", "incr", "set", "delete"}

TypeOK ==
  /\ counter \in Nat
  /\ pc \in [Requests -> Stages]
  /\ failures \in Nat

Init == counter = 0 /\ pc = [r \in Requests |-> "idle"] /\ failures = 0

Goto(r, stage) == pc' = [pc EXCEPT ![r] = stage]

\* Mutant: one attempt more.
BelowLimitInclusive == counter <= MAX_FAILED_ATTEMPTS

BelowLimit == counter < MAX_FAILED_ATTEMPTS

\* Otherwise the answer is 429, and nothing is counted.
Admit(r) ==
  /\ pc[r] = "idle"
  /\ BelowLimit
  /\ Goto(r, "view")
  /\ UNCHANGED <<counter, failures>>

\* The form again (200), a redirect, or some other answer.
Answer(r) ==
  /\ pc[r] = "view"
  /\ \E next \in {"add", "delete", "idle"} : Goto(r, next)
  /\ UNCHANGED <<counter, failures>>

Counted == failures' = failures + 1

\* _register_failure.
Add(r) ==
  /\ pc[r] = "add"
  /\ IF counter = 0
     THEN counter' = 1 /\ Counted /\ Goto(r, "idle")
     ELSE Goto(r, "incr") /\ UNCHANGED <<counter, failures>>

Incr(r) ==
  /\ pc[r] = "incr"
  /\ IF counter = 0
     THEN Goto(r, "set") /\ UNCHANGED <<counter, failures>>
     ELSE counter' = counter + 1 /\ Counted /\ Goto(r, "idle")

Set(r) ==
  /\ pc[r] = "set"
  /\ counter' = 1
  /\ Counted
  /\ Goto(r, "idle")

Delete(r) ==
  /\ pc[r] = "delete"
  /\ counter' = 0
  /\ failures' = 0
  /\ Goto(r, "idle")

\* _WINDOW_SECONDS after the key was made; incr does not prolong them.
Expire ==
  /\ counter # 0
  /\ counter' = 0
  /\ failures' = 0
  /\ UNCHANGED pc

Next ==
  \/ \E r \in Requests : Admit(r) \/ Answer(r) \/ Add(r) \/ Incr(r) \/ Set(r) \/ Delete(r)
  \/ Expire

Spec == Init /\ [][Next]_vars

-----------------------------------------------------------------------------
(* Properties.                                                             *)

\* However attempts overlap with each other and with the expiry of the key,
\* the failures of a window are bounded: n requests in progress start over at
\* most n - 1 times what others have counted meanwhile, and each time fewer
\* of them can have been admitted together with the last one below the limit.
WindowIsBounded ==
  LET n == Cardinality(Requests) IN
  failures <= n * MAX_FAILED_ATTEMPTS + (n * (n - 1)) \div 2

\* --- A claim of the repository that the code refutes.

\* "add-then-incr (not get-then-set) avoids a lost update between two
\* concurrent failed attempts": the set that follows a missed incr loses what
\* has been counted since.
NoFailureIsLost == failures = counter
=============================================================================
