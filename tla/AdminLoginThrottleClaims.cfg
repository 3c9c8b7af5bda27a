\* Refuted: a failure that is counted next to an expiry is lost.
CONSTANTS
  Requests = {q1, q2, q3}
  MAX_FAILED_ATTEMPTS = 2
SPECIFICATION Spec
INVARIANTS
  NoFailureIsLost
