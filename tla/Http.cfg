\* One listening thread, a worker or none, one Request with one retry.
SPECIFICATION Spec
CONSTANTS
  Listeners = {l1}
  Workers = {w1}
  Requests = {1, 2}
  Registered = {"known", "default"}
  Answers = {200, 500}
  MaxPauses = 1
  Calls = {q1, q2}
  Caller = q1
  RetryNumber = 1
  MaxPoolSize = 1
INVARIANTS AssertsHold RepliesSent ConnExclusive TriedEnough
PROPERTIES StopReturned HandlerCalled
CHECK_DEADLOCK FALSE
