\* Requests while Start is not done.
SPECIFICATION Spec
CONSTANTS
  Listeners = {l1}
  Workers = {w1}
  Requests = {1, 2}
  Registered = {"known", "default"}
  Answers = {200, 500}
  MaxPauses = 1
  Calls = {q1, q2}
  Caller = q1
  RetryNumber = 1
  MaxPoolSize = 1
INVARIANT DroppedWhenStopping
CHECK_DEADLOCK FALSE
