\* Two Connectors, three attempts; deadlock: the client has ended, or a bound is reached.
SPECIFICATION Spec
CONSTANTS
  MaxStarts = 3
  MaxConnectors = 2
INVARIANTS AssertsHold FdsOwned NeverForgotten
PROPERTY DisconnectEnds
CHECK_DEADLOCK FALSE
