\* One port is enough.
SPECIFICATION UdpSpec
CONSTANTS
  RecvThreads = {t1}
  MaxQueued = 2
  MaxPauses = 2
INVARIANT PauseKeepsThreads
CHECK_DEADLOCK FALSE
