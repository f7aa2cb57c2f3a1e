\* Two ports.
SPECIFICATION UdpSpec
CONSTANTS
  RecvThreads = {t1, t2}
  MaxQueued = 2
  MaxPauses = 2
INVARIANTS AssertsHold PausedIsQuiet
PROPERTY StopEnds
CHECK_DEADLOCK FALSE
