\* Two messages of two units against a socket buffer of one, and every way to close.
CONSTANTS
    Threads = {t1}
    LoopThread = loop
    Messages = {1, 2}
    MsgLen = 2
    Space = 1
    HighWaterMark = 3
    MaxIn = 1
    Types = {"kIncoming", "kOutgoing"}
    Delays = {TRUE, FALSE}
SPECIFICATION FairSpec
INVARIANTS AssertsHold StreamIntact CloseOnce
PROPERTIES OutputDrains
CHECK_DEADLOCK FALSE
