\* The same connection: its write event, the messages after the close, and the two ways to end.
CONSTANTS
    Threads = {t1}
    LoopThread = loop
    Messages = {1, 2}
    MsgLen = 2
    Space = 1
    HighWaterMark = 3
    MaxIn = 1
    Types = {"kIncoming", "kOutgoing"}
    Delays = {TRUE, FALSE}
SPECIFICATION FairSpec
INVARIANTS TypeOK NoStuckOutput
PROPERTIES NothingSentAfterDown DisconnectCompletes PeerGoneCloses
CHECK_DEADLOCK FALSE
