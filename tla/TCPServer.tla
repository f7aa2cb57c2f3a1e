----------------------------- MODULE TCPServer -----------------------------
(***************************************************************************)
(* eventpp::TCPServer (src/src/tcp/tcp_server.cpp) with its Listener        *)
(* (src/src/listener.cpp): connections are accepted in the listening loop,  *)
(* attached in a loop of the pool, closed there, and removed in the         *)
(* listening loop again; Stop() waits for the last one and then stops the   *)
(* pool.  Of a TCPConn (module TCPConn) only its status_ is kept, of the    *)
(* pool (module EventLoopThreadPool) only whether it runs.                 *)
(***************************************************************************)
EXTENDS Naturals, Sequences

CONSTANTS
    Conns,          \* sockets that are accepted, each once
    PoolChoices,    \* the loops a pool may have; {} when the listening loop does the work
    Base,           \* the listening loop
    ListenResults,  \* subset of BOOLEAN: what Listener::Listen() returns
    StopOutside,    \* TRUE where a thread other than the listening loop's may call Stop()
    CheckThenClose, \* TRUE where the test and the Close() of StopInLoop are two steps
    InlineClose     \* TRUE where a connection may fail inside OnAttachedToLoop's conn_fn_

ASSUME ServerAssumption ==
    /\ Base \notin UNION PoolChoices
    /\ ListenResults \subseteq BOOLEAN
    /\ {StopOutside, CheckThenClose, InlineClose} \subseteq BOOLEAN

Loops == (UNION PoolChoices) \cup {Base}

Functors == ({"attach", "close", "remove"} \X Conns) \cup ({"accept", "stop"} \X {Base})

VARIABLES
    status,         \* status_
    substatus,      \* substatus_
    listening,      \* history: Listen() succeeded
    listener,       \* listener_: "null", "created", "accepting" (its channel is attached)
    workers,        \* the loops of tpool_, chosen with thread_num
    pool,           \* tpool_: "created", "running" or "null"
    connections,    \* the connections in connections_
    conn,           \* per connection: "none", "new", or its status_ once it was attached
    closed,         \* the connections whose channel is closed
    loopOf,         \* per connection: its loop_
    queue,          \* per loop: its pending functors, <<op, connection>>
    bpc,            \* the listening loop: "idle", "new" and "announce" (HandleNewConn), "stop"
                    \* and "sweep" (StopInLoop)
    current,        \* the connections its handler still has to see
    found,          \* the connection StopInLoop has seen connected, as a set
    lpc,            \* per loop: connections in HandleClose, before status_ = kDisconnected
    spc,            \* Stop() of an outside thread: "idle", "sub", "queue", "done"
    hasCallback,    \* stopped_cb_ is set
    callbacks,      \* history: calls of on_stopped_cb
    strained,       \* history: a connection closed while it was announced, or under StopInLoop's test
    aborted         \* an assert has failed or a null tpool_ or listener_ was used

vars == <<status, substatus, listening, listener, workers, pool, connections, conn, closed,
          loopOf, queue, bpc, current, found, lpc, spc, hasCallback, callbacks, strained, aborted>>
setup == <<listening, workers, strained>>
serverVars == <<status, substatus, pool, hasCallback, callbacks, aborted>>
sweepVars == <<bpc, current, found>>

\* The type invariant: every connection of connections_ has a loop, and the queues hold
\* only functors of the server and its connections.
TypeOK ==
    /\ status \in {"kNull", "kInitialized", "kStarting", "kRunning", "kStopping", "kStopped"}
    /\ substatus \in {"kSubStatusNull", "kStoppingListener", "kStoppingThreadPool"}
    /\ listening \in BOOLEAN /\ hasCallback \in BOOLEAN /\ aborted \in BOOLEAN
    /\ listener \in {"null", "created", "accepting"}
    /\ workers \in PoolChoices /\ pool \in {"created", "running", "null"}
    /\ connections \subseteq Conns /\ closed \subseteq Conns
    /\ conn \in [Conns -> {"none", "new", "kConnected", "kDisconnecting", "kDisconnected"}]
    /\ loopOf \in [Conns -> Loops]
    /\ queue \in [Loops -> Seq(Functors)]
    /\ bpc \in {"idle", "new", "announce", "stop", "sweep"}
    /\ current \subseteq Conns /\ found \subseteq Conns
    /\ lpc \in [Loops -> SUBSET Conns]
    /\ spc \in {"idle", "sub", "queue", "done"}
    /\ callbacks \in Nat
    /\ strained \in BOOLEAN

Init ==
    /\ status = "kNull" /\ substatus = "kSubStatusNull"
    /\ listening = FALSE /\ listener = "null"
    /\ workers \in PoolChoices /\ pool = "created"
    /\ connections = {} /\ conn = [c \in Conns |-> "none"]
    /\ closed = {} /\ loopOf = [c \in Conns |-> Base]
    /\ queue = [l \in Loops |-> <<>>]
    /\ bpc = "idle" /\ current = {} /\ found = {}
    /\ lpc = [l \in Loops |-> {}] /\ spc = "idle"
    /\ hasCallback = FALSE /\ callbacks = 0
    /\ strained = FALSE /\ aborted = FALSE

Live == ~aborted

\* Loop l is between two callbacks; a loop of the pool runs as long as the pool does.
Idle(l) ==
    /\ Live /\ lpc[l] = {}
    /\ IF l = Base THEN bpc = "idle" ELSE pool = "running"

IsNext(l, op) == Idle(l) /\ queue[l] # <<>> /\ Head(queue[l])[1] = op

Add(q, l, op, c) == [q EXCEPT ![l] = Append(@, <<op, c>>)]

-----------------------------------------------------------------------------
(* Init() and Start(), by the owner.                                       *)

\* Init(): the result of Listen() is not looked at.
InitServer(ok) ==
    /\ Live /\ status = "kNull"
    /\ listening' = ok
    /\ listener' = "created"
    /\ status' = "kInitialized"
    /\ UNCHANGED <<substatus, workers, strained, pool, connections, conn, closed, loopOf, queue, sweepVars, lpc,
                   spc, hasCallback, callbacks, aborted>>

\* Start(): tpool_->Start(true) ...
StartPool ==
    /\ Live /\ status = "kInitialized"
    /\ status' = "kStarting"
    /\ pool' = "running"
    /\ UNCHANGED <<substatus, setup, listener, connections, conn, closed, loopOf, queue, sweepVars,
                   lpc, spc, hasCallback, callbacks, aborted>>

\* Mutant: listener_->Accept() before status_ is kRunning.
AcceptFirst ==
    /\ Live /\ status = "kStarting" /\ listener = "created" /\ queue[Base] = <<>>
    /\ queue' = Add(queue, Base, "accept", Base)
    /\ UNCHANGED <<serverVars, setup, listener, connections, conn, closed, loopOf, sweepVars, lpc,
                   spc>>

\* ... then status_ is kRunning, and the listener's channel is attached in its loop.
StartAccepting ==
    /\ Live /\ status = "kStarting"
    /\ status' = "kRunning"
    /\ queue' = Add(queue, Base, "accept", Base)
    /\ UNCHANGED <<substatus, setup, listener, pool, connections, conn, closed, loopOf, sweepVars,
                   lpc, spc, hasCallback, callbacks, aborted>>

\* FdChannel::AttachToLoop of the listener.
RunAccept ==
    /\ IsNext(Base, "accept")
    /\ queue' = [queue EXCEPT ![Base] = Tail(@)]
    /\ listener' = "accepting"
    /\ UNCHANGED <<serverVars, setup, connections, conn, closed, loopOf, sweepVars, lpc, spc>>

-----------------------------------------------------------------------------
(* HandleAccept and HandleNewConn, in the listening loop.                  *)

\* HandleNewConn up to its first test; a socket that comes while the server stops is closed.
HandleAccept(c) ==
    /\ Idle(Base) /\ listener = "accepting" /\ listening
    /\ conn[c] = "none"
    /\ \/ /\ status = "kStopping"
          /\ conn' = [conn EXCEPT ![c] = "kDisconnected"]
          /\ UNCHANGED <<bpc, current>>
       \/ /\ status # "kStopping"
          /\ bpc' = "new" /\ current' = {c}
          /\ UNCHANGED conn
    /\ UNCHANGED <<serverVars, setup, listener, connections, closed, loopOf, queue, found, lpc,
                   spc>>

\* The rest of HandleNewConn, from assert(IsRunning()) on, on loop l (GetNextLoop): the
\* connection is attached through l's queue, or at once where the listening loop serves it.
\* With InlineClose conn_fn_ may there send to a peer that is gone (AnnounceFails).
HandleNewConn(l) ==
    LET c == CHOOSE x \in current : TRUE
    IN  /\ Live /\ bpc = "new"
        /\ l \in workers \/ (workers = {} /\ l = Base)
        /\ aborted' = (status # "kRunning")
        /\ loopOf' = [loopOf EXCEPT ![c] = l]
        /\ \/ /\ bpc' = "idle" /\ current' = {}
              /\ connections' = connections \cup {c}
              /\ \/ /\ l # Base
                    /\ queue' = Add(queue, l, "attach", c)
                    /\ conn' = [conn EXCEPT ![c] = "new"]
                 \/ /\ l = Base
                    /\ conn' = [conn EXCEPT ![c] = "kConnected"]
                    /\ UNCHANGED queue
              /\ UNCHANGED strained
           \/ /\ InlineClose /\ l = Base
              /\ bpc' = "announce" /\ strained' = TRUE
              /\ UNCHANGED <<current, connections, conn, queue>>
        /\ UNCHANGED <<status, substatus, listening, workers, listener, pool, closed, found, lpc, spc,
                       hasCallback, callbacks>>

\* TCPConn::OnAttachedToLoop, in the connection's loop.
RunAttach(l) ==
    /\ IsNext(l, "attach")
    /\ conn' = [conn EXCEPT ![Head(queue[l])[2]] = "kConnected"]
    /\ queue' = [queue EXCEPT ![l] = Tail(@)]
    /\ UNCHANGED <<serverVars, setup, listener, connections, closed, loopOf, sweepVars, lpc, spc>>

-----------------------------------------------------------------------------
(* Removing connections and stopping the pool, in the listening loop.      *)

\* The loops of the pool have nothing left to do: tpool_->Stop(true) and Join() return.
PoolQuiet == \A l \in workers : lpc[l] = {} /\ queue[l] = <<>>

\* StopThreadPool() with its asserts, then the callback if there is one, then kStopped.
StopThreadPool(sub, callback) ==
    /\ PoolQuiet
    /\ \/ /\ status = "kStopping" /\ sub = "kStoppingListener" /\ pool = "running"
          /\ pool' = "null"
          /\ substatus' = "kSubStatusNull"
          /\ callbacks' = IF callback THEN callbacks + 1 ELSE callbacks
          /\ hasCallback' = FALSE
          /\ status' = "kStopped"
          /\ UNCHANGED aborted
       \/ /\ status # "kStopping" \/ sub # "kStoppingListener" \/ pool # "running"
          /\ aborted' = TRUE
          /\ UNCHANGED <<status, substatus, pool, hasCallback, callbacks>>

\* RemoveConnection's test, when the connections left are these.
StopWhenLast(left) ==
    \/ /\ status = "kStopping" /\ left = {}
       /\ StopThreadPool(substatus, hasCallback)
    \/ /\ status # "kStopping" \/ left # {}
       /\ UNCHANGED serverVars

\* Mutant: a connection that is removed last stops nothing.
RemoveOnly(c) ==
    /\ connections' = connections \ {c}
    /\ UNCHANGED serverVars

\* The functor of RemoveConnection.
EraseConnection(c) ==
    /\ connections' = connections \ {c}
    /\ StopWhenLast(connections')

\* OnAttachedToLoop's conn_fn_ fails to send: HandleClose erases what is not in connections_ yet,
\* and then HandleNewConn inserts it.
AnnounceFails ==
    LET c == CHOOSE x \in current : TRUE
    IN  /\ Live /\ bpc = "announce"
        /\ bpc' = "idle" /\ current' = {}
        /\ conn' = [conn EXCEPT ![c] = "kDisconnected"]
        /\ closed' = closed \cup {c}
        /\ StopWhenLast(connections \ {c})
        /\ connections' = connections \cup {c}
        /\ UNCHANGED <<setup, listener, loopOf, queue, found, lpc, spc>>

RunRemove ==
    /\ IsNext(Base, "remove")
    /\ queue' = [queue EXCEPT ![Base] = Tail(@)]
    /\ EraseConnection(Head(queue[Base])[2])
    /\ UNCHANGED <<setup, listener, conn, closed, loopOf, sweepVars, lpc, spc>>

-----------------------------------------------------------------------------
(* Closing, in the connection's loop.                                      *)

\* TCPConn::HandleClose up to close_fn_, that is RemoveConnection: at once in the listening
\* loop, through its queue elsewhere.  A second call fails assert(event_) of FdChannel.
HandleClose(c, q) ==
    LET l == loopOf[c]
    IN  /\ conn' = [conn EXCEPT ![c] = "kDisconnecting"]
        /\ closed' = closed \cup {c}
        /\ lpc' = [lpc EXCEPT ![l] = {c}]
        /\ \/ /\ c \in closed
              /\ aborted' = TRUE
              /\ queue' = q
              /\ UNCHANGED <<connections, status, substatus, pool, hasCallback, callbacks>>
           \/ /\ c \notin closed /\ l = Base
              /\ queue' = q
              /\ EraseConnection(c)
           \/ /\ c \notin closed /\ l # Base
              /\ queue' = Add(q, Base, "remove", c)
              /\ UNCHANGED <<connections, serverVars>>

\* status_ = kDisconnected, the end of HandleClose.
CloseReturns(l) ==
    /\ Live /\ lpc[l] # {}
    /\ conn' = [c \in Conns |-> IF c \in lpc[l] THEN "kDisconnected" ELSE conn[c]]
    /\ lpc' = [lpc EXCEPT ![l] = {}]
    /\ UNCHANGED <<serverVars, setup, listener, connections, closed, loopOf, queue,
                   sweepVars, spc>>

\* The functor of TCPConn::Close.
RunClose(l) ==
    /\ IsNext(l, "close")
    /\ LET c == Head(queue[l])[2]
           q == [queue EXCEPT ![l] = Tail(@)]
       IN  \/ conn[c] # "kDisconnected" /\ HandleClose(c, q)
           \/ /\ conn[c] = "kDisconnected"
              /\ queue' = q
              /\ UNCHANGED <<serverVars, connections, conn, closed, lpc>>
    /\ UNCHANGED <<setup, listener, loopOf, sweepVars, spc>>

\* The peer closes: the read event of an attached channel.
PeerCloses(c) ==
    /\ Idle(loopOf[c])
    /\ conn[c] \in {"kConnected", "kDisconnecting"} /\ c \notin closed
    /\ HandleClose(c, queue)
    /\ UNCHANGED <<setup, listener, loopOf, sweepVars, spc>>

\* Mutant: Close() tells the owner at once, before HandleClose.
UserRemoves(c) ==
    /\ Idle(loopOf[c]) /\ conn[c] = "kConnected"
    /\ conn' = [conn EXCEPT ![c] = "kDisconnecting"]
    /\ queue' = Add(Add(queue, loopOf[c], "close", c), Base, "remove", c)
    /\ UNCHANGED <<serverVars, setup, listener, connections, closed, loopOf, sweepVars, lpc,
                   spc>>

\* TCPConn::Close by the user, in a callback of the connection's loop.
UserCloses(c) ==
    /\ Idle(loopOf[c]) /\ conn[c] = "kConnected"
    /\ conn' = [conn EXCEPT ![c] = "kDisconnecting"]
    /\ queue' = Add(queue, loopOf[c], "close", c)
    /\ UNCHANGED <<serverVars, setup, listener, connections, closed, loopOf, sweepVars, lpc,
                   spc>>

-----------------------------------------------------------------------------
(* Stop().                                                                 *)

\* In the listening loop, where RunInLoop calls StopInLoop at once.
StopInside ==
    /\ Idle(Base)
    /\ status = "kRunning" /\ listener = "accepting"
    /\ status' = "kStopping"
    /\ substatus' = "kStoppingListener"
    /\ bpc' = "stop"
    /\ UNCHANGED <<setup, listener, pool, connections, conn, closed, loopOf, queue, current,
                   found, lpc, spc, hasCallback, callbacks, aborted>>

\* In another thread: the two stores and the functor are three steps.
StopStores ==
    /\ Live /\ StopOutside /\ spc = "idle"
    /\ status = "kRunning"
    /\ status' = "kStopping"
    /\ spc' = "sub"
    /\ UNCHANGED <<substatus, setup, listener, pool, connections, conn, closed, loopOf,
                   queue, sweepVars, lpc, hasCallback, callbacks, aborted>>

StopStoresSub ==
    /\ Live /\ spc = "sub"
    /\ substatus' = "kStoppingListener"
    /\ spc' = "queue"
    /\ UNCHANGED <<status, setup, listener, pool, connections, conn, closed, loopOf,
                   queue, sweepVars, lpc, hasCallback, callbacks, aborted>>

StopQueues ==
    /\ Live /\ spc = "queue"
    /\ queue' = Add(queue, Base, "stop", Base)
    /\ spc' = "done"
    /\ UNCHANGED <<serverVars, setup, listener, connections, conn, closed, loopOf,
                   sweepVars, lpc>>

\* StopInLoop: the listener goes; without connections the pool is stopped, otherwise the
\* connections are gone through.
StopInLoop ==
    /\ \/ Live /\ bpc = "stop" /\ UNCHANGED queue
       \/ IsNext(Base, "stop") /\ queue' = [queue EXCEPT ![Base] = Tail(@)]
    /\ listener' = "null"
    /\ \/ /\ connections = {}
          /\ StopThreadPool("kStoppingListener", TRUE)
          /\ bpc' = "idle"
          /\ UNCHANGED current
       \/ /\ connections # {}
          /\ bpc' = "sweep"
          /\ current' = connections
          /\ UNCHANGED serverVars
    /\ UNCHANGED <<setup, connections, conn, closed, loopOf, found, lpc, spc>>

\* TCPConn::Close of a connection of another loop, or of this one.
Close(c) ==
    /\ conn' = [conn EXCEPT ![c] = "kDisconnecting"]
    /\ queue' = Add(queue, loopOf[c], "close", c)

\* One round of the for loop: a connection that IsConnected() is closed, another left alone.
StopConnection(c) ==
    /\ Live /\ bpc = "sweep" /\ found = {} /\ c \in current
    /\ current' = current \ {c}
    /\ \/ conn[c] # "kConnected" /\ UNCHANGED <<conn, queue, found>>
       \/ conn[c] = "kConnected" /\ ~CheckThenClose /\ Close(c) /\ UNCHANGED found
       \/ conn[c] = "kConnected" /\ CheckThenClose /\ found' = {c} /\ UNCHANGED <<conn, queue>>
    /\ UNCHANGED <<serverVars, setup, listener, connections, closed, loopOf, bpc, lpc, spc>>

CloseFound(c) ==
    /\ Live /\ c \in found
    /\ Close(c)
    /\ found' = {}
    /\ strained' = (strained \/ conn[c] # "kConnected")
    /\ UNCHANGED <<serverVars, listening, workers, listener, connections, closed, loopOf, bpc, current,
                   lpc, spc>>

\* stopped_cb_ = on_stopped_cb
StopInLoopReturns ==
    /\ Live /\ bpc = "sweep" /\ current = {} /\ found = {}
    /\ bpc' = "idle"
    /\ hasCallback' = TRUE
    /\ UNCHANGED <<status, substatus, setup, listener, pool, connections, conn, closed,
                   loopOf, queue, current, found, lpc, spc, callbacks, aborted>>

-----------------------------------------------------------------------------
BaseContinues ==
    \/ StopInLoop \/ StopInLoopReturns \/ RunAccept \/ RunRemove \/ AnnounceFails
    \/ \E c \in Conns : StopConnection(c) \/ CloseFound(c)
    \/ \E l \in Loops : HandleNewConn(l)

LoopContinues(l) == RunAttach(l) \/ RunClose(l) \/ CloseReturns(l)

StopContinues == StopStoresSub \/ StopQueues

Next ==
    \/ \E ok \in ListenResults : InitServer(ok)
    \/ StartPool \/ StartAccepting
    \/ \E c \in Conns : HandleAccept(c) \/ PeerCloses(c) \/ UserCloses(c)
    \/ StopInside \/ StopStores \/ StopContinues
    \/ BaseContinues
    \/ \E l \in Loops : LoopContinues(l)

Spec == Init /\ [][Next]_vars

\* The loops serve what is queued and finish their handlers.
FairSpec ==
    /\ Spec
    /\ WF_vars(BaseContinues) /\ WF_vars(StopContinues)
    /\ \A l \in Loops : WF_vars(LoopContinues(l))

-----------------------------------------------------------------------------
(* Properties.                                                             *)

\* The listening loop stops the server, and no connection closes while HandleNewConn announces
\* it or between the test and the Close() of StopInLoop.
Orderly == spc = "idle" /\ ~strained

\* In the orderly case the asserts of HandleNewConn, RemoveConnection, StopThreadPool and
\* FdChannel::Close hold, and no released tpool_ is used, however accepting, closing by users
\* and peers, and stopping interleave.
AssertsHold == Orderly => ~aborted

\* on_stopped_cb has been called once in a server that IsStopped(), and is called only when
\* the server is totally stopped: no connection is registered, attached or about to be, and
\* the pool's threads are gone (tcp_server.hpp:73).
CallbackWhenStopped == Orderly =>
    /\ callbacks <= 1
    /\ status = "kStopped" => callbacks = 1
    /\ callbacks > 0 => /\ connections = {} /\ pool = "null" /\ listener = "null"
                        /\ \A c \in Conns : conn[c] \notin {"new", "kConnected"}

\* connections_ is exact: it has every connection on its way in or alive, and of those that
\* are closed only the ones whose removal is on its way (tcp_server.cpp:161-162, 180-199).
ConnectionsAccounted == Orderly =>
    \A c \in Conns :
        /\ conn[c] \in {"new", "kConnected"} => c \in connections
        /\ c \in connections /\ c \in closed => \E k \in DOMAIN queue[Base] : queue[Base][k] = <<"remove", c>>

\* Whoever stops the server and whenever, a connection with an open channel is registered, so
\* that Stop() waits for it: the last removal never comes before the last close.
OpenAreRegistered ==
    \A c \in Conns :
        conn[c] \in {"new", "kConnected", "kDisconnecting"} /\ c \notin closed => c \in connections

\* What tcp_server.hpp:73 says of the callback, whoever calls Stop().
CallbackAlwaysCalled == status = "kStopped" => callbacks = 1

\* What the asserts say, whoever calls Stop() and whenever connections close.
NeverAborts == ~aborted

\* What tcp_server.cpp:114 says, "The working threads will be stopped after all the
\* connections closed", whoever calls it and whenever connections close.
StopAlwaysCompletes == status = "kStopping" ~> status = "kStopped"

\* Init() that has returned true listens ("If there is anything wrong it will return false").
InitReportsFailure == status # "kNull" => listening

\* StopInLoop has left a connection open, for which OnAttachedToLoop was still to run
\* (tcp_server.cpp:100, where "it may be doing disconnecting").
PassedOver == listener = "null" /\ bpc = "idle" /\ \E c \in Conns : conn[c] \in {"new", "kConnected"}

\* In the orderly case a Stop() leads to kStopped, since the last connection to go stops the
\* pool ("The working threads will be stopped after all the connections closed"), unless a
\* connection that StopInLoop passed over stays open for ever.
StopCompletes == <>[]PassedOver \/ (status = "kStopping" ~> (status = "kStopped" \/ ~Orderly))
=============================================================================
