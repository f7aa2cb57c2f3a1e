--------------------------- MODULE TCPServerProofs ---------------------------
(***************************************************************************)
(* Proofs about TCPServer for any number of connections and loops.         *)
(***************************************************************************)
EXTENDS TCPServer, TLAPS

InSeq(s, x) == \E k \in 1..Len(s) : s[k] = x
Once(s, x) == \A j, k \in 1..Len(s) : s[j] = x /\ s[k] = x => j = k

\* The functor op of connection c is queued in loop l.
Queued(l, op, c) == InSeq(queue[l], <<op, c>>)

Registered(c) == c \in connections \/ c \in closed

\* A connection that has, or is about to have, an open channel is registered; it is removed
\* only after its channel has been closed.
RegisteredConn(c) ==
    /\ conn[c] \in {"new", "kConnected", "kDisconnecting"} => Registered(c)
    /\ c \in found => Registered(c)
    /\ \A l \in Loops : Queued(l, "attach", c) => Registered(c)
    /\ \A l \in Loops : Queued(l, "remove", c) => c \in closed

NewIsOne == bpc \in {"new", "announce"} => \E c \in Conns : current = {c}

RegInv == TypeOK /\ NewIsOne /\ \A c \in Conns : RegisteredConn(c)

\* The server, as long as only the listening loop stops it: its fields agree with where the
\* loop is, and the first thing Stop() undoes is the listener.
OrderlyServer ==
    /\ ~aborted
    /\ status \in {"kStarting", "kRunning", "kStopping"} => pool = "running"
    /\ status = "kStopping" => substatus = "kStoppingListener"
    /\ status = "kStopping" => bpc \in {"stop", "sweep"} \/ hasCallback
    /\ status = "kStopping" /\ bpc # "stop" => listener = "null"
    /\ status = "kStopped" => /\ connections = {} /\ pool = "null" /\ listener = "null"
                              /\ callbacks = 1
    /\ status # "kStopped" => callbacks = 0
    /\ bpc = "new" => status = "kRunning"
    /\ bpc # "announce"
    /\ bpc = "stop" => status = "kStopping"
    /\ listener = "accepting" => status \in {"kRunning", "kStopping"}
    /\ Queued(Base, "accept", Base) => status = "kRunning" /\ listener # "accepting"
    /\ Once(queue[Base], <<"accept", Base>>)
    /\ ~Queued(Base, "stop", Base)

\* A connection, when none closes while it is announced or under StopInLoop's test.
OrderlyConn(c) ==
    /\ c \in closed => \/ conn[c] = "kDisconnected"
                       \/ conn[c] = "kDisconnecting" /\ c \in lpc[loopOf[c]]
    /\ \A l \in Loops :
        /\ Queued(l, "attach", c) => conn[c] = "new" /\ loopOf[c] = l
        /\ Once(queue[l], <<"attach", c>>)
        /\ Queued(l, "close", c) => conn[c] \in {"kDisconnecting", "kDisconnected"} /\ loopOf[c] = l
        /\ c \in lpc[l] => c \in closed /\ loopOf[c] = l
    /\ bpc = "new" /\ c \in current => conn[c] = "none"
    /\ c \in connections /\ c \in closed => Queued(Base, "remove", c)

OrderlyInv == Orderly => OrderlyServer /\ \A c \in Conns : OrderlyConn(c)

-----------------------------------------------------------------------------
(* The queues.                                                             *)

\* A functor that is appended is queued, after the others.
LEMMA AppendHas ==
    ASSUME NEW F, NEW s \in Seq(F), NEW y \in F, NEW x
    PROVE  /\ InSeq(Append(s, y), x) <=> InSeq(s, x) \/ x = y
           /\ Once(s, x) /\ ~(x = y /\ InSeq(s, x)) => Once(Append(s, y), x)
<1>1. /\ Len(Append(s, y)) = Len(s) + 1 /\ Len(s) \in Nat
      /\ \A k \in 1..Len(s) : Append(s, y)[k] = s[k]
      /\ Append(s, y)[Len(s) + 1] = y
  OBVIOUS
<1>2. \A k \in 1..(Len(s) + 1) : k \in 1..Len(s) \/ k = Len(s) + 1
  BY <1>1
<1>3. \A k \in 1..Len(s) : k \in 1..(Len(s) + 1)
  BY <1>1
<1>4. Len(s) + 1 \in 1..(Len(s) + 1)
  BY <1>1
<1> QED  BY <1>1, <1>2, <1>3, <1>4, Zenon DEF InSeq, Once

\* The first functor is queued; without it the others are, and nothing else.
LEMMA TailHas ==
    ASSUME NEW F, NEW s \in Seq(F), s # <<>>, NEW x
    PROVE  /\ InSeq(s, Head(s))
           /\ InSeq(Tail(s), x) => InSeq(s, x)
           /\ InSeq(s, x) => InSeq(Tail(s), x) \/ x = Head(s)
           /\ Once(s, x) => Once(Tail(s), x)
           /\ Once(s, Head(s)) => ~InSeq(Tail(s), Head(s))
<1>1. /\ Len(Tail(s)) = Len(s) - 1 /\ Len(s) \in Nat \ {0}
      /\ \A k \in 1..(Len(s) - 1) : Tail(s)[k] = s[k + 1]
      /\ Head(s) = s[1]
  OBVIOUS
<1>2. InSeq(s, Head(s))
  BY <1>1 DEF InSeq
<1>3. InSeq(Tail(s), x) => InSeq(s, x)
  BY <1>1 DEF InSeq
<1>4. ASSUME InSeq(s, x), x # Head(s) PROVE InSeq(Tail(s), x)
  <2>1. PICK k \in 1..Len(s) : s[k] = x
    BY <1>4 DEF InSeq
  <2>2. k - 1 \in 1..(Len(s) - 1) /\ k - 1 + 1 = k
    BY <1>1, <1>4, <2>1
  <2> QED  BY <1>1, <2>1, <2>2 DEF InSeq
<1>5. ASSUME Once(s, x) PROVE Once(Tail(s), x)
  BY <1>1, <1>5 DEF Once
<1>6. Once(s, Head(s)) => ~InSeq(Tail(s), Head(s))
  BY <1>1 DEF Once, InSeq
<1> QED  BY <1>2, <1>3, <1>4, <1>5, <1>6

Queues == [Loops -> Seq(Functors)]
Statuses == {"kNull", "kInitialized", "kStarting", "kRunning", "kStopping", "kStopped"}
Substatuses == {"kSubStatusNull", "kStoppingListener", "kStoppingThreadPool"}

\* The queues r are q with f appended to the queue of l.
Appended(q, r, l, f) ==
    /\ \A x : \A m \in Loops : InSeq(r[m], x) <=> InSeq(q[m], x) \/ (m = l /\ x = f)
    /\ \A x : \A m \in Loops : Once(q[m], x) /\ ~(m = l /\ x = f /\ InSeq(q[m], x)) => Once(r[m], x)

\* What EventLoop::QueueInLoop leaves in the queues.
LEMMA Added ==
    ASSUME NEW q \in Queues, NEW l \in Loops, NEW op, NEW c, <<op, c>> \in Functors
    PROVE  Add(q, l, op, c) \in Queues /\ Appended(q, Add(q, l, op, c), l, <<op, c>>)
<1> DEFINE r == Add(q, l, op, c)
<1>1. q[l] \in Seq(Functors) /\ Append(q[l], <<op, c>>) \in Seq(Functors)
  BY DEF Queues
<1>2. r \in Queues /\ r[l] = Append(q[l], <<op, c>>) /\ \A m \in Loops : m # l => r[m] = q[m]
  BY <1>1 DEF Queues, Add
<1> HIDE DEF r
<1>3. ASSUME NEW x PROVE /\ InSeq(r[l], x) <=> InSeq(q[l], x) \/ x = <<op, c>>
                         /\ Once(q[l], x) /\ ~(x = <<op, c>> /\ InSeq(q[l], x)) => Once(r[l], x)
  BY <1>1, <1>2, AppendHas
<1>4. Appended(q, r, l, <<op, c>>)
  BY <1>2, <1>3, Zenon DEF Appended
<1> QED  BY <1>2, <1>4 DEF r

Pop(q, l) == [q EXCEPT ![l] = Tail(@)]

\* The queues r are q without the first functor h of the queue of l.
Shortened(q, r, l, h) ==
    /\ InSeq(q[l], h)
    /\ \A x : \A m \in Loops : InSeq(r[m], x) => InSeq(q[m], x)
    /\ \A x : \A m \in Loops : InSeq(q[m], x) => InSeq(r[m], x) \/ x = h
    /\ \A x : \A m \in Loops : Once(q[m], x) => Once(r[m], x)
    /\ Once(q[l], h) => ~InSeq(r[l], h)

\* What the loop leaves in the queues when it takes a functor out of its own.
LEMMA Popped ==
    ASSUME NEW q \in Queues, NEW l \in Loops, q[l] # <<>>
    PROVE  /\ Pop(q, l) \in Queues /\ Head(q[l]) \in Functors
           /\ Shortened(q, Pop(q, l), l, Head(q[l]))
<1> DEFINE r == Pop(q, l)
<1>1. q[l] \in Seq(Functors) /\ Tail(q[l]) \in Seq(Functors) /\ Head(q[l]) \in Functors
  BY DEF Queues
<1>2. r \in Queues /\ r[l] = Tail(q[l]) /\ \A m \in Loops : m # l => r[m] = q[m]
  BY <1>1 DEF Queues, Pop
<1> HIDE DEF r
<1>3. ASSUME NEW x PROVE /\ InSeq(q[l], Head(q[l]))
                         /\ InSeq(r[l], x) => InSeq(q[l], x)
                         /\ InSeq(q[l], x) => InSeq(r[l], x) \/ x = Head(q[l])
                         /\ Once(q[l], x) => Once(r[l], x)
                         /\ Once(q[l], Head(q[l])) => ~InSeq(r[l], Head(q[l]))
  BY <1>1, <1>2, TailHas
<1>4. Shortened(q, r, l, Head(q[l]))
  BY <1>2, <1>3, Zenon DEF Shortened
<1> QED  BY <1>1, <1>2, <1>4 DEF r

-----------------------------------------------------------------------------
(* Types.                                                                  *)

\* The loops and functors there are.
LEMMA Basics ==
    /\ Base \in Loops
    /\ <<"accept", Base>> \in Functors /\ <<"stop", Base>> \in Functors
    /\ \A c \in Conns : <<"attach", c>> \in Functors /\ <<"close", c>> \in Functors
                           /\ <<"remove", c>> \in Functors
<1>1. Base \in Loops
  BY Zenon DEF Loops
<1> QED  BY <1>1 DEF Functors

\* The functors of connections carry one.
LEMMA NextFunctor ==
    ASSUME TypeOK, NEW l \in Loops, NEW op \in {"attach", "close", "remove"}, IsNext(l, op)
    PROVE  \E c \in Conns : Head(queue[l]) = <<op, c>> /\ Head(queue[l])[2] = c
<1>1. Head(queue[l]) \in Functors
  BY Popped DEF IsNext, TypeOK, Queues
<1> QED  BY <1>1 DEF Functors, IsNext

\* The queues a loop leaves when it runs its first functor.
LEMMA PopType ==
    ASSUME TypeOK, NEW l \in Loops, NEW op, IsNext(l, op)
    PROVE  [queue EXCEPT ![l] = Tail(@)] \in [Loops -> Seq(Functors)]
BY Popped DEF IsNext, TypeOK, Queues, Pop

\* StopThreadPool() and EraseConnection() keep the types of what they change.
LEMMA LastType ==
    ASSUME TypeOK, NEW left, StopWhenLast(left)
    PROVE  /\ status' \in Statuses /\ substatus' \in Substatuses
           /\ pool' \in {"created", "running", "null"} /\ hasCallback' \in BOOLEAN
           /\ aborted' \in BOOLEAN /\ callbacks' \in Nat
<1>1. CASE UNCHANGED serverVars
  BY <1>1 DEF serverVars, TypeOK, Statuses, Substatuses
<1>2. CASE StopThreadPool(substatus, hasCallback)
  <2>1. hasCallback' \in BOOLEAN /\ aborted' \in BOOLEAN
    BY <1>2, Zenon DEF StopThreadPool, TypeOK
  <2> QED  BY <1>2, <2>1 DEF StopThreadPool, TypeOK, Statuses, Substatuses
<1> QED  BY <1>1, <1>2, Zenon DEF StopWhenLast

LEMMA EraseType ==
    ASSUME TypeOK, NEW c, EraseConnection(c)
    PROVE  /\ connections' \subseteq Conns /\ status' \in Statuses /\ substatus' \in Substatuses
           /\ pool' \in {"created", "running", "null"} /\ hasCallback' \in BOOLEAN
           /\ aborted' \in BOOLEAN /\ callbacks' \in Nat
<1>1. connections' \subseteq Conns /\ StopWhenLast(connections')
  BY DEF EraseConnection, TypeOK
<1> QED  BY <1>1, LastType, Zenon

LEMMA CloseType ==
    ASSUME TypeOK, NEW c \in Conns, NEW q \in Queues, HandleClose(c, q),
           UNCHANGED <<setup, listener, loopOf, sweepVars, spc>>
    PROVE  TypeOK'
<1>1. conn' \in [Conns -> {"none", "new", "kConnected", "kDisconnecting", "kDisconnected"}]
  BY DEF HandleClose, TypeOK
<1>2. closed' \subseteq Conns
  BY DEF HandleClose, TypeOK
<1>3. loopOf[c] \in Loops
  BY DEF TypeOK
<1>4. lpc' \in [Loops -> SUBSET Conns]
  BY <1>3 DEF HandleClose, TypeOK
<1>5. Add(q, Base, "remove", c) \in Queues
  BY Added, Basics, Zenon
<1>6. queue' \in [Loops -> Seq(Functors)]
  BY <1>5 DEF HandleClose, Queues
<1>7. /\ connections' \subseteq Conns /\ status' \in Statuses /\ substatus' \in Substatuses
      /\ pool' \in {"created", "running", "null"} /\ hasCallback' \in BOOLEAN
      /\ aborted' \in BOOLEAN /\ callbacks' \in Nat
  <2>1. CASE EraseConnection(c)
    BY <2>1, EraseType
  <2>2. CASE UNCHANGED <<connections, serverVars>>
    BY <2>2 DEF serverVars, TypeOK, Statuses, Substatuses
  <2>3. CASE aborted' = TRUE /\ UNCHANGED <<connections, status, substatus, pool, hasCallback, callbacks>>
    BY <2>3 DEF TypeOK, Statuses, Substatuses
  <2> QED  BY <2>1, <2>2, <2>3, Zenon DEF HandleClose
<1> QED  BY <1>1, <1>2, <1>4, <1>6, <1>7 DEF TypeOK, setup, sweepVars, Statuses, Substatuses

\* Init() and Start() keep the type invariant.
LEMMA StartTypeOK ==
    ASSUME TypeOK, \/ \E ok \in ListenResults : InitServer(ok)
                   \/ StartPool \/ StartAccepting \/ RunAccept
    PROVE  TypeOK'
<1>0. Base \in Loops /\ <<"accept", Base>> \in Functors
  BY Basics
<1>1. ASSUME NEW ok \in ListenResults, InitServer(ok) PROVE TypeOK'
  BY <1>1, ServerAssumption DEF InitServer, TypeOK, sweepVars
<1>2. CASE StartPool
  BY <1>2 DEF StartPool, TypeOK, sweepVars, setup
<1>3. CASE StartAccepting
  <2>1. queue' \in [Loops -> Seq(Functors)]
    BY <1>0, <1>3, Added DEF StartAccepting, TypeOK, Queues
  <2> QED  BY <1>3, <2>1 DEF StartAccepting, TypeOK, sweepVars, setup
<1>4. CASE RunAccept
  <2>1. queue' \in [Loops -> Seq(Functors)]
    BY <1>0, <1>4, PopType DEF RunAccept
  <2> QED  BY <1>4, <2>1 DEF RunAccept, TypeOK, sweepVars, setup, serverVars
<1> QED  BY <1>1, <1>2, <1>3, <1>4

\* Accepting and closing connections keeps the type invariant.
LEMMA ConnTypeOK ==
    ASSUME TypeOK, NewIsOne,
           \/ \E c \in Conns : HandleAccept(c) \/ PeerCloses(c) \/ UserCloses(c)
           \/ \E l \in Loops : HandleNewConn(l) \/ LoopContinues(l)
           \/ RunRemove \/ AnnounceFails
    PROVE  TypeOK'
<1>1. ASSUME NEW c \in Conns, HandleAccept(c) PROVE TypeOK'
  <2>1. conn' \in [Conns -> {"none", "new", "kConnected", "kDisconnecting", "kDisconnected"}]
    BY <1>1, Zenon DEF HandleAccept, TypeOK
  <2>2. bpc' \in {"idle", "new", "announce", "stop", "sweep"} /\ current' \subseteq Conns
    BY <1>1, Zenon DEF HandleAccept, TypeOK
  <2> QED  BY <1>1, <2>1, <2>2 DEF HandleAccept, TypeOK, setup, serverVars
<1>2. ASSUME NEW c \in Conns, PeerCloses(c) PROVE TypeOK'
  BY <1>2, CloseType DEF PeerCloses, TypeOK, Queues
<1>3. ASSUME NEW c \in Conns, UserCloses(c) PROVE TypeOK'
  <2>1. queue' \in [Loops -> Seq(Functors)]
    BY <1>3, Added, Basics, Zenon DEF UserCloses, TypeOK, Queues
  <2>2. conn' \in [Conns -> {"none", "new", "kConnected", "kDisconnecting", "kDisconnected"}]
    BY <1>3 DEF UserCloses, TypeOK
  <2> QED  BY <1>3, <2>1, <2>2 DEF UserCloses, TypeOK, sweepVars, setup, serverVars
<1>4. ASSUME NEW l \in Loops, HandleNewConn(l) PROVE TypeOK'
  <2>1. PICK c \in Conns : current = {c}
    BY <1>4 DEF HandleNewConn, NewIsOne
  <2>2. (CHOOSE x \in current : TRUE) = c
    BY <2>1
  <2>3. Add(queue, l, "attach", c) \in [Loops -> Seq(Functors)]
    BY Added, Basics, Zenon DEF TypeOK, Queues
  <2>4. queue' \in [Loops -> Seq(Functors)]
    BY <1>4, <2>2, <2>3, Zenon DEF HandleNewConn, TypeOK
  <2>5. conn' \in [Conns -> {"none", "new", "kConnected", "kDisconnecting", "kDisconnected"}]
    BY <1>4, <2>2, Zenon DEF HandleNewConn, TypeOK
  <2>6. connections' \subseteq Conns /\ closed' \subseteq Conns /\ loopOf' \in [Conns -> Loops]
    BY <1>4, <2>2, Zenon DEF HandleNewConn, TypeOK
  <2>7. strained' \in BOOLEAN /\ aborted' \in BOOLEAN
    BY <1>4, Zenon DEF HandleNewConn, TypeOK
  <2>8. bpc' \in {"idle", "new", "announce", "stop", "sweep"} /\ current' \subseteq Conns
    BY <1>4, Zenon DEF HandleNewConn, TypeOK
  <2> QED  BY <1>4, <2>4, <2>5, <2>6, <2>7, <2>8 DEF HandleNewConn, TypeOK
<1>5. ASSUME NEW l \in Loops, RunAttach(l) PROVE TypeOK'
  <2>1. queue' \in [Loops -> Seq(Functors)]
    BY <1>5, PopType DEF RunAttach
  <2>2. conn' \in [Conns -> {"none", "new", "kConnected", "kDisconnecting", "kDisconnected"}]
    BY <1>5, Zenon DEF RunAttach, TypeOK
  <2> QED  BY <1>5, <2>1, <2>2 DEF RunAttach, TypeOK, sweepVars, setup, serverVars
<1>6. ASSUME NEW l \in Loops, RunClose(l) PROVE TypeOK'
  <2>1. PICK c \in Conns : Head(queue[l])[2] = c
    BY <1>6, NextFunctor DEF RunClose
  <2>2. [queue EXCEPT ![l] = Tail(@)] \in [Loops -> Seq(Functors)]
    BY <1>6, PopType DEF RunClose
  <2>3. CASE HandleClose(c, [queue EXCEPT ![l] = Tail(@)])
    BY <1>6, <2>2, <2>3, CloseType, Zenon DEF RunClose, Queues
  <2>4. CASE /\ queue' = [queue EXCEPT ![l] = Tail(@)]
             /\ UNCHANGED <<serverVars, connections, conn, closed, lpc>>
    BY <1>6, <2>2, <2>4, SMTT(20) DEF RunClose, TypeOK, sweepVars, setup, serverVars
  <2> QED  BY <1>6, <2>1, <2>3, <2>4, Zenon DEF RunClose
<1>7. ASSUME NEW l \in Loops, CloseReturns(l) PROVE TypeOK'
  BY <1>7 DEF CloseReturns, TypeOK, sweepVars, setup, serverVars
<1>8. CASE RunRemove
  <2>1. queue' \in [Loops -> Seq(Functors)]
    BY <1>8, PopType, Basics DEF RunRemove
  <2>2. EraseConnection(Head(queue[Base])[2])
    BY <1>8 DEF RunRemove
  <2> QED  BY <1>8, <2>1, <2>2, EraseType DEF RunRemove, TypeOK, sweepVars, setup, Statuses,
     Substatuses
<1>9. CASE AnnounceFails
  <2>1. PICK c \in Conns : current = {c} /\ (CHOOSE x \in current : TRUE) = c
    BY <1>9 DEF AnnounceFails, NewIsOne
  <2>2. conn' \in [Conns -> {"none", "new", "kConnected", "kDisconnecting", "kDisconnected"}]
    BY <1>9, <2>1, Zenon DEF AnnounceFails, TypeOK
  <2>3. connections' \subseteq Conns /\ closed' \subseteq Conns
    BY <1>9, <2>1, Zenon DEF AnnounceFails, TypeOK
  <2>4. StopWhenLast(connections \ {c})
    BY <1>9, <2>1, Zenon DEF AnnounceFails
  <2>5. /\ UNCHANGED <<setup, listener, loopOf, queue, found, lpc, spc>>
        /\ bpc' = "idle" /\ current' = {}
    BY <1>9, Zenon DEF AnnounceFails
  <2> QED  BY <2>2, <2>3, <2>4, <2>5, LastType DEF TypeOK, setup, Statuses, Substatuses
<1> QED  BY <1>1, <1>2, <1>3, <1>4, <1>5, <1>6, <1>7, <1>8, <1>9 DEF LoopContinues

\* Stopping the server keeps the type invariant.
LEMMA StopTypeOK ==
    ASSUME TypeOK, \/ StopInside \/ StopStores \/ StopContinues \/ StopInLoop \/ StopInLoopReturns
                   \/ \E c \in Conns : StopConnection(c) \/ CloseFound(c)
    PROVE  TypeOK'
<1>0. Base \in Loops /\ <<"stop", Base>> \in Functors
  BY Basics
<1>1. CASE StopInside
  BY <1>1 DEF StopInside, TypeOK, setup
<1>2. CASE StopStores
  BY <1>2 DEF StopStores, TypeOK, setup, sweepVars
<1>3. CASE StopStoresSub
  BY <1>3 DEF StopStoresSub, TypeOK, setup, sweepVars
<1>4. CASE StopQueues
  <2>1. queue' \in [Loops -> Seq(Functors)]
    BY <1>0, <1>4, Added, Zenon DEF StopQueues, TypeOK, Queues
  <2> QED  BY <1>4, <2>1 DEF StopQueues, TypeOK, setup, sweepVars, serverVars
<1>5. CASE StopInLoop
  <2>1. queue' \in [Loops -> Seq(Functors)]
    BY <1>0, <1>5, PopType, Zenon DEF StopInLoop, TypeOK
  <2>2. CASE UNCHANGED serverVars
    <3>1. bpc' \in {"idle", "new", "announce", "stop", "sweep"} /\ current' \subseteq Conns
      BY <1>5, Zenon DEF StopInLoop, TypeOK
    <3>2. listener' \in {"null", "created", "accepting"} /\ listening' = listening
      BY <1>5 DEF StopInLoop, setup
    <3>3. UNCHANGED <<setup, connections, conn, closed, loopOf, found, lpc, spc>>
      BY <1>5 DEF StopInLoop
    <3> QED  BY <2>1, <2>2, <3>1, <3>2, <3>3 DEF TypeOK, setup, serverVars
  <2>3. CASE StopThreadPool("kStoppingListener", TRUE)
    <3>1. hasCallback' \in BOOLEAN /\ aborted' \in BOOLEAN
      BY <2>3, Zenon DEF StopThreadPool, TypeOK
    <3> QED  BY <1>5, <2>1, <2>3, <3>1 DEF StopInLoop, StopThreadPool, TypeOK, setup, serverVars
  <2> QED  BY <1>5, <2>2, <2>3, Zenon DEF StopInLoop
<1>6. CASE StopInLoopReturns
  BY <1>6 DEF StopInLoopReturns, TypeOK, setup
<1>7. ASSUME NEW c \in Conns, Close(c) PROVE /\ queue' \in [Loops -> Seq(Functors)]
        /\ conn' \in [Conns -> {"none", "new", "kConnected", "kDisconnecting", "kDisconnected"}]
  <2>1. queue' \in [Loops -> Seq(Functors)]
    BY <1>7, Added, Basics, Zenon DEF Close, TypeOK, Queues
  <2> QED  BY <1>7, <2>1 DEF Close, TypeOK
<1>8. ASSUME NEW c \in Conns, StopConnection(c) PROVE TypeOK'
  <2>1. CASE Close(c)
    BY <1>7, <1>8, <2>1 DEF StopConnection, TypeOK, setup, serverVars
  <2>2. CASE UNCHANGED <<conn, queue>>
    BY <1>8, <2>2 DEF StopConnection, TypeOK, setup, serverVars
  <2> QED  BY <1>8, <2>1, <2>2 DEF StopConnection
<1>9. ASSUME NEW c \in Conns, CloseFound(c) PROVE TypeOK'
  <2>1. strained' \in BOOLEAN
    BY <1>9 DEF CloseFound, TypeOK
  <2> QED  BY <1>7, <1>9, <2>1 DEF CloseFound, TypeOK, serverVars
<1> QED  BY <1>1, <1>2, <1>3, <1>4, <1>5, <1>6, <1>8, <1>9 DEF StopContinues

-----------------------------------------------------------------------------
(* Every open connection is registered, whoever stops the server.          *)

Statics == <<connections, conn, closed, found>>

\* No functor of d is new but those that only close it.
FewerFunctors(d) ==
    \A l \in Loops, op \in {"attach", "remove"} : Queued(l, op, d)' => Queued(l, op, d)

\* A step that leaves the connections alone and queues nothing of them.
LEMMA StaticsReg ==
    ASSUME NEW d \in Conns, RegisteredConn(d), UNCHANGED Statics, FewerFunctors(d)
    PROVE  RegisteredConn(d)'
BY Zenon DEF RegisteredConn, Registered, Statics, FewerFunctors

\* HandleClose() leaves every open connection registered: it removes the one it closes.
LEMMA CloseReg ==
    ASSUME RegInv, NEW c \in Conns, NEW q \in Queues, HandleClose(c, q), found' = found,
           \A x : \A m \in Loops : InSeq(q[m], x) => InSeq(queue[m], x),
           NEW d \in Conns
    PROVE  RegisteredConn(d)'
<1>1. \A e \in Conns : RegisteredConn(e)
  BY DEF RegInv
<1>2. conn'[d] = (IF d = c THEN "kDisconnecting" ELSE conn[d]) /\ closed' = closed \cup {c}
  BY Zenon DEF HandleClose, RegInv, TypeOK
<1>3. connections' = connections \/ connections' = connections \ {c}
  BY Zenon DEF HandleClose, EraseConnection
<1>4. /\ \A m \in Loops : Queued(m, "attach", d)' => Queued(m, "attach", d)
      /\ \A m \in Loops : Queued(m, "remove", d)' => Queued(m, "remove", d) \/ d = c
  <2>1. CASE queue' = q
    BY <2>1 DEF Queued
  <2>2. CASE queue' = Add(q, Base, "remove", c)
    <3>1. \A x : \A m \in Loops : InSeq(queue'[m], x) => InSeq(q[m], x) \/ x = <<"remove", c>>
      <4>1. <<"remove", c>> \in Functors /\ Base \in Loops
        BY Basics, Zenon
      <4>2. Appended(q, queue', Base, <<"remove", c>>)
        BY <2>2, <4>1, Added, Zenon
      <4> QED  BY <4>2 DEF Appended
    <3>2. <<"attach", d>> # <<"remove", c>> /\ (<<"remove", d>> = <<"remove", c>> => d = c)
      OBVIOUS
    <3> QED  BY <3>1, <3>2, Zenon DEF Queued
  <2> QED  BY <2>1, <2>2, Zenon DEF HandleClose
<1> QED  BY <1>1, <1>2, <1>3, <1>4, Zenon DEF RegisteredConn, Registered

\* Close() queues only the functor that closes.
LEMMA CloseFunctors ==
    ASSUME TypeOK, NEW c \in Conns, queue' = Add(queue, loopOf[c], "close", c), NEW d \in Conns
    PROVE  FewerFunctors(d)
<1>1. \A x : \A m \in Loops : InSeq(queue'[m], x) => InSeq(queue[m], x) \/ x = <<"close", c>>
  <2>1. <<"close", c>> \in Functors /\ loopOf[c] \in Loops /\ queue \in Queues
    BY Basics, Zenon DEF TypeOK, Queues
  <2>2. Appended(queue, queue', loopOf[c], <<"close", c>>)
    BY <2>1, Added, Zenon
  <2> QED  BY <2>2 DEF Appended
<1>2. <<"attach", d>> # <<"close", c>> /\ <<"remove", d>> # <<"close", c>>
  OBVIOUS
<1> QED  BY <1>1, <1>2 DEF FewerFunctors, Queued

\* Taking a functor out of a queue adds none.
LEMMA PopFunctors ==
    ASSUME TypeOK, NEW l \in Loops, NEW op, IsNext(l, op)
    PROVE  Shortened(queue, [queue EXCEPT ![l] = Tail(@)], l, Head(queue[l]))
<1>1. queue \in Queues /\ queue[l] # <<>>
  BY DEF IsNext, TypeOK, Queues
<1> QED  BY <1>1, Popped, Zenon DEF Pop

\* Starting and stopping leave the registrations.
LEMMA OwnerReg ==
    ASSUME RegInv,
           \/ \E ok \in ListenResults : InitServer(ok)
           \/ StartPool \/ StartAccepting \/ RunAccept
           \/ StopInside \/ StopStores \/ StopContinues \/ StopInLoop \/ StopInLoopReturns,
           NEW d \in Conns
    PROVE  RegisteredConn(d)'
<1> USE DEF RegInv
<1>1. UNCHANGED Statics
  BY Zenon DEF InitServer, StartPool, StartAccepting, RunAccept, StopInside, StopStores,
     StopContinues,
         StopStoresSub, StopQueues, StopInLoop, StopInLoopReturns, Statics, sweepVars
<1>2. FewerFunctors(d)
  <2>1. CASE UNCHANGED queue
    BY <2>1 DEF FewerFunctors, Queued
  <2>2. CASE \E op \in {"accept", "stop"} : queue' = Add(queue, Base, op, Base)
    <3>1. PICK op \in {"accept", "stop"} : queue' = Add(queue, Base, op, Base)
      BY <2>2
    <3>2. \A x : \A m \in Loops : InSeq(queue'[m], x) => InSeq(queue[m], x) \/ x = <<op, Base>>
      <4>1. <<op, Base>> \in Functors /\ Base \in Loops /\ queue \in Queues
        BY Basics, Zenon DEF TypeOK, Queues
      <4>2. Appended(queue, queue', Base, <<op, Base>>)
        BY <3>1, <4>1, Added, Zenon
      <4> QED  BY <4>2 DEF Appended
    <3>3. <<"attach", d>> # <<op, Base>> /\ <<"remove", d>> # <<op, Base>>
      OBVIOUS
    <3> QED  BY <3>2, <3>3 DEF FewerFunctors, Queued
  <2>3. CASE \E op : IsNext(Base, op) /\ queue' = [queue EXCEPT ![Base] = Tail(@)]
    <3>1. Shortened(queue, queue', Base, Head(queue[Base]))
      BY <2>3, PopFunctors, Basics, Zenon
    <3> QED  BY <3>1 DEF Shortened, FewerFunctors, Queued
  <2> QED  BY <2>1, <2>2, <2>3, Zenon DEF InitServer, StartPool, StartAccepting, RunAccept,
     StopInside,
              StopStores, StopContinues, StopStoresSub, StopQueues, StopInLoop, StopInLoopReturns
<1> QED  BY <1>1, <1>2, StaticsReg, Zenon

\* Accepting, attaching, closing and removing connections leaves the open ones registered.
LEMMA ConnReg ==
    ASSUME RegInv,
           \/ \E c \in Conns : \/ HandleAccept(c) \/ PeerCloses(c) \/ UserCloses(c)
                                \/ StopConnection(c) \/ CloseFound(c)
           \/ \E l \in Loops : HandleNewConn(l) \/ LoopContinues(l)
           \/ RunRemove \/ AnnounceFails,
           NEW d \in Conns
    PROVE  RegisteredConn(d)'
<1> DEFINE Goal == RegisteredConn(d)'
<1>0. /\ TypeOK /\ RegisteredConn(d)
      /\ conn \in [Conns -> {"none", "new", "kConnected", "kDisconnecting", "kDisconnected"}]
  BY DEF RegInv, TypeOK
<1>1. ASSUME NEW c \in Conns, HandleAccept(c) PROVE Goal
  BY <1>0, <1>1 DEF HandleAccept, RegisteredConn, Registered, Queued
<1>2. ASSUME NEW c \in Conns, PeerCloses(c) PROVE Goal
  BY <1>0, <1>2, CloseReg, Zenon DEF PeerCloses, sweepVars, TypeOK, Queues
<1>3. ASSUME NEW c \in Conns, UserCloses(c) PROVE Goal
  <2>1. FewerFunctors(d)
    BY <1>0, <1>3, CloseFunctors DEF UserCloses
  <2> QED  BY <1>0, <1>3, <2>1 DEF UserCloses, FewerFunctors, RegisteredConn, Registered, sweepVars
<1>4. ASSUME NEW c \in Conns, StopConnection(c) PROVE Goal
  <2>1. FewerFunctors(d)
    <3>1. CASE UNCHANGED queue
      BY <3>1 DEF FewerFunctors, Queued
    <3>2. CASE Close(c)
      BY <1>0, <3>2, CloseFunctors DEF Close
    <3> QED  BY <1>4, <3>1, <3>2 DEF StopConnection
  <2>2. RegisteredConn(c)
    BY DEF RegInv
  <2>3. (d \in found') => d \in found \/ (d = c /\ conn[c] = "kConnected")
    BY <1>4 DEF StopConnection
  <2>4. conn'[d] = conn[d] \/ conn[d] = "kConnected"
    BY <1>0, <1>4 DEF StopConnection, Close
  <2>5. UNCHANGED <<connections, closed>>
    BY <1>4 DEF StopConnection
  <2> QED  BY <1>0, <2>1, <2>2, <2>3, <2>4, <2>5 DEF FewerFunctors, RegisteredConn, Registered
<1>5. ASSUME NEW c \in Conns, CloseFound(c) PROVE Goal
  <2>1. FewerFunctors(d)
    BY <1>0, <1>5, CloseFunctors, Zenon DEF CloseFound, Close
  <2> QED  BY <1>0, <1>5, <2>1 DEF CloseFound, Close, FewerFunctors, RegisteredConn, Registered
<1>6. ASSUME NEW l \in Loops, HandleNewConn(l) PROVE Goal
  <2>1. PICK c \in Conns : current = {c}
    BY <1>6 DEF HandleNewConn, RegInv, NewIsOne
  <2>2. (CHOOSE x \in current : TRUE) = c
    BY <2>1
  <2>3. /\ connections' = connections \cup {c} \/ UNCHANGED <<connections, conn, queue>>
        /\ closed' = closed /\ found' = found
    BY <1>6, <2>2, Zenon DEF HandleNewConn
  <2>4. d # c => conn'[d] = conn[d]
    BY <1>0, <1>6, <2>2, Zenon DEF HandleNewConn
  <2>5. \A x : \A m \in Loops : InSeq(queue'[m], x) => InSeq(queue[m], x) \/ x = <<"attach", c>>
    <3>1. queue' = queue \/ queue' = Add(queue, l, "attach", c)
      BY <1>6, <2>2, Zenon DEF HandleNewConn
    <3>2. <<"attach", c>> \in Functors /\ queue \in Queues
      BY <1>0, Basics, Zenon DEF TypeOK, Queues
    <3>3. CASE queue' = Add(queue, l, "attach", c)
      <4>1. Appended(queue, queue', l, <<"attach", c>>)
        BY <3>2, <3>3, Added, Zenon
      <4> QED  BY <4>1 DEF Appended
    <3> QED  BY <3>1, <3>3
  <2>6. <<"remove", d>> # <<"attach", c>> /\ (<<"attach", d>> = <<"attach", c>> => d = c)
    OBVIOUS
  <2>7. CASE UNCHANGED <<connections, conn, queue>>
    BY <1>0, <2>3, <2>7, Zenon DEF RegisteredConn, Registered, Queued
  <2>8. CASE connections' = connections \cup {c}
    BY <1>0, <2>3, <2>4, <2>5, <2>6, <2>8, Zenon DEF RegisteredConn, Registered, Queued
  <2> QED  BY <2>3, <2>7, <2>8, Zenon
<1>7. ASSUME NEW l \in Loops, RunAttach(l) PROVE Goal
  <2>1. PICK c \in Conns : Head(queue[l]) = <<"attach", c>> /\ Head(queue[l])[2] = c
    BY <1>0, <1>7, NextFunctor, Zenon DEF RunAttach
  <2>2. Shortened(queue, queue', l, Head(queue[l]))
    BY <1>0, <1>7, PopFunctors, Zenon DEF RunAttach
  <2>3. Queued(l, "attach", c)
    BY <2>1, <2>2 DEF Shortened, Queued
  <2>4. FewerFunctors(d)
    BY <2>2 DEF Shortened, FewerFunctors, Queued
  <2>5. d # c => conn'[d] = conn[d]
    BY <1>0, <1>7, <2>1 DEF RunAttach
  <2>6. UNCHANGED <<connections, closed, found>>
    BY <1>7 DEF RunAttach, sweepVars
  <2> QED  BY <1>0, <2>3, <2>4, <2>5, <2>6 DEF RegisteredConn, Registered, FewerFunctors
<1>8. ASSUME NEW l \in Loops, RunClose(l) PROVE Goal
  <2> DEFINE q == [queue EXCEPT ![l] = Tail(@)]
  <2>1. PICK c \in Conns : Head(queue[l])[2] = c
    BY <1>0, <1>8, NextFunctor, Zenon DEF RunClose
  <2>2. q \in Queues /\ \A x : \A m \in Loops : InSeq(q[m], x) => InSeq(queue[m], x)
    <3>1. q \in Queues
      BY <1>0, <1>8, PopType DEF RunClose, Queues
    <3>2. Shortened(queue, q, l, Head(queue[l]))
      BY <1>0, <1>8, PopFunctors, Zenon DEF RunClose
    <3> HIDE DEF q
    <3> QED  BY <3>1, <3>2 DEF Shortened
  <2>3. found' = found
    BY <1>8, Zenon DEF RunClose, sweepVars
  <2>4. CASE HandleClose(c, q)
    <3> HIDE DEF q
    <3> QED  BY <2>2, <2>3, <2>4, CloseReg, Zenon
  <2>5. CASE queue' = q /\ UNCHANGED <<connections, conn, closed>>
    <3> HIDE DEF q
    <3> QED  BY <1>0, <2>2, <2>3, <2>5, StaticsReg, Zenon DEF Statics, FewerFunctors, Queued
  <2> QED  BY <1>8, <2>1, <2>4, <2>5, Zenon DEF RunClose
<1>9. ASSUME NEW l \in Loops, CloseReturns(l) PROVE Goal
  BY <1>0, <1>9 DEF CloseReturns, RegisteredConn, Registered, Queued, sweepVars
<1>10. CASE RunRemove
  <2>1. PICK c \in Conns : Head(queue[Base]) = <<"remove", c>> /\ Head(queue[Base])[2] = c
    BY <1>0, <1>10, NextFunctor, Basics, Zenon DEF RunRemove
  <2>2. Shortened(queue, queue', Base, Head(queue[Base]))
    BY <1>0, <1>10, PopFunctors, Basics, Zenon DEF RunRemove
  <2>3. c \in closed
    <3>1. Queued(Base, "remove", c)
      BY <2>1, <2>2 DEF Shortened, Queued
    <3> QED  BY <3>1, Basics, Zenon DEF RegInv, RegisteredConn
  <2>4. FewerFunctors(d)
    BY <2>2 DEF Shortened, FewerFunctors, Queued
  <2>5. connections' = connections \ {c} /\ UNCHANGED <<conn, closed, found>>
    BY <1>10, <2>1 DEF RunRemove, EraseConnection, sweepVars
  <2> QED  BY <1>0, <2>3, <2>4, <2>5, SMTT(20) DEF RegisteredConn, Registered, FewerFunctors
<1>11. CASE AnnounceFails
  <2>1. PICK c \in Conns : current = {c} /\ (CHOOSE x \in current : TRUE) = c
    BY <1>11 DEF AnnounceFails, RegInv, NewIsOne
  <2>2. /\ connections' = connections \cup {c} /\ closed' = closed \cup {c}
        /\ conn' = [conn EXCEPT ![c] = "kDisconnected"] /\ UNCHANGED <<queue, found>>
    BY <1>11, <2>1, Zenon DEF AnnounceFails
  <2>3. d # c => conn'[d] = conn[d]
    BY <1>0, <2>2, Zenon
  <2> QED  BY <1>0, <2>2, <2>3, Zenon DEF RegisteredConn, Registered, Queued
<1> QED  BY <1>1, <1>2, <1>3, <1>4, <1>5, <1>6, <1>7, <1>8, <1>9, <1>10, <1>11 DEF LoopContinues

\* HandleNewConn() is about one connection.
LEMMA NewStaysOne ==
    ASSUME TypeOK, NewIsOne, Next
    PROVE  NewIsOne'
<1>1. ASSUME NEW c \in Conns, HandleAccept(c) PROVE NewIsOne'
  BY <1>1 DEF HandleAccept, NewIsOne
<1>2. CASE UNCHANGED <<bpc, current>>
  BY <1>2 DEF NewIsOne
<1>3. CASE bpc' \notin {"new", "announce"}
  BY <1>3 DEF NewIsOne
<1>4. ASSUME NEW c \in Conns, StopConnection(c) PROVE NewIsOne'
  BY <1>4, Zenon DEF StopConnection, NewIsOne
<1>5. ASSUME NEW l \in Loops, LoopContinues(l) PROVE UNCHANGED <<bpc, current>>
  BY <1>5 DEF LoopContinues, RunAttach, RunClose, CloseReturns, sweepVars
<1>6. ASSUME StopInside \/ StopInLoop \/ StopInLoopReturns \/ AnnounceFails
      PROVE  bpc' \notin {"new", "announce"}
  BY <1>6, Zenon DEF StopInside, StopInLoop, StopInLoopReturns, AnnounceFails
<1>7. ASSUME NEW l \in Loops, HandleNewConn(l) PROVE NewIsOne'
  BY <1>7 DEF HandleNewConn, NewIsOne
<1>8. ASSUME NEW c \in Conns, PeerCloses(c) \/ UserCloses(c) \/ CloseFound(c)
      PROVE  UNCHANGED <<bpc, current>>
  BY <1>8 DEF PeerCloses, UserCloses, CloseFound, sweepVars
<1>9. ASSUME \/ \E ok \in ListenResults : InitServer(ok)
             \/ StartPool \/ StartAccepting \/ RunAccept \/ RunRemove \/ StopStores \/ StopContinues
      PROVE  UNCHANGED <<bpc, current>>
  BY <1>9 DEF InitServer, StartPool, StartAccepting, RunAccept, RunRemove, StopStores,
              StopContinues, StopStoresSub, StopQueues, sweepVars
<1> QED  BY <1>1, <1>2, <1>3, <1>4, <1>5, <1>6, <1>7, <1>8, <1>9 DEF Next, BaseContinues

\* The type invariant and the registrations are inductive.
LEMMA RegStep == ASSUME RegInv, [Next]_vars PROVE RegInv'
<1>1. CASE UNCHANGED vars
  BY <1>1 DEF vars, RegInv, TypeOK, NewIsOne, RegisteredConn, Registered, Queued
<1>2. CASE Next
  <2>1. TypeOK'
    BY <1>2, StartTypeOK, ConnTypeOK, StopTypeOK DEF Next, BaseContinues, RegInv
  <2>2. NewIsOne'
    BY <1>2, NewStaysOne DEF RegInv
  <2>3. ASSUME NEW d \in Conns PROVE RegisteredConn(d)'
    BY <1>2, OwnerReg, ConnReg DEF Next, BaseContinues
  <2> QED  BY <2>1, <2>2, <2>3 DEF RegInv
<1> QED  BY <1>1, <1>2, Zenon

LEMMA InitReg == Init => RegInv
<1> SUFFICES ASSUME Init PROVE RegInv
  OBVIOUS
<1>1. queue \in [Loops -> Seq(Functors)] /\ \A l \in Loops, x \in Functors : ~InSeq(queue[l], x)
  BY DEF Init, InSeq
<1>2. /\ listening \in BOOLEAN /\ hasCallback \in BOOLEAN /\ aborted \in BOOLEAN
      /\ strained \in BOOLEAN
  BY Zenon DEF Init
<1>3. loopOf \in [Conns -> Loops] /\ lpc \in [Loops -> SUBSET Conns]
  BY Basics DEF Init
<1>4. TypeOK
  BY <1>1, <1>2, <1>3 DEF Init, TypeOK
<1>5. \A c \in Conns : RegisteredConn(c)
  BY <1>1, Basics, Zenon DEF Init, RegisteredConn, Queued
<1> QED  BY <1>4, <1>5 DEF RegInv, NewIsOne, Init

\* Whoever calls Stop() and whenever, a connection with an open channel is in connections_: the
\* removal that stops the pool never comes before the last close.
THEOREM OpenStayRegistered == Spec => []OpenAreRegistered
<1>1. RegInv => OpenAreRegistered
  BY Zenon DEF RegInv, RegisteredConn, Registered, OpenAreRegistered
<1> QED  BY <1>1, InitReg, RegStep, PTL DEF Spec

-----------------------------------------------------------------------------
(* A server that its listening loop stops.                                 *)

ConnOps == {"attach", "close", "remove"}

\* The functors of the server in r are some of those in q.
ServerKeeps(q, r) ==
    /\ InSeq(r[Base], <<"accept", Base>>) => InSeq(q[Base], <<"accept", Base>>)
    /\ Once(q[Base], <<"accept", Base>>) => Once(r[Base], <<"accept", Base>>)
    /\ InSeq(r[Base], <<"stop", Base>>) => InSeq(q[Base], <<"stop", Base>>)

\* The functors of d in r are some of those in q, and its removal is still there.
ConnKeeps(q, r, d) ==
    \A m \in Loops :
        /\ InSeq(r[m], <<"attach", d>>) => InSeq(q[m], <<"attach", d>>)
        /\ Once(q[m], <<"attach", d>>) => Once(r[m], <<"attach", d>>)
        /\ InSeq(r[m], <<"close", d>>) => InSeq(q[m], <<"close", d>>)
        /\ InSeq(q[m], <<"remove", d>>) => InSeq(r[m], <<"remove", d>>)

\* The queues r are q with the functor op of c queued in l.
ConnAdds(q, r, l, op, c) ==
    /\ ServerKeeps(q, r)
    /\ \A d \in Conns, o \in ConnOps, m \in Loops :
        InSeq(r[m], <<o, d>>) <=> InSeq(q[m], <<o, d>>) \/ (m = l /\ o = op /\ d = c)
    /\ \A d \in Conns, m \in Loops :
        /\ Once(q[m], <<"attach", d>>)
        /\ ~(op = "attach" /\ m = l /\ d = c /\ InSeq(q[m], <<"attach", d>>))
        => Once(r[m], <<"attach", d>>)

\* A functor of c is queued.
LEMMA ConnAdd ==
    ASSUME NEW q \in Queues, NEW l \in Loops, NEW op \in ConnOps, NEW c \in Conns
    PROVE  ConnAdds(q, Add(q, l, op, c), l, op, c)
<1> DEFINE r == Add(q, l, op, c)
<1>1. <<op, c>> \in Functors /\ Base \in Loops
  BY Basics, Zenon DEF ConnOps
<1>2. Appended(q, r, l, <<op, c>>)
  BY <1>1, Added
<1>3. \A o, d : <<o, d>> = <<op, c>> <=> o = op /\ d = c
  OBVIOUS
<1>4. op # "accept" /\ op # "stop"
  BY DEF ConnOps
<1> HIDE DEF r
<1>5. ServerKeeps(q, r)
  BY <1>1, <1>2, <1>3, <1>4, Zenon DEF ServerKeeps, Appended
<1>6. ConnAdds(q, r, l, op, c)
  BY <1>2, <1>3, <1>5, Zenon DEF ConnAdds, Appended
<1> QED  BY <1>6 DEF r

\* The queues r are the queues without the functor op of c, the next one of l.
ConnPops(r, l, op, c) ==
    /\ ServerKeeps(queue, r)
    /\ Queued(l, op, c)
    /\ \A d \in Conns : ~(op = "remove" /\ d = c) => ConnKeeps(queue, r, d)
    /\ Once(queue[l], <<op, c>>) => ~InSeq(r[l], <<op, c>>)

\* A functor of c is taken out.
LEMMA ConnPop ==
    ASSUME TypeOK, NEW l \in Loops, NEW op \in ConnOps, NEW c \in Conns, IsNext(l, op),
           Head(queue[l]) = <<op, c>>
    PROVE  Pop(queue, l) \in Queues /\ ConnPops(Pop(queue, l), l, op, c)
<1> DEFINE r == Pop(queue, l)
<1>1. queue \in Queues /\ queue[l] # <<>> /\ Base \in Loops
  BY Basics, Zenon DEF IsNext, TypeOK, Queues
<1>2. r \in Queues /\ Shortened(queue, r, l, <<op, c>>)
  BY <1>1, Popped
<1>3. \A o, d : <<o, d>> = <<op, c>> <=> o = op /\ d = c
  OBVIOUS
<1> HIDE DEF r
<1>4. ServerKeeps(queue, r)
  BY <1>1, <1>2, Zenon DEF ServerKeeps, Shortened
<1>5. ASSUME NEW d \in Conns, ~(op = "remove" /\ d = c) PROVE ConnKeeps(queue, r, d)
  BY <1>2, <1>3, <1>5, Zenon DEF ConnKeeps, Shortened
<1> QED  BY <1>2, <1>4, <1>5, Zenon DEF r, Queued, ConnPops, Shortened

\* What the invariant says of the server, when the step does not touch it.
LEMMA ServerStays ==
    ASSUME OrderlyServer, UNCHANGED <<serverVars, listener, bpc>>, ServerKeeps(queue, queue'),
           connections' = connections
    PROVE  OrderlyServer'
BY Zenon DEF OrderlyServer, serverVars, ServerKeeps, Queued

\* What it says of a connection, when the step does not touch it.
LEMMA ConnStays ==
    ASSUME NEW d \in Conns, OrderlyConn(d), ConnKeeps(queue, queue', d),
           UNCHANGED <<conn, closed, connections, loopOf, lpc>>,
           bpc' = "new" /\ d \in current' => bpc = "new" /\ d \in current
    PROVE  OrderlyConn(d)'
BY Basics, Zenon DEF OrderlyConn, ConnKeeps, Queued

\* EraseConnection() between two callbacks of the listening loop: the last connection to go
\* stops the pool, with the callback that StopInLoop left.
LEMMA EraseServer ==
    ASSUME TypeOK, OrderlyServer, NEW c, bpc = "idle", EraseConnection(c),
           UNCHANGED <<listener, bpc>>, ServerKeeps(queue, queue')
    PROVE  OrderlyServer'
<1>1. CASE status = "kStopping" /\ connections' = {}
  <2>1. StopThreadPool(substatus, hasCallback) /\ hasCallback = TRUE
    BY <1>1, Zenon DEF EraseConnection, StopWhenLast, OrderlyServer, TypeOK
  <2>2. substatus = "kStoppingListener" /\ pool = "running" /\ listener = "null" /\ callbacks = 0
    BY <1>1 DEF OrderlyServer
  <2>3. pool' = "null" /\ status' = "kStopped" /\ aborted' = aborted /\ callbacks' = callbacks + 1
    BY <1>1, <2>1, <2>2, SMTT(20) DEF StopThreadPool
  <2> QED  BY <1>1, <2>2, <2>3 DEF OrderlyServer, ServerKeeps, Queued
<1>2. CASE ~(status = "kStopping" /\ connections' = {})
  <2>1. UNCHANGED serverVars /\ connections' = connections \ {c}
    BY <1>2 DEF EraseConnection, StopWhenLast
  <2> QED  BY <2>1 DEF OrderlyServer, serverVars, ServerKeeps, Queued
<1> QED  BY <1>1, <1>2, Zenon

OrderlyState == RegInv /\ OrderlyServer /\ \A c \in Conns : OrderlyConn(c)
StaysOrderly == OrderlyServer' /\ \A c \in Conns : OrderlyConn(c)'

\* Init() and Start(), and the functor that starts to accept.
LEMMA StartOrderly ==
    ASSUME OrderlyState,
           \/ \E ok \in ListenResults : InitServer(ok)
           \/ StartPool \/ StartAccepting \/ RunAccept
    PROVE  StaysOrderly
<1>0. TypeOK /\ OrderlyServer /\ queue \in Queues /\ Base \in Loops /\ <<"accept", Base>> \in Functors
  BY Basics, Zenon DEF OrderlyState, RegInv, TypeOK, Queues
<1>1. \A c \in Conns : ConnKeeps(queue, queue', c)
  <2>1. CASE UNCHANGED queue
    BY <2>1 DEF ConnKeeps
  <2>2. CASE queue' = Add(queue, Base, "accept", Base)
    <3>1. Appended(queue, queue', Base, <<"accept", Base>>)
      BY <1>0, <2>2, Added, Zenon
    <3>2. \A c : <<"attach", c>> # <<"accept", Base>> /\ <<"close", c>> # <<"accept", Base>>
      OBVIOUS
    <3> QED  BY <3>1, <3>2, Zenon DEF ConnKeeps, Appended
  <2>3. CASE RunAccept
    <3> DEFINE h == Head(queue[Base])
    <3>1. queue' = Pop(queue, Base) /\ queue[Base] # <<>> /\ h[1] = "accept"
      BY <2>3, Zenon DEF RunAccept, IsNext, Pop
    <3>2. Shortened(queue, queue', Base, h)
      BY <1>0, <3>1, Popped
    <3>3. \A c : <<"remove", c>> # h
      BY <3>1
    <3> HIDE DEF h
    <3> QED  BY <3>2, <3>3, Zenon DEF ConnKeeps, Shortened
  <2> QED  BY <2>1, <2>2, <2>3 DEF InitServer, StartPool, StartAccepting
<1>2. ASSUME NEW c \in Conns PROVE OrderlyConn(c)'
  <2>1. UNCHANGED <<conn, closed, connections, loopOf, lpc, bpc, current>>
    BY DEF InitServer, StartPool, StartAccepting, RunAccept, sweepVars
  <2>2. OrderlyConn(c)
    BY DEF OrderlyState
  <2> QED  BY <1>1, <2>1, <2>2, ConnStays, Zenon
<1>3. OrderlyServer'
  <2>1. ASSUME NEW ok \in ListenResults, InitServer(ok) PROVE OrderlyServer'
    BY <1>0, <2>1, Zenon DEF InitServer, OrderlyServer, sweepVars, Queued
  <2>2. CASE StartPool
    BY <1>0, <2>2, Zenon DEF StartPool, OrderlyServer, sweepVars, setup, Queued
  <2>3. CASE StartAccepting
    <3>1. /\ InSeq(queue'[Base], <<"stop", Base>>) =>
               InSeq(queue[Base], <<"stop", Base>>) \/ <<"stop", Base>> = <<"accept", Base>>
          /\ Once(queue[Base], <<"accept", Base>>) /\ ~InSeq(queue[Base], <<"accept", Base>>)
                => Once(queue'[Base], <<"accept", Base>>)
      <4>1. queue' = Add(queue, Base, "accept", Base)
        BY <2>3 DEF StartAccepting
      <4>2. Appended(queue, queue', Base, <<"accept", Base>>)
        BY <1>0, <4>1, Added, Zenon
      <4> QED  BY <1>0, <4>2, Zenon DEF Appended
    <3>2. <<"stop", Base>> # <<"accept", Base>>
      BY SMTT(20)
    <3> QED  BY <1>0, <2>3, <3>1, <3>2, Zenon DEF StartAccepting, OrderlyServer, sweepVars,
       setup, Queued
  <2>4. CASE RunAccept
    <3>1. queue' = Pop(queue, Base) /\ queue[Base] # <<>>
      BY <2>4 DEF RunAccept, IsNext, Pop
    <3>2. Head(queue[Base]) = <<"accept", Base>>
      <4>1. Head(queue[Base]) \in Functors
        BY <1>0, <3>1, Popped, Zenon
      <4> QED  BY <2>4, <4>1, SMTT(20) DEF RunAccept, IsNext, Functors
    <3>3. Shortened(queue, queue', Base, <<"accept", Base>>)
      BY <1>0, <3>1, <3>2, Popped, Zenon
    <3>4. /\ Queued(Base, "accept", Base) /\ ~Queued(Base, "accept", Base)' /\ ~Queued(Base, "stop", Base)'
          /\ Once(queue'[Base], <<"accept", Base>>)
      BY <1>0, <3>3 DEF OrderlyServer, Queued, Shortened
    <3> QED  BY <1>0, <2>4, <3>4 DEF RunAccept, OrderlyServer, sweepVars, serverVars
  <2> QED  BY <2>1, <2>2, <2>3, <2>4, Zenon
<1> QED  BY <1>2, <1>3, Zenon DEF StaysOrderly

\* HandleNewConn(), from the accept to the insertion.
LEMMA AcceptOrderly ==
    ASSUME OrderlyState, ~strained',
           \/ \E c \in Conns : HandleAccept(c)
           \/ \E l \in Loops : HandleNewConn(l)
    PROVE  StaysOrderly
<1>0. /\ TypeOK /\ OrderlyServer /\ queue \in Queues /\ Base \in Loops
      /\ conn \in [Conns -> {"none", "new", "kConnected", "kDisconnecting", "kDisconnected"}]
  BY Basics DEF OrderlyState, RegInv, TypeOK, Queues
<1>1. ASSUME NEW c \in Conns, HandleAccept(c) PROVE StaysOrderly
  <2>1. OrderlyServer'
    BY <1>0, <1>1, Zenon DEF HandleAccept, OrderlyServer, Idle, serverVars, Queued
  <2>2. ASSUME NEW d \in Conns PROVE OrderlyConn(d)'
    BY <1>0, <1>1, Zenon DEF HandleAccept, OrderlyState, OrderlyConn, Idle, Queued
  <2> QED  BY <2>1, <2>2, Zenon DEF StaysOrderly
<1>2. ASSUME NEW l \in Loops, HandleNewConn(l) PROVE StaysOrderly
  <2>1. PICK c \in Conns : current = {c}
    BY <1>2 DEF HandleNewConn, OrderlyState, RegInv, NewIsOne
  <2>2. (CHOOSE x \in current : TRUE) = c
    BY <2>1, Zenon
  <2>3. /\ bpc = "new" /\ bpc' = "idle" /\ connections' = connections \cup {c} /\ closed' = closed
        /\ loopOf' = [loopOf EXCEPT ![c] = l] /\ lpc' = lpc /\ aborted' = (status # "kRunning")
    BY <1>2, <2>2, Zenon DEF HandleNewConn
  <2>4. \/ queue' = Add(queue, l, "attach", c) /\ conn' = [conn EXCEPT ![c] = "new"]
        \/ queue' = queue /\ conn' = [conn EXCEPT ![c] = "kConnected"]
    BY <1>2, <2>2, Zenon DEF HandleNewConn
  <2>5. UNCHANGED <<status, substatus, listener, pool, hasCallback, callbacks>>
    BY <1>2 DEF HandleNewConn
  <2>6. /\ conn[c] = "none" /\ c \notin closed
        /\ \A m \in Loops : ~Queued(m, "attach", c) /\ ~Queued(m, "close", c) /\ c \notin lpc[m]
    BY <2>1, <2>3, Zenon DEF OrderlyState, OrderlyConn
  <2>7. /\ ServerKeeps(queue, queue')
        /\ \A d \in Conns, m \in Loops :
             /\ InSeq(queue'[m], <<"attach", d>>)
                    => InSeq(queue[m], <<"attach", d>>) \/ (m = l /\ d = c /\ conn'[c] = "new")
             /\ InSeq(queue'[m], <<"close", d>>) <=> InSeq(queue[m], <<"close", d>>)
             /\ InSeq(queue'[m], <<"remove", d>>) <=> InSeq(queue[m], <<"remove", d>>)
             /\ Once(queue[m], <<"attach", d>>) => Once(queue'[m], <<"attach", d>>)
    <3>1. CASE queue' = queue
      BY <3>1, Zenon DEF ServerKeeps
    <3>2. CASE queue' = Add(queue, l, "attach", c) /\ conn'[c] = "new"
      <4>1. "attach" \in ConnOps /\ "close" \in ConnOps /\ "remove" \in ConnOps
        BY Zenon DEF ConnOps
      <4>2. /\ ServerKeeps(queue, queue')
            /\ \A d \in Conns, o \in ConnOps, m \in Loops :
                  InSeq(queue'[m], <<o, d>>) <=> InSeq(queue[m], <<o, d>>) \/ (m = l /\ o = "attach" /\ d = c)
            /\ \A d \in Conns, m \in Loops :
                  /\ Once(queue[m], <<"attach", d>>)
                  /\ ~(m = l /\ d = c /\ InSeq(queue[m], <<"attach", d>>))
                  => Once(queue'[m], <<"attach", d>>)
        <5>1. ConnAdds(queue, queue', l, "attach", c)
          BY <1>0, <3>2, <4>1, ConnAdd
        <5> QED  BY <5>1, Zenon DEF ConnAdds
      <4> QED  BY <2>6, <3>2, <4>1, <4>2, Zenon DEF Queued
    <3> QED  BY <1>0, <2>4, <3>1, <3>2
  <2>8. OrderlyServer'
    BY <1>0, <2>3, <2>5, <2>7, Zenon DEF OrderlyServer, ServerKeeps, Queued
  <2>9. ASSUME NEW d \in Conns PROVE OrderlyConn(d)'
    <3>0. OrderlyConn(d)
      BY DEF OrderlyState
    <3>1. CASE d # c
      <4>1. conn'[d] = conn[d] /\ loopOf'[d] = loopOf[d]
        BY <1>0, <2>3, <2>4, <3>1, Zenon DEF TypeOK
      <4> QED  BY <1>0, <2>3, <2>7, <3>0, <3>1, <4>1, Zenon DEF OrderlyConn, Queued
    <3>2. CASE d = c
      <4>1. loopOf'[c] = l /\ conn'[c] \in {"new", "kConnected"}
        BY <1>0, <2>3, <2>4, Zenon DEF TypeOK
      <4> QED  BY <2>3, <2>6, <2>7, <3>0, <3>2, <4>1, Zenon DEF OrderlyConn, Queued
    <3> QED  BY <3>1, <3>2
  <2> QED  BY <2>8, <2>9 DEF StaysOrderly
<1> QED  BY <1>1, <1>2, Zenon

\* HandleClose() of a connection that is still open, in its loop, between two callbacks.
LEMMA CloseOrderly ==
    ASSUME OrderlyState, NEW c \in Conns, NEW q \in Queues, HandleClose(c, q), Idle(loopOf[c]),
           c \notin closed, conn[c] \in {"kConnected", "kDisconnecting"},
           ServerKeeps(queue, q), \A d \in Conns : ConnKeeps(queue, q, d),
           UNCHANGED <<listener, loopOf, sweepVars>>
    PROVE  StaysOrderly
<1>0. /\ TypeOK /\ OrderlyServer /\ Base \in Loops /\ loopOf[c] \in Loops /\ lpc[loopOf[c]] = {}
      /\ conn \in [Conns -> {"none", "new", "kConnected", "kDisconnecting", "kDisconnected"}]
      /\ lpc \in [Loops -> SUBSET Conns]
  BY Basics, Zenon DEF OrderlyState, RegInv, TypeOK, Idle
<1>1. /\ conn' = [conn EXCEPT ![c] = "kDisconnecting"] /\ closed' = closed \cup {c}
      /\ lpc' = [lpc EXCEPT ![loopOf[c]] = {c}]
  BY Zenon DEF HandleClose
<1>2. "remove" \in ConnOps /\ "attach" \in ConnOps /\ "close" \in ConnOps
  BY Zenon DEF ConnOps
<1>3. /\ ServerKeeps(queue, queue')
      /\ \A d \in Conns : ConnKeeps(queue, queue', d)
  <2>1. CASE queue' = q
    BY <2>1, Zenon
  <2>2. CASE queue' = Add(q, Base, "remove", c)
    <3>1. /\ ServerKeeps(q, queue')
          /\ \A d \in Conns, o \in ConnOps, m \in Loops :
               InSeq(queue'[m], <<o, d>>) <=> InSeq(q[m], <<o, d>>) \/ (m = Base /\ o = "remove" /\ d = c)
          /\ \A d \in Conns, m \in Loops :
               Once(q[m], <<"attach", d>>) => Once(queue'[m], <<"attach", d>>)
      <4>1. ConnAdds(q, queue', Base, "remove", c)
        BY <1>0, <1>2, <2>2, ConnAdd
      <4> QED  BY <4>1, Zenon DEF ConnAdds
    <3>2. ServerKeeps(queue, queue')
      BY <3>1, Zenon DEF ServerKeeps
    <3>3. ASSUME NEW d \in Conns PROVE ConnKeeps(queue, queue', d)
      BY <1>2, <3>1, Zenon DEF ConnKeeps
    <3> QED  BY <3>2, <3>3, Zenon
  <2> QED  BY <2>1, <2>2, Zenon DEF HandleClose
<1>4. OrderlyServer'
  <2>1. CASE loopOf[c] = Base
    <3>1. EraseConnection(c) /\ bpc = "idle" /\ UNCHANGED <<listener, bpc>>
      BY <2>1, Zenon DEF HandleClose, Idle, sweepVars
    <3> QED  BY <1>0, <1>3, <3>1, EraseServer, Zenon
  <2>2. CASE loopOf[c] # Base
    <3>1. UNCHANGED <<connections, serverVars>>
      BY <2>2, Zenon DEF HandleClose
    <3> QED  BY <1>0, <1>3, <3>1, ServerStays, Zenon DEF sweepVars
  <2> QED  BY <2>1, <2>2, Zenon
<1>5. /\ connections' \subseteq connections
      /\ c \in connections' => Queued(Base, "remove", c)'
  <2>1. CASE loopOf[c] = Base
    BY <2>1, Zenon DEF HandleClose, EraseConnection
  <2>2. CASE loopOf[c] # Base
    <3>1. queue' = Add(q, Base, "remove", c) /\ connections' = connections
      BY <2>2, Zenon DEF HandleClose
    <3>2. InSeq(Add(q, Base, "remove", c)[Base], <<"remove", c>>)
      <4>1. ConnAdds(q, Add(q, Base, "remove", c), Base, "remove", c)
        BY <1>0, <1>2, ConnAdd
      <4> QED  BY <1>0, <1>2, <4>1, Zenon DEF ConnAdds
    <3> QED  BY <3>1, <3>2, Zenon DEF Queued
  <2> QED  BY <2>1, <2>2, Zenon
<1>6. ASSUME NEW d \in Conns PROVE OrderlyConn(d)'
  <2>0. OrderlyConn(d) /\ ConnKeeps(queue, queue', d)
    BY <1>3, Zenon DEF OrderlyState
  <2>1. UNCHANGED <<loopOf, bpc, current>>
    BY Zenon DEF sweepVars
  <2>2. CASE d # c
    <3>1. conn'[d] = conn[d] /\ (d \in closed' <=> d \in closed)
      BY <1>0, <1>1, <2>2
    <3>2. \A m \in Loops : d \in lpc'[m] <=> d \in lpc[m]
      BY <1>0, <1>1, <2>2, Zenon
    <3>3. loopOf[d] \in Loops
      BY <1>0, Zenon DEF TypeOK
    <3> QED  BY <1>0, <1>5, <2>0, <2>1, <3>1, <3>2, <3>3, Zenon DEF OrderlyConn, ConnKeeps, Queued
  <2>3. CASE d = c
    <3>1. conn'[c] = "kDisconnecting" /\ c \in closed'
      BY <1>0, <1>1
    <3>2. c \in lpc'[loopOf[c]] /\ \A m \in Loops : c \in lpc'[m] => m = loopOf[c]
      <4>1. \A m \in Loops : c \notin lpc[m]
        BY <2>0, <2>3, Zenon DEF OrderlyConn
      <4> QED  BY <1>0, <1>1, <4>1, Zenon
    <3>3. bpc = "new" => c \notin current
      BY <2>0, <2>3, Zenon DEF OrderlyConn
    <3> QED  BY <1>0, <1>5, <2>0, <2>1, <2>3, <3>1, <3>2, <3>3, Zenon DEF OrderlyConn, ConnKeeps,
       Queued
  <2> QED  BY <2>2, <2>3, Zenon
<1> QED  BY <1>4, <1>6, Zenon DEF StaysOrderly

\* Close() of a connection that is connected queues its functor in the connection's loop.
LEMMA CallCloseOrderly ==
    ASSUME OrderlyState, NEW c \in Conns, Close(c), conn[c] = "kConnected",
           UNCHANGED <<serverVars, listener, bpc, connections, closed, loopOf, lpc>>,
           current' \subseteq current
    PROVE  StaysOrderly
<1>0. /\ TypeOK /\ OrderlyServer /\ loopOf[c] \in Loops /\ queue \in Queues /\ Base \in Loops
      /\ conn \in [Conns -> {"none", "new", "kConnected", "kDisconnecting", "kDisconnected"}]
  BY Basics DEF OrderlyState, RegInv, TypeOK, Queues
<1>1. "close" \in ConnOps /\ "attach" \in ConnOps /\ "remove" \in ConnOps
  BY Zenon DEF ConnOps
<1>2. /\ ServerKeeps(queue, queue')
      /\ \A d \in Conns, o \in ConnOps, m \in Loops :
           InSeq(queue'[m], <<o, d>>) <=> InSeq(queue[m], <<o, d>>) \/ (m = loopOf[c] /\ o = "close" /\ d = c)
      /\ \A d \in Conns, m \in Loops :
           Once(queue[m], <<"attach", d>>) => Once(queue'[m], <<"attach", d>>)
  <2>1. ConnAdds(queue, queue', loopOf[c], "close", c)
    BY <1>0, <1>1, ConnAdd, Zenon DEF Close
  <2> QED  BY <2>1, Zenon DEF ConnAdds
<1>3. OrderlyServer'
  BY <1>0, <1>2, ServerStays, Zenon
<1>4. ASSUME NEW d \in Conns PROVE OrderlyConn(d)'
  <2>0. OrderlyConn(d) /\ OrderlyConn(c)
    BY DEF OrderlyState
  <2>1. conn'[d] = (IF d = c THEN "kDisconnecting" ELSE conn[d])
    BY <1>0 DEF Close
  <2>2. CASE d # c
    <3>1. ConnKeeps(queue, queue', d)
      BY <1>1, <1>2, <2>2, Zenon DEF ConnKeeps
    <3> QED  BY <1>0, <2>0, <2>1, <2>2, <3>1, Zenon DEF OrderlyConn, ConnKeeps, Queued
  <2>3. CASE d = c
    BY <1>0, <1>1, <1>2, <2>0, <2>1, <2>3, Zenon DEF OrderlyConn, Queued
  <2> QED  BY <2>2, <2>3, Zenon
<1> QED  BY <1>3, <1>4, Zenon DEF StaysOrderly

\* The functors and events of the connections' loops.
LEMMA LoopOrderly ==
    ASSUME OrderlyState,
           \/ \E c \in Conns : PeerCloses(c) \/ UserCloses(c)
           \/ \E l \in Loops : LoopContinues(l)
           \/ RunRemove
    PROVE  StaysOrderly
<1>0. /\ TypeOK /\ OrderlyServer /\ queue \in Queues /\ Base \in Loops
      /\ conn \in [Conns -> {"none", "new", "kConnected", "kDisconnecting", "kDisconnected"}]
      /\ lpc \in [Loops -> SUBSET Conns] /\ loopOf \in [Conns -> Loops]
  BY Basics DEF OrderlyState, RegInv, TypeOK, Queues
<1>1. ASSUME NEW c \in Conns, PeerCloses(c) PROVE StaysOrderly
  <2>1. ServerKeeps(queue, queue) /\ \A d \in Conns : ConnKeeps(queue, queue, d)
    BY Zenon DEF ServerKeeps, ConnKeeps
  <2> QED  BY <1>0, <1>1, <2>1, CloseOrderly DEF PeerCloses
<1>2. ASSUME NEW c \in Conns, UserCloses(c) PROVE StaysOrderly
  <2>1. Close(c) /\ conn[c] = "kConnected"
    BY <1>2 DEF UserCloses, Close
  <2> QED  BY <1>2, <2>1, CallCloseOrderly, Zenon DEF UserCloses, sweepVars
<1>3. ASSUME NEW l \in Loops, RunAttach(l) PROVE StaysOrderly
  <2>1. IsNext(l, "attach") /\ "attach" \in ConnOps
    BY <1>3, Zenon DEF RunAttach, ConnOps
  <2>2. PICK c \in Conns : Head(queue[l]) = <<"attach", c>> /\ Head(queue[l])[2] = c
    BY <1>0, <2>1, NextFunctor, Zenon
  <2>3. queue' = Pop(queue, l) /\ conn' = [conn EXCEPT ![c] = "kConnected"]
    BY <1>3, <2>2, Zenon DEF RunAttach, Pop
  <2>4. UNCHANGED <<serverVars, listener, bpc, current, connections, closed, loopOf, lpc>>
    BY <1>3, Zenon DEF RunAttach, sweepVars
  <2>5. /\ ServerKeeps(queue, queue') /\ Queued(l, "attach", c)
        /\ \A d \in Conns : ConnKeeps(queue, queue', d)
        /\ Once(queue[l], <<"attach", c>>) => ~InSeq(queue'[l], <<"attach", c>>)
    <3>1. ConnPops(queue', l, "attach", c)
      BY <1>0, <2>1, <2>2, <2>3, ConnPop
    <3> QED  BY <3>1, Zenon DEF ConnPops
  <2>6. OrderlyServer'
    BY <1>0, <2>4, <2>5, ServerStays, Zenon
  <2>7. ASSUME NEW d \in Conns PROVE OrderlyConn(d)'
    <3>0. OrderlyConn(d) /\ ConnKeeps(queue, queue', d)
      BY <2>5, Zenon DEF OrderlyState
    <3>1. CASE d # c
      <4>1. conn'[d] = conn[d]
        BY <1>0, <2>3, <3>1, Zenon
      <4> QED  BY <1>0, <2>4, <3>0, <4>1, Zenon DEF OrderlyConn, ConnKeeps, Queued
    <3>2. CASE d = c
      <4>1. conn'[c] = "kConnected"
        BY <1>0, <2>3, Zenon
      <4>2. conn[c] = "new" /\ loopOf[c] = l /\ \A m \in Loops : ~Queued(m, "attach", c)'
        BY <2>5, <3>0, <3>2, ZenonT(30) DEF OrderlyConn, ConnKeeps, Queued
      <4> QED  BY <1>0, <2>4, <3>0, <3>2, <4>1, <4>2, Zenon DEF OrderlyConn, ConnKeeps, Queued
    <3> QED  BY <3>1, <3>2, Zenon
  <2> QED  BY <2>6, <2>7 DEF StaysOrderly
<1>4. ASSUME NEW l \in Loops, RunClose(l) PROVE StaysOrderly
  <2>1. IsNext(l, "close") /\ "close" \in ConnOps
    BY <1>4, Zenon DEF RunClose, ConnOps
  <2>2. PICK c \in Conns : Head(queue[l]) = <<"close", c>> /\ Head(queue[l])[2] = c
    BY <1>0, <2>1, NextFunctor, Zenon
  <2>3. UNCHANGED <<listener, loopOf, sweepVars>>
    BY <1>4, Zenon DEF RunClose
  <2>4. /\ Pop(queue, l) \in Queues /\ ServerKeeps(queue, Pop(queue, l)) /\ Queued(l, "close", c)
        /\ \A d \in Conns : ConnKeeps(queue, Pop(queue, l), d)
    <3>1. Pop(queue, l) \in Queues /\ ConnPops(Pop(queue, l), l, "close", c)
      BY <1>0, <2>1, <2>2, ConnPop
    <3> QED  BY <3>1, Zenon DEF ConnPops
  <2>5. /\ conn[c] \in {"kDisconnecting", "kDisconnected"} /\ loopOf[c] = l
        /\ conn[c] # "kDisconnected" => c \notin closed
    BY <2>1, <2>4, Zenon DEF OrderlyState, OrderlyConn, IsNext, Idle
  <2>6. \/ conn[c] # "kDisconnected" /\ HandleClose(c, Pop(queue, l))
        \/ queue' = Pop(queue, l) /\ UNCHANGED <<serverVars, connections, conn, closed, lpc>>
    BY <1>4, <2>2, Zenon DEF RunClose, Pop
  <2>7. CASE conn[c] # "kDisconnected" /\ HandleClose(c, Pop(queue, l))
    BY <2>1, <2>3, <2>4, <2>5, <2>7, CloseOrderly, Zenon DEF IsNext
  <2>8. CASE queue' = Pop(queue, l) /\ UNCHANGED <<serverVars, connections, conn, closed, lpc>>
    <3>1. OrderlyServer'
      BY <1>0, <2>3, <2>4, <2>8, ServerStays DEF sweepVars
    <3>2. ASSUME NEW d \in Conns PROVE OrderlyConn(d)'
      <4>1. OrderlyConn(d) /\ ConnKeeps(queue, queue', d)
        BY <2>4, <2>8 DEF OrderlyState
      <4>2. UNCHANGED <<conn, closed, connections, loopOf, lpc, bpc, current>>
        BY <2>3, <2>8 DEF sweepVars
      <4> QED  BY <4>1, <4>2, ConnStays
    <3> QED  BY <3>1, <3>2 DEF StaysOrderly
  <2> QED  BY <2>6, <2>7, <2>8
<1>5. ASSUME NEW l \in Loops, CloseReturns(l) PROVE StaysOrderly
  <2>1. UNCHANGED <<serverVars, listener, bpc, current, connections, closed, loopOf, queue>>
    BY <1>5 DEF CloseReturns, sweepVars
  <2>2. OrderlyServer'
    BY <1>0, <2>1, ServerStays, Zenon DEF ServerKeeps
  <2>3. ASSUME NEW d \in Conns PROVE OrderlyConn(d)'
    <3>1. /\ conn'[d] = (IF d \in lpc[l] THEN "kDisconnected" ELSE conn[d])
          /\ \A m \in Loops : lpc'[m] = (IF m = l THEN {} ELSE lpc[m])
      BY <1>0, <1>5 DEF CloseReturns
    <3>2. OrderlyConn(d)
      BY DEF OrderlyState
    <3> QED  BY <1>0, <2>1, <3>1, <3>2, Zenon DEF OrderlyConn, Queued
  <2> QED  BY <2>2, <2>3 DEF StaysOrderly
<1>6. CASE RunRemove
  <2>1. IsNext(Base, "remove") /\ "remove" \in ConnOps /\ bpc = "idle"
    BY <1>6, Zenon DEF RunRemove, ConnOps, IsNext, Idle
  <2>2. PICK c \in Conns : Head(queue[Base]) = <<"remove", c>> /\ Head(queue[Base])[2] = c
    BY <1>0, <2>1, NextFunctor, Zenon
  <2>3. queue' = Pop(queue, Base) /\ EraseConnection(c)
    BY <1>6, <2>2, Zenon DEF RunRemove, Pop
  <2>4. UNCHANGED <<listener, bpc, current, conn, closed, loopOf, lpc>>
    BY <1>6, Zenon DEF RunRemove, sweepVars
  <2>5. /\ ServerKeeps(queue, queue')
        /\ \A d \in Conns : d # c => ConnKeeps(queue, queue', d)
    <3>1. ConnPops(queue', Base, "remove", c)
      BY <1>0, <2>1, <2>2, <2>3, ConnPop
    <3> QED  BY <3>1, Zenon DEF ConnPops
  <2>6. OrderlyServer'
    BY <1>0, <2>1, <2>3, <2>4, <2>5, EraseServer
  <2>7. connections' = connections \ {c}
    BY <2>3 DEF EraseConnection
  <2>8. ASSUME NEW d \in Conns PROVE OrderlyConn(d)'
    <3>0. OrderlyConn(d)
      BY DEF OrderlyState
    <3>1. CASE d # c
      BY <1>0, <2>4, <2>5, <2>7, <3>0, <3>1, Zenon DEF OrderlyConn, ConnKeeps, Queued
    <3>2. CASE d = c
      <4>1. /\ \A x : \A m \in Loops : InSeq(queue'[m], x) => InSeq(queue[m], x)
            /\ \A x : \A m \in Loops : Once(queue[m], x) => Once(queue'[m], x)
        <5>1. queue[Base] # <<>>
          BY <2>1, Zenon DEF IsNext
        <5>2. Shortened(queue, queue', Base, Head(queue[Base]))
          BY <1>0, <2>3, <5>1, Popped, Zenon
        <5> QED  BY <5>2, Zenon DEF Shortened
      <4> QED  BY <1>0, <2>4, <2>7, <3>0, <3>2, <4>1, Zenon DEF OrderlyConn, Queued
    <3> QED  BY <3>1, <3>2
  <2> QED  BY <2>6, <2>8, Zenon DEF StaysOrderly
<1> QED  BY <1>1, <1>2, <1>3, <1>4, <1>5, <1>6 DEF LoopContinues

\* Stop(), called and run in the listening loop.
LEMMA StopOrderly ==
    ASSUME OrderlyState, spc = "idle", ~strained',
           \/ StopInside \/ StopInLoop \/ StopInLoopReturns
           \/ \E c \in Conns : StopConnection(c) \/ CloseFound(c)
    PROVE  StaysOrderly
<1>0. TypeOK /\ OrderlyServer /\ queue \in Queues /\ Base \in Loops
  BY Basics, Zenon DEF OrderlyState, RegInv, TypeOK, Queues
<1>1. ASSUME UNCHANGED <<queue, conn, closed, connections, loopOf, lpc>>, bpc' # "new",
             NEW d \in Conns
      PROVE  OrderlyConn(d)'
  <2>1. OrderlyConn(d)
    BY DEF OrderlyState
  <2> QED  BY <1>1, <2>1, Zenon DEF OrderlyConn, Queued
<1>2. CASE StopInside
  <2>1. OrderlyServer'
    BY <1>0, <1>2, Zenon DEF StopInside, OrderlyServer, Idle, Queued
  <2> QED  BY <1>1, <1>2, <2>1, Zenon DEF StopInside, StaysOrderly
<1>3. CASE StopInLoop
  <2>1. bpc = "stop" /\ UNCHANGED queue
    <3>1. ~IsNext(Base, "stop")
      <4> SUFFICES ASSUME IsNext(Base, "stop") PROVE FALSE
        BY Zenon
      <4>1. Head(queue[Base]) \in Functors /\ InSeq(queue[Base], Head(queue[Base]))
        BY <1>0, Popped, Zenon DEF IsNext, Shortened
      <4>2. Head(queue[Base]) = <<"stop", Base>>
        BY <4>1 DEF IsNext, Functors
      <4> QED  BY <1>0, <4>1, <4>2 DEF OrderlyServer, Queued
    <3> QED  BY <1>3, <3>1 DEF StopInLoop
  <2>2. status = "kStopping" /\ pool = "running" /\ callbacks = 0
    BY <1>0, <2>1, Zenon DEF OrderlyServer
  <2>3. CASE connections = {}
    <3>1. /\ pool' = "null" /\ status' = "kStopped" /\ callbacks' = callbacks + 1
          /\ aborted' = aborted /\ listener' = "null" /\ bpc' = "idle" /\ connections' = connections
      BY <1>3, <2>2, <2>3, Zenon DEF StopInLoop, StopThreadPool
    <3>2. OrderlyServer'
      BY <1>0, <2>1, <2>2, <2>3, <3>1, SMTT(20) DEF OrderlyServer, Queued
    <3> QED  BY <1>1, <1>3, <2>1, <3>1, <3>2, Zenon DEF StopInLoop, StaysOrderly
  <2>4. CASE connections # {}
    <3>1. UNCHANGED serverVars /\ listener' = "null" /\ bpc' = "sweep" /\ connections' = connections
      BY <1>3, <2>4, Zenon DEF StopInLoop
    <3>2. OrderlyServer'
      BY <1>0, <2>1, <2>2, <3>1 DEF OrderlyServer, Queued, serverVars
    <3> QED  BY <1>1, <1>3, <2>1, <3>1, <3>2 DEF StopInLoop, StaysOrderly
  <2> QED  BY <2>3, <2>4
<1>4. CASE StopInLoopReturns
  <2>1. OrderlyServer'
    BY <1>0, <1>4 DEF StopInLoopReturns, OrderlyServer, Queued
  <2> QED  BY <1>1, <1>4, <2>1, Zenon DEF StopInLoopReturns, StaysOrderly
<1>5. ASSUME NEW c \in Conns, StopConnection(c) PROVE StaysOrderly
  <2>1. /\ UNCHANGED <<serverVars, listener, bpc, connections, closed, loopOf, lpc>>
        /\ current' \subseteq current /\ bpc = "sweep"
    BY <1>5 DEF StopConnection
  <2>2. CASE UNCHANGED <<conn, queue>>
    <3>1. OrderlyServer'
      BY <1>0, <2>1, <2>2, ServerStays DEF ServerKeeps
    <3> QED  BY <1>1, <2>1, <2>2, <3>1, Zenon DEF StaysOrderly
  <2>3. CASE conn[c] = "kConnected" /\ Close(c)
    BY <2>1, <2>3, CallCloseOrderly, Zenon
  <2> QED  BY <1>5, <2>2, <2>3, Zenon DEF StopConnection
<1>6. ASSUME NEW c \in Conns, CloseFound(c) PROVE StaysOrderly
  BY <1>6, CallCloseOrderly, Zenon DEF CloseFound
<1> QED  BY <1>2, <1>3, <1>4, <1>5, <1>6, Zenon

\* Orderly is never regained.
LEMMA OrderlyBefore ==
    ASSUME TypeOK, Next, Orderly'
    PROVE  Orderly /\ ~StopStores /\ ~StopContinues
<1>1. ~StopStores /\ ~StopContinues
  BY DEF Orderly, StopStores, StopContinues, StopStoresSub, StopQueues
<1>2. spc = "idle"
  BY <1>1, Zenon DEF Orderly, Next, InitServer, StartPool, StartAccepting, HandleAccept,
     PeerCloses, UserCloses,
         StopInside, BaseContinues, StopInLoop, StopInLoopReturns, RunAccept, RunRemove,
         StopConnection,
         CloseFound, HandleNewConn, AnnounceFails, LoopContinues, RunAttach, RunClose, CloseReturns
<1>3. ~strained
  <2>1. ASSUME NEW c \in Conns, CloseFound(c) PROVE ~strained
    BY <2>1, Zenon DEF CloseFound, Orderly, TypeOK
  <2>2. ASSUME NEW l \in Loops, HandleNewConn(l) PROVE ~strained
    BY <2>2 DEF HandleNewConn, Orderly
  <2> QED  BY <1>1, <2>1, <2>2, Zenon DEF Orderly, Next, InitServer, StartPool, StartAccepting,
     HandleAccept,
              PeerCloses, UserCloses, StopInside, BaseContinues, StopInLoop, StopInLoopReturns,
              RunAccept,
              RunRemove, AnnounceFails, StopConnection, LoopContinues, RunAttach, RunClose, CloseReturns, setup
<1> QED  BY <1>1, <1>2, <1>3 DEF Orderly

\* The server and its connections stay in step as long as the use is orderly.
LEMMA OrderlyInvariant == Spec => [](RegInv /\ OrderlyInv)
<1>1. Init => OrderlyInv
  <2> SUFFICES ASSUME Init PROVE OrderlyServer /\ \A c \in Conns : OrderlyConn(c)
    BY DEF OrderlyInv
  <2>1. \A l \in Loops : queue[l] = <<>> /\ \A x : ~InSeq(queue[l], x) /\ Once(queue[l], x)
    BY DEF Init, InSeq, Once
  <2> QED  BY <2>1, Basics DEF Init, OrderlyServer, OrderlyConn, Queued
<1>2. ASSUME RegInv, OrderlyInv, [Next]_vars PROVE OrderlyInv'
  <2>1. CASE UNCHANGED vars
    BY <1>2, <2>1, Zenon DEF OrderlyInv, Orderly, OrderlyServer, OrderlyConn, Queued, vars
  <2>2. CASE Next
    <3> SUFFICES ASSUME Orderly' PROVE StaysOrderly
      BY DEF OrderlyInv, StaysOrderly
    <3>1. Orderly /\ ~StopStores /\ ~StopContinues
      BY <1>2, <2>2, OrderlyBefore DEF RegInv
    <3>2. OrderlyState
      BY <1>2, <3>1 DEF OrderlyInv, OrderlyState
    <3>3. spc = "idle" /\ ~strained'
      BY <3>1 DEF Orderly
    <3>4. ~AnnounceFails
      BY <3>2 DEF AnnounceFails, OrderlyState, OrderlyServer
    <3> QED  BY <2>2, <3>1, <3>2, <3>3, <3>4, StartOrderly, AcceptOrderly, LoopOrderly, StopOrderly
             DEF Next, BaseContinues
  <2> QED  BY <1>2, <2>1, <2>2, Zenon
<1> QED  BY <1>1, <1>2, InitReg, RegStep, PTL DEF Spec

\* The asserts of HandleNewConn(), RemoveConnection(), StopThreadPool() and FdChannel::Close()
\* hold in a server that its listening loop stops, for any number of connections and loops.
THEOREM ServerAssertsHold == Spec => []AssertsHold
<1>1. OrderlyInv => AssertsHold
  BY DEF OrderlyInv, OrderlyServer, AssertsHold
<1> QED  BY <1>1, OrderlyInvariant, PTL

\* on_stopped_cb is called once, by a server that has no connection, no pool and no listener
\* left.
THEOREM CallbackComesLast == Spec => []CallbackWhenStopped
<1>1. RegInv /\ OrderlyInv => CallbackWhenStopped
  <2> SUFFICES ASSUME RegInv, OrderlyInv, Orderly
               PROVE  /\ callbacks <= 1
                      /\ status = "kStopped" => callbacks = 1
                      /\ callbacks > 0 => /\ connections = {} /\ pool = "null" /\ listener = "null"
                                          /\ \A c \in Conns : conn[c] \notin {"new", "kConnected"}
    BY DEF CallbackWhenStopped
  <2>1. /\ status = "kStopped" => connections = {} /\ pool = "null" /\ listener = "null" /\ callbacks = 1
        /\ status # "kStopped" => callbacks = 0
    BY Zenon DEF OrderlyInv, OrderlyServer
  <2>2. \A c \in Conns : conn[c] \in {"new", "kConnected"} => c \in connections
    BY Zenon DEF RegInv, RegisteredConn, Registered, OrderlyInv, OrderlyConn
  <2>3. status = "kStopped" => \A c \in Conns : conn[c] \notin {"new", "kConnected"}
    BY <2>1, <2>2, Zenon
  <2> QED  BY <2>1, <2>3
<1> QED  BY <1>1, OrderlyInvariant, PTL

\* connections_ is exact: it has every connection on its way in or alive, and of the closed ones
\* those whose removal is queued in the listening loop.
THEOREM ConnectionsAreExact == Spec => []ConnectionsAccounted
<1>1. RegInv /\ OrderlyInv => ConnectionsAccounted
  <2> SUFFICES ASSUME RegInv, OrderlyInv, Orderly, NEW c \in Conns
               PROVE  /\ conn[c] \in {"new", "kConnected"} => c \in connections
                      /\ c \in connections /\ c \in closed =>
                            \E k \in DOMAIN queue[Base] : queue[Base][k] = <<"remove", c>>
    BY Zenon DEF ConnectionsAccounted
  <2>1. conn[c] \in {"new", "kConnected"} => c \in connections
    BY Zenon DEF RegInv, RegisteredConn, Registered, OrderlyInv, OrderlyConn
  <2>2. c \in connections /\ c \in closed => InSeq(queue[Base], <<"remove", c>>)
    BY Zenon DEF OrderlyInv, OrderlyConn, Queued
  <2>3. DOMAIN queue[Base] = 1..Len(queue[Base])
    BY Basics DEF RegInv, TypeOK
  <2> QED  BY <2>1, <2>2, <2>3, Zenon DEF InSeq
<1> QED  BY <1>1, OrderlyInvariant, PTL
=============================================================================
