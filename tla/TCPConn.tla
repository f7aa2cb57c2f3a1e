------------------------------ MODULE TCPConn ------------------------------
(***************************************************************************)
(* eventpp::TCPConn (src/src/tcp/tcp_conn.cpp): one connection on one loop, *)
(* used from the loop thread and from others, with its FdChannel, its       *)
(* output buffer, the half-close delay, and the close protocol towards the  *)
(* user (conn_fn_) and the owner (close_fn_).                              *)
(*                                                                         *)
(* A handler of the loop thread is one step, except that HandleClose stops  *)
(* where it calls conn_fn_, in which the user may call the connection.     *)
(* The loop is kRunning, so that its thread's RunInLoop calls at once; its  *)
(* queue is the FIFO of module EventLoop.                                  *)
(***************************************************************************)
EXTENDS Integers, Sequences

CONSTANTS
    Threads,        \* user threads other than the loop's
    LoopThread,     \* the loop's own thread, in user code
    Messages,       \* what they send, each once
    MsgLen,         \* units in a message
    Space,          \* units the kernel's send buffer holds
    HighWaterMark,  \* high_water_mark_
    MaxIn,          \* bound: units the peer sends
    Types,          \* subset of {"kIncoming", "kOutgoing"}
    Delays          \* subset of BOOLEAN: close_delay_ is not zero

ASSUME ConnAssumption ==
    /\ LoopThread \notin Threads /\ 0 \notin Messages
    /\ MsgLen \in Nat \ {0} /\ Space \in Nat \ {0} /\ HighWaterMark \in Nat \ {0}
    /\ MaxIn \in Nat
    /\ Types \subseteq {"kIncoming", "kOutgoing"} /\ Delays \subseteq BOOLEAN

Channel == INSTANCE FdChannel

VARIABLES
    type,       \* type_
    delayed,    \* close_delay_ is not zero
    status,     \* status_
    chan,       \* *chan_
    output,     \* output_buffer_
    timer,      \* delay_close_timer_ is set
    queue,      \* the loop's pending functors that concern this connection
    lpc,        \* the loop thread: "idle", in "message" (msg_fn_), or "closing" (conn_fn_ of
                \* HandleClose)
    tpc,        \* per thread: "idle", "send" or "close" between the two halves of Send() or
                \* Close(), "done" after Close() (bound: a thread closes once)
    pendingWrite, \* HandleEvent has called read_fn_ and must look at write_fn_
    room,       \* free units of the kernel's send buffer
    peer,       \* "open", "eof" (shut down writing) or "reset"
    inbox,      \* units from the peer that wait in the kernel
    fromPeer,   \* bound: units the peer has sent
    owned,      \* the owner holds the TCPConnPtr
    freed,      \* the object has been destroyed
    aborted,    \* an assert failed or a deleted event was used
    tried,      \* history: messages handed to Send
    accepted,   \* history: messages that SendInLoop took, in order
    sent,       \* history: units given to the kernel, in order
    ups,        \* history: calls of conn_fn_ when connected
    downs,      \* history: calls of conn_fn_ when disconnecting
    closes,     \* history: calls of close_fn_
    late        \* history: a Close() came when status_ was kDisconnected, or a Send(data, len)
                \* inside conn_fn_ of HandleClose

net == <<room, peer, inbox, fromPeer>>
ups_downs == <<ups, downs, closes>>
vars == <<type, delayed, status, chan, output, timer, queue, lpc, tpc, pendingWrite, net,
          owned, freed, aborted, tried, accepted, sent, ups_downs, late>>

Statuses == {"kDisconnected", "kConnecting", "kConnected", "kDisconnecting"}
Functors == [op : {"attach", "close", "complete", "high"}, msg : {0}] \cup [op : {"send"}, msg : Messages]
Users == Threads \cup {LoopThread}
Units == Messages \X (1..MsgLen)

\* The type invariant: the buffer and the socket hold units of messages, and the queue
\* functors of this connection; status_ is one of the four of tcp_conn.hpp.
TypeOK ==
    /\ type \in Types /\ delayed \in Delays
    /\ status \in Statuses
    /\ chan \in Channel!Channels
    /\ output \in Seq(Units) /\ sent \in Seq(Units) /\ accepted \in Seq(Messages)
    /\ tried \subseteq Messages
    /\ timer \in BOOLEAN /\ pendingWrite \in BOOLEAN
    /\ queue \in Seq(Functors)
    /\ lpc \in {"idle", "message", "closing"} /\ tpc \in [Users -> {"idle", "send", "close", "done"}]
    /\ room \in 0..Space /\ fromPeer \in 0..MaxIn /\ inbox \in 0..fromPeer
    /\ peer \in {"open", "eof", "reset"}
    /\ owned \in BOOLEAN /\ freed \in BOOLEAN /\ aborted \in BOOLEAN
    /\ {ups, downs, closes} \subseteq Nat /\ late \in BOOLEAN

Functor(o, m) == [op |-> o, msg |-> m]

\* The owner has made the connection and queued OnAttachedToLoop for it.
Init ==
    /\ type \in Types /\ delayed \in Delays
    /\ delayed => type = "kIncoming"
    /\ status = "kDisconnected"
    /\ chan = Channel!NewChannel({})
    /\ output = <<>> /\ sent = <<>> /\ accepted = <<>> /\ tried = {}
    /\ timer = FALSE /\ pendingWrite = FALSE
    /\ queue = <<Functor("attach", 0)>>
    /\ lpc = "idle" /\ tpc = [t \in Users |-> "idle"]
    /\ room = Space /\ inbox = 0 /\ fromPeer = 0 /\ peer = "open"
    /\ owned = TRUE /\ freed = FALSE /\ aborted = FALSE
    /\ ups = 0 /\ downs = 0 /\ closes = 0 /\ late = FALSE

Live == ~aborted /\ ~freed

\* The loop thread is between two callbacks.
LoopIdle == Live /\ lpc = "idle" /\ ~pendingWrite

\* The loop thread is in user code, of this connection or of another.
InUserCode == Live /\ (lpc # "idle" \/ ~pendingWrite)

\* What belongs to the outside, or never changes after construction.
outside == <<type, delayed, peer, inbox, fromPeer, freed>>
others == <<outside, late>>

\* What sending changes.
stream == <<output, sent, accepted, room>>

-----------------------------------------------------------------------------
(* HandleClose.                                                            *)

CloseChannel(c) == Channel!Close(Channel!DisableAllEvent(c))

\* HandleClose() up to and including conn_fn_, once the "multi calling" test has passed
\* and status_ is kDisconnecting; a build without asserts gets to conn_fn_ a second time too.
HandleClose(c) ==
    /\ chan' = CloseChannel(c)
    /\ aborted' = chan'.bad
    /\ status' = "kDisconnecting"
    /\ timer' = FALSE
    /\ downs' = downs + 1
    /\ lpc' = "closing"
    /\ UNCHANGED <<ups, closes>>

\* Mutant: the owner is not told.
CloseForgetsOwner ==
    /\ Live /\ lpc = "closing"
    /\ status' = "kDisconnected"
    /\ lpc' = "idle"
    /\ UNCHANGED <<others, stream, chan, timer, queue, tpc, pendingWrite, owned, aborted, tried,
                   ups_downs>>

\* The rest of HandleClose, when conn_fn_ has returned: close_fn_, then kDisconnected.  The
\* TCPClient drops its pointer in close_fn_, the TCPServer later, in its own loop.
CloseReturns ==
    /\ Live /\ lpc = "closing"
    /\ closes' = closes + 1
    /\ owned' = (type = "kIncoming" /\ owned)
    /\ status' = "kDisconnected"
    /\ lpc' = "idle"
    /\ UNCHANGED <<others, stream, chan, timer, queue, tpc, pendingWrite, aborted, tried, ups,
                   downs>>

\* Close(), first half: status_ = kDisconnecting, whatever it was; users have the connection
\* from the first conn_fn_ on.  The loop thread does both halves at once.
StoreDisconnecting ==
    /\ ups > 0
    /\ late' = (late \/ status = "kDisconnected")
    /\ status' = "kDisconnecting"

CloseStores(t) ==
    /\ Live /\ tpc[t] = "idle" /\ StoreDisconnecting
    /\ tpc' = [tpc EXCEPT ![t] = "close"]
    /\ UNCHANGED <<outside, stream, chan, timer, queue, lpc, pendingWrite, owned, aborted,
                   tried, ups_downs>>

CloseQueues(t) ==
    /\ Live /\ tpc[t] = "close"
    /\ queue' = Append(queue, Functor("close", 0))
    /\ tpc' = [tpc EXCEPT ![t] = "done"]
    /\ UNCHANGED <<others, stream, status, chan, timer, lpc, pendingWrite, owned, aborted,
                   tried, ups_downs>>

CloseOnLoop ==
    /\ InUserCode /\ tpc[LoopThread] = "idle" /\ StoreDisconnecting
    /\ queue' = Append(queue, Functor("close", 0))
    /\ tpc' = [tpc EXCEPT ![LoopThread] = "done"]
    /\ UNCHANGED <<outside, stream, chan, timer, lpc, pendingWrite, owned, aborted, tried,
                   ups_downs>>

\* Mutant: "Avoid multi calling" is forgotten.
NeverClosedAlready == FALSE

ClosedAlready == status = "kDisconnected"

\* The functor of Close().
RunClose ==
    /\ LoopIdle /\ queue # <<>> /\ Head(queue).op = "close"
    /\ queue' = Tail(queue)
    /\ \/ ~ClosedAlready /\ HandleClose(chan)
       \/ ClosedAlready /\ UNCHANGED <<status, chan, timer, lpc, ups_downs, aborted>>
    /\ UNCHANGED <<others, stream, tpc, pendingWrite, owned, tried>>

\* OnAttachedToLoop(), from the queue.
RunAttach ==
    /\ LoopIdle /\ queue # <<>> /\ Head(queue).op = "attach"
    /\ queue' = Tail(queue)
    /\ status' = "kConnected"
    /\ chan' = Channel!EnableReadEvent(chan)
    /\ aborted' = chan'.bad
    /\ ups' = ups + 1
    /\ UNCHANGED <<others, stream, timer, lpc, tpc, pendingWrite, owned, tried, downs, closes>>

-----------------------------------------------------------------------------
(* Sending.                                                                *)

Message(m) == [k \in 1..MsgLen |-> <<m, k>>]

\* Send() from another thread: it sees kConnected, and then puts the message in the queue.
SendChecks(t) ==
    /\ Live /\ tpc[t] = "idle" /\ tried # Messages
    /\ status = "kConnected"
    /\ tpc' = [tpc EXCEPT ![t] = "send"]
    /\ UNCHANGED <<others, stream, status, chan, timer, queue, lpc, pendingWrite, owned,
                   aborted, tried, ups_downs>>

SendQueues(t, m) ==
    /\ Live /\ tpc[t] = "send" /\ m \notin tried
    /\ tried' = tried \cup {m}
    /\ queue' = Append(queue, Functor("send", m))
    /\ tpc' = [tpc EXCEPT ![t] = "idle"]
    /\ UNCHANGED <<others, stream, status, chan, timer, lpc, pendingWrite, owned, aborted,
                   ups_downs>>

\* The outcome of ::send(): the units taken (0 for a retriable error), or -1 for EPIPE and
\* ECONNRESET.
SendResult(len) == IF peer = "reset" THEN -1 ELSE IF len <= room THEN len ELSE room

\* Mutant: data is written at once although older data waits in the buffer.
AlwaysDirect == TRUE

WritesDirectly == ~Channel!IsWritable(chan) /\ output = <<>>

CrossesHighWater(old, new) == new >= HighWaterMark /\ old < HighWaterMark

\* Mutant: the rest of a message is buffered without asking for the write event.
BufferSilently(remaining) == chan

ChannelAfterSend(remaining) ==
    IF remaining = <<>> THEN chan ELSE Channel!EnableWriteEvent(chan)

\* SendInLoop() past its test of status_: write at once when nothing waits, buffer the rest
\* and ask for the write event, and queue write_complete_fn_ or high_water_mark_fn_ (both
\* are set); q is the queue so far.
SendInLoop(m, q) ==
    LET n         == IF WritesDirectly THEN SendResult(MsgLen) ELSE 0
        remaining == SubSeq(Message(m), n + 1, MsgLen)
        high      == CrossesHighWater(Len(output), Len(output) + Len(remaining))
    IN  \/ /\ n >= 0
           /\ sent' = sent \o SubSeq(Message(m), 1, n)
           /\ room' = room - n
           /\ accepted' = Append(accepted, m)
           /\ output' = output \o remaining
           /\ chan' = ChannelAfterSend(remaining)
           /\ aborted' = chan'.bad
           /\ queue' = IF remaining = <<>> THEN Append(q, Functor("complete", 0))
                       ELSE IF high THEN Append(q, Functor("high", 0)) ELSE q
           /\ UNCHANGED <<status, timer, lpc, ups_downs>>
        \/ /\ n < 0
           /\ HandleClose(chan)
           /\ queue' = q
           /\ UNCHANGED stream

\* Send() on the loop thread, from user code: the overloads for strings, slices and buffers
\* send only when kConnected, Send(data, len) also when kDisconnecting.
SendOnLoop(m) ==
    /\ InUserCode /\ m \notin tried /\ status # "kDisconnected"
    /\ late' = (late \/ lpc = "closing")
    /\ tried' = tried \cup {m}
    /\ SendInLoop(m, queue)
    /\ UNCHANGED <<outside, tpc, pendingWrite, owned>>

GivesUpWriting == status = "kDisconnected"

\* SendStringInLoop, from the queue.
RunSend ==
    /\ LoopIdle /\ queue # <<>> /\ Head(queue).op = "send"
    /\ \/ ~GivesUpWriting /\ SendInLoop(Head(queue).msg, Tail(queue))
       \/ /\ GivesUpWriting
          /\ queue' = Tail(queue)
          /\ UNCHANGED <<stream, status, chan, timer, lpc, ups_downs, aborted>>
    /\ UNCHANGED <<others, tpc, pendingWrite, owned, tried>>

\* write_complete_fn_ or high_water_mark_fn_, from the queue; the user's code in them is
\* SendOnLoop and CloseOnLoop.
RunCallback ==
    /\ LoopIdle /\ queue # <<>> /\ Head(queue).op \in {"complete", "high"}
    /\ queue' = Tail(queue)
    /\ UNCHANGED <<others, stream, status, chan, timer, lpc, tpc, pendingWrite, owned, aborted,
                   tried, ups_downs>>

-----------------------------------------------------------------------------
(* FdChannel::HandleEvent: read_fn_, then write_fn_ unless Close() has cleared it. *)

Readable == chan.attached /\ "read" \in chan.events /\ (inbox > 0 \/ peer # "open")
Writable == chan.attached /\ "write" \in chan.events /\ (room > 0 \/ peer = "reset")

\* HandleRead(), n == 0, incoming: close at once (DelayClose), or when the timer fires.
HandleHalfClose ==
    /\ type = "kIncoming"
    /\ \/ ~delayed /\ HandleClose(Channel!DisableReadEvent(chan))
       \/ /\ delayed
          /\ chan' = Channel!DisableReadEvent(chan)
          /\ aborted' = chan'.bad
          /\ timer' = TRUE
          /\ UNCHANGED <<status, lpc, ups_downs>>

HandleRead ==
    /\ LoopIdle /\ Readable
    /\ pendingWrite' = Writable
    /\ \/ /\ peer # "reset" /\ inbox > 0
          /\ inbox' = 0
          /\ lpc' = "message"
          /\ UNCHANGED <<status, chan, timer, aborted, ups_downs>>
       \/ /\ peer = "eof" /\ inbox = 0
          /\ \/ type = "kOutgoing" /\ HandleClose(chan)
             \/ HandleHalfClose
          /\ UNCHANGED inbox
       \/ /\ peer = "reset"
          /\ HandleClose(chan)
          /\ UNCHANGED inbox
    /\ UNCHANGED <<type, delayed, peer, fromPeer, freed, stream, queue, tpc, owned, tried, late>>

MessageReturns ==
    /\ Live /\ lpc = "message"
    /\ lpc' = "idle"
    /\ UNCHANGED <<others, stream, status, chan, timer, queue, tpc, pendingWrite, owned,
                   aborted, tried, ups_downs>>

\* HandleWrite(), after HandleRead in the same event or for an event of its own.
HandleWrite ==
    LET n    == SendResult(Len(output))
        rest == SubSeq(output, n + 1, Len(output))
        done == n > 0 /\ rest = <<>>
    IN  /\ Live /\ lpc = "idle"
        /\ (pendingWrite /\ chan.event) \/ (~pendingWrite /\ Writable /\ ~Readable)
        /\ pendingWrite' = FALSE
        /\ \/ /\ n >= 0
              /\ output' = rest
              /\ sent' = sent \o SubSeq(output, 1, n)
              /\ room' = room - n
              /\ chan' = IF done THEN Channel!DisableWriteEvent(chan) ELSE chan
              /\ aborted' = (chan'.bad \/ (chan.attached /\ ~Channel!IsWritable(chan)))
              /\ queue' = IF done THEN Append(queue, Functor("complete", 0)) ELSE queue
              /\ UNCHANGED <<status, timer, lpc, ups_downs, accepted>>
           \/ /\ n < 0
              /\ HandleClose(chan)
              /\ UNCHANGED <<stream, queue>>
        /\ UNCHANGED <<others, tpc, owned, tried>>

\* write_fn_ is empty: HandleClose ran in read_fn_.
WriteSkipped ==
    /\ Live /\ lpc = "idle" /\ pendingWrite /\ ~chan.event
    /\ pendingWrite' = FALSE
    /\ UNCHANGED <<others, stream, status, chan, timer, queue, lpc, tpc, owned, aborted, tried,
                   ups_downs>>

\* DelayClose(), from delay_close_timer_.
DelayClose ==
    /\ LoopIdle /\ timer
    /\ HandleClose(chan)
    /\ UNCHANGED <<others, stream, queue, tpc, pendingWrite, owned, tried>>

-----------------------------------------------------------------------------
(* The owner, the kernel and the peer.                                     *)

\* TCPServer::RemoveConnection in the server's loop.
OwnerReleases ==
    /\ Live /\ owned /\ closes > 0
    /\ owned' = FALSE
    /\ UNCHANGED <<others, stream, status, chan, timer, queue, lpc, tpc, pendingWrite, aborted,
                   tried, ups_downs>>

\* ~TCPConn and ~FdChannel, when the last TCPConnPtr goes: the functors and the threads
\* inside a call hold one, and so does the frame of HandleClose.
Destroy ==
    /\ Live /\ ~owned /\ lpc = "idle" /\ queue = <<>> /\ ~timer
    /\ \A t \in Users : tpc[t] \notin {"send", "close"}
    /\ freed' = TRUE
    /\ aborted' = (status # "kDisconnected" \/ chan.events # {} \/ chan.event)
    /\ UNCHANGED <<type, delayed, peer, inbox, fromPeer, stream, status, chan, timer, queue,
                   lpc, tpc, pendingWrite, owned, tried, ups_downs, late>>

KernelSends ==
    /\ Live /\ room < Space /\ peer # "reset"
    /\ room' = Space
    /\ UNCHANGED <<others, status, chan, output, timer, queue, lpc, tpc, pendingWrite, owned,
                   aborted, tried, accepted, sent, ups_downs>>

PeerSends ==
    /\ Live /\ peer = "open" /\ fromPeer < MaxIn
    /\ inbox' = inbox + 1 /\ fromPeer' = fromPeer + 1
    /\ UNCHANGED <<type, delayed, peer, freed, stream, status, chan, timer, queue, lpc, tpc,
                   pendingWrite, owned, aborted, tried, ups_downs, late>>

PeerGoes(p) ==
    /\ Live /\ peer # "reset" /\ peer # p
    /\ peer' = p
    /\ inbox' = IF p = "reset" THEN 0 ELSE inbox
    /\ UNCHANGED <<type, delayed, fromPeer, freed, stream, status, chan, timer, queue, lpc,
                   tpc, pendingWrite, owned, aborted, tried, ups_downs, late>>

\* What the loop's thread does by itself, once it is started.
LoopContinues ==
    \/ RunAttach \/ RunSend \/ RunClose \/ RunCallback
    \/ HandleRead \/ MessageReturns \/ HandleWrite \/ WriteSkipped \/ DelayClose
    \/ CloseReturns

Next ==
    \/ LoopContinues
    \/ CloseOnLoop
    \/ \E t \in Threads : CloseStores(t) \/ CloseQueues(t) \/ SendChecks(t)
    \/ \E t \in Threads, m \in Messages : SendQueues(t, m)
    \/ \E m \in Messages : SendOnLoop(m)
    \/ OwnerReleases \/ Destroy
    \/ KernelSends \/ PeerSends \/ PeerGoes("eof") \/ PeerGoes("reset")

Spec == Init /\ [][Next]_vars

\* The loop's thread runs, a thread inside a call finishes it, the kernel sends what it holds.
FairSpec ==
    /\ Spec
    /\ WF_vars(LoopContinues)
    /\ \A t \in Threads : WF_vars(CloseQueues(t)) /\ WF_vars(\E m \in Messages : SendQueues(t, m))
    /\ WF_vars(KernelSends)

-----------------------------------------------------------------------------
(* Properties.                                                             *)

\* As long as no Close() came when status_ was already kDisconnected, and no Send(data, len)
\* inside conn_fn_ of HandleClose, no assert of TCPConn or FdChannel fails and no deleted event
\* is used, whatever the order of Close(), Send(), peer events and the delay timer; the asserts
\* of both destructors hold when the last pointer goes (tcp_conn.cpp:29-40, fd_channel.cpp:28).
AssertsHold == ~late => ~aborted

\* What was sent followed by what is buffered is exactly the messages SendInLoop took, in
\* order and whole: direct writes never overtake the buffer and a partial write loses
\* nothing (tcp_conn.cpp:144-193, 257-262).
StreamIntact ==
    LET all == sent \o output
    IN  /\ Len(all) = Len(accepted) * MsgLen
        /\ \A i \in 1..Len(accepted), k \in 1..MsgLen :
              all[(i - 1) * MsgLen + k] = Message(accepted[i])[k]

\* Until then, and while the channel lives, data waits in the output buffer exactly when the write event is
\* asked for, and the channel is in the loop exactly when it asks for something; otherwise
\* output would wait for ever or the loop would spin (tcp_conn.cpp:189-192, 260-264).
NoStuckOutput ==
    ~late /\ chan.event => /\ output # <<>> <=> Channel!IsWritable(chan)
                           /\ chan.attached <=> chan.events # {}

\* As long as no Close() has stored kDisconnecting over kDisconnected (tcp_conn.cpp:46), the user
\* hears of the connection once when it comes and once when it goes, in that order, and the owner
\* once, after the user, however many of Close(), the peer, an error and the delay timer race
\* (tcp_conn.cpp:300-338).
CloseOnce == ~late =>
    /\ ups <= 1 /\ downs <= ups /\ closes <= downs
    /\ ups = 1 /\ status = "kDisconnected" => closes = 1

\* Once the user has been told that the connection goes, no queued or racing Send() writes
\* to its socket or buffers anything, unless a call came late (tcp_conn.cpp:133-137).
NothingSentAfterDown == [][downs > 0 /\ ~late' => UNCHANGED <<sent, accepted, output>>]_vars

\* A Close() that took effect, from any thread, ends in kDisconnected.
DisconnectCompletes == status = "kDisconnecting" ~> (status = "kDisconnected" \/ late)

\* When the peer has gone, by a half-close or a reset, the connection is closed in the end,
\* by the read event or the delay timer (tcp_conn.cpp:205-236).
PeerGoneCloses == (peer # "open" /\ ups > 0) ~> (status = "kDisconnected" \/ late)

\* Buffered output reaches the kernel or the connection closes (tcp_conn.cpp:252-271), unless a
\* call came late.
OutputDrains == output # <<>> ~> (output = <<>> \/ status = "kDisconnected" \/ late)

\* What the asserts say, whenever Close() and Send(data, len) are called.
NeverAborts == ~aborted

\* What "Avoid multi calling" (tcp_conn.cpp:300) is for, whenever Close() is called.
AlwaysClosesOnce == downs <= 1
=============================================================================
