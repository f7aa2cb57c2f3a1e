--------------------------- MODULE TCPConnProofs ----------------------------
(***************************************************************************)
(* Proofs about TCPConn, for any threads, messages, lengths and buffer     *)
(* sizes: types, that the stream of a connection stays intact, and the     *)
(* four phases of a connection with what follows from them.                *)
(***************************************************************************)
EXTENDS TCPConn, TLAPS

-----------------------------------------------------------------------------
(* The stream: the types are an inductive invariant, and it rests on them.*)

\* What the operations of FdChannel do to the fields.
LEMMA ChannelFields ==
  ASSUME NEW c \in Channel!Channels
  PROVE  /\ \A E \in SUBSET {"read", "write"} :
               LET d == [c EXCEPT !.events = E]
               IN  d \in Channel!Channels /\ d.events = E /\ d.attached = c.attached
                   /\ d.event = c.event /\ d.bad = c.bad
         /\ LET d == Channel!DetachFromLoop(c)
            IN  d \in Channel!Channels /\ d.events = c.events /\ ~d.attached /\ d.event = c.event
                /\ (d.bad <=> c.bad \/ ~c.attached \/ ~c.event)
         /\ LET d == Channel!AttachToLoop(c)
            IN  d \in Channel!Channels /\ d.events = c.events /\ d.attached /\ d.event = c.event
                /\ (d.bad <=> c.bad \/ c.events = {} \/ ~c.event)
         /\ LET d == Channel!Close(c)
            IN  d \in Channel!Channels /\ d.events = c.events /\ d.attached = c.attached /\ ~d.event
                /\ (d.bad <=> c.bad \/ c.attached \/ ~c.event)
  BY Zenon DEF Channel!Channels, Channel!DetachFromLoop, Channel!AttachToLoop, Channel!Close

\* A message is a sequence of MsgLen units.
LEMMA MessageUnits ==
  ASSUME NEW m \in Messages
  PROVE  /\ Message(m) \in Seq(Units) /\ Len(Message(m)) = MsgLen
         /\ \A k \in 1..MsgLen : Message(m)[k] = <<m, k>>
  BY ConnAssumption DEF Message, Units

\* What the operators on sequences give, in the form the proofs below use.
LEMMA SameSeq ==
  ASSUME NEW S, NEW s \in Seq(S), NEW t \in Seq(S), Len(s) = Len(t),
         \A i \in 1..Len(s) : s[i] = t[i]
  PROVE  s = t
  OBVIOUS

LEMMA CatFacts ==
  ASSUME NEW S, NEW s \in Seq(S), NEW t \in Seq(S)
  PROVE  /\ s \o t \in Seq(S) /\ Len(s \o t) = Len(s) + Len(t)
         /\ \A i \in 1..(Len(s) + Len(t)) : (s \o t)[i] = IF i <= Len(s) THEN s[i] ELSE t[i - Len(s)]
  OBVIOUS

LEMMA AppendFacts ==
  ASSUME NEW S, NEW s \in Seq(S), NEW e \in S
  PROVE  /\ Append(s, e) \in Seq(S) /\ Len(Append(s, e)) = Len(s) + 1
         /\ Append(s, e)[Len(s) + 1] = e /\ \A i \in 1..Len(s) : Append(s, e)[i] = s[i]
  OBVIOUS

LEMMA HeadTailFacts ==
  ASSUME NEW S, NEW s \in Seq(S), s # <<>>
  PROVE  /\ Head(s) \in S /\ Tail(s) \in Seq(S) /\ Len(Tail(s)) = Len(s) - 1
         /\ \A i \in 1..Len(Tail(s)) : Tail(s)[i] = s[i + 1]
  OBVIOUS

\* A sequence that is cut in two is whole again when the parts are put together.
LEMMA CutSequence ==
  ASSUME NEW S, NEW s \in Seq(S), NEW n \in 0..Len(s)
  PROVE  /\ SubSeq(s, 1, n) \in Seq(S) /\ Len(SubSeq(s, 1, n)) = n
         /\ SubSeq(s, n + 1, Len(s)) \in Seq(S) /\ Len(SubSeq(s, n + 1, Len(s))) = Len(s) - n
         /\ SubSeq(s, 1, n) \o SubSeq(s, n + 1, Len(s)) = s
  <1> DEFINE a == SubSeq(s, 1, n)
             b == SubSeq(s, n + 1, Len(s))
  <1>1. a \in Seq(S) /\ Len(a) = n /\ \A i \in 1..n : a[i] = s[i]
    OBVIOUS
  <1>2. b \in Seq(S) /\ Len(b) = Len(s) - n /\ \A i \in 1..(Len(s) - n) : b[i] = s[n + i]
    OBVIOUS
  <1> HIDE DEF a, b
  <1>3. /\ a \o b \in Seq(S) /\ Len(a \o b) = Len(s)
        /\ \A i \in 1..Len(s) : (a \o b)[i] = IF i <= n THEN a[i] ELSE b[i - n]
    BY <1>1, <1>2, CatFacts, SMTT(20)
  <1>4. ASSUME NEW i \in 1..Len(s) PROVE (a \o b)[i] = s[i]
    BY <1>1, <1>2, <1>3
  <1>5. a \o b = s
    BY <1>3, <1>4, SameSeq, Zenon
  <1>6. QED
    BY <1>1, <1>2, <1>5, Zenon DEF a, b

\* ::send() takes no more than the socket buffer has room for.
LEMMA SendTakes ==
  ASSUME TypeOK, NEW len \in Nat
  PROVE  /\ SendResult(len) \in -1..len
         /\ SendResult(len) >= 0 => SendResult(len) <= room /\ peer # "reset"
         /\ SendResult(len) < 0 => peer = "reset"
  BY ConnAssumption DEF SendResult, TypeOK

\* The channel stays a channel.
LEMMA ChannelType ==
  ASSUME NEW c \in Channel!Channels
  PROVE  /\ \A E \in SUBSET {"read", "write"} : Channel!SetEvents(c, E) \in Channel!Channels
         /\ Channel!EnableReadEvent(c) \in Channel!Channels
         /\ Channel!EnableWriteEvent(c) \in Channel!Channels
         /\ Channel!DisableReadEvent(c) \in Channel!Channels
         /\ Channel!DisableWriteEvent(c) \in Channel!Channels
         /\ CloseChannel(c) \in Channel!Channels
         /\ c.bad \in BOOLEAN
  <1>1. ASSUME NEW d \in Channel!Channels, NEW E \in SUBSET {"read", "write"}
        PROVE  Channel!SetEvents(d, E) \in Channel!Channels
    <2> DEFINE e == [d EXCEPT !.events = E]
    <2>1. e \in Channel!Channels
      BY ChannelFields
    <2>2. Channel!SetEvents(d, E) \in {d, Channel!DetachFromLoop(e), Channel!AttachToLoop(e)}
      BY DEF Channel!SetEvents, Channel!Update
    <2> HIDE DEF e
    <2>3. QED
      BY <2>1, <2>2, ChannelFields
  <1>2. c.events \in SUBSET {"read", "write"} /\ c.bad \in BOOLEAN
    BY DEF Channel!Channels
  <1>3. /\ Channel!EnableReadEvent(c) \in Channel!Channels
        /\ Channel!EnableWriteEvent(c) \in Channel!Channels
        /\ Channel!DisableReadEvent(c) \in Channel!Channels
        /\ Channel!DisableWriteEvent(c) \in Channel!Channels
    BY <1>1, <1>2 DEF Channel!EnableReadEvent, Channel!EnableWriteEvent, Channel!DisableReadEvent,
                      Channel!DisableWriteEvent
  <1>4. CloseChannel(c) \in Channel!Channels
    BY <1>1, ChannelFields DEF CloseChannel, Channel!DisableAllEvent
  <1>5. QED
    BY <1>1, <1>2, <1>3, <1>4
-----------------------------------------------------------------------------
(* Types.                                                                  *)

\* HandleClose() keeps the types.
LEMMA HandleCloseTypes ==
  ASSUME TypeOK, NEW c \in Channel!Channels, HandleClose(c)
  PROVE  /\ chan' \in Channel!Channels /\ aborted' \in BOOLEAN
         /\ status' \in Statuses /\ timer' \in BOOLEAN
         /\ lpc' \in {"idle", "message", "closing"}
         /\ {ups, downs, closes}' \subseteq Nat
  <1>1. chan' \in Channel!Channels /\ chan'.bad \in BOOLEAN
    BY ChannelType DEF HandleClose
  <1>2. aborted' \in BOOLEAN
    BY <1>1 DEF HandleClose
  <1>3. ups' = ups /\ closes' = closes /\ downs' \in {downs, downs + 1}
    BY DEF HandleClose
  <1>4. {ups, downs, closes}' \subseteq Nat
    BY <1>3 DEF TypeOK
  <1>5. status' = "kDisconnecting" /\ timer' = FALSE /\ lpc' = "closing"
    BY DEF HandleClose
  <1>6. QED
    BY <1>1, <1>2, <1>4, <1>5, Zenon DEF Statuses

\* The functors that the actions queue.
LEMMA FunctorTypes ==
  /\ \A o \in {"attach", "close", "complete", "high"} : Functor(o, 0) \in Functors
  /\ \A m \in Messages : Functor("send", m) \in Functors
  BY DEF Functor, Functors

\* SendInLoop() keeps the types.
LEMMA SendInLoopTypes ==
  ASSUME TypeOK, NEW m \in Messages, NEW q \in Seq(Functors), SendInLoop(m, q)
  PROVE  /\ sent' \in Seq(Units) /\ output' \in Seq(Units) /\ accepted' \in Seq(Messages)
         /\ room' \in 0..Space /\ queue' \in Seq(Functors)
         /\ chan' \in Channel!Channels /\ aborted' \in BOOLEAN
         /\ status' \in Statuses /\ timer' \in BOOLEAN
         /\ lpc' \in {"idle", "message", "closing"}
         /\ {ups, downs, closes}' \subseteq Nat
  <1> DEFINE n == IF WritesDirectly THEN SendResult(MsgLen) ELSE 0
             remaining == SubSeq(Message(m), n + 1, MsgLen)
             taken == SubSeq(Message(m), 1, n)
  <1>1. n \in -1..MsgLen /\ (n >= 0 => n <= room)
    <2>1. MsgLen \in Nat /\ room \in Nat
      BY ConnAssumption DEF TypeOK
    <2>2. SendResult(MsgLen) \in -1..MsgLen /\ (SendResult(MsgLen) >= 0 => SendResult(MsgLen) <= room)
      BY <2>1, SendTakes
    <2>3. QED
      BY <2>1, <2>2
  <1>2. Message(m) \in Seq(Units) /\ Len(Message(m)) = MsgLen
    BY MessageUnits
  <1>3. CASE n >= 0
    <2>1. taken \in Seq(Units) /\ remaining \in Seq(Units)
      BY <1>1, <1>2, <1>3, CutSequence, ConnAssumption
    <2>2. /\ sent' = sent \o taken /\ room' = room - n /\ accepted' = Append(accepted, m)
          /\ output' = output \o remaining /\ chan' = ChannelAfterSend(remaining)
          /\ aborted' = chan'.bad
          /\ \/ queue' = q
             \/ queue' = Append(q, Functor("complete", 0))
             \/ queue' = Append(q, Functor("high", 0))
          /\ UNCHANGED <<status, timer, lpc, ups_downs>>
      <3> USE DEF SendInLoop
      <3> HIDE DEF n
      <3>1. ~(n < 0)
        BY <1>1, <1>3
      <3> QED
        BY <3>1, Zenon DEF n
    <2> HIDE DEF taken, remaining, n
    <2>3. chan' \in Channel!Channels /\ chan'.bad \in BOOLEAN
      <3>1. chan \in Channel!Channels /\ (chan' = chan \/ chan' = Channel!EnableWriteEvent(chan))
        BY <2>2 DEF ChannelAfterSend, TypeOK
      <3>2. QED
        BY <3>1, ChannelType
    <2>4. aborted' \in BOOLEAN
      BY <2>2, <2>3
    <2>5. queue' \in Seq(Functors)
      <3>1. Functor("complete", 0) \in Functors /\ Functor("high", 0) \in Functors
        BY FunctorTypes
      <3>2. Append(q, Functor("complete", 0)) \in Seq(Functors) /\ Append(q, Functor("high", 0)) \in Seq(Functors)
        BY <3>1, AppendFacts
      <3>3. QED
        BY <2>2, <3>2, Zenon
    <2>6. sent' \in Seq(Units) /\ output' \in Seq(Units) /\ accepted' \in Seq(Messages)
      BY <2>1, <2>2, CatFacts, AppendFacts DEF TypeOK
    <2>7. room' \in 0..Space
      BY <1>1, <1>3, <2>2, ConnAssumption DEF TypeOK
    <2>8. QED
      BY <2>2, <2>3, <2>4, <2>5, <2>6, <2>7 DEF TypeOK, ups_downs
  <1>4. CASE n < 0
    <2>1. HandleClose(chan) /\ queue' = q /\ UNCHANGED stream
      BY <1>1, <1>4 DEF SendInLoop
    <2>2. chan \in Channel!Channels
      BY DEF TypeOK
    <2>3. QED
      BY <2>1, <2>2, HandleCloseTypes DEF TypeOK, stream
  <1>5. QED
    BY <1>1, <1>3, <1>4
\* The head and the rest of the queue.
LEMMA HeadTypes ==
  ASSUME TypeOK, queue # <<>>
  PROVE  /\ Tail(queue) \in Seq(Functors) /\ Head(queue) \in Functors
         /\ Head(queue).op = "send" => Head(queue).msg \in Messages
  <1>1. Tail(queue) \in Seq(Functors) /\ Head(queue) \in Functors
    BY HeadTailFacts DEF TypeOK
  <1>2. ASSUME NEW f \in Functors, f.op = "send" PROVE f.msg \in Messages
    BY <1>2 DEF Functors
  <1>3. QED
    BY <1>1, <1>2

\* HandleWrite() keeps the types.
LEMMA HandleWriteTypes ==
  ASSUME TypeOK, HandleWrite
  PROVE  TypeOK'
  <1> DEFINE n == SendResult(Len(output))
             rest == SubSeq(output, n + 1, Len(output))
             taken == SubSeq(output, 1, n)
             done == n > 0 /\ rest = <<>>
  <1>1. Len(output) \in Nat /\ output \in Seq(Units) /\ room \in 0..Space /\ chan \in Channel!Channels
    BY DEF TypeOK
  <1>2. n \in -1..Len(output) /\ (n >= 0 => n <= room)
    BY <1>1, SendTakes
  <1>3. pendingWrite' = FALSE /\ UNCHANGED <<others, tpc, owned, tried>>
    BY DEF HandleWrite
  <1>4. CASE n >= 0
    <2>1. /\ output' = rest /\ sent' = sent \o taken /\ room' = room - n
          /\ (chan' = chan \/ chan' = Channel!DisableWriteEvent(chan))
          /\ aborted' = (chan'.bad \/ (chan.attached /\ ~Channel!IsWritable(chan)))
          /\ (queue' = queue \/ queue' = Append(queue, Functor("complete", 0)))
          /\ UNCHANGED <<status, timer, lpc, ups_downs, accepted>>
      <3> HIDE DEF n
      <3>1. ~(n < 0)
        BY <1>2, <1>4
      <3> QED
        BY <3>1, Zenon DEF n, HandleWrite
    <2>2. rest \in Seq(Units) /\ taken \in Seq(Units)
      BY <1>1, <1>2, <1>4, CutSequence
    <2> HIDE DEF n, rest, taken
    <2>3. output' \in Seq(Units) /\ sent' \in Seq(Units)
      BY <2>1, <2>2, CatFacts DEF TypeOK
    <2>4. room' \in 0..Space
      BY <1>1, <1>2, <1>4, <2>1, ConnAssumption
    <2>5. chan' \in Channel!Channels
      BY <1>1, <2>1, ChannelType
    <2>6. aborted' \in BOOLEAN
      BY <2>1, Zenon
    <2>7. queue' \in Seq(Functors)
      <3>1. Functor("complete", 0) \in Functors
        BY FunctorTypes
      <3>2. Append(queue, Functor("complete", 0)) \in Seq(Functors)
        BY <3>1, AppendFacts DEF TypeOK
      <3>3. QED
        BY <2>1, <3>2, Zenon DEF TypeOK
    <2>8. QED
      BY <1>3, <2>1, <2>3, <2>4, <2>5, <2>6, <2>7, Zenon DEF TypeOK, others, outside, ups_downs
  <1>5. CASE n < 0
    <2>1. HandleClose(chan) /\ UNCHANGED <<stream, queue>>
      BY <1>2, <1>5 DEF HandleWrite
    <2>2. QED
      BY <1>1, <1>3, <2>1, HandleCloseTypes, Zenon DEF TypeOK, stream, others, outside
  <1>6. QED
    BY <1>2, <1>4, <1>5

\* HandleRead() keeps the types.
LEMMA HandleReadTypes ==
  ASSUME TypeOK, HandleRead
  PROVE  TypeOK'
  <1>1. UNCHANGED <<type, delayed, peer, fromPeer, freed, stream, queue, tpc, owned, tried, late>>
    BY DEF HandleRead
  <1>2. pendingWrite' \in BOOLEAN
    BY Zenon DEF HandleRead, Writable
  <1>3. inbox' \in 0..fromPeer'
    BY ConnAssumption DEF HandleRead, TypeOK
  <1>4. chan \in Channel!Channels /\ Channel!DisableReadEvent(chan) \in Channel!Channels
    BY ChannelType DEF TypeOK
  <1>5. \/ HandleClose(chan)
        \/ HandleClose(Channel!DisableReadEvent(chan))
        \/ /\ chan' = Channel!DisableReadEvent(chan) /\ aborted' = chan'.bad /\ timer' = TRUE
           /\ UNCHANGED <<status, lpc, ups_downs>>
        \/ lpc' = "message" /\ UNCHANGED <<status, chan, timer, aborted, ups_downs>>
    BY DEF HandleRead, HandleHalfClose
  <1>6. /\ chan' \in Channel!Channels /\ aborted' \in BOOLEAN
        /\ status' \in Statuses /\ timer' \in BOOLEAN
        /\ lpc' \in {"idle", "message", "closing"}
        /\ {ups, downs, closes}' \subseteq Nat
    <2>1. CASE HandleClose(chan)
      BY <1>4, <2>1, HandleCloseTypes
    <2>2. CASE HandleClose(Channel!DisableReadEvent(chan))
      BY <1>4, <2>2, HandleCloseTypes
    <2>3. CASE /\ chan' = Channel!DisableReadEvent(chan) /\ aborted' = chan'.bad /\ timer' = TRUE
               /\ UNCHANGED <<status, lpc, ups_downs>>
      <3>1. chan' \in Channel!Channels /\ chan'.bad \in BOOLEAN
        BY <1>4, <2>3, ChannelType
      <3>2. QED
        BY <2>3, <3>1 DEF TypeOK, ups_downs
    <2>4. CASE lpc' = "message" /\ UNCHANGED <<status, chan, timer, aborted, ups_downs>>
      BY <2>4 DEF TypeOK, ups_downs
    <2>5. QED
      BY <1>5, <2>1, <2>2, <2>3, <2>4, Zenon
  <1>7. QED
    BY <1>1, <1>2, <1>3, <1>6 DEF TypeOK, stream
\* Every step keeps the types.
LEMMA StepTypeOK ==
  ASSUME TypeOK, [Next]_vars
  PROVE  TypeOK'
  <1> USE DEF others, outside, stream, ups_downs
  <1>0. ASSUME NEW t \in Users, NEW v \in {"idle", "send", "close", "done"}
        PROVE  [tpc EXCEPT ![t] = v] \in [Users -> {"idle", "send", "close", "done"}]
    BY DEF TypeOK
  <1>1. CASE RunAttach
    <2>1. Tail(queue) \in Seq(Functors)
      BY <1>1, HeadTypes DEF RunAttach
    <2>2. chan' \in Channel!Channels /\ chan'.bad \in BOOLEAN
      BY <1>1, ChannelType DEF RunAttach, TypeOK
    <2>3. aborted' \in BOOLEAN
      BY <1>1, <2>2 DEF RunAttach
    <2>4. QED
      BY <1>1, <2>1, <2>2, <2>3, SMTT(20) DEF RunAttach, TypeOK, Statuses
  <1>2. CASE RunSend
    <2>1. queue # <<>> /\ Head(queue).op = "send" /\ UNCHANGED <<others, tpc, pendingWrite, owned, tried>>
      BY <1>2 DEF RunSend
    <2>2. Tail(queue) \in Seq(Functors) /\ Head(queue).msg \in Messages
      BY <2>1, HeadTypes
    <2>3. CASE SendInLoop(Head(queue).msg, Tail(queue))
      BY <2>1, <2>2, <2>3, SendInLoopTypes, Zenon DEF TypeOK
    <2>4. CASE queue' = Tail(queue) /\ UNCHANGED <<stream, status, chan, timer, lpc, ups_downs, aborted>>
      BY <2>1, <2>2, <2>4 DEF TypeOK
    <2>5. QED
      BY <1>2, <2>3, <2>4 DEF RunSend
  <1>3. CASE RunClose
    <2>1. /\ queue # <<>> /\ queue' = Tail(queue)
          /\ UNCHANGED <<others, stream, tpc, pendingWrite, owned, tried>>
      BY <1>3 DEF RunClose
    <2>2. Tail(queue) \in Seq(Functors) /\ chan \in Channel!Channels
      BY <2>1, HeadTypes DEF TypeOK
    <2>3. CASE HandleClose(chan)
      BY <2>1, <2>2, <2>3, HandleCloseTypes, SMTT(20) DEF TypeOK
    <2>4. CASE UNCHANGED <<status, chan, timer, lpc, ups_downs, aborted>>
      BY <2>1, <2>2, <2>4 DEF TypeOK
    <2>5. QED
      BY <1>3, <2>3, <2>4 DEF RunClose
  <1>4. CASE RunCallback
    <2>1. Tail(queue) \in Seq(Functors)
      BY <1>4, HeadTypes DEF RunCallback
    <2>2. QED
      BY <1>4, <2>1 DEF RunCallback, TypeOK
  <1>5. CASE HandleRead
    BY <1>5, HandleReadTypes
  <1>6. CASE HandleWrite
    BY <1>6, HandleWriteTypes
  <1>7. CASE MessageReturns
    BY <1>7 DEF MessageReturns, TypeOK
  <1>8. CASE WriteSkipped
    <2>1. pendingWrite' \in BOOLEAN
      BY <1>8, Zenon DEF WriteSkipped
    <2>2. QED
      BY <1>8, <2>1 DEF WriteSkipped, TypeOK
  <1>9. CASE DelayClose
    <2>1. chan \in Channel!Channels /\ HandleClose(chan)
      BY <1>9 DEF DelayClose, TypeOK
    <2>2. QED
      BY <1>9, <2>1, HandleCloseTypes DEF DelayClose, TypeOK
  <1>10. CASE CloseReturns
    <2>1. owned' \in BOOLEAN
      BY <1>10, Zenon DEF CloseReturns
    <2>2. QED
      BY <1>10, <2>1 DEF CloseReturns, TypeOK, Statuses
  <1>11. CASE CloseOnLoop
    <2>1. Append(queue, Functor("close", 0)) \in Seq(Functors)
      BY FunctorTypes, AppendFacts DEF TypeOK
    <2>2. tpc' \in [Users -> {"idle", "send", "close", "done"}]
      BY <1>0, <1>11, Zenon DEF CloseOnLoop, Users
    <2>3. late' \in BOOLEAN
      BY <1>11, Zenon DEF CloseOnLoop, StoreDisconnecting
    <2>4. QED
      BY <1>11, <2>1, <2>2, <2>3 DEF CloseOnLoop, StoreDisconnecting, TypeOK, Statuses
  <1>12. ASSUME NEW t \in Threads, CloseStores(t)
         PROVE  TypeOK'
    <2>1. tpc' \in [Users -> {"idle", "send", "close", "done"}]
      BY <1>0, <1>12 DEF CloseStores, Users
    <2>2. late' \in BOOLEAN
      BY <1>12, Zenon DEF CloseStores, StoreDisconnecting
    <2>3. QED
      BY <1>12, <2>1, <2>2 DEF CloseStores, StoreDisconnecting, TypeOK, Statuses
  <1>13. ASSUME NEW t \in Threads, CloseQueues(t)
         PROVE  TypeOK'
    <2>1. Append(queue, Functor("close", 0)) \in Seq(Functors)
      BY FunctorTypes, AppendFacts DEF TypeOK
    <2>2. tpc' \in [Users -> {"idle", "send", "close", "done"}]
      BY <1>0, <1>13, Zenon DEF CloseQueues, Users
    <2>3. QED
      BY <1>13, <2>1, <2>2 DEF CloseQueues, TypeOK
  <1>14. ASSUME NEW t \in Threads, SendChecks(t)
         PROVE  TypeOK'
    <2>1. tpc' \in [Users -> {"idle", "send", "close", "done"}]
      BY <1>0, <1>14 DEF SendChecks, Users
    <2>2. QED
      BY <1>14, <2>1 DEF SendChecks, TypeOK
  <1>15. ASSUME NEW t \in Threads, NEW m \in Messages, SendQueues(t, m)
         PROVE  TypeOK'
    <2>1. Append(queue, Functor("send", m)) \in Seq(Functors)
      BY FunctorTypes, AppendFacts DEF TypeOK
    <2>2. tpc' \in [Users -> {"idle", "send", "close", "done"}]
      BY <1>0, <1>15, Zenon DEF SendQueues, Users
    <2>3. QED
      BY <1>15, <2>1, <2>2 DEF SendQueues, TypeOK
  <1>16. ASSUME NEW m \in Messages, SendOnLoop(m)
         PROVE  TypeOK'
    <2>1. SendInLoop(m, queue) /\ queue \in Seq(Functors)
      BY <1>16 DEF SendOnLoop, TypeOK
    <2>2. late' \in BOOLEAN
      BY <1>16, Zenon DEF SendOnLoop
    <2>3. QED
      BY <1>16, <2>1, <2>2, SendInLoopTypes, SMTT(20) DEF SendOnLoop, TypeOK
  <1>17. CASE OwnerReleases
    <2>1. owned' \in BOOLEAN
      BY <1>17, Zenon DEF OwnerReleases
    <2>2. QED
      BY <1>17, <2>1, Zenon DEF OwnerReleases, TypeOK
  <1>18. CASE Destroy
    <2>1. aborted' \in BOOLEAN
      BY <1>18, Zenon DEF Destroy
    <2>2. QED
      BY <1>18, <2>1 DEF Destroy, TypeOK
  <1>19. CASE KernelSends
    BY <1>19, ConnAssumption DEF KernelSends, TypeOK
  <1>20. CASE PeerSends
    <2>1. fromPeer' \in 0..MaxIn
      BY <1>20, ConnAssumption DEF PeerSends, TypeOK
    <2>2. QED
      BY <1>20, <2>1, ConnAssumption DEF PeerSends, TypeOK
  <1>21. ASSUME NEW p \in {"eof", "reset"}, PeerGoes(p)
         PROVE  TypeOK'
    BY <1>21, ConnAssumption DEF PeerGoes, TypeOK
  <1>22. CASE UNCHANGED vars
    BY <1>22 DEF vars, net, TypeOK
  <1>23. QED
    BY <1>1, <1>2, <1>3, <1>4, <1>5, <1>6, <1>7, <1>8, <1>9, <1>10, <1>11, <1>12, <1>13, <1>14,
       <1>15, <1>16, <1>17, <1>18, <1>19, <1>20, <1>21, <1>22 DEF Next, LoopContinues
-----------------------------------------------------------------------------
(* The stream.                                                             *)

\* The units all are the messages acc, in order and whole.
Whole(all, acc) ==
    /\ Len(all) = Len(acc) * MsgLen
    /\ \A i \in 1..Len(acc), k \in 1..MsgLen : all[(i - 1) * MsgLen + k] = Message(acc[i])[k]

\* A message that is added whole at the end keeps the stream whole.
LEMMA StreamGrows ==
  ASSUME NEW all \in Seq(Units), NEW acc \in Seq(Messages), NEW m \in Messages, Whole(all, acc)
  PROVE  Whole(all \o Message(m), Append(acc, m))
  <1> DEFINE L == Len(acc)
             longer == all \o Message(m)
             more == Append(acc, m)
  <1>1. L \in Nat /\ MsgLen \in Nat /\ Len(all) = L * MsgLen /\ Len(all) \in Nat
    BY ConnAssumption DEF Whole
  <1>2. Message(m) \in Seq(Units) /\ Len(Message(m)) = MsgLen
    BY MessageUnits
  <1>3. /\ Len(longer) = Len(all) + MsgLen
        /\ \A j \in 1..(Len(all) + MsgLen) :
              longer[j] = IF j <= Len(all) THEN all[j] ELSE Message(m)[j - Len(all)]
    BY <1>2, CatFacts, Zenon
  <1>4. Len(more) = L + 1 /\ more[L + 1] = m /\ \A i \in 1..L : more[i] = acc[i]
    BY AppendFacts
  <1>5. ASSUME NEW i \in 1..L, NEW k \in 1..MsgLen
        PROVE  all[(i - 1) * MsgLen + k] = Message(acc[i])[k]
    BY <1>5 DEF Whole
  <1> HIDE DEF L, longer, more
  <1>6. Len(longer) = Len(more) * MsgLen
    BY <1>1, <1>3, <1>4
  <1>7. ASSUME NEW i \in 1..Len(more), NEW k \in 1..MsgLen
        PROVE  longer[(i - 1) * MsgLen + k] = Message(more[i])[k]
    <2> DEFINE j == (i - 1) * MsgLen + k
    <2>1. CASE i = L + 1
      <3>1. j = Len(all) + k
        BY <1>1, <2>1
      <3> HIDE DEF j
      <3>2. longer[j] = Message(m)[k]
        BY <1>1, <1>3, <3>1
      <3>3. QED
        BY <1>4, <2>1, <3>2 DEF j
    <2>2. CASE i \in 1..L
      <3>1. j \in Int /\ (i - 1) * MsgLen >= 0
        BY <1>1, <2>2
      <3>2. (i - 1) * MsgLen <= (L - 1) * MsgLen
        BY <1>1, <2>2
      <3>3. (L - 1) * MsgLen = L * MsgLen - MsgLen
        BY <1>1
      <3>4. j \in 1..Len(all)
        BY <1>1, <3>1, <3>2, <3>3
      <3> HIDE DEF j
      <3>5. longer[j] = all[j]
        BY <1>1, <1>3, <3>4
      <3>6. QED
        BY <1>4, <1>5, <2>2, <3>5 DEF j
    <2>3. QED
      BY <1>1, <1>4, <2>1, <2>2
  <1>8. QED
    BY <1>6, <1>7, Zenon DEF Whole, longer, more

\* Concatenation of units.
LEMMA UnitsAssociative ==
  ASSUME NEW s \in Seq(Units), NEW t \in Seq(Units), NEW u \in Seq(Units)
  PROVE  (s \o t) \o u = s \o (t \o u)
  <1> DEFINE a == (s \o t) \o u
             b == s \o (t \o u)
  <1>1. /\ s \o t \in Seq(Units) /\ Len(s \o t) = Len(s) + Len(t)
        /\ t \o u \in Seq(Units) /\ Len(t \o u) = Len(t) + Len(u)
    BY CatFacts
  <1>2. a \in Seq(Units) /\ b \in Seq(Units) /\ Len(a) = Len(b)
    BY <1>1, CatFacts
  <1>3. ASSUME NEW i \in 1..Len(a) PROVE a[i] = b[i]
    BY <1>1
  <1>4. QED
    BY <1>2, <1>3, SameSeq, SMTT(20)

LEMMA UnitsEmpty ==
  ASSUME NEW s \in Seq(Units)
  PROVE  s \o <<>> = s /\ <<>> \o s = s
  BY CatFacts, SameSeq

\* SendInLoop() adds its message whole to the stream, or leaves the stream alone.
LEMMA SendInLoopStream ==
  ASSUME TypeOK, NEW m \in Messages, NEW q \in Seq(Functors), SendInLoop(m, q)
  PROVE  \/ sent' \o output' = (sent \o output) \o Message(m) /\ accepted' = Append(accepted, m)
         \/ UNCHANGED <<sent, output, accepted>>
  <1> DEFINE n == IF WritesDirectly THEN SendResult(MsgLen) ELSE 0
             remaining == SubSeq(Message(m), n + 1, MsgLen)
             taken == SubSeq(Message(m), 1, n)
  <1>1. n \in -1..MsgLen
    <2>1. MsgLen \in Nat
      BY ConnAssumption
    <2>2. SendResult(MsgLen) \in -1..MsgLen
      BY <2>1, SendTakes
    <2>3. QED
      BY <2>1, <2>2
  <1>2. Message(m) \in Seq(Units) /\ Len(Message(m)) = MsgLen /\ sent \in Seq(Units) /\ output \in Seq(Units)
    BY MessageUnits DEF TypeOK
  <1>3. CASE n >= 0
    <2>1. sent' = sent \o taken /\ accepted' = Append(accepted, m) /\ output' = output \o remaining
      <3> HIDE DEF n
      <3>1. ~(n < 0)
        BY <1>1, <1>3
      <3> QED
        BY <3>1, Zenon DEF n, SendInLoop
    <2>2. taken \in Seq(Units) /\ remaining \in Seq(Units) /\ taken \o remaining = Message(m)
      <3>1. n \in 0..Len(Message(m)) /\ remaining = SubSeq(Message(m), n + 1, Len(Message(m)))
        BY <1>1, <1>2, <1>3, ConnAssumption
      <3>2. QED
        BY <1>2, <3>1, CutSequence, Zenon
    <2>3. output = <<>> \/ taken = <<>>
      <3>1. CASE WritesDirectly
        BY <3>1 DEF WritesDirectly
      <3>2. CASE ~WritesDirectly
        <4>1. taken = SubSeq(Message(m), 1, 0)
          BY <3>2
        <4>2. SubSeq(Message(m), 1, 0) = <<>>
          OBVIOUS
        <4>3. QED
          BY <4>1, <4>2, Zenon
      <3>3. QED
        BY <3>1, <3>2
    <2> HIDE DEF taken, remaining, n
    <2>4. CASE output = <<>>
      <3>1. output' = remaining /\ sent \o output = sent
        BY <1>2, <2>1, <2>2, <2>4, UnitsEmpty
      <3>2. (sent \o taken) \o remaining = sent \o (taken \o remaining)
        BY <1>2, <2>2, UnitsAssociative, Zenon
      <3>3. QED
        BY <2>1, <2>2, <3>1, <3>2, Zenon
    <2>5. CASE taken = <<>>
      <3>1. sent' = sent /\ remaining = Message(m)
        BY <1>2, <2>1, <2>2, <2>5, UnitsEmpty
      <3>2. sent \o (output \o Message(m)) = (sent \o output) \o Message(m)
        BY <1>2, UnitsAssociative, Zenon
      <3>3. QED
        BY <2>1, <3>1, <3>2, Zenon
    <2>6. QED
      BY <2>3, <2>4, <2>5, Zenon
  <1>4. CASE n < 0
    BY <1>1, <1>4 DEF SendInLoop, stream
  <1>5. n >= 0 \/ n < 0
    BY <1>1
  <1>6. QED
    BY <1>3, <1>4, <1>5, Zenon

\* HandleWrite() moves units from the buffer to the socket.
LEMMA HandleWriteStream ==
  ASSUME TypeOK, HandleWrite
  PROVE  sent' \o output' = sent \o output /\ UNCHANGED accepted
  <1> DEFINE n == SendResult(Len(output))
             rest == SubSeq(output, n + 1, Len(output))
             taken == SubSeq(output, 1, n)
  <1>1. Len(output) \in Nat /\ output \in Seq(Units) /\ sent \in Seq(Units)
    BY DEF TypeOK
  <1>2. n \in -1..Len(output)
    BY <1>1, SendTakes
  <1>3. CASE n >= 0
    <2>1. output' = rest /\ sent' = sent \o taken /\ accepted' = accepted
      <3> HIDE DEF n
      <3>1. ~(n < 0)
        BY <1>2, <1>3
      <3> QED
        BY <3>1, Zenon DEF n, HandleWrite
    <2>2. rest \in Seq(Units) /\ taken \in Seq(Units) /\ taken \o rest = output
      <3>1. n \in 0..Len(output)
        BY <1>1, <1>2, <1>3
      <3>2. QED
        BY <1>1, <3>1, CutSequence, Zenon
    <2> HIDE DEF n, rest, taken
    <2>3. (sent \o taken) \o rest = sent \o output
      BY <1>1, <2>2, UnitsAssociative, Zenon
    <2>4. QED
      BY <2>1, <2>3, Zenon
  <1>4. CASE n < 0
    BY <1>2, <1>4, SMTT(20) DEF HandleWrite, stream
  <1>5. n >= 0 \/ n < 0
    BY <1>2
  <1>6. QED
    BY <1>3, <1>4, <1>5, Zenon
\* The initial state has the types.
LEMMA InitTypeOK == ASSUME Init PROVE TypeOK
  <1>1. chan \in Channel!Channels
    BY DEF Init, Channel!NewChannel, Channel!Channels
  <1>2. queue \in Seq(Functors)
    BY FunctorTypes DEF Init
  <1>3. /\ type \in Types /\ delayed \in Delays /\ status \in Statuses
        /\ lpc \in {"idle", "message", "closing"} /\ peer \in {"open", "eof", "reset"}
        /\ tpc \in [Users -> {"idle", "send", "close", "done"}]
    BY DEF Init, Statuses
  <1>4. /\ room \in 0..Space /\ fromPeer \in 0..MaxIn /\ inbox \in 0..fromPeer
        /\ {ups, downs, closes} \subseteq Nat
    BY ConnAssumption DEF Init
  <1>5. /\ output \in Seq(Units) /\ sent \in Seq(Units) /\ accepted \in Seq(Messages)
        /\ tried \subseteq Messages
    BY DEF Init
  <1>6. /\ timer \in BOOLEAN /\ pendingWrite \in BOOLEAN
        /\ owned \in BOOLEAN /\ freed \in BOOLEAN /\ aborted \in BOOLEAN /\ late \in BOOLEAN
    BY Zenon DEF Init
  <1>7. QED
    BY <1>1, <1>2, <1>3, <1>4, <1>5, <1>6 DEF TypeOK

\* Every step keeps the stream whole.
LEMMA StepStream ==
  ASSUME TypeOK, StreamIntact, [Next]_vars
  PROVE  StreamIntact'
  <1>1. sent \o output \in Seq(Units) /\ accepted \in Seq(Messages) /\ Whole(sent \o output, accepted)
    BY CatFacts, Zenon DEF TypeOK, StreamIntact, Whole
  <1>2. SUFFICES Whole(sent' \o output', accepted')
    BY Zenon DEF Whole, StreamIntact, Message
  <1>3. CASE UNCHANGED <<sent, output, accepted>>
    BY <1>1, <1>3
  <1>4. ASSUME NEW m \in Messages, NEW q \in Seq(Functors), SendInLoop(m, q)
        PROVE  Whole(sent' \o output', accepted')
    <2>1. CASE UNCHANGED <<sent, output, accepted>>
      BY <1>3, <2>1
    <2>2. CASE sent' \o output' = (sent \o output) \o Message(m) /\ accepted' = Append(accepted, m)
      BY <1>1, <2>2, StreamGrows, Zenon
    <2>3. QED
      BY <1>4, <2>1, <2>2, SendInLoopStream, SMTT(20)
  <1>5. CASE HandleWrite
    BY <1>1, <1>5, HandleWriteStream, Zenon
  <1>6. CASE RunSend
    <2>1. CASE UNCHANGED stream
      BY <1>3, <2>1 DEF stream
    <2>2. CASE SendInLoop(Head(queue).msg, Tail(queue))
      <3>1. Tail(queue) \in Seq(Functors) /\ Head(queue).msg \in Messages
        BY <1>6, HeadTypes DEF RunSend
      <3>2. QED
        BY <1>4, <2>2, <3>1, Zenon
    <2>3. QED
      BY <1>6, <2>1, <2>2 DEF RunSend
  <1>7. ASSUME NEW m \in Messages, SendOnLoop(m)
        PROVE  Whole(sent' \o output', accepted')
    BY <1>4, <1>7 DEF SendOnLoop, TypeOK
  <1>8. CASE ~HandleWrite /\ ~RunSend /\ ~\E m \in Messages : SendOnLoop(m)
    <2>1. UNCHANGED <<sent, output, accepted>>
      BY <1>8, Zenon DEF Next, LoopContinues, vars, stream, RunAttach, RunClose, RunCallback,
         HandleRead,
         MessageReturns, WriteSkipped, DelayClose, CloseReturns, CloseOnLoop, CloseStores,
         CloseQueues, SendChecks, SendQueues, OwnerReleases, Destroy, KernelSends, PeerSends, PeerGoes
    <2>2. QED
      BY <1>3, <2>1
  <1>9. QED
    BY <1>5, <1>6, <1>7, <1>8

\* For any threads, messages and buffer sizes, what was sent followed by what is buffered is
\* exactly the messages that SendInLoop() took, in order and whole, even when Close() and
\* Send(data, len) are called on a connection that is already down (tcp_conn.cpp:144-193,
\* 257-262).
THEOREM StreamStaysIntact == Spec => []StreamIntact
  <1>1. Init => TypeOK /\ StreamIntact
    <2> SUFFICES ASSUME Init PROVE TypeOK /\ StreamIntact
      OBVIOUS
    <2>1. sent = <<>> /\ output = <<>> /\ accepted = <<>>
      BY DEF Init
    <2>2. sent \o output = <<>>
      BY <2>1, UnitsEmpty
    <2>3. StreamIntact
      BY <2>1, <2>2, ConnAssumption DEF StreamIntact
    <2>4. QED
      BY <2>3, InitTypeOK
  <1>2. TypeOK /\ StreamIntact /\ [Next]_vars => (TypeOK /\ StreamIntact)'
    BY StepTypeOK, StepStream
  <1>3. QED
    BY <1>1, <1>2, PTL DEF Spec

-----------------------------------------------------------------------------
(* The phases.                                                            *)

\* A channel in use: its event is there, and added exactly when something is asked for.
InUse(c) == c.event /\ ~c.bad /\ (c.attached <=> c.events # {})

\* The channel after FdChannel::Close().
IsClosed(c) == ~c.event /\ ~c.bad /\ ~c.attached /\ c.events = {}

\* Before OnAttachedToLoop has run nobody can have called the connection.
New ==
    /\ ups = 0 /\ downs = 0 /\ closes = 0
    /\ status = "kDisconnected" /\ InUse(chan) /\ chan.events = {}
    /\ queue = <<Functor("attach", 0)>>
    /\ lpc = "idle" /\ ~pendingWrite /\ ~timer /\ owned
    /\ output = <<>>
    /\ \A t \in Users : tpc[t] = "idle"

\* Between the two calls of conn_fn_.
Up ==
    /\ ups = 1 /\ downs = 0 /\ closes = 0
    /\ status \in {"kConnected", "kDisconnecting"} /\ InUse(chan)
    /\ output # <<>> <=> "write" \in chan.events
    /\ pendingWrite => "write" \in chan.events
    /\ lpc \in {"idle", "message"} /\ owned

\* In the second one.
Closing ==
    /\ ups = 1 /\ downs = 1 /\ closes = 0
    /\ status = "kDisconnecting" /\ IsClosed(chan)
    /\ lpc = "closing" /\ ~timer /\ owned

\* After close_fn_.
Closed ==
    /\ ups = 1 /\ downs = 1 /\ closes = 1
    /\ status = "kDisconnected" /\ IsClosed(chan)
    /\ lpc = "idle" /\ ~timer

\* No OnAttachedToLoop waits in q.
NoAttach(q) == \A i \in 1..Len(q) : q[i].op # "attach"

\* The inductive invariant: until a call comes late, no assert has failed and the connection is
\* in one of the four phases.
ConnInv ==
    /\ TypeOK
    /\ ~late => ~aborted /\ (New \/ ((Up \/ Closing \/ Closed) /\ NoAttach(queue)))
-----------------------------------------------------------------------------
\* Asking a channel in use for the events E keeps it in use.
LEMMA SetEventsInUse ==
  ASSUME NEW c \in Channel!Channels, InUse(c), NEW E \in SUBSET {"read", "write"}
  PROVE  /\ Channel!SetEvents(c, E) \in Channel!Channels
         /\ InUse(Channel!SetEvents(c, E))
         /\ Channel!SetEvents(c, E).events = E
  <1> DEFINE d == [c EXCEPT !.events = E]
  <1>1. d \in Channel!Channels /\ d.events = E /\ d.attached = c.attached /\ d.event = c.event /\ d.bad = c.bad
    BY ChannelFields
  <1>2. Channel!SetEvents(c, E) =
          IF E = c.events THEN c ELSE IF d.events = {} THEN Channel!DetachFromLoop(d) ELSE Channel!AttachToLoop(d)
    BY DEF Channel!SetEvents, Channel!Update
  <1> HIDE DEF d
  <1>3. CASE E = c.events
    BY <1>2, <1>3
  <1>4. CASE E # c.events /\ E = {}
    <2> DEFINE e == Channel!DetachFromLoop(d)
    <2>1. /\ e \in Channel!Channels /\ e.events = d.events /\ ~e.attached /\ e.event = d.event
          /\ (e.bad <=> d.bad \/ ~d.attached \/ ~d.event)
      BY <1>1, ChannelFields
    <2>2. Channel!SetEvents(c, E) = e
      BY <1>1, <1>2, <1>4
    <2> HIDE DEF e
    <2>3. QED
      BY <1>1, <1>4, <2>1, <2>2, Zenon DEF InUse
  <1>5. CASE E # c.events /\ E # {}
    <2> DEFINE e == Channel!AttachToLoop(d)
    <2>1. /\ e \in Channel!Channels /\ e.events = d.events /\ e.attached /\ e.event = d.event
          /\ (e.bad <=> d.bad \/ d.events = {} \/ ~d.event)
      BY <1>1, ChannelFields
    <2>2. Channel!SetEvents(c, E) = e
      BY <1>1, <1>2, <1>5, Zenon
    <2> HIDE DEF e
    <2>3. QED
      BY <1>1, <1>5, <2>1, <2>2, Zenon DEF InUse
  <1>6. QED
    BY <1>3, <1>4, <1>5

\* HandleClose() leaves a channel in use closed.
LEMMA CloseChannelCloses ==
  ASSUME NEW c \in Channel!Channels, InUse(c)
  PROVE  CloseChannel(c) \in Channel!Channels /\ IsClosed(CloseChannel(c))
  <1> DEFINE d == Channel!DisableAllEvent(c)
  <1>1. d \in Channel!Channels /\ InUse(d) /\ d.events = {}
    BY SetEventsInUse DEF Channel!DisableAllEvent
  <1>2. CloseChannel(c) = Channel!Close(d)
    BY DEF CloseChannel
  <1> HIDE DEF d
  <1>3. QED
    BY <1>1, <1>2, ChannelFields DEF InUse, IsClosed

(* The phases.                                                             *)

LEMMA AppendNoAttach ==
  ASSUME NEW q \in Seq(Functors), NoAttach(q),
         NEW f \in Functors, f.op # "attach"
  PROVE  NoAttach(Append(q, f))
  <1>1. /\ Len(Append(q, f)) = Len(q) + 1 /\ Append(q, f)[Len(q) + 1] = f
        /\ \A i \in 1..Len(q) : Append(q, f)[i] = q[i]
    BY AppendFacts
  <1>2. QED
    BY <1>1 DEF NoAttach

LEMMA TailNoAttach ==
  ASSUME NEW q \in Seq(Functors), q # <<>>, NoAttach(q)
  PROVE  NoAttach(Tail(q)) /\ Head(q).op # "attach"
  <1>1. /\ Len(q) \in Nat /\ Len(q) >= 1 /\ Len(Tail(q)) = Len(q) - 1
        /\ \A i \in 1..Len(Tail(q)) : Tail(q)[i] = q[i + 1]
    BY HeadTailFacts
  <1>2. Head(q) = q[1]
    OBVIOUS
  <1>3. QED
    BY <1>1, <1>2 DEF NoAttach

\* HandleClose() on a connection that is up leads to the call of conn_fn_.
LEMMA UpCloses ==
  ASSUME TypeOK, Up, NEW c \in Channel!Channels, InUse(c), HandleClose(c), owned' = owned
  PROVE  Closing' /\ ~aborted'
  <1>1. IsClosed(chan')
    BY CloseChannelCloses DEF HandleClose
  <1>2. ~chan'.bad
    BY <1>1 DEF IsClosed
  <1>3. ~aborted'
    BY <1>2 DEF HandleClose
  <1>4. ups' = 1 /\ downs' = 1 /\ closes' = 0
    BY <1>3 DEF HandleClose, Up
  <1>5. status' = "kDisconnecting" /\ timer' = FALSE /\ lpc' = "closing"
    BY DEF HandleClose
  <1>6. IsClosed(chan)'
    BY <1>1 DEF IsClosed
  <1>7. QED
    BY <1>3, <1>4, <1>5, <1>6 DEF Closing, Up

\* SendInLoop() on a connection that is up leaves it up, or closes it.
LEMMA UpSends ==
  ASSUME TypeOK, Up, NEW m \in Messages, NEW q \in Seq(Functors), NoAttach(q),
         SendInLoop(m, q), owned' = owned, pendingWrite' = pendingWrite
  PROVE  (Up' \/ Closing') /\ ~aborted' /\ NoAttach(queue')
  <1> DEFINE n == IF WritesDirectly THEN SendResult(MsgLen) ELSE 0
             remaining == SubSeq(Message(m), n + 1, MsgLen)
  <1>1. n \in -1..MsgLen
    <2>1. MsgLen \in Nat
      BY ConnAssumption
    <2>2. SendResult(MsgLen) \in -1..MsgLen
      BY <2>1, SendTakes
    <2>3. QED
      BY <2>1, <2>2
  <1>2. chan \in Channel!Channels /\ InUse(chan)
    BY DEF TypeOK, Up
  <1>3. CASE n >= 0
    <2>1. /\ output' = output \o remaining /\ chan' = ChannelAfterSend(remaining)
          /\ aborted' = chan'.bad
          /\ \/ queue' = q
             \/ queue' = Append(q, Functor("complete", 0))
             \/ queue' = Append(q, Functor("high", 0))
          /\ UNCHANGED <<status, timer, lpc, ups_downs>>
      <3> HIDE DEF n
      <3>1. ~(n < 0)
        BY <1>1, <1>3
      <3> QED
        BY <3>1, Zenon DEF n, SendInLoop
    <2>2. remaining \in Seq(Units) /\ Len(remaining) = MsgLen - n
      <3>1. Message(m) \in Seq(Units) /\ Len(Message(m)) = MsgLen
        BY MessageUnits
      <3>2. QED
        BY <1>1, <1>3, <3>1, CutSequence, ConnAssumption
    <2>3. n = 0 \/ (output = <<>> /\ "write" \notin chan.events)
      BY DEF WritesDirectly, Channel!IsWritable
    <2> HIDE DEF remaining, n
    <2>4. NoAttach(queue')
      <3>1. /\ Functor("complete", 0) \in Functors /\ Functor("complete", 0).op # "attach"
            /\ Functor("high", 0) \in Functors /\ Functor("high", 0).op # "attach"
        BY FunctorTypes DEF Functor
      <3>2. NoAttach(Append(q, Functor("complete", 0))) /\ NoAttach(Append(q, Functor("high", 0)))
        BY <3>1, AppendNoAttach
      <3>3. QED
        BY <2>1, <3>2, Zenon
    <2>5. CASE remaining = <<>>
      <3>1. n = MsgLen /\ n # 0
        BY <1>1, <2>2, <2>5, ConnAssumption
      <3>2. output' = output /\ chan' = chan
        BY <2>1, <2>3, <2>5, <3>1, UnitsEmpty, SMTT(20) DEF ChannelAfterSend, TypeOK
      <3>3. ~aborted'
        BY <1>2, <2>1, <3>2 DEF InUse
      <3>4. Up'
        BY <2>1, <3>2 DEF Up, InUse, ups_downs
      <3>5. QED
        BY <2>4, <3>3, <3>4
    <2>6. CASE remaining # <<>>
      <3>1. chan' = Channel!SetEvents(chan, chan.events \cup {"write"})
        BY <2>1, <2>6 DEF ChannelAfterSend, Channel!EnableWriteEvent
      <3>2. chan.events \cup {"write"} \in SUBSET {"read", "write"}
        BY <1>2 DEF Channel!Channels
      <3>3. InUse(chan') /\ chan'.events = chan.events \cup {"write"}
        BY <1>2, <3>1, <3>2, SetEventsInUse
      <3>4. output' # <<>>
        <4>1. Len(output') = Len(output) + Len(remaining) /\ Len(remaining) > 0
          <5>1. Len(remaining) > 0
            BY <2>2, <2>6
          <5>2. output \in Seq(Units)
            BY DEF TypeOK
          <5>3. QED
            BY <2>1, <2>2, <5>1, <5>2, CatFacts, Zenon
        <4>2. Len(output) \in Nat /\ Len(remaining) \in Nat
          BY <2>2 DEF TypeOK
        <4>3. QED
          BY <4>1, <4>2
      <3>5. ~aborted'
        BY <2>1, <3>3 DEF InUse
      <3>6. InUse(chan)' /\ "write" \in chan'.events
        BY <3>3 DEF InUse
      <3>7. Up'
        BY <2>1, <3>4, <3>6 DEF Up, ups_downs
      <3>8. QED
        BY <2>4, <3>5, <3>7
    <2>7. QED
      BY <2>5, <2>6
  <1>4. CASE n < 0
    <2>1. HandleClose(chan) /\ queue' = q
      BY <1>1, <1>4 DEF SendInLoop
    <2>2. QED
      BY <1>2, <2>1, UpCloses
  <1>5. QED
    BY <1>1, <1>3, <1>4
\* HandleRead() on a connection that is up leaves it up, or closes it.
LEMMA UpReads ==
  ASSUME TypeOK, ~aborted, Up, HandleRead
  PROVE  (Up' \/ Closing') /\ ~aborted' /\ queue' = queue
  <1>1. chan \in Channel!Channels /\ InUse(chan)
    BY DEF TypeOK, Up
  <1> DEFINE E == chan.events \ {"read"}
             d == Channel!DisableReadEvent(chan)
  <1>2. d \in Channel!Channels /\ InUse(d) /\ d.events = E
    <2>1. E \in SUBSET {"read", "write"}
      BY <1>1 DEF Channel!Channels
    <2>2. d = Channel!SetEvents(chan, E)
      BY DEF Channel!DisableReadEvent
    <2> HIDE DEF E, d
    <2>3. QED
      BY <1>1, <2>1, <2>2, SetEventsInUse
  <1>3. owned' = owned /\ queue' = queue /\ output' = output /\ (pendingWrite' => "write" \in chan.events)
    BY Zenon DEF HandleRead, stream, Writable
  <1>4. CASE HandleClose(chan)
    BY <1>1, <1>3, <1>4, UpCloses, SMTT(20)
  <1>5. CASE HandleClose(d)
    <2> HIDE DEF d
    <2>1. QED
      BY <1>2, <1>3, <1>5, UpCloses
  <1>6. CASE chan' = d /\ aborted' = chan'.bad /\ UNCHANGED <<status, lpc, ups_downs>>
    <2>1. "write" \in d.events <=> "write" \in chan.events
      BY <1>2
    <2> HIDE DEF d, E
    <2>2. ~aborted' /\ InUse(chan)'
      BY <1>2, <1>6 DEF InUse
    <2>3. QED
      BY <1>3, <1>6, <2>1, <2>2 DEF Up, ups_downs
  <1>7. CASE lpc' = "message" /\ UNCHANGED <<status, chan, timer, aborted, ups_downs>>
    BY <1>3, <1>7 DEF Up, ups_downs, InUse
  <1>8. QED
    BY <1>4, <1>5, <1>6, <1>7 DEF HandleRead, HandleHalfClose

\* HandleWrite() on a connection that is up leaves it up, or closes it.
LEMMA UpWrites ==
  ASSUME TypeOK, Up, NoAttach(queue), HandleWrite
  PROVE  (Up' \/ Closing') /\ ~aborted' /\ NoAttach(queue')
  <1> DEFINE n == SendResult(Len(output))
             rest == SubSeq(output, n + 1, Len(output))
             done == n > 0 /\ rest = <<>>
             E == chan.events \ {"write"}
             d == Channel!DisableWriteEvent(chan)
  <1>1. chan \in Channel!Channels /\ InUse(chan) /\ output \in Seq(Units) /\ Len(output) \in Nat
    BY SMTT(20) DEF TypeOK, Up
  <1>2. "write" \in chan.events /\ output # <<>>
    BY DEF HandleWrite, Writable, Up
  <1>3. Len(output) > 0
    BY <1>1, <1>2
  <1>4. n \in -1..Len(output)
    BY <1>1, SendTakes
  <1>5. owned' = owned /\ pendingWrite' = FALSE
    BY DEF HandleWrite
  <1>6. d \in Channel!Channels /\ InUse(d) /\ d.events = E
    <2>1. E \in SUBSET {"read", "write"}
      BY <1>1 DEF Channel!Channels
    <2>2. d = Channel!SetEvents(chan, E)
      BY DEF Channel!DisableWriteEvent
    <2> HIDE DEF E, d
    <2>3. QED
      BY <1>1, <2>1, <2>2, SetEventsInUse
  <1>7. "write" \notin d.events
    BY <1>6
  <1>8. CASE n >= 0
    <2>1. /\ output' = rest
          /\ chan' = (IF done THEN d ELSE chan)
          /\ aborted' = (chan'.bad \/ (chan.attached /\ ~Channel!IsWritable(chan)))
          /\ queue' = (IF done THEN Append(queue, Functor("complete", 0)) ELSE queue)
          /\ UNCHANGED <<status, timer, lpc, ups_downs>>
      <3> HIDE DEF n
      <3>1. ~(n < 0)
        BY <1>4, <1>8
      <3> QED
        BY <3>1 DEF n, HandleWrite
    <2>2. rest \in Seq(Units) /\ Len(rest) = Len(output) - n
      BY <1>1, <1>4, <1>8, CutSequence
    <2>3. done <=> rest = <<>>
      BY <1>1, <1>3, <1>4, <2>2
    <2> HIDE DEF n, rest, done, d, E
    <2>4. NoAttach(queue')
      <3>1. Functor("complete", 0) \in Functors /\ Functor("complete", 0).op # "attach"
        BY FunctorTypes DEF Functor
      <3>2. NoAttach(Append(queue, Functor("complete", 0)))
        BY <3>1, AppendNoAttach, SMTT(20) DEF TypeOK
      <3>3. QED
        BY <2>1, <3>2
    <2>5. InUse(chan)' /\ ~chan'.bad /\ (output' # <<>> <=> "write" \in chan'.events)
      BY <1>1, <1>2, <1>6, <1>7, <2>1, <2>3 DEF InUse
    <2>6. ~aborted'
      BY <1>2, <2>1, <2>5, Zenon DEF Channel!IsWritable
    <2>7. Up'
      BY <1>5, <2>1, <2>5 DEF Up, ups_downs
    <2>8. QED
      BY <2>4, <2>6, <2>7
  <1>9. CASE n < 0
    <2>1. HandleClose(chan) /\ queue' = queue
      BY <1>4, <1>9 DEF HandleWrite
    <2>2. QED
      BY <1>1, <1>5, <2>1, UpCloses
  <1>10. QED
    BY <1>4, <1>8, <1>9
\* The kernel and the peer.
Outside == KernelSends \/ PeerSends \/ PeerGoes("eof") \/ PeerGoes("reset")

\* They touch nothing of the connection itself.
LEMMA OutsideLeaves ==
  ASSUME Outside \/ UNCHANGED vars
  PROVE  /\ UNCHANGED <<status, chan, output, sent, accepted, timer, queue, lpc, tpc>>
         /\ UNCHANGED <<pendingWrite, owned, aborted, ups, downs, closes>>
  <1>1. CASE KernelSends
    BY <1>1 DEF KernelSends, ups_downs
  <1>2. CASE PeerSends
    BY <1>2 DEF PeerSends, stream, ups_downs
  <1>3. ASSUME NEW p, PeerGoes(p)
        PROVE  /\ UNCHANGED <<status, chan, output, sent, accepted, timer, queue, lpc, tpc>>
               /\ UNCHANGED <<pendingWrite, owned, aborted, ups, downs, closes>>
    BY <1>3 DEF PeerGoes, stream, ups_downs
  <1>4. CASE UNCHANGED vars
    BY <1>4 DEF vars, ups_downs
  <1>5. QED
    BY <1>1, <1>2, <1>3, <1>4 DEF Outside

\* The only step that leaves New is OnAttachedToLoop.
LEMMA StepNew ==
  ASSUME TypeOK, ~aborted, New, [Next]_vars
  PROVE  ~aborted' /\ (New' \/ (Up' /\ NoAttach(queue')))
  <1>1. chan \in Channel!Channels /\ InUse(chan) /\ chan.events = {} /\ ~chan.attached
    BY DEF TypeOK, New, InUse
  <1>2. Head(queue) = Functor("attach", 0) /\ Head(queue).op = "attach" /\ Tail(queue) = <<>>
    BY DEF New, Functor
  <1>3. CASE RunAttach
    <2>1. chan' = Channel!SetEvents(chan, {"read"})
      BY <1>1, <1>3 DEF RunAttach, Channel!EnableReadEvent
    <2>2. InUse(chan') /\ chan'.events = {"read"}
      BY <1>1, <2>1, SetEventsInUse, SMTT(20)
    <2>3. ~aborted' /\ InUse(chan)' /\ "write" \notin chan'.events
      BY <1>3, <2>2, SMTT(20) DEF RunAttach, InUse
    <2>4. Up'
      BY <1>3, <2>3 DEF RunAttach, Up, New, stream
    <2>5. queue' = <<>>
      BY <1>2, <1>3, SMTT(20) DEF RunAttach
    <2>6. QED
      BY <2>3, <2>4, <2>5 DEF NoAttach
  <1>4. CASE Outside \/ UNCHANGED vars
    <2>1. /\ UNCHANGED <<status, chan, output, sent, accepted, timer, queue, lpc, tpc>>
          /\ UNCHANGED <<pendingWrite, owned, aborted, ups, downs, closes>>
      BY <1>4, OutsideLeaves
    <2>2. QED
      BY <2>1 DEF New, InUse, NoAttach
  <1>5. ~(RunSend \/ RunClose \/ RunCallback \/ HandleRead \/ MessageReturns \/ HandleWrite
          \/ WriteSkipped \/ DelayClose \/ CloseReturns)
    BY <1>1, <1>2, Zenon DEF RunSend, RunClose, RunCallback, HandleRead, Readable,
       MessageReturns, HandleWrite,
       Writable, WriteSkipped, DelayClose, CloseReturns, New
  <1>6. ~(CloseOnLoop \/ OwnerReleases \/ Destroy)
    BY DEF CloseOnLoop, StoreDisconnecting, OwnerReleases, Destroy, New
  <1>7. ASSUME NEW t \in Threads
        PROVE  ~(CloseStores(t) \/ CloseQueues(t) \/ SendChecks(t)) /\ \A m \in Messages : ~SendQueues(t, m)
    <2>1. ups = 0 /\ status = "kDisconnected" /\ tpc[t] = "idle"
      BY SMTT(20) DEF New, Users
    <2>2. QED
      BY <2>1 DEF CloseStores, StoreDisconnecting, CloseQueues, SendChecks, SendQueues
  <1>8. ASSUME NEW m \in Messages
        PROVE  ~SendOnLoop(m)
    BY SMTT(20) DEF SendOnLoop, New
  <1>9. QED
    BY <1>3, <1>4, <1>5, <1>6, <1>7, <1>8 DEF Next, LoopContinues, Outside

\* The calls of users on other threads, and of the user's code in the loop, that do not send.
LEMMA CallsNoAttach ==
  ASSUME TypeOK, NoAttach(queue),
         \/ CloseOnLoop
         \/ \E t \in Threads : CloseStores(t) \/ CloseQueues(t) \/ SendChecks(t)
         \/ \E t \in Threads, m \in Messages : SendQueues(t, m)
  PROVE  /\ NoAttach(queue')
         /\ UNCHANGED <<outside, stream, chan, timer, lpc, pendingWrite, owned, aborted, ups_downs>>
         /\ \/ status' = status
            \/ status' = "kDisconnecting" /\ (status = "kDisconnected" => late')
  <1>1. NoAttach(Append(queue, Functor("close", 0)))
    <2>1. Functor("close", 0) \in Functors /\ Functor("close", 0).op # "attach"
      BY FunctorTypes, Zenon DEF Functor
    <2>2. QED
      BY <2>1, AppendNoAttach, SMTT(20) DEF TypeOK
  <1>2. ASSUME NEW m \in Messages PROVE NoAttach(Append(queue, Functor("send", m)))
    <2>1. Functor("send", m) \in Functors /\ Functor("send", m).op # "attach"
      BY FunctorTypes DEF Functor
    <2>2. QED
      BY <2>1, AppendNoAttach, SMTT(20) DEF TypeOK
  <1>3. NoAttach(queue')
    BY <1>1, <1>2, Zenon DEF CloseOnLoop, CloseStores, CloseQueues, SendChecks, SendQueues
  <1>4. status' = status \/ (status' = "kDisconnecting" /\ (status = "kDisconnected" => late'))
    BY Zenon DEF CloseOnLoop, CloseStores, CloseQueues, SendChecks, SendQueues, StoreDisconnecting
  <1>5. QED
    BY <1>3, <1>4 DEF CloseOnLoop, CloseStores, CloseQueues, SendChecks, SendQueues, others

\* A connection that is up stays up, or HandleClose() calls conn_fn_.
LEMMA StepUp ==
  ASSUME TypeOK, ~aborted, Up, NoAttach(queue), [Next]_vars
  PROVE  ~aborted' /\ (Up' \/ Closing') /\ NoAttach(queue')
  <1>1. chan \in Channel!Channels /\ InUse(chan) /\ queue \in Seq(Functors)
    BY Zenon DEF TypeOK, Up
  <1>2. CASE \/ CloseOnLoop
             \/ \E t \in Threads : CloseStores(t) \/ CloseQueues(t) \/ SendChecks(t)
             \/ \E t \in Threads, m \in Messages : SendQueues(t, m)
    <2>1. /\ NoAttach(queue')
          /\ UNCHANGED <<outside, stream, chan, timer, lpc, pendingWrite, owned, aborted, ups_downs>>
          /\ status' \in {status, "kDisconnecting"}
      BY <1>2, CallsNoAttach
    <2>2. QED
      BY <2>1, Zenon DEF Up, InUse, outside, stream, ups_downs
  <1>3. CASE RunSend
    <2>1. queue # <<>> /\ Head(queue).op = "send" /\ owned' = owned /\ pendingWrite' = pendingWrite
      BY <1>3 DEF RunSend
    <2>2. Tail(queue) \in Seq(Functors) /\ Head(queue).msg \in Messages
      BY <2>1, HeadTypes
    <2>3. NoAttach(Tail(queue))
      BY <1>1, <2>1, TailNoAttach, SMTT(20)
    <2>4. SendInLoop(Head(queue).msg, Tail(queue))
      BY <1>3 DEF RunSend, GivesUpWriting, Up
    <2>5. QED
      BY <2>1, <2>2, <2>3, <2>4, UpSends, Zenon
  <1>4. ASSUME NEW m \in Messages, SendOnLoop(m)
        PROVE  ~aborted' /\ (Up' \/ Closing') /\ NoAttach(queue')
    <2>1. SendInLoop(m, queue) /\ owned' = owned /\ pendingWrite' = pendingWrite
      BY <1>4 DEF SendOnLoop
    <2>2. QED
      BY <1>1, <2>1, UpSends
  <1>5. CASE RunClose
    <2>1. queue # <<>> /\ queue' = Tail(queue) /\ owned' = owned
      BY <1>5 DEF RunClose
    <2>2. HandleClose(chan)
      BY <1>5 DEF RunClose, ClosedAlready, Up
    <2>3. NoAttach(queue')
      BY <1>1, <2>1, TailNoAttach, SMTT(20)
    <2>4. QED
      BY <1>1, <2>1, <2>2, <2>3, UpCloses
  <1>6. CASE RunCallback
    <2>1. NoAttach(Tail(queue))
      BY <1>1, <1>6, TailNoAttach DEF RunCallback
    <2>2. QED
      BY <1>6, <2>1 DEF RunCallback, Up, InUse, stream, ups_downs
  <1>7. CASE HandleRead
    BY <1>7, UpReads
  <1>8. CASE HandleWrite
    BY <1>8, UpWrites, SMTT(20)
  <1>9. CASE MessageReturns
    BY <1>9 DEF MessageReturns, Up, InUse, stream, ups_downs
  <1>10. CASE DelayClose
    <2>1. HandleClose(chan) /\ queue' = queue /\ owned' = owned
      BY <1>10, SMTT(20) DEF DelayClose
    <2>2. QED
      BY <1>1, <2>1, UpCloses
  <1>11. CASE Outside \/ UNCHANGED vars
    <2>1. /\ UNCHANGED <<status, chan, output, sent, accepted, timer, queue, lpc, tpc>>
          /\ UNCHANGED <<pendingWrite, owned, aborted, ups, downs, closes>>
      BY <1>11, OutsideLeaves
    <2>2. QED
      BY <2>1 DEF Up, InUse, NoAttach
  <1>12. ~RunAttach
    BY <1>1, TailNoAttach, SMTT(20) DEF RunAttach
  <1>13. ~(WriteSkipped \/ CloseReturns \/ OwnerReleases \/ Destroy)
    BY DEF WriteSkipped, CloseReturns, OwnerReleases, Destroy, Up, InUse
  <1>14. QED
    BY <1>2, <1>3, <1>4, <1>5, <1>6, <1>7, <1>8, <1>9, <1>10, <1>11, <1>12, <1>13, SMTT(20) DEF Next,
       LoopContinues, Outside

\* In conn_fn_ the connection waits for it to return; then close_fn_ is called.
LEMMA StepClosing ==
  ASSUME ~late', TypeOK, ~aborted, Closing, NoAttach(queue), [Next]_vars
  PROVE  /\ ~aborted' /\ (Closing' \/ Closed') /\ NoAttach(queue')
         /\ UNCHANGED <<sent, accepted, output>>
  <1>1. CASE \/ CloseOnLoop
             \/ \E t \in Threads : CloseStores(t) \/ CloseQueues(t) \/ SendChecks(t)
             \/ \E t \in Threads, m \in Messages : SendQueues(t, m)
    <2>1. /\ NoAttach(queue')
          /\ UNCHANGED <<outside, stream, chan, timer, lpc, pendingWrite, owned, aborted, ups_downs>>
          /\ status' \in {status, "kDisconnecting"}
      BY <1>1, CallsNoAttach, SMTT(20)
    <2>2. QED
      BY <2>1 DEF Closing, IsClosed, outside, stream, ups_downs
  <1>2. CASE CloseReturns
    BY <1>2, SMTT(20) DEF CloseReturns, Closing, Closed, IsClosed, NoAttach, stream
  <1>3. CASE Outside \/ UNCHANGED vars
    <2>1. /\ UNCHANGED <<status, chan, output, sent, accepted, timer, queue, lpc, tpc>>
          /\ UNCHANGED <<pendingWrite, owned, aborted, ups, downs, closes>>
      BY <1>3, OutsideLeaves, SMTT(20)
    <2>2. QED
      BY <2>1, SMTT(20) DEF Closing, IsClosed, NoAttach
  <1>4. ~(RunAttach \/ RunSend \/ RunClose \/ RunCallback \/ HandleRead \/ HandleWrite \/ WriteSkipped
          \/ DelayClose \/ MessageReturns)
    BY DEF RunAttach, RunSend, RunClose, RunCallback, HandleRead, HandleWrite, WriteSkipped,
       DelayClose,
       MessageReturns, LoopIdle, Closing
  <1>5. ~OwnerReleases /\ ~Destroy
    <2>1. closes = 0 /\ lpc = "closing"
      BY DEF Closing
    <2>2. ~OwnerReleases
      BY <2>1, SMTT(20) DEF OwnerReleases
    <2>3. ~Destroy
      BY <2>1 DEF Destroy
    <2>4. QED
      BY <2>2, <2>3
  <1>6. \A m \in Messages : ~SendOnLoop(m)
    BY Zenon DEF SendOnLoop, Closing
  <1>7. QED
    BY <1>1, <1>2, <1>3, <1>4, <1>5, <1>6, SMTT(20) DEF Next, LoopContinues, Outside

\* A connection that is closed stays closed.
LEMMA StepClosed ==
  ASSUME ~late', TypeOK, ~aborted, Closed, NoAttach(queue), [Next]_vars
  PROVE  /\ ~aborted' /\ Closed' /\ NoAttach(queue')
         /\ UNCHANGED <<sent, accepted, output>>
  <1>1. CASE \/ CloseOnLoop
             \/ \E t \in Threads : CloseStores(t) \/ CloseQueues(t) \/ SendChecks(t)
             \/ \E t \in Threads, m \in Messages : SendQueues(t, m)
    <2>1. /\ NoAttach(queue') /\ status' = status
          /\ UNCHANGED <<outside, stream, chan, timer, lpc, pendingWrite, owned, aborted, ups_downs>>
      BY <1>1, CallsNoAttach, SMTT(20) DEF Closed
    <2>2. QED
      BY <2>1, Zenon DEF Closed, IsClosed, outside, stream, ups_downs
  <1>2. CASE RunSend \/ RunClose \/ RunCallback
    <2>1. queue # <<>> /\ queue' = Tail(queue)
      BY <1>2 DEF RunSend, RunClose, RunCallback, GivesUpWriting, Closed
    <2>2. NoAttach(queue')
      BY <2>1, TailNoAttach, SMTT(20) DEF TypeOK
    <2>3. UNCHANGED <<status, chan, timer, lpc, ups_downs, aborted, stream>>
      BY <1>2 DEF RunSend, RunClose, RunCallback, GivesUpWriting, ClosedAlready, Closed
    <2>4. QED
      BY <2>2, <2>3, SMTT(20) DEF Closed, IsClosed, ups_downs, stream
  <1>3. CASE Outside \/ UNCHANGED vars
    <2>1. /\ UNCHANGED <<status, chan, output, sent, accepted, timer, queue, lpc, tpc>>
          /\ UNCHANGED <<pendingWrite, owned, aborted, ups, downs, closes>>
      BY <1>3, OutsideLeaves, SMTT(20)
    <2>2. Closed'
      BY <2>1, Zenon DEF Closed, IsClosed
    <2>3. ~aborted' /\ NoAttach(queue')
      BY <2>1, SMTT(20)
    <2>4. QED
      BY <2>1, <2>2, <2>3, SMTT(20)
  <1>4. CASE WriteSkipped \/ OwnerReleases \/ Destroy
    <2>1. UNCHANGED <<stream, status, chan, timer, queue, lpc, ups_downs>>
      BY <1>4 DEF WriteSkipped, OwnerReleases, Destroy
    <2>2. ~aborted'
      BY <1>4, Zenon DEF WriteSkipped, OwnerReleases, Destroy, Closed, IsClosed
    <2>3. Closed'
      BY <2>1, Zenon DEF Closed, IsClosed, ups_downs
    <2>4. NoAttach(queue') /\ UNCHANGED <<sent, accepted, output>>
      BY <2>1, Zenon DEF NoAttach, stream
    <2>5. QED
      BY <2>2, <2>3, <2>4, Zenon
  <1>5. ~RunAttach
    BY TailNoAttach, SMTT(20) DEF RunAttach, TypeOK
  <1>6. ~(HandleRead \/ HandleWrite \/ DelayClose \/ MessageReturns \/ CloseReturns)
    BY Zenon DEF HandleRead, Readable, HandleWrite, Writable, DelayClose, MessageReturns, CloseReturns,
       Closed, IsClosed
  <1>7. \A m \in Messages : ~SendOnLoop(m)
    BY DEF SendOnLoop, Closed
  <1>8. QED
    BY <1>1, <1>2, <1>3, <1>4, <1>5, <1>6, <1>7, SMTT(20) DEF Next, LoopContinues, Outside

\* A call that came late stays so.
LEMMA LateStays ==
  ASSUME [Next]_vars, late
  PROVE  late'
  <1>1. CASE UNCHANGED vars \/ Outside
    BY <1>1, Zenon DEF vars, Outside, KernelSends, PeerSends, PeerGoes, others
  <1>2. CASE LoopContinues
    BY <1>2, Zenon DEF LoopContinues, RunAttach, RunSend, RunClose, RunCallback, HandleRead, MessageReturns,
       HandleWrite, WriteSkipped, DelayClose, CloseReturns, others
  <1>3. CASE CloseOnLoop \/ OwnerReleases \/ Destroy
    BY <1>3, Zenon DEF CloseOnLoop, StoreDisconnecting, OwnerReleases, Destroy, others
  <1>4. ASSUME NEW t \in Threads,
               CloseStores(t) \/ CloseQueues(t) \/ SendChecks(t) \/ \E m \in Messages : SendQueues(t, m)
        PROVE  late'
    BY <1>4, Zenon DEF CloseStores, StoreDisconnecting, CloseQueues, SendChecks, SendQueues, others
  <1>5. ASSUME NEW m \in Messages, SendOnLoop(m) PROVE late'
    BY <1>5, Zenon DEF SendOnLoop
  <1>6. QED
    BY <1>1, <1>2, <1>3, <1>4, <1>5, Zenon DEF Next, Outside

\* The phases are kept, from the state the owner starts with.
LEMMA ConnInvariant == Spec => []ConnInv
  <1>1. Init => ConnInv
    <2> SUFFICES ASSUME Init PROVE ConnInv
      BY SMTT(20)
    <2>1. InUse(chan) /\ chan.events = {}
      BY SMTT(20) DEF Init, InUse, Channel!NewChannel
    <2>2. New
      BY <2>1 DEF Init, New
    <2>3. ~aborted
      BY DEF Init
    <2>4. QED
      BY <2>2, <2>3, InitTypeOK DEF ConnInv
  <1>2. ConnInv /\ [Next]_vars => ConnInv'
    <2>0. ConnInv /\ [Next]_vars => TypeOK'
      BY StepTypeOK DEF ConnInv
    <2> SUFFICES ASSUME ConnInv, [Next]_vars, ~late' PROVE ConnInv'
      BY <2>0, Zenon DEF ConnInv
    <2>1. TypeOK /\ ~aborted /\ TypeOK' /\ ~late
      BY <2>0, LateStays, Zenon DEF ConnInv
    <2>2. CASE New
      BY <2>1, <2>2, StepNew DEF ConnInv
    <2>3. CASE Up /\ NoAttach(queue)
      BY <2>1, <2>3, StepUp DEF ConnInv
    <2>4. CASE Closing /\ NoAttach(queue)
      BY <2>1, <2>4, StepClosing DEF ConnInv
    <2>5. CASE Closed /\ NoAttach(queue)
      BY <2>1, <2>5, StepClosed DEF ConnInv
    <2>6. QED
      BY <2>1, <2>2, <2>3, <2>4, <2>5, Zenon DEF ConnInv
  <1>3. QED
    BY <1>1, <1>2, PTL DEF Spec

\* As long as no Close() comes when status_ is kDisconnected and no Send(data, len) from conn_fn_
\* while it goes down, no assert of TCPConn or FdChannel fails and no deleted event is used, for
\* any number of threads, messages and buffer sizes (tcp_conn.cpp:29-40, fd_channel.cpp:28).
THEOREM ConnAssertsHold == Spec => []AssertsHold
  <1>1. ConnInv => AssertsHold
    BY DEF ConnInv, AssertsHold
  <1>2. QED
    BY <1>1, ConnInvariant, PTL

\* Under the same condition conn_fn_ is called once for up and once for down, then close_fn_
\* once, whichever of Close(), a peer's close, an error of ::send() and the delay timer comes
\* first (tcp_conn.cpp:300-338).
THEOREM ConnClosesOnce == Spec => []CloseOnce
  <1>1. ConnInv => CloseOnce
    BY SMTT(20) DEF ConnInv, New, Up, Closing, Closed, CloseOnce
  <1>2. QED
    BY <1>1, ConnInvariant, PTL

\* Under the same condition output waits exactly when the write event is asked for, so that none is ever stuck
\* (tcp_conn.cpp:189-192, 260-264).
THEOREM OutputIsNeverStuck == Spec => []NoStuckOutput
  <1>1. ConnInv => NoStuckOutput
    BY DEF ConnInv, New, Up, Closing, Closed, InUse, IsClosed, NoStuckOutput, Channel!IsWritable
  <1>2. QED
    BY <1>1, ConnInvariant, PTL

\* Under the same condition, once conn_fn_ has been called for the close, no queued or racing
\* Send() writes to the socket or to the buffer (tcp_conn.cpp:133-137).
THEOREM ClosedConnSendsNothing == Spec => NothingSentAfterDown
  <1>1. ConnInv /\ [Next]_vars => [downs > 0 /\ ~late' => UNCHANGED <<sent, accepted, output>>]_vars
    <2> SUFFICES ASSUME ConnInv, [Next]_vars, downs > 0, ~late'
                 PROVE  UNCHANGED <<sent, accepted, output>>
      OBVIOUS
    <2>0. ~late
      BY LateStays
    <2>1. TypeOK /\ ~aborted /\ (Closing \/ Closed) /\ NoAttach(queue)
      BY <2>0 DEF ConnInv, New, Up
    <2>2. QED
      BY <2>1, StepClosing, StepClosed
  <1>2. QED
    BY <1>1, ConnInvariant, PTL DEF Spec, NothingSentAfterDown
=============================================================================
