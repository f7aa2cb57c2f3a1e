------------------------------ MODULE FdChannel ------------------------------
(***************************************************************************)
(* eventpp::FdChannel (src/src/fd_channel.cpp) as operations on a record:  *)
(* which events are asked for, whether the libevent event is added, whether *)
(* it still exists, and whether an operation broke an assert or used the    *)
(* event after Close() deleted it.                                         *)
(***************************************************************************)

Channels == [events : SUBSET {"read", "write"}, attached : BOOLEAN,
             event : BOOLEAN, bad : BOOLEAN]

\* new FdChannel(loop, fd, r, w), with the events E
NewChannel(E) == [events |-> E, attached |-> FALSE, event |-> TRUE, bad |-> FALSE]

DetachFromLoop(c) == [c EXCEPT !.attached = FALSE, !.bad = @ \/ ~c.attached \/ ~c.event]

\* A channel that is attached already is detached first; event_assign and event_add
\* use event_.
AttachToLoop(c) == [c EXCEPT !.attached = TRUE, !.bad = @ \/ c.events = {} \/ ~c.event]

Update(c) == IF c.events = {} THEN DetachFromLoop(c) ELSE AttachToLoop(c)

SetEvents(c, E) == IF E = c.events THEN c ELSE Update([c EXCEPT !.events = E])

EnableReadEvent(c) == SetEvents(c, c.events \cup {"read"})

EnableWriteEvent(c) == SetEvents(c, c.events \cup {"write"})

DisableReadEvent(c) == SetEvents(c, c.events \ {"read"})

DisableWriteEvent(c) == SetEvents(c, c.events \ {"write"})

DisableAllEvent(c) == SetEvents(c, {})

\* Close(): assert(event_), assert(!attached_); the callbacks are dropped with the event.
Close(c) == [c EXCEPT !.event = FALSE, !.bad = @ \/ ~c.event \/ c.attached]

IsWritable(c) == "write" \in c.events
=============================================================================
