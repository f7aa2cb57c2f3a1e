------------------------------ MODULE TaskQueue ------------------------------
(***************************************************************************)
(* What an EventLoop promises to the threads that queue functors in it,    *)
(* without the pipe, the flag, the batches and the counter.  Functors start *)
(* in the order they were queued until the functor that stops the loop is  *)
(* reached; that one flushes the queue from inside the batch it is part of, *)
(* so the order between the rest of the batch and later functors is open.  *)
(* The loop closes only when all that was queued ahead of the stop has run. *)
(***************************************************************************)
EXTENDS Integers, Sequences, Functions

CONSTANTS Tasks, StopTask

VARIABLES
    queued,     \* functors in the order they were queued
    started,    \* functors in the order they were called
    closed      \* the loop has stopped

vars == <<queued, started, closed>>

Init ==
    /\ queued = <<>>
    /\ started = <<>>
    /\ closed = FALSE

Queue(f) ==
    /\ f \notin Range(queued)
    /\ queued' = Append(queued, f)
    /\ UNCHANGED <<started, closed>>

Stopping == StopTask \in Range(started)

Start(f) ==
    /\ ~closed
    /\ f \in Range(queued) \ Range(started)
    /\ ~Stopping => f = queued[Len(started) + 1]
    /\ started' = Append(started, f)
    /\ UNCHANGED <<queued, closed>>

Close ==
    /\ Stopping
    /\ \A i \in DOMAIN queued :
          (\E j \in i..Len(queued) : queued[j] = StopTask) => queued[i] \in Range(started)
    /\ closed' = TRUE
    /\ UNCHANGED <<queued, started>>

Next ==
    \/ \E f \in Tasks \cup {StopTask} : Queue(f) \/ Start(f)
    \/ Close

Spec == Init /\ [][Next]_vars
=============================================================================
