---------------------------- MODULE InvokeTimer ----------------------------
(***************************************************************************)
(* eventpp::InvokeTimer (src/src/invoke_timer.cpp) on its TimerEventWatcher *)
(* (src/src/event_watcher.cpp): one-shot and periodic timers made by        *)
(* RunAfter and RunEvery, cancelled from any thread.                       *)
(*                                                                         *)
(* Start and Cancel go through EventLoop::RunInLoop: at once on the running *)
(* loop's thread, by way of the FIFO queue (module EventLoop) elsewhere.   *)
(* An InvokeTimer keeps itself alive through self_ until it has fired for   *)
(* good or was cancelled; timer_ owns the libevent event.                  *)
(***************************************************************************)
EXTENDS Naturals, Sequences, Functions

CONSTANTS
    Timers,         \* InvokeTimer objects
    Outside,        \* threads other than the loop's
    LoopThread,
    EarlyCancel,    \* TRUE where the loop thread may cancel a timer whose start is queued
    MaxFires        \* bound: expirations of a periodic timer

ASSUME TimerAssumption ==
    /\ LoopThread \notin Outside
    /\ EarlyCancel \in BOOLEAN
    /\ MaxFires \in Nat \ {0}

Threads == Outside \cup {LoopThread}

VARIABLES
    made,       \* the timer has been created
    every,      \* history: it was created by RunEvery
    positive,   \* timeout_ > 0
    periodic,   \* periodic_
    timer,      \* timer_: "null", "armed" (event added) or "fired" (in its handler)
    self,       \* self_ is set
    held,       \* users hold the InvokeTimerPtr
    queue,      \* the loop's pending functors: <<"start" or "cancel", t>>
    running,    \* the loop is kRunning
    handling,   \* timers whose OnTimerTriggered is on the loop's stack (at most one)
    fired,      \* history: calls of functor_
    canceled    \* history: a functor of Cancel() has run

vars == <<made, every, positive, periodic, timer, self, held, queue, running, handling,
          fired, canceled>>

\* The type invariant: timer_ is null, armed or in its handler, and only functors of
\* Start() and Cancel() are in the queue.
TypeOK ==
    /\ made \in [Timers -> BOOLEAN]
    /\ every \in [Timers -> BOOLEAN] /\ positive \in [Timers -> BOOLEAN]
    /\ periodic \in [Timers -> BOOLEAN]
    /\ timer \in [Timers -> {"null", "armed", "fired"}]
    /\ self \in [Timers -> BOOLEAN] /\ held \in [Timers -> BOOLEAN]
    /\ queue \in Seq({"start", "cancel"} \X Timers)
    /\ running \in BOOLEAN
    /\ handling \subseteq Timers
    /\ fired \in [Timers -> 0..MaxFires]
    /\ canceled \in [Timers -> BOOLEAN]

Init ==
    /\ made = [t \in Timers |-> FALSE]
    /\ every = [t \in Timers |-> FALSE]
    /\ positive = [t \in Timers |-> FALSE]
    /\ periodic = [t \in Timers |-> FALSE]
    /\ timer = [t \in Timers |-> "null"]
    /\ self = [t \in Timers |-> FALSE]
    /\ held = [t \in Timers |-> FALSE]
    /\ queue = <<>>
    /\ running = FALSE
    /\ handling = {}
    /\ fired = [t \in Timers |-> 0]
    /\ canceled = [t \in Timers |-> FALSE]

\* The object exists: users, self_ or a shared_ptr locked by its handler hold it.
Alive(t) == self[t] \/ held[t] \/ t \in handling

Queued(op, t) == <<op, t>> \in Range(queue)

-----------------------------------------------------------------------------
(* RunAfter, RunEvery and Cancel, by any thread.                           *)

\* IsRunning() && IsInLoopThread()
Inline(th) == running /\ th = LoopThread

Create(t, p, w) ==
    /\ ~made[t]
    /\ made' = [made EXCEPT ![t] = TRUE]
    /\ every' = [every EXCEPT ![t] = p]
    /\ positive' = [positive EXCEPT ![t] = w]
    /\ periodic' = [periodic EXCEPT ![t] = p]
    /\ self' = [self EXCEPT ![t] = TRUE]
    /\ held' = [held EXCEPT ![t] = TRUE]

\* Mutant: the watcher is initialised but never waits.
InitOnly(t) == timer' = [timer EXCEPT ![t] = "initialized"]

\* The functor of Start(): a new TimerEventWatcher, initialised and waiting.
Arm(t) == timer' = [timer EXCEPT ![t] = "armed"]

\* RunAfter (p false) or RunEvery (p true), with a timeout that is positive (w) or not: Create,
\* then Start.
RunTimer(th, t, p, w) ==
    /\ Create(t, p, w)
    /\ \/ Inline(th) /\ Arm(t) /\ UNCHANGED queue
       \/ ~Inline(th) /\ queue' = Append(queue, <<"start", t>>) /\ UNCHANGED timer
    /\ UNCHANGED <<running, handling, fired, canceled>>

\* The functor of Cancel(): timer_->Cancel() frees the event and calls OnCanceled(),
\* which calls the user's callback and resets timer_ and self_.  Without a timer_
\* (not yet started, or done) nothing happens.
CancelFunctor(t) ==
    /\ canceled' = [canceled EXCEPT ![t] = TRUE]
    /\ \/ /\ timer[t] # "null"
          /\ periodic' = [periodic EXCEPT ![t] = FALSE]
          /\ timer' = [timer EXCEPT ![t] = "null"]
          /\ self' = [self EXCEPT ![t] = FALSE]
       \/ /\ timer[t] = "null"
          /\ UNCHANGED <<periodic, timer, self>>

\* Cancel(), by a user that holds the pointer.  Bound: one queued Cancel() per timer.
Cancel(th, t) ==
    /\ made[t] /\ held[t]
    /\ \/ /\ Inline(th)
          /\ EarlyCancel \/ ~Queued("start", t)
          /\ CancelFunctor(t)
          /\ UNCHANGED queue
       \/ /\ ~Inline(th) /\ ~Queued("cancel", t)
          /\ queue' = Append(queue, <<"cancel", t>>)
          /\ UNCHANGED <<periodic, timer, self, canceled>>
    /\ UNCHANGED <<made, every, positive, held, running, handling, fired>>

\* The users let go of the pointer.
Release(t) ==
    /\ held[t]
    /\ held' = [held EXCEPT ![t] = FALSE]
    /\ UNCHANGED <<made, every, positive, periodic, timer, self, queue, running, handling,
                   fired, canceled>>

-----------------------------------------------------------------------------
(* The loop thread.                                                        *)

LoopRuns ==
    /\ ~running
    /\ running' = TRUE
    /\ UNCHANGED <<made, every, positive, periodic, timer, self, held, queue, handling,
                   fired, canceled>>

RunStart ==
    /\ running /\ handling = {} /\ queue # <<>> /\ Head(queue)[1] = "start"
    /\ Arm(Head(queue)[2])
    /\ queue' = Tail(queue)
    /\ UNCHANGED <<made, every, positive, periodic, self, held, running, handling,
                   fired, canceled>>

\* The functor of Cancel() locks its weak_ptr first: a timer that is gone is left alone.
RunCancel ==
    /\ running /\ handling = {} /\ queue # <<>> /\ Head(queue)[1] = "cancel"
    /\ LET t == Head(queue)[2]
       IN  \/ Alive(t) /\ CancelFunctor(t)
           \/ ~Alive(t) /\ UNCHANGED <<periodic, timer, self, canceled>>
    /\ queue' = Tail(queue)
    /\ UNCHANGED <<made, every, positive, held, running, handling, fired>>

\* Watch() adds the event without a timeout when timeout_ is not positive: it never expires.
Expires(t) == timer[t] = "armed" /\ positive[t]

\* The event expires: OnTimerTriggered() calls functor_, which may cancel this timer.
OnTimerTriggered(t) ==
    /\ running /\ handling = {}
    /\ Expires(t) /\ fired[t] < MaxFires
    /\ timer' = [timer EXCEPT ![t] = "fired"]
    /\ handling' = {t}
    /\ fired' = [fired EXCEPT ![t] = @ + 1]
    /\ UNCHANGED <<made, every, positive, periodic, self, held, queue, running, canceled>>

\* Mutant: the periodicity the timer was created with is used, not periodic_.
FunctorReturnsStale(t) ==
    /\ t \in handling
    /\ handling' = {}
    /\ \/ every[t] /\ Arm(t) /\ UNCHANGED self
       \/ /\ ~every[t]
          /\ timer' = [timer EXCEPT ![t] = "null"]
          /\ self' = [self EXCEPT ![t] = FALSE]
    /\ UNCHANGED <<made, every, positive, periodic, held, queue, running, fired, canceled>>

\* functor_ returns: a timer that is still periodic waits again, another is done.
FunctorReturns(t) ==
    /\ t \in handling
    /\ handling' = {}
    /\ \/ periodic[t] /\ Arm(t) /\ UNCHANGED self
       \/ /\ ~periodic[t]
          /\ timer' = [timer EXCEPT ![t] = "null"]
          /\ self' = [self EXCEPT ![t] = FALSE]
    /\ UNCHANGED <<made, every, positive, periodic, held, queue, running, fired, canceled>>

-----------------------------------------------------------------------------
LoopContinues == RunStart \/ RunCancel \/ \E t \in Timers : FunctorReturns(t)

Next ==
    \/ \E th \in Threads, t \in Timers, p, w \in BOOLEAN : RunTimer(th, t, p, w)
    \/ \E th \in Threads, t \in Timers : Cancel(th, t)
    \/ \E t \in Timers : Release(t) \/ OnTimerTriggered(t)
    \/ LoopRuns
    \/ LoopContinues

Spec == Init /\ [][Next]_vars

\* The loop is run and serves its queue and its expired timers.
Fairness ==
    /\ WF_vars(LoopRuns)
    /\ WF_vars(LoopContinues)
    /\ \A t \in Timers : SF_vars(OnTimerTriggered(t))

FairSpec == Spec /\ Fairness

-----------------------------------------------------------------------------
(* Properties.                                                             *)

\* OnTimerTriggered() of a timer that is still periodic_ finds its timer_, also when
\* functor_ cancelled it: timer_->AsyncWait() never goes through a null pointer.
PeriodicHasTimer == \A t \in Timers : t \in handling /\ periodic[t] => timer[t] = "fired"

\* An InvokeTimer holds itself exactly as long as it may still fire: it is not freed
\* under an armed event, and it is not kept for ever once it is done or cancelled.
SelfWhileUseful ==
    \A t \in Timers : self[t] <=> Queued("start", t) \/ timer[t] # "null"

\* Once the functor of a Cancel() has run, functor_ is not called again.
NoFireAfterCancel ==
    [][\A t \in Timers : canceled[t] => fired'[t] = fired[t]]_vars

\* Every timer with a positive timeout that RunAfter or RunEvery made fires, unless it is
\* cancelled ("When the timer is timeout, the functor f will be invoked automatically").
FiresOrCanceled == \A t \in Timers : (made[t] /\ positive[t]) ~> (fired[t] > 0 \/ canceled[t])

\* The same of every timer, whatever its timeout.
AllFireOrCanceled == \A t \in Timers : made[t] ~> (fired[t] > 0 \/ canceled[t])
=============================================================================
