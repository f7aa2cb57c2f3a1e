------------------------------ MODULE EventLoop ------------------------------
(***************************************************************************)
(* eventpp::EventLoop: the reactor of one thread and the queue through     *)
(* which every other thread hands it functors (src/src/event_loop.cpp).    *)
(*                                                                         *)
(* QueueInLoop pushes under mutex_, bumps a counter, and writes one byte   *)
(* into a socketpair only if it is the one that flips notified_ to true.   *)
(* The loop thread reads the socketpair and calls DoPendingFunctors, which *)
(* clears notified_, swaps the queue out and runs the batch.  Stop() queues *)
(* StopInLoop, which flushes the queue twice from inside that batch.       *)
(*                                                                         *)
(* Every atomic access, critical section and system call is one step, so   *)
(* the steps of the callers interleave with those of the loop thread.      *)
(***************************************************************************)
EXTENDS Integers, Sequences, FiniteSets, Functions

CONSTANTS
    Callers,        \* threads that use the loop from outside
    LoopThread,     \* the thread that calls Run()
    Tasks,          \* the functors of the users of the loop, each handed over once
    StopTask,       \* std::bind(&EventLoop::StopInLoop, this)
    PipeCapacity,   \* bytes the socketpair holds before send() fails
    RecvSize,       \* bytes one recv() of PipeEventWatcher::HandlerFn takes
    WeakCas,        \* TRUE where compare_exchange_weak may fail spuriously (LL/SC)
    Forks           \* TRUE where the owner may fork and call AfterFork before Run

Threads == Callers \cup {LoopThread}

ASSUME LoopAssumption ==
    /\ LoopThread \notin Callers
    /\ StopTask \notin Tasks
    /\ PipeCapacity \in Nat \ {0}
    /\ RecvSize \in Nat \ {0}
    /\ WeakCas \in BOOLEAN
    /\ Forks \in BOOLEAN

VARIABLES
    status,     \* status_
    watcher,    \* watcher_: "idle", "watching" (event_add done) or "null"
    pipe,       \* bytes written to the socketpair and not yet read
    notified,   \* notified_
    pending,    \* *pending_functors_
    count,      \* pending_functor_count_
    qpc,        \* per thread: the next step of the QueueInLoop it is in
    lpc,        \* the next step of the loop thread
    batches,    \* the `functors` vectors of the active DoPendingFunctors calls,
                \* innermost first, each from the functor being run on
    flush,      \* StopInLoop: 0 not in it, 1 and 2 its two flushes
    exiting,    \* event_base_loopexit() was called
    pushed,     \* history: functors in the order they entered the queue
    executed,   \* history: functors in the order the loop called them
    inlined,    \* history: functors that RunInLoop called on the spot
    disturbed   \* history: a compare-exchange failed spuriously, or a fork lost a byte

callerVars == <<pending, count, notified, pipe, qpc, pushed, inlined, disturbed>>
loopVars   == <<lpc, batches, flush, exiting, executed>>
vars == <<status, watcher, callerVars, loopVars>>

LoopSteps == {"created", "starting", "watched", "dispatch", "store", "swap", "loop",
              "run", "dec", "empty", "loopexit", "reset", "stop", "done"}
QueueSteps == {"idle", "count", "cas", "check", "notify", "stop"}

\* The type invariant: status_ is one of the values the loop's code stores in it, the
\* socketpair never holds more than its capacity, and the functors are the ones that
\* QueueInLoop was given.
TypeOK ==
    /\ status \in {"kInitialized", "kStarting", "kRunning", "kStopping", "kStopped"}
    /\ watcher \in {"idle", "watching", "null"}
    /\ pipe \in 0..PipeCapacity
    /\ notified \in BOOLEAN
    /\ pending \in Seq(Tasks \cup {StopTask})
    /\ count \in Int
    /\ qpc \in [Threads -> QueueSteps]
    /\ lpc \in LoopSteps
    /\ batches \in Seq(Seq(Tasks \cup {StopTask}))
    /\ flush \in 0..2
    /\ exiting \in BOOLEAN
    /\ pushed \in Seq(Tasks \cup {StopTask})
    /\ executed \in Seq(Tasks \cup {StopTask})
    /\ inlined \subseteq Tasks
    /\ disturbed \in BOOLEAN

\* The constructor: Init() and InitNotifyPipeWatcher() have succeeded.
Init ==
    /\ status = "kInitialized"
    /\ watcher = "idle"
    /\ pipe = 0
    /\ notified = FALSE
    /\ pending = <<>>
    /\ count = 0
    /\ qpc = [t \in Threads |-> "idle"]
    /\ lpc = "created"
    /\ batches = <<>>
    /\ flush = 0
    /\ exiting = FALSE
    /\ pushed = <<>>
    /\ executed = <<>>
    /\ inlined = {}
    /\ disturbed = FALSE

-----------------------------------------------------------------------------
(* The callers: QueueInLoop, RunInLoop and Stop, by any thread.            *)

\* A thread may call into the loop when it is in no other such call.  The loop
\* thread does so before Run, from a functor, or from another event's callback.
MayCall(t) ==
    /\ qpc[t] = "idle"
    /\ t = LoopThread => lpc \in {"created", "dispatch", "run"}

Fresh(f) == f \notin Range(pushed) \cup inlined

Step(t, from, to) ==
    /\ qpc[t] = from
    /\ qpc' = [qpc EXCEPT ![t] = to]

\* Mutant: the new functor goes to the front of the vector.
PushFront(f) ==
    /\ pending' = <<f>> \o pending
    /\ pushed' = Append(pushed, f)

\* The critical section of QueueInLoop.
Push(f) ==
    /\ pending' = Append(pending, f)
    /\ pushed' = Append(pushed, f)

QueueInLoop(t, f) ==
    /\ MayCall(t)
    /\ Fresh(f)
    /\ Push(f)
    /\ Step(t, "idle", "count")
    /\ UNCHANGED <<status, watcher, count, notified, pipe, inlined, disturbed, loopVars>>

\* RunInLoop: on the running loop's own thread the functor is called at once,
\* anywhere else it is queued (QueueInLoop above).
RunInLoop(t, f) ==
    /\ MayCall(t)
    /\ Fresh(f)
    /\ status = "kRunning" /\ t = LoopThread
    /\ inlined' = inlined \cup {f}
    /\ UNCHANGED <<status, watcher, pending, count, notified, pipe, qpc, pushed, disturbed, loopVars>>

IncrementCount(t) ==
    /\ Step(t, "count", "cas")
    /\ count' = count + 1
    /\ UNCHANGED <<status, watcher, pending, notified, pipe, pushed, inlined, disturbed, loopVars>>

\* notified_.compare_exchange_weak(false, true): only the winner notifies.
CompareExchange(t) ==
    /\ \/ /\ ~notified
          /\ notified' = TRUE
          /\ Step(t, "cas", "check")
          /\ UNCHANGED disturbed
       \/ /\ notified
          /\ Step(t, "cas", "idle")
          /\ UNCHANGED <<notified, disturbed>>
       \/ /\ ~notified /\ WeakCas
          /\ Step(t, "cas", "idle")
          /\ disturbed' = TRUE
          /\ UNCHANGED notified
    /\ UNCHANGED <<status, watcher, pending, count, pipe, pushed, inlined, loopVars>>

\* Mutant: only a watcher that is already waiting is notified.
CheckWatching(t) ==
    /\ Step(t, "check", IF watcher # "watching" THEN "idle" ELSE "notify")
    /\ UNCHANGED <<status, watcher, pending, count, notified, pipe, pushed, inlined, disturbed, loopVars>>

\* if (watcher_): a plain read of the shared_ptr that Run() resets.
CheckWatcher(t) ==
    /\ Step(t, "check", IF watcher = "null" THEN "idle" ELSE "notify")
    /\ UNCHANGED <<status, watcher, pending, count, notified, pipe, pushed, inlined, disturbed, loopVars>>

\* watcher_->Notify(): send one byte; a full or a closed socketpair takes none.
Notify(t) ==
    /\ Step(t, "notify", "idle")
    /\ pipe' = IF watcher # "null" /\ pipe < PipeCapacity THEN pipe + 1 ELSE pipe
    /\ UNCHANGED <<status, watcher, pending, count, notified, pushed, inlined, disturbed, loopVars>>

\* Stop(): the CAS from kRunning; in any other status Stop() does nothing.
Stop(t) ==
    /\ MayCall(t)
    /\ status = "kRunning"
    /\ status' = "kStopping"
    /\ Step(t, "idle", "stop")
    /\ UNCHANGED <<watcher, pending, count, notified, pipe, pushed, inlined, disturbed, loopVars>>

QueueStopInLoop(t) ==
    /\ Step(t, "stop", "count")
    /\ Push(StopTask)
    /\ UNCHANGED <<status, watcher, count, notified, pipe, inlined, disturbed, loopVars>>

-----------------------------------------------------------------------------
(* The loop thread: Run, the pipe's handler, DoPendingFunctors, StopInLoop. *)

LoopStep(from, to) ==
    /\ lpc = from
    /\ lpc' = to

\* Run(): the CAS from kInitialized.
Run ==
    /\ qpc[LoopThread] = "idle"
    /\ status = "kInitialized"
    /\ status' = "kStarting"
    /\ LoopStep("created", "starting")
    /\ UNCHANGED <<watcher, callerVars, batches, flush, exiting, executed>>

AsyncWait ==
    /\ LoopStep("starting", "watched")
    /\ watcher' = "watching"
    /\ UNCHANGED <<status, callerVars, batches, flush, exiting, executed>>

SetRunning ==
    /\ LoopStep("watched", "dispatch")
    /\ status' = "kRunning"
    /\ UNCHANGED <<watcher, callerVars, batches, flush, exiting, executed>>

\* The base reports the socketpair readable: HandlerFn receives and calls
\* DoPendingFunctors.  After loopexit the base polls no more.
HandlerFn ==
    /\ qpc[LoopThread] = "idle"
    /\ watcher = "watching" /\ pipe > 0 /\ ~exiting
    /\ LoopStep("dispatch", "store")
    /\ pipe' = IF pipe > RecvSize THEN pipe - RecvSize ELSE 0
    /\ UNCHANGED <<status, watcher, pending, count, notified, qpc, pushed, inlined, disturbed,
                   batches, flush, exiting, executed>>

\* Mutant: DoPendingFunctors forgets to clear notified_.
KeepNotified ==
    /\ LoopStep("store", "swap")
    /\ UNCHANGED <<status, watcher, callerVars, batches, flush, exiting, executed>>

\* notified_.store(false)
ClearNotified ==
    /\ LoopStep("store", "swap")
    /\ notified' = FALSE
    /\ UNCHANGED <<status, watcher, pending, count, pipe, qpc, pushed, inlined, disturbed,
                   batches, flush, exiting, executed>>

\* pending_functors_->swap(functors)
SwapPending ==
    /\ LoopStep("swap", "loop")
    /\ batches' = <<pending>> \o batches
    /\ pending' = <<>>
    /\ UNCHANGED <<status, watcher, count, notified, pipe, qpc, pushed, inlined, disturbed,
                   flush, exiting, executed>>

\* functors[i](): a user's functor, or StopInLoop, which begins its first flush.
CallFunctor ==
    /\ batches # <<>> /\ Head(batches) # <<>>
    /\ LET f == Head(Head(batches))
       IN  /\ executed' = Append(executed, f)
           /\ LoopStep("loop", IF f = StopTask THEN "store" ELSE "run")
           /\ flush' = IF f = StopTask THEN 1 ELSE flush
    /\ UNCHANGED <<status, watcher, callerVars, batches, exiting>>

FunctorReturns ==
    /\ qpc[LoopThread] = "idle"
    /\ LoopStep("run", "dec")
    /\ UNCHANGED <<status, watcher, callerVars, batches, flush, exiting, executed>>

\* --pending_functor_count_, then the next round of the for loop.
DecrementCount ==
    /\ LoopStep("dec", "loop")
    /\ count' = count - 1
    /\ batches' = <<Tail(Head(batches))>> \o Tail(batches)
    /\ UNCHANGED <<status, watcher, pending, notified, pipe, qpc, pushed, inlined, disturbed,
                   flush, exiting, executed>>

\* DoPendingFunctors returns: to FlushPendingFunctors when StopInLoop called it,
\* to the base otherwise.
BatchReturns ==
    /\ batches # <<>> /\ Head(batches) = <<>>
    /\ batches' = Tail(batches)
    /\ LoopStep("loop", IF flush = 0 THEN "dispatch" ELSE "empty")
    /\ UNCHANGED <<status, watcher, callerVars, flush, exiting, executed>>

\* FlushPendingFunctors: go round again, or on to the next step of StopInLoop.
IsPendingQueueEmpty ==
    /\ \/ pending # <<>> /\ LoopStep("empty", "store") /\ UNCHANGED flush
       \/ pending = <<>> /\ flush = 1 /\ LoopStep("empty", "loopexit") /\ UNCHANGED flush
       \/ pending = <<>> /\ flush = 2 /\ LoopStep("empty", "dec") /\ flush' = 0
    /\ UNCHANGED <<status, watcher, callerVars, batches, exiting, executed>>

\* Mutant: StopInLoop does not tell the base to exit.
NoLoopExit ==
    /\ LoopStep("loopexit", "store")
    /\ flush' = 2
    /\ UNCHANGED <<status, watcher, callerVars, batches, exiting, executed>>

LoopExit ==
    /\ LoopStep("loopexit", "store")
    /\ exiting' = TRUE
    /\ flush' = 2
    /\ UNCHANGED <<status, watcher, callerVars, batches, executed>>

DispatchReturns ==
    /\ exiting
    /\ qpc[LoopThread] = "idle"
    /\ LoopStep("dispatch", "reset")
    /\ UNCHANGED <<status, watcher, callerVars, batches, flush, exiting, executed>>

ResetWatcher ==
    /\ LoopStep("reset", "stop")
    /\ watcher' = "null"
    /\ pipe' = 0
    /\ UNCHANGED <<status, pending, count, notified, qpc, pushed, inlined, disturbed,
                   batches, flush, exiting, executed>>

SetStopped ==
    /\ LoopStep("stop", "done")
    /\ status' = "kStopped"
    /\ UNCHANGED <<watcher, callerVars, batches, flush, exiting, executed>>

\* The child of a fork, before Run: a new socketpair, everything else inherited.  A set
\* notified_ then speaks of a byte that is in the old one.
AfterFork ==
    /\ Forks
    /\ lpc = "created"
    /\ \A t \in Threads : qpc[t] = "idle"
    /\ watcher' = "idle"
    /\ pipe' = 0
    /\ disturbed' = (disturbed \/ notified)
    /\ UNCHANGED <<status, pending, count, notified, qpc, pushed, inlined, loopVars>>

-----------------------------------------------------------------------------
CallerContinues(t) ==
    \/ IncrementCount(t)
    \/ CompareExchange(t)
    \/ CheckWatcher(t)
    \/ Notify(t)
    \/ QueueStopInLoop(t)

LoopContinues ==
    \/ AsyncWait \/ SetRunning \/ HandlerFn
    \/ ClearNotified \/ SwapPending \/ CallFunctor \/ FunctorReturns \/ DecrementCount
    \/ BatchReturns \/ IsPendingQueueEmpty \/ LoopExit
    \/ DispatchReturns \/ ResetWatcher \/ SetStopped

Next ==
    \/ \E t \in Threads, f \in Tasks : QueueInLoop(t, f) \/ RunInLoop(t, f)
    \/ \E t \in Threads : Stop(t) \/ CallerContinues(t)
    \/ Run
    \/ LoopContinues
    \/ AfterFork

Spec == Init /\ [][Next]_vars

\* The scheduler keeps running every thread that has something left to do; nobody
\* is obliged to make a new call.
Fairness ==
    /\ \A t \in Threads : WF_vars(CallerContinues(t))
    /\ WF_vars(LoopContinues)

FairSpec == Spec /\ Fairness

-----------------------------------------------------------------------------
(* Properties.                                                             *)

\* A byte that will wake the base is in the socketpair, or its sender is past the
\* compare-exchange that made it responsible for sending it.
WakeupDue == pipe > 0 \/ \E t \in Threads : qpc[t] \in {"check", "notify"}

\* No wakeup is lost: while the loop thread is back in the base, a set notified_
\* means a byte is on its way, and a functor in the queue means that notified_ is
\* set or that the thread which pushed it has yet to try setting it.  This is what
\* the order of the steps of QueueInLoop and DoPendingFunctors is there for.  It is not
\* so once a compare-exchange has failed spuriously or a fork has lost a byte.
NoLostWakeup ==
    lpc = "dispatch" /\ ~exiting /\ ~disturbed =>
        /\ notified => WakeupDue
        /\ pending # <<>> => notified \/ \E t \in Threads : qpc[t] \in {"count", "cas"}

\* pending_functor_count_ counts the functors that are queued or swapped out and not
\* yet finished, short of those whose pusher has not reached the increment: it is off
\* only by increments in flight (and can be negative), never for good.
CountAccounts ==
    count = Len(pending) + SumFunction([i \in DOMAIN batches |-> Len(batches[i])])
              - Cardinality({t \in Threads : qpc[t] = "count"})

\* The promise of the loop as an abstract queue: every functor is called at most once,
\* in the order of the pushes until StopInLoop runs, and the status becomes kStopped
\* only after every functor queued before the stop request has been called.
Abstract == INSTANCE TaskQueue
                WITH queued <- pushed, started <- executed, closed <- (status = "kStopped")
ImplementsTaskQueue == Abstract!Spec

\* A functor that is in the queue of a running loop is called eventually, even when
\* the loop is stopped meanwhile (DoPendingFunctors, FlushPendingFunctors), if no
\* wakeup was disturbed.
QueuedFunctorRuns ==
    \A f \in Tasks :
        (status = "kRunning" /\ f \in Range(pending)) ~> (f \in Range(executed) \/ disturbed)

\* A Stop() that took effect stops the loop: kStopping leads to kStopped, if no wakeup
\* was disturbed.
StopCompletes == (status = "kStopping") ~> (status = "kStopped" \/ disturbed)

\* watcher_->Notify() is called on a watcher that still exists: the test
\* `if (watcher_)` before it is there because Run() releases the watcher.
WatcherAliveAtNotify ==
    \A t \in Threads : qpc[t] = "notify" => watcher # "null"
=============================================================================
