------------------------- MODULE EventLoopThreadPool -------------------------
(***************************************************************************)
(* eventpp::EventLoopThreadPool (src/src/event_loop_thread_pool.cpp): one  *)
(* owner starts, stops and joins EventLoopThread objects; pre and post     *)
(* functors of the threads count each other in and out and move the pool's *)
(* status_; users pick loops with GetNextLoop meanwhile.                   *)
(*                                                                         *)
(* The objects and their threads are those of module EventLoopThread, on a *)
(* processor whose compare-exchange does not fail spuriously.              *)
(***************************************************************************)
EXTENDS EventLoopThread, Sequences

CONSTANTS
    Users,      \* threads that call GetNextLoop
    Hashes,     \* arguments of GetNextLoopWithHash
    StopWaits,  \* the values of wait_thread_exit the owner uses
    UsersRace,  \* TRUE where users call while the owner starts, stops and joins
    MaxNext     \* bound: calls of GetNextLoop

ASSUME PoolAssumption ==
    /\ Cardinality(Workers) \in Nat /\ Workers = 1..Cardinality(Workers)
    /\ Hashes \subseteq Nat
    /\ StopWaits \subseteq BOOLEAN
    /\ UsersRace \in BOOLEAN
    /\ MaxNext \in Nat

VARIABLES
    num,        \* thread_num_
    pstatus,    \* status_ of the pool
    threads,    \* threads_
    ppc,        \* the next step of the owner's call on the pool
    i,          \* the loop variable of that call
    pwait,      \* its argument
    cb,         \* stopped_cb_ is set
    calls,      \* history: calls of the stopped callback
    started,    \* *started_count
    exited,     \* *exited_count
    nth,        \* per thread: the result of its fetch_add, plus one
    next,       \* next_
    upc,        \* per user: the next step of GetNextLoop
    index       \* per user: next % threads_.size()

counters == <<cb, calls, started, exited, nth>>
userVars == <<next, upc, index>>
poolOnly == <<num, pstatus, threads, ppc, i, pwait, counters, userVars>>
poolVars == <<vars, poolOnly>>

\* The type invariant: the counters stay within thread_num_ and threads_ holds distinct
\* objects that Start created.
PoolTypeOK ==
    /\ TypeOK
    /\ num \in {0} \cup Workers
    /\ pstatus \in Statuses
    /\ threads \in Seq(1..num) /\ \A j, k \in DOMAIN threads : threads[j] = threads[k] => j = k
    /\ ppc \in {"idle", "start", "push", "running", "stop", "stopping", "wait", "store",
                "stopped", "join", "joining", "clear", "done"}
    /\ i \in 0..(num + 1)
    /\ pwait \in BOOLEAN /\ cb \in BOOLEAN
    /\ calls \in 0..1
    /\ started \in 0..num /\ exited \in 0..started
    /\ nth \in [Workers -> 0..num]
    /\ next \in 0..MaxNext
    /\ upc \in [Users -> {"idle", "fetch", "hash", "index"}]
    /\ index \in [Users -> Nat]

PoolInit ==
    /\ Init
    /\ num \in {0} \cup Workers
    /\ pstatus = "kNull"
    /\ threads = <<>>
    /\ ppc = "idle" /\ i = 0 /\ pwait = FALSE
    /\ cb = FALSE /\ calls = 0 /\ started = 0 /\ exited = 0
    /\ nth = [w \in Workers |-> 0]
    /\ next = 0
    /\ upc = [u \in Users |-> "idle"]
    /\ index = [u \in Users |-> 0]

PoolStep(from, to) ==
    /\ ~aborted
    /\ ppc = from
    /\ ppc' = to

-----------------------------------------------------------------------------
(* The owner.                                                              *)

\* Start(): a pool without threads runs at once.
PoolStart(wait) ==
    /\ pstatus = "kNull"
    /\ PoolStep("idle", IF num = 0 THEN "idle" ELSE "start")
    /\ pstatus' = IF num = 0 THEN "kRunning" ELSE "kStarting"
    /\ i' = 1 /\ pwait' = wait
    /\ UNCHANGED <<vars, num, threads, counters, userVars>>

\* t->Start(wait_thread_started, prefn, postfn)
StartThread ==
    /\ PoolStep("start", "push")
    /\ Start(i, pwait)
    /\ UNCHANGED <<num, pstatus, threads, i, pwait, counters, userVars>>

\* threads_.push_back(t), then the next round or the end of the for loop.
PushThread ==
    /\ PoolStep("push", IF i < num THEN "start" ELSE IF pwait THEN "running" ELSE "idle")
    /\ opc[i].at = "idle"
    /\ threads' = Append(threads, i)
    /\ i' = i + 1
    /\ UNCHANGED <<vars, num, pstatus, pwait, counters, userVars>>

\* while (!IsRunning()) usleep(1)
SawRunning ==
    /\ pstatus = "kRunning"
    /\ PoolStep("running", "idle")
    /\ UNCHANGED <<vars, num, pstatus, threads, i, pwait, counters, userVars>>

\* Stop(wait_thread_exit, fn), by an owner that saw IsRunning(); without threads the
\* pool is stopped and the callback called at once.
PoolStop(wait, fn) ==
    /\ pstatus = "kRunning"
    /\ PoolStep("idle", IF num = 0 THEN "stopped" ELSE "stop")
    /\ pstatus' = IF num = 0 THEN "kStopped" ELSE "kStopping"
    /\ calls' = IF num = 0 /\ fn THEN calls + 1 ELSE calls
    /\ cb' = (num # 0 /\ fn)
    /\ i' = 1 /\ pwait' = wait
    /\ UNCHANGED <<vars, num, threads, started, exited, nth, userVars>>

\* for (auto &t : threads_) t->Stop()
StopThread ==
    /\ PoolStep("stop", "stopping")
    /\ EnterStop(threads[i], FALSE)
    /\ UNCHANGED <<num, pstatus, threads, i, pwait, counters, userVars>>

ThreadStopReturns ==
    /\ PoolStep("stopping", IF i < Len(threads) THEN "stop" ELSE IF pwait THEN "wait" ELSE "store")
    /\ opc[threads[i]].at = "idle"
    /\ i' = i + 1
    /\ UNCHANGED <<vars, num, pstatus, threads, pwait, counters, userVars>>

\* while (!is_stopped_fn()) usleep(1)
SawAllStopped ==
    /\ \A k \in DOMAIN threads : status[threads[k]] = "kStopped"
    /\ PoolStep("wait", "store")
    /\ UNCHANGED <<vars, num, pstatus, threads, i, pwait, counters, userVars>>

StoreStopped ==
    /\ PoolStep("store", "stopped")
    /\ pstatus' = "kStopped"
    /\ UNCHANGED <<vars, num, threads, i, pwait, counters, userVars>>

\* Join(), called by the owner or by the destructor.
PoolJoin ==
    /\ UsersRace \/ \A u \in Users : upc[u] = "idle"
    /\ PoolStep("stopped", IF threads = <<>> THEN "done" ELSE "join")
    /\ i' = 1
    /\ UNCHANGED <<vars, num, pstatus, threads, pwait, counters, userVars>>

ThreadJoin ==
    /\ PoolStep("join", "joining")
    /\ OwnerCallsJoin(threads[i])
    /\ UNCHANGED <<num, pstatus, threads, i, pwait, counters, userVars>>

ThreadJoinReturns ==
    /\ PoolStep("joining", IF i < Len(threads) THEN "join" ELSE "clear")
    /\ opc[threads[i]].at = "idle"
    /\ i' = i + 1
    /\ UNCHANGED <<vars, num, pstatus, threads, pwait, counters, userVars>>

\* threads_.clear(): the objects are destroyed; their threads have been joined, so the
\* Join() of each destructor finds no thread_.
ClearThreads ==
    /\ PoolStep("clear", "done")
    /\ threads' = <<>>
    /\ opc' = [w \in Workers |-> IF \E k \in DOMAIN threads : threads[k] = w
                                 THEN [at |-> "destroyed", wait |-> TRUE, dtor |-> TRUE]
                                 ELSE opc[w]]
    /\ UNCHANGED <<status, loop, thread, tpc, jpc, mutex, starts, casual, preRan, aborted,
                   num, pstatus, i, pwait, counters, userVars>>

-----------------------------------------------------------------------------
(* The threads: prefn and postfn.                                          *)

\* prefn: started_count->fetch_add(1) + 1
CountStarted(w) ==
    /\ ThreadStep(w, "pre", "started")
    /\ started' = started + 1
    /\ nth' = [nth EXCEPT ![w] = started + 1]
    /\ UNCHANGED <<status, loop, preRan, aborted, ownerVars,
                   num, pstatus, threads, ppc, i, pwait, cb, calls, exited, userVars>>

\* Mutant: the first thread to start declares the pool running.
OnFirstThreadStarted(w) ==
    /\ ThreadStep(w, "started", "loop")
    /\ pstatus' = IF nth[w] = 1 THEN "kRunning" ELSE pstatus
    /\ UNCHANGED <<status, loop, preRan, aborted, ownerVars,
                   num, threads, ppc, i, pwait, counters, userVars>>

OnThreadStarted(w) ==
    /\ ThreadStep(w, "started", "loop")
    /\ pstatus' = IF nth[w] = num THEN "kRunning" ELSE pstatus
    /\ UNCHANGED <<status, loop, preRan, aborted, ownerVars,
                   num, threads, ppc, i, pwait, counters, userVars>>

\* postfn: exited_count->fetch_add(1) + 1
CountExited(w) ==
    /\ ThreadStep(w, "post", "exiting")
    /\ exited' = exited + 1
    /\ nth' = [nth EXCEPT ![w] = exited + 1]
    /\ UNCHANGED <<status, loop, preRan, aborted, ownerVars,
                   num, pstatus, threads, ppc, i, pwait, cb, calls, started, userVars>>

\* Mutant: every exiting thread calls the callback it finds.
OnAnyThreadExited(w) ==
    /\ ThreadStep(w, "exiting", IF cb THEN "callback" ELSE "exit")
    /\ pstatus' = IF nth[w] = num THEN "kStopped" ELSE pstatus
    /\ UNCHANGED <<status, loop, preRan, aborted, ownerVars,
                   num, threads, ppc, i, pwait, counters, userVars>>

\* The last thread moves the pool to kStopped and sees whether there is a callback.
OnThreadExited(w) ==
    /\ ThreadStep(w, "exiting", IF nth[w] = num /\ cb THEN "callback" ELSE "exit")
    /\ pstatus' = IF nth[w] = num THEN "kStopped" ELSE pstatus
    /\ UNCHANGED <<status, loop, preRan, aborted, ownerVars,
                   num, threads, ppc, i, pwait, counters, userVars>>

\* stopped_cb_(); stopped_cb_ = DoneCallback()
CallStopped(w) ==
    /\ ThreadStep(w, "callback", "exit")
    /\ calls' = calls + 1
    /\ cb' = FALSE
    /\ UNCHANGED <<status, loop, preRan, aborted, ownerVars,
                   num, pstatus, threads, ppc, i, pwait, started, exited, nth, userVars>>

-----------------------------------------------------------------------------
(* The users.                                                              *)

UserStep(u, from, to) ==
    /\ ~aborted
    /\ upc[u] = from
    /\ upc' = [upc EXCEPT ![u] = to]

\* IsRunning() && !threads_.empty(); otherwise the base loop is returned.
SeesThreads(u, to) ==
    /\ UsersRace \/ ppc = "idle"
    /\ pstatus = "kRunning" /\ threads # <<>>
    /\ UserStep(u, "idle", to)
    /\ UNCHANGED <<vars, num, pstatus, threads, ppc, i, pwait, counters, next, index>>

\* (bound: MaxNext calls that use next_)
GetNextLoop(u) ==
    /\ next + Cardinality({v \in Users : upc[v] = "fetch"}) < MaxNext
    /\ SeesThreads(u, "fetch")

GetNextLoopWithHash(u) == SeesThreads(u, "hash")

\* next_.fetch_add(1) % threads_.size()
FetchNext(u) ==
    /\ UserStep(u, "fetch", "index")
    /\ next' = next + 1
    /\ index' = [index EXCEPT ![u] = IF threads = <<>> THEN 0 ELSE next % Len(threads)]
    /\ UNCHANGED <<vars, num, pstatus, threads, ppc, i, pwait, counters>>

\* hash % threads_.size()
HashIndex(u, hash) ==
    /\ UserStep(u, "hash", "index")
    /\ index' = [index EXCEPT ![u] = IF threads = <<>> THEN 0 ELSE hash % Len(threads)]
    /\ UNCHANGED <<vars, num, pstatus, threads, ppc, i, pwait, counters, next>>

\* threads_[next]->loop()
ReturnLoop(u) ==
    /\ UserStep(u, "index", "idle")
    /\ UNCHANGED <<vars, num, pstatus, threads, ppc, i, pwait, counters, next, index>>

-----------------------------------------------------------------------------
PoolContinues ==
    \/ StartThread \/ PushThread \/ SawRunning
    \/ StopThread \/ ThreadStopReturns \/ SawAllStopped \/ StoreStopped
    \/ PoolJoin \/ ThreadJoin \/ ThreadJoinReturns \/ ClearThreads

WorkerContinues(w) ==
    \/ /\ EnterLoop(w) \/ SetRunning(w) \/ LeaveLoop(w) \/ SetStopped(w)
       /\ UNCHANGED poolOnly
    \/ CountStarted(w) \/ OnThreadStarted(w)
    \/ CountExited(w) \/ OnThreadExited(w) \/ CallStopped(w)

ObjectContinues(w) ==
    /\ StartReturns(w) \/ StopAsserts(w) \/ StopStores(w) \/ StopLoop(w)
         \/ OwnerLocks(w) \/ OwnerJoins(w)
    /\ UNCHANGED poolOnly

UserContinues(u) == FetchNext(u) \/ ReturnLoop(u) \/ \E hash \in Hashes : HashIndex(u, hash)

PoolNext ==
    \/ \E wait \in WaitStart : PoolStart(wait)
    \/ \E wait \in StopWaits, fn \in BOOLEAN : PoolStop(wait, fn)
    \/ PoolContinues
    \/ \E w \in Workers : WorkerContinues(w) \/ ObjectContinues(w)
    \/ \E u \in Users : GetNextLoop(u) \/ GetNextLoopWithHash(u) \/ UserContinues(u)

PoolSpec == PoolInit /\ [][PoolNext]_poolVars

\* Started threads and calls go on; the owner joins a pool that it has stopped.
PoolFairness ==
    /\ WF_poolVars(PoolContinues)
    /\ \A w \in Workers : WF_poolVars(WorkerContinues(w)) /\ WF_poolVars(ObjectContinues(w))
    /\ \A u \in Users : WF_poolVars(UserContinues(u))

PoolFairSpec == PoolSpec /\ PoolFairness

-----------------------------------------------------------------------------
(* Properties.                                                             *)

\* A pool that IsRunning() has all its threads inside their loops, past the point where
\* EventLoopThread::Stop() may assert; with AssertsHold, a pool can be stopped as soon
\* as it is seen running, waited for or not.
RunningMeansStarted ==
    pstatus = "kRunning" =>
        \A w \in 1..num : status[w] = "kRunning" /\ loop[w] = "kRunning" /\ preRan[w]

\* When the stopped callback is called every loop has stopped and every thread has run its post
\* functor up to the count.
CallbackAfterLastLoop ==
    calls > 0 => \A w \in 1..num : loop[w] = "kStopped" /\ exited = num

\* A pool that IsStopped() has no loop left running ("when all the working thread have
\* stopped status_ will be stored with kStopped in method OnThreadExited").
StoppedMeansExited ==
    pstatus = "kStopped" => \A w \in 1..num : loop[w] = "kStopped"

\* GetNextLoop indexes threads_ within its bounds ("No need to lock here").
IndexInRange ==
    \A u \in Users : upc[u] = "index" => index[u] < Len(threads)

\* A stopped pool ends up joined, with all its objects destroyed after their threads.
StopEndsJoined ==
    (ppc = "stop") ~> (ppc = "done" /\ \A w \in 1..num : tpc[w] = "exited")

\* A callback given to Stop() is called eventually.
CallbackCalled == cb ~> calls = 1
=============================================================================
