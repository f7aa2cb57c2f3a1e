--------------------------- MODULE EventLoopThread ---------------------------
(***************************************************************************)
(* eventpp::EventLoopThread (src/src/event_loop_thread.cpp): a thread that *)
(* runs one EventLoop, and the owner that starts, stops, joins and destroys *)
(* it.  Several such objects live side by side, indexed by Workers; the    *)
(* module EventLoopThreadPool drives them all from one owner.              *)
(*                                                                         *)
(* The loop is represented by its status_: module EventLoop shows that a   *)
(* Stop() that found it running leads to kStopped and that the functors    *)
(* queued first run first.  An assert() that fails aborts the process.     *)
(***************************************************************************)
EXTENDS Naturals, FiniteSets

CONSTANTS
    Workers,        \* EventLoopThread objects
    Joiners,        \* other threads that call Join()
    WaitStart,      \* the values of wait_thread_started the owner uses
    PreResults,     \* what pre() returns: kOK or not
    MaxStarts       \* bound: calls of Start per object

ASSUME ThreadAssumption ==
    /\ "owner" \notin Joiners
    /\ WaitStart \subseteq BOOLEAN
    /\ PreResults \subseteq {"kOK", "failed"}
    /\ MaxStarts \in Nat

VARIABLES
    status,     \* status_ of the object
    loop,       \* status_ of its EventLoop
    thread,     \* thread_ is not null
    tpc,        \* the next step of the thread
    opc,        \* the next step of the owner's call on the object
    jpc,        \* per joiner and object: its one call of Join()
    mutex,      \* who holds mutex_, or "free"
    starts,     \* calls of Start so far
    casual,     \* history: what has happened that Start() and Stop() do not allow for
    preRan,     \* history: pre() has been called since the last Start
    aborted     \* an assert() has failed

vars == <<status, loop, thread, tpc, opc, jpc, mutex, starts, casual, preRan, aborted>>
ownerVars == <<opc, jpc, mutex, starts, thread, casual>>

Statuses == {"kNull", "kInitialized", "kStarting", "kRunning", "kStopping", "kStopped"}
ThreadSteps == {"none", "spawned", "fn", "pre", "started", "loop", "post", "exiting",
                "callback", "exit", "exited"}
OwnerSteps == {"idle", "starting", "stop", "store", "stoploop", "stopped", "join",
               "joining", "destroyed"}

\* The type invariant: the statuses stay within the values that event_loop_thread.cpp
\* stores, and mutex_ is held by the owner, by a joiner, or by nobody.
TypeOK ==
    /\ status \in [Workers -> Statuses]
    /\ loop \in [Workers -> Statuses]
    /\ thread \in [Workers -> BOOLEAN]
    /\ tpc \in [Workers -> ThreadSteps]
    /\ opc \in [Workers -> [at : OwnerSteps, wait : BOOLEAN, dtor : BOOLEAN]]
    /\ jpc \in [Joiners \X Workers -> {"idle", "joining", "done"}]
    /\ mutex \in [Workers -> Joiners \cup {"owner", "free"}]
    /\ starts \in [Workers -> 0..MaxStarts]
    /\ casual \subseteq {"no wait", "pre failed", "weak cas"}
    /\ preRan \in [Workers -> BOOLEAN]
    /\ aborted \in BOOLEAN

Idle == [at |-> "idle", wait |-> FALSE, dtor |-> FALSE]

Init ==
    /\ status = [w \in Workers |-> "kNull"]
    /\ loop = [w \in Workers |-> "kInitialized"]
    /\ thread = [w \in Workers |-> FALSE]
    /\ tpc = [w \in Workers |-> "none"]
    /\ opc = [w \in Workers |-> Idle]
    /\ jpc = [p \in Joiners \X Workers |-> "idle"]
    /\ mutex = [w \in Workers |-> "free"]
    /\ starts = [w \in Workers |-> 0]
    /\ casual = {}
    /\ preRan = [w \in Workers |-> FALSE]
    /\ aborted = FALSE

ThreadStep(w, from, to) ==
    /\ ~aborted
    /\ tpc[w] = from
    /\ tpc' = [tpc EXCEPT ![w] = to]

OwnerStep(w, from, to) ==
    /\ ~aborted
    /\ opc[w].at = from
    /\ opc' = [opc EXCEPT ![w] = [at |-> to, wait |-> @.wait, dtor |-> @.dtor]]

-----------------------------------------------------------------------------
(* The thread: EventLoopThread::Run.                                       *)

\* EventLoop::Stop(): the compare-exchange from kRunning to kStopping, when it does not fail
\* spuriously (WeakCasFails).
LoopStop(s) == IF s = "kRunning" THEN "kStopping" ELSE s

\* QueueInLoop(fn) and the start of event_loop_->Run(), which returns at once when
\* the loop is not kInitialized, leaving fn in the queue.
EnterLoop(w) ==
    /\ \/ /\ loop[w] = "kInitialized"
          /\ loop' = [loop EXCEPT ![w] = "kRunning"]
          /\ ThreadStep(w, "spawned", "fn")
       \/ /\ loop[w] # "kInitialized"
          /\ ThreadStep(w, "spawned", "post")
          /\ UNCHANGED loop
    /\ UNCHANGED <<status, preRan, aborted, ownerVars>>

\* fn: status_ = kRunning, then pre().
SetRunning(w) ==
    /\ ThreadStep(w, "fn", "pre")
    /\ status' = [status EXCEPT ![w] = "kRunning"]
    /\ preRan' = [preRan EXCEPT ![w] = TRUE]
    /\ UNCHANGED <<loop, aborted, ownerVars>>

\* fn: a pre() that fails stops the loop.
PreReturns(w, rc) ==
    /\ ThreadStep(w, "pre", "loop")
    /\ loop' = [loop EXCEPT ![w] = IF rc = "kOK" THEN @ ELSE LoopStop(@)]
    /\ casual' = IF rc = "kOK" THEN casual ELSE casual \cup {"pre failed"}
    /\ UNCHANGED <<status, preRan, aborted, opc, jpc, mutex, starts, thread>>

\* event_loop_->Run() returns, the loop having been stopped.
LeaveLoop(w) ==
    /\ loop[w] = "kStopping"
    /\ ThreadStep(w, "loop", "post")
    /\ loop' = [loop EXCEPT ![w] = "kStopped"]
    /\ UNCHANGED <<status, preRan, aborted, ownerVars>>

PostReturns(w) ==
    /\ ThreadStep(w, "post", "exit")
    /\ UNCHANGED <<status, loop, preRan, aborted, ownerVars>>

\* Mutant: Run() returns without storing kStopped.
ExitSilently(w) ==
    /\ ThreadStep(w, "exit", "exited")
    /\ UNCHANGED <<status, loop, preRan, aborted, ownerVars>>

\* assert(event_loop_->IsStopped()); status_ = kStopped
SetStopped(w) ==
    /\ ThreadStep(w, "exit", "exited")
    /\ aborted' = (loop[w] # "kStopped")
    /\ status' = [status EXCEPT ![w] = "kStopped"]
    /\ UNCHANGED <<loop, preRan, ownerVars>>

-----------------------------------------------------------------------------
(* The owner's calls.                                                      *)

\* Start(): assert(thread_.get() == nullptr) is the owner's duty here.
Start(w, wait) ==
    /\ ~thread[w]
    /\ starts[w] < MaxStarts
    /\ starts' = [starts EXCEPT ![w] = @ + 1]
    /\ casual' = IF wait THEN casual ELSE casual \cup {"no wait"}
    /\ OwnerStep(w, "idle", IF wait THEN "starting" ELSE "idle")
    /\ status' = [status EXCEPT ![w] = "kStarting"]
    /\ thread' = [thread EXCEPT ![w] = TRUE]
    /\ tpc' = [tpc EXCEPT ![w] = "spawned"]
    /\ preRan' = [preRan EXCEPT ![w] = FALSE]
    /\ UNCHANGED <<loop, jpc, mutex, aborted>>

\* Mutant: the wait ends at kStarting.
StartReturnsEarly(w) ==
    /\ status[w] # "kNull"
    /\ OwnerStep(w, "starting", "idle")
    /\ UNCHANGED <<status, loop, thread, tpc, jpc, mutex, starts, casual, preRan, aborted>>

\* while (status_ < kRunning) usleep(1)
StartReturns(w) ==
    /\ status[w] \in {"kRunning", "kStopping", "kStopped"}
    /\ OwnerStep(w, "starting", "idle")
    /\ UNCHANGED <<status, loop, thread, tpc, jpc, mutex, starts, casual, preRan, aborted>>

\* Stop() is called.
EnterStop(w, wait) ==
    /\ ~aborted /\ opc[w].at = "idle"
    /\ opc' = [opc EXCEPT ![w] = [at |-> "stop", wait |-> wait, dtor |-> FALSE]]
    /\ UNCHANGED <<status, loop, thread, tpc, jpc, mutex, starts, casual, preRan, aborted>>

\* The owner of one object calls Stop() when it saw IsRunning().
CallStop(w, wait) ==
    /\ loop[w] = "kRunning"
    /\ EnterStop(w, wait)

\* assert(status_ == kRunning && IsRunning())
StopAsserts(w) ==
    /\ OwnerStep(w, "stop", "store")
    /\ aborted' = ~(status[w] = "kRunning" /\ loop[w] = "kRunning")
    /\ UNCHANGED <<status, loop, thread, tpc, jpc, mutex, starts, casual, preRan>>

\* status_ = kStopping
StopStores(w) ==
    /\ OwnerStep(w, "store", "stoploop")
    /\ status' = [status EXCEPT ![w] = "kStopping"]
    /\ UNCHANGED <<loop, thread, tpc, jpc, mutex, starts, casual, preRan, aborted>>

\* event_loop_->Stop(); a caller that does not wait is done.
StopLoop(w) ==
    /\ OwnerStep(w, "stoploop", IF opc[w].wait THEN "stopped" ELSE "idle")
    /\ loop' = [loop EXCEPT ![w] = LoopStop(@)]
    /\ UNCHANGED <<status, thread, tpc, jpc, mutex, starts, casual, preRan, aborted>>

\* while (!IsStopped()) usleep(1)
SawStopped(w) ==
    /\ status[w] = "kStopped"
    /\ OwnerStep(w, "stopped", "join")
    /\ UNCHANGED <<status, loop, thread, tpc, jpc, mutex, starts, casual, preRan, aborted>>

\* Mutant: an object that is already stopping is not joined.
DestroyStopping(w) ==
    /\ ~aborted /\ opc[w].at = "idle"
    /\ \A j \in Joiners : jpc[<<j, w>>] # "joining"
    /\ opc' = [opc EXCEPT ![w] = [at |-> IF status[w] = "kRunning" THEN "stop" ELSE
                                         IF status[w] = "kStopping" THEN "destroyed" ELSE "join",
                                  wait |-> TRUE, dtor |-> TRUE]]
    /\ UNCHANGED <<status, loop, thread, tpc, jpc, mutex, starts, casual, preRan, aborted>>

\* ~EventLoopThread(): a running object is stopped, any other is only joined.
Destroy(w) ==
    /\ ~aborted /\ opc[w].at = "idle"
    /\ \A j \in Joiners : jpc[<<j, w>>] # "joining"
    /\ opc' = [opc EXCEPT ![w] = [at |-> IF status[w] = "kRunning" THEN "stop" ELSE "join",
                                  wait |-> TRUE, dtor |-> TRUE]]
    /\ UNCHANGED <<status, loop, thread, tpc, jpc, mutex, starts, casual, preRan, aborted>>

-----------------------------------------------------------------------------
(* Join(): mutex_ is held while the thread is waited for and thread_ reset. *)

Lock(a, w) ==
    /\ mutex[w] = "free"
    /\ mutex' = [mutex EXCEPT ![w] = a]

JoinThread(a, w) ==
    /\ mutex[w] = a
    /\ thread[w] => tpc[w] = "exited"
    /\ mutex' = [mutex EXCEPT ![w] = "free"]
    /\ thread' = [thread EXCEPT ![w] = FALSE]

OwnerCallsJoin(w) ==
    /\ OwnerStep(w, "idle", "join")
    /\ UNCHANGED <<status, loop, thread, tpc, jpc, mutex, starts, casual, preRan, aborted>>

OwnerLocks(w) ==
    /\ OwnerStep(w, "join", "joining")
    /\ Lock("owner", w)
    /\ UNCHANGED <<status, loop, thread, tpc, jpc, starts, casual, preRan, aborted>>

OwnerJoins(w) ==
    /\ OwnerStep(w, "joining", IF opc[w].dtor THEN "destroyed" ELSE "idle")
    /\ JoinThread("owner", w)
    /\ UNCHANGED <<status, loop, tpc, jpc, starts, casual, preRan, aborted>>

JoinerStep(j, w, from, to) ==
    /\ ~aborted
    /\ jpc[<<j, w>>] = from
    /\ jpc' = [jpc EXCEPT ![<<j, w>>] = to]

JoinerLocks(j, w) ==
    /\ ~opc[w].dtor
    /\ JoinerStep(j, w, "idle", "joining")
    /\ Lock(j, w)
    /\ UNCHANGED <<status, loop, thread, tpc, opc, starts, casual, preRan, aborted>>

JoinerJoins(j, w) ==
    /\ JoinerStep(j, w, "joining", "done")
    /\ JoinThread(j, w)
    /\ UNCHANGED <<status, loop, tpc, opc, starts, casual, preRan, aborted>>

-----------------------------------------------------------------------------
ThreadContinues(w) ==
    \/ EnterLoop(w) \/ SetRunning(w) \/ LeaveLoop(w) \/ PostReturns(w) \/ SetStopped(w)
    \/ \E rc \in PreResults : PreReturns(w, rc)

OwnerContinues(w) ==
    \/ StartReturns(w) \/ StopAsserts(w) \/ StopStores(w) \/ StopLoop(w) \/ SawStopped(w)
    \/ OwnerLocks(w) \/ OwnerJoins(w)

\* compare_exchange_weak fails spuriously, as it may where it is not one instruction: Run()
\* returns at once, and a Stop() by the owner or after a failing pre() has no effect.
WeakCasFails(w) ==
    /\ \/ /\ loop[w] = "kInitialized"
          /\ ThreadStep(w, "spawned", "post")
          /\ UNCHANGED opc
       \/ /\ loop[w] = "kRunning" /\ "failed" \in PreResults
          /\ ThreadStep(w, "pre", "loop")
          /\ UNCHANGED opc
       \/ /\ loop[w] = "kRunning"
          /\ OwnerStep(w, "stoploop", IF opc[w].wait THEN "stopped" ELSE "idle")
          /\ UNCHANGED tpc
    /\ casual' = casual \cup {"weak cas"}
    /\ UNCHANGED <<status, loop, thread, jpc, mutex, starts, preRan, aborted>>

Next ==
    \E w \in Workers :
        \/ \E wait \in WaitStart : Start(w, wait)
        \/ \E wait \in BOOLEAN : CallStop(w, wait)
        \/ OwnerCallsJoin(w) \/ Destroy(w)
        \/ ThreadContinues(w) \/ OwnerContinues(w) \/ WeakCasFails(w)
        \/ \E j \in Joiners : JoinerLocks(j, w) \/ JoinerJoins(j, w)

Spec == Init /\ [][Next]_vars

\* Threads that can go on do; nobody is obliged to make a new call.
Fairness ==
    \A w \in Workers :
        /\ WF_vars(ThreadContinues(w))
        /\ WF_vars(OwnerContinues(w))
        /\ \A j \in Joiners : WF_vars(JoinerJoins(j, w))

FairSpec == Spec /\ Fairness

-----------------------------------------------------------------------------
(* Properties.                                                             *)

\* The destructor returns only when the thread is gone: Run() never touches the object
\* (status_, the loop, post) after ~EventLoopThread(), whatever state it was found in.
NoUseAfterDestroy ==
    \A w \in Workers : opc[w].at = "destroyed" => tpc[w] \in {"none", "exited"}

\* thread_ is given up only after the thread has exited, so that no Start() can run a
\* second thread on the loop (the assert in Start) whoever joins, and how many do.
OneThreadPerLoop ==
    \A w \in Workers : ~thread[w] => tpc[w] \in {"none", "exited"}

\* The asserts of Stop() and Run() hold: assert(status_ == kRunning && IsRunning()) for
\* an owner that saw IsRunning() and for the destructor, and assert(IsStopped()).
AssertsHold == ~aborted

\* The same for an owner that may start the object again, as long as it waits in Start(), pre()
\* succeeds and no compare-exchange fails spuriously: otherwise an assert can fail.
CarefulAsserts == casual = {} => ~aborted

\* kStopped is final until the next Start(): Stop()'s store of kStopping is never late.
StoppedIsFinal ==
    [][\A w \in Workers :
          status[w] = "kStopped" => status'[w] \in {"kStopped", "kStarting"}]_vars

\* Start(true) returns only when the loop of this start has called pre().
StartedMeansPreRan ==
    [][\A w \in Workers :
          (opc[w].at = "starting" /\ opc'[w].at = "idle") => preRan[w]]_vars

\* The destructor returns once it has begun: it stops the thread or finds it stopping.  It
\* may not return when the owner has not waited in Start(), since it then joins a thread
\* that has yet to be kRunning and that nobody stops; nor when pre() failed, since the
\* thread may store kStopped before Stop() stores kStopping; nor when the compare-exchange
\* of Stop() failed, since nothing tries it again.
DestroyReturns ==
    \A w \in Workers : opc[w].dtor ~> (opc[w].at = "destroyed" \/ casual # {})
=============================================================================
