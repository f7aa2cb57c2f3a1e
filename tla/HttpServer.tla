------------------------------ MODULE HttpServer ------------------------------
(***************************************************************************)
(* eventpp::http::Server (src/src/http/http_server.cpp) and its Services     *)
(* (service.cpp): one listening thread per port, a pool of workers that may  *)
(* be empty, and the user's thread, which calls Init, Start, Pause,          *)
(* Continue, Stop and the destructor.                                        *)
(*                                                                           *)
(* A request goes from the listening thread to a worker and back: Dispatch   *)
(* looks at the server's status, then picks the worker; SendReply looks at   *)
(* the listening loop's status, then queues the reply there.  Between the    *)
(* two steps of each, Stop may get on with its work.                         *)
(***************************************************************************)
EXTENDS Naturals, Sequences, FiniteSets

CONSTANTS Listeners,   \* the listening threads, one per port
          Workers,     \* the threads of tpool_, if it has any
          Requests,    \* the requests that arrive
          Registered,  \* what the Server has: callbacks_ ("known"), default_callback_ ("default")
          Answers,     \* the codes the user's callbacks answer with; 404 is for no data
          MaxPauses    \* bound: calls of Pause and of Continue

ASSUME ThreadsAssumption == IsFiniteSet(Listeners) /\ Listeners \cap Workers = {}

VARIABLES status,      \* status_
          main,        \* where the user's thread is, and the listener it deals with
          workers,     \* the threads of tpool_: Workers, or none
          pool,        \* tpool_'s status; "reset" once Stop has freed it
          loop,        \* of each thread, its loop's status
          queue,       \* of each thread, the functors queued in its loop
          service,     \* of each listener, its Service
          busy,        \* of each thread, the requests it is in the middle of
          paused,      \* count in Stop
          pauses,      \* calls of Pause and Continue so far
          req,         \* the requests
          serverOk     \* FALSE once an assert failed or a null or freed object was used
serverVars == <<status, main, workers, pool, loop, queue, service, busy, paused, pauses, req, serverOk>>

Threads == Listeners \cup Workers

NewRequest == [state |-> "none", at |-> "nowhere", fresh |-> FALSE, replied |-> FALSE, code |-> 0]

ServerInit ==
  /\ status = "kNull" /\ main = [pc |-> "new", at |-> "nowhere"]
  /\ workers \in {{}, Workers} /\ pool = "kNull"
  /\ loop = [t \in Threads |-> "kNull"] /\ queue = [t \in Threads |-> <<>>]
  /\ service = [l \in Listeners |-> [evhttp |-> FALSE, enabled |-> FALSE, handlers |-> {}]]
  /\ busy = [t \in Threads |-> {}] /\ paused = 0 /\ pauses = 0
  /\ req = [i \in Requests |-> NewRequest] /\ serverOk = TRUE

Goto(pc) == main' = [main EXCEPT !.pc = pc]
Holds(p) == serverOk' = (serverOk /\ p)

-----------------------------------------------------------------------------
(* The user's thread.                                                      *)

\* Init with a list of ports: the first that cannot be bound ends it, and its Service is stopped.
InitPorts(bound) ==
  /\ main.pc = "new"
  /\ service' = [l \in Listeners |-> [evhttp |-> l \in bound, enabled |-> l \in bound, handlers |-> {}]]
  /\ status' = IF bound = Listeners THEN "kInitialized" ELSE "kInitializing"
  /\ Goto(IF bound = Listeners THEN "initialized" ELSE "failed")
  /\ UNCHANGED <<workers, pool, loop, queue, busy, paused, pauses, req, serverOk>>

\* Start, up to tpool_->Start(true).
StartPool ==
  /\ main.pc = "initialized" /\ Holds(status = "kInitialized")
  /\ status' = "kStarting" /\ pool' = "kRunning" /\ Goto("listen")
  /\ loop' = [t \in Threads |-> IF t \in workers THEN "kRunning" ELSE loop[t]]
  /\ UNCHANGED <<workers, queue, service, busy, paused, pauses, req>>

\* lthread->Start(true, ...): it runs before it has handlers.
StartListener(l) ==
  /\ main.pc = "listen" /\ loop[l] = "kNull"
  /\ loop' = [loop EXCEPT ![l] = "kRunning"] /\ main' = [pc |-> "register", at |-> l]
  /\ UNCHANGED <<status, workers, pool, queue, service, busy, paused, pauses, req, serverOk>>

\* RegisterHandler, then RegisterDefaultHandler, of a Service whose thread runs.
Register(h) ==
  /\ main.pc = "register" /\ h \in Registered \ service[main.at].handlers
  /\ h = "default" => "known" \notin Registered \ service[main.at].handlers
  /\ service' = [service EXCEPT ![main.at].handlers = @ \cup {h}]
  /\ UNCHANGED <<status, main, workers, pool, loop, queue, busy, paused, pauses, req, serverOk>>

\* The next listener, or kRunning once every thread runs.
RegisteredAll ==
  /\ main.pc = "register" /\ service[main.at].handlers = Registered
  /\ IF \E l \in Listeners : loop[l] = "kNull" THEN Goto("listen") /\ UNCHANGED status
     ELSE Goto("running") /\ status' = "kRunning"
  /\ UNCHANGED <<workers, pool, loop, queue, service, busy, paused, pauses, req, serverOk>>

QueueAll(threads, f) == queue' = [t \in Threads |-> IF t \in threads THEN Append(queue[t], f) ELSE queue[t]]

PauseOrContinue(f) ==
  /\ main.pc = "running" /\ pauses < MaxPauses /\ pauses' = pauses + 1 /\ QueueAll(Listeners, <<f>>)
  /\ UNCHANGED <<status, main, workers, pool, loop, service, busy, paused, req, serverOk>>

\* Mutant: the listeners pause, and do not count.
StopUncounted ==
  /\ main.pc = "running" /\ Holds(status = "kRunning")
  /\ status' = "kStopping" /\ Goto("pausing") /\ QueueAll(Listeners, <<"Pause">>)
  /\ UNCHANGED <<workers, pool, loop, service, busy, paused, pauses, req>>

\* Stop, up to the wait for the promise.
StopListening ==
  /\ main.pc = "running" /\ Holds(status = "kRunning")
  /\ status' = "kStopping" /\ Goto("pausing") /\ QueueAll(Listeners, <<"PauseForStop">>)
  /\ UNCHANGED <<workers, pool, loop, service, busy, paused, pauses, req>>

\* Mutant: Stop does not wait until the listeners have paused.
StopPoolAtOnce ==
  /\ main.pc = "pausing"
  /\ pool' = "kStopping" /\ Goto("stopping pool") /\ QueueAll(workers, <<"Stop">>)
  /\ loop' = [t \in Threads |-> IF t \in workers THEN "kStopping" ELSE loop[t]]
  /\ UNCHANGED <<status, workers, service, busy, paused, pauses, req, serverOk>>

\* tpool_->Stop(true), up to its wait.
StopPool ==
  /\ main.pc = "pausing" /\ paused = Cardinality(Listeners)
  /\ pool' = "kStopping" /\ Goto("stopping pool") /\ QueueAll(workers, <<"Stop">>)
  /\ loop' = [t \in Threads |-> IF t \in workers THEN "kStopping" ELSE loop[t]]
  /\ UNCHANGED <<status, workers, service, busy, paused, pauses, req, serverOk>>

\* Mutant: the listeners are stopped while workers still run.
PoolLeft ==
  /\ main.pc = "stopping pool"
  /\ pool' = "kStopped" /\ Goto("stopping listeners")
  /\ UNCHANGED <<status, workers, loop, queue, service, busy, paused, pauses, req, serverOk>>

PoolStopped ==
  /\ main.pc = "stopping pool" /\ \A w \in workers : loop[w] = "kStopped"
  /\ pool' = "kStopped" /\ Goto("stopping listeners")
  /\ UNCHANGED <<status, workers, loop, queue, service, busy, paused, pauses, req, serverOk>>

\* lt.thread->Stop(true), one after the other.
StopListener(l) ==
  /\ main.pc = "stopping listeners" /\ loop[l] = "kRunning"
  /\ \A k \in Listeners \ {l} : loop[k] \in {"kRunning", "kStopped"}
  /\ loop' = [loop EXCEPT ![l] = "kStopping"] /\ QueueAll({l}, <<"Stop">>)
  /\ UNCHANGED <<status, main, workers, pool, service, busy, paused, pauses, req, serverOk>>

\* The end of Stop: joins, tpool_.reset(), listen_threads_.clear().
StopReturns ==
  /\ main.pc = "stopping listeners" /\ \A l \in Listeners : loop[l] = "kStopped"
  /\ status' = "kStopped" /\ pool' = "reset" /\ Goto("stopped")
  /\ Holds(\A l \in Listeners : ~service[l].evhttp)
  /\ UNCHANGED <<workers, loop, queue, service, busy, paused, pauses, req>>

\* ~Server, and ~Service of the listeners that are left.
DestroyServer ==
  /\ main.pc \in {"new", "failed", "initialized", "stopped"} /\ Goto("destroyed")
  /\ Holds(pool = "reset" /\ \A l \in Listeners : ~service[l].evhttp)
  /\ UNCHANGED <<status, workers, pool, loop, queue, service, busy, paused, pauses, req>>

MainSteps ==
  \/ \E bound \in SUBSET Listeners : InitPorts(bound)
  \/ StartPool \/ RegisteredAll \/ StopListening \/ StopPool \/ PoolStopped \/ StopReturns \/ DestroyServer
  \/ \E l \in Listeners : StartListener(l) \/ StopListener(l)
  \/ \E h \in Registered : Register(h)
  \/ \E f \in {"Pause", "Continue"} : PauseOrContinue(f)

-----------------------------------------------------------------------------
(* The listening threads.                                                  *)

\* Nothing but the requests changes.
OnlyReq == UNCHANGED <<status, main, workers, pool, loop, queue, service, busy, paused, pauses, serverOk>>

\* A client sends request i to port l, on a new connection or one it has.
Send(i, l, fresh) == req' = [req EXCEPT ![i] = [NewRequest EXCEPT !.state = "sent", !.at = l, !.fresh = fresh]]

\* The connection request i was to go out on is not made: the port never hears of it.
Withdraw(i) == req' = [req EXCEPT ![i] = NewRequest]

Idle(t) == loop[t] \in {"kRunning", "kStopping", "exiting"} /\ busy[t] = {}

\* The handler HandleRequest and DefaultHandleRequest choose, if any.
HandlerOf(uri, handlers) == IF uri = "known" /\ "known" \in handlers THEN "known" ELSE "default"

\* HandleRequest, up to Dispatch's look at the status.
HandleRequest(i, uri) ==
  /\ req[i].state = "sent" /\ Idle(req[i].at) /\ service[req[i].at].evhttp
  /\ req[i].fresh => service[req[i].at].enabled
  /\ LET l == req[i].at
         handled == HandlerOf(uri, service[l].handlers) \in service[l].handlers
         running == status = "kRunning"
     IN  /\ req' = [req EXCEPT ![i].fresh = FALSE,
                               ![i].code = IF handled THEN 0 ELSE 400,
                               ![i].state = IF ~handled THEN "answered" ELSE IF running THEN "dispatching" ELSE "dropped"]
         /\ busy' = [busy EXCEPT ![l] = IF handled /\ running THEN {i} ELSE {}]
  /\ UNCHANGED <<status, main, workers, pool, loop, queue, service, paused, pauses, serverOk>>

\* The reply's functor in the listening loop.
SendReplyInLoop(i, code) ==
  req' = [req EXCEPT ![i].state = IF service[req[i].at].evhttp THEN "answered" ELSE "discarded",
                     ![i].code = IF service[req[i].at].evhttp THEN code ELSE @]

\* The rest of Dispatch.  GetNextLoop gives a null loop when tpool_ does not run.
Dispatch(l, i) ==
  /\ i \in busy[l] /\ req[i].state = "dispatching" /\ workers # {}
  /\ Holds(pool = "kRunning") /\ busy' = [busy EXCEPT ![l] = {}]
  /\ \E w \in workers : queue' = [queue EXCEPT ![w] = Append(@, <<"Handle", i>>)]
  /\ req' = [req EXCEPT ![i].state = "forwarded"]
  /\ UNCHANGED <<status, main, workers, pool, loop, service, paused, pauses>>

\* Without workers the callback runs here, if the status is still kRunning, and so does its reply.
DispatchHere(l, i, code) ==
  /\ i \in busy[l] /\ req[i].state = "dispatching" /\ workers = {}
  /\ busy' = [busy EXCEPT ![l] = {}] /\ Holds(pool # "reset")
  /\ req' = [req EXCEPT ![i] = IF status # "kRunning" THEN [@ EXCEPT !.state = "dropped"]
                               ELSE [@ EXCEPT !.state = "answered", !.replied = TRUE, !.code = code]]
  /\ UNCHANGED <<status, main, workers, pool, loop, queue, service, paused, pauses>>

-----------------------------------------------------------------------------
(* The workers.                                                            *)

\* The functor of Dispatch calls the user's callback, which uses the request evhttp owns.
Handle(w, i) ==
  /\ Idle(w) /\ queue[w] # <<>> /\ Head(queue[w]) = <<"Handle", i>>
  /\ queue' = [queue EXCEPT ![w] = Tail(@)]
  /\ IF status = "kRunning"
     THEN busy' = [busy EXCEPT ![w] = {i}] /\ req' = [req EXCEPT ![i].state = "handling"]
     ELSE req' = [req EXCEPT ![i].state = "dropped"] /\ UNCHANGED busy
  /\ UNCHANGED <<status, main, workers, pool, loop, service, paused, pauses, serverOk>>

\* The callback calls SendReply, which looks at the listening loop.
SendReply(w, i) ==
  /\ i \in busy[w] /\ req[i].state \in {"handling", "closed"}
  /\ Holds(main.pc \notin {"stopped", "destroyed"} /\ service[req[i].at].evhttp)
  /\ IF loop[req[i].at] = "kRunning" THEN req' = [req EXCEPT ![i].state = "replying", ![i].replied = TRUE] /\ UNCHANGED busy
     ELSE req' = [req EXCEPT ![i].state = "discarded", ![i].replied = TRUE] /\ busy' = [busy EXCEPT ![w] = {}]
  /\ UNCHANGED <<status, main, workers, pool, loop, queue, service, paused, pauses>>

\* RunInLoop of the reply.
QueueReply(w, i, code) ==
  /\ i \in busy[w] /\ req[i].state = "replying"
  /\ queue' = [queue EXCEPT ![req[i].at] = Append(@, <<"Reply", i, code>>)]
  /\ busy' = [busy EXCEPT ![w] = {}] /\ req' = [req EXCEPT ![i].state = "replied"]
  /\ UNCHANGED <<status, main, workers, pool, loop, service, paused, pauses, serverOk>>

-----------------------------------------------------------------------------
(* Every loop.                                                             *)

\* A functor other than Handle.  StopInLoop first runs what is queued behind it.
RunQueued(t) ==
  /\ Idle(t) /\ queue[t] # <<>> /\ Head(queue[t])[1] # "Handle"
  /\ LET f == Head(queue[t])
     IN  /\ queue' = [queue EXCEPT ![t] = IF f[1] = "Stop" /\ Tail(@) # <<>> THEN Append(Tail(@), f) ELSE Tail(@)]
         /\ loop' = [loop EXCEPT ![t] = IF queue[t] = << <<"Stop">> >> THEN "exiting" ELSE @]
         /\ IF f[1] \in {"Pause", "PauseForStop", "Continue"}
            THEN service' = [service EXCEPT ![t].enabled = f[1] = "Continue" /\ service[t].evhttp]
            ELSE UNCHANGED service
         /\ paused' = IF f[1] = "PauseForStop" THEN paused + 1 ELSE paused
         /\ IF f[1] = "Reply" THEN SendReplyInLoop(f[2], f[3]) ELSE UNCHANGED req
  /\ UNCHANGED <<status, main, workers, pool, busy, pauses, serverOk>>

\* The loop ends; a listener's post functor is Service::Stop, and evhttp_free closes every
\* connection and frees its requests.
Exit(t) ==
  /\ loop[t] = "exiting" /\ busy[t] = {}
  /\ loop' = [loop EXCEPT ![t] = "kStopped"]
  /\ IF t \in Listeners
     THEN /\ service' = [service EXCEPT ![t] = [evhttp |-> FALSE, enabled |-> FALSE, handlers |-> {}]]
          /\ req' = [i \in Requests |-> IF req[i].at = t /\ req[i].state \notin {"none", "answered"}
                                        THEN [req[i] EXCEPT !.state = "closed"] ELSE req[i]]
     ELSE UNCHANGED <<service, req>>
  /\ UNCHANGED <<status, main, workers, pool, queue, busy, paused, pauses, serverOk>>

LoopSteps ==
  \/ \E i \in Requests, uri \in {"known", "unknown"} : HandleRequest(i, uri)
  \/ \E i \in Requests, l \in Listeners : Dispatch(l, i)
  \/ \E i \in Requests, w \in Workers : Handle(w, i) \/ SendReply(w, i)
  \/ \E i \in Requests, l \in Listeners, code \in Answers : DispatchHere(l, i, code)
  \/ \E i \in Requests, w \in Workers, code \in Answers : QueueReply(w, i, code)
  \/ \E t \in Threads : RunQueued(t) \/ Exit(t)

\* Start was called.
Started == status \in {"kStarting", "kRunning", "kStopping", "kStopped"}
=============================================================================
