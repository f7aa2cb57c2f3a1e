------------------------------ MODULE UdpServer ------------------------------
(***************************************************************************)
(* eventpp::udp::Server (src/src/udp/udp_server.cpp): one receiving thread   *)
(* per port, and the user's thread, which calls Start, Pause, Continue, Stop *)
(* and the destructor.  They share status_ of each RecvThread, a plain enum: *)
(* its loads and stores are taken to be whole, as the build makes them.      *)
(* Messages go to the loops of a pool, which the user owns, or to the        *)
(* handler in the receiving thread.                                          *)
(***************************************************************************)
EXTENDS Naturals, FiniteSets

CONSTANTS RecvThreads,   \* one per port
          MaxQueued,   \* bound: messages waiting in the pool's loops
          MaxPauses    \* bound: calls of Pause

ASSUME UdpAssumption == MaxQueued \in Nat \ {0} /\ MaxPauses \in Nat

VARIABLES status,    \* of each RecvThread, status_
          pc,        \* of each RecvThread, where RecvingLoop is
          open,      \* the RecvThreads whose socket is open
          user,      \* where the user's thread is
          tpool,     \* "none", or whether the pool runs
          handler,   \* message_handler_ is set
          queued,    \* messages in the pool's loops
          since,     \* history: messages each thread has delivered since it was paused or stopped
          pauses,    \* calls of Pause so far
          misused,   \* history: what the user did that the code does not allow for
          between,   \* history: Pause came between a thread's two looks at its status
          ok         \* FALSE once an assert failed, a null loop, or a socket another thread closed was used
udpVars == <<status, pc, open, user, tpool, handler, queued, since, pauses, misused, between, ok>>

UdpInit ==
  /\ status = [t \in RecvThreads |-> "kStopped"] /\ pc = [t \in RecvThreads |-> "none"] /\ open = RecvThreads
  /\ user = "initialized" /\ tpool \in {"none", "running"} /\ handler \in BOOLEAN
  /\ queued = 0 /\ since = [t \in RecvThreads |-> 0] /\ pauses = 0 /\ misused = {} /\ between = FALSE /\ ok = TRUE

Holds(p) == ok' = (ok /\ p)
IsRunning == \A t \in RecvThreads : status[t] = "kRunning"
IsStopped == \A t \in RecvThreads : status[t] = "kStopped"

-----------------------------------------------------------------------------
(* The user's thread.                                                      *)

\* Start: a RecvThread's old std::thread, not joined, may not be replaced.
Start ==
  /\ user \in {"initialized", "stopped"} /\ handler
  /\ misused' = IF user = "stopped" THEN misused \cup {"restart"} ELSE misused
  /\ Holds(\A t \in RecvThreads : pc[t] = "none")
  /\ user' = "starting" /\ pc' = [t \in RecvThreads |-> "begin"]
  /\ UNCHANGED <<status, open, tpool, handler, queued, since, pauses, between>>

StartFails == user = "initialized" /\ ~handler /\ user' = "not started"
              /\ UNCHANGED <<status, pc, open, tpool, handler, queued, since, pauses, misused, between, ok>>

StartReturns == user = "starting" /\ IsRunning /\ user' = "running"
                /\ UNCHANGED <<status, pc, open, tpool, handler, queued, since, pauses, misused, between, ok>>

\* Pause and Continue may be called twice in a row: an assert says not to.
Pause ==
  /\ user \in {"running", "paused"} /\ pauses < MaxPauses /\ pauses' = pauses + 1
  /\ misused' = IF user = "paused" THEN misused \cup {"paused twice"} ELSE misused
  /\ between' = (between \/ \E t \in RecvThreads : pc[t] = "look again")
  /\ Holds(IsRunning) /\ user' = "paused"
  /\ status' = [t \in RecvThreads |-> "kPaused"] /\ since' = [t \in RecvThreads |-> 0]
  /\ UNCHANGED <<pc, open, tpool, handler, queued>>

Continue ==
  /\ user = "paused" /\ Holds(\A t \in RecvThreads : status[t] = "kPaused") /\ user' = "running"
  /\ status' = [t \in RecvThreads |-> "kRunning"]
  /\ UNCHANGED <<pc, open, tpool, handler, queued, since, pauses, misused, between>>

\* Stop, without or with the wait; before Start an assert says not to.
Stop(wait) ==
  /\ user \in {"initialized", "not started", "running", "paused"}
  /\ misused' = misused \cup (IF user \in {"running", "paused"} THEN {} ELSE {"not started"})
                        \cup (IF wait THEN {} ELSE {"not waited"})
  /\ Holds(\A t \in RecvThreads : status[t] \in {"kRunning", "kPaused"})
  /\ user' = IF wait THEN "stopping" ELSE "stopped"
  /\ status' = [t \in RecvThreads |-> "kStopping"] /\ since' = [t \in RecvThreads |-> 0]
  /\ UNCHANGED <<pc, open, tpool, handler, queued, pauses, between>>

\* Mutant: the wait ends when some thread has stopped.
StopReturnsEarly ==
  /\ user = "stopping" /\ (\E t \in RecvThreads : status[t] = "kStopped") /\ user' = "stopped"
  /\ UNCHANGED <<status, pc, open, tpool, handler, queued, since, pauses, misused, between, ok>>

StopReturns ==
  /\ user = "stopping" /\ IsStopped /\ user' = "stopped"
  /\ UNCHANGED <<status, pc, open, tpool, handler, queued, since, pauses, misused, between, ok>>

\* ~Server frees the RecvThreads: each closes its socket, then joins its thread.
Destroy ==
  /\ user \in {"not started", "running", "paused", "stopped"} /\ user' = "destroying"
  /\ misused' = IF user \in {"running", "paused"} THEN misused \cup {"not stopped"} ELSE misused
  /\ UNCHANGED <<status, pc, open, tpool, handler, queued, since, pauses, between, ok>>
CloseSocket(t) ==
  /\ user = "destroying" /\ t \in open /\ \A r \in RecvThreads \ open : pc[r] \in {"none", "gone"}
  /\ open' = open \ {t}
  /\ UNCHANGED <<status, pc, user, tpool, handler, queued, since, pauses, misused, between, ok>>
Joined ==
  /\ user = "destroying" /\ open = {} /\ \A t \in RecvThreads : pc[t] \in {"none", "gone"}
  /\ user' = "destroyed"
  /\ UNCHANGED <<status, pc, open, tpool, handler, queued, since, pauses, misused, between, ok>>

\* The user stops the pool, before or after the server.
StopPool ==
  /\ tpool = "running" /\ tpool' = "stopped"
  /\ misused' = IF \A t \in RecvThreads : pc[t] = "gone" THEN misused ELSE misused \cup {"pool stopped"}
  /\ UNCHANGED <<status, pc, open, user, handler, queued, since, pauses, between, ok>>

-----------------------------------------------------------------------------
(* RecvingLoop.                                                            *)

Begin(t) ==
  /\ pc[t] = "begin" /\ pc' = [pc EXCEPT ![t] = "look"] /\ status' = [status EXCEPT ![t] = "kRunning"]
  /\ UNCHANGED <<open, user, tpool, handler, queued, since, pauses, misused, between, ok>>

\* Mutant: a paused thread goes on receiving.
LookPastPause(t) ==
  /\ pc[t] = "look"
  /\ pc' = [pc EXCEPT ![t] = IF status[t] \in {"kRunning", "kPaused"} THEN "recv" ELSE "leave"]
  /\ UNCHANGED <<status, open, user, tpool, handler, queued, since, pauses, misused, between, ok>>

\* While paused the thread sleeps and looks again.  IsPaused and IsRunning are two loads.
Look(t) ==
  /\ pc[t] = "look" /\ status[t] # "kPaused" /\ pc' = [pc EXCEPT ![t] = "look again"]
  /\ UNCHANGED <<status, open, user, tpool, handler, queued, since, pauses, misused, between, ok>>
LookAgain(t) ==
  /\ pc[t] = "look again" /\ pc' = [pc EXCEPT ![t] = IF status[t] = "kRunning" THEN "recv" ELSE "leave"]
  /\ UNCHANGED <<status, open, user, tpool, handler, queued, since, pauses, misused, between, ok>>

\* recvfrom: nothing within 500 ms or an error, or a message.
RecvFails(t) ==
  /\ pc[t] = "recv" /\ Holds(t \in open) /\ pc' = [pc EXCEPT ![t] = "look"]
  /\ UNCHANGED <<status, open, user, tpool, handler, queued, since, pauses, misused, between>>
Recv(t) ==
  /\ pc[t] = "recv" /\ t \in open /\ pc' = [pc EXCEPT ![t] = "deliver"]
  /\ UNCHANGED <<status, open, user, tpool, handler, queued, since, pauses, misused, between, ok>>

\* The pool's GetNextLoop gives no loop once it is stopped.
Deliver(t) ==
  /\ pc[t] = "deliver" /\ pc' = [pc EXCEPT ![t] = "look"]
  /\ since' = [since EXCEPT ![t] = IF @ < 2 THEN @ + 1 ELSE @]
  /\ queued < MaxQueued /\ queued' = IF tpool = "none" THEN queued ELSE queued + 1
  /\ Holds(tpool # "stopped")
  /\ UNCHANGED <<status, open, user, tpool, handler, pauses, misused, between>>

\* Mutant: the thread ends without saying so.
LeaveSilently(t) ==
  /\ pc[t] = "leave" /\ pc' = [pc EXCEPT ![t] = "gone"]
  /\ UNCHANGED <<status, open, user, tpool, handler, queued, since, pauses, misused, between, ok>>

Leave(t) ==
  /\ pc[t] = "leave" /\ pc' = [pc EXCEPT ![t] = "gone"] /\ status' = [status EXCEPT ![t] = "kStopped"]
  /\ UNCHANGED <<open, user, tpool, handler, queued, since, pauses, misused, between, ok>>

\* A loop of the pool calls the handler.
PoolHandles ==
  /\ queued > 0 /\ tpool = "running" /\ queued' = queued - 1
  /\ UNCHANGED <<status, pc, open, user, tpool, handler, since, pauses, misused, between, ok>>

Receiving(t) == Begin(t) \/ Look(t) \/ LookAgain(t) \/ RecvFails(t) \/ Recv(t) \/ Deliver(t) \/ Leave(t)

UdpNext ==
  ok /\ (\/ Start \/ StartFails \/ StartReturns \/ Pause \/ Continue \/ StopReturns \/ Destroy \/ Joined \/ StopPool
         \/ PoolHandles
         \/ \E wait \in BOOLEAN : Stop(wait)
         \/ \E t \in RecvThreads : CloseSocket(t) \/ Receiving(t))

\* Threads run, recvfrom returns by its timeout, the pool's loops run, and the user's waits end.
UdpFairness ==
  /\ \A t \in RecvThreads : WF_udpVars(ok /\ Receiving(t))
  /\ WF_udpVars(ok /\ PoolHandles) /\ WF_udpVars(ok /\ StartReturns) /\ WF_udpVars(ok /\ StopReturns)
  /\ WF_udpVars(ok /\ (Joined \/ \E t \in RecvThreads : CloseSocket(t)))

UdpSpec == UdpInit /\ [][UdpNext]_udpVars /\ UdpFairness

-----------------------------------------------------------------------------
(* What is checked.  A Pause between the two looks makes the thread leave,   *)
(* since it finds itself neither paused at the first nor running at the      *)
(* second; the properties are about the behaviours without it.               *)
WellUsed == misused = {} /\ ~between

\* Used as the code allows for, no assert fails, no thread receives from a socket that was
\* closed under it and no message goes to a loop that is not there.
AssertsHold == WellUsed => ok

\* What Continue and Stop assert of a server that is used as they allow for: a paused thread is
\* still there.
PauseKeepsThreads == misused = {} => ok

\* A thread that was paused delivers at most the message it was receiving; so does a thread that
\* was told to stop, and none once Stop has returned.
PausedIsQuiet ==
  WellUsed /\ user \in {"paused", "stopping", "stopped", "destroying", "destroyed"} =>
    \A t \in RecvThreads : since[t] <= 1 /\ (user \in {"stopped", "destroying"} => pc[t] \in {"none", "gone"})

\* Stop returns, and so does a destructor after it.
StopEnds ==
  /\ (user = "starting" /\ ok) ~> (user # "starting" \/ ~ok)
  /\ (user = "stopping" /\ WellUsed) ~> (user # "stopping" \/ ~WellUsed)
  /\ (user = "destroying" /\ WellUsed) ~> (user = "destroyed" \/ ~WellUsed)
=============================================================================
