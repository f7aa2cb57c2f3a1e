--------------------------------- MODULE Http ---------------------------------
(***************************************************************************)
(* The HTTP client and the HTTP server together.  The network is what the    *)
(* server's req says of a request: a client sends by making it "sent", and   *)
(* its callback comes when it is answered, with a null request at any time   *)
(* (a read that times out, a connection that is closed), or with a request   *)
(* without a code, when no connection could be made.                         *)
(***************************************************************************)
EXTENDS HttpServer, HttpClient

CONSTANT Caller   \* the Request that is made when the server is this one

ASSUME CallerAssumption == Caller \in Calls
\* Every execution of it has a request to send.
ASSUME RequestsAssumption == 1..(RetryNumber + 1) \subseteq Requests

VARIABLE elsewhere   \* the client talks to a server that is not modelled, and answers anything
vars == <<serverVars, clientVars, elsewhere>>

Init ==
  /\ ServerInit /\ ClientInit /\ elsewhere \in BOOLEAN
  /\ \A q \in Calls : client.k[q].pooled \/ elsewhere \/ q = Caller

\* A step that may have given a request to evhttp: it goes out on the call's connection.
Sent(q) ==
  IF client'.sent = client.sent \/ elsewhere THEN UNCHANGED serverVars
  ELSE /\ \E l \in Listeners :
            Send(client'.sent, l, ~client'.conns[client'.k[q].conn].linked)
       /\ OnlyReq

ClientExecutes(outcome) == RunExecute(outcome) /\ Sent(Head(client.todo)[2])
ClientRetries(q, outcome) == RetryTimer(q, outcome) /\ Sent(q)

Answered(q) ==
  /\ client.k[q].state = "waiting" /\ UNCHANGED serverVars
  /\ IF elsewhere THEN \E code \in Answers : Responded(q, code)
     ELSE req[client.k[q].sent].state = "answered" /\ Responded(q, req[client.k[q].sent].code)

NoResponse(q) == Responded(q, Null) /\ UNCHANGED serverVars

\* The connection is refused, or not made in time: evhttp gives the request back as it is.
Refused(q) ==
  /\ Responded(q, 0) /\ ~client.conns[client.k[q].conn].linked
  /\ \/ elsewhere /\ UNCHANGED serverVars
     \/ ~elsewhere /\ req[client.k[q].sent].state = "sent" /\ Withdraw(client.k[q].sent) /\ OnlyReq

ServerSteps == ~elsewhere /\ serverOk /\ (MainSteps \/ LoopSteps) /\ UNCHANGED clientVars

ClientLoop ==
  client.ok /\ (\/ RunClose /\ UNCHANGED serverVars
                \/ \E outcome \in Outcomes : ClientExecutes(outcome)
                \/ \E q \in Calls, outcome \in Outcomes : ClientRetries(q, outcome)
                \/ \E q \in Calls : Answered(q) \/ NoResponse(q) \/ Refused(q))

ClientUser ==
  client.ok /\ UNCHANGED serverVars /\ (Clear \/ \E q \in Calls : (elsewhere \/ q = Caller) /\ Execute(q))

Next == (ServerSteps \/ ClientLoop \/ ClientUser) /\ UNCHANGED elsewhere

\* Every loop goes on, Stop goes on once called, timers expire.
Stopping == main.pc \in {"pausing", "stopping pool", "stopping listeners"}
Fairness ==
  /\ WF_vars(ClientLoop /\ UNCHANGED elsewhere)
  /\ WF_vars(serverOk /\ LoopSteps /\ UNCHANGED <<clientVars, elsewhere>>)
  /\ WF_vars(serverOk /\ Stopping /\ MainSteps /\ UNCHANGED <<clientVars, elsewhere>>)

Spec == Init /\ [][Next]_vars /\ Fairness

-----------------------------------------------------------------------------
\* Of a server that was started, no assert fails, Dispatch never meets a pool that gives no loop,
\* and a callback's request outlives it; of the client, Put finds its entry unless Clear came
\* while a Request held a Conn.
AssertsHold == (Started => serverOk) /\ (~client.cleared => client.ok)

\* When Stop has returned, every reply a callback made has been sent: workers end before the
\* listening threads, and these run what was queued.
RepliesSent ==
  serverOk /\ main.pc \in {"stopped", "destroyed"} => \A i \in Requests : req[i].replied => req[i].state = "answered"

\* A Conn is in the pool once, or held by one Request, never both, and the pool keeps to its size.
ConnExclusive ==
  client.ok =>
    /\ Len(client.pool) <= MaxPoolSize
    /\ \A m, n \in DOMAIN client.pool : m # n => client.pool[m] # client.pool[n]
    /\ \A p, q \in Calls : p # q /\ client.k[p].conn # 0 => client.k[p].conn # client.k[q].conn
    /\ \A n \in DOMAIN client.pool, q \in Calls : client.pool[n] # client.k[q].conn

\* The handler is called at most once, after at most RetryNumber + 1 executions, and after exactly
\* that many when it hears of a failure that request.cpp:163 and :233 retry: a request that could
\* not be made, a null request, a server error.
TriedEnough ==
  \A q \in Calls : LET k == client.k[q] IN
    /\ k.handled <= 1 /\ k.executed <= RetryNumber + 1
    /\ k.handled = 1 /\ (k.code = Null \/ ServerError(k.code)) => k.executed = RetryNumber + 1

\* What request.hpp:78 says, "The total execution times is retry_number_+1", of every failure: also
\* of a connection that could not be made, whose request has no code.
FailuresRetried ==
  \A q \in Calls : client.k[q].handled = 1 /\ client.k[q].code <= 0 => client.k[q].executed = RetryNumber + 1

\* Stop returns.
StopReturned == (main.pc = "pausing" /\ serverOk) ~> (main.pc = "stopped" \/ ~serverOk)

\* What http_server.cpp says of a request Dispatch drops: "may be it is stopping now".
DroppedWhenStopping == \A i \in Requests : req[i].state = "dropped" => status \in {"kStopping", "kStopped"}

\* No assert of the server fails, also when it was never started.
ServerNeverAsserts == serverOk

\* No assert of the client's pool fails, whenever Clear is called.
PoolNeverAsserts == client.ok

\* Every Execute ends in a call of the handler.
HandlerCalled == \A q \in Calls : (client.k[q].state = "queued") ~> (client.k[q].handled = 1 \/ ~client.ok)
=============================================================================
