----------------------------- MODULE HttpProofs -----------------------------
(***************************************************************************)
(* Theorems about the HTTP client and the HTTP server together, from the   *)
(* invariants of HttpClientProofs and HttpServerProofs.                    *)
(***************************************************************************)
EXTENDS Http, HttpClientProofs, HttpServerProofs, FiniteSetTheorems

-----------------------------------------------------------------------------
(* Client and server together.                                             *)

\* The requests the client has sent are the ones the server may have.
SentInv ==
  /\ client.sent \in Nat
  /\ \A i \in Requests : req[i].state # "none" => i \in 1..client.sent
  /\ ~elsewhere => client.sent <= client.k[Caller].executed /\ \A q \in Calls : q # Caller => client.k[q].state = "new"

\* The inductive invariant: the client's, the server's, and what of the client the server has seen.
HttpInv == ClientInv /\ ServerInv /\ SentInv

\* A step of the client's call q, which may have sent a request.
LEMMA SentStep ==
  ASSUME HttpInv, NEW q \in Calls, client.k[q].state # "new", ClientInv', Sent(q), UNCHANGED elsewhere,
         client'.sent \in {client.sent, client.sent + 1},
         client'.k[q].executed = client.k[q].executed + 1,
         \A p \in Calls : p # q => client'.k[p] = client.k[p]
  PROVE  HttpInv'
<1>1. client.sent \in Nat BY Zenon DEF HttpInv, SentInv
<1>2. client'.sent \in Nat BY <1>1, SMT
<1>3. ~elsewhere => q = Caller BY Zenon DEF HttpInv, SentInv
<1>4. client'.k[q].executed \in Nat /\ client'.k[q].executed <= RetryNumber + 1
  <2>1. IsCall(client'.k[q]) /\ TriesOf(client'.k[q])
    BY Zenon DEF ClientInv, ObjectsInv, Sound, ObjectsTyped
  <2>2. QED BY <2>1, RetryNumberAssumption, SMT DEF IsCall, TriesOf
<1>5. IsCall(client.k[q]) BY Zenon DEF HttpInv, ClientInv, ObjectsInv, Sound, ObjectsTyped
<1>6. client.k[q].executed \in Nat BY <1>5, Zenon DEF IsCall
<1>7. ~elsewhere => client'.sent <= client'.k[Caller].executed
  <2>1. ~elsewhere => client.sent <= client.k[q].executed BY <1>3, Zenon DEF HttpInv, SentInv
  <2>2. ~elsewhere => client'.sent <= client'.k[q].executed BY <1>1, <1>6, <2>1, SMT
  <2>3. QED BY <1>3, <2>2, Zenon
<1>8. ~elsewhere => \A p \in Calls : p # Caller => client'.k[p].state = "new"
  BY <1>3, Zenon DEF HttpInv, SentInv
<1>9. CASE client'.sent = client.sent \/ elsewhere
  <2>1. UNCHANGED serverVars BY <1>9, Zenon DEF Sent
  <2>2. ServerInv' BY <2>1, ServerSame, Zenon DEF HttpInv
  <2>3. req' = req BY <2>1, Zenon DEF serverVars
  <2>4. \A i \in Requests : req[i].state # "none" => i \in 1..client.sent BY Zenon DEF HttpInv, SentInv
  <2>5. \A i \in Requests : req'[i].state # "none" => i \in 1..client'.sent BY <1>1, <1>2, <2>3, <2>4, SMT
  <2>6. SentInv' BY <1>2, <1>7, <1>8, <2>5, Zenon DEF SentInv
  <2>7. QED BY <2>2, <2>6, Zenon DEF HttpInv
<1>10. CASE client'.sent = client.sent + 1 /\ ~elsewhere
  <2> DEFINE i == client'.sent
  <2>1. i # client.sent BY <1>1, <1>10, SMT
  <2>2. PICK l \in Listeners : Send(i, l, ~client'.conns[client'.k[q].conn].linked)
    BY <1>10, <2>1, Zenon DEF Sent
  <2>3. OnlyReq BY <1>10, <2>1, Zenon DEF Sent
  <2>4. i \in Requests
    <3>1. i \in 1..(RetryNumber + 1) BY <1>1, <1>2, <1>3, <1>4, <1>7, <1>10, RetryNumberAssumption, SMT
    <3>2. QED BY <3>1, RequestsAssumption, Zenon
  <2>5. req[i].state = "none"
    <3>1. i \notin 1..client.sent BY <1>1, <1>10, SMT
    <3>2. QED BY <2>4, <3>1, Zenon DEF HttpInv, SentInv
  <2> HIDE DEF i
  <2>6. ServerInv' BY <2>2, <2>3, <2>4, <2>5, SendInv, Zenon DEF HttpInv
  <2>7. ASSUME NEW j \in Requests, req'[j].state # "none" PROVE j \in 1..i
    <3>1. CASE j = i BY <1>1, <1>2, <1>10, <3>1, SMT DEF i
    <3>2. CASE j # i
      <4>1. req'[j] = req[j] BY <2>2, <2>4, <3>2, Zenon DEF Send, HttpInv, ServerInv, ReqInv, ReqsTyped
      <4>2. j \in 1..client.sent BY <2>7, <4>1, Zenon DEF HttpInv, SentInv
      <4>3. QED BY <1>1, <1>10, <4>2, SMT DEF i
    <3>3. QED BY <3>1, <3>2, Zenon
  <2>8. SentInv' BY <1>2, <1>7, <1>8, <2>7, Zenon DEF SentInv, i
  <2>9. QED BY <2>6, <2>8, Zenon DEF HttpInv
<1>11. QED BY <1>9, <1>10, Zenon

\* A step of the client that sends nothing.
LEMMA UnsentStep ==
  ASSUME HttpInv, ClientInv', UNCHANGED serverVars, UNCHANGED elsewhere, client'.sent = client.sent,
         \A p \in Calls : client'.k[p].executed = client.k[p].executed,
         ~elsewhere => \A p \in Calls : p # Caller => client'.k[p] = client.k[p]
  PROVE  HttpInv'
<1>1. ServerInv' BY ServerSame, Zenon DEF HttpInv
<1>2. req' = req BY Zenon DEF serverVars
<1>3. SentInv' BY <1>2, CallerAssumption, Zenon DEF HttpInv, SentInv
<1>4. QED BY <1>1, <1>3, Zenon DEF HttpInv

\* The connection of the call's request was not made.
Withdrawn(q) == req[client.k[q].sent].state = "sent" /\ Withdraw(client.k[q].sent) /\ OnlyReq

\* A step of the client whose request the server never hears of.
LEMMA WithdrawnStep ==
  ASSUME HttpInv, NEW q \in Calls, ClientInv', Withdrawn(q), UNCHANGED elsewhere, client'.sent = client.sent,
         \A p \in Calls : client'.k[p].executed = client.k[p].executed,
         ~elsewhere => \A p \in Calls : p # Caller => client'.k[p] = client.k[p]
  PROVE  HttpInv'
<1> DEFINE i == client.k[q].sent
<1>1. req[i].state = "sent" /\ Withdraw(i) /\ OnlyReq BY Zenon DEF Withdrawn
<1>2. req = [k \in Requests |-> req[k]] BY Zenon DEF HttpInv, ServerInv, ReqInv, ReqsTyped
<1> HIDE DEF i
<1>3. CASE i \notin Requests
  <2>1. req' = req BY <1>1, <1>2, <1>3, Zenon DEF Withdraw
  <2>2. UNCHANGED serverVars BY <1>1, <2>1, Zenon DEF OnlyReq, serverVars
  <2>3. QED BY <2>2, UnsentStep, Zenon
<1>4. CASE i \in Requests
  <2>1. ServerInv' BY <1>1, <1>4, WithdrawInv, Zenon DEF HttpInv
  <2>2. ASSUME NEW j \in Requests, req'[j].state # "none" PROVE req[j].state # "none"
    <3>1. CASE j = i BY <1>1, <3>1
    <3>2. CASE j # i BY <1>1, <1>2, <1>4, <2>2, <3>2, Zenon DEF Withdraw
    <3>3. QED BY <3>1, <3>2, Zenon
  <2>3. SentInv' BY <2>2, CallerAssumption, Zenon DEF HttpInv, SentInv
  <2>4. QED BY <2>1, <2>3, Zenon DEF HttpInv
<1>5. QED BY <1>3, <1>4, Zenon

\* The listeners are finitely many, and so are counted.
LEMMA Counting == ListenersCounted
<1>1. \A S \in SUBSET Listeners : IsFiniteSet(S) BY FS_Subset, ThreadsAssumption, Zenon
<1>2. \A S \in SUBSET Listeners : Cardinality(S) = Cardinality(Listeners) => S = Listeners
  BY FS_Subset, ThreadsAssumption, Zenon
<1>3. \A S \in SUBSET Listeners : \A l \in Listeners \ S : Cardinality(S \cup {l}) = Cardinality(S) + 1
  BY <1>1, FS_AddElement, Zenon
<1>4. QED BY <1>2, <1>3, FS_EmptySet, Zenon DEF ListenersCounted

\* Every step keeps the inductive invariant.
LEMMA HttpStep == HttpInv /\ [Next]_vars => HttpInv'
<1> SUFFICES ASSUME HttpInv, [Next]_vars PROVE HttpInv' OBVIOUS
<1>0. ClientInv BY Zenon DEF HttpInv
<1>1. CASE UNCHANGED vars
  <2>1. UNCHANGED serverVars /\ client' = client /\ UNCHANGED elsewhere BY <1>1, Zenon DEF vars, clientVars
  <2>2. ClientInv' BY <1>0, <2>1, Zenon DEF ClientInv
  <2>3. QED BY <2>1, <2>2, UnsentStep, Zenon
<1>2. CASE ServerSteps /\ UNCHANGED elsewhere
  <2>1. serverOk /\ (MainSteps \/ LoopSteps) /\ client' = client /\ elsewhere' = elsewhere
    BY <1>2, Zenon DEF ServerSteps, clientVars
  <2>2. ServerInv' BY <2>1, Counting, ServerStepInv, Zenon DEF HttpInv
  <2>3. NoneStays BY <2>1, ServerStepNone, Zenon DEF HttpInv
  <2>4. ClientInv' BY <1>0, <2>1, Zenon DEF ClientInv
  <2>5. SentInv' BY <2>1, <2>3, Zenon DEF HttpInv, SentInv, NoneStays
  <2>6. QED BY <2>2, <2>4, <2>5, Zenon DEF HttpInv
<1>3. CASE ClientLoop /\ UNCHANGED elsewhere
  <2>1. CASE RunClose /\ UNCHANGED serverVars
    <3>1. ClientInv' /\ client'.sent = client.sent /\ client'.k = client.k
      BY <1>0, <2>1, RunCloseInv, RunCloseSame, Zenon
    <3>2. QED BY <1>3, <2>1, <3>1, UnsentStep, Zenon
  <2>2. ASSUME NEW outcome, ClientExecutes(outcome) PROVE HttpInv'
    <3> DEFINE q == Head(client.todo)[2]
    <3>1. /\ ClientInv' /\ q \in Calls /\ client.k[q].state = "queued"
          /\ client'.sent \in {client.sent, client.sent + 1} /\ client'.k[q].executed = client.k[q].executed + 1
          /\ \A p \in Calls : p # q => client'.k[p] = client.k[p]
      BY <1>0, <2>2, RunExecuteInv, Zenon DEF ClientExecutes
    <3>2. Sent(q) BY <2>2, Zenon DEF ClientExecutes
    <3> HIDE DEF q
    <3>3. client.k[q].state # "new" BY <3>1, Zenon
    <3>4. QED BY <1>3, <3>1, <3>2, <3>3, SentStep, Zenon
  <2>3. ASSUME NEW q \in Calls, NEW outcome, ClientRetries(q, outcome) PROVE HttpInv'
    <3>1. /\ ClientInv' /\ client'.sent \in {client.sent, client.sent + 1}
          /\ client'.k[q].executed = client.k[q].executed + 1
          /\ \A p \in Calls : p # q => client'.k[p] = client.k[p]
      BY <1>0, <2>3, RetryTimerInv, Zenon DEF ClientRetries
    <3>2. Sent(q) /\ client.k[q].state # "new" BY <2>3, Zenon DEF ClientRetries, RetryTimer
    <3>3. QED BY <1>3, <3>1, <3>2, SentStep, Zenon
  <2>4. ASSUME NEW q \in Calls, NEW code, Responded(q, code), UNCHANGED serverVars \/ Withdrawn(q) PROVE HttpInv'
    <3>1. /\ ClientInv' /\ client'.sent = client.sent /\ client'.k[q].executed = client.k[q].executed
          /\ \A p \in Calls : p # q => client'.k[p] = client.k[p]
      BY <1>0, <2>4, RespondedInv, Zenon
    <3>2. ~elsewhere => q = Caller
      <4>1. client.k[q].state # "new" BY <2>4, Zenon DEF Responded
      <4>2. QED BY <4>1, Zenon DEF HttpInv, SentInv
    <3>3. \A p \in Calls : client'.k[p].executed = client.k[p].executed BY <3>1, Zenon
    <3>4. ~elsewhere => \A p \in Calls : p # Caller => client'.k[p] = client.k[p] BY <3>1, <3>2, Zenon
    <3>5. CASE UNCHANGED serverVars BY <1>3, <3>1, <3>3, <3>4, <3>5, UnsentStep, Zenon
    <3>6. CASE Withdrawn(q) BY <1>3, <3>1, <3>3, <3>4, <3>6, WithdrawnStep, Zenon
    <3>7. QED BY <2>4, <3>5, <3>6, Zenon
  <2>5. ASSUME NEW q \in Calls, Answered(q) \/ NoResponse(q) \/ Refused(q) PROVE HttpInv'
    <3>1. CASE Answered(q) BY <2>4, <3>1, Zenon DEF Answered
    <3>2. CASE NoResponse(q) BY <2>4, <3>2, Zenon DEF NoResponse
    <3>3. CASE Refused(q) BY <2>4, <3>3, Zenon DEF Refused, Withdrawn
    <3>4. QED BY <2>5, <3>1, <3>2, <3>3, Zenon
  <2>6. QED BY <1>3, <2>1, <2>2, <2>3, <2>5, Zenon DEF ClientLoop
<1>4. CASE ClientUser /\ UNCHANGED elsewhere
  <2>0. UNCHANGED serverVars BY <1>4, Zenon DEF ClientUser
  <2>1. CASE Clear
    <3>1. ClientInv' /\ client'.sent = client.sent /\ client'.k = client.k BY <1>0, <2>1, ClearInv, Zenon
    <3>2. QED BY <1>4, <2>0, <3>1, UnsentStep, Zenon
  <2>2. ASSUME NEW q \in Calls, elsewhere \/ q = Caller, Execute(q) PROVE HttpInv'
    <3>1. /\ ClientInv' /\ client'.sent = client.sent /\ client'.k[q].executed = client.k[q].executed
          /\ \A p \in Calls : p # q => client'.k[p] = client.k[p]
      BY <1>0, <2>2, ExecuteInv, Zenon
    <3>2. \A p \in Calls : client'.k[p].executed = client.k[p].executed BY <3>1, Zenon
    <3>3. ~elsewhere => \A p \in Calls : p # Caller => client'.k[p] = client.k[p] BY <2>2, <3>1, Zenon
    <3>4. QED BY <1>4, <2>0, <3>1, <3>2, <3>3, UnsentStep, Zenon
  <2>3. QED BY <1>4, <2>1, <2>2, Zenon DEF ClientUser
<1>5. QED BY <1>1, <1>2, <1>3, <1>4, Zenon DEF Next

\* It holds at first.
LEMMA HttpInitInv == Init => HttpInv
<1> SUFFICES ASSUME Init PROVE HttpInv OBVIOUS
<1>1. ServerInv BY ServerInitInv, Zenon DEF Init
<1>2. ClientInv BY ClientInitInv, Zenon DEF Init
<1>3. \A i \in Requests : req[i].state = "none"
  <2>1. NewRequest.state = "none" BY DEF NewRequest
  <2>2. \A i \in Requests : req[i] = NewRequest BY Zenon DEF Init, ServerInit
  <2>3. QED BY <2>1, <2>2, Zenon
<1>4. /\ client.sent = 0 /\ \A q \in Calls : client.k[q].state = "new" /\ client.k[q].executed = 0
  <2>1. PICK pooled \in [Calls -> BOOLEAN] :
          client = [k |-> [q \in Calls |-> NewCall(pooled[q])], conns |-> <<>>, present |-> FALSE, pool |-> <<>>,
                    todo |-> <<>>, sent |-> 0, cleared |-> FALSE, ok |-> TRUE]
    BY Zenon DEF Init, ClientInit
  <2>2. client.sent = 0 /\ client.k = [q \in Calls |-> NewCall(pooled[q])] BY <2>1, SMT
  <2>3. \A q \in Calls : client.k[q] = NewCall(pooled[q]) BY <2>2, Zenon
  <2>4. \A b : NewCall(b).state = "new" /\ NewCall(b).executed = 0 BY DEF NewCall
  <2>5. QED BY <2>2, <2>3, <2>4, Zenon
<1>5. SentInv
  <2>1. client.sent \in Nat /\ client.sent <= client.k[Caller].executed BY <1>4, CallerAssumption, SMT
  <2>2. QED BY <1>3, <1>4, <2>1, Zenon DEF SentInv
<1>6. QED BY <1>1, <1>2, <1>5, Zenon DEF HttpInv

-----------------------------------------------------------------------------
(* What the inductive invariant gives.                                     *)

\* It implies that a started server fails no assert, nor a client that is not cleared.
LEMMA HttpAsserts == HttpInv => AssertsHold
BY Zenon DEF HttpInv, ServerInv, PhaseInv, ClientInv, ObjectsInv, Sound, Kept, AssertsHold

\* It implies that nothing is left of a reply in any queue when Stop has returned.
LEMMA HttpReplies == HttpInv => RepliesSent
<1> SUFFICES ASSUME HttpInv, main.pc \in {"stopped", "destroyed"}, NEW i \in Requests, req[i].replied
             PROVE  req[i].state = "answered"
  BY Zenon DEF RepliesSent
<1>1. \A t \in Threads : loop[t] \in {"kNull", "kStopped"}
  <2>1. CASE main.pc = "stopped"
    <3>1. \A t \in Threads : t \in Listeners \/ t \in workers \/ t \in Workers \ workers
      BY ThreadsSplit, Zenon
    <3>2. QED BY <2>1, <3>1, Zenon DEF HttpInv, ServerInv, LoopInv
  <2>2. CASE main.pc = "destroyed" BY <2>2, Zenon DEF HttpInv, ServerInv, LoopInv
  <2>3. QED BY <2>1, <2>2, Zenon
<1>2. \A t \in Threads : queue[t] = <<>> /\ busy[t] = {} BY <1>1, Zenon DEF HttpInv, ServerInv, QueueInv
<1>3. RequestInv(i) BY Zenon DEF HttpInv, ServerInv, ReqInv
<1>4. req[i].state # "replying" BY <1>2, <1>3, ThreadsSplit, Zenon DEF RequestInv, ReplyMade
<1>5. req[i].state # "replied"
  <2>1. ASSUME req[i].state = "replied" PROVE FALSE
    <3>1. req[i].at \in Threads BY <1>3, <2>1, ThreadsSplit, Zenon DEF RequestInv
    <3>2. QED BY <1>2, <1>3, <2>1, <3>1, EmptyQueue, Zenon DEF RequestInv, ReplyMade
  <2>2. QED BY <2>1, Zenon
<1>6. QED BY <1>3, <1>4, <1>5, Zenon DEF RequestInv, ReplyMade

\* It implies that no two hold one Conn.
LEMMA HttpExclusive == HttpInv => ConnExclusive
<1> SUFFICES ASSUME HttpInv PROVE ConnExclusive OBVIOUS
<1>1. Exclusive(client) /\ ObjectsTyped(client) BY Zenon DEF HttpInv, ClientInv, ObjectsInv, Sound
<1>2. DOMAIN client.pool = 1..Len(client.pool) BY <1>1, SMT DEF ObjectsTyped
<1>3. QED BY <1>1, <1>2, Zenon DEF Exclusive, PoolMade, PoolDistinct, HeldDistinct, PoolNotHeld,
   ConnExclusive

\* It implies that the handler is called once, and of a failure that is retried only after all retries.
LEMMA HttpTried == HttpInv => TriedEnough
<1> SUFFICES ASSUME HttpInv, NEW q \in Calls
             PROVE  LET k == client.k[q] IN
                      /\ k.handled <= 1 /\ k.executed <= RetryNumber + 1
                      /\ k.handled = 1 /\ (k.code = Null \/ ServerError(k.code)) => k.executed = RetryNumber + 1
  BY Zenon DEF TriedEnough
<1>1. IsCall(client.k[q]) /\ TriesOf(client.k[q])
  BY Zenon DEF HttpInv, ClientInv, ObjectsInv, Sound, ObjectsTyped
<1>2. QED BY <1>1, RetryNumberAssumption, SMT DEF IsCall, TriesOf

\* For any listeners, workers, requests, Requests, retries and pool size, the inductive invariant
\* always holds.
THEOREM HttpInvariant == Spec => []HttpInv
<1>1. QED BY HttpInitInv, HttpStep, PTL DEF Spec

\* No assert of a server that was started fails, Dispatch always gets a loop of the pool, a
\* callback's request outlives it, and the client's Put finds its entry unless Clear came between:
\* for every number of threads, wherever Stop falls.
THEOREM HttpAssertsHold == Spec => []AssertsHold
BY HttpInvariant, HttpAsserts, PTL

\* When HTTPServer::Stop has returned, every reply that a callback made has been sent: the
\* workers end before the listeners, and a listener runs what was queued before it ends.
THEOREM HttpRepliesSent == Spec => []RepliesSent
BY HttpInvariant, HttpReplies, PTL

\* A Conn of the client is in the pool once or held by one Request, and the pool keeps to its
\* size, for any number of Requests.
THEOREM HttpConnExclusive == Spec => []ConnExclusive
BY HttpInvariant, HttpExclusive, PTL

\* The client's handler is called at most once, and told of a failure that is retried (a request
\* that could not be made, a null one, a server error) only after RetryNumber + 1 executions, for
\* every RetryNumber.
THEOREM HttpTriedEnough == Spec => []TriedEnough
BY HttpInvariant, HttpTried, PTL
=============================================================================
