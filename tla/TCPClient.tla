------------------------------ MODULE TCPClient ------------------------------
(***************************************************************************)
(* TCPClient (src/src/tcp/tcp_client.cpp), Connector (connector.cpp) and    *)
(* DNSResolver (src/src/dns_resolver.cpp): a client that connects, is told, *)
(* retries, reconnects and is disconnected, all on one loop; one user       *)
(* thread queues Connect and Disconnect and reads conn().                   *)
(*                                                                         *)
(* An object is a record, and a handler an operator from the objects before *)
(* it to the objects after it, so that the callbacks a handler makes, the   *)
(* user's included, happen where the code makes them.  A Connector lives    *)
(* while something refers to it: the client, its timer, its channel's       *)
(* callback, a resolver's functor or a retry timer.                        *)
(***************************************************************************)
EXTENDS Naturals, Sequences, FiniteSets

CONSTANTS MaxStarts,      \* bound: calls of Connector::Start
          MaxConnectors   \* bound: Connectors made

ASSUME ClientAssumption == MaxStarts \in Nat \ {0} /\ MaxConnectors \in Nat \ {0}

VARIABLES s,         \* the objects, the queue and the descriptors
          reader,    \* the user thread holds mutex_ inside conn()
          raced      \* history: conn_ was written without mutex_ while reader
vars == <<s, reader, raced>>

\* What the user's connection callback does.
Reactions == {"nothing", "disconnect", "no_reconnect"}

\* What is answered while a handler runs: evdns at once or later, connect(), errno, and what the
\* user's callback does, the second time too when a reconnection fails within HandleClose.
Ways ==
  {way \in [dns : {"later", "found", "failed"}, connect : {"wait", "error"}, refused : BOOLEAN,
            user : Reactions, again : Reactions] : way.user # "nothing" => way.again = "nothing"}

NewConnector(named) ==
  [alive |-> TRUE, status |-> "kDisconnected", resolved |-> ~named, timer |-> FALSE, dns |-> 0,
   fd |-> 0, own |-> FALSE, chan |-> "none", chanFd |-> 0, retry |-> FALSE, told |-> FALSE]
NewResolver(i) == [connector |-> i, timer |-> TRUE, functor |-> TRUE, request |-> "pending"]

Check(o, holds) == [o EXCEPT !.ok = @ /\ holds]
CloseFd(o, f) == [o EXCEPT !.closes[f] = @ + 1]
Risk(o, what) == [o EXCEPT !.risk = @ \cup {what}]

-----------------------------------------------------------------------------
(* DNSResolver                                                             *)

\* Mutant: Cancel stops the timer without its cancel callback.
StopResolver(o, r) == [o EXCEPT !.r[r] = [@ EXCEPT !.timer = FALSE, !.functor = FALSE]]

\* Cancel: the timer's cancel callback is OnCanceled, which cancels the request.
CancelResolver(o, r) ==
  [o EXCEPT !.r[r] = [@ EXCEPT !.request = IF o.r[r].timer /\ @ = "pending" THEN "canceled" ELSE @,
                               !.timer = FALSE, !.functor = FALSE]]

-----------------------------------------------------------------------------
(* Connector, as far as DisconnectInLoop needs it.                         *)

\* Mutant: the resolver is dropped without Cancel.
DropDns(o, i) == [o EXCEPT !.k[i].dns = 0]

CancelDns(o, i) == IF o.k[i].dns = 0 THEN o ELSE [CancelResolver(o, o.k[i].dns) EXCEPT !.k[i].dns = 0]

\* chan_->DisableAllEvent(); chan_->Close(), which asserts that the channel has its event.
CloseChannel(o, i) == [Check(o, o.k[i].chan = "attached") EXCEPT !.k[i].chan = "closed"]

\* In kDNSResolving the user is told by conn_fn_(-1) from within the Disconnect just called; a
\* second Disconnect in that callback comes here again, and finds no timer.
ConnectorCancel(o, i, user) ==
  LET a == CancelDns(o, i)
      b == [Check(a, a.k[i].timer) EXCEPT !.k[i].timer = FALSE]
      c == Check(b, b.k[i].status = "kDNSResolving" => b.k[i].chan = "none")
  IN  IF c.k[i].status = "kDNSResolving" /\ user = "disconnect" THEN Check(Risk(c, "canceled callback"), FALSE)
      ELSE IF c.k[i].chan = "none" THEN c ELSE CloseChannel(c, i)

-----------------------------------------------------------------------------
(* TCPClient::DisconnectInLoop                                             *)

CloseConn(o) ==
  [Check(o, o.t[o.conn].status = "kConnected")
     EXCEPT !.t[o.conn].status = "kDisconnecting", !.pending = Append(@, <<"Close", o.conn>>)]

\* The cases in which Disconnect fails, or does not disconnect.
DisconnectRisks(o) ==
  (IF o.conn # 0 /\ o.t[o.conn].status # "kConnected" THEN {"closing"} ELSE {})
    \cup (IF o.connector = 0 THEN {"not connecting"} ELSE
            (IF o.conn = 0 /\ o.k[o.connector].status = "kConnected" THEN {"peer closed"} ELSE {})
              \cup (IF o.k[o.connector].retry THEN {"retry wait"} ELSE {}))

DisconnectInLoop(o, user) ==
  LET a == [o EXCEPT !.risk = @ \cup DisconnectRisks(o), !.auto = FALSE, !.off = TRUE]
      b == IF a.conn # 0 THEN CloseConn(a)
           ELSE Check(a, a.connector # 0 /\ a.k[a.connector].status # "kConnected")
      c == IF b.connector = 0 THEN Check(b, FALSE)
           ELSE IF b.k[b.connector].status \in {"kConnected", "kDisconnected"} THEN b
           ELSE ConnectorCancel(b, b.connector, user)
  IN  [c EXCEPT !.connector = 0]

\* The user's callback.
Told(o, user) ==
  CASE o.alive /\ user = "disconnect" -> DisconnectInLoop(o, "nothing")
    [] o.alive /\ user = "no_reconnect" -> [o EXCEPT !.auto = FALSE]
    [] OTHER -> o

-----------------------------------------------------------------------------
(* Connector                                                               *)

\* Mutant: the descriptor of the failed attempt is forgotten, not closed.
ForgetForRetry(o, i) == [o EXCEPT !.k[i].fd = 0]

CloseForRetry(o, i) ==
  IF o.k[i].fd = 0 THEN o ELSE [Check(CloseFd(o, o.k[i].fd), o.k[i].own) EXCEPT !.k[i].fd = 0]

HandleError(o, i, way) ==
  LET a == [o EXCEPT !.k[i].status = "kDisconnected"]
      b == IF a.k[i].chan = "none" THEN a
           ELSE CloseChannel(Check(IF a.k[i].chan = "closed" THEN Risk(a, "old channel") ELSE a,
                                   a.k[i].fd # 0), i)
      c == CancelDns(b, i)
      d == [Check(c, c.k[i].timer /\ c.alive) EXCEPT !.k[i].timer = FALSE]
      e == IF way.refused \/ ~d.auto THEN Told([d EXCEPT !.k[i].told = TRUE], way.user) ELSE d
  IN  IF e.auto THEN [CloseForRetry(e, i) EXCEPT !.k[i].retry = TRUE]
      ELSE IF e.k[i].chan = "none" THEN Risk(e, "no channel") ELSE e

Connect(o, i, way) ==
  LET f == Len(o.closes) + 1
      a == [Check(o, o.k[i].fd = 0) EXCEPT !.closes = Append(@, 0), !.k[i].fd = f, !.k[i].own = TRUE]
  IN  IF way.connect = "error" THEN HandleError(a, i, way)
      ELSE [Check(a, a.k[i].chan # "attached")
              EXCEPT !.k[i].status = "kConnecting", !.k[i].chan = "attached", !.k[i].chanFd = f]

OnDNSResolved(o, i, found, way) ==
  IF ~found THEN HandleError(o, i, way)
  ELSE Connect([o EXCEPT !.k[i].resolved = TRUE, !.k[i].status = "kDNSResolved"], i, way)

\* OnResolved(): the functor is called, and released.
CallFunctor(o, r, found, way) ==
  IF o.r[r].functor THEN [OnDNSResolved(o, o.r[r].connector, found, way) EXCEPT !.r[r].functor = FALSE] ELSE o

\* OnResolved(errcode, addr), called by evdns: the timer is cleared unless the request was canceled.
OnResolved(o, r, found, way) ==
  LET a == IF o.r[r].request = "canceled" THEN o ELSE [Check(o, o.r[r].timer) EXCEPT !.r[r].timer = FALSE]
  IN  CallFunctor([a EXCEPT !.r[r].request = "done"], r, found, way)

\* OnTimeout: the request is canceled, and the functor told now, not by evdns later.
OnTimeout(o, r, way) ==
  CallFunctor([o EXCEPT !.r[r].request = IF @ = "pending" THEN "canceled" ELSE @, !.r[r].timer = FALSE], r, FALSE, way)

AsyncDNSResolve(o, i, way) ==
  LET r == Len(o.r) + 1
      a == [o EXCEPT !.r = Append(@, NewResolver(i)), !.k[i].dns = r]
  IN  IF way.dns = "later" THEN a ELSE OnResolved(a, r, way.dns = "found", way)

ConnectorStart(o, i, way) ==
  LET a == [o EXCEPT !.k[i].timer = TRUE, !.k[i].told = FALSE, !.starts = @ + 1]
  IN  IF a.k[i].resolved THEN Connect(a, i, way)
      ELSE AsyncDNSResolve([a EXCEPT !.k[i].status = "kDNSResolving"], i, way)

\* The functor of TCPClient::Connect.
ConnectInLoop(o, way) ==
  LET i == Len(o.k) + 1
  IN  ConnectorStart([o EXCEPT !.k = Append(@, NewConnector(o.named)), !.connector = i], i, way)

\* TCPClient::OnConnection with a descriptor: the TCPConn gets it, and the user is told.
OnConnection(o, f, user) ==
  LET a == [Check(o, o.alive) EXCEPT !.t = Append(@, [status |-> "kConnected", fd |-> f, owned |-> TRUE]),
                                     !.conn = Len(o.t) + 1, !.late = @ \/ o.off]
  IN  Told(IF user = "disconnect" THEN Risk(a, "connected callback") ELSE a, user)

\* The references that keep a Connector alive.
Referred(o, i) ==
  \/ o.connector = i \/ o.k[i].timer \/ o.k[i].chan = "attached" \/ o.k[i].retry
  \/ \E r \in DOMAIN o.r : o.r[r].functor /\ o.r[r].connector = i

\* HandleWrite: without reference of its own to the Connector after conn_fn_ has returned.
Connected(o, i, user) ==
  LET a == OnConnection(Check(o, o.k[i].fd = o.k[i].chanFd), o.k[i].fd, user)
      b == CloseChannel([Check(a, a.k[i].timer) EXCEPT !.k[i].timer = FALSE], i)
  IN  IF Referred(a, i) /\ a.k[i].chan = "attached"
      THEN [b EXCEPT !.k[i].told = TRUE, !.k[i].own = FALSE, !.k[i].fd = 0, !.k[i].status = "kConnected"]
      ELSE Check(a, FALSE)

HandleWrite(o, i, err, way) ==
  IF o.k[i].status = "kDisconnected" THEN o
  ELSE IF err THEN HandleError(Check(o, o.k[i].status = "kConnecting"), i, way)
  ELSE Connected(Check(o, o.k[i].status = "kConnecting"), i, way.user)

-----------------------------------------------------------------------------
(* The connection's end, and the end of objects.                           *)

\* Mutant: no new connection when one broke down.
ForgetConnection(o, j, way) == [Check(o, o.conn = j /\ o.alive) EXCEPT !.conn = 0]

OnRemoveConnection(o, j, way) ==
  LET a == [Check(o, o.conn = j /\ o.alive) EXCEPT !.conn = 0]
  IN  IF a.auto THEN ConnectInLoop(a, [way EXCEPT !.user = way.again]) ELSE a

\* TCPConn::HandleClose.
HandleClose(o, j, way) ==
  IF o.t[j].status = "kDisconnected" THEN o
  ELSE LET a == Told([o EXCEPT !.t[j].status = "kDisconnecting"], way.user)
           b == IF a.t[j].owned THEN OnRemoveConnection(a, j, way) ELSE a
       IN  [b EXCEPT !.t[j].status = "kDisconnected"]

\* ~Connector
DestructorHolds(o, i) ==
  LET c == o.k[i] IN
  CASE c.status = "kDNSResolving" -> c.chan = "none" /\ c.dns = 0 /\ ~c.timer /\ c.fd = 0
    [] c.status = "kConnected" -> c.fd = 0
    [] OTHER -> c.own /\ c.chan # "none" /\ c.chanFd = c.fd

\* ~TCPConn closes its descriptor.
Dead(o) == {i \in DOMAIN o.k : o.k[i].alive /\ ~Referred(o, i)}
DeadConns(o) ==
  {j \in DOMAIN o.t : o.t[j].fd # 0 /\ o.conn # j /\ \A n \in DOMAIN o.pending : o.pending[n] # <<"Close", j>>}

Freed(o, dead, conns) ==
  [o EXCEPT !.k = [i \in DOMAIN @ |-> IF i \in dead THEN [@[i] EXCEPT !.alive = FALSE, !.fd = 0] ELSE @[i]],
            !.t = [j \in DOMAIN @ |-> IF j \in conns THEN [@[j] EXCEPT !.fd = 0] ELSE @[j]],
            !.closes = [f \in DOMAIN @ |-> @[f] + Cardinality({i \in dead : o.k[i].status # "kConnected" /\ o.k[i].fd = f})
                                                + Cardinality({j \in conns : o.t[j].fd = f})],
            !.ok = @ /\ (\A i \in dead : DestructorHolds(o, i))
                     /\ (\A j \in conns : o.t[j].status = "kDisconnected")
                     /\ (\A r \in DOMAIN o.r : o.r[r].request = "done" => ~o.r[r].timer)]
Reap(o) == Freed(o, Dead(o), DeadConns(o))

-----------------------------------------------------------------------------
(* The steps.                                                              *)

Init ==
  /\ s \in [alive : {TRUE}, auto : BOOLEAN, named : BOOLEAN, conn : {0}, connector : {0}, k : {<<>>}, r : {<<>>},
            t : {<<>>}, closes : {<<>>}, pending : {<<>>}, starts : {0}, asked : {"nothing"}, off : {FALSE},
            late : {FALSE}, risk : {{}}, ok : {TRUE}]
  /\ reader = FALSE /\ raced = FALSE

\* A handler has made o of the objects.  OnConnection takes mutex_; OnRemoveConnection does not.
Step(after) == \E o \in {after} :
  /\ Len(o.k) <= MaxConnectors /\ o.starts <= MaxStarts
  /\ o.conn \notin {0, s.conn} => ~reader
  /\ s' = Reap(o)
  /\ raced' = (raced \/ (reader /\ s.conn # 0 /\ o.conn = 0))
  /\ UNCHANGED reader

Queue(f) == s' = [s EXCEPT !.pending = Append(@, f), !.asked = f[1]] /\ UNCHANGED <<reader, raced>>
CallConnect == s.asked = "nothing" /\ Queue(<<"Connect", 0>>)
CallDisconnect == s.asked = "Connect" /\ s.alive /\ Queue(<<"Disconnect", 0>>)

RunFunctor(way) ==
  /\ s.pending # <<>>
  /\ LET o == [s EXCEPT !.pending = Tail(@)]
         f == Head(s.pending)
     IN  CASE f[1] = "Connect" -> Step(ConnectInLoop(o, way))
           [] f[1] = "Disconnect" -> Step(DisconnectInLoop(o, way.user))
           [] f[1] = "Close" -> Step(HandleClose(o, f[2], way))

\* OnConnectTimeout; its errno is ETIMEDOUT.
ConnectTimeout(i, way) ==
  /\ s.k[i].timer
  /\ Step(HandleError(Check(s, s.k[i].status \in {"kConnecting", "kDNSResolving"}), i, [way EXCEPT !.refused = FALSE]))

ResolverTimeout(r, way) == s.r[r].timer /\ Step(OnTimeout(s, r, way))
EvdnsAnswers(r, found, way) == s.r[r].request = "pending" /\ Step(OnResolved(s, r, found, way))
EvdnsCanceled(r, way) == s.r[r].request = "canceled" /\ Step(OnResolved(s, r, FALSE, way))
Writable(i, err, way) == s.k[i].chan = "attached" /\ Step(HandleWrite(s, i, err, way))
RetryFires(i, way) == s.k[i].retry /\ Step(ConnectorStart([s EXCEPT !.k[i].retry = FALSE], i, way))
PeerCloses(j, way) == s.t[j].status \in {"kConnected", "kDisconnecting"} /\ Step(HandleClose(s, j, way))

\* ~TCPClient, in the loop's thread after Disconnect has run there.
Delete ==
  /\ s.alive /\ s.off /\ \A n \in DOMAIN s.pending : s.pending[n][1] = "Close"
  /\ LET a == [Check(s, s.connector = 0) EXCEPT !.alive = FALSE, !.auto = FALSE, !.conn = 0]
     IN  Step(IF s.conn = 0 THEN a
              ELSE [Check(a, s.t[s.conn].status # "kConnected") EXCEPT !.t[s.conn].owned = FALSE])

\* conn() of another thread.
ReaderEnters == ~reader /\ s.alive /\ ~s.off /\ reader' = TRUE /\ UNCHANGED <<s, raced>>
ReaderLeaves == reader /\ reader' = FALSE /\ UNCHANGED <<s, raced>>

Next ==
  \/ s.ok /\ (CallConnect \/ CallDisconnect \/ Delete \/ ReaderEnters)
  \/ ReaderLeaves
  \/ s.ok /\ \E way \in Ways :
       \/ RunFunctor(way)
       \/ \E i \in DOMAIN s.k : ConnectTimeout(i, way) \/ RetryFires(i, way)
       \/ \E i \in DOMAIN s.k, err \in BOOLEAN : Writable(i, err, way)
       \/ \E r \in DOMAIN s.r : ResolverTimeout(r, way) \/ EvdnsCanceled(r, way)
       \/ \E r \in DOMAIN s.r, found \in BOOLEAN : EvdnsAnswers(r, found, way)
       \/ \E j \in DOMAIN s.t : PeerCloses(j, way)

\* The loop runs its functors and evdns calls back for what was canceled; conn() returns.
Fairness ==
  /\ WF_vars(s.ok /\ \E way \in Ways : RunFunctor(way))
  /\ WF_vars(s.ok /\ \E way \in Ways, r \in DOMAIN s.r : EvdnsCanceled(r, way))
  /\ WF_vars(ReaderLeaves)

Spec == Init /\ [][Next]_vars /\ Fairness

-----------------------------------------------------------------------------
(* What is checked.  s.risk holds the circumstances under which the code    *)
(* itself fails: a Disconnect during the wait for a retry, in the connected *)
(* callback, while closing, after the peer closed with no reconnection, or  *)
(* repeated, as in the callback of a canceled resolution; an error at once  *)
(* on a later attempt; a last failure before there was a channel.           *)
Careful == s.risk = {}

\* As long as none of the circumstances of s.risk has come up, no assert of the three classes fails
\* and no destroyed Connector, client or absent timer is used, however timers, answers, errors,
\* retries and Disconnect fall together.
AssertsHold == Careful => s.ok

\* Every open descriptor has exactly one owner, Connector or TCPConn, and none is closed twice:
\* the hand-over in HandleWrite, the close before a retry and ~Connector leave no other.
FdsOwned ==
  Careful /\ s.ok =>
    \A f \in DOMAIN s.closes :
      Cardinality({i \in DOMAIN s.k : s.k[i].alive /\ s.k[i].own /\ s.k[i].fd = f}
                    \cup {<<j>> : j \in {j \in DOMAIN s.t : s.t[j].fd = f}}) = 1 - s.closes[f]

\* From Connect to Disconnect the client is never forgotten: it has a connection, an attempt
\* whose timer runs, or a retry to come; or it does not reconnect and the user has been told.
NeverForgotten ==
  Careful /\ s.ok /\ ~s.off /\ s.connector # 0 =>
    LET c == s.k[s.connector]
    IN  \/ s.conn # 0
        \/ c.timer /\ c.status \in {"kDNSResolving", "kConnecting"}
        \/ c.retry
        \/ ~s.auto /\ c.told

Ended ==
  /\ \A i \in DOMAIN s.k : ~s.k[i].alive
  /\ \A r \in DOMAIN s.r : s.r[r].request = "done"
  /\ \A f \in DOMAIN s.closes : s.closes[f] = 1
  /\ ~s.late

\* After Disconnect everything ends: the Connector is freed, evdns has given its request back,
\* every descriptor is closed and no connection has been made since.
DisconnectEnds == (s.off /\ s.ok /\ Careful) ~> (Ended \/ ~Careful)

\* No assert fails, whatever the user's callback does and whenever Disconnect comes.
NoAssertFails == s.ok

\* What tcp_client.hpp says of mutex_: "The guard of conn_".
ConnGuarded == ~raced

\* What tcp_client.hpp says of Disconnect: "to disconnect from remote server".
NoConnectionAfterDisconnect == ~s.late
=============================================================================
