------------------------------ MODULE HttpClient ------------------------------
(***************************************************************************)
(* eventpp::httpc: Request (src/src/httpc/request.cpp), Conn (conn.cpp) and  *)
(* ConnPool (conn_pool.cpp), of one loop.  A Request takes a Conn from the   *)
(* pool, or has its own, and asks evhttp to send; evhttp calls back with the *)
(* request, which has a response code or none, or with a null one; the Conn  *)
(* goes back, and the Request tries again or calls the user's handler.  The  *)
(* user's threads call Execute and Clear.                                    *)
(*                                                                           *)
(* A method is an operator from the objects before it to those after it.     *)
(***************************************************************************)
EXTENDS Integers, Sequences, FiniteSets

CONSTANTS Calls,         \* the Request objects
          RetryNumber,   \* retry_number_
          MaxPoolSize    \* max_pool_size_

ASSUME RetryNumberAssumption == RetryNumber \in Nat
ASSUME MaxPoolSizeAssumption == MaxPoolSize \in Nat

VARIABLE client   \* the objects: k = Requests, conns, pool_'s entry of the loop, functors, history
clientVars == <<client>>

\* How ExecuteInLoop ends: the request is with evhttp, or one of its calls failed.
Outcomes == {"made", "no connection", "not made"}

\* What HandleResponse is given: a request with its response_code, 0 if it got none, or a null r.
Null == -1

NewCall(pooled) == [state |-> "new", pooled |-> pooled, conn |-> 0, retried |-> 0, sent |-> 0, executed |-> 0,
                    handled |-> 0, code |-> 0]

\* Every Request that has no pool makes its Conn in its constructor.
ClientInit ==
  \E pooled \in [Calls -> BOOLEAN] :
    client = [k |-> [q \in Calls |-> NewCall(pooled[q])], conns |-> <<>>, present |-> FALSE, pool |-> <<>>,
              todo |-> <<>>, sent |-> 0, cleared |-> FALSE, ok |-> TRUE]

Assure(o, holds) == [o EXCEPT !.ok = @ /\ holds]

-----------------------------------------------------------------------------
(* ConnPool                                                                *)

NewConn(o, q) ==
  [o EXCEPT !.conns = Append(@, [open |-> FALSE, linked |-> FALSE]), !.k[q].conn = Len(o.conns) + 1]

\* Get: the entry is made if there is none; the Conn put back last is taken.
Get(o, q) ==
  LET a == [o EXCEPT !.present = TRUE]
  IN  IF a.pool = <<>> THEN NewConn(a, q)
      ELSE [a EXCEPT !.k[q].conn = a.pool[Len(a.pool)], !.pool = SubSeq(@, 1, Len(@) - 1)]

\* Conn::Close, by its destructor or Clear.
CloseConnection(o, c) == [o EXCEPT !.conns[c] = [open |-> FALSE, linked |-> FALSE]]

\* Mutant: Put takes the Conn, and the Request keeps it.
PutAndKeep(o, q) ==
  IF Len(o.pool) < MaxPoolSize THEN [Assure(o, o.present) EXCEPT !.pool = Append(@, o.k[q].conn)]
  ELSE Assure(o, o.present)

\* pool_->Put(conn_); conn_.reset(): over the limit the Conn is freed.
Put(o, q) ==
  LET c == o.k[q].conn
      a == [Assure(o, o.present) EXCEPT !.k[q].conn = 0]
  IN  IF Len(a.pool) < MaxPoolSize THEN [a EXCEPT !.pool = Append(@, c)] ELSE CloseConnection(a, c)

Recycle(o, q) == IF o.k[q].pooled THEN Put(o, q) ELSE o

\* A Request that is holding a Conn of the pool.
Holding(o) == {q \in Calls : o.k[q].pooled /\ o.k[q].conn # 0}

\* Clear, of another thread: every Conn is closed in its loop.
ClearPool(o) ==
  [o EXCEPT !.present = FALSE, !.pool = <<>>, !.cleared = @ \/ Holding(o) # {},
            !.todo = @ \o [n \in DOMAIN o.pool |-> <<"Close", o.pool[n]>>]]

-----------------------------------------------------------------------------
(* Request                                                                 *)

\* handler_(response); the user is done with the Request, whose own Conn goes with it.
CallHandler(o, q, code) ==
  LET a == [o EXCEPT !.k[q] = [o.k[q] EXCEPT !.state = "done", !.handled = @ + 1, !.code = code, !.conn = 0]]
  IN  IF o.k[q].conn = 0 THEN a ELSE CloseConnection(a, o.k[q].conn)

\* ExecuteInLoop comes again from a timer of retry_interval_, or, if that is zero, at once: the
\* behaviours in which RetryTimer is the next step.
Retry(o, q) == [Recycle([o EXCEPT !.k[q].retried = @ + 1], q) EXCEPT !.k[q].state = "retrying"]

\* Mutant: one retry less.
FailedEarly(o, q) == IF o.k[q].retried + 1 < RetryNumber THEN Retry(o, q) ELSE CallHandler(o, q, Null)

\* The label failed.
Failed(o, q) == IF o.k[q].retried < RetryNumber THEN Retry(o, q) ELSE CallHandler(o, q, Null)

TakeConn(o, q) == IF o.k[q].conn # 0 THEN o ELSE IF o.k[q].pooled THEN Get(o, q) ELSE NewConn(o, q)

\* Conn::Init keeps an evhttp_conn_ it has.
ExecuteInLoop(o, q, outcome) ==
  LET a == TakeConn([o EXCEPT !.k[q].executed = @ + 1], q)
      c == a.k[q].conn
      b == [a EXCEPT !.conns[c].open = TRUE]
  IN  CASE outcome = "no connection" /\ ~a.conns[c].open -> Failed(a, q)
        [] outcome = "not made" -> Failed(b, q)
        [] OTHER -> [b EXCEPT !.k[q].state = "waiting", !.k[q].sent = b.sent + 1, !.sent = @ + 1]

ServerError(code) == code >= 500 /\ code < 600

\* Mutant: no response after the last retry is not reported.
LostFailure(o, q, code) ==
  LET a == [o EXCEPT !.conns[o.k[q].conn].linked = code \notin {Null, 0}]
  IN  IF code # Null /\ (~ServerError(code) \/ a.k[q].retried >= RetryNumber) THEN CallHandler(Recycle(a, q), q, code)
      ELSE IF a.k[q].retried < RetryNumber THEN Retry(a, q)
      ELSE [Recycle(a, q) EXCEPT !.k[q].state = "done"]

\* HandleResponse, of a request with this code or of Null.  A code of 0 is no server error, and so
\* is reported at once; only a null r and a server error are tried again.
HandleResponse(o, q, code) ==
  LET a == [o EXCEPT !.conns[o.k[q].conn].linked = code \notin {Null, 0}]
  IN  IF code # Null /\ (~ServerError(code) \/ a.k[q].retried >= RetryNumber) THEN CallHandler(Recycle(a, q), q, code)
      ELSE IF a.k[q].retried < RetryNumber THEN Retry(a, q)
      ELSE CallHandler(Recycle(a, q), q, code)

-----------------------------------------------------------------------------
(* The steps.                                                              *)

Execute(q) ==
  /\ client.k[q].state = "new"
  /\ client' = [client EXCEPT !.k[q].state = "queued", !.todo = Append(@, <<"Execute", q>>)]

Clear == client.present /\ client' = ClearPool(client)

RunClose ==
  /\ client.todo # <<>> /\ Head(client.todo)[1] = "Close"
  /\ client' = CloseConnection([client EXCEPT !.todo = Tail(@)], Head(client.todo)[2])

RunExecute(outcome) ==
  /\ client.todo # <<>> /\ Head(client.todo)[1] = "Execute"
  /\ client' = ExecuteInLoop([client EXCEPT !.todo = Tail(@)], Head(client.todo)[2], outcome)

RetryTimer(q, outcome) ==
  /\ client.k[q].state = "retrying"
  /\ client' = ExecuteInLoop(client, q, outcome)

Responded(q, code) ==
  /\ client.k[q].state = "waiting"
  /\ client' = HandleResponse(client, q, code)
=============================================================================
