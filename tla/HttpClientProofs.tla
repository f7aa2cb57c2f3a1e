-------------------------- MODULE HttpClientProofs --------------------------
(***************************************************************************)
(* Proofs about the HTTP client, for any Requests, retries and pool size:  *)
(* the pool and the Requests never share a Conn, and a Request is tried as *)
(* often as it says. One lemma per method of the client, then one per      *)
(* step.                                                                   *)
(***************************************************************************)
EXTENDS HttpClient, TLAPS

-----------------------------------------------------------------------------
(* The client: what is true of its objects between two steps.              *)

\* The state of a Conn.
ConnRecord == [open : BOOLEAN, linked : BOOLEAN]

\* The record of a Request, and the numbers in it.
IsCall(k) ==
  /\ k = [x \in {"state", "pooled", "conn", "retried", "sent", "executed", "handled", "code"} |-> k[x]]
  /\ k.conn \in Nat /\ k.retried \in Nat /\ k.executed \in Nat /\ k.handled \in Nat

\* The record of the client's objects.
IsObjects(o) == o = [x \in {"k", "conns", "present", "pool", "todo", "sent", "cleared", "ok"} |-> o[x]]

\* What the fields hold.
ObjectsTyped(o) ==
  /\ IsObjects(o)
  /\ o.k = [q \in Calls |-> o.k[q]] /\ \A q \in Calls : IsCall(o.k[q])
  /\ o.conns \in Seq(ConnRecord) /\ o.pool \in Seq(Nat)
  /\ o.present \in BOOLEAN /\ o.cleared \in BOOLEAN /\ o.ok \in BOOLEAN

\* A Conn is in the pool once or held once, and was made.
PoolMade(o) == Len(o.pool) <= MaxPoolSize /\ \A n \in 1..Len(o.pool) : o.pool[n] \in 1..Len(o.conns)
HeldMade(o) == \A q \in Calls : o.k[q].conn <= Len(o.conns)
PoolDistinct(o) == \A m, n \in 1..Len(o.pool) : m # n => o.pool[m] # o.pool[n]
HeldDistinct(o) == \A p, q \in Calls : p # q /\ o.k[p].conn # 0 => o.k[p].conn # o.k[q].conn
PoolNotHeld(o) == \A n \in 1..Len(o.pool), q \in Calls : o.pool[n] # o.k[q].conn
Exclusive(o) == PoolMade(o) /\ HeldMade(o) /\ PoolDistinct(o) /\ HeldDistinct(o) /\ PoolNotHeld(o)

\* While Clear has not come between, a Request that holds a Conn of the pool finds its entry.
Kept(o) == ~o.cleared => o.ok /\ \A q \in Calls : o.k[q].pooled /\ o.k[q].conn # 0 => o.present

\* What every method keeps.
Sound(o) == ObjectsTyped(o) /\ Exclusive(o) /\ Kept(o)

\* Where a Request is in its tries.
TriesOf(k) ==
  /\ k.retried <= RetryNumber
  /\ k.state \in {"new", "queued", "waiting", "retrying", "done"}
  /\ k.state \in {"new", "queued"} => k.executed = 0 /\ k.retried = 0 /\ k.handled = 0 /\ k.conn = 0
  /\ k.state = "waiting" => k.executed = k.retried + 1 /\ k.handled = 0 /\ k.conn # 0
  /\ k.state = "retrying" => k.executed = k.retried /\ k.handled = 0
  /\ k.state = "done" =>
       /\ k.executed = k.retried + 1 /\ k.handled = 1
       /\ k.code = Null \/ ServerError(k.code) => k.retried = RetryNumber

\* The loop's functors: an Execute is that of a Request not yet tried, once.
Functors(o) ==
  /\ o.todo \in Seq(({"Close"} \X Nat) \cup ({"Execute"} \X Calls))
  /\ \A n \in 1..Len(o.todo) :
       /\ o.todo[n][1] = "Close" => o.todo[n][2] \in 1..Len(o.conns)
       /\ o.todo[n][1] = "Execute" => o.k[o.todo[n][2]].state = "queued"
  /\ \A m, n \in 1..Len(o.todo) : m # n /\ o.todo[m][1] = "Execute" => o.todo[m] # o.todo[n]

\* The invariant of the client, of its objects between two steps.
ObjectsInv(o) == Sound(o) /\ Functors(o) /\ \A q \in Calls : TriesOf(o.k[q])

ClientInv == ObjectsInv(client)

\* What a method of Request q leaves alone: the functors, the history and the other Requests.
SameButCall(o, r, q) ==
  /\ r.todo = o.todo /\ r.cleared = o.cleared /\ Len(r.conns) >= Len(o.conns)
  /\ \A p \in Calls : p # q => r.k[p] = o.k[p]

\* The Request's record with another conn.
WithConn(k, c) == [k EXCEPT !.conn = c]

\* Replacing a field of a Request's record leaves the other fields alone.
LEMMA CallFields ==
  ASSUME NEW k, IsCall(k), NEW c \in Nat
  PROVE  LET j == WithConn(k, c)
         IN  /\ IsCall(j) /\ j.conn = c /\ j.pooled = k.pooled /\ j.retried = k.retried
             /\ j.executed = k.executed /\ j.handled = k.handled /\ j.state = k.state
BY Zenon DEF IsCall, WithConn

\* A record of q put into the table of Requests is q's, and the others keep theirs.
LEMMA TableUpdate ==
  ASSUME NEW o, ObjectsTyped(o), NEW q \in Calls, NEW kk, IsCall(kk), NEW t, t = [o.k EXCEPT ![q] = kk]
  PROVE  /\ t = [p \in Calls |-> t[p]] /\ t[q] = kk
         /\ \A p \in Calls : p # q => t[p] = o.k[p]
         /\ \A p \in Calls : IsCall(t[p])
<1>1. t = [p \in Calls |-> t[p]] /\ t[q] = kk BY Zenon DEF ObjectsTyped
<1>2. \A p \in Calls : p # q => t[p] = o.k[p] BY Zenon DEF ObjectsTyped
<1>3. \A p \in Calls : IsCall(t[p]) BY <1>1, <1>2, Zenon DEF ObjectsTyped
<1>4. QED BY <1>1, <1>2, <1>3, Zenon

\* q's record becomes kk, which has the same Conn or none, and nothing else changes; an assert may
\* have failed, if Clear came.
OnlyCall(o, r, q, kk) ==
  /\ IsObjects(r) /\ IsCall(kk) /\ kk.pooled = o.k[q].pooled /\ kk.conn \in {0, o.k[q].conn}
  /\ r.k = [o.k EXCEPT ![q] = kk] /\ r.conns = o.conns /\ r.pool = o.pool
  /\ r.present = o.present /\ r.cleared = o.cleared /\ r.todo = o.todo
  /\ r.ok \in BOOLEAN /\ (o.ok /\ ~o.cleared => r.ok)

\* A method replaced the record of q alone, by kk.
Became(o, r, q, kk) == Sound(r) /\ SameButCall(o, r, q) /\ r.k[q] = kk

\* A step of q that takes no Conn keeps the objects sound.
LEMMA CallUpdate ==
  ASSUME NEW o, Sound(o), NEW q \in Calls, NEW kk, NEW r, OnlyCall(o, r, q, kk)
  PROVE  Became(o, r, q, kk)
<1>0. ObjectsTyped(o) BY Zenon DEF Sound
<1>1. /\ r.k = [p \in Calls |-> r.k[p]] /\ r.k[q] = kk
      /\ \A p \in Calls : p # q => r.k[p] = o.k[p]
      /\ \A p \in Calls : IsCall(r.k[p])
  BY <1>0, TableUpdate DEF OnlyCall
<1>2. ObjectsTyped(r) BY <1>0, <1>1, Zenon DEF ObjectsTyped, OnlyCall
<1>3. \A p \in Calls : r.k[p].pooled = o.k[p].pooled /\ r.k[p].conn \in {0, o.k[p].conn}
  BY <1>1, Zenon DEF OnlyCall
<1>4. Exclusive(r)
  <2>1. \A p \in Calls : r.k[p].conn \in Nat /\ o.k[p].conn \in Nat
    BY <1>0, <1>1, Zenon DEF ObjectsTyped, IsCall
  <2>2. r.conns = o.conns /\ r.pool = o.pool BY Zenon DEF OnlyCall
  <2>3. Len(o.conns) \in Nat BY <1>0, SMT DEF ObjectsTyped
  <2>4. HeldMade(r) /\ HeldDistinct(r)
    BY <1>3, <2>1, <2>2, <2>3, SMT DEF Sound, Exclusive, HeldMade, HeldDistinct
  <2>5. PoolMade(r) /\ PoolDistinct(r) BY <2>2, SMT DEF Sound, Exclusive, PoolMade, PoolDistinct
  <2>6. PoolNotHeld(r)
    BY <1>3, <2>1, <2>2, <2>3, SMT DEF Sound, Exclusive, PoolMade, PoolNotHeld
  <2>7. QED BY <2>4, <2>5, <2>6, Zenon DEF Exclusive
<1>5. Kept(r) BY <1>3, Zenon DEF Sound, Kept, OnlyCall
<1>6. Len(r.conns) >= Len(o.conns) BY <1>0, SMT DEF ObjectsTyped, OnlyCall
<1>7. QED BY <1>1, <1>2, <1>4, <1>5, <1>6, Zenon DEF Sound, SameButCall, OnlyCall, Became

\* Only a Conn's own state changes.
OnlyConns(o, r) ==
  /\ IsObjects(r) /\ r.conns \in Seq(ConnRecord) /\ Len(r.conns) = Len(o.conns)
  /\ r.k = o.k /\ r.pool = o.pool /\ r.present = o.present /\ r.cleared = o.cleared /\ r.ok = o.ok

\* A step that changes the state of a Conn keeps the objects sound.
LEMMA ConnsUpdate ==
  ASSUME NEW o, Sound(o), NEW r, OnlyConns(o, r)
  PROVE  Sound(r) /\ Len(r.conns) >= Len(o.conns)
<1>0. ObjectsTyped(o) BY Zenon DEF Sound
<1>1. ObjectsTyped(r) BY <1>0, Zenon DEF ObjectsTyped, OnlyConns
<1>2. r.k = o.k /\ r.pool = o.pool /\ Len(r.conns) = Len(o.conns) BY Zenon DEF OnlyConns
<1>3. Exclusive(r)
  BY <1>2, Zenon DEF Sound, Exclusive, PoolMade, HeldMade, PoolDistinct, HeldDistinct, PoolNotHeld
<1>4. Kept(r) BY Zenon DEF Sound, Kept, OnlyConns
<1>5. Len(r.conns) >= Len(o.conns) BY <1>0, <1>2, SMT DEF ObjectsTyped
<1>6. QED BY <1>1, <1>3, <1>4, <1>5, Zenon DEF Sound

\* What a step of q that gives it a Conn yields.
TookConn(o, r, q) ==
  /\ Sound(r) /\ SameButCall(o, r, q) /\ r.sent = o.sent
  /\ r.k[q] = WithConn(o.k[q], r.k[q].conn) /\ r.k[q].conn \in 1..Len(r.conns)

\* A Conn that is made is nobody else's.
LEMMA NewConnSound ==
  ASSUME NEW o, Sound(o), NEW q \in Calls, o.k[q].pooled => o.present
  PROVE  TookConn(o, NewConn(o, q), q)
<1> DEFINE r == NewConn(o, q)
           c == Len(o.conns) + 1
<1>0. ObjectsTyped(o) BY Zenon DEF Sound
<1>1. c \in Nat /\ o.conns \in Seq(ConnRecord) BY <1>0, SMT DEF ObjectsTyped
<1>2. /\ r.k = [o.k EXCEPT ![q] = WithConn(o.k[q], c)]
      /\ r.conns = Append(o.conns, [open |-> FALSE, linked |-> FALSE])
  BY <1>0, SMT DEF NewConn, WithConn, ObjectsTyped, IsObjects
<1>3. /\ r.pool = o.pool /\ r.present = o.present /\ r.cleared = o.cleared /\ r.ok = o.ok
      /\ r.todo = o.todo /\ r.sent = o.sent
  BY <1>0, SMT DEF NewConn, ObjectsTyped, IsObjects
<1>4. IsObjects(r) BY <1>0, Zenon DEF NewConn, ObjectsTyped, IsObjects
<1> HIDE DEF r
<1>5. IsCall(o.k[q]) BY <1>0, Zenon DEF ObjectsTyped
<1>6. IsCall(WithConn(o.k[q], c)) /\ WithConn(o.k[q], c).conn = c /\ WithConn(o.k[q], c).pooled = o.k[q].pooled
  BY <1>1, <1>5, CallFields, Zenon
<1>7. /\ r.k = [p \in Calls |-> r.k[p]] /\ r.k[q] = WithConn(o.k[q], c)
      /\ \A p \in Calls : p # q => r.k[p] = o.k[p]
      /\ \A p \in Calls : IsCall(r.k[p])
  BY <1>0, <1>2, <1>6, TableUpdate
<1>8. r.conns \in Seq(ConnRecord) /\ Len(r.conns) = c BY <1>1, <1>2, SMT DEF ConnRecord
<1>9. ObjectsTyped(r) BY <1>0, <1>3, <1>4, <1>7, <1>8, Zenon DEF ObjectsTyped
<1>10. Exclusive(r)
  <2>1. \A p \in Calls : r.k[p].conn \in Nat /\ o.k[p].conn \in Nat
    BY <1>7, <1>0, Zenon DEF ObjectsTyped, IsCall
  <2>2. r.k[q].conn = c BY <1>6, <1>7, Zenon
  <2>3. \A p \in Calls : p # q => r.k[p].conn = o.k[p].conn BY <1>7, Zenon
  <2>4. Len(o.conns) \in Nat /\ c > Len(o.conns) BY <1>1, SMT
  <2>5. PoolMade(r) BY <1>1, <1>3, <1>8, SMT DEF Sound, Exclusive, PoolMade
  <2>6. HeldMade(r) BY <1>8, <2>1, <2>2, <2>3, <2>4, SMT DEF Sound, Exclusive, HeldMade
  <2>7. PoolDistinct(r) BY <1>3, Zenon DEF Sound, Exclusive, PoolDistinct
  <2>8. HeldDistinct(r) BY <2>1, <2>2, <2>3, <2>4, SMT DEF Sound, Exclusive, HeldMade, HeldDistinct
  <2>9. \A n \in 1..Len(o.pool) : o.pool[n] # c BY <2>4, SMT DEF Sound, Exclusive, PoolMade
  <2>10. PoolNotHeld(r) BY <1>3, <2>2, <2>3, <2>9, SMT DEF Sound, Exclusive, PoolNotHeld
  <2>11. QED BY <2>5, <2>6, <2>7, <2>8, <2>10, Zenon DEF Exclusive
<1>11. Kept(r)
  <2>1. \A p \in Calls : p # q => r.k[p] = o.k[p] BY <1>7, Zenon
  <2>2. r.k[q].pooled = o.k[q].pooled BY <1>6, <1>7, Zenon
  <2>3. QED BY <1>3, <2>1, <2>2, Zenon DEF Sound, Kept
<1>12. SameButCall(o, r, q)
  <2>1. Len(r.conns) >= Len(o.conns) BY <1>1, <1>8, SMT
  <2>2. QED BY <1>3, <1>7, <2>1, Zenon DEF SameButCall
<1>13. r.k[q] = WithConn(o.k[q], r.k[q].conn) BY <1>6, <1>7, Zenon
<1>14. r.k[q].conn \in 1..Len(r.conns)
  <2>1. c \in 1..c BY <1>1, SMT
  <2>2. QED BY <1>6, <1>7, <1>8, <2>1, Zenon
<1>15. TookConn(o, r, q) BY <1>3, <1>9, <1>10, <1>11, <1>12, <1>13, <1>14, Zenon DEF TookConn, Sound
<1>16. QED BY <1>15, Zenon DEF r

\* The last Conn of the pool goes to q.
Popped(o, r, q) ==
  /\ IsObjects(r)
  /\ r.k = [o.k EXCEPT ![q] = WithConn(o.k[q], o.pool[Len(o.pool)])]
  /\ r.pool = SubSeq(o.pool, 1, Len(o.pool) - 1)
  /\ r.present = TRUE /\ r.conns = o.conns /\ r.cleared = o.cleared /\ r.ok = o.ok /\ r.todo = o.todo /\ r.sent = o.sent

\* A Conn that is taken from the pool leaves it.
LEMMA PopSound ==
  ASSUME NEW o, Sound(o), NEW q \in Calls, o.pool # <<>>, NEW r, Popped(o, r, q)
  PROVE  TookConn(o, r, q)
<1> DEFINE c == o.pool[Len(o.pool)]
<1>0. ObjectsTyped(o) BY Zenon DEF Sound
<1>1. Len(o.pool) \in Nat /\ Len(o.pool) >= 1 /\ o.pool \in Seq(Nat) /\ Len(o.conns) \in Nat
  BY <1>0, SMT DEF ObjectsTyped
<1>2. c \in 1..Len(o.conns) BY <1>1, SMT DEF Sound, Exclusive, PoolMade
<1>3. /\ r.pool \in Seq(Nat) /\ Len(r.pool) = Len(o.pool) - 1
      /\ \A n \in 1..Len(r.pool) : n \in 1..Len(o.pool) /\ r.pool[n] = o.pool[n] /\ n # Len(o.pool)
  <2>0. r.pool = SubSeq(o.pool, 1, Len(o.pool) - 1) BY Zenon DEF Popped
  <2>1. Len(r.pool) = Len(o.pool) - 1 BY <1>1, <2>0, SMT
  <2>2. r.pool \in Seq(Nat) BY <1>1, <2>0, SMT
  <2>3. \A n \in 1..Len(r.pool) : n \in 1..Len(o.pool) /\ n # Len(o.pool) BY <1>1, <2>1, SMT
  <2>4. \A n \in 1..Len(r.pool) : r.pool[n] = o.pool[n] BY <1>1, <2>0, <2>1, SMT
  <2>5. QED BY <2>1, <2>2, <2>3, <2>4, Zenon
<1>4. c \in Nat BY <1>1, <1>2, SMT
<1> HIDE DEF c
<1>5. IsCall(o.k[q]) BY <1>0, Zenon DEF ObjectsTyped
<1>6. IsCall(WithConn(o.k[q], c)) /\ WithConn(o.k[q], c).conn = c /\ WithConn(o.k[q], c).pooled = o.k[q].pooled
  BY <1>4, <1>5, CallFields, Zenon
<1>7. /\ r.k = [p \in Calls |-> r.k[p]] /\ r.k[q] = WithConn(o.k[q], c)
      /\ \A p \in Calls : p # q => r.k[p] = o.k[p]
      /\ \A p \in Calls : IsCall(r.k[p])
  BY <1>0, <1>6, TableUpdate DEF c, Popped
<1>8. ObjectsTyped(r) BY <1>0, <1>3, <1>7, Zenon DEF ObjectsTyped, Popped
<1>9. Exclusive(r)
  <2>1. \A p \in Calls : r.k[p].conn \in Nat /\ o.k[p].conn \in Nat
    BY <1>7, <1>0, Zenon DEF ObjectsTyped, IsCall
  <2>2. r.k[q].conn = c BY <1>6, <1>7, Zenon
  <2>3. \A p \in Calls : p # q => r.k[p].conn = o.k[p].conn BY <1>7, Zenon
  <2>4. Len(o.pool) \in 1..Len(o.pool) BY <1>1, SMT
  <2>5. \A n \in 1..Len(r.pool) : r.pool[n] # c /\ r.pool[n] \in 1..Len(o.conns)
    <3>1. PoolDistinct(o) /\ PoolMade(o) BY Zenon DEF Sound, Exclusive
    <3>2. \A n \in 1..Len(o.pool) : n # Len(o.pool) => o.pool[n] # c
      BY <2>4, <3>1, Zenon DEF PoolDistinct, c
    <3>3. \A n \in 1..Len(o.pool) : o.pool[n] \in 1..Len(o.conns) BY <3>1, Zenon DEF PoolMade
    <3>4. QED BY <1>3, <3>2, <3>3, Zenon
  <2>6. \A p \in Calls : o.k[p].conn # c BY <2>4, Zenon DEF Sound, Exclusive, PoolNotHeld, c
  <2>7. PoolDistinct(r) BY <1>3, SMT DEF Sound, Exclusive, PoolDistinct
  <2>8. PoolNotHeld(r)
    <3>1. \A n \in 1..Len(r.pool), p \in Calls : p # q => r.pool[n] # r.k[p].conn
      BY <1>3, <2>3, SMT DEF Sound, Exclusive, PoolNotHeld
    <3>2. QED BY <2>2, <2>5, <3>1, Zenon DEF PoolNotHeld
  <2>9. HeldDistinct(r) BY <2>2, <2>3, <2>6, SMT DEF Sound, Exclusive, HeldDistinct
  <2>10. HeldMade(r)
    <3>1. c <= Len(o.conns) BY <1>2, SMT
    <3>2. QED BY <2>2, <2>3, <3>1, Zenon DEF Sound, Exclusive, HeldMade, Popped
  <2>11. Len(r.pool) <= MaxPoolSize BY <1>1, <1>3, MaxPoolSizeAssumption, SMT DEF Sound, Exclusive, PoolMade
  <2>12. PoolMade(r) BY <2>5, <2>11, Zenon DEF PoolMade, Popped
  <2>13. QED BY <2>7, <2>8, <2>9, <2>10, <2>12, Zenon DEF Exclusive
<1>10. Kept(r) BY Zenon DEF Sound, Kept, Popped
<1>11. SameButCall(o, r, q)
  <2>1. Len(r.conns) >= Len(o.conns) BY <1>1, SMT DEF Popped
  <2>2. QED BY <1>7, <2>1, Zenon DEF SameButCall, Popped
<1>12. r.k[q] = WithConn(o.k[q], r.k[q].conn) /\ r.k[q].conn \in 1..Len(r.conns)
  BY <1>2, <1>6, <1>7, Zenon DEF Popped
<1>13. QED BY <1>8, <1>9, <1>10, <1>11, <1>12, Zenon DEF TookConn, Sound, Popped

\* Get gives q a Conn that no other has.
LEMMA GetSound ==
  ASSUME NEW o, Sound(o), NEW q \in Calls, o.k[q].conn = 0
  PROVE  TookConn(o, Get(o, q), q)
<1> DEFINE a == [o EXCEPT !.present = TRUE]
<1>0. ObjectsTyped(o) BY Zenon DEF Sound
<1>1. IsObjects(a) BY <1>0, Zenon DEF ObjectsTyped, IsObjects
<1>2. /\ a.k = o.k /\ a.conns = o.conns /\ a.pool = o.pool /\ a.present = TRUE /\ a.cleared = o.cleared
      /\ a.ok = o.ok /\ a.todo = o.todo /\ a.sent = o.sent
  BY <1>0, SMT DEF ObjectsTyped, IsObjects
<1>3. CASE o.pool = <<>>
  <2>1. Get(o, q) = NewConn(a, q) BY <1>2, <1>3, Zenon DEF Get
  <2> HIDE DEF a
  <2>a. ObjectsTyped(a) BY <1>0, <1>1, <1>2, Zenon DEF ObjectsTyped
  <2>b. Exclusive(a)
    BY <1>2, SMT DEF Sound, Exclusive, PoolMade, HeldMade, PoolDistinct, HeldDistinct, PoolNotHeld
  <2>c. Kept(a) BY <1>2, Zenon DEF Sound, Kept
  <2>2. Sound(a) BY <2>a, <2>b, <2>c, Zenon DEF Sound
  <2>3. TookConn(a, NewConn(a, q), q) BY <1>2, <2>2, NewConnSound, Zenon
  <2>4. QED BY <1>2, <2>1, <2>3, Zenon DEF TookConn, SameButCall
<1>4. CASE o.pool # <<>>
  <2> DEFINE r == [a EXCEPT !.k[q].conn = a.pool[Len(a.pool)], !.pool = SubSeq(@, 1, Len(@) - 1)]
  <2>1. Get(o, q) = r BY <1>2, <1>4, Zenon DEF Get
  <2>2. IsObjects(r) BY <1>1, Zenon DEF IsObjects
  <2> HIDE DEF a
  <2>3. /\ r.k = [o.k EXCEPT ![q] = WithConn(o.k[q], o.pool[Len(o.pool)])]
        /\ r.pool = SubSeq(o.pool, 1, Len(o.pool) - 1)
    BY <1>1, <1>2, SMT DEF IsObjects, WithConn
  <2>4. /\ r.present = TRUE /\ r.conns = o.conns
        /\ r.cleared = o.cleared /\ r.ok = o.ok /\ r.todo = o.todo /\ r.sent = o.sent
    BY <1>1, <1>2, SMT DEF IsObjects
  <2> HIDE DEF r
  <2>5. TookConn(o, r, q) BY <1>4, <2>2, <2>3, <2>4, PopSound, Zenon DEF Popped
  <2>6. QED BY <2>1, <2>5, Zenon
<1>5. QED BY <1>3, <1>4, Zenon

\* ExecuteInLoop gives the Request a Conn, of the pool or a new one.
LEMMA TakeConnSound ==
  ASSUME NEW o, Sound(o), NEW q \in Calls
  PROVE  TookConn(o, TakeConn(o, q), q)
<1>0. ObjectsTyped(o) BY Zenon DEF Sound
<1>1. CASE o.k[q].conn # 0
  <2>1. TakeConn(o, q) = o BY <1>1, Zenon DEF TakeConn
  <2>2. IsCall(o.k[q]) BY <1>0, Zenon DEF ObjectsTyped
  <2>3. o.k[q] = WithConn(o.k[q], o.k[q].conn) BY <2>2, Zenon DEF IsCall, WithConn
  <2>4. o.k[q].conn \in Nat /\ o.k[q].conn <= Len(o.conns)
    BY <2>2, Zenon DEF IsCall, Sound, Exclusive, HeldMade
  <2>5. Len(o.conns) \in Nat BY <1>0, SMT DEF ObjectsTyped
  <2>6. o.k[q].conn \in 1..Len(o.conns) /\ Len(o.conns) >= Len(o.conns) BY <1>1, <2>4, <2>5, SMT
  <2>7. QED BY <2>1, <2>3, <2>6, Zenon DEF TookConn, SameButCall
<1>2. CASE o.k[q].conn = 0 /\ o.k[q].pooled
  <2>1. TakeConn(o, q) = Get(o, q) BY <1>2, Zenon DEF TakeConn
  <2>2. QED BY <1>2, <2>1, GetSound, Zenon
<1>3. CASE o.k[q].conn = 0 /\ ~o.k[q].pooled
  <2>1. TakeConn(o, q) = NewConn(o, q) BY <1>3, Zenon DEF TakeConn
  <2>2. QED BY <1>3, <2>1, NewConnSound, Zenon
<1>4. QED BY <1>1, <1>2, <1>3, Zenon

\* A Conn of the list is replaced.
LEMMA ConnReplaced ==
  ASSUME NEW s \in Seq(ConnRecord), NEW c \in 1..Len(s), NEW v \in ConnRecord
  PROVE  [s EXCEPT ![c] = v] \in Seq(ConnRecord) /\ Len([s EXCEPT ![c] = v]) = Len(s)
BY SMT

\* Conn::Close touches that Conn only.
LEMMA CloseSound ==
  ASSUME NEW o, Sound(o), NEW c \in 1..Len(o.conns)
  PROVE  LET r == CloseConnection(o, c)
         IN  OnlyConns(o, r) /\ r.todo = o.todo /\ r.sent = o.sent
<1> DEFINE r == CloseConnection(o, c)
<1>0. ObjectsTyped(o) BY Zenon DEF Sound
<1>1. [open |-> FALSE, linked |-> FALSE] \in ConnRecord BY Zenon DEF ConnRecord
<1>2. r.conns = [o.conns EXCEPT ![c] = [open |-> FALSE, linked |-> FALSE]]
  BY <1>0, SMT DEF CloseConnection, ObjectsTyped, IsObjects
<1>3. /\ r.k = o.k /\ r.pool = o.pool /\ r.present = o.present /\ r.cleared = o.cleared /\ r.ok = o.ok
      /\ r.todo = o.todo /\ r.sent = o.sent
  BY <1>0, SMT DEF CloseConnection, ObjectsTyped, IsObjects
<1>4. IsObjects(r) BY <1>0, Zenon DEF CloseConnection, ObjectsTyped, IsObjects
<1> HIDE DEF r
<1>5. o.conns \in Seq(ConnRecord) BY <1>0, Zenon DEF ObjectsTyped
<1>6. r.conns \in Seq(ConnRecord) /\ Len(r.conns) = Len(o.conns) BY <1>1, <1>2, <1>5, ConnReplaced, Zenon
<1>7. OnlyConns(o, r) BY <1>3, <1>4, <1>6, Zenon DEF OnlyConns
<1>8. QED BY <1>3, <1>7, Zenon DEF r

\* q has given up its Conn, and nothing else has changed.
GaveUp(o, a, q) ==
  /\ a.k[q].conn = 0 /\ a.pool = o.pool /\ a.conns = o.conns /\ \A p \in Calls : p # q => a.k[p] = o.k[p]

\* A Conn that q put into the pool, which has room, is there once and q has it no more.
LEMMA PushSound ==
  ASSUME NEW o, Sound(o), NEW a, Sound(a), NEW q \in Calls, o.k[q].conn # 0, Len(o.pool) < MaxPoolSize,
         GaveUp(o, a, q), NEW r, IsObjects(r), r.pool = Append(o.pool, o.k[q].conn), r.k = a.k,
         r.conns = a.conns, r.cleared = a.cleared, r.ok = a.ok, r.present = a.present
  PROVE  Sound(r)
<1> DEFINE c == o.k[q].conn
           top == Len(o.pool) + 1
<1>0. ObjectsTyped(o) /\ ObjectsTyped(a) BY Zenon DEF Sound
<1>1. r.conns = o.conns BY Zenon DEF GaveUp
<1>3. r.pool = Append(o.pool, c) BY Zenon
<1>4. c \in Nat /\ c <= Len(o.conns) BY <1>0, Zenon DEF ObjectsTyped, IsCall, Sound, Exclusive, HeldMade
<1>5. o.pool \in Seq(Nat) /\ Len(o.pool) \in Nat /\ Len(o.conns) \in Nat BY <1>0, SMT DEF ObjectsTyped
<1>6. c \in 1..Len(o.conns) BY <1>4, <1>5, SMT
<1> HIDE DEF c
<1>7. /\ r.pool \in Seq(Nat) /\ Len(r.pool) = top /\ r.pool[top] = c
      /\ \A n \in 1..Len(o.pool) : r.pool[n] = o.pool[n]
  BY <1>3, <1>4, <1>5, SMT
<1>8. \A n \in 1..Len(r.pool) : n = top \/ n \in 1..Len(o.pool) BY <1>5, <1>7, SMT
<1> HIDE DEF top
<1>9. ObjectsTyped(r) BY <1>0, <1>7, Zenon DEF ObjectsTyped
<1>10. \A n \in 1..Len(o.pool) : o.pool[n] # c /\ o.pool[n] \in 1..Len(o.conns)
  BY Zenon DEF Sound, Exclusive, PoolNotHeld, PoolMade, c
<1>11. PoolMade(r)
  <2>1. Len(r.pool) <= MaxPoolSize BY <1>5, <1>7, MaxPoolSizeAssumption, SMT DEF top
  <2>2. QED BY <1>1, <1>6, <1>7, <1>8, <1>10, <2>1, Zenon DEF PoolMade
<1>12. HeldMade(r) BY Zenon DEF Sound, Exclusive, HeldMade
<1>13. PoolDistinct(r)
  <2>1. \A m, n \in 1..Len(o.pool) : m # n => o.pool[m] # o.pool[n]
    BY Zenon DEF Sound, Exclusive, PoolDistinct
  <2>2. QED BY <1>7, <1>8, <1>10, <2>1, SMT DEF PoolDistinct
<1>14. HeldDistinct(r) BY Zenon DEF Sound, Exclusive, HeldDistinct
<1>15. PoolNotHeld(r)
  <2>1. \A p \in Calls : p # q => a.k[p].conn # c
    BY Zenon DEF Sound, Exclusive, HeldDistinct, GaveUp, c
  <2>2. a.k[q].conn # c BY <1>6, SMT DEF GaveUp
  <2>3. \A n \in 1..Len(o.pool), p \in Calls : o.pool[n] # a.k[p].conn
    BY SMT DEF Sound, Exclusive, PoolNotHeld, GaveUp
  <2>4. QED BY <1>7, <1>8, <2>1, <2>2, <2>3, Zenon DEF PoolNotHeld
<1>16. Kept(r) BY Zenon DEF Sound, Kept
<1>17. QED BY <1>9, <1>11, <1>12, <1>13, <1>14, <1>15, <1>16, Zenon DEF Sound, Exclusive

\* What Put yields: q holds no Conn, and the rest of its record is as it was.
GaveBack(o, r, q) ==
  /\ Sound(r) /\ SameButCall(o, r, q) /\ r.sent = o.sent /\ Len(r.conns) = Len(o.conns)
  /\ r.k[q] = WithConn(o.k[q], 0)

\* ConnPool::Put: the Conn goes back to the pool, or is closed when the pool is full.
LEMMA PutSound ==
  ASSUME NEW o, Sound(o), NEW q \in Calls, o.k[q].pooled, o.k[q].conn # 0
  PROVE  GaveBack(o, Put(o, q), q)
<1> DEFINE b == Assure(o, o.present)
           a == [b EXCEPT !.k[q].conn = 0]
           c == o.k[q].conn
           r == Put(o, q)
<1>0. ObjectsTyped(o) BY Zenon DEF Sound
<1>1. IsObjects(b) BY <1>0, Zenon DEF ObjectsTyped, IsObjects, Assure
<1>2. /\ b.k = o.k /\ b.conns = o.conns /\ b.pool = o.pool /\ b.present = o.present /\ b.cleared = o.cleared
      /\ b.todo = o.todo /\ b.sent = o.sent
  BY <1>0, SMT DEF ObjectsTyped, IsObjects, Assure
<1>3. b.ok = (o.ok /\ o.present) BY <1>0, SMT DEF ObjectsTyped, IsObjects, Assure
<1>4. Put(o, q) = IF Len(a.pool) < MaxPoolSize THEN [a EXCEPT !.pool = Append(@, c)] ELSE CloseConnection(a, c)
  BY Zenon DEF Put
<1> HIDE DEF b
<1>5. IsObjects(a) BY <1>1, Zenon DEF IsObjects
<1>6. a.k = [o.k EXCEPT ![q] = WithConn(o.k[q], 0)] BY <1>1, <1>2, SMT DEF IsObjects, WithConn
<1>7. /\ a.conns = o.conns /\ a.pool = o.pool /\ a.present = o.present /\ a.cleared = o.cleared
      /\ a.todo = o.todo /\ a.sent = o.sent
  BY <1>1, <1>2, SMT DEF IsObjects
<1>8. a.ok = (o.ok /\ o.present) BY <1>1, <1>3, SMT DEF IsObjects
<1> HIDE DEF a, r
<1>9. IsCall(o.k[q]) BY <1>0, Zenon DEF ObjectsTyped
<1>10. 0 \in Nat BY SMT
<1>11. /\ IsCall(WithConn(o.k[q], 0)) /\ WithConn(o.k[q], 0).conn = 0
       /\ WithConn(o.k[q], 0).pooled = o.k[q].pooled
  BY <1>9, <1>10, CallFields, Zenon
<1>12. a.ok \in BOOLEAN /\ (o.ok /\ ~o.cleared => a.ok)
  <2>1. ~o.cleared => o.present BY Zenon DEF Sound, Kept
  <2>2. QED BY <1>0, <1>8, <2>1, Zenon DEF ObjectsTyped
<1>13. OnlyCall(o, a, q, WithConn(o.k[q], 0)) BY <1>5, <1>6, <1>7, <1>11, <1>12, Zenon DEF OnlyCall
<1>a. Became(o, a, q, WithConn(o.k[q], 0)) BY <1>13, CallUpdate, Zenon
<1>14. Sound(a) /\ SameButCall(o, a, q) /\ a.k[q] = WithConn(o.k[q], 0) BY <1>a, Zenon DEF Became
<1>15. c \in 1..Len(o.conns)
  <2>1. c \in Nat /\ c <= Len(o.conns) BY <1>9, Zenon DEF IsCall, Sound, Exclusive, HeldMade
  <2>2. Len(o.conns) \in Nat BY <1>0, SMT DEF ObjectsTyped
  <2>3. QED BY <2>1, <2>2, SMT
<1>16. CASE Len(o.pool) < MaxPoolSize
  <2>0. Len(a.pool) < MaxPoolSize BY <1>7, <1>16, Zenon
  <2>1. r = [a EXCEPT !.pool = Append(@, c)] BY <1>4, <2>0, Zenon DEF r
  <2>2. IsObjects(r) BY <1>5, <2>1, Zenon DEF IsObjects
  <2>3. /\ r.pool = Append(o.pool, c) /\ r.k = a.k /\ r.conns = a.conns /\ r.cleared = a.cleared /\ r.ok = a.ok
        /\ r.present = a.present /\ r.todo = a.todo /\ r.sent = a.sent
    BY <1>5, <1>7, <2>1, SMT DEF IsObjects
  <2>4. GaveUp(o, a, q) BY <1>7, <1>11, <1>14, Zenon DEF GaveUp, SameButCall
  <2>5. Sound(r) BY <1>14, <1>16, <2>2, <2>3, <2>4, PushSound
  <2>6. SameButCall(o, r, q) BY <1>14, <2>3, Zenon DEF SameButCall
  <2>7. QED BY <1>7, <1>14, <2>3, <2>5, <2>6, Zenon DEF GaveBack, r
<1>17. CASE ~(Len(o.pool) < MaxPoolSize)
  <2>1. r = CloseConnection(a, c) BY <1>4, <1>7, <1>17, Zenon DEF r
  <2>2. OnlyConns(a, r) /\ r.todo = a.todo /\ r.sent = a.sent BY <1>7, <1>14, <1>15, <2>1, CloseSound, Zenon
  <2>3. Sound(r) BY <1>14, <2>2, ConnsUpdate, Zenon
  <2>4. Len(r.conns) = Len(o.conns) BY <1>7, <2>2, Zenon DEF OnlyConns
  <2>5. SameButCall(o, r, q) BY <1>7, <1>14, <2>2, <2>4, Zenon DEF SameButCall, OnlyConns
  <2>6. QED BY <1>7, <1>14, <2>2, <2>3, <2>4, <2>5, Zenon DEF GaveBack, OnlyConns, r
<1>18. QED BY <1>16, <1>17, Zenon

\* What Recycle yields.
Recycled(o, r, q) ==
  /\ Sound(r) /\ SameButCall(o, r, q) /\ r.sent = o.sent /\ Len(r.conns) = Len(o.conns)
  /\ r.k[q] \in {o.k[q], WithConn(o.k[q], 0)}

\* Recycle gives the Conn of a pooled Request back and closes that of another.
LEMMA RecycleSound ==
  ASSUME NEW o, Sound(o), NEW q \in Calls, o.k[q].conn # 0
  PROVE  Recycled(o, Recycle(o, q), q)
<1>1. CASE o.k[q].pooled
  <2>1. Recycle(o, q) = Put(o, q) BY <1>1, Zenon DEF Recycle
  <2>2. GaveBack(o, Put(o, q), q) BY <1>1, PutSound, Zenon
  <2>3. QED BY <2>1, <2>2, Zenon DEF Recycled, GaveBack
<1>2. CASE ~o.k[q].pooled
  <2>1. Recycle(o, q) = o BY <1>2, Zenon DEF Recycle
  <2>2. Len(o.conns) >= Len(o.conns) BY SMT DEF Sound, ObjectsTyped
  <2>3. QED BY <2>1, <2>2, Zenon DEF Recycled, SameButCall
<1>3. QED BY <1>1, <1>2, Zenon

\* The handler is called once more, with this code, and the tries are what they were.
HandlerHeard(o, r, q, code) ==
  /\ Sound(r) /\ SameButCall(o, r, q) /\ r.sent = o.sent
  /\ r.k[q].state = "done" /\ r.k[q].handled = o.k[q].handled + 1 /\ r.k[q].code = code
  /\ r.k[q].executed = o.k[q].executed /\ r.k[q].retried = o.k[q].retried

\* The handler is called once more, with the code, and the Request has ended.
LEMMA CallHandlerSound ==
  ASSUME NEW o, Sound(o), NEW q \in Calls, NEW code
  PROVE  HandlerHeard(o, CallHandler(o, q, code), q, code)
<1> DEFINE kk == [o.k[q] EXCEPT !.state = "done", !.handled = @ + 1, !.code = code, !.conn = 0]
           a == [o EXCEPT !.k[q] = kk]
           c == o.k[q].conn
           r == CallHandler(o, q, code)
<1>0. ObjectsTyped(o) BY Zenon DEF Sound
<1>1. r = IF c = 0 THEN a ELSE CloseConnection(a, c) BY Zenon DEF CallHandler
<1>2. IsObjects(a) BY <1>0, Zenon DEF ObjectsTyped, IsObjects
<1>3. /\ a.k = [o.k EXCEPT ![q] = kk] /\ a.conns = o.conns /\ a.pool = o.pool /\ a.present = o.present
      /\ a.cleared = o.cleared /\ a.todo = o.todo /\ a.sent = o.sent /\ a.ok = o.ok
  <2>1. a.k = [o.k EXCEPT ![q] = kk] BY <1>0 DEF ObjectsTyped, IsObjects
  <2>2. /\ a.conns = o.conns /\ a.pool = o.pool /\ a.present = o.present
        /\ a.cleared = o.cleared /\ a.todo = o.todo /\ a.sent = o.sent /\ a.ok = o.ok
    BY <1>0, SMT DEF ObjectsTyped, IsObjects
  <2>3. QED BY <2>1, <2>2, Zenon
<1> HIDE DEF a, r
<1>4. IsCall(o.k[q]) BY <1>0, Zenon DEF ObjectsTyped
<1>5. /\ kk.pooled = o.k[q].pooled /\ kk.conn = 0 /\ kk.state = "done" /\ kk.handled = o.k[q].handled + 1
      /\ kk.code = code /\ kk.executed = o.k[q].executed /\ kk.retried = o.k[q].retried
  BY <1>4, SMT DEF IsCall
<1>6. IsCall(kk)
  <2>1. kk = [x \in {"state", "pooled", "conn", "retried", "sent", "executed", "handled", "code"} |-> kk[x]]
    BY <1>4, Zenon DEF IsCall
  <2>2. 0 \in Nat /\ o.k[q].handled + 1 \in Nat BY <1>4, SMT DEF IsCall
  <2>3. o.k[q].executed \in Nat /\ o.k[q].retried \in Nat BY <1>4, Zenon DEF IsCall
  <2> HIDE DEF kk
  <2>4. QED BY <1>5, <2>1, <2>2, <2>3, Zenon DEF IsCall
<1> HIDE DEF kk
<1>7. OnlyCall(o, a, q, kk)
  <2>1. o.ok \in BOOLEAN BY <1>0, Zenon DEF ObjectsTyped
  <2>2. QED BY <1>2, <1>3, <1>5, <1>6, <2>1, Zenon DEF OnlyCall
<1>a. Became(o, a, q, kk) BY <1>7, CallUpdate, Zenon
<1>8. Sound(a) /\ SameButCall(o, a, q) /\ a.k[q] = kk BY <1>a, Zenon DEF Became
<1>9. CASE c = 0
  <2>1. r = a BY <1>1, <1>9, Zenon
  <2>2. QED BY <1>3, <1>5, <1>8, <2>1, Zenon DEF HandlerHeard, r
<1>10. CASE c # 0
  <2>1. r = CloseConnection(a, c) BY <1>1, <1>10, Zenon
  <2>2. c \in Nat /\ c <= Len(o.conns) BY <1>4, Zenon DEF IsCall, Sound, Exclusive, HeldMade
  <2>3. Len(o.conns) \in Nat BY <1>0, SMT DEF ObjectsTyped
  <2>4. c \in 1..Len(a.conns) BY <1>3, <1>10, <2>2, <2>3, SMT
  <2>5. OnlyConns(a, r) /\ r.todo = a.todo /\ r.sent = a.sent BY <1>8, <2>1, <2>4, CloseSound, Zenon
  <2>6. Sound(r) BY <1>8, <2>5, ConnsUpdate, Zenon
  <2>7. r.k[q] = kk /\ SameButCall(o, r, q) BY <1>8, <2>5, Zenon DEF OnlyConns, SameButCall
  <2>8. QED BY <1>3, <1>5, <2>5, <2>6, <2>7, Zenon DEF HandlerHeard, r
<1>11. QED BY <1>9, <1>10, Zenon

\* Two methods of one Request, one after the other, leave alone what both leave alone.
LEMMA SameButCallTrans ==
  ASSUME NEW o, Sound(o), NEW a, Sound(a), NEW r, Sound(r), NEW q, SameButCall(o, a, q), SameButCall(a, r, q)
  PROVE  SameButCall(o, r, q)
<1>1. Len(o.conns) \in Nat /\ Len(a.conns) \in Nat /\ Len(r.conns) \in Nat BY SMT DEF Sound, ObjectsTyped
<1>2. Len(r.conns) >= Len(o.conns) BY <1>1, SMT DEF SameButCall
<1>3. QED BY <1>2, Zenon DEF SameButCall

\* What Retry yields.
Retried(o, r, q) ==
  /\ Sound(r) /\ SameButCall(o, r, q) /\ r.sent = o.sent
  /\ r.k[q].state = "retrying" /\ r.k[q].retried = o.k[q].retried + 1
  /\ r.k[q].executed = o.k[q].executed /\ r.k[q].handled = o.k[q].handled

\* Retry counts, recycles the Conn and starts the timer.
LEMMA RetrySound ==
  ASSUME NEW o, Sound(o), NEW q \in Calls, o.k[q].conn # 0
  PROVE  Retried(o, Retry(o, q), q)
<1> DEFINE kk == [o.k[q] EXCEPT !.retried = @ + 1]
           a == [o EXCEPT !.k[q].retried = @ + 1]
           b == Recycle(a, q)
           jj == [b.k[q] EXCEPT !.state = "retrying"]
           r == [b EXCEPT !.k[q].state = "retrying"]
<1>0. ObjectsTyped(o) BY Zenon DEF Sound
<1>1. Retry(o, q) = r BY Zenon DEF Retry
<1>2. IsObjects(a) BY <1>0, Zenon DEF ObjectsTyped, IsObjects
<1>3. a.k = [o.k EXCEPT ![q] = kk] BY <1>0, SMT DEF ObjectsTyped, IsObjects
<1>4. /\ a.conns = o.conns /\ a.pool = o.pool /\ a.present = o.present
      /\ a.cleared = o.cleared /\ a.todo = o.todo /\ a.sent = o.sent /\ a.ok = o.ok
  BY <1>0, SMT DEF ObjectsTyped, IsObjects
<1> HIDE DEF a
<1>5. IsCall(o.k[q]) BY <1>0, Zenon DEF ObjectsTyped
<1>6. /\ kk.pooled = o.k[q].pooled /\ kk.conn = o.k[q].conn /\ kk.retried = o.k[q].retried + 1
      /\ kk.executed = o.k[q].executed /\ kk.handled = o.k[q].handled
  BY <1>5, SMT DEF IsCall
<1>7. IsCall(kk)
  <2>1. kk = [x \in {"state", "pooled", "conn", "retried", "sent", "executed", "handled", "code"} |-> kk[x]]
    BY <1>5, Zenon DEF IsCall
  <2>2. o.k[q].retried + 1 \in Nat BY <1>5, SMT DEF IsCall
  <2>3. o.k[q].executed \in Nat /\ o.k[q].handled \in Nat /\ o.k[q].conn \in Nat BY <1>5, Zenon DEF IsCall
  <2> HIDE DEF kk
  <2>4. QED BY <1>6, <2>1, <2>2, <2>3, Zenon DEF IsCall
<1> HIDE DEF kk
<1>8. OnlyCall(o, a, q, kk)
  <2>1. o.ok \in BOOLEAN BY <1>0, Zenon DEF ObjectsTyped
  <2>2. QED BY <1>2, <1>3, <1>4, <1>6, <1>7, <2>1, Zenon DEF OnlyCall
<1>9. Became(o, a, q, kk) BY <1>8, CallUpdate, Zenon
<1>10. Sound(a) /\ SameButCall(o, a, q) /\ a.k[q] = kk BY <1>9, Zenon DEF Became
<1>11. a.k[q].conn # 0 BY <1>6, <1>10, Zenon
<1>12. Recycled(a, b, q) BY <1>10, <1>11, RecycleSound, Zenon
<1> HIDE DEF b
<1>13. Sound(b) /\ SameButCall(a, b, q) /\ b.sent = o.sent BY <1>4, <1>12, Zenon DEF Recycled
<1>14. b.k[q].retried = kk.retried /\ b.k[q].executed = kk.executed /\ b.k[q].handled = kk.handled
  <2>1. 0 \in Nat BY SMT
  <2>2. /\ WithConn(kk, 0).retried = kk.retried /\ WithConn(kk, 0).executed = kk.executed
        /\ WithConn(kk, 0).handled = kk.handled
    BY <1>7, <2>1, CallFields, Zenon
  <2>3. QED BY <1>10, <1>12, <2>2, Zenon DEF Recycled
<1>15. ObjectsTyped(b) BY <1>13, Zenon DEF Sound
<1>16. IsObjects(r) BY <1>15, Zenon DEF ObjectsTyped, IsObjects
<1>17. r.k = [b.k EXCEPT ![q] = jj] BY <1>15, SMT DEF ObjectsTyped, IsObjects
<1>18. /\ r.conns = b.conns /\ r.pool = b.pool /\ r.present = b.present
       /\ r.cleared = b.cleared /\ r.todo = b.todo /\ r.sent = b.sent /\ r.ok = b.ok
  BY <1>15, SMT DEF ObjectsTyped, IsObjects
<1> HIDE DEF r
<1>19. IsCall(b.k[q]) BY <1>15, Zenon DEF ObjectsTyped
<1>20. /\ jj.pooled = b.k[q].pooled /\ jj.conn = b.k[q].conn /\ jj.retried = b.k[q].retried
       /\ jj.executed = b.k[q].executed /\ jj.handled = b.k[q].handled /\ jj.state = "retrying"
  BY <1>19, SMT DEF IsCall
<1>21. IsCall(jj) BY <1>19, Zenon DEF IsCall
<1> HIDE DEF jj
<1>22. OnlyCall(b, r, q, jj)
  <2>1. b.ok \in BOOLEAN BY <1>15, Zenon DEF ObjectsTyped
  <2>2. QED BY <1>16, <1>17, <1>18, <1>20, <1>21, <2>1, Zenon DEF OnlyCall
<1>23. Became(b, r, q, jj) BY <1>13, <1>22, CallUpdate, Zenon
<1>24. Sound(r) /\ SameButCall(b, r, q) /\ r.k[q] = jj BY <1>23, Zenon DEF Became
<1>25. SameButCall(o, b, q) BY <1>10, <1>13, SameButCallTrans, Zenon
<1>26. SameButCall(o, r, q) BY <1>13, <1>24, <1>25, SameButCallTrans, Zenon
<1>27. QED BY <1>1, <1>6, <1>13, <1>14, <1>18, <1>20, <1>24, <1>26, Zenon DEF Retried

\* What a try that has ended, or was given to evhttp, yields.
Tried(o, r, q) == Sound(r) /\ SameButCall(o, r, q) /\ TriesOf(r.k[q])

\* A Request in the middle of a try.
Trying(k) == k.executed = k.retried + 1 /\ k.handled = 0 /\ k.retried <= RetryNumber /\ k.conn # 0

\* A Request that retries has been executed as often as it has retried.
LEMMA RetryTried ==
  ASSUME NEW o, Sound(o), NEW q \in Calls, Trying(o.k[q]), o.k[q].retried < RetryNumber
  PROVE  Tried(o, Retry(o, q), q) /\ Retry(o, q).sent = o.sent
         /\ Retry(o, q).k[q].executed = o.k[q].executed
<1> DEFINE r == Retry(o, q)
<1>1. Retried(o, r, q) BY RetrySound, Zenon DEF Trying
<1> HIDE DEF r
<1>2. IsCall(o.k[q]) BY Zenon DEF Sound, ObjectsTyped
<1>3. TriesOf(r.k[q])
  <2>1. r.k[q].executed = r.k[q].retried /\ r.k[q].handled = 0 BY <1>1, Zenon DEF Retried, Trying
  <2>2. r.k[q].retried <= RetryNumber
    <3>1. o.k[q].retried + 1 <= RetryNumber BY <1>2, RetryNumberAssumption, SMT DEF IsCall
    <3>2. QED BY <1>1, <3>1, Zenon DEF Retried
  <2>3. r.k[q].state = "retrying" BY <1>1, Zenon DEF Retried
  <2>4. QED BY <2>1, <2>2, <2>3 DEF TriesOf
<1>4. QED BY <1>1, <1>3, Zenon DEF Retried, Tried, r

\* A Request whose handler is told of a failure has retried RetryNumber times.
LEMMA HandledTried ==
  ASSUME NEW o, Sound(o), NEW q \in Calls, NEW code, o.k[q].executed = o.k[q].retried + 1, o.k[q].handled = 0,
         o.k[q].retried <= RetryNumber, code = Null \/ ServerError(code) => o.k[q].retried = RetryNumber
  PROVE  Tried(o, CallHandler(o, q, code), q) /\ CallHandler(o, q, code).sent = o.sent
         /\ CallHandler(o, q, code).k[q].executed = o.k[q].executed
<1> DEFINE r == CallHandler(o, q, code)
<1>1. HandlerHeard(o, r, q, code) BY CallHandlerSound, Zenon
<1> HIDE DEF r
<1>2. 0 + 1 = 1 BY SMT
<1>3. /\ r.k[q].executed = r.k[q].retried + 1 /\ r.k[q].handled = 1 /\ r.k[q].retried <= RetryNumber
      /\ r.k[q].code = Null \/ ServerError(r.k[q].code) => r.k[q].retried = RetryNumber
      /\ r.k[q].state = "done"
  BY <1>1, <1>2, Zenon DEF HandlerHeard
<1>4. TriesOf(r.k[q]) BY <1>3 DEF TriesOf
<1>5. QED BY <1>1, <1>4, Zenon DEF HandlerHeard, Tried, r

\* After a failed execution the Request retries or, out of retries, tells its handler.
LEMMA FailedTried ==
  ASSUME NEW o, Sound(o), NEW q \in Calls, Trying(o.k[q])
  PROVE  Tried(o, Failed(o, q), q) /\ Failed(o, q).sent = o.sent
         /\ Failed(o, q).k[q].executed = o.k[q].executed
<1>1. CASE o.k[q].retried < RetryNumber
  <2>1. Failed(o, q) = Retry(o, q) BY <1>1, Zenon DEF Failed
  <2>2. QED BY <1>1, <2>1, RetryTried
<1>2. CASE ~(o.k[q].retried < RetryNumber)
  <2>1. Failed(o, q) = CallHandler(o, q, Null) BY <1>2, Zenon DEF Failed
  <2>2. IsCall(o.k[q]) BY Zenon DEF Sound, ObjectsTyped
  <2>3. o.k[q].retried = RetryNumber BY <1>2, <2>2, RetryNumberAssumption, SMT DEF Trying, IsCall
  <2>4. QED BY <2>1, <2>3, HandledTried DEF Trying
<1>3. QED BY <1>1, <1>2, Zenon

\* What a method keeps, then what one keeps that ends in a try, is kept by both.
LEMMA TriedTrans ==
  ASSUME NEW o, Sound(o), NEW a, Sound(a), NEW r, NEW q, SameButCall(o, a, q), Tried(a, r, q)
  PROVE  Tried(o, r, q)
<1>1. Sound(r) /\ SameButCall(a, r, q) BY Zenon DEF Tried
<1>2. SameButCall(o, r, q) BY <1>1, SameButCallTrans, Zenon
<1>3. QED BY <1>2, Zenon DEF Tried

\* A response, or its absence, ends the try, whatever it is.
LEMMA ResponseTried ==
  ASSUME NEW o, Sound(o), NEW q \in Calls, Trying(o.k[q]), NEW code
  PROVE  Tried(o, HandleResponse(o, q, code), q) /\ HandleResponse(o, q, code).sent = o.sent
         /\ HandleResponse(o, q, code).k[q].executed = o.k[q].executed
<1> DEFINE c == o.k[q].conn
           a == [o EXCEPT !.conns[o.k[q].conn].linked = code \notin {Null, 0}]
           b == Recycle(a, q)
           r == HandleResponse(o, q, code)
<1>0. ObjectsTyped(o) BY Zenon DEF Sound
<1>1. IsObjects(a) BY <1>0, Zenon DEF ObjectsTyped, IsObjects
<1>2. a.conns = [o.conns EXCEPT ![c] = [o.conns[c] EXCEPT !.linked = code \notin {Null, 0}]]
  BY <1>0, SMT DEF ObjectsTyped, IsObjects
<1>3. /\ a.k = o.k /\ a.pool = o.pool /\ a.present = o.present /\ a.cleared = o.cleared /\ a.ok = o.ok
      /\ a.todo = o.todo /\ a.sent = o.sent
  BY <1>0, SMT DEF ObjectsTyped, IsObjects
<1>4. r = IF code # Null /\ (~ServerError(code) \/ a.k[q].retried >= RetryNumber) THEN CallHandler(b, q, code)
          ELSE IF a.k[q].retried < RetryNumber THEN Retry(a, q)
          ELSE CallHandler(b, q, code)
  BY Zenon DEF HandleResponse
<1> HIDE DEF a, r
<1>5. IsCall(o.k[q]) BY <1>0, Zenon DEF ObjectsTyped
<1>6. c \in 1..Len(o.conns)
  <2>1. c \in Nat /\ c <= Len(o.conns) /\ c # 0
    BY <1>5, Zenon DEF IsCall, Sound, Exclusive, HeldMade, Trying
  <2>2. Len(o.conns) \in Nat BY <1>0, SMT DEF ObjectsTyped
  <2>3. QED BY <2>1, <2>2, SMT
<1>7. o.conns \in Seq(ConnRecord) BY <1>0, Zenon DEF ObjectsTyped
<1>8. a.conns \in Seq(ConnRecord) /\ Len(a.conns) = Len(o.conns)
  <2>1. o.conns[c] \in ConnRecord BY <1>6, <1>7, SMT
  <2>2. [o.conns[c] EXCEPT !.linked = code \notin {Null, 0}] \in ConnRecord BY <2>1, Zenon DEF ConnRecord
  <2>3. QED BY <1>2, <1>6, <1>7, <2>2, ConnReplaced, SMT
<1>9. OnlyConns(o, a) BY <1>1, <1>3, <1>8, Zenon DEF OnlyConns
<1>10. Sound(a) /\ SameButCall(o, a, q) BY <1>3, <1>9, ConnsUpdate, Zenon DEF SameButCall
<1>11. CASE /\ ~(code # Null /\ (~ServerError(code) \/ o.k[q].retried >= RetryNumber))
            /\ o.k[q].retried < RetryNumber
  <2>1. r = Retry(a, q) BY <1>3, <1>4, <1>11, Zenon
  <2>2. Tried(a, r, q) /\ r.sent = a.sent /\ r.k[q].executed = a.k[q].executed
    BY <1>3, <1>10, <1>11, <2>1, RetryTried
  <2>3. QED BY <1>3, <1>10, <2>2, TriedTrans, Zenon DEF r
<1>12. CASE ~(/\ ~(code # Null /\ (~ServerError(code) \/ o.k[q].retried >= RetryNumber))
              /\ o.k[q].retried < RetryNumber)
  <2>1. r = CallHandler(b, q, code) BY <1>3, <1>4, <1>12, Zenon
  <2>2. Recycled(a, b, q) BY <1>3, <1>10, RecycleSound, Zenon DEF Trying
  <2> HIDE DEF b
  <2>3. Sound(b) /\ SameButCall(a, b, q) /\ b.sent = o.sent BY <1>3, <2>2, Zenon DEF Recycled
  <2>4. /\ b.k[q].retried = o.k[q].retried /\ b.k[q].executed = o.k[q].executed
        /\ b.k[q].handled = o.k[q].handled
    <3>1. 0 \in Nat BY SMT
    <3>2. /\ WithConn(o.k[q], 0).retried = o.k[q].retried /\ WithConn(o.k[q], 0).executed = o.k[q].executed
          /\ WithConn(o.k[q], 0).handled = o.k[q].handled
      BY <1>5, <3>1, CallFields, Zenon
    <3>3. QED BY <1>3, <2>2, <3>2, Zenon DEF Recycled
  <2>5. code = Null \/ ServerError(code) => o.k[q].retried = RetryNumber
    <3>1. o.k[q].retried >= RetryNumber => o.k[q].retried = RetryNumber
      BY <1>5, RetryNumberAssumption, SMT DEF IsCall, Trying
    <3>2. ~(o.k[q].retried < RetryNumber) => o.k[q].retried = RetryNumber
      BY <1>5, RetryNumberAssumption, SMT DEF IsCall, Trying
    <3>3. QED BY <1>12, <3>1, <3>2, Zenon
  <2>6. Tried(b, r, q) /\ r.sent = b.sent /\ r.k[q].executed = b.k[q].executed
    BY <2>1, <2>3, <2>4, <2>5, HandledTried DEF Trying
  <2>7. SameButCall(o, b, q) BY <1>10, <2>3, SameButCallTrans, Zenon
  <2>8. Tried(o, r, q) BY <2>3, <2>6, <2>7, TriedTrans, Zenon
  <2>9. QED BY <2>3, <2>4, <2>6, <2>8, Zenon DEF r
<1>13. QED BY <1>11, <1>12, Zenon

\* The request is given to evhttp.
Given(b, q) == [b EXCEPT !.k[q].state = "waiting", !.k[q].sent = b.sent + 1, !.sent = @ + 1]

\* The request is with evhttp.
LEMMA GivenTried ==
  ASSUME NEW b, Sound(b), NEW q \in Calls, Trying(b.k[q]), NEW r, r = Given(b, q)
  PROVE  Tried(b, r, q) /\ r.sent = b.sent + 1 /\ r.k[q].executed = b.k[q].executed
<1> DEFINE jj == [b.k[q] EXCEPT !.state = "waiting", !.sent = b.sent + 1]
<1>0. ObjectsTyped(b) BY Zenon DEF Sound
<1>1. IsObjects(r) BY <1>0, Zenon DEF ObjectsTyped, IsObjects, Given
<1>2. r.k = [b.k EXCEPT ![q] = jj] BY <1>0, Zenon DEF ObjectsTyped, IsObjects, Given
<1>3. /\ r.conns = b.conns /\ r.pool = b.pool /\ r.present = b.present
      /\ r.cleared = b.cleared /\ r.todo = b.todo /\ r.ok = b.ok /\ r.sent = b.sent + 1
  BY <1>0, SMT DEF ObjectsTyped, IsObjects, Given
<1>4. IsCall(b.k[q]) BY <1>0, Zenon DEF ObjectsTyped
<1>5. /\ jj.pooled = b.k[q].pooled /\ jj.conn = b.k[q].conn /\ jj.retried = b.k[q].retried
      /\ jj.executed = b.k[q].executed /\ jj.handled = b.k[q].handled /\ jj.state = "waiting"
  BY <1>4, SMT DEF IsCall
<1>6. IsCall(jj) BY <1>4, Zenon DEF IsCall
<1> HIDE DEF jj
<1>7. OnlyCall(b, r, q, jj)
  <2>1. b.ok \in BOOLEAN BY <1>0, Zenon DEF ObjectsTyped
  <2>2. QED BY <1>1, <1>2, <1>3, <1>5, <1>6, <2>1, Zenon DEF OnlyCall
<1>8. Became(b, r, q, jj) BY <1>7, CallUpdate, Zenon
<1>9. TriesOf(jj) BY <1>5, SMT DEF TriesOf, Trying
<1>10. QED BY <1>3, <1>5, <1>8, <1>9, Zenon DEF Became, Tried

\* ExecuteInLoop ends a try or gives it to evhttp, whichever of its calls fails.
LEMMA ExecuteTried ==
  ASSUME NEW o, Sound(o), NEW q \in Calls, o.k[q].executed = o.k[q].retried, o.k[q].handled = 0,
         o.k[q].retried <= RetryNumber, NEW outcome
  PROVE  LET r == ExecuteInLoop(o, q, outcome)
         IN  Tried(o, r, q) /\ r.sent \in {o.sent, o.sent + 1} /\ r.k[q].executed = o.k[q].executed + 1
<1> DEFINE kk == [o.k[q] EXCEPT !.executed = @ + 1]
           e == [o EXCEPT !.k[q].executed = @ + 1]
           a == TakeConn(e, q)
           c == a.k[q].conn
           b == [a EXCEPT !.conns[c].open = TRUE]
           r == ExecuteInLoop(o, q, outcome)
<1>0. ObjectsTyped(o) BY Zenon DEF Sound
<1>1. r = CASE outcome = "no connection" /\ ~a.conns[c].open -> Failed(a, q)
            [] outcome = "not made" -> Failed(b, q)
            [] OTHER -> Given(b, q)
  BY Zenon DEF ExecuteInLoop, Given
<1>2. r \in {Failed(a, q), Failed(b, q), Given(b, q)}
  <2> HIDE DEF a, b, c, r
  <2>1. QED BY <1>1, Zenon
<1> HIDE DEF r
<1>3. e.k = [o.k EXCEPT ![q] = kk] BY <1>0, SMT DEF ObjectsTyped, IsObjects
<1>4. /\ e.conns = o.conns /\ e.pool = o.pool /\ e.present = o.present
      /\ e.cleared = o.cleared /\ e.todo = o.todo /\ e.sent = o.sent /\ e.ok = o.ok
  BY <1>0, SMT DEF ObjectsTyped, IsObjects
<1>5. IsObjects(e) BY <1>0, Zenon DEF ObjectsTyped, IsObjects
<1> HIDE DEF e
<1>6. IsCall(o.k[q]) BY <1>0, Zenon DEF ObjectsTyped
<1>7. /\ kk.pooled = o.k[q].pooled /\ kk.conn = o.k[q].conn /\ kk.retried = o.k[q].retried
      /\ kk.executed = o.k[q].executed + 1 /\ kk.handled = o.k[q].handled
  BY <1>6, SMT DEF IsCall
<1>8. IsCall(kk)
  <2>1. kk = [x \in {"state", "pooled", "conn", "retried", "sent", "executed", "handled", "code"} |-> kk[x]]
    BY <1>6, Zenon DEF IsCall
  <2>2. o.k[q].executed + 1 \in Nat BY <1>6, SMT DEF IsCall
  <2>3. o.k[q].retried \in Nat /\ o.k[q].handled \in Nat /\ o.k[q].conn \in Nat BY <1>6, Zenon DEF IsCall
  <2> HIDE DEF kk
  <2>4. QED BY <1>7, <2>1, <2>2, <2>3, Zenon DEF IsCall
<1> HIDE DEF kk
<1>9. OnlyCall(o, e, q, kk)
  <2>1. o.ok \in BOOLEAN BY <1>0, Zenon DEF ObjectsTyped
  <2>2. QED BY <1>3, <1>4, <1>5, <1>7, <1>8, <2>1, Zenon DEF OnlyCall
<1>10. Became(o, e, q, kk) BY <1>9, CallUpdate, Zenon
<1>11. Sound(e) /\ SameButCall(o, e, q) /\ e.k[q] = kk BY <1>10, Zenon DEF Became
<1>12. TookConn(e, a, q) BY <1>11, TakeConnSound, Zenon
<1> HIDE DEF a
<1>13. Sound(a) /\ SameButCall(e, a, q) /\ a.sent = o.sent /\ c \in 1..Len(a.conns)
  BY <1>4, <1>12, Zenon DEF TookConn
<1>14. SameButCall(o, a, q) BY <1>11, <1>13, SameButCallTrans, Zenon
<1>15. ObjectsTyped(a) BY <1>13, Zenon DEF Sound
<1>16. IsCall(a.k[q]) BY <1>15, Zenon DEF ObjectsTyped
<1>17. Trying(a.k[q]) /\ a.k[q].executed = o.k[q].executed + 1
  <2>1. c \in Nat /\ c # 0 BY <1>13, <1>16, SMT DEF IsCall
  <2>2. a.k[q] = WithConn(kk, c) BY <1>11, <1>12, Zenon DEF TookConn
  <2>3. a.k[q].retried = kk.retried /\ a.k[q].executed = kk.executed /\ a.k[q].handled = kk.handled
    <3>1. /\ WithConn(kk, c).retried = kk.retried /\ WithConn(kk, c).executed = kk.executed
          /\ WithConn(kk, c).handled = kk.handled
      BY <1>8, <2>1, CallFields, Zenon
    <3>2. QED BY <2>2, <3>1, Zenon
  <2>4. QED BY <1>7, <2>1, <2>3, Zenon DEF Trying
<1>18. /\ b.k = a.k /\ b.pool = a.pool /\ b.present = a.present /\ b.cleared = a.cleared /\ b.ok = a.ok
       /\ b.todo = a.todo /\ b.sent = a.sent
  BY <1>15, SMT DEF ObjectsTyped, IsObjects
<1>19. b.conns = [a.conns EXCEPT ![c] = [a.conns[c] EXCEPT !.open = TRUE]]
  BY <1>15, SMT DEF ObjectsTyped, IsObjects
<1>20. IsObjects(b) BY <1>15, Zenon DEF ObjectsTyped, IsObjects
<1> HIDE DEF b, c
<1>21. a.conns \in Seq(ConnRecord) BY <1>15, Zenon DEF ObjectsTyped
<1>22. b.conns \in Seq(ConnRecord) /\ Len(b.conns) = Len(a.conns)
  <2>1. a.conns[c] \in ConnRecord BY <1>13, <1>21, SMT
  <2>2. [a.conns[c] EXCEPT !.open = TRUE] \in ConnRecord BY <2>1, Zenon DEF ConnRecord
  <2>3. QED BY <1>13, <1>19, <1>21, <2>2, ConnReplaced, SMT
<1>23. OnlyConns(a, b) BY <1>18, <1>20, <1>22, Zenon DEF OnlyConns
<1>24. Sound(b) /\ SameButCall(a, b, q) BY <1>13, <1>18, <1>23, ConnsUpdate, Zenon DEF SameButCall
<1>25. SameButCall(o, b, q) BY <1>13, <1>14, <1>24, SameButCallTrans, Zenon
<1>26. Trying(b.k[q]) /\ b.k[q].executed = o.k[q].executed + 1 /\ b.sent = o.sent
  BY <1>13, <1>17, <1>18, Zenon
<1>27. CASE r = Failed(a, q)
  <2>1. Tried(a, r, q) /\ r.sent = a.sent /\ r.k[q].executed = a.k[q].executed
    BY <1>13, <1>17, <1>27, FailedTried, Zenon
  <2>2. Tried(o, r, q) BY <1>13, <1>14, <2>1, TriedTrans, Zenon
  <2>3. QED BY <1>13, <1>17, <2>1, <2>2, Zenon DEF r
<1>28. CASE r = Failed(b, q)
  <2>1. Tried(b, r, q) /\ r.sent = b.sent /\ r.k[q].executed = b.k[q].executed
    BY <1>24, <1>26, <1>28, FailedTried, Zenon
  <2>2. Tried(o, r, q) BY <1>24, <1>25, <2>1, TriedTrans, Zenon
  <2>3. QED BY <1>26, <2>1, <2>2, Zenon DEF r
<1>29. CASE r = Given(b, q)
  <2>1. Tried(b, r, q) /\ r.sent = b.sent + 1 /\ r.k[q].executed = b.k[q].executed
    BY <1>24, <1>26, <1>29, GivenTried, Zenon
  <2>2. Tried(o, r, q) BY <1>24, <1>25, <2>1, TriedTrans, Zenon
  <2>3. QED BY <1>26, <2>1, <2>2, Zenon DEF r
<1>30. QED BY <1>2, <1>27, <1>28, <1>29, Zenon

\* The loop has no Execute of q queued.
NotQueued(o, q) == \A n \in 1..Len(o.todo) : o.todo[n][1] = "Execute" => o.todo[n][2] # q

\* A step of a Request that is not queued keeps everything.
LEMMA TriedInv ==
  ASSUME NEW o, Sound(o), Functors(o), NEW q \in Calls, NotQueued(o, q),
         \A p \in Calls : p # q => TriesOf(o.k[p]), NEW r, Tried(o, r, q)
  PROVE  ObjectsInv(r)
<1>1. Sound(r) /\ TriesOf(r.k[q]) /\ r.todo = o.todo /\ Len(r.conns) >= Len(o.conns)
  BY Zenon DEF Tried, SameButCall
<1>2. \A p \in Calls : p # q => r.k[p] = o.k[p] BY Zenon DEF Tried, SameButCall
<1>3. \A p \in Calls : TriesOf(r.k[p]) BY <1>1, <1>2, Zenon
<1>4. Functors(r)
  <2>1. Len(o.conns) \in Nat /\ Len(r.conns) \in Nat BY <1>1, SMT DEF Sound, ObjectsTyped
  <2>2. o.todo \in Seq(({"Close"} \X Nat) \cup ({"Execute"} \X Calls)) BY Zenon DEF Functors
  <2>3. ASSUME NEW n \in 1..Len(o.todo)
        PROVE  /\ o.todo[n][1] = "Close" => o.todo[n][2] \in 1..Len(r.conns)
               /\ o.todo[n][1] = "Execute" => r.k[o.todo[n][2]].state = "queued"
    <3>1. o.todo[n][1] = "Close" => o.todo[n][2] \in 1..Len(o.conns) BY Zenon DEF Functors
    <3>2. o.todo[n][1] = "Close" => o.todo[n][2] \in 1..Len(r.conns) BY <1>1, <2>1, <3>1, SMT
    <3>3. o.todo[n] \in ({"Close"} \X Nat) \cup ({"Execute"} \X Calls) BY <2>2, SMT
    <3>4. o.todo[n][1] = "Execute" => o.todo[n][2] \in Calls BY <3>3, SMT
    <3>5. o.todo[n][1] = "Execute" => o.todo[n][2] # q BY Zenon DEF NotQueued
    <3>6. o.todo[n][1] = "Execute" => o.k[o.todo[n][2]].state = "queued" BY Zenon DEF Functors
    <3>7. QED BY <1>2, <3>2, <3>4, <3>5, <3>6, Zenon
  <2>4. QED BY <1>1, <2>3, Zenon DEF Functors
<1>5. QED BY <1>1, <1>3, <1>4, Zenon DEF ObjectsInv

\* The loop takes the first functor.
LEMMA FunctorTaken ==
  ASSUME NEW o, ObjectsInv(o), o.todo # <<>>
  PROVE  LET e == [o EXCEPT !.todo = Tail(@)]
         IN  /\ Sound(e) /\ Functors(e) /\ e.k = o.k /\ e.sent = o.sent
             /\ Head(o.todo)[1] = "Close" => Head(o.todo)[2] \in 1..Len(e.conns)
             /\ Head(o.todo)[1] = "Execute" =>
                  /\ Head(o.todo)[2] \in Calls /\ NotQueued(e, Head(o.todo)[2])
                  /\ o.k[Head(o.todo)[2]].state = "queued"
<1> DEFINE e == [o EXCEPT !.todo = Tail(@)]
<1>0. ObjectsTyped(o) /\ Functors(o) /\ Sound(o) BY Zenon DEF Sound, ObjectsInv
<1>1. IsObjects(e) BY <1>0, Zenon DEF ObjectsTyped, IsObjects
<1>2. /\ e.k = o.k /\ e.conns = o.conns /\ e.pool = o.pool /\ e.present = o.present /\ e.cleared = o.cleared
      /\ e.ok = o.ok /\ e.sent = o.sent /\ e.todo = Tail(o.todo)
  BY <1>0, SMT DEF ObjectsTyped, IsObjects
<1> HIDE DEF e
<1>3. Sound(e)
  <2>1. OnlyConns(o, e) BY <1>0, <1>1, <1>2, Zenon DEF OnlyConns, ObjectsTyped
  <2>2. QED BY <1>0, <2>1, ConnsUpdate, Zenon
<1> DEFINE F == ({"Close"} \X Nat) \cup ({"Execute"} \X Calls)
<1>4. o.todo \in Seq(F) BY <1>0, Zenon DEF Functors
<1>5. /\ \A n \in 1..Len(o.todo) : o.todo[n] \in F
      /\ \A f \in F : f = <<f[1], f[2]>> /\ (f[1] = "Execute" => f[2] \in Calls)
  <2>1. \A f \in F : f = <<f[1], f[2]>> /\ (f[1] = "Execute" => f[2] \in Calls) BY SMT
  <2> HIDE DEF F
  <2>2. QED BY <1>4, <2>1, SMT
<1> HIDE DEF F
<1>6. /\ e.todo \in Seq(F) /\ Head(o.todo) = o.todo[1] /\ 1 \in 1..Len(o.todo)
      /\ \A n \in 1..Len(e.todo) : n + 1 \in 1..Len(o.todo) /\ e.todo[n] = o.todo[n + 1] /\ n + 1 # 1
  BY <1>2, <1>4, SMT
<1>7. Functors(e)
  <2>1. \A m, n \in 1..Len(e.todo) : m # n => m + 1 # n + 1 BY <1>6, SMT
  <2>2. \A m, n \in 1..Len(e.todo) : m # n /\ e.todo[m][1] = "Execute" => e.todo[m] # e.todo[n]
    <3>1. \A m, n \in 1..Len(o.todo) : m # n /\ o.todo[m][1] = "Execute" => o.todo[m] # o.todo[n]
      BY <1>0, Zenon DEF Functors
    <3>2. ASSUME NEW m \in 1..Len(e.todo), NEW n \in 1..Len(e.todo), m # n, e.todo[m][1] = "Execute"
          PROVE  e.todo[m] # e.todo[n]
      <4>1. m + 1 \in 1..Len(o.todo) /\ n + 1 \in 1..Len(o.todo) /\ m + 1 # n + 1 BY <1>6, <2>1, <3>2, Zenon
      <4>2. e.todo[m] = o.todo[m + 1] /\ e.todo[n] = o.todo[n + 1] BY <1>6, Zenon
      <4>3. QED BY <3>1, <3>2, <4>1, <4>2, Zenon
    <3>3. QED BY <3>2, Zenon
  <2>3. \A n \in 1..Len(e.todo) :
          /\ e.todo[n][1] = "Close" => e.todo[n][2] \in 1..Len(e.conns)
          /\ e.todo[n][1] = "Execute" => e.k[e.todo[n][2]].state = "queued"
    <3>1. \A n \in 1..Len(o.todo) :
          /\ o.todo[n][1] = "Close" => o.todo[n][2] \in 1..Len(e.conns)
          /\ o.todo[n][1] = "Execute" => e.k[o.todo[n][2]].state = "queued"
      BY <1>0, <1>2, Zenon DEF Functors
    <3>2. QED BY <1>6, <3>1, Zenon
  <2>4. QED BY <1>6, <2>2, <2>3, Zenon DEF Functors, F
<1>8. Head(o.todo)[1] = "Close" => Head(o.todo)[2] \in 1..Len(e.conns)
  BY <1>0, <1>2, <1>6, Zenon DEF Functors
<1>9. ASSUME Head(o.todo)[1] = "Execute"
      PROVE  /\ Head(o.todo)[2] \in Calls /\ NotQueued(e, Head(o.todo)[2])
             /\ o.k[Head(o.todo)[2]].state = "queued"
  <2>1. Head(o.todo)[2] \in Calls BY <1>5, <1>6, <1>9, Zenon
  <2>2. o.k[Head(o.todo)[2]].state = "queued" BY <1>0, <1>6, <1>9, Zenon DEF Functors
  <2>3. ASSUME NEW n \in 1..Len(e.todo), e.todo[n][1] = "Execute", e.todo[n][2] = Head(o.todo)[2] PROVE FALSE
    <3>1. o.todo[1] = <<o.todo[1][1], o.todo[1][2]>> /\ o.todo[n + 1] = <<o.todo[n + 1][1], o.todo[n + 1][2]>>
      BY <1>5, <1>6, Zenon
    <3>2. o.todo[n + 1] = o.todo[1] BY <1>6, <1>9, <2>3, <3>1, Zenon
    <3>3. QED BY <1>0, <1>6, <1>9, <3>2, Zenon DEF Functors
  <2>4. QED BY <2>1, <2>2, <2>3, Zenon DEF NotQueued
<1>10. QED BY <1>2, <1>3, <1>7, <1>8, <1>9, Zenon DEF e

\* The functor that closes a Conn keeps the invariant.
LEMMA RunCloseInv ==
  ASSUME ClientInv, RunClose
  PROVE  ClientInv'
<1> DEFINE o == client
           e == [client EXCEPT !.todo = Tail(@)]
           c == Head(client.todo)[2]
           r == CloseConnection(e, c)
<1>1. client' = r /\ client.todo # <<>> /\ Head(client.todo)[1] = "Close" BY Zenon DEF RunClose
<1>2. ObjectsInv(o) BY Zenon DEF ClientInv
<1>3. Sound(e) /\ Functors(e) /\ e.k = o.k /\ c \in 1..Len(e.conns) BY <1>1, <1>2, FunctorTaken
<1> HIDE DEF e, c, o
<1>4. OnlyConns(e, r) /\ r.todo = e.todo BY <1>3, CloseSound, Zenon
<1> HIDE DEF r
<1>5. Sound(r) BY <1>3, <1>4, ConnsUpdate, Zenon
<1>6. Functors(r) BY <1>3, <1>4, Zenon DEF Functors, OnlyConns
<1>7. \A q \in Calls : TriesOf(r.k[q]) BY <1>2, <1>3, <1>4, Zenon DEF OnlyConns, ObjectsInv
<1>8. ObjectsInv(r) BY <1>5, <1>6, <1>7, Zenon DEF ObjectsInv
<1>9. ObjectsInv(client') BY <1>1, <1>8, Zenon
<1>10. QED BY <1>9, Zenon DEF ClientInv

\* The functor of Execute keeps the invariant; it executes its Request once, sends at most once
\* and touches no other Request.
LEMMA RunExecuteInv ==
  ASSUME ClientInv, NEW outcome, RunExecute(outcome)
  PROVE  /\ ClientInv' /\ Head(client.todo)[2] \in Calls
         /\ client.k[Head(client.todo)[2]].state = "queued"
         /\ client'.sent \in {client.sent, client.sent + 1}
         /\ client'.k[Head(client.todo)[2]].executed = client.k[Head(client.todo)[2]].executed + 1
         /\ \A p \in Calls : p # Head(client.todo)[2] => client'.k[p] = client.k[p]
<1> DEFINE o == client
           e == [client EXCEPT !.todo = Tail(@)]
           q == Head(client.todo)[2]
           r == ExecuteInLoop(e, q, outcome)
<1>1. client' = r /\ client.todo # <<>> /\ Head(client.todo)[1] = "Execute" BY Zenon DEF RunExecute
<1>2. ObjectsInv(o) BY Zenon DEF ClientInv
<1>3. /\ Sound(e) /\ Functors(e) /\ e.k = o.k /\ e.sent = o.sent /\ q \in Calls /\ NotQueued(e, q)
      /\ o.k[q].state = "queued"
  BY <1>1, <1>2, FunctorTaken
<1>4. TriesOf(o.k[q]) BY <1>2, <1>3, Zenon DEF ObjectsInv
<1> HIDE DEF e, q, o
<1>5. e.k[q].executed = e.k[q].retried /\ e.k[q].handled = 0 /\ e.k[q].retried <= RetryNumber
  BY <1>3, <1>4, Zenon DEF TriesOf
<1>6. Tried(e, r, q) /\ r.sent \in {e.sent, e.sent + 1} /\ r.k[q].executed = e.k[q].executed + 1
  BY <1>3, <1>5, ExecuteTried
<1> HIDE DEF r
<1>7. \A p \in Calls : TriesOf(e.k[p]) BY <1>2, <1>3, Zenon DEF ObjectsInv
<1>8. ObjectsInv(r) BY <1>3, <1>6, <1>7, TriedInv, Zenon
<1>9. ObjectsInv(client') BY <1>1, <1>8, Zenon
<1>10. \A p \in Calls : p # q => r.k[p] = o.k[p] BY <1>3, <1>6, Zenon DEF Tried, SameButCall
<1>11. ClientInv' BY <1>9, Zenon DEF ClientInv
<1>12. QED BY <1>1, <1>3, <1>6, <1>10, <1>11, Zenon DEF q, o

\* The Execute of a Request that is not waiting for it is not queued.
LEMMA NotQueuedUnless ==
  ASSUME NEW o, ObjectsInv(o), NEW q \in Calls, o.k[q].state # "queued"
  PROVE  NotQueued(o, q)
BY Zenon DEF ObjectsInv, Functors, NotQueued

\* The retry timer keeps the invariant, and executes its Request once.
LEMMA RetryTimerInv ==
  ASSUME ClientInv, NEW q \in Calls, NEW outcome, RetryTimer(q, outcome)
  PROVE  /\ ClientInv'
         /\ client'.sent \in {client.sent, client.sent + 1}
         /\ client'.k[q].executed = client.k[q].executed + 1
         /\ \A p \in Calls : p # q => client'.k[p] = client.k[p]
<1> DEFINE o == client
           r == ExecuteInLoop(o, q, outcome)
<1>1. client' = r /\ o.k[q].state = "retrying" BY Zenon DEF RetryTimer
<1>2. ObjectsInv(o) BY Zenon DEF ClientInv
<1> HIDE DEF o
<1>3. Sound(o) /\ Functors(o) /\ \A p \in Calls : TriesOf(o.k[p]) BY <1>2, Zenon DEF ObjectsInv
<1>4. NotQueued(o, q)
  <2>1. o.k[q].state # "queued" BY <1>1
  <2>2. QED BY <1>2, <2>1, NotQueuedUnless, Zenon
<1>5. o.k[q].executed = o.k[q].retried /\ o.k[q].handled = 0 /\ o.k[q].retried <= RetryNumber
  BY <1>1, <1>3, Zenon DEF TriesOf
<1>6. Tried(o, r, q) /\ r.sent \in {o.sent, o.sent + 1} /\ r.k[q].executed = o.k[q].executed + 1
  BY <1>3, <1>5, ExecuteTried
<1> HIDE DEF r
<1>7. ObjectsInv(r) BY <1>3, <1>4, <1>6, TriedInv, Zenon
<1>8. ObjectsInv(client') BY <1>1, <1>7, Zenon
<1>9. \A p \in Calls : p # q => r.k[p] = o.k[p] BY <1>6, Zenon DEF Tried, SameButCall
<1>10. ClientInv' BY <1>8, Zenon DEF ClientInv
<1>11. QED BY <1>1, <1>6, <1>9, <1>10, Zenon DEF o

\* HandleResponse keeps the invariant, and neither executes nor sends.
LEMMA RespondedInv ==
  ASSUME ClientInv, NEW q \in Calls, NEW code, Responded(q, code)
  PROVE  /\ ClientInv' /\ client'.sent = client.sent
         /\ client'.k[q].executed = client.k[q].executed
         /\ \A p \in Calls : p # q => client'.k[p] = client.k[p]
<1> DEFINE o == client
           r == HandleResponse(o, q, code)
<1>1. client' = r /\ o.k[q].state = "waiting" BY Zenon DEF Responded
<1>2. ObjectsInv(o) BY Zenon DEF ClientInv
<1> HIDE DEF o
<1>3. Sound(o) /\ Functors(o) /\ \A p \in Calls : TriesOf(o.k[p]) BY <1>2, Zenon DEF ObjectsInv
<1>4. NotQueued(o, q)
  <2>1. o.k[q].state # "queued" BY <1>1
  <2>2. QED BY <1>2, <2>1, NotQueuedUnless, Zenon
<1>5. Trying(o.k[q]) BY <1>1, <1>3, Zenon DEF TriesOf, Trying
<1>6. Tried(o, r, q) /\ r.sent = o.sent /\ r.k[q].executed = o.k[q].executed BY <1>3, <1>5, ResponseTried
<1> HIDE DEF r
<1>7. ObjectsInv(r) BY <1>3, <1>4, <1>6, TriedInv, Zenon
<1>8. ObjectsInv(client') BY <1>1, <1>7, Zenon
<1>9. \A p \in Calls : p # q => r.k[p] = o.k[p] BY <1>6, Zenon DEF Tried, SameButCall
<1>10. ClientInv' BY <1>8, Zenon DEF ClientInv
<1>11. QED BY <1>1, <1>6, <1>9, <1>10, Zenon DEF o

\* Execute, in the user's thread, keeps the invariant, and only queues.
LEMMA ExecuteInv ==
  ASSUME ClientInv, NEW q \in Calls, Execute(q)
  PROVE  /\ ClientInv' /\ client'.sent = client.sent
         /\ client'.k[q].executed = client.k[q].executed
         /\ \A p \in Calls : p # q => client'.k[p] = client.k[p]
<1> DEFINE o == client
           f == <<"Execute", q>>
           jj == [o.k[q] EXCEPT !.state = "queued"]
           a == [o EXCEPT !.k[q].state = "queued"]
           r == [o EXCEPT !.k[q].state = "queued", !.todo = Append(@, <<"Execute", q>>)]
<1>1. client' = r /\ o.k[q].state = "new" BY Zenon DEF Execute
<1>2. ObjectsInv(o) BY Zenon DEF ClientInv
<1> HIDE DEF o
<1>3. Sound(o) /\ Functors(o) /\ \A p \in Calls : TriesOf(o.k[p]) BY <1>2, Zenon DEF ObjectsInv
<1>4. ObjectsTyped(o) BY <1>3, Zenon DEF Sound
<1>5. IsCall(o.k[q]) BY <1>4, Zenon DEF ObjectsTyped
<1>6. IsObjects(a) /\ IsObjects(r) BY <1>4, Zenon DEF ObjectsTyped, IsObjects
<1>7. /\ a.k = [o.k EXCEPT ![q] = jj] /\ a.conns = o.conns /\ a.pool = o.pool /\ a.present = o.present
      /\ a.cleared = o.cleared /\ a.ok = o.ok /\ a.todo = o.todo
  BY <1>4, SMT DEF ObjectsTyped, IsObjects
<1>8. /\ r.k = [o.k EXCEPT ![q] = jj] /\ r.conns = o.conns /\ r.pool = o.pool /\ r.present = o.present
      /\ r.cleared = o.cleared /\ r.ok = o.ok /\ r.sent = o.sent /\ r.todo = Append(o.todo, f)
  BY <1>4, SMT DEF ObjectsTyped, IsObjects
<1>9. /\ jj.pooled = o.k[q].pooled /\ jj.conn = o.k[q].conn /\ jj.retried = o.k[q].retried
      /\ jj.executed = o.k[q].executed /\ jj.handled = o.k[q].handled /\ jj.state = "queued"
  BY <1>5, SMT DEF IsCall
<1>10. IsCall(jj) BY <1>5, Zenon DEF IsCall
<1> HIDE DEF jj, a, r
<1>11. OnlyCall(o, a, q, jj)
  <2>1. o.ok \in BOOLEAN BY <1>4, Zenon DEF ObjectsTyped
  <2>2. QED BY <1>6, <1>7, <1>9, <1>10, <2>1, Zenon DEF OnlyCall
<1>12. Became(o, a, q, jj) BY <1>3, <1>11, CallUpdate, Zenon
<1>13. Sound(a) /\ r.k = a.k /\ r.k[q] = jj /\ \A p \in Calls : p # q => r.k[p] = o.k[p]
  <2>1. r.k = a.k BY <1>7, <1>8, Zenon
  <2>2. QED BY <1>12, <2>1, Zenon DEF Became, SameButCall
<1>14. Sound(r)
  <2>1. OnlyConns(a, r) BY <1>4, <1>6, <1>7, <1>8, <1>13, Zenon DEF OnlyConns, ObjectsTyped
  <2>2. QED BY <1>13, <2>1, ConnsUpdate, Zenon
<1>15. \A p \in Calls : TriesOf(r.k[p])
  <2>1. TriesOf(jj)
    <3>1. TriesOf(o.k[q]) BY <1>3, Zenon
    <3>2. QED BY <1>1, <1>9, <3>1, SMT DEF TriesOf
  <2>2. QED BY <1>3, <1>13, <2>1, Zenon
<1> DEFINE F == ({"Close"} \X Nat) \cup ({"Execute"} \X Calls)
           top == Len(o.todo) + 1
<1>16. o.todo \in Seq(F) BY <1>3, Zenon DEF Functors
<1>17. f \in F /\ f[1] = "Execute" /\ f[2] = q BY SMT
<1>18. \A g \in F : g[1] = "Execute" => g[2] \in Calls BY SMT
<1> HIDE DEF F, f
<1>19. /\ r.todo \in Seq(F) /\ r.todo[top] = f
       /\ \A n \in 1..Len(r.todo) : n = top \/ n \in 1..Len(o.todo)
       /\ \A n \in 1..Len(o.todo) : r.todo[n] = o.todo[n] /\ o.todo[n] \in F
  BY <1>8, <1>16, <1>17, SMT
<1> HIDE DEF top
<1>20. \A n \in 1..Len(o.todo) : o.todo[n] # f
  <2>1. o.k[q].state # "queued" BY <1>1
  <2>2. NotQueued(o, q) BY <1>2, <2>1, NotQueuedUnless, Zenon
  <2>3. QED BY <1>17, <2>2, Zenon DEF NotQueued
<1>21. Functors(r)
  <2>1. ASSUME NEW n \in 1..Len(r.todo)
        PROVE  /\ r.todo[n][1] = "Close" => r.todo[n][2] \in 1..Len(r.conns)
               /\ r.todo[n][1] = "Execute" => r.k[r.todo[n][2]].state = "queued"
    <3>1. CASE n = top BY <1>9, <1>13, <1>17, <1>19, <3>1 DEF F
    <3>2. CASE n \in 1..Len(o.todo)
      <4>1. /\ o.todo[n][1] = "Close" => o.todo[n][2] \in 1..Len(o.conns)
            /\ o.todo[n][1] = "Execute" => o.k[o.todo[n][2]].state = "queued"
        BY <1>3, <3>2, Zenon DEF Functors
      <4>2. o.todo[n][1] = "Execute" => o.todo[n][2] \in Calls BY <1>18, <1>19, <3>2, Zenon
      <4>3. QED BY <1>8, <1>9, <1>13, <1>19, <3>2, <4>1, <4>2, Zenon
    <3>3. QED BY <1>19, <3>1, <3>2, Zenon
  <2>2. ASSUME NEW m \in 1..Len(r.todo), NEW n \in 1..Len(r.todo), m # n, r.todo[m][1] = "Execute"
        PROVE  r.todo[m] # r.todo[n]
    <3>1. CASE m \in 1..Len(o.todo) /\ n \in 1..Len(o.todo)
      BY <1>3, <1>19, <2>2, <3>1, Zenon DEF Functors
    <3>2. CASE m = top \/ n = top BY <1>19, <1>20, <2>2, <3>2, Zenon
    <3>3. QED BY <1>19, <3>1, <3>2, Zenon
  <2>3. QED BY <1>19, <2>1, <2>2, Zenon DEF Functors, F
<1>22. ObjectsInv(r) BY <1>14, <1>15, <1>21, Zenon DEF ObjectsInv
<1>23. ObjectsInv(client') BY <1>1, <1>22, Zenon
<1>24. ClientInv' BY <1>23, Zenon DEF ClientInv
<1>25. QED BY <1>1, <1>8, <1>9, <1>13, <1>24, Zenon DEF o

\* ConnPool::Clear keeps the invariant: what was in the pool is queued to be closed.
LEMMA ClearInv ==
  ASSUME ClientInv, Clear
  PROVE  ClientInv' /\ client'.sent = client.sent /\ client'.k = client.k
<1> DEFINE o == client
           r == ClearPool(o)
           t == [n \in DOMAIN o.pool |-> <<"Close", o.pool[n]>>]
<1>1. client' = r BY Zenon DEF Clear
<1>2. ObjectsInv(o) BY Zenon DEF ClientInv
<1> HIDE DEF o
<1>3. Sound(o) /\ Functors(o) /\ \A p \in Calls : TriesOf(o.k[p]) BY <1>2, Zenon DEF ObjectsInv
<1>4. ObjectsTyped(o) BY <1>3, Zenon DEF Sound
<1>5. IsObjects(r) BY <1>4, Zenon DEF ObjectsTyped, IsObjects, ClearPool
<1>6. /\ r.k = o.k /\ r.conns = o.conns /\ r.pool = <<>> /\ r.present = FALSE /\ r.ok = o.ok /\ r.sent = o.sent
      /\ r.todo = o.todo \o t
  BY <1>4, SMT DEF ObjectsTyped, IsObjects, ClearPool
<1>7. r.cleared = (o.cleared \/ Holding(o) # {}) BY <1>4, SMT DEF ObjectsTyped, IsObjects, ClearPool
<1> HIDE DEF r
<1>8. ObjectsTyped(r)
  <2>1. <<>> \in Seq(Nat) BY SMT
  <2>2. r.cleared \in BOOLEAN BY <1>7, Zenon
  <2>3. QED BY <1>4, <1>5, <1>6, <2>1, <2>2, Zenon DEF ObjectsTyped
<1>9. Exclusive(r)
  <2>1. \A n \in 1..Len(r.pool) : FALSE BY <1>6, SMT
  <2>2. Len(r.pool) <= MaxPoolSize BY <1>6, MaxPoolSizeAssumption, SMT
  <2>3. HeldMade(r) /\ HeldDistinct(r) BY <1>3, <1>6, Zenon DEF Sound, Exclusive, HeldMade, HeldDistinct
  <2>4. PoolMade(r) /\ PoolDistinct(r) /\ PoolNotHeld(r)
    BY <2>1, <2>2, Zenon DEF PoolMade, PoolDistinct, PoolNotHeld
  <2>5. QED BY <2>3, <2>4, Zenon DEF Exclusive
<1>10. Kept(r)
  <2>1. Holding(o) = {} => \A q \in Calls : ~(o.k[q].pooled /\ o.k[q].conn # 0) BY Zenon DEF Holding
  <2>2. QED BY <1>3, <1>6, <1>7, <2>1, Zenon DEF Sound, Kept
<1> DEFINE F == ({"Close"} \X Nat) \cup ({"Execute"} \X Calls)
<1>11. o.todo \in Seq(F) BY <1>3, Zenon DEF Functors
<1>12. o.pool \in Seq(Nat) /\ \A n \in 1..Len(o.pool) : o.pool[n] \in 1..Len(o.conns)
  BY <1>3, <1>4, Zenon DEF Sound, Exclusive, ObjectsTyped, PoolMade
<1>13. t \in Seq(F) /\ Len(t) = Len(o.pool) /\ \A n \in 1..Len(t) : t[n][1] = "Close" /\ t[n][2] \in 1..Len(o.conns)
  <2>1. DOMAIN o.pool = 1..Len(o.pool) /\ Len(o.pool) \in Nat BY <1>12, SMT
  <2>2. \A n \in 1..Len(o.pool) : <<"Close", o.pool[n]>> \in F
    <3>1. \A n \in 1..Len(o.pool) : o.pool[n] \in Nat BY <1>12, SMT
    <3>2. QED BY <3>1, SMT
  <2>3. \A n \in 1..Len(o.pool) : t[n] = <<"Close", o.pool[n]>> BY <2>1, Zenon
  <2>4. \A n \in 1..Len(o.pool) : t[n][1] = "Close" /\ t[n][2] = o.pool[n] BY <2>3, SMT
  <2> HIDE DEF F
  <2>5. t \in Seq(F) /\ Len(t) = Len(o.pool) BY <2>1, <2>2, SMT
  <2>6. QED BY <1>12, <2>4, <2>5, Zenon
<1> HIDE DEF F, t
<1>14. /\ r.todo \in Seq(F)
       /\ \A n \in 1..Len(r.todo) :
            \/ n \in 1..Len(o.todo) /\ r.todo[n] = o.todo[n]
            \/ n - Len(o.todo) \in 1..Len(t) /\ r.todo[n] = t[n - Len(o.todo)] /\ n \notin 1..Len(o.todo)
  BY <1>6, <1>11, <1>13, SMT
<1>15. \A n \in 1..Len(r.todo) :
         \/ n \in 1..Len(o.todo) /\ r.todo[n] = o.todo[n]
         \/ n \notin 1..Len(o.todo) /\ r.todo[n][1] = "Close" /\ r.todo[n][2] \in 1..Len(o.conns)
  BY <1>13, <1>14, Zenon
<1>16. Functors(r)
  <2>1. ASSUME NEW n \in 1..Len(r.todo)
        PROVE  /\ r.todo[n][1] = "Close" => r.todo[n][2] \in 1..Len(r.conns)
               /\ r.todo[n][1] = "Execute" => r.k[r.todo[n][2]].state = "queued"
    <3>1. CASE n \in 1..Len(o.todo) /\ r.todo[n] = o.todo[n] BY <1>3, <1>6, <3>1, Zenon DEF Functors
    <3>2. CASE r.todo[n][1] = "Close" /\ r.todo[n][2] \in 1..Len(o.conns)
      <4>1. r.todo[n][1] # "Execute" BY <3>2
      <4>2. QED BY <1>6, <3>2, <4>1, Zenon
    <3>3. QED BY <1>15, <3>1, <3>2, Zenon
  <2>2. ASSUME NEW m \in 1..Len(r.todo), NEW n \in 1..Len(r.todo), m # n, r.todo[m][1] = "Execute"
        PROVE  r.todo[m] # r.todo[n]
    <3>0. r.todo[m][1] # "Close" BY <2>2
    <3>1. m \in 1..Len(o.todo) /\ r.todo[m] = o.todo[m] BY <1>15, <3>0, Zenon
    <3>2. CASE n \in 1..Len(o.todo) /\ r.todo[n] = o.todo[n] BY <1>3, <2>2, <3>1, <3>2, Zenon DEF Functors
    <3>3. CASE r.todo[n][1] = "Close" BY <3>0, <3>3, Zenon
    <3>4. QED BY <1>15, <3>2, <3>3, Zenon
  <2>3. QED BY <1>14, <2>1, <2>2, Zenon DEF Functors, F
<1>17. ObjectsInv(r) BY <1>3, <1>6, <1>8, <1>9, <1>10, <1>16, Zenon DEF ObjectsInv, Sound
<1>18. ObjectsInv(client') BY <1>1, <1>17, Zenon
<1>19. ClientInv' BY <1>18, Zenon DEF ClientInv
<1>20. QED BY <1>1, <1>6, <1>19, Zenon DEF o

\* The client begins with the invariant.
LEMMA ClientInitInv == ClientInit => ClientInv
<1> SUFFICES ASSUME ClientInit PROVE ClientInv
  OBVIOUS
<1> DEFINE o == client
<1>1. PICK pooled \in [Calls -> BOOLEAN] :
        client = [k |-> [q \in Calls |-> NewCall(pooled[q])], conns |-> <<>>, present |-> FALSE, pool |-> <<>>,
                  todo |-> <<>>, sent |-> 0, cleared |-> FALSE, ok |-> TRUE]
  BY Zenon DEF ClientInit
<1>2. /\ o.k = [q \in Calls |-> NewCall(pooled[q])] /\ o.conns = <<>> /\ o.present = FALSE /\ o.pool = <<>>
      /\ o.todo = <<>> /\ o.sent = 0 /\ o.cleared = FALSE /\ o.ok = TRUE
  BY <1>1, SMT
<1>3. IsObjects(o) BY <1>1, Zenon DEF IsObjects
<1> HIDE DEF o
<1>4. \A q \in Calls : /\ o.k[q].state = "new" /\ o.k[q].executed = 0 /\ o.k[q].retried = 0 /\ o.k[q].handled = 0
                        /\ o.k[q].conn = 0
  BY <1>2, SMT DEF NewCall
<1>5. \A q \in Calls : IsCall(o.k[q])
  <2> TAKE q \in Calls
  <2>1. o.k[q] = NewCall(pooled[q]) BY <1>2, Zenon
  <2>2. o.k[q] = [x \in {"state", "pooled", "conn", "retried", "sent", "executed", "handled", "code"} |-> o.k[q][x]]
    BY <2>1, SMT DEF NewCall
  <2>3. 0 \in Nat BY SMT
  <2>4. QED BY <1>4, <2>2, <2>3, Zenon DEF IsCall
<1>6. ObjectsTyped(o)
  <2>1. <<>> \in Seq(Nat) /\ <<>> \in Seq(ConnRecord) BY SMT
  <2>2. QED BY <1>2, <1>3, <1>5, <2>1, Zenon DEF ObjectsTyped
<1>7. Exclusive(o)
  <2>1. \A n \in 1..Len(o.pool) : FALSE BY <1>2, SMT
  <2>2. Len(o.pool) <= MaxPoolSize /\ Len(o.conns) = 0 /\ 0 <= 0 BY <1>2, MaxPoolSizeAssumption, SMT
  <2>3. QED
    BY <1>4, <2>1, <2>2, Zenon DEF Exclusive, PoolMade, PoolDistinct, PoolNotHeld, HeldMade,
       HeldDistinct
<1>8. Kept(o) BY <1>2, <1>4, Zenon DEF Kept
<1>9. Functors(o)
  <2>1. \A n \in 1..Len(o.todo) : FALSE BY <1>2, SMT
  <2>2. o.todo \in Seq(({"Close"} \X Nat) \cup ({"Execute"} \X Calls)) BY <1>2, SMT
  <2>3. QED BY <2>1, <2>2, Zenon DEF Functors
<1>10. \A q \in Calls : TriesOf(o.k[q])
  <2>1. 0 <= RetryNumber BY RetryNumberAssumption, SMT
  <2>2. QED BY <1>4, <2>1, Zenon DEF TriesOf
<1>11. QED BY <1>6, <1>7, <1>8, <1>9, <1>10, Zenon DEF ClientInv, ObjectsInv, Sound, o

\* The functor that closes a Conn touches no Request.
LEMMA RunCloseSame ==
  ASSUME ClientInv, RunClose
  PROVE  client'.sent = client.sent /\ client'.k = client.k
<1>1. IsObjects(client) BY Zenon DEF ClientInv, ObjectsInv, Sound, ObjectsTyped
<1> DEFINE a == [client EXCEPT !.todo = Tail(@)]
<1>2. IsObjects(a) /\ a.sent = client.sent /\ a.k = client.k BY <1>1, Zenon DEF IsObjects
<1>3. client' = CloseConnection(a, Head(client.todo)[2]) BY Zenon DEF RunClose
<1> HIDE DEF a
<1>4. client'.sent = a.sent /\ client'.k = a.k BY <1>2, <1>3, Zenon DEF CloseConnection, IsObjects
<1>5. QED BY <1>2, <1>4, Zenon

=============================================================================
