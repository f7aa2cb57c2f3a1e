--------------------------- MODULE TimerUdpProofs ---------------------------
(***************************************************************************)
(* Proofs about InvokeTimer, for any timers, threads and bounds, and about *)
(* UdpServer, for any number of ports and any bounds.                      *)
(***************************************************************************)
EXTENDS InvokeTimer, UdpServer, TLAPS

-----------------------------------------------------------------------------
(* InvokeTimer: who holds a timer, and a canceled one is silent.          *)

\* The start of a timer comes once, and before every Cancel(): RunAfter and RunEvery queue it
\* before anybody has the pointer.
StartFirst ==
    \A t \in Timers : \A i, j \in 1..Len(queue) :
        queue[i] = <<"start", t>> /\ queue[j][2] = t => i <= j

\* A timer that was not made yet is in nobody's hands.
NotMade(t) ==
    ~made[t] => /\ ~self[t] /\ ~canceled[t]
                /\ timer[t] = "null" /\ t \notin handling
                /\ \A i \in 1..Len(queue) : queue[i][2] # t

\* self_ is set while the start is queued and while there is a watcher, and not longer; a start
\* that is queued has not happened.
Lifetime(t) ==
    /\ self[t] <=> Queued("start", t) \/ timer[t] # "null"
    /\ Queued("start", t) => timer[t] = "null" /\ t \notin handling
    /\ t \in handling => timer[t] # "armed"
    /\ t \in handling /\ periodic[t] => timer[t] = "fired"
    /\ timer[t] = "fired" => t \in handling

TimerInv ==
    /\ TypeOK
    /\ StartFirst
    /\ \A t, r \in handling : t = r
    /\ \A t \in Timers : NotMade(t) /\ Lifetime(t)

\* What keeps a cancelled timer silent.
CanceledInv == \A t \in Timers : canceled[t] => timer[t] = "null" /\ ~Queued("start", t)

\* What Append and Tail do to the functors in a queue, for the queue of any loop.
LEMMA AppendRange ==
  ASSUME NEW S, NEW q \in Seq(S), NEW e \in S
  PROVE  /\ Append(q, e) \in Seq(S)
         /\ Range(Append(q, e)) = Range(q) \cup {e}
         /\ Len(Append(q, e)) = Len(q) + 1
         /\ \A i \in 1..Len(q) : Append(q, e)[i] = q[i]
         /\ Append(q, e)[Len(q) + 1] = e
  BY DEF Range

LEMMA TailRange ==
  ASSUME NEW S, NEW q \in Seq(S), q # <<>>
  PROVE  /\ Tail(q) \in Seq(S) /\ Head(q) \in S /\ Head(q) = q[1]
         /\ Len(q) \in Nat \ {0} /\ Len(Tail(q)) = Len(q) - 1
         /\ \A i \in 1..Len(Tail(q)) : Tail(q)[i] = q[i + 1]
         /\ Range(q) = Range(Tail(q)) \cup {Head(q)}
  <1>1. /\ Tail(q) \in Seq(S) /\ Head(q) \in S /\ Head(q) = q[1]
        /\ Len(q) \in Nat \ {0} /\ Len(Tail(q)) = Len(q) - 1
        /\ \A i \in 1..Len(Tail(q)) : Tail(q)[i] = q[i + 1]
    OBVIOUS
  <1>2. DOMAIN q = 1..Len(q) /\ DOMAIN Tail(q) = 1..Len(Tail(q))
    BY <1>1
  <1>3. ASSUME NEW x \in Range(q) PROVE x \in Range(Tail(q)) \cup {Head(q)}
    <2>1. PICK i \in 1..Len(q) : x = q[i]
      BY <1>2 DEF Range
    <2>2. CASE i = 1
      BY <2>1, <2>2, <1>1
    <2>3. CASE i # 1
      <3>1. i - 1 \in 1..Len(Tail(q)) /\ Tail(q)[i - 1] = x
        BY <1>1, <2>1, <2>3
      <3>2. QED
        BY <3>1, <1>2, Zenon DEF Range
    <2>4. QED
      BY <2>2, <2>3
  <1>4. ASSUME NEW x \in Range(Tail(q)) PROVE x \in Range(q)
    <2>1. PICK i \in 1..Len(Tail(q)) : x = Tail(q)[i]
      BY <1>2 DEF Range
    <2>2. i + 1 \in 1..Len(q) /\ q[i + 1] = x
      BY <1>1, <2>1
    <2>3. QED
      BY <2>2, <1>2 DEF Range
  <1>5. Head(q) \in Range(q)
    BY <1>1, <1>2 DEF Range
  <1>6. QED
    BY <1>1, <1>3, <1>4, <1>5
\* A step keeps the types.
LEMMA StepTypeOK == TypeOK /\ [Next]_vars => TypeOK'
  <1> SUFFICES ASSUME TypeOK, [Next]_vars PROVE TypeOK'
    OBVIOUS
  <1> DEFINE F == {"start", "cancel"} \X Timers
  <1> USE TimerAssumption DEF TypeOK
  <1>1. ASSUME NEW th \in Threads, NEW t \in Timers, NEW p \in BOOLEAN, NEW w \in BOOLEAN,
             RunTimer(th, t, p, w)
      PROVE  TypeOK'
    <2>1. queue' \in Seq(F)
      <3>1. <<"start", t>> \in F
        OBVIOUS
      <3>2. Append(queue, <<"start", t>>) \in Seq(F)
        BY <3>1
      <3>3. QED
        BY <1>1, <3>2, Zenon DEF RunTimer
    <2>2. timer' \in [Timers -> {"null", "armed", "fired"}]
      BY <1>1, Zenon DEF RunTimer, Arm
    <2>3. /\ made' \in [Timers -> BOOLEAN] /\ every' \in [Timers -> BOOLEAN] /\ positive' \in [Timers -> BOOLEAN]
          /\ periodic' \in [Timers -> BOOLEAN]
          /\ self' \in [Timers -> BOOLEAN] /\ held' \in [Timers -> BOOLEAN]
      BY <1>1, Zenon DEF RunTimer, Create
    <2>4. QED
      BY <1>1, <2>1, <2>2, <2>3 DEF RunTimer
  <1>2. ASSUME NEW th \in Threads, NEW t \in Timers, Cancel(th, t) PROVE TypeOK'
    <2>1. queue' \in Seq(F)
      <3>1. <<"cancel", t>> \in F
        OBVIOUS
      <3>2. Append(queue, <<"cancel", t>>) \in Seq(F)
        BY <3>1
      <3>3. QED
        BY <1>2, <3>2, Zenon DEF Cancel
    <2>2. timer' \in [Timers -> {"null", "armed", "fired"}]
      <3>1. timer' = timer \/ timer' = [timer EXCEPT ![t] = "null"]
        BY <1>2, Zenon DEF Cancel, CancelFunctor
      <3>2. QED
        BY <3>1, Zenon
    <2>3. /\ periodic' \in [Timers -> BOOLEAN] /\ self' \in [Timers -> BOOLEAN]
          /\ canceled' \in [Timers -> BOOLEAN]
      BY <1>2, Zenon DEF Cancel, CancelFunctor
    <2>4. QED
      BY <1>2, <2>1, <2>2, <2>3 DEF Cancel
  <1>3. ASSUME NEW t \in Timers, Release(t) PROVE TypeOK'
    BY <1>3 DEF Release
  <1>4. ASSUME NEW t \in Timers, OnTimerTriggered(t) PROVE TypeOK'
    BY <1>4 DEF OnTimerTriggered
  <1>5. ASSUME LoopRuns PROVE TypeOK'
    BY <1>5 DEF LoopRuns
  <1>6. ASSUME RunStart PROVE TypeOK'
    <2>1. queue' \in Seq(F) /\ Head(queue) \in F
      BY <1>6, TailRange DEF RunStart
    <2>2. QED
      BY <1>6, <2>1 DEF RunStart, Arm
  <1>7. ASSUME RunCancel PROVE TypeOK'
    <2>1. queue' \in Seq(F) /\ Head(queue) \in F
      BY <1>7, TailRange DEF RunCancel
    <2>2. QED
      BY <1>7, <2>1, Zenon DEF RunCancel, CancelFunctor
  <1>8. ASSUME NEW t \in Timers, FunctorReturns(t) PROVE TypeOK'
    BY <1>8, Zenon DEF FunctorReturns, Arm
  <1>9. ASSUME UNCHANGED vars PROVE TypeOK'
    BY <1>9 DEF vars
  <1>10. QED
    BY <1>1, <1>2, <1>3, <1>4, <1>5, <1>6, <1>7, <1>8, <1>9, SMTT(20) DEF Next, LoopContinues
\* A functor that is appended comes after the start of its timer, if it is not one itself or the
\* first functor of its timer.
LEMMA AppendStartFirst ==
  ASSUME TypeOK, StartFirst, NEW t \in Timers, NEW op \in {"start", "cancel"},
         op = "start" => \A i \in 1..Len(queue) : queue[i][2] # t,
         queue' = Append(queue, <<op, t>>)
  PROVE  /\ StartFirst'
         /\ Range(queue') = Range(queue) \cup {<<op, t>>}
         /\ \A r \in Timers : r # t /\ (\A i \in 1..Len(queue) : queue[i][2] # r) =>
                               \A i \in 1..Len(queue') : queue'[i][2] # r
  <1> DEFINE F == {"start", "cancel"} \X Timers
  <1>1. queue \in Seq(F) /\ <<op, t>> \in F
    BY DEF TypeOK
  <1>2. /\ Range(queue') = Range(queue) \cup {<<op, t>>}
        /\ Len(queue') = Len(queue) + 1 /\ Len(queue) \in Nat
        /\ \A i \in 1..Len(queue) : queue'[i] = queue[i]
        /\ queue'[Len(queue) + 1] = <<op, t>>
    BY <1>1, AppendRange
  <1>3. ASSUME NEW r \in Timers, NEW i \in 1..Len(queue'), NEW j \in 1..Len(queue'),
               queue'[i] = <<"start", r>>, queue'[j][2] = r
        PROVE  i <= j
    <2>1. CASE i = Len(queue) + 1 /\ j # i
      <3>1. op = "start" /\ r = t
        BY <1>2, <1>3, <2>1
      <3>2. j \in 1..Len(queue) /\ queue[j][2] = t
        BY <1>2, <1>3, <2>1, <3>1
      <3>3. QED
        BY <3>1, <3>2
    <2>2. CASE i # Len(queue) + 1 /\ j # Len(queue) + 1
      <3>1. i \in 1..Len(queue) /\ j \in 1..Len(queue)
        BY <1>2, <2>2
      <3>2. queue[i] = <<"start", r>> /\ queue[j][2] = r
        BY <1>2, <1>3, <3>1
      <3>3. QED
        BY <3>1, <3>2 DEF StartFirst
    <2>3. CASE j = Len(queue) + 1
      BY <1>2, <2>3
    <2>4. QED
      BY <2>1, <2>2, <2>3
  <1>4. \A r \in Timers : r # t /\ (\A i \in 1..Len(queue) : queue[i][2] # r) =>
                         \A i \in 1..Len(queue') : queue'[i][2] # r
    BY <1>2
  <1>5. QED
    BY <1>2, <1>3, <1>4, Zenon DEF StartFirst

\* A functor that is taken out leaves the order of the others, and it was the start of its timer
\* exactly if no start of the timer is left behind it.
LEMMA TakeStartFirst ==
  ASSUME TypeOK, StartFirst, queue # <<>>, queue' = Tail(queue)
  PROVE  /\ StartFirst'
         /\ Head(queue) \in {"start", "cancel"} \X Timers
         /\ Range(queue) = Range(queue') \cup {Head(queue)}
         /\ <<"start", Head(queue)[2]>> \notin Range(queue')
         /\ \A r \in Timers : (\A i \in 1..Len(queue) : queue[i][2] # r) =>
                               /\ \A i \in 1..Len(queue') : queue'[i][2] # r
                               /\ Head(queue)[2] # r
  <1> DEFINE F == {"start", "cancel"} \X Timers
  <1>1. queue \in Seq(F)
    BY DEF TypeOK
  <1>2. /\ Head(queue) \in F /\ Head(queue) = queue[1]
        /\ Range(queue) = Range(queue') \cup {Head(queue)}
        /\ Len(queue) \in Nat \ {0} /\ Len(queue') = Len(queue) - 1
        /\ \A i \in 1..Len(queue') : queue'[i] = queue[i + 1]
        /\ queue' \in Seq(F)
    BY <1>1, TailRange
  <1>3. StartFirst'
    <2> SUFFICES ASSUME NEW r \in Timers, NEW i \in 1..Len(queue'), NEW j \in 1..Len(queue'),
                        queue'[i] = <<"start", r>>, queue'[j][2] = r
                 PROVE  i <= j
      BY DEF StartFirst
    <2>1. i + 1 \in 1..Len(queue) /\ j + 1 \in 1..Len(queue)
      BY <1>2
    <2>2. queue[i + 1] = <<"start", r>> /\ queue[j + 1][2] = r
      BY <1>2
    <2>3. i + 1 <= j + 1
      BY <2>1, <2>2 DEF StartFirst
    <2>4. QED
      BY <1>2, <2>3
  <1>4. <<"start", Head(queue)[2]>> \notin Range(queue')
    <2> SUFFICES ASSUME NEW i \in 1..Len(queue'), queue'[i] = <<"start", Head(queue)[2]>>
                 PROVE  FALSE
      <3>1. DOMAIN queue' = 1..Len(queue')
        BY <1>2
      <3>2. QED
        BY <3>1 DEF Range
    <2>1. i + 1 \in 1..Len(queue) /\ queue[i + 1] = <<"start", Head(queue)[2]>> /\ 1 \in 1..Len(queue)
      BY <1>2
    <2>2. Head(queue)[2] \in Timers /\ queue[1][2] = Head(queue)[2]
      BY <1>2
    <2>3. i + 1 <= 1
      BY <2>1, <2>2 DEF StartFirst
    <2>4. QED
      BY <1>2, <2>3
  <1>5. ASSUME NEW r \in Timers, \A i \in 1..Len(queue) : queue[i][2] # r
        PROVE  (\A i \in 1..Len(queue') : queue'[i][2] # r) /\ Head(queue)[2] # r
    BY <1>2, <1>5
  <1>6. QED
    BY <1>2, <1>3, <1>4, <1>5
\* A step keeps the order of the functors, the life of a timer and the handler's state.
LEMMA StepTimerInv == TimerInv /\ [Next]_vars => TimerInv'
  <1> SUFFICES ASSUME TimerInv, [Next]_vars PROVE TimerInv'
    OBVIOUS
  <1> DEFINE Single == \A t, r \in handling : t = r
             Goal == StartFirst /\ Single /\ \A t \in Timers : NotMade(t) /\ Lifetime(t)
  <1>0. TypeOK /\ StartFirst /\ Single /\ \A r \in Timers : NotMade(r) /\ Lifetime(r)
    BY DEF TimerInv
  <1>1. ASSUME NEW th \in Threads, NEW t \in Timers, NEW p \in BOOLEAN, NEW w \in BOOLEAN,
             RunTimer(th, t, p, w)
      PROVE  Goal'
    <2>1. ~made[t] /\ NotMade(t) /\ UNCHANGED <<handling, canceled>>
      BY <1>0, <1>1 DEF RunTimer, Create
    <2>2. CASE Inline(th)
      <3>1. UNCHANGED queue /\ timer' = [timer EXCEPT ![t] = "armed"]
        BY <1>1, <2>2 DEF RunTimer, Arm
      <3>2. StartFirst' /\ Single'
        BY <1>0, <2>1, <3>1 DEF StartFirst
      <3>3. ASSUME NEW r \in Timers PROVE NotMade(r)' /\ Lifetime(r)'
        BY <1>0, <1>1, <2>1, <3>1 DEF RunTimer, Create, TypeOK, NotMade, Lifetime, Queued, Range
      <3>4. QED
        BY <3>2, <3>3
    <2>3. CASE ~Inline(th)
      <3>1. queue' = Append(queue, <<"start", t>>) /\ UNCHANGED timer
        BY <1>1, <2>3, SMTT(20) DEF RunTimer
      <3>2. /\ StartFirst' /\ Range(queue') = Range(queue) \cup {<<"start", t>>}
            /\ \A r \in Timers : r # t /\ (\A i \in 1..Len(queue) : queue[i][2] # r) =>
                                  \A i \in 1..Len(queue') : queue'[i][2] # r
        BY <1>0, <2>1, <3>1, AppendStartFirst, SMTT(20) DEF NotMade
      <3>3. ASSUME NEW r \in Timers PROVE NotMade(r)'
        BY <1>0, <1>1, <2>1, <3>1, <3>2 DEF RunTimer, Create, TypeOK, NotMade
      <3>4. \A r \in Timers : Queued("start", r)' <=> Queued("start", r) \/ r = t
        BY <3>2 DEF Queued
      <3>5. ASSUME NEW r \in Timers PROVE Lifetime(r)'
        BY <1>0, <1>1, <2>1, <3>1, <3>4 DEF RunTimer, Create, TypeOK, NotMade, Lifetime
      <3>6. QED
        BY <1>0, <2>1, <3>2, <3>3, <3>5
    <2>4. QED
      BY <2>2, <2>3
  <1>2. ASSUME NEW th \in Threads, NEW t \in Timers, Cancel(th, t) PROVE Goal'
    <2>1. UNCHANGED <<made, handling>> /\ made[t]
      BY <1>2 DEF Cancel
    <2>2. CASE Inline(th)
      <3>1. UNCHANGED queue /\ CancelFunctor(t)
        BY <1>2, <2>2 DEF Cancel
      <3>2. StartFirst' /\ Single'
        BY <1>0, <2>1, <3>1 DEF StartFirst
      <3>3. ASSUME NEW r \in Timers PROVE NotMade(r)' /\ Lifetime(r)'
        BY <1>0, <2>1, <3>1, SMTT(20) DEF CancelFunctor, TypeOK, NotMade, Lifetime, Queued, Range
      <3>4. QED
        BY <3>2, <3>3
    <2>3. CASE ~Inline(th)
      <3>1. queue' = Append(queue, <<"cancel", t>>) /\ UNCHANGED <<periodic, timer, self, canceled>>
        BY <1>2, <2>3 DEF Cancel
      <3>2. /\ StartFirst' /\ Range(queue') = Range(queue) \cup {<<"cancel", t>>}
            /\ \A r \in Timers : r # t /\ (\A i \in 1..Len(queue) : queue[i][2] # r) =>
                                  \A i \in 1..Len(queue') : queue'[i][2] # r
        BY <1>0, <3>1, AppendStartFirst, Zenon
      <3>3. ASSUME NEW r \in Timers PROVE NotMade(r)'
        BY <1>0, <2>1, <3>1, <3>2 DEF NotMade
      <3>4. ASSUME NEW r \in Timers PROVE Lifetime(r)'
        BY <1>0, <2>1, <3>1, <3>2, SMTT(20) DEF Lifetime, Queued
      <3>5. QED
        BY <1>0, <2>1, <3>2, <3>3, <3>4
    <2>4. QED
      BY <2>2, <2>3
  <1>3. ASSUME NEW t \in Timers, Release(t) PROVE Goal'
    BY <1>0, <1>3 DEF Release, StartFirst, NotMade, Lifetime, Queued
  <1>4. ASSUME NEW t \in Timers, OnTimerTriggered(t) PROVE Goal'
    <2>1. StartFirst' /\ Single'
      BY <1>0, <1>4 DEF OnTimerTriggered, StartFirst
    <2>2. ASSUME NEW r \in Timers PROVE NotMade(r)' /\ Lifetime(r)'
      BY <1>0, <1>4 DEF OnTimerTriggered, Expires, TypeOK, NotMade, Lifetime, Queued
    <2>3. QED
      BY <2>1, <2>2
  <1>5. ASSUME LoopRuns PROVE Goal'
    BY <1>0, <1>5 DEF LoopRuns, StartFirst, NotMade, Lifetime, Queued
  <1>6. ASSUME RunStart PROVE Goal'
    <2>1. /\ StartFirst' /\ Head(queue) \in {"start", "cancel"} \X Timers
          /\ Range(queue) = Range(queue') \cup {Head(queue)}
          /\ <<"start", Head(queue)[2]>> \notin Range(queue')
          /\ \A r \in Timers : (\A i \in 1..Len(queue) : queue[i][2] # r) =>
                                /\ \A i \in 1..Len(queue') : queue'[i][2] # r
                                /\ Head(queue)[2] # r
      BY <1>0, <1>6, TakeStartFirst DEF RunStart
    <2>2. PICK t \in Timers : Head(queue) = <<"start", t>>
      BY <1>6, <2>1 DEF RunStart
    <2>3. /\ handling = {} /\ UNCHANGED <<made, periodic, self, handling, canceled>>
          /\ timer' = [timer EXCEPT ![t] = "armed"]
      <3>1. Head(queue)[2] = t
        BY <2>2
      <3>2. QED
        BY <1>6, <3>1, Zenon DEF RunStart, Arm
    <2>4. /\ Queued("start", t)
          /\ \A r \in Timers : Queued("start", r)' <=> Queued("start", r) /\ r # t
      BY <2>1, <2>2 DEF Queued
    <2>5. made[t]
      BY <1>0, <2>1, <2>2 DEF NotMade
    <2>6. ASSUME NEW r \in Timers PROVE NotMade(r)'
      BY <1>0, <2>1, <2>3, <2>5, Zenon DEF TypeOK, NotMade
    <2>7. ASSUME NEW r \in Timers PROVE Lifetime(r)'
      BY <1>0, <2>3, <2>4 DEF TypeOK, Lifetime
    <2>8. QED
      BY <2>1, <2>3, <2>6, <2>7
  <1>7. ASSUME RunCancel PROVE Goal'
    <2>1. /\ StartFirst' /\ Head(queue) \in {"start", "cancel"} \X Timers
          /\ Range(queue) = Range(queue') \cup {Head(queue)}
          /\ \A r \in Timers : (\A i \in 1..Len(queue) : queue[i][2] # r) =>
                                /\ \A i \in 1..Len(queue') : queue'[i][2] # r
                                /\ Head(queue)[2] # r
      BY <1>0, <1>7, TakeStartFirst DEF RunCancel
    <2>2. PICK t \in Timers : Head(queue) = <<"cancel", t>>
      BY <1>7, <2>1 DEF RunCancel
    <2>3. /\ handling = {} /\ UNCHANGED <<made, handling>>
          /\ CancelFunctor(t) \/ UNCHANGED <<periodic, timer, self, canceled>>
      BY <1>7, <2>2 DEF RunCancel
    <2>4. \A r \in Timers : Queued("start", r)' <=> Queued("start", r)
      BY <2>1, <2>2 DEF Queued
    <2>5. made[t]
      BY <1>0, <2>1, <2>2 DEF NotMade
    <2>6. ASSUME NEW r \in Timers PROVE NotMade(r)'
      <3>1. r # t => UNCHANGED <<self[r], canceled[r], timer[r]>>
        BY <1>0, <2>3 DEF CancelFunctor, TypeOK
      <3>2. QED
        BY <1>0, <2>1, <2>3, <2>5, <3>1 DEF NotMade
    <2>7. ASSUME NEW r \in Timers PROVE Lifetime(r)'
      BY <1>0, <2>3, <2>4, ZenonT(30) DEF CancelFunctor, TypeOK, Lifetime
    <2>8. QED
      BY <2>1, <2>3, <2>6, <2>7
  <1>8. ASSUME NEW t \in Timers, FunctorReturns(t) PROVE Goal'
    <2>1. StartFirst' /\ Single'
      BY <1>0, <1>8 DEF FunctorReturns, StartFirst
    <2>2. /\ UNCHANGED <<made, periodic, queue, canceled>>
          /\ t \in handling /\ handling' = {}
      BY <1>8 DEF FunctorReturns
    <2>3. periodic[t] => timer[t] = "fired"
      BY <1>0, <2>2, Zenon DEF Lifetime
    <2>4. \/ /\ periodic[t] /\ timer' = [timer EXCEPT ![t] = "armed"] /\ self' = self
          \/ /\ ~periodic[t] /\ timer' = [timer EXCEPT ![t] = "null"] /\ self' = [self EXCEPT ![t] = FALSE]
      BY <1>8, Zenon DEF FunctorReturns, Arm
    <2>5. ASSUME NEW r \in Timers PROVE NotMade(r)' /\ Lifetime(r)'
      <3>1. Queued("start", r)' <=> Queued("start", r)
        BY <2>2, Zenon DEF Queued
      <3>2. CASE r = t
        <4>1. made[t] /\ ~Queued("start", t)
          BY <1>0, <2>2, Zenon DEF NotMade, Lifetime
        <4>2. \/ periodic[t] /\ timer'[t] = "armed" /\ self'[t] = self[t] /\ timer[t] # "null"
              \/ timer'[t] = "null" /\ ~self'[t]
          BY <1>0, <2>2, <2>3, <2>4, Zenon DEF TypeOK
        <4>3. self[t] \/ timer'[t] = "null"
          BY <1>0, <4>2, Zenon DEF Lifetime
        <4>4. QED
          BY <2>2, <3>1, <3>2, <4>1, <4>2, <4>3 DEF NotMade, Lifetime
      <3>3. CASE r # t
        <4>1. timer'[r] = timer[r] /\ self'[r] = self[r]
          BY <1>0, <2>4, <3>3, Zenon DEF TypeOK
        <4>2. r \notin handling
          BY <1>0, <2>2, <3>3, Zenon
        <4>3. NotMade(r) /\ Lifetime(r)
          BY <1>0, Zenon
        <4>4. QED
          BY <2>2, <3>1, <4>1, <4>2, <4>3 DEF NotMade, Lifetime
      <3>4. QED
        BY <3>2, <3>3, Zenon
    <2>6. QED
      BY <2>1, <2>5, Zenon
  <1>9. ASSUME UNCHANGED vars PROVE Goal'
    BY <1>0, <1>9 DEF vars, StartFirst, NotMade, Lifetime, Queued
  <1>10. Goal'
    BY <1>1, <1>2, <1>3, <1>4, <1>5, <1>6, <1>7, <1>8, <1>9 DEF Next, LoopContinues
  <1>11. QED
    BY <1>0, <1>10, StepTypeOK DEF TimerInv
\* The invariant holds in every reachable state.
LEMMA TimerInvariant == Spec => []TimerInv
  <1>1. Init => TimerInv
    <2> SUFFICES ASSUME Init PROVE TimerInv
      OBVIOUS
    <2>1. TypeOK
      <3>1. /\ made \in [Timers -> BOOLEAN] /\ every \in [Timers -> BOOLEAN] /\ positive \in [Timers -> BOOLEAN]
            /\ periodic \in [Timers -> BOOLEAN] /\ self \in [Timers -> BOOLEAN]
            /\ held \in [Timers -> BOOLEAN] /\ canceled \in [Timers -> BOOLEAN] /\ running \in BOOLEAN
        BY Zenon DEF Init
      <3>2. QED
        BY <3>1, TimerAssumption DEF Init, TypeOK
    <2>2. Len(queue) = 0 /\ Range(queue) = {}
      BY SMTT(20) DEF Init, Range
    <2>3. QED
      BY <2>1, <2>2 DEF Init, TimerInv, StartFirst, NotMade, Lifetime, Queued
  <1>2. QED
    BY <1>1, StepTimerInv, PTL DEF Spec

\* A step keeps a cancelled timer silent, if the loop thread does not cancel before the start
\* that another thread has queued.
LEMMA StepCanceled ==
  ASSUME ~EarlyCancel
  PROVE  TimerInv /\ CanceledInv /\ [Next]_vars => CanceledInv'
  <1> SUFFICES ASSUME TimerInv, CanceledInv, [Next]_vars, NEW r \in Timers, canceled'[r]
               PROVE  timer'[r] = "null" /\ ~Queued("start", r)'
    BY DEF CanceledInv
  <1> DEFINE Goal == timer'[r] = "null" /\ ~Queued("start", r)'
  <1>0. TypeOK /\ NotMade(r) /\ Lifetime(r) /\ (canceled[r] => timer[r] = "null" /\ ~Queued("start", r))
    BY DEF TimerInv, CanceledInv
  <1>1. ASSUME NEW th \in Threads, NEW t \in Timers, NEW p \in BOOLEAN, NEW w \in BOOLEAN,
             RunTimer(th, t, p, w)
      PROVE  Goal
    <2>1. canceled[r] /\ made[r] /\ r # t
      BY <1>0, <1>1 DEF RunTimer, Create, NotMade
    <2>2. timer'[r] = timer[r]
      BY <1>0, <1>1, <2>1 DEF RunTimer, Arm, TypeOK
    <2>3. Queued("start", r)' => Queued("start", r)
      <3>1. queue \in Seq({"start", "cancel"} \X Timers) /\ <<"start", t>> \in {"start", "cancel"} \X Timers
        BY <1>0 DEF TypeOK
      <3>2. Range(Append(queue, <<"start", t>>)) = Range(queue) \cup {<<"start", t>>}
        BY <3>1, AppendRange
      <3>3. queue' = queue \/ queue' = Append(queue, <<"start", t>>)
        BY <1>1 DEF RunTimer
      <3>4. <<"start", r>> # <<"start", t>>
        BY <2>1
      <3>5. QED
        BY <3>2, <3>3, <3>4, Zenon DEF Queued
    <2>4. QED
      BY <1>0, <2>1, <2>2, <2>3
  <1>2. ASSUME NEW th \in Threads, NEW t \in Timers, Cancel(th, t) PROVE Goal
    <2>1. CASE Inline(th)
      <3>1. UNCHANGED queue /\ CancelFunctor(t) /\ ~Queued("start", t)
        BY <1>2, <2>1 DEF Cancel
      <3>2. CASE r = t
        BY <1>0, <3>1, <3>2 DEF CancelFunctor, TypeOK, Queued
      <3>3. CASE r # t
        BY <1>0, <3>1, <3>3 DEF CancelFunctor, TypeOK, Queued
      <3>4. QED
        BY <3>2, <3>3
    <2>2. CASE ~Inline(th)
      <3>1. queue' = Append(queue, <<"cancel", t>>) /\ UNCHANGED <<timer, canceled>>
        BY <1>2, <2>2 DEF Cancel
      <3>2. queue \in Seq({"start", "cancel"} \X Timers) /\ <<"cancel", t>> \in {"start", "cancel"} \X Timers
        BY <1>0 DEF TypeOK
      <3>3. Range(queue') = Range(queue) \cup {<<"cancel", t>>}
        BY <3>1, <3>2, AppendRange
      <3>4. QED
        BY <1>0, <3>1, <3>3 DEF Queued
    <2>3. QED
      BY <2>1, <2>2
  <1>3. ASSUME NEW t \in Timers, Release(t) PROVE Goal
    BY <1>0, <1>3 DEF Release, Queued
  <1>4. ASSUME NEW t \in Timers, OnTimerTriggered(t) PROVE Goal
    BY <1>0, <1>4, SMTT(20) DEF OnTimerTriggered, Expires, TypeOK, Queued
  <1>5. ASSUME LoopRuns PROVE Goal
    BY <1>0, <1>5 DEF LoopRuns, Queued
  <1>6. ASSUME RunStart PROVE Goal
    <2>1. StartFirst /\ canceled[r] /\ timer[r] = "null" /\ ~Queued("start", r)
      BY <1>0, <1>6 DEF RunStart, TimerInv
    <2>2. /\ Range(queue) = Range(queue') \cup {Head(queue)}
          /\ Head(queue) \in {"start", "cancel"} \X Timers
      BY <1>0, <1>6, <2>1, TakeStartFirst DEF RunStart
    <2>3. PICK t \in Timers : Head(queue) = <<"start", t>>
      BY <1>6, <2>2 DEF RunStart
    <2>4. r # t
      BY <2>1, <2>2, <2>3 DEF Queued
    <2>5. timer' = [timer EXCEPT ![t] = "armed"]
      <3>1. Head(queue)[2] = t
        BY <2>3
      <3>2. QED
        BY <1>6, <3>1, Zenon DEF RunStart, Arm
    <2>6. QED
      BY <1>0, <2>1, <2>2, <2>4, <2>5, SMTT(20) DEF Queued, TypeOK
  <1>7. ASSUME RunCancel PROVE Goal
    <2>1. StartFirst
      BY DEF TimerInv
    <2>2. /\ Range(queue) = Range(queue') \cup {Head(queue)}
          /\ Head(queue) \in {"start", "cancel"} \X Timers
          /\ <<"start", Head(queue)[2]>> \notin Range(queue')
      BY <1>0, <1>7, <2>1, TakeStartFirst DEF RunCancel
    <2>3. PICK t \in Timers : Head(queue) = <<"cancel", t>>
      BY <1>7, <2>2 DEF RunCancel
    <2>4. CancelFunctor(t) \/ UNCHANGED <<timer, canceled>>
      BY <1>7, <2>3 DEF RunCancel
    <2>5. ~Queued("start", t)' /\ (Queued("start", r)' => Queued("start", r))
      BY <2>2, <2>3 DEF Queued
    <2>6. CASE r = t
      BY <1>0, <2>4, <2>5, <2>6 DEF CancelFunctor, TypeOK
    <2>7. CASE r # t
      BY <1>0, <2>4, <2>5, <2>7 DEF CancelFunctor, TypeOK
    <2>8. QED
      BY <2>6, <2>7
  <1>8. ASSUME NEW t \in Timers, FunctorReturns(t) PROVE Goal
    BY <1>0, <1>8, SMTT(20) DEF FunctorReturns, Arm, TypeOK, Lifetime, Queued
  <1>9. ASSUME UNCHANGED vars PROVE Goal
    BY <1>0, <1>9, Zenon DEF vars, Queued
  <1>10. QED
    BY <1>1, <1>2, <1>3, <1>4, <1>5, <1>6, <1>7, <1>8, <1>9 DEF Next, LoopContinues

\* Once the functor of a Cancel() has run, in the loop or in the timer's own functor, functor_ is
\* not called again, for any number of timers, threads and expirations: whichever thread cancels,
\* the queue has brought the start first.
THEOREM CanceledIsSilent == ASSUME ~EarlyCancel PROVE Spec => NoFireAfterCancel
  <1>1. Init => CanceledInv
    BY DEF Init, CanceledInv
  <1>2. TimerInv /\ CanceledInv /\ [Next]_vars =>
          [\A t \in Timers : canceled[t] => fired'[t] = fired[t]]_vars
    <2> SUFFICES ASSUME TimerInv, CanceledInv, Next, NEW r \in Timers, canceled[r]
                 PROVE  fired'[r] = fired[r]
      BY SMTT(20)
    <2>1. TypeOK /\ timer[r] = "null"
      BY DEF TimerInv, CanceledInv
    <2>2. ASSUME NEW t \in Timers, OnTimerTriggered(t) PROVE fired'[r] = fired[r]
      BY <2>1, <2>2, SMTT(20) DEF OnTimerTriggered, Expires, TypeOK
    <2>3. (\A t \in Timers : ~OnTimerTriggered(t)) => UNCHANGED fired
      BY DEF Next, LoopContinues, RunTimer, Cancel, Release, LoopRuns, RunStart, RunCancel,
             FunctorReturns
    <2>4. QED
      BY <2>2, <2>3
  <1>3. QED
    BY <1>1, <1>2, StepCanceled, TimerInvariant, PTL DEF Spec, NoFireAfterCancel

\* An InvokeTimer holds itself exactly while its start is queued or its watcher is there, and a
\* handler that finds periodic_ set finds timer_: no event outlives its timer and no timer its use.
THEOREM TimerLivesWhileUseful == Spec => [](SelfWhileUseful /\ PeriodicHasTimer)
  <1>1. TimerInv => SelfWhileUseful /\ PeriodicHasTimer
    BY DEF TimerInv, Lifetime, SelfWhileUseful, PeriodicHasTimer
  <1>2. QED
    BY <1>1, TimerInvariant, PTL

-----------------------------------------------------------------------------
(* UdpServer: used as the code allows for, asserts hold and pauses are quiet.*)

\* What the variables hold.
UdpTypeOK ==
  /\ status \in [RecvThreads -> {"kStopped", "kRunning", "kPaused", "kStopping"}]
  /\ pc \in [RecvThreads -> {"none", "begin", "look", "look again", "recv", "deliver", "leave", "gone"}]
  /\ since \in [RecvThreads -> {0, 1, 2}]
  /\ open \subseteq RecvThreads
  /\ user \in {"initialized", "not started", "starting", "running", "paused", "stopping", "stopped",
               "destroying", "destroyed"}
  /\ tpool \in {"none", "running", "stopped"}

\* A thread receives while its server runs; a paused one finishes the message it is at and then
\* sleeps before the first look; one that is told to stop finishes it, looks, and leaves.
Idle(t) == pc[t] = "none" /\ status[t] = "kStopped" /\ since[t] = 0
Serving(t) == pc[t] \in {"look", "look again", "recv", "deliver"} /\ status[t] = "kRunning"
Sleeping(t) ==
  /\ status[t] = "kPaused"
  /\ pc[t] \in {"look", "recv", "deliver"}
  /\ since[t] = 0 \/ (since[t] = 1 /\ pc[t] = "look")
Leaving(t) ==
  /\ status[t] = "kStopping"
  /\ pc[t] \in {"look", "look again", "recv", "deliver", "leave"}
  /\ since[t] = 0 \/ (since[t] = 1 /\ pc[t] \in {"look", "look again", "leave"})
Gone(t) == status[t] = "kStopped" /\ pc[t] = "gone" /\ since[t] \in {0, 1}

\* Where a thread is, by where the user's thread is.
ThreadInv(t) ==
  /\ user \in {"initialized", "not started"} => Idle(t)
  /\ user = "starting" => Serving(t) \/ (pc[t] = "begin" /\ status[t] = "kStopped")
  /\ user = "running" => Serving(t)
  /\ user = "paused" => Sleeping(t)
  /\ user = "stopping" => Leaving(t) \/ Gone(t)
  /\ user = "stopped" => Gone(t)
  /\ user \in {"destroying", "destroyed"} => Idle(t) \/ Gone(t)
  /\ user \notin {"destroying", "destroyed"} => t \in open
  /\ tpool = "stopped" => pc[t] = "gone"

\* The inductive invariant.
UsedInv == WellUsed => ok /\ \A t \in RecvThreads : ThreadInv(t)

\* What Deliver does to the count of messages.
LEMMA DeliverCounts ==
  ASSUME UdpTypeOK, NEW t \in RecvThreads, Deliver(t)
  PROVE  /\ since' \in [RecvThreads -> {0, 1, 2}]
         /\ since[t] = 0 => since'[t] = 1
         /\ \A r \in RecvThreads : r # t => since'[r] = since[r]
  <1>1. since \in [RecvThreads -> {0, 1, 2}]
    BY Zenon DEF UdpTypeOK
  <1>2. since' = [since EXCEPT ![t] = IF since[t] < 2 THEN since[t] + 1 ELSE since[t]]
    BY DEF Deliver
  <1>3. since[t] = 0 \/ since[t] = 1 \/ since[t] = 2
    BY <1>1
  <1>4. since'[t] \in {0, 1, 2} /\ (since[t] = 0 => since'[t] = 1)
    BY <1>1, <1>2, <1>3
  <1>5. QED
    BY <1>1, <1>2, <1>4

\* A step keeps the types.
LEMMA StepUdpTypeOK == UdpTypeOK /\ [UdpNext]_udpVars => UdpTypeOK'
  <1> SUFFICES ASSUME UdpTypeOK, [UdpNext]_udpVars PROVE UdpTypeOK'
    OBVIOUS
  <1>1. ASSUME Start PROVE UdpTypeOK'
    BY <1>1, Zenon DEF Start, UdpTypeOK
  <1>2. ASSUME StartFails PROVE UdpTypeOK'
    BY <1>2, Zenon DEF StartFails, UdpTypeOK
  <1>3. ASSUME StartReturns PROVE UdpTypeOK'
    BY <1>3, Zenon DEF StartReturns, UdpTypeOK
  <1>4. ASSUME Pause PROVE UdpTypeOK'
    BY <1>4, Zenon DEF Pause, UdpTypeOK
  <1>5. ASSUME Continue PROVE UdpTypeOK'
    BY <1>5, Zenon DEF Continue, UdpTypeOK
  <1>6. ASSUME StopReturns PROVE UdpTypeOK'
    BY <1>6, Zenon DEF StopReturns, UdpTypeOK
  <1>7. ASSUME Destroy PROVE UdpTypeOK'
    BY <1>7, Zenon DEF Destroy, UdpTypeOK
  <1>8. ASSUME Joined PROVE UdpTypeOK'
    BY <1>8, Zenon DEF Joined, UdpTypeOK
  <1>9. ASSUME StopPool PROVE UdpTypeOK'
    BY <1>9, Zenon DEF StopPool, UdpTypeOK
  <1>10. ASSUME PoolHandles PROVE UdpTypeOK'
    BY <1>10, Zenon DEF PoolHandles, UdpTypeOK
  <1>11. ASSUME NEW wait \in BOOLEAN, Stop(wait) PROVE UdpTypeOK'
    BY <1>11, Zenon DEF Stop, UdpTypeOK
  <1>12. ASSUME NEW t \in RecvThreads, CloseSocket(t) PROVE UdpTypeOK'
    BY <1>12, Zenon DEF CloseSocket, UdpTypeOK
  <1>13. ASSUME NEW t \in RecvThreads, Begin(t) PROVE UdpTypeOK'
    BY <1>13, Zenon DEF Begin, UdpTypeOK
  <1>14. ASSUME NEW t \in RecvThreads, Look(t) PROVE UdpTypeOK'
    BY <1>14, Zenon DEF Look, UdpTypeOK
  <1>15. ASSUME NEW t \in RecvThreads, LookAgain(t) PROVE UdpTypeOK'
    BY <1>15, Zenon DEF LookAgain, UdpTypeOK
  <1>16. ASSUME NEW t \in RecvThreads, RecvFails(t) PROVE UdpTypeOK'
    BY <1>16, Zenon DEF RecvFails, UdpTypeOK
  <1>17. ASSUME NEW t \in RecvThreads, Recv(t) PROVE UdpTypeOK'
    BY <1>17, Zenon DEF Recv, UdpTypeOK
  <1>18. ASSUME NEW t \in RecvThreads, Deliver(t) PROVE UdpTypeOK'
    <2>1. since' \in [RecvThreads -> {0, 1, 2}]
      BY <1>18, DeliverCounts
    <2>2. QED
      BY <1>18, <2>1, Zenon DEF Deliver, UdpTypeOK
  <1>19. ASSUME NEW t \in RecvThreads, Leave(t) PROVE UdpTypeOK'
    BY <1>19, Zenon DEF Leave, UdpTypeOK
  <1>20. ASSUME UNCHANGED udpVars PROVE UdpTypeOK'
    BY <1>20, Zenon DEF udpVars, UdpTypeOK
  <1>21. QED
    BY <1>1, <1>2, <1>3, <1>4, <1>5, <1>6, <1>7, <1>8, <1>9, <1>10, <1>11, <1>12, <1>13,
       <1>14, <1>15, <1>16, <1>17, <1>18, <1>19, <1>20 DEF UdpNext, Receiving

\* A step keeps every thread where UsedInv says it is, and the asserts: what the user has done
\* well after the step was done well before it.
LEMMA StepUsedInv == UdpTypeOK /\ UsedInv /\ [UdpNext]_udpVars => UsedInv'
  <1> DEFINE Used == ok /\ \A t \in RecvThreads : ThreadInv(t)
  <1> SUFFICES ASSUME UdpTypeOK, UsedInv, [UdpNext]_udpVars, WellUsed' PROVE Used'
    BY DEF UsedInv
  <1> HIDE DEF Used
  <1>1. ASSUME Start PROVE Used'
    <2>1. WellUsed
      BY <1>1 DEF Start, WellUsed
    <2>2. ok /\ \A r \in RecvThreads : ThreadInv(r)
      BY <2>1 DEF UsedInv
    <2>3. ASSUME NEW r \in RecvThreads PROVE ThreadInv(r)'
      BY <1>1, <2>2, Zenon DEF Start, UdpTypeOK, ThreadInv, Idle, Serving, Sleeping, Leaving, Gone,
         WellUsed
    <2>4. ok'
      BY <1>1, <2>2, Zenon DEF Start, Holds, ThreadInv, Idle, Serving, Sleeping, Leaving, Gone,
         WellUsed
    <2>5. QED
      BY <2>3, <2>4 DEF Used
  <1>2. ASSUME StartFails PROVE Used'
    <2>1. WellUsed
      BY <1>2, Zenon DEF StartFails, WellUsed
    <2>2. ok /\ \A r \in RecvThreads : ThreadInv(r)
      BY <2>1 DEF UsedInv
    <2>3. ASSUME NEW r \in RecvThreads PROVE ThreadInv(r)'
      BY <1>2, <2>2, Zenon DEF StartFails, UdpTypeOK, ThreadInv, Idle, Serving, Sleeping, Leaving,
         Gone, WellUsed
    <2>4. ok'
      BY <1>2, <2>2, Zenon DEF StartFails, ThreadInv, Idle, Serving, Sleeping, Leaving, Gone,
         WellUsed
    <2>5. QED
      BY <2>3, <2>4 DEF Used
  <1>3. ASSUME StartReturns PROVE Used'
    <2>1. WellUsed
      BY <1>3 DEF StartReturns, WellUsed
    <2>2. ok /\ \A r \in RecvThreads : ThreadInv(r)
      BY <2>1 DEF UsedInv
    <2>3. ASSUME NEW r \in RecvThreads PROVE ThreadInv(r)'
      BY <1>3, <2>2, Zenon DEF StartReturns, UdpTypeOK, ThreadInv, Idle, Serving, Sleeping, Leaving,
         Gone, WellUsed, IsRunning
    <2>4. ok'
      BY <1>3, <2>2, Zenon DEF StartReturns, ThreadInv, Idle, Serving, Sleeping, Leaving, Gone,
         WellUsed, IsRunning
    <2>5. QED
      BY <2>3, <2>4 DEF Used
  <1>4. ASSUME Pause PROVE Used'
    <2>1. WellUsed
      BY <1>4, Zenon DEF Pause, WellUsed
    <2>2. ok /\ \A r \in RecvThreads : ThreadInv(r)
      BY <2>1 DEF UsedInv
    <2>3. ASSUME NEW r \in RecvThreads PROVE ThreadInv(r)'
      BY <1>4, <2>2, Zenon DEF Pause, UdpTypeOK, ThreadInv, Idle, Serving, Sleeping, Leaving, Gone,
         WellUsed, IsRunning
    <2>4. ok'
      BY <1>4, <2>2, Zenon DEF Pause, Holds, ThreadInv, Idle, Serving, Sleeping, Leaving, Gone,
         WellUsed, IsRunning
    <2>5. QED
      BY <2>3, <2>4 DEF Used
  <1>5. ASSUME Continue PROVE Used'
    <2>1. WellUsed
      BY <1>5 DEF Continue, WellUsed
    <2>2. ok /\ \A r \in RecvThreads : ThreadInv(r)
      BY <2>1 DEF UsedInv
    <2>3. ASSUME NEW r \in RecvThreads PROVE ThreadInv(r)'
      BY <1>5, <2>2, Zenon DEF Continue, UdpTypeOK, ThreadInv, Idle, Serving, Sleeping, Leaving,
         Gone, WellUsed
    <2>4. ok'
      BY <1>5, <2>2, Zenon DEF Continue, Holds, ThreadInv, Idle, Serving, Sleeping, Leaving,
         Gone, WellUsed
    <2>5. QED
      BY <2>3, <2>4 DEF Used
  <1>6. ASSUME StopReturns PROVE Used'
    <2>1. WellUsed
      BY <1>6 DEF StopReturns, WellUsed
    <2>2. ok /\ \A r \in RecvThreads : ThreadInv(r)
      BY <2>1 DEF UsedInv
    <2>3. ASSUME NEW r \in RecvThreads PROVE ThreadInv(r)'
      BY <1>6, <2>2, Zenon DEF StopReturns, UdpTypeOK, ThreadInv, Idle, Serving, Sleeping, Leaving,
         Gone, WellUsed, IsStopped
    <2>4. ok'
      BY <1>6, <2>2, Zenon DEF StopReturns, ThreadInv, Idle, Serving, Sleeping, Leaving, Gone,
         WellUsed, IsStopped
    <2>5. QED
      BY <2>3, <2>4 DEF Used
  <1>7. ASSUME Destroy PROVE Used'
    <2>1. WellUsed
      BY <1>7, Zenon DEF Destroy, WellUsed
    <2>2. ok /\ \A r \in RecvThreads : ThreadInv(r)
      BY <2>1 DEF UsedInv
    <2>3. ASSUME NEW r \in RecvThreads PROVE ThreadInv(r)'
      BY <1>7, <2>2, Zenon DEF Destroy, UdpTypeOK, ThreadInv, Idle, Serving, Sleeping, Leaving,
         Gone, WellUsed
    <2>4. ok'
      BY <1>7, <2>2, Zenon DEF Destroy, ThreadInv, Idle, Serving, Sleeping, Leaving, Gone, WellUsed
    <2>5. QED
      BY <2>3, <2>4 DEF Used
  <1>8. ASSUME Joined PROVE Used'
    <2>1. WellUsed
      BY <1>8 DEF Joined, WellUsed
    <2>2. ok /\ \A r \in RecvThreads : ThreadInv(r)
      BY <2>1 DEF UsedInv
    <2>3. ASSUME NEW r \in RecvThreads PROVE ThreadInv(r)'
      BY <1>8, <2>2, Zenon DEF Joined, UdpTypeOK, ThreadInv, Idle, Serving, Sleeping, Leaving, Gone,
         WellUsed
    <2>4. ok'
      BY <1>8, <2>2 DEF Joined, ThreadInv, Idle, Serving, Sleeping, Leaving, Gone, WellUsed
    <2>5. QED
      BY <2>3, <2>4 DEF Used
  <1>9. ASSUME StopPool PROVE Used'
    <2>1. WellUsed
      BY <1>9, Zenon DEF StopPool, WellUsed
    <2>2. ok /\ \A r \in RecvThreads : ThreadInv(r)
      BY <2>1 DEF UsedInv
    <2>3. ASSUME NEW r \in RecvThreads PROVE ThreadInv(r)'
      BY <1>9, <2>2, Zenon DEF StopPool, UdpTypeOK, ThreadInv, Idle, Serving, Sleeping, Leaving,
         Gone, WellUsed
    <2>4. ok'
      BY <1>9, <2>2, Zenon DEF StopPool, ThreadInv, Idle, Serving, Sleeping, Leaving, Gone, WellUsed
    <2>5. QED
      BY <2>3, <2>4 DEF Used
  <1>10. ASSUME PoolHandles PROVE Used'
    <2>1. WellUsed
      BY <1>10 DEF PoolHandles, WellUsed
    <2>2. ok /\ \A r \in RecvThreads : ThreadInv(r)
      BY <2>1 DEF UsedInv
    <2>3. ASSUME NEW r \in RecvThreads PROVE ThreadInv(r)'
      BY <1>10, <2>2, Zenon DEF PoolHandles, UdpTypeOK, ThreadInv, Idle, Serving, Sleeping, Leaving,
         Gone, WellUsed
    <2>4. ok'
      BY <1>10, <2>2, Zenon DEF PoolHandles, ThreadInv, Idle, Serving, Sleeping, Leaving, Gone,
         WellUsed
    <2>5. QED
      BY <2>3, <2>4 DEF Used
  <1>11. ASSUME NEW wait \in BOOLEAN, Stop(wait) PROVE Used'
    <2>1. WellUsed
      BY <1>11, Zenon DEF Stop, WellUsed
    <2>2. ok /\ \A r \in RecvThreads : ThreadInv(r)
      BY <2>1 DEF UsedInv
    <2>3. ASSUME NEW r \in RecvThreads PROVE ThreadInv(r)'
      BY <1>11, <2>2, Zenon DEF Stop, UdpTypeOK, ThreadInv, Idle, Serving, Sleeping, Leaving, Gone,
         WellUsed
    <2>4. ok'
      BY <1>11, <2>2, Zenon DEF Stop, Holds, ThreadInv, Idle, Serving, Sleeping, Leaving, Gone,
         WellUsed
    <2>5. QED
      BY <2>3, <2>4 DEF Used
  <1>12. ASSUME NEW t \in RecvThreads, CloseSocket(t) PROVE Used'
    <2>1. WellUsed
      BY <1>12 DEF CloseSocket, WellUsed
    <2>2. ok /\ \A r \in RecvThreads : ThreadInv(r)
      BY <2>1 DEF UsedInv
    <2>3. ASSUME NEW r \in RecvThreads PROVE ThreadInv(r)'
      BY <1>12, <2>2, Zenon DEF CloseSocket, UdpTypeOK, ThreadInv, Idle, Serving, Sleeping, Leaving,
         Gone, WellUsed
    <2>4. ok'
      BY <1>12, <2>2 DEF CloseSocket, ThreadInv, Idle, Serving, Sleeping, Leaving, Gone, WellUsed
    <2>5. QED
      BY <2>3, <2>4 DEF Used
  <1>13. ASSUME NEW t \in RecvThreads, Begin(t) PROVE Used'
    <2>1. WellUsed
      BY <1>13 DEF Begin, WellUsed
    <2>2. ok /\ \A r \in RecvThreads : ThreadInv(r)
      BY <2>1 DEF UsedInv
    <2>3. ASSUME NEW r \in RecvThreads PROVE ThreadInv(r)'
      BY <1>13, <2>2, Zenon DEF Begin, UdpTypeOK, ThreadInv, Idle, Serving, Sleeping, Leaving, Gone,
         WellUsed
    <2>4. ok'
      BY <1>13, <2>2, Zenon DEF Begin, ThreadInv, Idle, Serving, Sleeping, Leaving, Gone, WellUsed
    <2>5. QED
      BY <2>3, <2>4 DEF Used
  <1>14. ASSUME NEW t \in RecvThreads, Look(t) PROVE Used'
    <2>1. WellUsed
      BY <1>14, Zenon DEF Look, WellUsed
    <2>2. ok /\ \A r \in RecvThreads : ThreadInv(r)
      BY <2>1 DEF UsedInv
    <2>3. ASSUME NEW r \in RecvThreads PROVE ThreadInv(r)'
      BY <1>14, <2>2, Zenon DEF Look, UdpTypeOK, ThreadInv, Idle, Serving, Sleeping, Leaving, Gone,
         WellUsed
    <2>4. ok'
      BY <1>14, <2>2, Zenon DEF Look, ThreadInv, Idle, Serving, Sleeping, Leaving, Gone, WellUsed
    <2>5. QED
      BY <2>3, <2>4 DEF Used
  <1>15. ASSUME NEW t \in RecvThreads, LookAgain(t) PROVE Used'
    <2>1. WellUsed
      BY <1>15, Zenon DEF LookAgain, WellUsed
    <2>2. ok /\ \A r \in RecvThreads : ThreadInv(r)
      BY <2>1 DEF UsedInv
    <2>3. ASSUME NEW r \in RecvThreads PROVE ThreadInv(r)'
      BY <1>15, <2>2, Zenon DEF LookAgain, UdpTypeOK, ThreadInv, Idle, Serving, Sleeping, Leaving,
         Gone, WellUsed
    <2>4. ok'
      BY <1>15, <2>2, Zenon DEF LookAgain, ThreadInv, Idle, Serving, Sleeping, Leaving, Gone,
         WellUsed
    <2>5. QED
      BY <2>3, <2>4 DEF Used
  <1>16. ASSUME NEW t \in RecvThreads, RecvFails(t) PROVE Used'
    <2>1. WellUsed
      BY <1>16 DEF RecvFails, WellUsed
    <2>2. ok /\ \A r \in RecvThreads : ThreadInv(r)
      BY <2>1 DEF UsedInv
    <2>3. ASSUME NEW r \in RecvThreads PROVE ThreadInv(r)'
      BY <1>16, <2>2, Zenon DEF RecvFails, UdpTypeOK, ThreadInv, Idle, Serving, Sleeping, Leaving,
         Gone, WellUsed
    <2>4. ok'
      BY <1>16, <2>2, Zenon DEF RecvFails, Holds, ThreadInv, Idle, Serving, Sleeping, Leaving,
         Gone, WellUsed
    <2>5. QED
      BY <2>3, <2>4 DEF Used
  <1>17. ASSUME NEW t \in RecvThreads, Recv(t) PROVE Used'
    <2>1. WellUsed
      BY <1>17 DEF Recv, WellUsed
    <2>2. ok /\ \A r \in RecvThreads : ThreadInv(r)
      BY <2>1 DEF UsedInv
    <2>3. ASSUME NEW r \in RecvThreads PROVE ThreadInv(r)'
      BY <1>17, <2>2, Zenon DEF Recv, UdpTypeOK, ThreadInv, Idle, Serving, Sleeping, Leaving, Gone,
         WellUsed
    <2>4. ok'
      BY <1>17, <2>2, Zenon DEF Recv, ThreadInv, Idle, Serving, Sleeping, Leaving, Gone, WellUsed
    <2>5. QED
      BY <2>3, <2>4 DEF Used
  <1>18. ASSUME NEW t \in RecvThreads, Deliver(t) PROVE Used'
    <2>1. WellUsed
      BY <1>18 DEF Deliver, WellUsed
    <2>2. ok /\ \A r \in RecvThreads : ThreadInv(r)
      BY <2>1 DEF UsedInv
    <2>3. ASSUME NEW r \in RecvThreads PROVE ThreadInv(r)'
      <3>1. /\ r # t => since'[r] = since[r]
            /\ since[t] = 0 => since'[t] = 1
        BY <1>18, DeliverCounts
      <3>2. /\ pc' = [pc EXCEPT ![t] = "look"] /\ pc[t] = "deliver"
            /\ UNCHANGED <<status, open, user, tpool>>
        BY <1>18 DEF Deliver
      <3>3. QED
        BY <2>2, <3>1, <3>2, Zenon DEF UdpTypeOK, ThreadInv, Idle, Serving, Sleeping, Leaving, Gone
    <2>4. ok'
      BY <1>18, <2>2, Zenon DEF Deliver, Holds, ThreadInv, Idle, Serving, Sleeping, Leaving,
         Gone, WellUsed
    <2>5. QED
      BY <2>3, <2>4 DEF Used
  <1>19. ASSUME NEW t \in RecvThreads, Leave(t) PROVE Used'
    <2>1. WellUsed
      BY <1>19 DEF Leave, WellUsed
    <2>2. ok /\ \A r \in RecvThreads : ThreadInv(r)
      BY <2>1 DEF UsedInv
    <2>3. ASSUME NEW r \in RecvThreads PROVE ThreadInv(r)'
      BY <1>19, <2>2, Zenon DEF Leave, UdpTypeOK, ThreadInv, Idle, Serving, Sleeping, Leaving, Gone,
         WellUsed
    <2>4. ok'
      BY <1>19, <2>2, Zenon DEF Leave, ThreadInv, Idle, Serving, Sleeping, Leaving, Gone, WellUsed
    <2>5. QED
      BY <2>3, <2>4 DEF Used
  <1>20. ASSUME UNCHANGED udpVars PROVE Used'
    BY <1>20, ZenonT(30) DEF udpVars, UsedInv, Used, WellUsed, ThreadInv, Idle, Serving, Sleeping,
       Leaving, Gone
  <1>21. QED
    BY <1>1, <1>2, <1>3, <1>4, <1>5, <1>6, <1>7, <1>8, <1>9, <1>10, <1>11, <1>12, <1>13,
       <1>14, <1>15, <1>16, <1>17, <1>18, <1>19, <1>20 DEF UdpNext, Receiving

\* The inductive invariant holds in every reachable state.
LEMMA UsedInvariant == UdpSpec => [](UdpTypeOK /\ UsedInv)
  <1>1. UdpInit => UdpTypeOK /\ UsedInv
    BY DEF UdpInit, UdpTypeOK, UsedInv, ThreadInv, Idle
  <1>2. UdpTypeOK /\ UsedInv /\ [UdpNext]_udpVars => UdpTypeOK' /\ UsedInv'
    BY StepUdpTypeOK, StepUsedInv
  <1>3. QED
    BY <1>1, <1>2, PTL DEF UdpSpec

\* Used as the code allows for, no assert of Start, Pause, Continue and Stop fails, no thread
\* receives from a closed socket and no message goes to a stopped pool, for any number of ports.
THEOREM AssertsNeverFail == UdpSpec => []AssertsHold
  <1>1. UsedInv => AssertsHold
    BY DEF UsedInv, AssertsHold
  <1>2. QED
    BY <1>1, UsedInvariant, PTL

\* A thread that was paused or told to stop delivers at most the message it was receiving, and is
\* gone when Stop has returned, for any number of ports.
THEOREM PausedStaysQuiet == UdpSpec => []PausedIsQuiet
  <1>1. UdpTypeOK /\ UsedInv => PausedIsQuiet
    <2>1. SUFFICES ASSUME UdpTypeOK, UsedInv, WellUsed, NEW t \in RecvThreads,
                          user \in {"paused", "stopping", "stopped", "destroying", "destroyed"}
                   PROVE  /\ since[t] <= 1
                          /\ user \in {"stopped", "destroying"} => pc[t] \in {"none", "gone"}
      BY DEF PausedIsQuiet
    <2>2. ThreadInv(t)
      BY <2>1 DEF UsedInv
    <2>3. since[t] \in {0, 1}
      BY <2>1, <2>2, Zenon DEF ThreadInv, Idle, Sleeping, Leaving, Gone
    <2>4. user \in {"stopped", "destroying"} => pc[t] \in {"none", "gone"}
      BY <2>2, Zenon DEF ThreadInv, Idle, Gone
    <2>5. QED
      BY <2>3, <2>4
  <1>2. QED
    BY <1>1, UsedInvariant, PTL
=============================================================================
