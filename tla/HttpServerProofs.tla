-------------------------- MODULE HttpServerProofs --------------------------
(***************************************************************************)
(* Proofs about the HTTP server, for any listening threads, workers and    *)
(* requests: the invariant that says, by the place of the user's thread in *)
(* Start and Stop, what loops, queues and requests may be, and that every  *)
(* step keeps it.                                                          *)
(***************************************************************************)
EXTENDS HttpServer, TLAPS

-----------------------------------------------------------------------------
(* The server: where the user's thread is decides what the threads may be. *)

\* Places of the user's thread, and states of a loop.
Starting == {"listen", "register"}
Serving == {"running", "pausing"}
Loops == {"kNull", "kRunning", "kStopping", "exiting", "kStopped"}

\* status_ and tpool_'s status, by the place of the user's thread.
PhaseInv ==
  /\ main = [x \in {"pc", "at"} |-> main[x]]
  /\ main.pc \in {"new", "failed", "initialized", "stopping pool", "stopping listeners", "stopped", "destroyed"}
                  \cup Starting \cup Serving
  /\ main.pc = "register" => main.at \in Listeners
  /\ main.pc \in {"new", "failed"} => status \in {"kNull", "kInitializing"}
  /\ main.pc = "initialized" <=> status = "kInitialized" /\ main.pc # "destroyed"
  /\ main.pc = "running" <=> status = "kRunning"
  /\ main.pc \in Starting \cup Serving => pool = "kRunning"
  /\ main.pc = "stopped" => pool = "reset"
  /\ Started => serverOk

\* The loops' status, by the place of the user's thread.
LoopInv ==
  /\ workers \in SUBSET Workers
  /\ loop \in [Threads -> Loops]
  /\ \A w \in Workers \ workers : loop[w] = "kNull"
  /\ main.pc \in {"new", "failed", "initialized"} => \A t \in Threads : loop[t] = "kNull"
  /\ main.pc \in Starting \cup Serving => \A w \in workers : loop[w] = "kRunning"
  /\ main.pc \in {"stopping listeners", "stopped"} => \A w \in workers : loop[w] = "kStopped"
  /\ main.pc \in Starting => \A l \in Listeners : loop[l] \in {"kNull", "kRunning"}
  /\ main.pc \in Serving \cup {"stopping pool"} => \A l \in Listeners : loop[l] = "kRunning"
  /\ main.pc = "stopping listeners" => \A l \in Listeners : loop[l] # "kNull"
  /\ main.pc = "stopped" => \A l \in Listeners : loop[l] = "kStopped"
  /\ main.pc = "destroyed" => \A t \in Threads : loop[t] \in {"kNull", "kStopped"}

\* A Service has its evhttp from Init until its loop ends.
IsService(s) == s = [x \in {"evhttp", "enabled", "handlers"} |-> s[x]]
ServiceInv ==
  /\ service = [l \in Listeners |-> service[l]] /\ \A l \in Listeners : IsService(service[l])
  /\ main.pc \notin {"new", "failed", "destroyed"} =>
       \A l \in Listeners : service[l].evhttp = (loop[l] # "kStopped")

\* The functors of a loop.
InQueue(s, f) == \E n \in 1..Len(s) : s[n] = f
AtMostOnce(s, f) == \A m, n \in 1..Len(s) : s[m] = f /\ s[n] = f => m = n
ListenerFunctors ==
  {<<"Pause">>, <<"Continue">>, <<"PauseForStop">>, <<"Stop">>} \cup {<<"Reply", i, c>> : i \in Requests, c \in Answers}
WorkerFunctors == {<<"Stop">>} \cup {<<"Handle", i>> : i \in Requests}

\* A loop that does not run, or is about to end, has nothing to do; Stop is queued only in a loop
\* that is stopping.
QueuesTyped ==
  /\ queue = [t \in Threads |-> queue[t]]
  /\ \A l \in Listeners : queue[l] \in Seq(ListenerFunctors)
  /\ \A w \in Workers : queue[w] \in Seq(WorkerFunctors)
QueueInv ==
  /\ QueuesTyped
  /\ \A t \in Threads : loop[t] \in {"kNull", "exiting", "kStopped"} => queue[t] = <<>> /\ busy[t] = {}
  /\ \A t \in Threads : InQueue(queue[t], <<"Stop">>) => loop[t] = "kStopping"

\* While Stop waits, count is the number of listeners that have paused; a listener that has not
\* may still be dispatching.
HasPaused == {l \in Listeners : ~InQueue(queue[l], <<"PauseForStop">>)}
PauseInv ==
  /\ \A l \in Listeners : AtMostOnce(queue[l], <<"PauseForStop">>)
  /\ main.pc # "pausing" => HasPaused = Listeners
  /\ main.pc \in {"new", "failed", "initialized", "running"} \cup Starting => paused = 0
  /\ main.pc = "pausing" => paused = Cardinality(HasPaused)
  /\ \A l \in Listeners : busy[l] # {} => main.pc = "running" \/ (main.pc = "pausing" /\ l \notin HasPaused)

\* Where a request is: which thread is in the middle of it, which Handle and which Reply are queued.
IsReq(r) == r = [x \in {"state", "at", "fresh", "replied", "code"} |-> r[x]]
AtThread(i) ==
  /\ \A l \in Listeners : i \in busy[l] => req[i].state = "dispatching" /\ req[i].at = l
  /\ \A w \in Workers : i \in busy[w] => req[i].state \in {"handling", "replying"}
  /\ \A v, w \in Workers : i \in busy[v] /\ i \in busy[w] => v = w
HandleQueued(i) ==
  /\ \A w \in Workers : InQueue(queue[w], <<"Handle", i>>) => req[i].state = "forwarded"
  /\ \A w \in Workers : AtMostOnce(queue[w], <<"Handle", i>>)
  /\ \A v, w \in Workers : InQueue(queue[v], <<"Handle", i>>) /\ InQueue(queue[w], <<"Handle", i>>) => v = w
ReplyQueued(i) ==
  \A l \in Listeners, c \in Answers :
    InQueue(queue[l], <<"Reply", i, c>>) => req[i].at = l /\ req[i].state \in {"replied", "answered"}
\* A reply that was made is being queued, is queued or was sent.
ReplyMade(i) ==
  /\ req[i].replied => req[i].state \in {"replying", "replied", "answered"}
  /\ req[i].state = "replying" => \E w \in Workers : i \in busy[w]
  /\ req[i].state = "replied" => \E c \in Answers : InQueue(queue[req[i].at], <<"Reply", i, c>>)
RequestInv(i) ==
  /\ IsReq(req[i])
  /\ req[i].state # "none" => req[i].at \in Listeners
  /\ req[i].state \notin {"none", "sent"} => loop[req[i].at] # "kNull"
  /\ AtThread(i) /\ HandleQueued(i) /\ ReplyQueued(i) /\ ReplyMade(i)
ReqsTyped ==
  /\ req = [i \in Requests |-> req[i]] /\ busy \in [Threads -> SUBSET Requests]
  /\ \A t \in Threads : \A i, j \in busy[t] : i = j
ReqInv == ReqsTyped /\ \A i \in Requests : RequestInv(i)

\* The invariant of the server.
ServerInv == PhaseInv /\ LoopInv /\ ServiceInv /\ QueueInv /\ PauseInv /\ ReqInv

-----------------------------------------------------------------------------
(* What the operators on queues do.                                        *)

\* What a queue holds when a functor was appended.
LEMMA AppendQueue ==
  ASSUME NEW S, NEW s \in Seq(S), NEW f \in S
  PROVE  /\ Append(s, f) \in Seq(S)
         /\ \A g : InQueue(Append(s, f), g) <=> InQueue(s, g) \/ g = f
         /\ \A g : AtMostOnce(s, g) /\ (g = f => ~InQueue(s, g)) => AtMostOnce(Append(s, f), g)
<1> DEFINE a == Append(s, f)
           top == Len(s) + 1
<1>1. /\ a \in Seq(S) /\ top \in 1..Len(a) /\ a[top] = f
      /\ \A n \in 1..Len(s) : n \in 1..Len(a) /\ a[n] = s[n]
      /\ \A n \in 1..Len(a) : n = top \/ n \in 1..Len(s)
  BY SMT
<1> HIDE DEF a, top
<1>2. ASSUME NEW g PROVE InQueue(a, g) <=> InQueue(s, g) \/ g = f
  BY <1>1, Zenon DEF InQueue
<1>3. ASSUME NEW g, AtMostOnce(s, g), g = f => ~InQueue(s, g) PROVE AtMostOnce(a, g)
  <2> SUFFICES ASSUME NEW m \in 1..Len(a), NEW n \in 1..Len(a), a[m] = g, a[n] = g PROVE m = n
    BY Zenon DEF AtMostOnce
  <2>1. CASE m \in 1..Len(s) /\ n \in 1..Len(s) BY <1>1, <1>3, <2>1, Zenon DEF AtMostOnce
  <2>2. CASE m = top /\ n = top BY <2>2, Zenon
  <2>3. CASE m = top /\ n \in 1..Len(s) BY <1>1, <1>3, <2>3, Zenon DEF InQueue
  <2>4. CASE m \in 1..Len(s) /\ n = top BY <1>1, <1>3, <2>4, Zenon DEF InQueue
  <2>5. QED BY <1>1, <2>1, <2>2, <2>3, <2>4, Zenon
<1>4. QED BY <1>1, <1>2, <1>3, Zenon DEF a

\* What a queue holds when its first functor was taken.
LEMMA TailQueue ==
  ASSUME NEW S, NEW s \in Seq(S), s # <<>>
  PROVE  /\ Tail(s) \in Seq(S) /\ Head(s) \in S /\ InQueue(s, Head(s))
         /\ \A g : InQueue(s, g) <=> InQueue(Tail(s), g) \/ g = Head(s)
         /\ \A g : AtMostOnce(s, g) => AtMostOnce(Tail(s), g)
         /\ \A g : AtMostOnce(s, g) /\ g = Head(s) => ~InQueue(Tail(s), g)
<1> DEFINE t == Tail(s)
           h == Head(s)
<1>1. /\ t \in Seq(S) /\ h \in S /\ 1 \in 1..Len(s) /\ s[1] = h
      /\ \A n \in 1..Len(t) : n + 1 \in 1..Len(s) /\ t[n] = s[n + 1] /\ n + 1 # 1
      /\ \A n \in 1..Len(s) : n = 1 \/ (n - 1 \in 1..Len(t) /\ s[n] = t[n - 1])
  BY SMT
<1>2. \A m, n \in 1..Len(t) : m + 1 = n + 1 => m = n BY <1>1, SMT
<1> HIDE DEF t, h
<1>3. InQueue(s, h) BY <1>1, Zenon DEF InQueue
<1>4. ASSUME NEW g PROVE InQueue(s, g) <=> InQueue(t, g) \/ g = h
  <2>1. ASSUME InQueue(s, g) PROVE InQueue(t, g) \/ g = h
    <3>1. PICK n \in 1..Len(s) : s[n] = g BY <2>1, Zenon DEF InQueue
    <3>2. CASE n = 1 BY <1>1, <3>1, <3>2, Zenon
    <3>3. CASE n - 1 \in 1..Len(t) /\ s[n] = t[n - 1] BY <3>1, <3>3, Zenon DEF InQueue
    <3>4. QED BY <1>1, <3>2, <3>3, Zenon
  <2>2. ASSUME InQueue(t, g) PROVE InQueue(s, g) BY <1>1, <2>2, Zenon DEF InQueue
  <2>3. QED BY <1>3, <2>1, <2>2, Zenon
<1>5. ASSUME NEW g, AtMostOnce(s, g) PROVE AtMostOnce(t, g)
  <2> SUFFICES ASSUME NEW m \in 1..Len(t), NEW n \in 1..Len(t), t[m] = g, t[n] = g PROVE m = n
    BY Zenon DEF AtMostOnce
  <2>1. m + 1 \in 1..Len(s) /\ s[m + 1] = g /\ n + 1 \in 1..Len(s) /\ s[n + 1] = g BY <1>1, Zenon
  <2>2. QED BY <1>2, <1>5, <2>1, Zenon DEF AtMostOnce
<1>6. ASSUME NEW g, AtMostOnce(s, g), g = h PROVE ~InQueue(t, g)
  <2>1. ASSUME NEW n \in 1..Len(t), t[n] = g PROVE FALSE
    <3>1. n + 1 \in 1..Len(s) /\ s[n + 1] = g /\ n + 1 # 1 BY <1>1, <2>1, Zenon
    <3>2. QED BY <1>1, <1>6, <3>1, Zenon DEF AtMostOnce
  <2>2. QED BY <2>1, Zenon DEF InQueue
<1>7. QED BY <1>1, <1>3, <1>4, <1>5, <1>6, Zenon DEF t, h

\* An empty queue holds nothing.
LEMMA EmptyQueue == \A f : ~InQueue(<<>>, f) /\ AtMostOnce(<<>>, f)
BY SMT DEF InQueue, AtMostOnce

\* Functors of different kinds, or of different requests, differ.
LEMMA FunctorsDiffer ==
  /\ <<"Stop">> # <<"PauseForStop">> /\ <<"Stop">> # <<"Pause">> /\ <<"Stop">> # <<"Continue">>
  /\ <<"PauseForStop">> # <<"Pause">> /\ <<"PauseForStop">> # <<"Continue">>
  /\ \A i, c : <<"Reply", i, c>> \notin {<<"Stop">>, <<"PauseForStop">>, <<"Pause">>, <<"Continue">>}
  /\ \A i : <<"Handle", i>> # <<"Stop">>
  /\ \A i, j : <<"Handle", i>> = <<"Handle", j>> => i = j
  /\ \A i, j, c, d : <<"Reply", i, c>> = <<"Reply", j, d>> => i = j
BY SMT

\* Pause, Continue, PauseForStop and Stop are no Handle and no Reply.
LEMMA PlainFunctors ==
  /\ \A f \in {"Pause", "Continue", "PauseForStop", "Stop"} :
       <<f>> \in ListenerFunctors /\ (\A i : <<f>> # <<"Handle", i>>) /\ \A i, c : <<f>> # <<"Reply", i, c>>
  /\ <<"Stop">> \in WorkerFunctors
<1>1. ASSUME NEW f \in {"Pause", "Continue", "PauseForStop", "Stop"} PROVE <<f>> \in ListenerFunctors
  <2>1. <<f>> \in {<<"Pause">>, <<"Continue">>, <<"PauseForStop">>, <<"Stop">>} BY Zenon
  <2>2. QED BY <2>1, SMT DEF ListenerFunctors
<1>2. ASSUME NEW f PROVE (\A i : <<f>> # <<"Handle", i>>) /\ \A i, c : <<f>> # <<"Reply", i, c>> BY SMT
<1>3. QED BY <1>1, <1>2, Zenon DEF WorkerFunctors

\* What a functor of a listening loop is, by its first component.
LEMMA ListenerKinds ==
  ASSUME NEW f \in ListenerFunctors
  PROVE  /\ f[1] # "Handle"
         /\ f[1] = "Stop" <=> f = <<"Stop">>
         /\ f[1] = "PauseForStop" <=> f = <<"PauseForStop">>
         /\ f[1] = "Reply" <=> \E i \in Requests, c \in Answers : f = <<"Reply", i, c>>
         /\ \A i, c : f = <<"Reply", i, c>> => f[2] = i /\ f[3] = c /\ i \in Requests
BY SMT DEF ListenerFunctors

\* What a functor of a worker's loop is, by its first component.
LEMMA WorkerKinds ==
  ASSUME NEW f \in WorkerFunctors, f[1] # "Handle"
  PROVE  f = <<"Stop">>
BY SMT DEF WorkerFunctors

\* Goto moves the user's thread and nothing else of it.
LEMMA GotoMain ==
  ASSUME main = [x \in {"pc", "at"} |-> main[x]], NEW p, Goto(p)
  PROVE  main'.pc = p /\ main'.at = main.at /\ main' = [x \in {"pc", "at"} |-> main'[x]]
BY Zenon DEF Goto

\* A thread is a listener or a worker, not both.
LEMMA ThreadsSplit ==
  /\ \A t \in Threads : t \in Listeners \/ t \in Workers
  /\ \A l \in Listeners : l \in Threads /\ l \notin Workers
  /\ \A w \in Workers : w \in Threads /\ w \notin Listeners
BY ThreadsAssumption, Zenon DEF Threads

\* How the listening threads that have paused are counted.
ListenersCounted ==
  /\ Cardinality({}) = 0
  /\ \A S \in SUBSET Listeners : Cardinality(S) = Cardinality(Listeners) => S = Listeners
  /\ \A S \in SUBSET Listeners : \A l \in Listeners \ S : Cardinality(S \cup {l}) = Cardinality(S) + 1

\* A step that keeps every functor but f where it is.
Undisturbed(f) ==
  \A t \in Threads : \A g : g # f =>
    /\ InQueue(queue'[t], g) <=> InQueue(queue[t], g)
    /\ AtMostOnce(queue[t], g) => AtMostOnce(queue'[t], g)

\* f was queued in the loops T: every other functor is as before.
LEMMA QueuedAll ==
  ASSUME QueuesTyped, NEW T \in SUBSET Threads, NEW f,
         \A l \in T \cap Listeners : f \in ListenerFunctors, \A w \in T \cap Workers : f \in WorkerFunctors,
         QueueAll(T, f)
  PROVE  /\ QueuesTyped' /\ Undisturbed(f)
         /\ \A t \in Threads \ T : queue'[t] = queue[t]
         /\ \A t \in T : InQueue(queue'[t], f) /\ (~InQueue(queue[t], f) /\ AtMostOnce(queue[t], f) => AtMostOnce(queue'[t], f))
<1>1. /\ queue' = [t \in Threads |-> queue'[t]]
      /\ \A t \in Threads : t \in T => queue'[t] = Append(queue[t], f)
      /\ \A t \in Threads : t \notin T => queue'[t] = queue[t]
  BY Zenon DEF QueueAll
<1>2. ASSUME NEW t \in T
      PROVE  /\ t \in Listeners => queue'[t] \in Seq(ListenerFunctors)
             /\ t \in Workers => queue'[t] \in Seq(WorkerFunctors)
             /\ \A g : InQueue(queue'[t], g) <=> InQueue(queue[t], g) \/ g = f
             /\ \A g : AtMostOnce(queue[t], g) /\ (g = f => ~InQueue(queue[t], g)) => AtMostOnce(queue'[t], g)
  <2>1. t \in Threads /\ queue'[t] = Append(queue[t], f) BY <1>1, Zenon
  <2>2. CASE t \in Listeners
    <3>1. queue[t] \in Seq(ListenerFunctors) /\ f \in ListenerFunctors /\ t \notin Workers
      BY <2>2, ThreadsSplit, Zenon DEF QueuesTyped
    <3>2. /\ Append(queue[t], f) \in Seq(ListenerFunctors)
          /\ \A g : InQueue(Append(queue[t], f), g) <=> InQueue(queue[t], g) \/ g = f
          /\ \A g : AtMostOnce(queue[t], g) /\ (g = f => ~InQueue(queue[t], g)) => AtMostOnce(Append(queue[t], f), g)
      BY <3>1, AppendQueue, Zenon
    <3>3. QED BY <2>1, <3>1, <3>2, Zenon
  <2>3. CASE t \in Workers
    <3>1. queue[t] \in Seq(WorkerFunctors) /\ f \in WorkerFunctors /\ t \notin Listeners
      BY <2>3, ThreadsSplit, Zenon DEF QueuesTyped
    <3>2. /\ Append(queue[t], f) \in Seq(WorkerFunctors)
          /\ \A g : InQueue(Append(queue[t], f), g) <=> InQueue(queue[t], g) \/ g = f
          /\ \A g : AtMostOnce(queue[t], g) /\ (g = f => ~InQueue(queue[t], g)) => AtMostOnce(Append(queue[t], f), g)
      BY <3>1, AppendQueue, Zenon
    <3>3. QED BY <2>1, <3>1, <3>2, Zenon
  <2>4. QED BY <2>1, <2>2, <2>3, ThreadsSplit, Zenon
<1>3. QueuesTyped' BY <1>1, <1>2, ThreadsSplit, Zenon DEF QueuesTyped
<1>4. Undisturbed(f) BY <1>1, <1>2, Zenon DEF Undisturbed
<1>5. QED BY <1>1, <1>2, <1>3, <1>4, Zenon

\* RunInLoop of one loop is QueueAll of that loop.
LEMMA QueuedOne ==
  ASSUME QueuesTyped, NEW t \in Threads, NEW f, queue' = [queue EXCEPT ![t] = Append(@, f)]
  PROVE  QueueAll({t}, f)
<1>1. queue = [u \in Threads |-> queue[u]] BY Zenon DEF QueuesTyped
<1>2. queue' = [u \in Threads |-> IF u = t THEN Append(queue[u], f) ELSE queue[u]] BY <1>1, Zenon
<1>3. \A u : u \in {t} <=> u = t BY Zenon
<1>4. QED BY <1>2, <1>3, Zenon DEF QueueAll

\* The first functor of t's loop was taken: every other functor is as before.
LEMMA Dequeued ==
  ASSUME QueuesTyped, NEW t \in Threads, queue[t] # <<>>, queue' = [queue EXCEPT ![t] = Tail(@)]
  PROVE  /\ QueuesTyped' /\ Undisturbed(Head(queue[t]))
         /\ \A u \in Threads : u # t => queue'[u] = queue[u]
         /\ \A u \in Threads : \A g : InQueue(queue'[u], g) => InQueue(queue[u], g)
         /\ \A u \in Threads : \A g : AtMostOnce(queue[u], g) => AtMostOnce(queue'[u], g)
         /\ InQueue(queue[t], Head(queue[t]))
         /\ AtMostOnce(queue[t], Head(queue[t])) => ~InQueue(queue'[t], Head(queue[t]))
         /\ t \in Listeners => Head(queue[t]) \in ListenerFunctors
         /\ t \in Workers => Head(queue[t]) \in WorkerFunctors
<1>1. queue = [u \in Threads |-> queue[u]] BY Zenon DEF QueuesTyped
<1>2. /\ queue' = [u \in Threads |-> queue'[u]] /\ queue'[t] = Tail(queue[t])
      /\ \A u \in Threads : u # t => queue'[u] = queue[u]
  BY <1>1, Zenon
<1> DEFINE s == queue[t]
           r == queue'[t]
           h == Head(queue[t])
<1>3. /\ t \in Listeners => r \in Seq(ListenerFunctors) /\ h \in ListenerFunctors
      /\ t \in Workers => r \in Seq(WorkerFunctors) /\ h \in WorkerFunctors
      /\ InQueue(s, h)
      /\ \A g : InQueue(s, g) <=> InQueue(r, g) \/ g = h
      /\ \A g : AtMostOnce(s, g) => AtMostOnce(r, g)
      /\ \A g : AtMostOnce(s, g) /\ g = h => ~InQueue(r, g)
  <2>2. CASE t \in Listeners
    <3>1. queue[t] \in Seq(ListenerFunctors) /\ t \notin Workers
      BY <2>2, ThreadsSplit, Zenon DEF QueuesTyped
    <3>2. QED BY <1>2, <3>1, TailQueue, Zenon
  <2>3. CASE t \in Workers
    <3>1. queue[t] \in Seq(WorkerFunctors) /\ t \notin Listeners
      BY <2>3, ThreadsSplit, Zenon DEF QueuesTyped
    <3>2. QED BY <1>2, <3>1, TailQueue, Zenon
  <2>4. QED BY <2>2, <2>3, ThreadsSplit, Zenon
<1> HIDE DEF s, r, h
<1>4. QueuesTyped'
  <2>1. \A l \in Listeners : queue'[l] \in Seq(ListenerFunctors)
    BY <1>2, <1>3, ThreadsSplit, Zenon DEF QueuesTyped, r
  <2>2. \A w \in Workers : queue'[w] \in Seq(WorkerFunctors)
    BY <1>2, <1>3, ThreadsSplit, Zenon DEF QueuesTyped, r
  <2>3. QED BY <1>2, <2>1, <2>2, Zenon DEF QueuesTyped
<1>5. Undisturbed(h)
  <2> SUFFICES ASSUME NEW u \in Threads, NEW g, g # h
               PROVE  /\ InQueue(queue'[u], g) <=> InQueue(queue[u], g)
                      /\ AtMostOnce(queue[u], g) => AtMostOnce(queue'[u], g)
    BY Zenon DEF Undisturbed
  <2>1. CASE u = t BY <1>3, <2>1, Zenon DEF s, r
  <2>2. CASE u # t BY <1>2, <2>2, Zenon
  <2>3. QED BY <2>1, <2>2, Zenon
<1>6. ASSUME NEW u \in Threads, NEW g
      PROVE  (InQueue(queue'[u], g) => InQueue(queue[u], g)) /\ (AtMostOnce(queue[u], g) => AtMostOnce(queue'[u], g))
  <2>1. CASE u = t BY <1>3, <2>1, Zenon DEF s, r
  <2>2. CASE u # t BY <1>2, <2>2, Zenon
  <2>3. QED BY <2>1, <2>2, Zenon
<1>7. QED BY <1>2, <1>3, <1>4, <1>5, <1>6, Zenon DEF s, r, h

\* A request that a step does not touch.
SameFor(i) ==
  /\ req'[i] = req[i]
  /\ \A t \in Threads :
       /\ i \in busy'[t] <=> i \in busy[t]
       /\ loop[t] # "kNull" => loop'[t] # "kNull"
       /\ InQueue(queue'[t], <<"Handle", i>>) <=> InQueue(queue[t], <<"Handle", i>>)
       /\ AtMostOnce(queue[t], <<"Handle", i>>) => AtMostOnce(queue'[t], <<"Handle", i>>)
       /\ \A c \in Answers : InQueue(queue'[t], <<"Reply", i, c>>) <=> InQueue(queue[t], <<"Reply", i, c>>)

\* A request of which nothing changed keeps its invariant.
LEMMA SameForInv ==
  ASSUME NEW i \in Requests, RequestInv(i), SameFor(i)
  PROVE  RequestInv(i)'
<1>1. AtThread(i)' BY ThreadsSplit, Zenon DEF RequestInv, SameFor, AtThread
<1>2. HandleQueued(i)' BY ThreadsSplit, Zenon DEF RequestInv, SameFor, HandleQueued
<1>3. ReplyQueued(i)' BY ThreadsSplit, Zenon DEF RequestInv, SameFor, ReplyQueued
<1>4. ReplyMade(i)'
  <2>1. req[i].state = "replied" => req[i].at \in Threads BY ThreadsSplit, Zenon DEF RequestInv
  <2>2. QED BY <2>1, ThreadsSplit, Zenon DEF RequestInv, SameFor, ReplyMade
<1>5. req[i].state # "none" => req[i].at \in Threads BY ThreadsSplit, Zenon DEF RequestInv
<1>6. QED BY <1>1, <1>2, <1>3, <1>4, <1>5, Zenon DEF RequestInv, SameFor

\* The requests keep their invariant when a functor of none of them was queued or taken.
LEMMA ReqKeptQueued ==
  ASSUME ReqInv, req' = req, busy' = busy, \A t \in Threads : loop[t] # "kNull" => loop'[t] # "kNull",
         NEW f, Undisturbed(f), \A i : f # <<"Handle", i>>, \A i, c : f # <<"Reply", i, c>>
  PROVE  ReqInv'
<1>1. ASSUME NEW i \in Requests PROVE SameFor(i) BY Zenon DEF SameFor, Undisturbed
<1>2. QED BY <1>1, SameForInv, Zenon DEF ReqInv, ReqsTyped

\* The requests keep their invariant when they, the queues and the busy threads stay.
LEMMA ReqKept ==
  ASSUME ReqInv, req' = req, busy' = busy, queue' = queue, \A t \in Threads : loop[t] # "kNull" => loop'[t] # "kNull"
  PROVE  ReqInv'
<1>1. ASSUME NEW i \in Requests PROVE SameFor(i) BY Zenon DEF SameFor
<1>2. QED BY <1>1, SameForInv, Zenon DEF ReqInv, ReqsTyped

-----------------------------------------------------------------------------
(* The steps of the user's thread.                                         *)

\* Init, for the ports that could be bound, keeps the invariant.
LEMMA InitPortsInv ==
  ASSUME ServerInv, NEW bound \in SUBSET Listeners, InitPorts(bound)
  PROVE  ServerInv'
<1> USE DEF InitPorts
<1>0. main.pc = "new" /\ main = [x \in {"pc", "at"} |-> main[x]] BY Zenon DEF ServerInv, PhaseInv
<1> DEFINE p == IF bound = Listeners THEN "initialized" ELSE "failed"
<1>1. main'.pc = p /\ main' = [x \in {"pc", "at"} |-> main'[x]] BY <1>0, GotoMain, Zenon
<1>2. status \in {"kNull", "kInitializing"} BY <1>0, Zenon DEF ServerInv, PhaseInv
<1>3. PhaseInv' BY <1>1, SMT DEF PhaseInv, Starting, Serving, Started
<1>4. \A t \in Threads : loop[t] = "kNull" BY <1>0, Zenon DEF ServerInv, LoopInv
<1>5. LoopInv' BY <1>1, <1>4, SMT DEF ServerInv, LoopInv, Starting, Serving
<1>6. ServiceInv'
  <2>1. \A l \in Listeners : service'[l] = [evhttp |-> l \in bound, enabled |-> l \in bound, handlers |-> {}]
    BY Zenon
  <2>2. \A l \in Listeners : IsService(service'[l]) /\ service'[l].evhttp = (l \in bound)
    BY <2>1 DEF IsService
  <2>3. \A l \in Listeners : loop'[l] # "kStopped" BY <1>4, ThreadsSplit, SMT
  <2>4. service' = [l \in Listeners |-> service'[l]] BY Zenon
  <2>5. main'.pc \notin {"new", "failed", "destroyed"} => bound = Listeners BY <1>1, Zenon
  <2>6. QED BY <2>2, <2>3, <2>4, <2>5, SMT DEF ServiceInv
<1>7. QueueInv' BY Zenon DEF ServerInv, QueueInv, QueuesTyped
<1>8. PauseInv'
  <2>1. main.pc # "pausing" /\ main'.pc # "pausing" /\ main'.pc # "running" BY <1>0, <1>1, SMT
  <2>2. HasPaused' = HasPaused BY Zenon DEF HasPaused
  <2>3. QED BY <1>0, <2>1, <2>2, Zenon DEF ServerInv, PauseInv
<1>9. ReqInv' BY ReqKept, Zenon DEF ServerInv
<1>12. QED BY <1>3, <1>5, <1>6, <1>7, <1>8, <1>9, Zenon DEF ServerInv

\* Starting tpool_ keeps the invariant.
LEMMA StartPoolInv ==
  ASSUME ServerInv, serverOk, StartPool
  PROVE  ServerInv'
<1> USE DEF StartPool
<1>0. main.pc = "initialized" /\ main = [x \in {"pc", "at"} |-> main[x]] BY Zenon DEF ServerInv, PhaseInv
<1>1. main'.pc = "listen" /\ main' = [x \in {"pc", "at"} |-> main'[x]] BY <1>0, GotoMain, Zenon
<1>2. status = "kInitialized" BY <1>0, Zenon DEF ServerInv, PhaseInv
<1>3. PhaseInv'
  <2>1. serverOk' BY <1>2, Zenon DEF Holds
  <2>2. QED BY <1>1, <2>1, SMT DEF PhaseInv, Starting, Serving, Started
<1>4. workers \in SUBSET Workers /\ \A t \in Threads : loop[t] = "kNull"
  BY <1>0, Zenon DEF ServerInv, LoopInv
<1>5. /\ \A t \in Threads : loop'[t] \in {"kNull", "kRunning"}
      /\ \A w \in workers : loop'[w] = "kRunning"
      /\ \A t \in Threads \ workers : loop'[t] = "kNull"
      /\ loop' = [t \in Threads |-> loop'[t]]
  BY <1>4, ThreadsSplit, Zenon
<1>6. LoopInv'
  <2>1. loop' \in [Threads -> Loops] BY <1>5, Zenon DEF Loops
  <2>2. QED BY <1>1, <1>4, <1>5, <2>1, ThreadsSplit, SMT DEF LoopInv, Starting, Serving
<1>7. ServiceInv'
  <2>1. \A l \in Listeners : (loop'[l] # "kStopped") = (loop[l] # "kStopped")
    BY <1>4, <1>5, ThreadsSplit, SMT
  <2>2. main.pc \notin {"new", "failed", "destroyed"} BY <1>0
  <2>3. QED BY <2>1, <2>2, Zenon DEF ServerInv, ServiceInv
<1>8. \A t \in Threads : queue[t] = <<>> /\ busy[t] = {} BY <1>4, Zenon DEF ServerInv, QueueInv, QueuesTyped
<1>9. QueueInv'
  <2>1. \A t \in Threads : ~InQueue(queue[t], <<"Stop">>) BY <1>8, EmptyQueue, Zenon
  <2>2. QED BY <1>8, <2>1, Zenon DEF ServerInv, QueueInv, QueuesTyped
<1>10. PauseInv'
  <2>1. main.pc # "pausing" /\ main'.pc # "pausing" /\ main'.pc # "running" BY <1>0, <1>1, SMT
  <2>2. HasPaused' = HasPaused BY Zenon DEF HasPaused
  <2>3. \A l \in Listeners : busy[l] = {} BY <1>8, ThreadsSplit, Zenon
  <2>4. QED BY <1>0, <2>1, <2>2, <2>3, Zenon DEF ServerInv, PauseInv
<1>11. ReqInv'
  <2>1. \A t \in Threads : loop[t] # "kNull" => loop'[t] # "kNull" BY <1>4, Zenon
  <2>2. QED BY <2>1, ReqKept, Zenon DEF ServerInv
<1>12. QED BY <1>3, <1>6, <1>7, <1>9, <1>10, <1>11, Zenon DEF ServerInv

\* Starting a listening thread keeps the invariant.
LEMMA StartListenerInv ==
  ASSUME ServerInv, NEW l \in Listeners, StartListener(l)
  PROVE  ServerInv'
<1> USE DEF StartListener
<1>0. main.pc = "listen" /\ loop[l] = "kNull" /\ l \in Threads BY ThreadsSplit, Zenon
<1>1. main' = [pc |-> "register", at |-> l] BY Zenon
<1>2. main'.pc = "register" /\ main'.at = l /\ main' = [x \in {"pc", "at"} |-> main'[x]] BY <1>1, SMT
<1>3. PhaseInv'
  <2>1. /\ status # "kInitialized" /\ status # "kRunning" /\ pool = "kRunning" /\ (Started => serverOk)
    BY <1>0, Zenon DEF ServerInv, PhaseInv, Starting, Serving
  <2>2. (Started => serverOk)' BY <2>1, Zenon DEF Started
  <2>3. QED BY <1>2, <2>1, <2>2, SMT DEF PhaseInv, Starting, Serving
<1>4. loop \in [Threads -> Loops] BY Zenon DEF ServerInv, LoopInv
<1>5. loop'[l] = "kRunning" /\ \A t \in Threads : t # l => loop'[t] = loop[t] BY <1>0, <1>4, Zenon
<1>6. LoopInv'
  <2>1. loop' \in [Threads -> Loops] BY <1>4, Zenon DEF Loops
  <2>2. QED BY <1>0, <1>2, <1>5, <2>1, ThreadsSplit, SMT DEF ServerInv, LoopInv, Starting, Serving
<1>7. ServiceInv'
  <2>1. \A k \in Listeners : (loop'[k] # "kStopped") = (loop[k] # "kStopped")
    BY <1>0, <1>5, ThreadsSplit, SMT
  <2>2. main.pc \notin {"new", "failed", "destroyed"} BY <1>0
  <2>3. QED BY <2>1, <2>2, Zenon DEF ServerInv, ServiceInv
<1>8. QueueInv'
  <2>1. queue[l] = <<>> /\ busy[l] = {} BY <1>0, Zenon DEF ServerInv, QueueInv, QueuesTyped
  <2>2. ~InQueue(queue[l], <<"Stop">>) BY <2>1, EmptyQueue, Zenon
  <2>3. QED BY <1>5, <2>1, <2>2, Zenon DEF ServerInv, QueueInv, QueuesTyped
<1>9. PauseInv'
  <2>1. main.pc # "pausing" /\ main'.pc # "pausing" /\ main'.pc # "running" /\ main.pc # "running"
    BY <1>0, <1>2, SMT
  <2>2. HasPaused' = HasPaused BY Zenon DEF HasPaused
  <2>3. main.pc \in Starting BY <1>0, Zenon DEF Starting
  <2>4. QED BY <2>1, <2>2, <2>3, Zenon DEF ServerInv, PauseInv
<1>10. ReqInv'
  <2>1. \A t \in Threads : loop[t] # "kNull" => loop'[t] # "kNull" BY <1>0, <1>5, Zenon
  <2>2. QED BY <2>1, ReqKept, Zenon DEF ServerInv
<1>11. QED BY <1>3, <1>6, <1>7, <1>8, <1>9, <1>10, Zenon DEF ServerInv

\* Registering a handler with a Service keeps the invariant.
LEMMA RegisterInv ==
  ASSUME ServerInv, NEW h, Register(h)
  PROVE  ServerInv'
<1> USE DEF Register
<1>1. PhaseInv' BY Zenon DEF ServerInv, PhaseInv, Started
<1>2. LoopInv' BY Zenon DEF ServerInv, LoopInv
<1>3. ServiceInv'
  <2>1. service = [l \in Listeners |-> service[l]] BY Zenon DEF ServerInv, ServiceInv
  <2>2. service' = [l \in Listeners |-> service'[l]] BY <2>1, Zenon
  <2>3. \A l \in Listeners : IsService(service'[l]) /\ service'[l].evhttp = service[l].evhttp
    <3> TAKE l \in Listeners
    <3>1. IsService(service[l]) BY Zenon DEF ServerInv, ServiceInv
    <3>2. CASE l # main.at BY <2>1, <3>1, <3>2, Zenon
    <3>3. CASE l = main.at
      <4>1. service'[l] = [service[l] EXCEPT !.handlers = @ \cup {h}] BY <2>1, <3>3, Zenon
      <4>2. QED BY <3>1, <4>1, Zenon DEF IsService
    <3>4. QED BY <3>2, <3>3, Zenon
  <2>4. QED BY <2>2, <2>3, Zenon DEF ServerInv, ServiceInv
<1>4. QueueInv' BY Zenon DEF ServerInv, QueueInv, QueuesTyped
<1>5. PauseInv' BY Zenon DEF ServerInv, PauseInv, HasPaused
<1>6. ReqInv' BY ReqKept, Zenon DEF ServerInv
<1>9. QED BY <1>1, <1>2, <1>3, <1>4, <1>5, <1>6, Zenon DEF ServerInv

\* The end of a listener's registration, and of Start after the last, keeps the invariant.
LEMMA RegisteredAllInv ==
  ASSUME ServerInv, serverOk, RegisteredAll
  PROVE  ServerInv'
<1> USE DEF RegisteredAll
<1>0. main.pc = "register" /\ main = [x \in {"pc", "at"} |-> main[x]] BY Zenon DEF ServerInv, PhaseInv
<1>1. /\ main' = [x \in {"pc", "at"} |-> main'[x]]
      /\ \/ main'.pc = "listen" /\ status' = status
         \/ main'.pc = "running" /\ status' = "kRunning" /\ \A l \in Listeners : loop[l] # "kNull"
  BY <1>0, GotoMain, Zenon
<1>2. PhaseInv'
  <2>1. /\ status # "kInitialized" /\ status # "kRunning" /\ pool = "kRunning" /\ (Started => serverOk)
    BY <1>0, Zenon DEF ServerInv, PhaseInv, Starting, Serving
  <2>3. (Started => serverOk)' BY Zenon
  <2>4. CASE main'.pc = "listen" /\ status' = status
    BY <1>1, <2>1, <2>3, <2>4, SMT DEF PhaseInv, Starting, Serving
  <2>5. CASE main'.pc = "running" /\ status' = "kRunning"
    BY <1>1, <2>1, <2>3, <2>5, SMT DEF PhaseInv, Starting, Serving
  <2>6. QED BY <1>1, <2>4, <2>5, Zenon
<1>3. LoopInv'
  <2>1. main.pc \in Starting BY <1>0, Zenon DEF Starting
  <2>2. CASE main'.pc = "listen" BY <1>0, <2>1, <2>2, Zenon DEF ServerInv, LoopInv, Starting, Serving
  <2>3. CASE main'.pc = "running" /\ \A l \in Listeners : loop[l] # "kNull"
    BY <1>0, <2>1, <2>3, SMT DEF ServerInv, LoopInv, Starting, Serving
  <2>4. QED BY <1>1, <2>2, <2>3, Zenon
<1>4. ServiceInv'
  <2>1. main.pc \notin {"new", "failed", "destroyed"} BY <1>0
  <2>2. \A l \in Listeners : service[l].evhttp = (loop[l] # "kStopped")
    BY <2>1, Zenon DEF ServerInv, ServiceInv
  <2>3. QED BY <2>2, Zenon DEF ServerInv, ServiceInv
<1>5. QueueInv' BY Zenon DEF ServerInv, QueueInv, QueuesTyped
<1>6. PauseInv'
  <2>1. main.pc # "pausing" /\ main'.pc # "pausing" /\ main.pc # "running" BY <1>0, <1>1, SMT
  <2>2. HasPaused' = HasPaused BY Zenon DEF HasPaused
  <2>3. main.pc \in Starting BY <1>0, Zenon DEF Starting
  <2>4. QED BY <2>1, <2>2, <2>3, Zenon DEF ServerInv, PauseInv
<1>7. ReqInv' BY ReqKept, Zenon DEF ServerInv
<1>10. QED BY <1>2, <1>3, <1>4, <1>5, <1>6, <1>7, Zenon DEF ServerInv

\* A Service whose loop keeps its status keeps its evhttp.
LEMMA ServiceKept ==
  ASSUME ServiceInv, service' = service, main.pc \notin {"new", "failed", "destroyed"},
         \A l \in Listeners : loop'[l] = "kStopped" <=> loop[l] = "kStopped"
  PROVE  ServiceInv'
<1>1. \A l \in Listeners : service[l].evhttp = (loop[l] # "kStopped") BY Zenon DEF ServiceInv
<1>2. \A l \in Listeners : service'[l].evhttp = (loop'[l] # "kStopped") BY <1>1, Zenon
<1>3. QED BY <1>2, Zenon DEF ServiceInv

\* No functor but PauseForStop changes which listeners have paused.
LEMMA PausedKept ==
  ASSUME NEW f, Undisturbed(f), f # <<"PauseForStop">>
  PROVE  /\ HasPaused' = HasPaused
         /\ \A l \in Listeners : AtMostOnce(queue[l], <<"PauseForStop">>) => AtMostOnce(queue'[l], <<"PauseForStop">>)
<1>1. \A l \in Listeners : InQueue(queue'[l], <<"PauseForStop">>) <=> InQueue(queue[l], <<"PauseForStop">>)
  BY ThreadsSplit, Zenon DEF Undisturbed
<1>2. QED BY <1>1, ThreadsSplit, Zenon DEF Undisturbed, HasPaused

\* Pause and Continue keep the invariant.
LEMMA PauseOrContinueInv ==
  ASSUME ServerInv, NEW f \in {"Pause", "Continue"}, PauseOrContinue(f)
  PROVE  ServerInv'
<1> USE DEF PauseOrContinue
<1>0. main.pc = "running" BY Zenon
<1>1. PhaseInv' BY Zenon DEF ServerInv, PhaseInv, Started
<1>2. LoopInv' BY Zenon DEF ServerInv, LoopInv
<1>3. ServiceInv' BY Zenon DEF ServerInv, ServiceInv
<1>4. <<f>> \in ListenerFunctors /\ <<f>> # <<"Stop">> /\ <<f>> # <<"PauseForStop">>
  BY FunctorsDiffer, PlainFunctors, Zenon
<1>5. QueuesTyped /\ Listeners \in SUBSET Threads /\ Listeners \cap Workers = {}
  BY ThreadsSplit, Zenon DEF ServerInv, QueueInv
<1>6. QueuesTyped' /\ Undisturbed(<<f>>) /\ \A t \in Threads \ Listeners : queue'[t] = queue[t]
  BY <1>4, <1>5, QueuedAll, Zenon
<1>7. QueueInv'
  <2>1. \A l \in Listeners : loop[l] = "kRunning" BY <1>0, Zenon DEF ServerInv, LoopInv, Serving
  <2>2. \A t \in Threads : InQueue(queue'[t], <<"Stop">>) => loop[t] = "kStopping"
    BY <1>4, <1>6, Zenon DEF ServerInv, QueueInv, Undisturbed
  <2>3. \A t \in Threads : loop[t] \in {"kNull", "exiting", "kStopped"} => queue'[t] = <<>> /\ busy[t] = {}
    BY <1>6, <2>1, Zenon DEF ServerInv, QueueInv
  <2>4. QED BY <1>6, <2>2, <2>3, Zenon DEF QueueInv
<1>8. PauseInv' BY <1>4, <1>6, PausedKept, Zenon DEF ServerInv, PauseInv
<1>9. ReqInv'
  <2>1. (\A i : <<f>> # <<"Handle", i>>) /\ \A i, c : <<f>> # <<"Reply", i, c>> BY PlainFunctors, Zenon
  <2>2. QED BY <1>6, <2>1, ReqKeptQueued, Zenon DEF ServerInv
<1>10. QED BY <1>1, <1>2, <1>3, <1>7, <1>8, <1>9, Zenon DEF ServerInv

\* The begin of Stop, which queues PauseForStop to every listener, keeps the invariant.
LEMMA StopListeningInv ==
  ASSUME ListenersCounted, ServerInv, serverOk, StopListening
  PROVE  ServerInv'
<1> USE DEF StopListening
<1>0. main.pc = "running" /\ main = [x \in {"pc", "at"} |-> main[x]] BY Zenon DEF ServerInv, PhaseInv
<1>1. main'.pc = "pausing" /\ main' = [x \in {"pc", "at"} |-> main'[x]] BY <1>0, GotoMain, Zenon
<1>2. PhaseInv'
  <2>1. status = "kRunning" /\ pool = "kRunning" BY <1>0, Zenon DEF ServerInv, PhaseInv, Serving
  <2>2. serverOk' BY <2>1, Zenon DEF Holds
  <2>3. QED BY <1>1, <2>1, <2>2, SMT DEF PhaseInv, Starting, Serving
<1>3. LoopInv' BY <1>0, <1>1, Zenon DEF ServerInv, LoopInv, Starting, Serving
<1>4. ServiceInv' BY <1>0, ServiceKept, Zenon DEF ServerInv
<1> DEFINE f == <<"PauseForStop">>
<1>5. f \in ListenerFunctors BY PlainFunctors, Zenon
<1>6. QueuesTyped /\ Listeners \in SUBSET Threads /\ Listeners \cap Workers = {}
  BY ThreadsSplit, Zenon DEF ServerInv, QueueInv
<1>7. /\ QueuesTyped' /\ Undisturbed(f) /\ \A t \in Threads \ Listeners : queue'[t] = queue[t]
      /\ \A l \in Listeners : InQueue(queue'[l], f) /\ (~InQueue(queue[l], f) /\ AtMostOnce(queue[l], f) => AtMostOnce(queue'[l], f))
  BY <1>5, <1>6, QueuedAll, Zenon
<1>8. QueueInv'
  <2>1. \A l \in Listeners : loop[l] = "kRunning" BY <1>0, Zenon DEF ServerInv, LoopInv, Serving
  <2>2. \A t \in Threads : InQueue(queue'[t], <<"Stop">>) => loop[t] = "kStopping"
    BY <1>7, FunctorsDiffer, Zenon DEF ServerInv, QueueInv, Undisturbed
  <2>3. \A t \in Threads : loop[t] \in {"kNull", "exiting", "kStopped"} => queue'[t] = <<>> /\ busy[t] = {}
    BY <1>7, <2>1, Zenon DEF ServerInv, QueueInv
  <2>4. QED BY <1>7, <2>2, <2>3, Zenon DEF QueueInv
<1>9. PauseInv'
  <2>1. HasPaused' = {} BY <1>7, Zenon DEF HasPaused
  <2>2. main.pc # "pausing" /\ main'.pc = "pausing" /\ paused = 0
    BY <1>0, <1>1, Zenon DEF ServerInv, PauseInv
  <2>3. HasPaused = Listeners BY <2>2, Zenon DEF ServerInv, PauseInv
  <2>4. \A l \in Listeners : AtMostOnce(queue'[l], f)
    BY <1>7, <2>3, Zenon DEF ServerInv, PauseInv, HasPaused
  <2>5. Cardinality(HasPaused') = 0 BY <2>1, Zenon DEF ListenersCounted
  <2>6. main'.pc \notin {"new", "failed", "initialized", "running"} \cup Starting
    BY <1>1, Zenon DEF Starting
  <2>7. QED BY <2>1, <2>2, <2>4, <2>5, <2>6, Zenon DEF PauseInv
<1>10. ReqInv'
  <2>1. (\A i : f # <<"Handle", i>>) /\ \A i, c : f # <<"Reply", i, c>> BY PlainFunctors, Zenon
  <2>2. QED BY <1>7, <2>1, ReqKeptQueued, Zenon DEF ServerInv
<1>11. QED BY <1>2, <1>3, <1>4, <1>8, <1>9, <1>10, Zenon DEF ServerInv

\* Stop goes on to tpool_ when count has reached the number of listeners: each has paused, and
\* none is dispatching.
LEMMA StopPoolInv ==
  ASSUME ListenersCounted, ServerInv, StopPool
  PROVE  ServerInv'
<1> USE DEF StopPool
<1>0. main.pc = "pausing" /\ main = [x \in {"pc", "at"} |-> main[x]] BY Zenon DEF ServerInv, PhaseInv
<1>1. main'.pc = "stopping pool" /\ main' = [x \in {"pc", "at"} |-> main'[x]] BY <1>0, GotoMain, Zenon
<1>2. PhaseInv'
  <2>1. status # "kInitialized" /\ status # "kRunning" /\ (Started => serverOk)
    BY <1>0, Zenon DEF ServerInv, PhaseInv
  <2>2. (Started => serverOk)' BY <2>1, Zenon DEF Started
  <2>3. QED BY <1>1, <2>1, <2>2, Zenon DEF PhaseInv, Starting, Serving
<1>3. /\ workers \in SUBSET Workers /\ loop \in [Threads -> Loops] /\ \A w \in Workers \ workers : loop[w] = "kNull"
      /\ \A l \in Listeners : loop[l] = "kRunning" /\ \A w \in workers : loop[w] = "kRunning"
  BY <1>0, Zenon DEF ServerInv, LoopInv, Serving
<1>4. /\ \A w \in workers : loop'[w] = "kStopping" /\ \A t \in Threads \ workers : loop'[t] = loop[t]
      /\ loop' \in [Threads -> Loops] /\ \A t \in Threads : loop[t] # "kNull" => loop'[t] # "kNull"
  BY <1>3, ThreadsSplit, Zenon DEF Loops
<1>5. LoopInv'
  <2>1. \A l \in Listeners : loop'[l] = "kRunning" BY <1>3, <1>4, ThreadsSplit, Zenon
  <2>2. \A w \in Workers \ workers : loop'[w] = "kNull" BY <1>3, <1>4, ThreadsSplit, Zenon
  <2>3. QED BY <1>1, <1>3, <1>4, <2>1, <2>2, Zenon DEF LoopInv, Starting, Serving
<1>6. ServiceInv'
  <2>1. \A l \in Listeners : loop'[l] = loop[l] BY <1>3, <1>4, ThreadsSplit, Zenon
  <2>2. QED BY <1>0, <2>1, ServiceKept, Zenon DEF ServerInv
<1> DEFINE f == <<"Stop">>
<1>7. f \in WorkerFunctors BY Zenon DEF WorkerFunctors
<1>8. QueuesTyped /\ workers \in SUBSET Threads /\ workers \cap Listeners = {}
  BY <1>3, ThreadsSplit, Zenon DEF ServerInv, QueueInv
<1>9. /\ QueuesTyped' /\ Undisturbed(f) /\ \A t \in Threads \ workers : queue'[t] = queue[t]
  BY <1>7, <1>8, QueuedAll, Zenon
<1>10. QueueInv'
  <2>1. \A t \in Threads : InQueue(queue'[t], <<"Stop">>) => loop'[t] = "kStopping"
    BY <1>4, <1>9, Zenon DEF ServerInv, QueueInv
  <2>2. \A t \in Threads : loop'[t] \in {"kNull", "exiting", "kStopped"} => queue'[t] = <<>> /\ busy[t] = {}
    BY <1>4, <1>9, Zenon DEF ServerInv, QueueInv
  <2>3. QED BY <1>9, <2>1, <2>2, Zenon DEF QueueInv
<1>11. PauseInv'
  <2>1. HasPaused = Listeners
    <3>1. Cardinality(HasPaused) = Cardinality(Listeners) BY <1>0, Zenon DEF ServerInv, PauseInv
    <3>2. HasPaused \subseteq Listeners BY Zenon DEF HasPaused
    <3>3. QED BY <3>1, <3>2, Zenon DEF ListenersCounted
  <2>2. /\ HasPaused' = HasPaused
        /\ \A l \in Listeners : AtMostOnce(queue[l], <<"PauseForStop">>) => AtMostOnce(queue'[l], <<"PauseForStop">>)
    BY <1>9, FunctorsDiffer, PausedKept, Zenon
  <2>3. \A l \in Listeners : busy[l] = {} BY <1>0, <2>1, Zenon DEF ServerInv, PauseInv
  <2>4. main'.pc \notin {"new", "failed", "initialized", "running"} \cup Starting /\ main'.pc # "pausing"
    BY <1>1, Zenon DEF Starting
  <2>5. QED BY <2>1, <2>2, <2>3, <2>4, Zenon DEF ServerInv, PauseInv
<1>12. ReqInv'
  <2>1. (\A i : f # <<"Handle", i>>) /\ \A i, c : f # <<"Reply", i, c>> BY PlainFunctors, Zenon
  <2>2. QED BY <1>4, <1>9, <2>1, ReqKeptQueued, Zenon DEF ServerInv
<1>13. QED BY <1>2, <1>5, <1>6, <1>10, <1>11, <1>12, Zenon DEF ServerInv

\* Stop goes on to the listeners when every worker has ended.
LEMMA PoolStoppedInv ==
  ASSUME ServerInv, PoolStopped
  PROVE  ServerInv'
<1> USE DEF PoolStopped
<1>0. main.pc = "stopping pool" /\ main = [x \in {"pc", "at"} |-> main[x]] BY Zenon DEF ServerInv, PhaseInv
<1>1. main'.pc = "stopping listeners" /\ main' = [x \in {"pc", "at"} |-> main'[x]] BY <1>0, GotoMain, Zenon
<1>2. PhaseInv'
  <2>1. status # "kInitialized" /\ status # "kRunning" /\ (Started => serverOk)
    BY <1>0, Zenon DEF ServerInv, PhaseInv
  <2>2. (Started => serverOk)' BY <2>1, Zenon DEF Started
  <2>3. QED BY <1>1, <2>1, <2>2, Zenon DEF PhaseInv, Starting, Serving
<1>3. LoopInv'
  <2>1. \A l \in Listeners : loop[l] = "kRunning" BY <1>0, Zenon DEF ServerInv, LoopInv
  <2>2. \A l \in Listeners : loop[l] # "kNull" BY <2>1, Zenon
  <2>3. QED BY <1>1, <2>2, Zenon DEF ServerInv, LoopInv, Starting, Serving
<1>4. ServiceInv' BY <1>0, ServiceKept, Zenon DEF ServerInv
<1>5. QueueInv' BY Zenon DEF ServerInv, QueueInv, QueuesTyped
<1>6. PauseInv'
  <2>1. HasPaused' = HasPaused BY Zenon DEF HasPaused
  <2>2. main'.pc \notin {"new", "failed", "initialized", "running"} \cup Starting /\ main'.pc # "pausing"
    BY <1>1, Zenon DEF Starting
  <2>3. main.pc # "pausing" /\ main.pc # "running" BY <1>0, Zenon
  <2>4. QED BY <2>1, <2>2, <2>3, Zenon DEF ServerInv, PauseInv
<1>7. ReqInv' BY ReqKept, Zenon DEF ServerInv
<1>8. QED BY <1>2, <1>3, <1>4, <1>5, <1>6, <1>7, Zenon DEF ServerInv

\* Stopping a listening thread keeps the invariant.
LEMMA StopListenerInv ==
  ASSUME ServerInv, NEW l \in Listeners, StopListener(l)
  PROVE  ServerInv'
<1> USE DEF StopListener
<1>0. main.pc = "stopping listeners" /\ l \in Threads /\ loop[l] = "kRunning" BY ThreadsSplit, Zenon
<1>1. PhaseInv' BY Zenon DEF ServerInv, PhaseInv, Started
<1>2. loop \in [Threads -> Loops] BY Zenon DEF ServerInv, LoopInv
<1>3. loop' \in [Threads -> Loops] /\ loop'[l] = "kStopping" /\ \A t \in Threads : t # l => loop'[t] = loop[t]
  BY <1>0, <1>2, Zenon DEF Loops
<1>4. LoopInv'
  <2>1. \A w \in Workers : loop'[w] = loop[w] BY <1>3, ThreadsSplit, Zenon
  <2>2. \A k \in Listeners : loop'[k] # "kNull" BY <1>0, <1>3, ThreadsSplit, Zenon DEF ServerInv, LoopInv
  <2>3. main.pc \notin {"new", "failed", "initialized", "stopped", "destroyed", "stopping pool"} \cup Starting \cup Serving
    BY <1>0, Zenon DEF Starting, Serving
  <2>4. QED BY <1>3, <2>1, <2>2, <2>3, Zenon DEF ServerInv, LoopInv
<1>5. ServiceInv'
  <2>1. \A k \in Listeners : loop'[k] = "kStopped" <=> loop[k] = "kStopped"
    BY <1>0, <1>3, ThreadsSplit, Zenon
  <2>2. QED BY <1>0, <2>1, ServiceKept, Zenon DEF ServerInv
<1> DEFINE f == <<"Stop">>
<1>7. f \in ListenerFunctors BY PlainFunctors, Zenon
<1>8. QueuesTyped /\ {l} \in SUBSET Threads /\ {l} \cap Workers = {}
  BY <1>0, ThreadsSplit, Zenon DEF ServerInv, QueueInv
<1>9. /\ QueuesTyped' /\ Undisturbed(f) /\ \A t \in Threads \ {l} : queue'[t] = queue[t]
  BY <1>7, <1>8, QueuedAll, Zenon
<1>10. QueueInv'
  <2>1. \A t \in Threads : InQueue(queue'[t], <<"Stop">>) => loop'[t] = "kStopping"
    BY <1>3, <1>9, Zenon DEF ServerInv, QueueInv
  <2>2. \A t \in Threads : loop'[t] \in {"kNull", "exiting", "kStopped"} => queue'[t] = <<>> /\ busy[t] = {}
    BY <1>3, <1>9, Zenon DEF ServerInv, QueueInv
  <2>3. QED BY <1>9, <2>1, <2>2, Zenon DEF QueueInv
<1>11. PauseInv' BY <1>9, FunctorsDiffer, PausedKept, Zenon DEF ServerInv, PauseInv
<1>12. ReqInv'
  <2>1. (\A i : f # <<"Handle", i>>) /\ \A i, c : f # <<"Reply", i, c>> BY PlainFunctors, Zenon
  <2>2. \A t \in Threads : loop[t] # "kNull" => loop'[t] # "kNull" BY <1>3, Zenon
  <2>3. QED BY <1>9, <2>1, <2>2, ReqKeptQueued, Zenon DEF ServerInv
<1>13. QED BY <1>1, <1>4, <1>5, <1>10, <1>11, <1>12, Zenon DEF ServerInv

\* The return of Stop, when every listening thread has ended, keeps the invariant.
LEMMA StopReturnsInv ==
  ASSUME ServerInv, serverOk, StopReturns
  PROVE  ServerInv'
<1> USE DEF StopReturns
<1>0. main.pc = "stopping listeners" /\ main = [x \in {"pc", "at"} |-> main[x]]
  BY Zenon DEF ServerInv, PhaseInv
<1>1. main'.pc = "stopped" /\ main' = [x \in {"pc", "at"} |-> main'[x]] BY <1>0, GotoMain, Zenon
<1>2. \A l \in Listeners : ~service[l].evhttp BY <1>0, Zenon DEF ServerInv, ServiceInv
<1>3. PhaseInv'
  <2>1. serverOk' BY <1>2, Zenon DEF Holds
  <2>2. QED BY <1>1, <2>1, Zenon DEF PhaseInv, Starting, Serving
<1>4. LoopInv' BY <1>0, <1>1, Zenon DEF ServerInv, LoopInv, Starting, Serving
<1>5. ServiceInv' BY <1>0, ServiceKept, Zenon DEF ServerInv
<1>6. QueueInv' BY Zenon DEF ServerInv, QueueInv, QueuesTyped
<1>7. PauseInv'
  <2>1. HasPaused' = HasPaused BY Zenon DEF HasPaused
  <2>2. main'.pc \notin {"new", "failed", "initialized", "running"} \cup Starting /\ main'.pc # "pausing"
    BY <1>1, Zenon DEF Starting
  <2>3. main.pc # "pausing" /\ main.pc # "running" BY <1>0, Zenon
  <2>4. QED BY <2>1, <2>2, <2>3, Zenon DEF ServerInv, PauseInv
<1>8. ReqInv' BY ReqKept, Zenon DEF ServerInv
<1>9. QED BY <1>3, <1>4, <1>5, <1>6, <1>7, <1>8, Zenon DEF ServerInv

\* The destructor keeps the invariant.
LEMMA DestroyServerInv ==
  ASSUME ServerInv, serverOk, DestroyServer
  PROVE  ServerInv'
<1> USE DEF DestroyServer
<1>0. main.pc \in {"new", "failed", "initialized", "stopped"} /\ main = [x \in {"pc", "at"} |-> main[x]]
  BY Zenon DEF ServerInv, PhaseInv
<1>1. main'.pc = "destroyed" /\ main' = [x \in {"pc", "at"} |-> main'[x]] BY <1>0, GotoMain, Zenon
<1>2. PhaseInv'
  <2>1. status # "kRunning" BY <1>0, Zenon DEF ServerInv, PhaseInv
  <2>2. Started => serverOk'
    <3>1. CASE main.pc = "stopped"
      <4>1. pool = "reset" BY <3>1, Zenon DEF ServerInv, PhaseInv
      <4>2. \A l \in Listeners : loop[l] = "kStopped" BY <3>1, Zenon DEF ServerInv, LoopInv
      <4>3. \A l \in Listeners : ~service[l].evhttp BY <3>1, <4>2, Zenon DEF ServerInv, ServiceInv
      <4>4. QED BY <4>1, <4>3, Zenon DEF Holds
    <3>2. CASE main.pc \in {"new", "failed"}
      <4>1. status \in {"kNull", "kInitializing"} BY <3>2, Zenon DEF ServerInv, PhaseInv
      <4>2. QED BY <4>1, Zenon DEF Started
    <3>3. CASE main.pc = "initialized"
      <4>1. status = "kInitialized" BY <3>3, Zenon DEF ServerInv, PhaseInv
      <4>2. QED BY <4>1, Zenon DEF Started
    <3>4. QED BY <1>0, <3>1, <3>2, <3>3, Zenon
  <2>3. (Started => serverOk)' BY <2>2, Zenon DEF Started
  <2>4. QED BY <1>1, <2>1, <2>3, Zenon DEF PhaseInv, Starting, Serving
<1>3. LoopInv'
  <2>1. \A t \in Threads : loop[t] \in {"kNull", "kStopped"}
    <3>1. CASE main.pc = "stopped"
      <4>1. \A t \in Threads : t \in Listeners \/ t \in workers \/ t \in Workers \ workers
        BY ThreadsSplit, Zenon
      <4>2. QED BY <3>1, <4>1, Zenon DEF ServerInv, LoopInv
    <3>2. CASE main.pc \in {"new", "failed", "initialized"} BY <3>2, Zenon DEF ServerInv, LoopInv
    <3>3. QED BY <1>0, <3>1, <3>2, Zenon
  <2>2. QED BY <1>1, <2>1, Zenon DEF ServerInv, LoopInv, Starting, Serving
<1>4. ServiceInv' BY <1>1, Zenon DEF ServerInv, ServiceInv
<1>5. QueueInv' BY Zenon DEF ServerInv, QueueInv, QueuesTyped
<1>6. PauseInv'
  <2>1. HasPaused' = HasPaused BY Zenon DEF HasPaused
  <2>2. main'.pc \notin {"new", "failed", "initialized", "running"} \cup Starting /\ main'.pc # "pausing"
    BY <1>1, Zenon DEF Starting
  <2>3. main.pc # "pausing" /\ main.pc # "running" BY <1>0, Zenon
  <2>4. QED BY <2>1, <2>2, <2>3, Zenon DEF ServerInv, PauseInv
<1>7. ReqInv' BY ReqKept, Zenon DEF ServerInv
<1>8. QED BY <1>2, <1>3, <1>4, <1>5, <1>6, <1>7, Zenon DEF ServerInv

-----------------------------------------------------------------------------
(* The steps of the loops.                                                 *)

\* A step that touches request i and functor f only.
Moved(i) ==
  /\ req' = [j \in Requests |-> req'[j]] /\ IsReq(req'[i]) /\ req'[i].at = req[i].at
  /\ \A j \in Requests : j # i => req'[j] = req[j]
\* The loop of t goes on to v; request i is in state s, replied or not; the threads in the middle
\* of requests other than i stay.
Moves(t, v) == loop'[t] = v /\ \A u \in Threads : u # t => loop'[u] = loop[u]
Stands(i, s, r) == req'[i].state = s /\ req'[i].replied = r
BusyMoved(i) ==
  /\ busy' \in [Threads -> SUBSET Requests]
  /\ \A t \in Threads : \A j, k \in busy'[t] : j = k
  /\ \A t \in Threads : \A j \in Requests : j # i => (j \in busy'[t] <=> j \in busy[t])
\* A step of request i alone: f is its functor, when it has one.
OnlyRequest(i, f) ==
  /\ Moved(i) /\ BusyMoved(i) /\ Undisturbed(f)
  /\ \A j, c : j # i => f # <<"Handle", j>> /\ f # <<"Reply", j, c>>
  /\ \A t \in Threads : loop[t] # "kNull" => loop'[t] # "kNull"

\* A step of one request needs to keep only the invariant of that one.
LEMMA ReqMoved ==
  ASSUME ReqInv, NEW i \in Requests, NEW f, OnlyRequest(i, f), RequestInv(i)'
  PROVE  ReqInv'
<1>1. ASSUME NEW j \in Requests, j # i PROVE SameFor(j)
  <2>1. req'[j] = req[j] /\ <<"Handle", j>> # f /\ \A c : <<"Reply", j, c>> # f
    BY <1>1, Zenon DEF OnlyRequest, Moved
  <2>2. ASSUME NEW t \in Threads
        PROVE  /\ i \in Requests /\ (j \in busy'[t] <=> j \in busy[t])
               /\ loop[t] # "kNull" => loop'[t] # "kNull"
    BY <1>1, Zenon DEF OnlyRequest, BusyMoved
  <2>3. ASSUME NEW t \in Threads, NEW g, g # f
        PROVE  /\ InQueue(queue'[t], g) <=> InQueue(queue[t], g)
               /\ AtMostOnce(queue[t], g) => AtMostOnce(queue'[t], g)
    BY <2>3, Zenon DEF OnlyRequest, Undisturbed
  <2>4. QED BY <2>1, <2>2, <2>3, Zenon DEF SameFor
<1>2. \A j \in Requests : RequestInv(j)' BY <1>1, SameForInv, Zenon DEF ReqInv
<1>3. QED BY <1>2, Zenon DEF ReqInv, ReqsTyped, OnlyRequest, Moved, BusyMoved

\* Thread t begins or ends with a request, and no other does.
BusyBecomes(t, b) == busy' = [busy EXCEPT ![t] = b]
BusyNow(t, b) == busy'[t] = b /\ \A u \in Threads : u # t => busy'[u] = busy[u]

\* A thread that begins or ends with request i leaves the other requests alone.
LEMMA BusySet ==
  ASSUME ReqsTyped, NEW i \in Requests, NEW t \in Threads, busy[t] \subseteq {i}, NEW b \in {{}, {i}}, BusyBecomes(t, b)
  PROVE  BusyMoved(i) /\ BusyNow(t, b)
<1>1. busy \in [Threads -> SUBSET Requests] BY Zenon DEF ReqsTyped
<1>2. busy'[t] = b /\ \A u \in Threads : u # t => busy'[u] = busy[u] BY <1>1, Zenon DEF BusyBecomes
<1>3. busy' \in [Threads -> SUBSET Requests] BY <1>1, Zenon DEF BusyBecomes
<1>4. ASSUME NEW u \in Threads, NEW j \in busy'[u], NEW k \in busy'[u] PROVE j = k
  <2>1. CASE u = t BY <1>2, <2>1, Zenon
  <2>2. CASE u # t BY <1>2, <2>2, Zenon DEF ReqsTyped
  <2>3. QED BY <2>1, <2>2, Zenon
<1>5. ASSUME NEW u \in Threads, NEW j \in Requests, j # i PROVE j \in busy'[u] <=> j \in busy[u]
  <2>1. CASE u = t
    <3>1. j \notin busy[t] /\ j \notin b BY <1>5, Zenon
    <3>2. QED BY <1>2, <2>1, <3>1, Zenon
  <2>2. CASE u # t BY <1>2, <2>2, Zenon
  <2>3. QED BY <2>1, <2>2, Zenon
<1>6. QED BY <1>2, <1>3, <1>4, <1>5, Zenon DEF BusyMoved, BusyNow

\* When no thread begins or ends, it is so too.
LEMMA BusySame == ASSUME ReqsTyped, NEW i, busy' = busy PROVE BusyMoved(i)
BY Zenon DEF ReqsTyped, BusyMoved

\* Queues that stay leave every functor alone.
LEMMA KeptSame == ASSUME NEW f, queue' = queue PROVE Undisturbed(f)
BY Zenon DEF Undisturbed

\* A request that nobody has begun to handle, or that was dropped, is nowhere.
LEMMA Nowhere ==
  ASSUME NEW i \in Requests, RequestInv(i), req[i].state \in {"none", "sent", "dropped", "discarded", "closed"}
  PROVE  /\ \A t \in Threads : i \notin busy[t]
         /\ \A w \in Workers : ~InQueue(queue[w], <<"Handle", i>>)
         /\ \A l \in Listeners, c \in Answers : ~InQueue(queue[l], <<"Reply", i, c>>)
         /\ ~req[i].replied
<1>1. req[i].state \notin {"dispatching", "handling", "replying", "forwarded", "replied", "answered"}
  BY Zenon
<1>2. QED BY <1>1, ThreadsSplit, Zenon DEF RequestInv, AtThread, HandleQueued, ReplyQueued,
   ReplyMade

\* Service::HandleRequest keeps the invariant, with a handler or without, running or stopping.
LEMMA HandleRequestInv ==
  ASSUME ServerInv, NEW i \in Requests, NEW uri, HandleRequest(i, uri)
  PROVE  ServerInv'
<1> DEFINE l == req[i].at
           handled == HandlerOf(uri, service[l].handlers) \in service[l].handlers
           running == status = "kRunning"
           s == IF ~handled THEN "answered" ELSE IF running THEN "dispatching" ELSE "dropped"
           b == IF handled /\ running THEN {i} ELSE {}
           c == IF handled THEN 0 ELSE 400
<1>1. /\ req[i].state = "sent" /\ l \in Listeners /\ l \in Threads /\ l \notin Workers /\ busy[l] = {}
      /\ loop[l] \in {"kRunning", "kStopping", "exiting"} /\ RequestInv(i) /\ ReqsTyped
  BY ThreadsSplit, Zenon DEF HandleRequest, ServerInv, ReqInv, RequestInv, Idle
<1>2. req' = [req EXCEPT ![i].fresh = FALSE, ![i].code = c, ![i].state = s] /\ BusyBecomes(l, b)
  BY Zenon DEF HandleRequest, BusyBecomes
<1>u. /\ status' = status /\ main' = main /\ workers' = workers /\ pool' = pool /\ loop' = loop /\ queue' = queue
      /\ service' = service /\ paused' = paused /\ serverOk' = serverOk
  BY Zenon DEF HandleRequest
<1>3. b \in {{}, {i}} /\ s \in {"answered", "dispatching", "dropped"} /\ (b = {i} => s = "dispatching" /\ running)
  BY Zenon
<1>4. Moved(i) /\ req'[i].state = s /\ req'[i].replied = req[i].replied
  <2>1. req = [j \in Requests |-> req[j]] /\ IsReq(req[i]) BY <1>1, Zenon DEF ReqsTyped, RequestInv
  <2> HIDE DEF s, c, l
  <2>2. /\ req' = [j \in Requests |-> req'[j]] /\ \A j \in Requests : j # i => req'[j] = req[j]
        /\ req'[i] = [[[req[i] EXCEPT !.fresh = FALSE] EXCEPT !.code = c] EXCEPT !.state = s]
    BY <1>2, <2>1, Zenon
  <2>3. QED BY <2>1, <2>2, Zenon DEF Moved, IsReq
<1> HIDE DEF s, c, handled, b, l
<1>5. BusyMoved(i) /\ busy'[l] = b /\ \A u \in Threads : u # l => busy'[u] = busy[u]
  <2>1. busy[l] \subseteq {i} BY <1>1, Zenon
  <2>2. BusyMoved(i) /\ BusyNow(l, b) BY <1>1, <1>2, <1>3, <2>1, BusySet, Zenon
  <2>3. QED BY <2>2, Zenon DEF BusyNow
<1>6. PhaseInv' BY <1>u, Zenon DEF ServerInv, PhaseInv, Started
<1>7. LoopInv' BY <1>u, Zenon DEF ServerInv, LoopInv
<1>8. ServiceInv' BY <1>u, Zenon DEF ServerInv, ServiceInv
<1>9. b = {i} => main.pc = "running" /\ loop[l] = "kRunning"
  <2>1. b = {i} => main.pc = "running" BY <1>3, Zenon DEF ServerInv, PhaseInv
  <2>2. QED BY <1>1, <2>1, Zenon DEF ServerInv, LoopInv, Serving
<1>10. QueueInv'
  <2>1. \A t \in Threads : loop[t] \in {"kNull", "exiting", "kStopped"} => queue[t] = <<>> /\ busy'[t] = {}
    BY <1>3, <1>5, <1>9, Zenon DEF ServerInv, QueueInv
  <2>2. QED BY <1>u, <2>1, Zenon DEF ServerInv, QueueInv, QueuesTyped
<1>11. PauseInv'
  <2>1. HasPaused' = HasPaused BY <1>u, Zenon DEF HasPaused
  <2>2. \A k \in Listeners : busy'[k] # {} => main.pc = "running" \/ (main.pc = "pausing" /\ k \notin HasPaused)
    BY <1>3, <1>5, <1>9, ThreadsSplit, Zenon DEF ServerInv, PauseInv
  <2>3. QED BY <1>u, <2>1, <2>2, Zenon DEF ServerInv, PauseInv
<1>12. ReqInv'
  <2>1. /\ \A t \in Threads : i \notin busy[t]
        /\ \A w \in Workers : ~InQueue(queue[w], <<"Handle", i>>)
        /\ \A k \in Listeners, a \in Answers : ~InQueue(queue[k], <<"Reply", i, a>>)
        /\ ~req[i].replied
    BY <1>1, Nowhere, Zenon
  <2>2. AtThread(i)'
    <3>1. \A w \in Workers : i \notin busy'[w] BY <1>1, <1>5, <2>1, ThreadsSplit, Zenon
    <3>2. \A k \in Listeners : i \in busy'[k] => k = l /\ b = {i} BY <1>3, <1>5, <2>1, ThreadsSplit, Zenon
    <3>3. req'[i].at = l BY <1>4, Zenon DEF Moved, l
    <3>4. QED BY <1>3, <1>4, <3>1, <3>2, <3>3, Zenon DEF AtThread
  <2>3. HandleQueued(i)' BY <1>u, <1>1, <2>1, Zenon DEF RequestInv, HandleQueued
  <2>4. ReplyQueued(i)' BY <1>u, <2>1, Zenon DEF ReplyQueued
  <2>5. ReplyMade(i)' BY <1>3, <1>4, <2>1, Zenon DEF ReplyMade
  <2>6. RequestInv(i)' BY <1>u, <1>1, <1>4, <2>2, <2>3, <2>4, <2>5, Zenon DEF RequestInv, Moved, l
  <2>7. OnlyRequest(i, <<"Stop">>)
    <3>1. Undisturbed(<<"Stop">>) BY <1>u, KeptSame, Zenon
    <3>2. QED BY <1>u, <1>4, <1>5, <3>1, PlainFunctors, Zenon DEF OnlyRequest
  <2>8. QED BY <2>6, <2>7, ReqMoved, Zenon DEF ServerInv
<1>13. QED BY <1>6, <1>7, <1>8, <1>10, <1>11, <1>12, Zenon DEF ServerInv

\* A listener in the middle of a request: Stop has not begun to stop the pool.
LEMMA Dispatching ==
  ASSUME ServerInv, NEW l \in Listeners, NEW i \in busy[l]
  PROVE  /\ i \in Requests /\ RequestInv(i) /\ ReqsTyped /\ l \in Threads /\ l \notin Workers
         /\ req[i].state = "dispatching" /\ req[i].at = l /\ ~req[i].replied /\ busy[l] \subseteq {i}
         /\ \A t \in Threads : t # l => i \notin busy[t]
         /\ \A w \in Workers : ~InQueue(queue[w], <<"Handle", i>>)
         /\ \A k \in Listeners, c \in Answers : ~InQueue(queue[k], <<"Reply", i, c>>)
         /\ main.pc \in Serving /\ pool = "kRunning" /\ \A w \in workers : loop[w] = "kRunning"
<1>1. l \in Threads /\ l \notin Workers /\ ReqsTyped BY ThreadsSplit, Zenon DEF ServerInv, ReqInv
<1>2. i \in Requests BY <1>1, Zenon DEF ReqsTyped
<1>3. RequestInv(i) /\ busy[l] \subseteq {i} BY <1>1, <1>2, Zenon DEF ServerInv, ReqInv, ReqsTyped
<1>4. req[i].state = "dispatching" /\ req[i].at = l BY <1>3, Zenon DEF RequestInv, AtThread
<1>5. req[i].state \notin {"handling", "replying", "forwarded", "replied", "answered"} BY <1>4, Zenon
<1>6. /\ \A t \in Threads : t # l => i \notin busy[t]
      /\ \A w \in Workers : ~InQueue(queue[w], <<"Handle", i>>)
      /\ \A k \in Listeners, c \in Answers : ~InQueue(queue[k], <<"Reply", i, c>>)
      /\ ~req[i].replied
  BY <1>3, <1>4, <1>5, ThreadsSplit, Zenon DEF RequestInv, AtThread, HandleQueued, ReplyQueued,
     ReplyMade
<1>7. main.pc \in Serving BY Zenon DEF ServerInv, PauseInv, Serving
<1>8. QED BY <1>1, <1>2, <1>3, <1>4, <1>6, <1>7, Zenon DEF ServerInv, PhaseInv, LoopInv

\* What writing one field, or two, of a request does.
LEMMA StateSet ==
  ASSUME ReqsTyped, NEW i \in Requests, IsReq(req[i]), NEW s, req' = [req EXCEPT ![i].state = s]
  PROVE  Moved(i) /\ Stands(i, s, req[i].replied)
<1>1. req = [j \in Requests |-> req[j]] BY Zenon DEF ReqsTyped
<1>2. /\ req' = [j \in Requests |-> req'[j]] /\ \A j \in Requests : j # i => req'[j] = req[j]
      /\ req'[i] = [req[i] EXCEPT !.state = s]
  BY <1>1, Zenon
<1>3. QED BY <1>2, Zenon DEF Moved, IsReq, Stands

\* The same, of the state and of replied.
LEMMA ReplySet ==
  ASSUME ReqsTyped, NEW i \in Requests, IsReq(req[i]), NEW s, req' = [req EXCEPT ![i].state = s, ![i].replied = TRUE]
  PROVE  Moved(i) /\ Stands(i, s, TRUE)
<1>1. req = [j \in Requests |-> req[j]] BY Zenon DEF ReqsTyped
<1>2. /\ req' = [j \in Requests |-> req'[j]] /\ \A j \in Requests : j # i => req'[j] = req[j]
      /\ req'[i] = [[req[i] EXCEPT !.state = s] EXCEPT !.replied = TRUE]
  BY <1>1, Zenon
<1>3. QED BY <1>2, Zenon DEF Moved, IsReq, Stands

\* Dispatch to a worker keeps the invariant: the pool still has a loop to give.
LEMMA DispatchInv ==
  ASSUME ServerInv, serverOk, NEW l \in Listeners, NEW i \in Requests, Dispatch(l, i)
  PROVE  ServerInv'
<1>0. i \in busy[l] BY Zenon DEF Dispatch
<1>1. /\ RequestInv(i) /\ ReqsTyped /\ l \in Threads /\ l \notin Workers
      /\ req[i].at = l /\ ~req[i].replied /\ busy[l] \subseteq {i}
      /\ \A t \in Threads : t # l => i \notin busy[t]
      /\ \A w \in Workers : ~InQueue(queue[w], <<"Handle", i>>)
      /\ \A k \in Listeners, c \in Answers : ~InQueue(queue[k], <<"Reply", i, c>>)
      /\ pool = "kRunning" /\ \A w \in workers : loop[w] = "kRunning"
  BY <1>0, Dispatching, Zenon
<1>2. PICK w \in workers : queue' = [queue EXCEPT ![w] = Append(@, <<"Handle", i>>)] BY Zenon DEF Dispatch
<1>3. /\ status' = status /\ main' = main /\ workers' = workers /\ pool' = pool /\ loop' = loop
      /\ service' = service /\ paused' = paused /\ serverOk'
  BY <1>1, Zenon DEF Dispatch, Holds
<1>4. BusyMoved(i) /\ busy'[l] = {} /\ \A u \in Threads : u # l => busy'[u] = busy[u]
  <2>1. BusyBecomes(l, {}) BY Zenon DEF Dispatch, BusyBecomes
  <2>2. BusyMoved(i) /\ BusyNow(l, {}) BY <1>1, <2>1, BusySet, Zenon
  <2>3. QED BY <2>2, Zenon DEF BusyNow
<1>5. Moved(i) /\ req'[i].state = "forwarded" /\ req'[i].replied = req[i].replied
  <2>1. IsReq(req[i]) BY <1>1, Zenon DEF RequestInv
  <2>2. Moved(i) /\ Stands(i, "forwarded", req[i].replied) BY <1>1, <2>1, StateSet, Zenon DEF Dispatch
  <2>3. QED BY <2>2, Zenon DEF Stands
<1> DEFINE f == <<"Handle", i>>
<1>6. /\ QueuesTyped' /\ Undisturbed(f) /\ \A t \in Threads : t # w => queue'[t] = queue[t]
      /\ AtMostOnce(queue'[w], f) /\ w \in Workers /\ w \in Threads
  <2>1. w \in Workers /\ w \in Threads /\ w \notin Listeners BY ThreadsSplit, Zenon DEF ServerInv, LoopInv
  <2>2. QueuesTyped BY Zenon DEF ServerInv, QueueInv
  <2>3. QueueAll({w}, f) BY <1>2, <2>1, <2>2, QueuedOne, Zenon
  <2>4. f \in WorkerFunctors BY Zenon DEF WorkerFunctors
  <2>5. {w} \in SUBSET Threads /\ {w} \cap Listeners = {} BY <2>1, Zenon
  <2>6. /\ QueuesTyped' /\ Undisturbed(f) /\ \A t \in Threads \ {w} : queue'[t] = queue[t]
        /\ \A t \in {w} : InQueue(queue'[t], f) /\ (~InQueue(queue[t], f) /\ AtMostOnce(queue[t], f) => AtMostOnce(queue'[t], f))
    BY <2>2, <2>3, <2>4, <2>5, QueuedAll, Zenon
  <2>7. ~InQueue(queue[w], f) /\ AtMostOnce(queue[w], f) BY <1>1, <2>1, Zenon DEF RequestInv, HandleQueued
  <2>8. QED BY <2>1, <2>6, <2>7, Zenon
<1>7. PhaseInv' BY <1>3, Zenon DEF ServerInv, PhaseInv
<1>8. LoopInv' BY <1>3, Zenon DEF ServerInv, LoopInv
<1>9. ServiceInv' BY <1>3, Zenon DEF ServerInv, ServiceInv
<1>10. QueueInv'
  <2>1. loop[w] = "kRunning" BY <1>1, Zenon
  <2>2. \A t \in Threads : loop[t] \in {"kNull", "exiting", "kStopped"} => queue'[t] = <<>> /\ busy'[t] = {}
    BY <1>4, <1>6, <2>1, Zenon DEF ServerInv, QueueInv
  <2>3. f # <<"Stop">> BY PlainFunctors, Zenon
  <2>4. \A t \in Threads : InQueue(queue'[t], <<"Stop">>) => loop[t] = "kStopping"
    BY <1>6, <2>3, Zenon DEF ServerInv, QueueInv, Undisturbed
  <2>5. QED BY <1>3, <1>6, <2>2, <2>4, Zenon DEF QueueInv
<1>11. PauseInv'
  <2>1. f # <<"PauseForStop">> BY PlainFunctors, Zenon
  <2>2. /\ HasPaused' = HasPaused
        /\ \A k \in Listeners : AtMostOnce(queue[k], <<"PauseForStop">>) => AtMostOnce(queue'[k], <<"PauseForStop">>)
    BY <1>6, <2>1, PausedKept, Zenon
  <2>3. \A k \in Listeners : busy'[k] # {} => main.pc = "running" \/ (main.pc = "pausing" /\ k \notin HasPaused)
    BY <1>4, ThreadsSplit, Zenon DEF ServerInv, PauseInv
  <2>4. QED BY <1>3, <2>2, <2>3, Zenon DEF ServerInv, PauseInv
<1>12. ReqInv'
  <2>1. \A t \in Threads : i \notin busy'[t] BY <1>1, <1>4, Zenon
  <2>2. AtThread(i)' BY <2>1, ThreadsSplit, Zenon DEF AtThread
  <2>3. HandleQueued(i)'
    <3>1. \A v \in Workers : InQueue(queue'[v], f) => v = w BY <1>1, <1>6, ThreadsSplit, Zenon
    <3>2. \A v \in Workers : AtMostOnce(queue'[v], f)
      BY <1>1, <1>6, ThreadsSplit, Zenon DEF RequestInv, HandleQueued
    <3>3. QED BY <1>5, <3>1, <3>2, Zenon DEF HandleQueued
  <2>4. ReplyQueued(i)'
    <3>1. \A k \in Listeners : k # w /\ k \in Threads BY <1>6, ThreadsSplit, Zenon
    <3>2. QED BY <1>1, <1>6, <3>1, Zenon DEF ReplyQueued
  <2>5. ReplyMade(i)' BY <1>1, <1>5, Zenon DEF ReplyMade
  <2>6. loop[l] # "kNull" BY <1>0, <1>1, Zenon DEF ServerInv, QueueInv
  <2>7. RequestInv(i)' BY <1>1, <1>3, <1>5, <2>2, <2>3, <2>4, <2>5, <2>6, Zenon DEF RequestInv, Moved
  <2>8. OnlyRequest(i, f)
    <3>1. \A j, c : j # i => f # <<"Handle", j>> /\ f # <<"Reply", j, c>> BY SMT
    <3>2. QED BY <1>3, <1>4, <1>5, <1>6, <3>1, Zenon DEF OnlyRequest
  <2>9. QED BY <2>7, <2>8, ReqMoved, Zenon DEF ServerInv
<1>13. QED BY <1>7, <1>8, <1>9, <1>10, <1>11, <1>12, Zenon DEF ServerInv

\* Dispatch of a server without workers keeps the invariant.
LEMMA DispatchHereInv ==
  ASSUME ServerInv, serverOk, NEW l \in Listeners, NEW i \in Requests, NEW code, DispatchHere(l, i, code)
  PROVE  ServerInv'
<1>0. i \in busy[l] BY Zenon DEF DispatchHere
<1>1. /\ RequestInv(i) /\ ReqsTyped /\ l \in Threads /\ l \notin Workers
      /\ req[i].at = l /\ ~req[i].replied /\ busy[l] \subseteq {i}
      /\ \A t \in Threads : t # l => i \notin busy[t]
      /\ \A w \in Workers : ~InQueue(queue[w], <<"Handle", i>>)
      /\ \A k \in Listeners, c \in Answers : ~InQueue(queue[k], <<"Reply", i, c>>)
      /\ pool = "kRunning"
  BY <1>0, Dispatching, Zenon
<1>3. /\ status' = status /\ main' = main /\ workers' = workers /\ pool' = pool /\ loop' = loop
      /\ queue' = queue /\ service' = service /\ paused' = paused /\ serverOk'
  BY <1>1, Zenon DEF DispatchHere, Holds
<1>4. BusyMoved(i) /\ busy'[l] = {} /\ \A u \in Threads : u # l => busy'[u] = busy[u]
  <2>1. BusyBecomes(l, {}) BY Zenon DEF DispatchHere, BusyBecomes
  <2>2. BusyMoved(i) /\ BusyNow(l, {}) BY <1>1, <2>1, BusySet, Zenon
  <2>3. QED BY <2>2, Zenon DEF BusyNow
<1>5. Moved(i) /\ ((req'[i].state = "dropped" /\ req'[i].replied = req[i].replied) \/ req'[i].state = "answered")
  <2>1. IsReq(req[i]) /\ req = [j \in Requests |-> req[j]] BY <1>1, Zenon DEF RequestInv, ReqsTyped
  <2> DEFINE n == IF status # "kRunning" THEN [req[i] EXCEPT !.state = "dropped"]
                  ELSE [req[i] EXCEPT !.state = "answered", !.replied = TRUE, !.code = code]
  <2>2. req' = [req EXCEPT ![i] = n] BY Zenon DEF DispatchHere
  <2>3. IsReq(n) /\ n.at = req[i].at /\ ((n.state = "dropped" /\ n.replied = req[i].replied) \/ n.state = "answered")
    <3>1. CASE status # "kRunning" BY <2>1, <3>1, Zenon DEF IsReq
    <3>2. CASE status = "kRunning"
      <4>1. n = [req[i] EXCEPT !.state = "answered", !.replied = TRUE, !.code = code] BY <3>2, Zenon
      <4>2. QED BY <2>1, <4>1, Zenon DEF IsReq
    <3>3. QED BY <3>1, <3>2, Zenon
  <2> HIDE DEF n
  <2>4. /\ req' = [j \in Requests |-> req'[j]] /\ \A j \in Requests : j # i => req'[j] = req[j]
        /\ req'[i] = n
    BY <2>1, <2>2, Zenon
  <2>5. QED BY <2>3, <2>4, Zenon DEF Moved
<1>7. PhaseInv' BY <1>3, Zenon DEF ServerInv, PhaseInv
<1>8. LoopInv' BY <1>3, Zenon DEF ServerInv, LoopInv
<1>9. ServiceInv' BY <1>3, Zenon DEF ServerInv, ServiceInv
<1>10. QueueInv'
  <2>1. \A t \in Threads : loop[t] \in {"kNull", "exiting", "kStopped"} => queue[t] = <<>> /\ busy'[t] = {}
    BY <1>4, Zenon DEF ServerInv, QueueInv
  <2>2. QED BY <1>3, <2>1, Zenon DEF ServerInv, QueueInv, QueuesTyped
<1>11. PauseInv'
  <2>1. HasPaused' = HasPaused BY <1>3, Zenon DEF HasPaused
  <2>2. \A k \in Listeners : busy'[k] # {} => main.pc = "running" \/ (main.pc = "pausing" /\ k \notin HasPaused)
    BY <1>4, ThreadsSplit, Zenon DEF ServerInv, PauseInv
  <2>3. QED BY <1>3, <2>1, <2>2, Zenon DEF ServerInv, PauseInv
<1>12. ReqInv'
  <2>1. \A t \in Threads : i \notin busy'[t] BY <1>1, <1>4, Zenon
  <2>2. AtThread(i)' BY <2>1, ThreadsSplit, Zenon DEF AtThread
  <2>3. HandleQueued(i)' BY <1>1, <1>3, Zenon DEF RequestInv, HandleQueued
  <2>4. ReplyQueued(i)' BY <1>1, <1>3, Zenon DEF ReplyQueued
  <2>5. ReplyMade(i)' BY <1>1, <1>5, Zenon DEF ReplyMade
  <2>6. loop[l] # "kNull" BY <1>0, <1>1, Zenon DEF ServerInv, QueueInv
  <2>7. RequestInv(i)' BY <1>1, <1>3, <1>5, <2>2, <2>3, <2>4, <2>5, <2>6, Zenon DEF RequestInv, Moved
  <2>8. OnlyRequest(i, <<"Stop">>)
    <3>1. Undisturbed(<<"Stop">>) BY <1>3, KeptSame, Zenon
    <3>2. QED BY <1>3, <1>4, <1>5, <3>1, PlainFunctors, Zenon DEF OnlyRequest
  <2>9. QED BY <2>7, <2>8, ReqMoved, Zenon DEF ServerInv
<1>13. QED BY <1>7, <1>8, <1>9, <1>10, <1>11, <1>12, Zenon DEF ServerInv

\* A worker in the middle of a request: its listener's loop runs and has its evhttp.
LEMMA WorkerBusy ==
  ASSUME ServerInv, NEW w \in Workers, NEW i \in busy[w]
  PROVE  /\ i \in Requests /\ RequestInv(i) /\ ReqsTyped /\ w \in Threads /\ w \notin Listeners
         /\ req[i].state \in {"handling", "replying"} /\ busy[w] \subseteq {i}
         /\ req[i].at \in Listeners /\ req[i].at \in Threads /\ req[i].at \notin Workers
         /\ \A t \in Threads : t # w => i \notin busy[t]
         /\ \A v \in Workers : ~InQueue(queue[v], <<"Handle", i>>)
         /\ \A l \in Listeners, c \in Answers : ~InQueue(queue[l], <<"Reply", i, c>>)
         /\ main.pc \notin {"stopped", "destroyed"} /\ loop[req[i].at] = "kRunning" /\ service[req[i].at].evhttp
<1>1. w \in Threads /\ w \notin Listeners /\ ReqsTyped BY ThreadsSplit, Zenon DEF ServerInv, ReqInv
<1>2. i \in Requests BY <1>1, Zenon DEF ReqsTyped
<1>3. RequestInv(i) /\ busy[w] \subseteq {i} BY <1>1, <1>2, Zenon DEF ServerInv, ReqInv, ReqsTyped
<1>4. req[i].state \in {"handling", "replying"} BY <1>3, Zenon DEF RequestInv, AtThread
<1>5. req[i].state \notin {"none", "sent", "dispatching", "forwarded", "replied", "answered"} BY <1>4, Zenon
<1>6. /\ \A t \in Threads : t # w => i \notin busy[t]
      /\ \A v \in Workers : ~InQueue(queue[v], <<"Handle", i>>)
      /\ \A l \in Listeners, c \in Answers : ~InQueue(queue[l], <<"Reply", i, c>>)
  BY <1>3, <1>5, ThreadsSplit, Zenon DEF RequestInv, AtThread, HandleQueued, ReplyQueued
<1>7. req[i].at \in Listeners /\ req[i].at \in Threads /\ req[i].at \notin Workers /\ loop[req[i].at] # "kNull"
  BY <1>3, <1>5, ThreadsSplit, Zenon DEF RequestInv
<1>8. loop[w] \notin {"kNull", "exiting", "kStopped"} BY <1>1, Zenon DEF ServerInv, QueueInv
<1>9. w \in workers BY <1>8, Zenon DEF ServerInv, LoopInv
<1>10. main.pc \notin {"new", "failed", "initialized", "stopping listeners", "stopped", "destroyed"}
  BY <1>1, <1>8, <1>9, Zenon DEF ServerInv, LoopInv
<1>11. main.pc \in Starting \cup Serving \cup {"stopping pool"} BY <1>10, Zenon DEF ServerInv, PhaseInv
<1>12. loop[req[i].at] = "kRunning" BY <1>7, <1>11, Zenon DEF ServerInv, LoopInv
<1>13. service[req[i].at].evhttp
  <2>1. loop[req[i].at] # "kStopped" BY <1>12, Zenon
  <2>2. service[req[i].at].evhttp = (loop[req[i].at] # "kStopped")
    BY <1>7, <1>10, Zenon DEF ServerInv, ServiceInv
  <2>3. QED BY <2>1, <2>2, Zenon
<1>14. QED BY <1>1, <1>2, <1>3, <1>4, <1>6, <1>7, <1>10, <1>12, <1>13, Zenon

\* A worker's callback that makes its reply keeps the invariant.
LEMMA SendReplyInv ==
  ASSUME ServerInv, serverOk, NEW w \in Workers, NEW i \in Requests, SendReply(w, i)
  PROVE  ServerInv'
<1>0. i \in busy[w] BY Zenon DEF SendReply
<1>1. /\ RequestInv(i) /\ ReqsTyped /\ w \in Threads /\ w \notin Listeners /\ req[i].at \in Listeners
      /\ \A t \in Threads : t # w => i \notin busy[t]
      /\ \A v \in Workers : ~InQueue(queue[v], <<"Handle", i>>)
      /\ \A l \in Listeners, c \in Answers : ~InQueue(queue[l], <<"Reply", i, c>>)
      /\ main.pc \notin {"stopped", "destroyed"} /\ loop[req[i].at] = "kRunning" /\ service[req[i].at].evhttp
  BY <1>0, WorkerBusy, Zenon
<1>2. /\ status' = status /\ main' = main /\ workers' = workers /\ pool' = pool /\ loop' = loop
      /\ queue' = queue /\ service' = service /\ paused' = paused /\ busy' = busy /\ serverOk'
      /\ req' = [req EXCEPT ![i].state = "replying", ![i].replied = TRUE]
  BY <1>1, Zenon DEF SendReply, Holds
<1>3. Moved(i) /\ req'[i].state = "replying"
  <2>1. IsReq(req[i]) BY <1>1, Zenon DEF RequestInv
  <2>2. Moved(i) /\ Stands(i, "replying", TRUE) BY <1>1, <1>2, <2>1, ReplySet, Zenon
  <2>3. QED BY <2>2, Zenon DEF Stands
<1>4. PhaseInv' BY <1>2, Zenon DEF ServerInv, PhaseInv
<1>5. LoopInv' BY <1>2, Zenon DEF ServerInv, LoopInv
<1>6. ServiceInv' BY <1>2, Zenon DEF ServerInv, ServiceInv
<1>7. QueueInv' BY <1>2, Zenon DEF ServerInv, QueueInv, QueuesTyped
<1>8. PauseInv' BY <1>2, Zenon DEF ServerInv, PauseInv, HasPaused
<1>9. ReqInv'
  <2>1. AtThread(i)' BY <1>1, <1>2, <1>3, ThreadsSplit, Zenon DEF RequestInv, AtThread
  <2>2. HandleQueued(i)' BY <1>1, <1>2, Zenon DEF RequestInv, HandleQueued
  <2>3. ReplyQueued(i)' BY <1>1, <1>2, Zenon DEF ReplyQueued
  <2>4. ReplyMade(i)' BY <1>0, <1>2, <1>3, Zenon DEF ReplyMade
  <2>5. RequestInv(i)' BY <1>1, <1>2, <1>3, <2>1, <2>2, <2>3, <2>4, Zenon DEF RequestInv, Moved
  <2>6. OnlyRequest(i, <<"Stop">>)
    <3>1. Undisturbed(<<"Stop">>) /\ BusyMoved(i) BY <1>1, <1>2, KeptSame, BusySame, Zenon
    <3>2. QED BY <1>2, <1>3, <3>1, PlainFunctors, Zenon DEF OnlyRequest
  <2>7. QED BY <2>5, <2>6, ReqMoved, Zenon DEF ServerInv
<1>10. QED BY <1>4, <1>5, <1>6, <1>7, <1>8, <1>9, Zenon DEF ServerInv

\* Queueing the reply in the listener's loop keeps the invariant.
LEMMA QueueReplyInv ==
  ASSUME ServerInv, NEW w \in Workers, NEW i \in Requests, NEW code \in Answers, QueueReply(w, i, code)
  PROVE  ServerInv'
<1>0. i \in busy[w] BY Zenon DEF QueueReply
<1> DEFINE l == req[i].at
<1>1. /\ RequestInv(i) /\ ReqsTyped /\ w \in Threads /\ w \notin Listeners /\ l \in Listeners
      /\ l \in Threads /\ l \notin Workers /\ busy[w] \subseteq {i}
      /\ \A t \in Threads : t # w => i \notin busy[t]
      /\ \A v \in Workers : ~InQueue(queue[v], <<"Handle", i>>)
      /\ \A k \in Listeners, c \in Answers : ~InQueue(queue[k], <<"Reply", i, c>>)
      /\ loop[l] = "kRunning"
  BY <1>0, WorkerBusy, Zenon
<1>2. /\ status' = status /\ main' = main /\ workers' = workers /\ pool' = pool /\ loop' = loop
      /\ service' = service /\ paused' = paused /\ serverOk' = serverOk
      /\ queue' = [queue EXCEPT ![l] = Append(@, <<"Reply", i, code>>)]
  BY <1>1, Zenon DEF QueueReply
<1>4. BusyMoved(i) /\ busy'[w] = {} /\ \A u \in Threads : u # w => busy'[u] = busy[u]
  <2>1. BusyBecomes(w, {}) BY Zenon DEF QueueReply, BusyBecomes
  <2>2. BusyMoved(i) /\ BusyNow(w, {}) BY <1>1, <2>1, BusySet, Zenon
  <2>3. QED BY <2>2, Zenon DEF BusyNow
<1>5. Moved(i) /\ req'[i].state = "replied" /\ req'[i].at = l
  <2>1. IsReq(req[i]) BY <1>1, Zenon DEF RequestInv
  <2>2. Moved(i) /\ Stands(i, "replied", req[i].replied) BY <1>1, <2>1, StateSet, Zenon DEF QueueReply
  <2>3. QED BY <2>2, Zenon DEF Stands, Moved
<1> DEFINE f == <<"Reply", i, code>>
<1> HIDE DEF l
<1>6. /\ QueuesTyped' /\ Undisturbed(f) /\ (\A t \in Threads : t # l => queue'[t] = queue[t]) /\ InQueue(queue'[l], f)
  <2>2. QueuesTyped BY Zenon DEF ServerInv, QueueInv
  <2>3. QueueAll({l}, f) BY <1>1, <1>2, <2>2, QueuedOne, Zenon
  <2>4. f \in ListenerFunctors BY SMT DEF ListenerFunctors
  <2>5. {l} \in SUBSET Threads /\ {l} \cap Workers = {} BY <1>1, Zenon
  <2>6. /\ QueuesTyped' /\ Undisturbed(f) /\ \A t \in Threads \ {l} : queue'[t] = queue[t]
        /\ \A t \in {l} : InQueue(queue'[t], f)
    BY <2>2, <2>3, <2>4, <2>5, QueuedAll, Zenon
  <2>7. QED BY <2>6, Zenon
<1>7. PhaseInv' BY <1>2, Zenon DEF ServerInv, PhaseInv, Started
<1>8. LoopInv' BY <1>2, Zenon DEF ServerInv, LoopInv
<1>9. ServiceInv' BY <1>2, Zenon DEF ServerInv, ServiceInv
<1>10. QueueInv'
  <2>2. \A t \in Threads : loop[t] \in {"kNull", "exiting", "kStopped"} => queue'[t] = <<>> /\ busy'[t] = {}
    BY <1>1, <1>4, <1>6, Zenon DEF ServerInv, QueueInv
  <2>3. f # <<"Stop">> BY PlainFunctors, Zenon
  <2>4. \A t \in Threads : InQueue(queue'[t], <<"Stop">>) => loop[t] = "kStopping"
    BY <1>6, <2>3, Zenon DEF ServerInv, QueueInv, Undisturbed
  <2>5. QED BY <1>2, <1>6, <2>2, <2>4, Zenon DEF QueueInv
<1>11. PauseInv'
  <2>1. f # <<"PauseForStop">> BY PlainFunctors, Zenon
  <2>2. /\ HasPaused' = HasPaused
        /\ \A k \in Listeners : AtMostOnce(queue[k], <<"PauseForStop">>) => AtMostOnce(queue'[k], <<"PauseForStop">>)
    BY <1>6, <2>1, PausedKept, Zenon
  <2>3. \A k \in Listeners : busy'[k] = busy[k] BY <1>1, <1>4, ThreadsSplit, Zenon
  <2>4. QED BY <1>2, <2>2, <2>3, Zenon DEF ServerInv, PauseInv
<1>12. ReqInv'
  <2>1. \A t \in Threads : i \notin busy'[t] BY <1>1, <1>4, Zenon
  <2>2. AtThread(i)' BY <2>1, ThreadsSplit, Zenon DEF AtThread
  <2>3. HandleQueued(i)'
    <3>1. \A v \in Workers : queue'[v] = queue[v] BY <1>1, <1>6, ThreadsSplit, Zenon
    <3>2. QED BY <1>1, <3>1, Zenon DEF RequestInv, HandleQueued
  <2>4. ReplyQueued(i)'
    <3>1. \A k \in Listeners : \A c \in Answers : InQueue(queue'[k], <<"Reply", i, c>>) => k = l
      BY <1>1, <1>6, ThreadsSplit, Zenon
    <3>2. QED BY <1>5, <3>1, Zenon DEF ReplyQueued
  <2>5. ReplyMade(i)' BY <1>5, <1>6, Zenon DEF ReplyMade
  <2>7. RequestInv(i)' BY <1>1, <1>2, <1>5, <2>2, <2>3, <2>4, <2>5, Zenon DEF RequestInv, Moved
  <2>8. OnlyRequest(i, f)
    <3>1. \A j, c : j # i => f # <<"Handle", j>> /\ f # <<"Reply", j, c>> BY SMT
    <3>2. QED BY <1>2, <1>4, <1>5, <1>6, <3>1, Zenon DEF OnlyRequest
  <2>9. QED BY <2>7, <2>8, ReqMoved, Zenon DEF ServerInv
<1>13. QED BY <1>7, <1>8, <1>9, <1>10, <1>11, <1>12, Zenon DEF ServerInv

\* A worker that takes a request of its queue keeps the invariant.
LEMMA HandleInv ==
  ASSUME ServerInv, NEW w \in Workers, NEW i \in Requests, Handle(w, i)
  PROVE  ServerInv'
<1> DEFINE f == <<"Handle", i>>
<1>1. /\ queue[w] # <<>> /\ Head(queue[w]) = f /\ queue' = [queue EXCEPT ![w] = Tail(@)]
      /\ busy[w] = {} /\ loop[w] \in {"kRunning", "kStopping", "exiting"}
  BY Zenon DEF Handle, Idle
<1>2. w \in Threads /\ w \notin Listeners /\ ReqsTyped /\ QueuesTyped /\ RequestInv(i)
  BY ThreadsSplit, Zenon DEF ServerInv, QueueInv, ReqInv
<1>3. /\ status' = status /\ main' = main /\ workers' = workers /\ pool' = pool /\ loop' = loop
      /\ service' = service /\ paused' = paused /\ serverOk' = serverOk
  BY Zenon DEF Handle
<1>4. /\ QueuesTyped' /\ Undisturbed(f)
      /\ \A t \in Threads : t # w => queue'[t] = queue[t]
      /\ \A t \in Threads : \A g : InQueue(queue'[t], g) => InQueue(queue[t], g)
      /\ \A t \in Threads : \A g : AtMostOnce(queue[t], g) => AtMostOnce(queue'[t], g)
      /\ InQueue(queue[w], f) /\ (AtMostOnce(queue[w], f) => ~InQueue(queue'[w], f))
  <2>1. /\ QueuesTyped' /\ Undisturbed(Head(queue[w]))
        /\ \A t \in Threads : t # w => queue'[t] = queue[t]
        /\ \A t \in Threads : \A g : InQueue(queue'[t], g) => InQueue(queue[t], g)
        /\ \A t \in Threads : \A g : AtMostOnce(queue[t], g) => AtMostOnce(queue'[t], g)
        /\ InQueue(queue[w], Head(queue[w])) /\ (AtMostOnce(queue[w], Head(queue[w])) => ~InQueue(queue'[w], Head(queue[w])))
    BY <1>1, <1>2, Dequeued, Zenon
  <2>2. QED BY <1>1, <2>1, Zenon
<1>5. /\ req[i].state = "forwarded" /\ \A v \in Workers : ~InQueue(queue'[v], f)
  <2>1. AtMostOnce(queue[w], f) /\ req[i].state = "forwarded"
    BY <1>2, <1>4, Zenon DEF RequestInv, HandleQueued
  <2>2. ASSUME NEW v \in Workers, v # w PROVE ~InQueue(queue[v], f)
    BY <1>2, <1>4, <2>2, Zenon DEF RequestInv, HandleQueued
  <2>3. QED BY <1>2, <1>4, <2>1, <2>2, ThreadsSplit, Zenon
<1>6. /\ \A t \in Threads : i \notin busy[t]
      /\ \A l \in Listeners, c \in Answers : ~InQueue(queue[l], <<"Reply", i, c>>)
      /\ ~req[i].replied /\ req[i].at \in Listeners /\ loop[req[i].at] # "kNull"
  <2>1. req[i].state \notin {"none", "sent", "dispatching", "handling", "replying", "replied", "answered"}
    BY <1>5, Zenon
  <2>2. QED BY <1>2, <2>1, ThreadsSplit, Zenon DEF RequestInv, AtThread, ReplyQueued, ReplyMade
<1>7. /\ Moved(i) /\ BusyMoved(i) /\ req'[i].replied = req[i].replied /\ \A u \in Threads : u # w => busy'[u] = busy[u]
      /\ \/ req'[i].state = "handling" /\ status = "kRunning"
         \/ req'[i].state = "dropped" /\ busy' = busy
  <2>1. IsReq(req[i]) BY <1>2, Zenon DEF RequestInv
  <2>2. CASE status = "kRunning"
    <3>1. BusyBecomes(w, {i}) /\ req' = [req EXCEPT ![i].state = "handling"]
      BY <2>2, Zenon DEF Handle, BusyBecomes
    <3>2. busy[w] \subseteq {i} BY <1>1, Zenon
    <3>3. BusyMoved(i) /\ BusyNow(w, {i}) BY <1>2, <3>1, <3>2, BusySet, Zenon
    <3>4. Moved(i) /\ Stands(i, "handling", req[i].replied) BY <1>2, <2>1, <3>1, StateSet, Zenon
    <3>5. QED BY <2>2, <3>3, <3>4, Zenon DEF BusyNow, Stands
  <2>3. CASE status # "kRunning"
    <3>1. busy' = busy /\ req' = [req EXCEPT ![i].state = "dropped"] BY <2>3, Zenon DEF Handle
    <3>2. BusyMoved(i) BY <1>2, <3>1, BusySame, Zenon
    <3>3. Moved(i) /\ Stands(i, "dropped", req[i].replied) BY <1>2, <2>1, <3>1, StateSet, Zenon
    <3>4. QED BY <3>1, <3>2, <3>3, Zenon DEF Stands
  <2>4. QED BY <2>2, <2>3, Zenon
<1>8. PhaseInv' BY <1>3, Zenon DEF ServerInv, PhaseInv, Started
<1>9. LoopInv' BY <1>3, Zenon DEF ServerInv, LoopInv
<1>10. ServiceInv' BY <1>3, Zenon DEF ServerInv, ServiceInv
<1>11. QueueInv'
  <2>1. loop[w] \notin {"kNull", "exiting", "kStopped"} BY <1>1, <1>2, Zenon DEF ServerInv, QueueInv
  <2>2. \A t \in Threads : loop[t] \in {"kNull", "exiting", "kStopped"} => queue'[t] = <<>> /\ busy'[t] = {}
    BY <1>4, <1>7, <2>1, Zenon DEF ServerInv, QueueInv
  <2>3. \A t \in Threads : InQueue(queue'[t], <<"Stop">>) => loop[t] = "kStopping"
    BY <1>4, Zenon DEF ServerInv, QueueInv
  <2>4. QED BY <1>3, <1>4, <2>2, <2>3, Zenon DEF QueueInv
<1>12. PauseInv'
  <2>1. f # <<"PauseForStop">> BY PlainFunctors, Zenon
  <2>2. /\ HasPaused' = HasPaused
        /\ \A k \in Listeners : AtMostOnce(queue[k], <<"PauseForStop">>) => AtMostOnce(queue'[k], <<"PauseForStop">>)
    BY <1>4, <2>1, PausedKept, Zenon
  <2>3. \A k \in Listeners : busy'[k] = busy[k] BY <1>2, <1>7, ThreadsSplit, Zenon
  <2>4. QED BY <1>3, <2>2, <2>3, Zenon DEF ServerInv, PauseInv
<1>13. ReqInv'
  <2>1. AtThread(i)'
    <3>1. \A l \in Listeners : i \notin busy'[l] BY <1>2, <1>6, <1>7, ThreadsSplit, Zenon
    <3>2. \A v \in Workers : i \in busy'[v] => v = w /\ req'[i].state = "handling"
      BY <1>6, <1>7, ThreadsSplit, Zenon
    <3>3. QED BY <3>1, <3>2, Zenon DEF AtThread
  <2>2. HandleQueued(i)'
    <3>1. \A v \in Workers : AtMostOnce(queue'[v], f)
      BY <1>2, <1>4, ThreadsSplit, Zenon DEF RequestInv, HandleQueued
    <3>2. QED BY <1>5, <3>1, Zenon DEF HandleQueued
  <2>3. ReplyQueued(i)' BY <1>4, <1>6, ThreadsSplit, Zenon DEF ReplyQueued
  <2>4. ReplyMade(i)' BY <1>6, <1>7, Zenon DEF ReplyMade
  <2>5. RequestInv(i)' BY <1>3, <1>6, <1>7, <2>1, <2>2, <2>3, <2>4, Zenon DEF RequestInv, Moved
  <2>6. OnlyRequest(i, f)
    <3>1. \A j, c : j # i => f # <<"Handle", j>> /\ f # <<"Reply", j, c>> BY SMT
    <3>2. QED BY <1>3, <1>4, <1>7, <3>1, Zenon DEF OnlyRequest
  <2>7. QED BY <2>5, <2>6, ReqMoved, Zenon DEF ServerInv
<1>14. QED BY <1>8, <1>9, <1>10, <1>11, <1>12, <1>13, Zenon DEF ServerInv

\* StopInLoop that finds more functors runs after them.
LEMMA Rotated ==
  ASSUME NEW S, NEW s \in Seq(S), s # <<>>
  PROVE  LET r == IF Tail(s) # <<>> THEN Append(Tail(s), Head(s)) ELSE Tail(s)
         IN  /\ r \in Seq(S)
             /\ \A g : g # Head(s) => (InQueue(r, g) <=> InQueue(s, g)) /\ (AtMostOnce(s, g) => AtMostOnce(r, g))
             /\ s = <<Head(s)>> => r = <<>>
<1> DEFINE h == Head(s)
           t == Tail(s)
           a == Append(t, h)
<1>1. /\ t \in Seq(S) /\ h \in S
      /\ \A g : InQueue(s, g) <=> InQueue(t, g) \/ g = h
      /\ \A g : AtMostOnce(s, g) => AtMostOnce(t, g)
  BY TailQueue, Zenon
<1>2. s = <<h>> => t = <<>>
  <2>1. \A x : Tail(<<x>>) = <<>> BY SMT
  <2> HIDE DEF h
  <2>2. QED BY <2>1, Zenon
<1> HIDE DEF t, h
<1>3. /\ a \in Seq(S)
      /\ \A g : InQueue(a, g) <=> InQueue(t, g) \/ g = h
      /\ \A g : AtMostOnce(t, g) /\ (g = h => ~InQueue(t, g)) => AtMostOnce(a, g)
  BY <1>1, AppendQueue, Zenon
<1> HIDE DEF a
<1> DEFINE r == IF t # <<>> THEN a ELSE t
<1>4. CASE t # <<>> BY <1>1, <1>2, <1>3, <1>4, Zenon DEF t, h, a
<1>5. CASE t = <<>> BY <1>1, <1>5, Zenon DEF t, h, a
<1>6. QED BY <1>4, <1>5, Zenon

\* A thread whose loop is stopping tells how far Stop is.
LEMMA StoppingPlace ==
  ASSUME ServerInv, NEW t \in Threads, loop[t] \in {"kStopping", "exiting"}
  PROVE  /\ t \in Listeners => main.pc = "stopping listeners"
         /\ t \in Workers => main.pc = "stopping pool" /\ t \in workers
<1>1. loop[t] \notin {"kNull", "kRunning", "kStopped"} BY Zenon
<1>2. CASE t \in Listeners
  <2>1. main.pc \notin {"new", "failed", "initialized", "stopping pool", "stopped", "destroyed"} \cup Starting \cup Serving
    BY <1>1, <1>2, Zenon DEF ServerInv, LoopInv
  <2>2. QED BY <1>2, <2>1, ThreadsSplit, Zenon DEF ServerInv, PhaseInv
<1>3. CASE t \in Workers
  <2>1. t \in workers BY <1>1, <1>3, Zenon DEF ServerInv, LoopInv
  <2>2. main.pc \notin {"new", "failed", "initialized", "stopping listeners", "stopped", "destroyed"} \cup Starting \cup Serving
    BY <1>1, <2>1, Zenon DEF ServerInv, LoopInv
  <2>3. QED BY <1>3, <2>1, <2>2, ThreadsSplit, Zenon DEF ServerInv, PhaseInv
<1>4. QED BY <1>2, <1>3, ThreadsSplit, Zenon

\* The loops, when that of t, which was stopping, goes on to v.
LEMMA StoppingOn ==
  ASSUME ServerInv, NEW t \in Threads, loop[t] \in {"kStopping", "exiting"}, NEW v \in {"kStopping", "exiting", "kStopped"},
         loop' = [loop EXCEPT ![t] = v], main' = main, workers' = workers
  PROVE  LoopInv' /\ Moves(t, v)
<1>1. /\ loop' \in [Threads -> Loops] /\ loop'[t] = v /\ \A u \in Threads : u # t => loop'[u] = loop[u]
      /\ v # "kNull"
  BY Zenon DEF ServerInv, LoopInv, Loops
<1>2. CASE t \in Listeners
  <2>1. main.pc = "stopping listeners" BY <1>2, StoppingPlace, Zenon
  <2>2. \A w \in Workers : loop'[w] = loop[w] BY <1>1, <1>2, ThreadsSplit, Zenon
  <2>3. \A l \in Listeners : loop'[l] # "kNull" BY <1>1, <2>1, ThreadsSplit, Zenon DEF ServerInv, LoopInv
  <2>4. LoopInv' BY <1>1, <2>1, <2>2, <2>3, Zenon DEF ServerInv, LoopInv, Starting, Serving
  <2>5. QED BY <1>1, <2>4, Zenon DEF Moves
<1>3. CASE t \in Workers
  <2>1. main.pc = "stopping pool" /\ t \in workers BY <1>3, StoppingPlace, Zenon
  <2>2. \A l \in Listeners : loop'[l] = loop[l] BY <1>1, <1>3, ThreadsSplit, Zenon
  <2>3. \A w \in Workers \ workers : loop'[w] = loop[w] BY <1>1, <2>1, ThreadsSplit, Zenon
  <2>4. LoopInv' BY <1>1, <2>1, <2>2, <2>3, Zenon DEF ServerInv, LoopInv, Starting, Serving
  <2>5. QED BY <1>1, <2>4, Zenon DEF Moves
<1>4. QED BY <1>2, <1>3, ThreadsSplit, Zenon

\* StopInLoop keeps the invariant.
LEMMA RunStopInv ==
  ASSUME ServerInv, NEW t \in Threads, RunQueued(t), Head(queue[t])[1] = "Stop"
  PROVE  ServerInv'
<1> DEFINE q == queue[t]
           f == <<"Stop">>
           r == IF Tail(q) # <<>> THEN Append(Tail(q), Head(q)) ELSE Tail(q)
           v == IF q = <<f>> THEN "exiting" ELSE loop[t]
<1>1. q # <<>> /\ busy[t] = {} BY Zenon DEF RunQueued, Idle
<1>2. /\ status' = status /\ main' = main /\ workers' = workers /\ pool' = pool /\ service' = service
      /\ paused' = paused /\ serverOk' = serverOk /\ req' = req /\ busy' = busy
      /\ queue' = [queue EXCEPT ![t] = r] /\ loop' = [loop EXCEPT ![t] = v]
  BY Zenon DEF RunQueued
<1>3. QueuesTyped BY Zenon DEF ServerInv, QueueInv
<1>4. /\ t \in Listeners => r \in Seq(ListenerFunctors) /\ Head(q) \in ListenerFunctors
      /\ t \in Workers => r \in Seq(WorkerFunctors) /\ Head(q) \in WorkerFunctors
      /\ \A g : g # Head(q) => (InQueue(r, g) <=> InQueue(q, g)) /\ (AtMostOnce(q, g) => AtMostOnce(r, g))
      /\ q = <<Head(q)>> => r = <<>>
      /\ InQueue(q, Head(q))
  <2>1. CASE t \in Listeners
    <3>1. q \in Seq(ListenerFunctors) /\ t \notin Workers BY <1>3, <2>1, ThreadsSplit, Zenon DEF QueuesTyped
    <3>2. QED BY <1>1, <3>1, Rotated, TailQueue, Zenon
  <2>2. CASE t \in Workers
    <3>1. q \in Seq(WorkerFunctors) /\ t \notin Listeners BY <1>3, <2>2, ThreadsSplit, Zenon DEF QueuesTyped
    <3>2. QED BY <1>1, <3>1, Rotated, TailQueue, Zenon
  <2>3. QED BY <2>1, <2>2, ThreadsSplit, Zenon
<1> HIDE DEF r
<1>5. Head(q) = f /\ loop[t] = "kStopping"
  <2>1. Head(q)[1] = "Stop" /\ Head(q)[1] # "Handle" BY Zenon
  <2>2. t \in Listeners => Head(q) = f
    <3> SUFFICES ASSUME t \in Listeners PROVE Head(q) = f OBVIOUS
    <3>1. Head(q) \in ListenerFunctors BY <1>4, Zenon
    <3>2. QED BY <2>1, <3>1, ListenerKinds, Zenon
  <2>3. t \in Workers => Head(q) = f
    <3> SUFFICES ASSUME t \in Workers PROVE Head(q) = f OBVIOUS
    <3>1. Head(q) \in WorkerFunctors BY <1>4, Zenon
    <3>2. QED BY <2>1, <3>1, WorkerKinds, Zenon
  <2>4. Head(q) = f BY <2>2, <2>3, ThreadsSplit, Zenon
  <2>5. \A u \in Threads : InQueue(queue[u], f) => loop[u] = "kStopping" BY Zenon DEF ServerInv, QueueInv
  <2>6. InQueue(queue[t], f) BY <1>4, <2>4, Zenon
  <2>7. QED BY <2>4, <2>5, <2>6, Zenon
<1>6. v \in {"kStopping", "exiting"} /\ (v = "exiting" => r = <<>>) BY <1>4, <1>5, Zenon
<1> HIDE DEF v
<1>7. LoopInv' /\ loop'[t] = v /\ \A u \in Threads : u # t => loop'[u] = loop[u]
  <2>1. LoopInv' /\ Moves(t, v) BY <1>2, <1>5, <1>6, StoppingOn, Zenon
  <2>2. QED BY <2>1, Zenon DEF Moves
<1>8. /\ queue' = [u \in Threads |-> queue'[u]] /\ queue'[t] = r /\ \A u \in Threads : u # t => queue'[u] = queue[u]
  BY <1>2, <1>3, Zenon DEF QueuesTyped
<1>9. QueuesTyped'
  <2>1. \A l \in Listeners : queue'[l] \in Seq(ListenerFunctors)
    BY <1>3, <1>4, <1>8, ThreadsSplit, Zenon DEF QueuesTyped
  <2>2. \A w \in Workers : queue'[w] \in Seq(WorkerFunctors)
    BY <1>3, <1>4, <1>8, ThreadsSplit, Zenon DEF QueuesTyped
  <2>3. QED BY <1>8, <2>1, <2>2, Zenon DEF QueuesTyped
<1>10. Undisturbed(f)
  <2> SUFFICES ASSUME NEW u \in Threads, NEW g, g # f
               PROVE  /\ InQueue(queue'[u], g) <=> InQueue(queue[u], g)
                      /\ AtMostOnce(queue[u], g) => AtMostOnce(queue'[u], g)
    BY Zenon DEF Undisturbed
  <2>1. CASE u = t BY <1>4, <1>5, <1>8, <2>1, Zenon
  <2>2. CASE u # t BY <1>8, <2>2, Zenon
  <2>3. QED BY <2>1, <2>2, Zenon
<1>11. PhaseInv' BY <1>2, Zenon DEF ServerInv, PhaseInv, Started
<1>12. ServiceInv'
  <2>1. \A l \in Listeners : loop'[l] = "kStopped" <=> loop[l] = "kStopped"
    BY <1>5, <1>6, <1>7, ThreadsSplit, Zenon
  <2>2. main.pc \notin {"new", "failed", "destroyed"} BY <1>5, StoppingPlace, ThreadsSplit, Zenon
  <2>3. QED BY <1>2, <2>1, <2>2, ServiceKept, Zenon DEF ServerInv
<1>13. QueueInv'
  <2>1. ASSUME NEW u \in Threads, loop'[u] \in {"kNull", "exiting", "kStopped"} PROVE queue'[u] = <<>> /\ busy'[u] = {}
    <3>1. CASE u = t BY <1>1, <1>2, <1>6, <1>7, <1>8, <2>1, <3>1, Zenon
    <3>2. CASE u # t BY <1>2, <1>7, <1>8, <2>1, <3>2, Zenon DEF ServerInv, QueueInv
    <3>3. QED BY <3>1, <3>2, Zenon
  <2>2. ASSUME NEW u \in Threads, InQueue(queue'[u], <<"Stop">>) PROVE loop'[u] = "kStopping"
    <3>1. CASE u = t BY <1>6, <1>7, <1>8, <2>2, <3>1, EmptyQueue, Zenon
    <3>2. CASE u # t BY <1>7, <1>8, <2>2, <3>2, Zenon DEF ServerInv, QueueInv
    <3>3. QED BY <3>1, <3>2, Zenon
  <2>3. QED BY <1>9, <2>1, <2>2, Zenon DEF QueueInv
<1>14. PauseInv'
  <2>1. f # <<"PauseForStop">> BY FunctorsDiffer, Zenon
  <2>2. QED BY <1>2, <1>10, <2>1, PausedKept, Zenon DEF ServerInv, PauseInv
<1>15. ReqInv'
  <2>1. (\A i : f # <<"Handle", i>>) /\ \A i, c : f # <<"Reply", i, c>> BY PlainFunctors, Zenon
  <2>2. \A u \in Threads : loop[u] # "kNull" => loop'[u] # "kNull" BY <1>6, <1>7, Zenon
  <2>3. QED BY <1>2, <1>10, <2>1, <2>2, ReqKeptQueued, Zenon DEF ServerInv
<1>16. QED BY <1>7, <1>11, <1>12, <1>13, <1>14, <1>15, Zenon DEF ServerInv

\* A functor other than Stop is the first of its loop's queue, and leaves it.
LEMMA RunOther ==
  ASSUME ServerInv, NEW t \in Threads, RunQueued(t), Head(queue[t])[1] # "Stop"
  PROVE  LET f == Head(queue[t])
         IN  /\ QueuesTyped' /\ Undisturbed(f) /\ f \in ListenerFunctors /\ t \in Listeners
             /\ \A u \in Threads : u # t => queue'[u] = queue[u]
             /\ \A u \in Threads : \A g : InQueue(queue'[u], g) => InQueue(queue[u], g)
             /\ \A u \in Threads : \A g : AtMostOnce(queue[u], g) => AtMostOnce(queue'[u], g)
             /\ InQueue(queue[t], f) /\ (AtMostOnce(queue[t], f) => ~InQueue(queue'[t], f))
             /\ status' = status /\ main' = main /\ workers' = workers /\ pool' = pool /\ serverOk' = serverOk
             /\ busy' = busy /\ busy[t] = {} /\ PhaseInv' /\ LoopInv' /\ QueueInv' /\ Moves(t, loop[t])
<1> DEFINE f == Head(queue[t])
<1>1. queue[t] # <<>> /\ busy[t] = {} /\ f[1] # "Handle" BY Zenon DEF RunQueued, Idle
<1>2. /\ status' = status /\ main' = main /\ workers' = workers /\ pool' = pool /\ serverOk' = serverOk /\ busy' = busy
      /\ queue' = [queue EXCEPT ![t] = Tail(@)]
      /\ loop' = [loop EXCEPT ![t] = IF queue[t] = << <<"Stop">> >> THEN "exiting" ELSE @]
  BY Zenon DEF RunQueued
<1>3. QueuesTyped BY Zenon DEF ServerInv, QueueInv
<1>4. /\ QueuesTyped' /\ Undisturbed(f)
      /\ \A u \in Threads : u # t => queue'[u] = queue[u]
      /\ \A u \in Threads : \A g : InQueue(queue'[u], g) => InQueue(queue[u], g)
      /\ \A u \in Threads : \A g : AtMostOnce(queue[u], g) => AtMostOnce(queue'[u], g)
      /\ InQueue(queue[t], f) /\ (AtMostOnce(queue[t], f) => ~InQueue(queue'[t], f))
      /\ t \in Listeners => f \in ListenerFunctors
      /\ t \in Workers => f \in WorkerFunctors
  BY <1>1, <1>2, <1>3, Dequeued, Zenon
<1>5. t \notin Workers
  <2>1. ASSUME t \in Workers PROVE FALSE
    <3>1. f = <<"Stop">> BY <1>1, <1>4, <2>1, WorkerKinds, Zenon
    <3>2. f[1] = "Stop" BY <3>1
    <3>3. QED BY <3>2, Zenon
  <2>2. QED BY <2>1, Zenon
<1>6. loop' = loop
  <2>1. queue[t] # << <<"Stop">> >>
    <3>1. ASSUME queue[t] = << <<"Stop">> >> PROVE FALSE
      <4>1. f[1] = "Stop" BY <3>1, SMT
      <4>2. QED BY <4>1, Zenon
    <3>2. QED BY <3>1, Zenon
  <2>2. loop \in [Threads -> Loops] BY Zenon DEF ServerInv, LoopInv
  <2>3. QED BY <1>2, <2>1, <2>2, Zenon
<1>7. PhaseInv' BY <1>2, Zenon DEF ServerInv, PhaseInv, Started
<1>8. LoopInv' BY <1>2, <1>6, Zenon DEF ServerInv, LoopInv
<1>9. QueueInv'
  <2>1. ASSUME NEW u \in Threads, loop[u] \in {"kNull", "exiting", "kStopped"} PROVE queue'[u] = <<>> /\ busy'[u] = {}
    <3>1. queue[u] = <<>> /\ busy[u] = {} BY <2>1, Zenon DEF ServerInv, QueueInv
    <3>2. QED BY <1>1, <1>2, <1>4, <3>1, Zenon
  <2>2. \A u \in Threads : InQueue(queue'[u], <<"Stop">>) => loop[u] = "kStopping"
    BY <1>4, Zenon DEF ServerInv, QueueInv
  <2>3. QED BY <1>4, <1>6, <2>1, <2>2, Zenon DEF QueueInv
<1>10. Moves(t, loop[t]) BY <1>6, Zenon DEF Moves
<1>11. QED BY <1>1, <1>2, <1>4, <1>5, <1>7, <1>8, <1>9, <1>10, ThreadsSplit, Zenon

\* Pause, Continue and Stop's pause in the listener's loop keep the invariant; the last is counted.
LEMMA RunPauseInv ==
  ASSUME ListenersCounted, ServerInv, NEW t \in Threads, RunQueued(t),
         Head(queue[t])[1] \in {"Pause", "PauseForStop", "Continue"}
  PROVE  ServerInv'
<1> DEFINE f == Head(queue[t])
           e == f[1] = "Continue" /\ service[t].evhttp
<1>1. f[1] # "Stop" /\ f[1] # "Reply" BY Zenon
<1>2. /\ QueuesTyped' /\ Undisturbed(f) /\ f \in ListenerFunctors /\ t \in Listeners
      /\ \A u \in Threads : \A g : AtMostOnce(queue[u], g) => AtMostOnce(queue'[u], g)
      /\ \A u \in Threads : u # t => queue'[u] = queue[u]
      /\ InQueue(queue[t], f) /\ (AtMostOnce(queue[t], f) => ~InQueue(queue'[t], f))
      /\ status' = status /\ main' = main /\ workers' = workers /\ pool' = pool /\ serverOk' = serverOk
      /\ busy' = busy /\ busy[t] = {} /\ PhaseInv' /\ LoopInv' /\ QueueInv' /\ Moves(t, loop[t])
  BY <1>1, RunOther, Zenon
<1>3. /\ service' = [service EXCEPT ![t].enabled = e] /\ req' = req
      /\ paused' = IF f[1] = "PauseForStop" THEN paused + 1 ELSE paused
  BY <1>1, Zenon DEF RunQueued
<1>4. \A u \in Threads : loop'[u] = loop[u] BY <1>2, Zenon DEF Moves
<1> HIDE DEF e
<1>5. ServiceInv'
  <2>1. service = [l \in Listeners |-> service[l]] /\ IsService(service[t])
    BY <1>2, Zenon DEF ServerInv, ServiceInv
  <2>2. /\ service' = [l \in Listeners |-> service'[l]] /\ service'[t] = [service[t] EXCEPT !.enabled = e]
        /\ \A l \in Listeners : l # t => service'[l] = service[l]
    BY <1>2, <1>3, <2>1, Zenon
  <2>3. IsService(service'[t]) /\ service'[t].evhttp = service[t].evhttp BY <2>1, <2>2, Zenon DEF IsService
  <2>4. \A l \in Listeners : IsService(service'[l]) /\ service'[l].evhttp = service[l].evhttp
    BY <2>2, <2>3, Zenon DEF ServerInv, ServiceInv
  <2>5. \A l \in Listeners : loop'[l] = loop[l] BY <1>4, ThreadsSplit, Zenon
  <2>6. main.pc \notin {"new", "failed", "destroyed"} => \A l \in Listeners : service'[l].evhttp = (loop'[l] # "kStopped")
    BY <2>4, <2>5, Zenon DEF ServerInv, ServiceInv
  <2>7. QED BY <1>2, <2>2, <2>4, <2>6, Zenon DEF ServiceInv
<1>6. PauseInv'
  <2>1. \A l \in Listeners : AtMostOnce(queue'[l], <<"PauseForStop">>)
    BY <1>2, ThreadsSplit, Zenon DEF ServerInv, PauseInv
  <2>2. CASE f[1] # "PauseForStop"
    <3>1. f # <<"PauseForStop">> BY <1>2, <2>2, ListenerKinds, Zenon
    <3>2. HasPaused' = HasPaused BY <1>2, <3>1, PausedKept, Zenon
    <3>3. QED BY <1>2, <1>3, <2>1, <2>2, <3>2, Zenon DEF ServerInv, PauseInv
  <2>3. CASE f[1] = "PauseForStop"
    <3>1. f = <<"PauseForStop">> BY <1>2, <2>3, ListenerKinds, Zenon
    <3>2. AtMostOnce(queue[t], f) BY <1>2, <3>1, Zenon DEF ServerInv, PauseInv
    <3>3. t \notin HasPaused BY <1>2, <3>1, Zenon DEF HasPaused
    <3>4. HasPaused' = HasPaused \cup {t}
      <4>1. \A l \in Listeners : ~InQueue(queue'[l], <<"PauseForStop">>) <=> ~InQueue(queue[l], <<"PauseForStop">>) \/ l = t
        BY <1>2, <3>1, <3>2, ThreadsSplit, Zenon
      <4>2. QED BY <1>2, <4>1, Zenon DEF HasPaused
    <3>5. main.pc = "pausing" BY <1>2, <3>3, Zenon DEF ServerInv, PauseInv
    <3>6. Cardinality(HasPaused') = Cardinality(HasPaused) + 1
      <4>1. HasPaused \subseteq Listeners BY Zenon DEF HasPaused
      <4>2. QED BY <1>2, <3>3, <3>4, <4>1, Zenon DEF ListenersCounted
    <3>7. paused' = Cardinality(HasPaused') BY <1>3, <2>3, <3>5, <3>6, Zenon DEF ServerInv, PauseInv
    <3>8. \A l \in Listeners : busy'[l] # {} => main'.pc = "running" \/ (main'.pc = "pausing" /\ l \notin HasPaused')
      BY <1>2, <3>4, Zenon DEF ServerInv, PauseInv
    <3>9. main'.pc = "pausing" /\ main'.pc \notin {"new", "failed", "initialized", "running"} \cup Starting
      BY <1>2, <3>5, Zenon DEF Starting
    <3>10. QED BY <2>1, <3>7, <3>8, <3>9, Zenon DEF PauseInv
  <2>4. QED BY <2>2, <2>3, Zenon
<1>7. ReqInv'
  <2>1. (\A i : f # <<"Handle", i>>) /\ \A i, c : f # <<"Reply", i, c>>
    <3>1. ASSUME NEW i, f = <<"Handle", i>> PROVE FALSE
      <4>1. f[1] = "Handle" BY <3>1
      <4>2. QED BY <4>1, Zenon
    <3>2. ASSUME NEW i, NEW c, f = <<"Reply", i, c>> PROVE FALSE
      <4>1. f[1] = "Reply" BY <3>2
      <4>2. QED BY <4>1, Zenon
    <3>3. QED BY <3>1, <3>2, Zenon
  <2>2. \A u \in Threads : loop[u] # "kNull" => loop'[u] # "kNull" BY <1>4, Zenon
  <2>3. QED BY <1>2, <1>3, <2>1, <2>2, ReqKeptQueued, Zenon DEF ServerInv
<1>8. QED BY <1>2, <1>5, <1>6, <1>7, Zenon DEF ServerInv

\* The reply that is sent in the listener's loop keeps the invariant.
LEMMA RunReplyInv ==
  ASSUME ServerInv, NEW t \in Threads, RunQueued(t), Head(queue[t])[1] = "Reply"
  PROVE  ServerInv'
<1> DEFINE f == Head(queue[t])
<1>1. f[1] # "Stop" /\ f[1] # "PauseForStop" /\ f[1] \notin {"Pause", "PauseForStop", "Continue"} BY Zenon
<1>2. /\ QueuesTyped' /\ Undisturbed(f) /\ f \in ListenerFunctors /\ t \in Listeners
      /\ \A u \in Threads : \A g : InQueue(queue'[u], g) => InQueue(queue[u], g)
      /\ \A u \in Threads : \A g : AtMostOnce(queue[u], g) => AtMostOnce(queue'[u], g)
      /\ InQueue(queue[t], f)
      /\ status' = status /\ main' = main /\ workers' = workers /\ pool' = pool /\ serverOk' = serverOk
      /\ busy' = busy /\ busy[t] = {} /\ PhaseInv' /\ LoopInv' /\ QueueInv' /\ Moves(t, loop[t])
  BY <1>1, RunOther, Zenon
<1>3. PICK i \in Requests, c \in Answers : f = <<"Reply", i, c>> BY <1>2, ListenerKinds, Zenon
<1>4. f[2] = i /\ f[3] = c BY <1>3
<1>5. service' = service /\ paused' = paused /\ SendReplyInLoop(i, c) BY <1>1, <1>4, Zenon DEF RunQueued
<1>6. \A u \in Threads : loop'[u] = loop[u] BY <1>2, Zenon DEF Moves
<1>7. RequestInv(i) /\ ReqsTyped /\ IsReq(req[i]) BY Zenon DEF ServerInv, ReqInv, RequestInv
<1>8. req[i].at = t /\ req[i].state \in {"replied", "answered"}
  BY <1>2, <1>3, <1>7, Zenon DEF RequestInv, ReplyQueued
<1>9. service[t].evhttp
  <2>1. loop[t] \in {"kRunning", "kStopping", "exiting"} BY Zenon DEF RunQueued, Idle
  <2>2. loop[t] # "kNull" /\ loop[t] # "kStopped" BY <2>1, Zenon
  <2>3. main.pc \notin {"new", "failed", "destroyed"} BY <2>2, Zenon DEF ServerInv, LoopInv
  <2>4. service[t].evhttp = (loop[t] # "kStopped") BY <1>2, <2>3, Zenon DEF ServerInv, ServiceInv
  <2>5. QED BY <2>2, <2>4, Zenon
<1>10. Moved(i) /\ req'[i].state = "answered"
  <2>1. req = [j \in Requests |-> req[j]] BY <1>7, Zenon DEF ReqsTyped
  <2>2. req' = [req EXCEPT ![i].state = "answered", ![i].code = c]
    BY <1>5, <1>8, <1>9, Zenon DEF SendReplyInLoop
  <2>3. /\ req' = [j \in Requests |-> req'[j]] /\ \A j \in Requests : j # i => req'[j] = req[j]
        /\ req'[i] = [[req[i] EXCEPT !.state = "answered"] EXCEPT !.code = c]
    BY <2>1, <2>2, Zenon
  <2>4. QED BY <1>7, <2>3, Zenon DEF Moved, IsReq
<1>11. ServiceInv'
  <2>1. \A l \in Listeners : loop'[l] = loop[l] BY <1>6, ThreadsSplit, Zenon
  <2>2. \A l \in Listeners : (main.pc \notin {"new", "failed", "destroyed"}) => service'[l].evhttp = (loop'[l] # "kStopped")
    BY <1>5, <2>1, Zenon DEF ServerInv, ServiceInv
  <2>3. QED BY <1>2, <1>5, <2>2, Zenon DEF ServerInv, ServiceInv
<1>12. PauseInv'
  <2>1. f # <<"PauseForStop">> BY <1>3, FunctorsDiffer, Zenon
  <2>2. /\ HasPaused' = HasPaused
        /\ \A k \in Listeners : AtMostOnce(queue[k], <<"PauseForStop">>) => AtMostOnce(queue'[k], <<"PauseForStop">>)
    BY <1>2, <2>1, PausedKept, Zenon
  <2>3. QED BY <1>2, <1>5, <2>2, Zenon DEF ServerInv, PauseInv
<1>13. ReqInv'
  <2>1. /\ \A u \in Threads : i \notin busy[u]
        /\ \A w \in Workers : ~InQueue(queue[w], <<"Handle", i>>)
    <3>1. req[i].state \notin {"dispatching", "handling", "replying", "forwarded"} BY <1>8, Zenon
    <3>2. QED BY <1>7, <3>1, ThreadsSplit, Zenon DEF RequestInv, AtThread, HandleQueued
  <2>2. AtThread(i)' BY <1>2, <2>1, ThreadsSplit, Zenon DEF AtThread
  <2>3. HandleQueued(i)'
    <3>1. \A w \in Workers : AtMostOnce(queue'[w], <<"Handle", i>>)
      BY <1>2, <1>7, ThreadsSplit, Zenon DEF RequestInv, HandleQueued
    <3>2. \A w \in Workers : ~InQueue(queue'[w], <<"Handle", i>>) BY <1>2, <2>1, ThreadsSplit, Zenon
    <3>3. QED BY <3>1, <3>2, Zenon DEF HandleQueued
  <2>4. ReplyQueued(i)'
    <3>1. req'[i].at = t BY <1>8, <1>10, Zenon DEF Moved
    <3>2. \A l \in Listeners : \A d \in Answers : InQueue(queue'[l], <<"Reply", i, d>>) => l = t
      BY <1>2, <1>7, <1>8, ThreadsSplit, Zenon DEF RequestInv, ReplyQueued
    <3>3. QED BY <1>10, <3>1, <3>2, Zenon DEF ReplyQueued
  <2>5. ReplyMade(i)' BY <1>10, Zenon DEF ReplyMade
  <2>6. loop'[t] # "kNull" BY <1>6, Zenon DEF RunQueued, Idle
  <2>7. RequestInv(i)' BY <1>2, <1>8, <1>10, <2>2, <2>3, <2>4, <2>5, <2>6, Zenon DEF RequestInv, Moved
  <2>8. OnlyRequest(i, f)
    <3>1. \A j, d : j # i => <<"Reply", i, c>> # <<"Handle", j>> /\ <<"Reply", i, c>> # <<"Reply", j, d>>
      BY SMT
    <3>2. BusyMoved(i) BY <1>2, <1>7, BusySame, Zenon
    <3>3. QED BY <1>2, <1>3, <1>6, <1>10, <3>1, <3>2, Zenon DEF OnlyRequest
  <2>9. QED BY <2>7, <2>8, ReqMoved, Zenon DEF ServerInv
<1>14. QED BY <1>2, <1>11, <1>12, <1>13, Zenon DEF ServerInv

\* Every functor keeps the invariant.
LEMMA RunQueuedInv ==
  ASSUME ListenersCounted, ServerInv, NEW t \in Threads, RunQueued(t)
  PROVE  ServerInv'
<1> DEFINE f == Head(queue[t])
<1>1. CASE f[1] = "Stop" BY <1>1, RunStopInv, Zenon
<1>2. CASE f[1] # "Stop"
  <2>1. f \in ListenerFunctors BY <1>2, RunOther, Zenon
  <2>2. f[1] \in {"Pause", "PauseForStop", "Continue", "Stop", "Reply"} BY <2>1, SMT DEF ListenerFunctors
  <2>3. QED BY <1>2, <2>2, RunPauseInv, RunReplyInv, Zenon
<1>3. QED BY <1>1, <1>2, Zenon

\* The end of a loop, which closes the requests of a listener, keeps the invariant.
LEMMA ExitInv ==
  ASSUME ServerInv, NEW t \in Threads, Exit(t)
  PROVE  ServerInv'
<1>1. loop[t] = "exiting" /\ loop' = [loop EXCEPT ![t] = "kStopped"] BY Zenon DEF Exit
<1>2. /\ status' = status /\ main' = main /\ workers' = workers /\ pool' = pool /\ serverOk' = serverOk
      /\ queue' = queue /\ busy' = busy /\ paused' = paused
  BY Zenon DEF Exit
<1>3. LoopInv' /\ loop'[t] = "kStopped" /\ \A u \in Threads : u # t => loop'[u] = loop[u]
  <2>1. LoopInv' /\ Moves(t, "kStopped") BY <1>1, <1>2, StoppingOn, Zenon
  <2>2. QED BY <2>1, Zenon DEF Moves
<1>4. queue[t] = <<>> /\ busy[t] = {} BY <1>1, Zenon DEF ServerInv, QueueInv
<1>5. PhaseInv' BY <1>2, Zenon DEF ServerInv, PhaseInv, Started
<1>6. QueueInv'
  <2>1. \A u \in Threads : loop'[u] \in {"kNull", "exiting", "kStopped"} => queue[u] = <<>> /\ busy[u] = {}
    BY <1>3, <1>4, Zenon DEF ServerInv, QueueInv
  <2>2. \A u \in Threads : InQueue(queue[u], <<"Stop">>) => loop'[u] = "kStopping"
    BY <1>3, <1>4, EmptyQueue, Zenon DEF ServerInv, QueueInv
  <2>3. QED BY <1>2, <2>1, <2>2, Zenon DEF ServerInv, QueueInv, QueuesTyped
<1>7. PauseInv' BY <1>2, Zenon DEF ServerInv, PauseInv, HasPaused
<1>8. \A u \in Threads : loop[u] # "kNull" => loop'[u] # "kNull" BY <1>3, Zenon
<1>9. CASE t \in Workers
  <2>1. t \notin Listeners /\ service' = service /\ req' = req BY <1>9, ThreadsSplit, Zenon DEF Exit
  <2>2. main.pc \notin {"new", "failed", "destroyed"} BY <1>1, <1>9, StoppingPlace, Zenon
  <2>3. \A l \in Listeners : loop'[l] = "kStopped" <=> loop[l] = "kStopped"
    BY <1>3, <2>1, ThreadsSplit, Zenon
  <2>4. ServiceInv' BY <2>1, <2>2, <2>3, ServiceKept, Zenon DEF ServerInv
  <2>5. ReqInv' BY <1>2, <1>8, <2>1, ReqKept, Zenon DEF ServerInv
  <2>6. QED BY <1>3, <1>5, <1>6, <1>7, <2>4, <2>5, Zenon DEF ServerInv
<1>10. CASE t \in Listeners
  <2>1. main.pc = "stopping listeners" BY <1>1, <1>10, StoppingPlace, Zenon
  <2>2. /\ service' = [service EXCEPT ![t] = [evhttp |-> FALSE, enabled |-> FALSE, handlers |-> {}]]
        /\ req' = [i \in Requests |-> IF req[i].at = t /\ req[i].state \notin {"none", "answered"}
                                      THEN [req[i] EXCEPT !.state = "closed"] ELSE req[i]]
    BY <1>10, Zenon DEF Exit
  <2>3. ServiceInv'
    <3> DEFINE n == [evhttp |-> FALSE, enabled |-> FALSE, handlers |-> {}]
    <3>1. IsService(n) /\ n.evhttp = FALSE BY DEF IsService
    <3> HIDE DEF n
    <3>2. service = [l \in Listeners |-> service[l]] /\ service' = [service EXCEPT ![t] = n]
      BY <2>2, Zenon DEF ServerInv, ServiceInv, n
    <3>3. /\ service' = [l \in Listeners |-> service'[l]] /\ service'[t] = n
          /\ \A l \in Listeners : l # t => service'[l] = service[l]
      BY <1>10, <3>2, Zenon
    <3>4. \A l \in Listeners : IsService(service'[l]) BY <3>1, <3>3, Zenon DEF ServerInv, ServiceInv
    <3>5. ASSUME NEW l \in Listeners PROVE service'[l].evhttp = (loop'[l] # "kStopped")
      <4>1. CASE l = t BY <1>3, <3>1, <3>3, <4>1, Zenon
      <4>2. CASE l # t
        <5>1. loop'[l] = loop[l] BY <1>3, <4>2, ThreadsSplit, Zenon
        <5>2. service[l].evhttp = (loop[l] # "kStopped") BY <2>1, Zenon DEF ServerInv, ServiceInv
        <5>3. QED BY <3>3, <4>2, <5>1, <5>2, Zenon
      <4>3. QED BY <4>1, <4>2, Zenon
    <3>6. QED BY <1>2, <3>3, <3>4, <3>5, Zenon DEF ServiceInv
  <2>4. \A w \in Workers : queue[w] = <<>> /\ busy[w] = {}
    <3>1. \A w \in Workers : loop[w] \in {"kNull", "kStopped"} BY <2>1, Zenon DEF ServerInv, LoopInv
    <3>2. QED BY <3>1, ThreadsSplit, Zenon DEF ServerInv, QueueInv
  <2>5. ASSUME NEW i \in Requests PROVE RequestInv(i)'
    <3>1. RequestInv(i) BY Zenon DEF ServerInv, ReqInv
    <3>2. CASE ~(req[i].at = t /\ req[i].state \notin {"none", "answered"})
      <4>1. req'[i] = req[i] BY <2>2, <3>2, Zenon
      <4>2. SameFor(i) BY <1>2, <1>8, <4>1, Zenon DEF SameFor
      <4>3. QED BY <3>1, <4>2, SameForInv, Zenon
    <3>3. CASE req[i].at = t /\ req[i].state \notin {"none", "answered"}
      <4>1. req'[i] = [req[i] EXCEPT !.state = "closed"] BY <2>2, <3>3, Zenon
      <4>2. IsReq(req'[i]) /\ req'[i].state = "closed" /\ req'[i].at = t /\ req'[i].replied = req[i].replied
        BY <3>1, <3>3, <4>1, Zenon DEF RequestInv, IsReq
      <4>3. ~req[i].replied
        <5>1. req[i].state # "replying" BY <2>4, <3>1, Zenon DEF RequestInv, ReplyMade
        <5>2. req[i].state # "replied" BY <1>4, <3>1, <3>3, EmptyQueue, Zenon DEF RequestInv, ReplyMade
        <5>3. QED BY <3>1, <3>3, <5>1, <5>2, Zenon DEF RequestInv, ReplyMade
      <4>4. \A u \in Threads : i \notin busy[u]
        <5>1. \A l \in Listeners : i \notin busy[l] BY <1>4, <3>1, <3>3, Zenon DEF RequestInv, AtThread
        <5>2. QED BY <2>4, <5>1, ThreadsSplit, Zenon
      <4>5. AtThread(i)' BY <1>2, <4>4, ThreadsSplit, Zenon DEF AtThread
      <4>6. HandleQueued(i)' BY <1>2, <2>4, EmptyQueue, Zenon DEF HandleQueued
      <4>7. ReplyQueued(i)'
        <5>1. \A l \in Listeners, c \in Answers : ~InQueue(queue[l], <<"Reply", i, c>>)
          BY <1>4, <3>1, <3>3, EmptyQueue, Zenon DEF RequestInv, ReplyQueued
        <5>2. QED BY <1>2, <5>1, Zenon DEF ReplyQueued
      <4>8. ReplyMade(i)' BY <4>2, <4>3, Zenon DEF ReplyMade
      <4>9. QED BY <1>3, <1>10, <4>2, <4>5, <4>6, <4>7, <4>8, Zenon DEF RequestInv
    <3>4. QED BY <3>2, <3>3, Zenon
  <2>6. ReqsTyped' BY <1>2, <2>2, Zenon DEF ServerInv, ReqInv, ReqsTyped
  <2>7. QED BY <1>3, <1>5, <1>6, <1>7, <2>3, <2>5, <2>6, Zenon DEF ServerInv, ReqInv
<1>11. QED BY <1>9, <1>10, ThreadsSplit, Zenon

\* A request the port has not seen is one that was not sent, or is sent.
Unseen(n) == IsReq(n) /\ n.state \in {"none", "sent"} /\ (n.state = "sent" => n.at \in Listeners) /\ ~n.replied

\* A request that no thread has to do with is replaced by another.
LEMMA UnseenInv ==
  ASSUME ServerInv, NEW i \in Requests, req[i].state \in {"none", "sent"}, NEW n, Unseen(n),
         req' = [req EXCEPT ![i] = n], OnlyReq
  PROVE  ServerInv'
<1>1. /\ status' = status /\ main' = main /\ workers' = workers /\ pool' = pool /\ serverOk' = serverOk
      /\ queue' = queue /\ busy' = busy /\ paused' = paused /\ loop' = loop /\ service' = service
  BY Zenon DEF OnlyReq
<1>2. IsReq(n) /\ n.state \in {"none", "sent"} /\ (n.state = "sent" => n.at \in Listeners) /\ ~n.replied
  BY Zenon DEF Unseen
<1>3. RequestInv(i) /\ ReqsTyped BY Zenon DEF ServerInv, ReqInv
<1>4. /\ req' = [j \in Requests |-> req'[j]] /\ req'[i] = n /\ \A j \in Requests : j # i => req'[j] = req[j]
  BY <1>3, Zenon DEF ReqsTyped
<1>5. /\ \A t \in Threads : i \notin busy[t]
      /\ \A w \in Workers : ~InQueue(queue[w], <<"Handle", i>>)
      /\ \A k \in Listeners, c \in Answers : ~InQueue(queue[k], <<"Reply", i, c>>)
  BY <1>3, Nowhere, Zenon
<1>6. RequestInv(i)'
  <2>1. AtThread(i)' BY <1>1, <1>5, ThreadsSplit, Zenon DEF AtThread
  <2>2. HandleQueued(i)' BY <1>1, <1>3, <1>5, Zenon DEF RequestInv, HandleQueued
  <2>3. ReplyQueued(i)' BY <1>1, <1>5, Zenon DEF ReplyQueued
  <2>4. ReplyMade(i)' BY <1>2, <1>4, Zenon DEF ReplyMade
  <2>5. QED BY <1>2, <1>4, <2>1, <2>2, <2>3, <2>4, Zenon DEF RequestInv
<1>7. ASSUME NEW j \in Requests PROVE RequestInv(j)'
  <2>1. CASE j = i BY <1>6, <2>1, Zenon
  <2>2. CASE j # i
    <3>1. SameFor(j) BY <1>1, <1>4, <2>2, Zenon DEF SameFor
    <3>2. RequestInv(j) BY Zenon DEF ServerInv, ReqInv
    <3>3. QED BY <3>1, <3>2, SameForInv, Zenon
  <2>3. QED BY <2>1, <2>2, Zenon
<1>8. ReqInv' BY <1>1, <1>3, <1>4, <1>7, Zenon DEF ReqInv, ReqsTyped
<1>9. PhaseInv' BY <1>1, Zenon DEF ServerInv, PhaseInv, Started
<1>10. LoopInv' BY <1>1, Zenon DEF ServerInv, LoopInv
<1>11. ServiceInv' BY <1>1, Zenon DEF ServerInv, ServiceInv
<1>12. QueueInv' BY <1>1, Zenon DEF ServerInv, QueueInv, QueuesTyped
<1>13. PauseInv' BY <1>1, Zenon DEF ServerInv, PauseInv, HasPaused
<1>14. QED BY <1>8, <1>9, <1>10, <1>11, <1>12, <1>13, Zenon DEF ServerInv

\* A request that no one has sent yet arrives.
LEMMA SendInv ==
  ASSUME ServerInv, NEW i \in Requests, req[i].state = "none", NEW l \in Listeners, NEW fresh, Send(i, l, fresh), OnlyReq
  PROVE  ServerInv'
<1> DEFINE n == [NewRequest EXCEPT !.state = "sent", !.at = l, !.fresh = fresh]
<1>1. IsReq(NewRequest) /\ ~NewRequest.replied BY DEF NewRequest, IsReq
<1>2. IsReq(n) /\ n.state = "sent" /\ n.at = l /\ ~n.replied BY <1>1, Zenon DEF IsReq
<1>3. req' = [req EXCEPT ![i] = n] BY Zenon DEF Send
<1> HIDE DEF n
<1>4. Unseen(n) BY <1>2, Zenon DEF Unseen
<1>5. QED BY <1>3, <1>4, UnseenInv, Zenon

\* A request that was sent, and not seen, is withdrawn.
LEMMA WithdrawInv ==
  ASSUME ServerInv, NEW i \in Requests, req[i].state = "sent", Withdraw(i), OnlyReq
  PROVE  ServerInv'
<1>1. IsReq(NewRequest) /\ NewRequest.state = "none" /\ ~NewRequest.replied BY DEF NewRequest, IsReq
<1>2. Unseen(NewRequest) BY <1>1, SMT DEF Unseen
<1>3. QED BY <1>2, UnseenInv, Zenon DEF Withdraw

\* A step of the client keeps the invariant.
LEMMA ServerSame ==
  ASSUME ServerInv, UNCHANGED serverVars
  PROVE  ServerInv'
<1>1. /\ status' = status /\ main' = main /\ workers' = workers /\ pool' = pool /\ serverOk' = serverOk
      /\ queue' = queue /\ busy' = busy /\ paused' = paused /\ loop' = loop /\ service' = service /\ req' = req
  BY Zenon DEF serverVars
<1>2. ReqInv' BY <1>1, ReqKept, Zenon DEF ServerInv
<1>3. PhaseInv' BY <1>1, Zenon DEF ServerInv, PhaseInv, Started
<1>4. LoopInv' BY <1>1, Zenon DEF ServerInv, LoopInv
<1>5. ServiceInv' BY <1>1, Zenon DEF ServerInv, ServiceInv
<1>6. QueueInv' BY <1>1, Zenon DEF ServerInv, QueueInv, QueuesTyped
<1>7. PauseInv' BY <1>1, Zenon DEF ServerInv, PauseInv, HasPaused
<1>8. QED BY <1>2, <1>3, <1>4, <1>5, <1>6, <1>7, Zenon DEF ServerInv

\* The server begins with the invariant.
LEMMA ServerInitInv ==
  ASSUME ServerInit
  PROVE  ServerInv
<1> USE DEF ServerInit
<1>1. \A t \in Threads : loop[t] = "kNull" /\ queue[t] = <<>> /\ busy[t] = {} BY Zenon
<1>2. PhaseInv
  <2>1. main.pc = "new" /\ main = [x \in {"pc", "at"} |-> main[x]] BY SMT
  <2>2. QED BY <2>1, SMT DEF PhaseInv, Starting, Serving, Started
<1>3. LoopInv
  <2>1. loop \in [Threads -> Loops] BY Zenon DEF Loops
  <2>2. workers \in SUBSET Workers /\ \A w \in Workers : loop[w] = "kNull" BY <1>1, ThreadsSplit, Zenon
  <2>3. main.pc = "new" BY SMT
  <2>4. QED BY <1>1, <2>1, <2>2, <2>3, Zenon DEF LoopInv, Starting, Serving
<1>4. ServiceInv
  <2>1. \A l \in Listeners : service[l] = [evhttp |-> FALSE, enabled |-> FALSE, handlers |-> {}] BY Zenon
  <2>2. \A l \in Listeners : IsService(service[l]) BY <2>1 DEF IsService
  <2>3. service = [l \in Listeners |-> service[l]] BY Zenon
  <2>4. main.pc = "new" BY SMT
  <2>5. QED BY <2>2, <2>3, <2>4, Zenon DEF ServiceInv
<1>5. QueueInv
  <2>1. <<>> \in Seq(ListenerFunctors) /\ <<>> \in Seq(WorkerFunctors) BY SMT
  <2>2. QueuesTyped BY <1>1, <2>1, ThreadsSplit, Zenon DEF QueuesTyped
  <2>3. QED BY <1>1, <2>2, EmptyQueue, Zenon DEF QueueInv
<1>6. PauseInv
  <2>1. \A l \in Listeners : queue[l] = <<>> /\ busy[l] = {} BY <1>1, ThreadsSplit, Zenon
  <2>2. HasPaused = Listeners BY <2>1, EmptyQueue, Zenon DEF HasPaused
  <2>3. main.pc # "pausing" BY SMT
  <2>4. QED BY <2>1, <2>2, <2>3, EmptyQueue, Zenon DEF PauseInv
<1>7. ReqInv
  <2>1. NewRequest.state = "none" /\ ~NewRequest.replied /\ IsReq(NewRequest) BY DEF NewRequest, IsReq
  <2>2. ReqsTyped
    <3>1. req = [i \in Requests |-> req[i]] /\ busy = [t \in Threads |-> {}] BY Zenon
    <3>2. QED BY <1>1, <3>1, SMT DEF ReqsTyped
  <2>3. ASSUME NEW i \in Requests PROVE RequestInv(i)
    <3>1. req[i] = NewRequest BY Zenon
    <3>2. AtThread(i) BY <1>1, ThreadsSplit, Zenon DEF AtThread
    <3>3. HandleQueued(i) BY <1>1, ThreadsSplit, EmptyQueue, Zenon DEF HandleQueued
    <3>4. ReplyQueued(i) BY <1>1, ThreadsSplit, EmptyQueue, Zenon DEF ReplyQueued
    <3>5. ReplyMade(i) BY <2>1, <3>1, Zenon DEF ReplyMade
    <3>6. QED BY <2>1, <3>1, <3>2, <3>3, <3>4, <3>5, Zenon DEF RequestInv
  <2>4. QED BY <2>2, <2>3, Zenon DEF ReqInv
<1>8. QED BY <1>2, <1>3, <1>4, <1>5, <1>6, <1>7, Zenon DEF ServerInv

-----------------------------------------------------------------------------
(* The server's steps together.                                            *)

\* Every step of the server keeps the invariant, if the listeners can be counted.
LEMMA ServerStepInv ==
  ASSUME ListenersCounted, ServerInv, serverOk, MainSteps \/ LoopSteps
  PROVE  ServerInv'
<1>1. CASE MainSteps
  <2>1. CASE \E bound \in SUBSET Listeners : InitPorts(bound) BY <2>1, InitPortsInv, Zenon
  <2>2. CASE \E l \in Listeners : StartListener(l) \/ StopListener(l)
    BY <2>2, StartListenerInv, StopListenerInv, Zenon
  <2>3. CASE \E h \in Registered : Register(h) BY <2>3, RegisterInv, Zenon
  <2>4. CASE \E f \in {"Pause", "Continue"} : PauseOrContinue(f) BY <2>4, PauseOrContinueInv, Zenon
  <2>5. CASE StartPool \/ RegisteredAll \/ StopListening \/ StopPool
    BY <2>5, StartPoolInv, RegisteredAllInv, StopListeningInv, StopPoolInv, Zenon
  <2>6. CASE PoolStopped \/ StopReturns \/ DestroyServer
    BY <2>6, PoolStoppedInv, StopReturnsInv, DestroyServerInv, Zenon
  <2>7. QED BY <1>1, <2>1, <2>2, <2>3, <2>4, <2>5, <2>6, Zenon DEF MainSteps
<1>2. CASE LoopSteps
  <2>1. CASE \E i \in Requests, uri \in {"known", "unknown"} : HandleRequest(i, uri)
    BY <2>1, HandleRequestInv, Zenon
  <2>2. CASE \E i \in Requests, l \in Listeners : Dispatch(l, i) BY <2>2, DispatchInv, Zenon
  <2>3. CASE \E i \in Requests, w \in Workers : Handle(w, i) \/ SendReply(w, i)
    BY <2>3, HandleInv, SendReplyInv, Zenon
  <2>4. CASE \E i \in Requests, l \in Listeners, code \in Answers : DispatchHere(l, i, code)
    BY <2>4, DispatchHereInv, Zenon
  <2>5. CASE \E i \in Requests, w \in Workers, code \in Answers : QueueReply(w, i, code)
    BY <2>5, QueueReplyInv, Zenon
  <2>6. CASE \E t \in Threads : RunQueued(t) \/ Exit(t) BY <2>6, RunQueuedInv, ExitInv, Zenon
  <2>7. QED BY <1>2, <2>1, <2>2, <2>3, <2>4, <2>5, <2>6, Zenon DEF LoopSteps
<1>3. QED BY <1>1, <1>2, Zenon

\* The server makes nothing of a request that was not sent.
NoneStays == \A j \in Requests : req[j].state = "none" => req'[j].state = "none"

\* So it is when only a request that was sent changes.
LEMMA NoneStaysUnless ==
  ASSUME ReqsTyped, NEW i \in Requests, req[i].state # "none", NEW n, req' = [req EXCEPT ![i] = n]
  PROVE  NoneStays
<1>1. \A j \in Requests : j # i => req'[j] = req[j] BY Zenon DEF ReqsTyped
<1>2. QED BY <1>1, Zenon DEF NoneStays

\* So it is of every step of the server.
LEMMA ServerStepNone ==
  ASSUME ServerInv, MainSteps \/ LoopSteps
  PROVE  NoneStays
<1>0. ReqsTyped /\ req = [j \in Requests |-> req[j]] BY Zenon DEF ServerInv, ReqInv, ReqsTyped
<1>1. CASE req' = req BY <1>1, Zenon DEF NoneStays
<1>2. CASE MainSteps
  BY <1>1, <1>2, Zenon DEF MainSteps, InitPorts, StartPool, StartListener, Register,
     RegisteredAll, PauseOrContinue,
     StopListening, StopPool, PoolStopped, StopListener, StopReturns, DestroyServer
<1>3. ASSUME NEW i \in Requests, NEW uri, HandleRequest(i, uri) PROVE NoneStays
  <2>1. req[i].state # "none" /\ \E a, b, c : req' = [req EXCEPT ![i].fresh = a, ![i].code = b, ![i].state = c]
    BY <1>3, Zenon DEF HandleRequest
  <2>2. \A j \in Requests : j # i => req'[j] = req[j] BY <1>0, <2>1, Zenon
  <2>3. QED BY <2>1, <2>2, Zenon DEF NoneStays
<1>4. ASSUME NEW i \in Requests, NEW l \in Listeners, NEW code, Dispatch(l, i) \/ DispatchHere(l, i, code) PROVE NoneStays
  <2>1. req[i].state # "none" BY <1>4, Zenon DEF Dispatch, DispatchHere
  <2>2. \E n : req' = [req EXCEPT ![i] = n] BY <1>4, Zenon DEF Dispatch, DispatchHere
  <2>3. QED BY <1>0, <2>1, <2>2, NoneStaysUnless, Zenon
<1>5. ASSUME NEW i \in Requests, NEW w \in Workers, Handle(w, i) PROVE NoneStays
  <2>1. req[i].state = "forwarded"
    <3>1. queue[w] # <<>> /\ Head(queue[w]) = <<"Handle", i>> BY <1>5, Zenon DEF Handle
    <3>2. queue[w] \in Seq(WorkerFunctors) BY Zenon DEF ServerInv, QueueInv, QueuesTyped
    <3>3. InQueue(queue[w], <<"Handle", i>>)
      <4>1. InQueue(queue[w], Head(queue[w])) BY <3>1, <3>2, TailQueue, Zenon
      <4>2. QED BY <3>1, <4>1, Zenon
    <3>4. QED BY <3>3, Zenon DEF ServerInv, ReqInv, RequestInv, HandleQueued
  <2>2. req[i].state # "none" BY <2>1, Zenon
  <2>3. \E n : req' = [req EXCEPT ![i] = n] BY <1>5, Zenon DEF Handle
  <2>4. QED BY <1>0, <2>2, <2>3, NoneStaysUnless, Zenon
<1>6. ASSUME NEW i \in Requests, NEW w \in Workers, NEW code, SendReply(w, i) \/ QueueReply(w, i, code) PROVE NoneStays
  <2>1. req[i].state # "none" BY <1>6, Zenon DEF SendReply, QueueReply
  <2>2. \A j \in Requests : j # i => req'[j] = req[j] BY <1>0, <1>6, Zenon DEF SendReply, QueueReply
  <2>3. QED BY <2>1, <2>2, Zenon DEF NoneStays
<1>7. ASSUME NEW t \in Threads, RunQueued(t) PROVE NoneStays
  <2> DEFINE f == Head(queue[t])
  <2>1. CASE f[1] # "Reply"
    <3>1. req' = req BY <1>7, <2>1, Zenon DEF RunQueued
    <3>2. QED BY <1>1, <3>1, Zenon
  <2>2. CASE f[1] = "Reply"
    <3>1. f \in ListenerFunctors /\ t \in Listeners /\ InQueue(queue[t], f)
      <4>1. f[1] # "Stop" BY <2>2, Zenon
      <4>2. QED BY <1>7, <4>1, RunOther, Zenon
    <3>2. PICK i \in Requests, c \in Answers : f = <<"Reply", i, c>> BY <2>2, <3>1, ListenerKinds, Zenon
    <3>3. f[2] = i /\ f[3] = c BY <3>2
    <3>4. SendReplyInLoop(i, c) BY <1>7, <2>2, <3>3, Zenon DEF RunQueued
    <3>5. req[i].state \in {"replied", "answered"}
      BY <3>1, <3>2, Zenon DEF ServerInv, ReqInv, RequestInv, ReplyQueued
    <3>6. \A j \in Requests : j # i => req'[j] = req[j] BY <1>0, <3>4, Zenon DEF SendReplyInLoop
    <3>7. QED BY <3>5, <3>6, Zenon DEF NoneStays
  <2>3. QED BY <2>1, <2>2, Zenon
<1>8. ASSUME NEW t \in Threads, Exit(t) PROVE NoneStays
  <2>1. CASE t \in Listeners
    <3>1. req' = [i \in Requests |-> IF req[i].at = t /\ req[i].state \notin {"none", "answered"}
                                     THEN [req[i] EXCEPT !.state = "closed"] ELSE req[i]]
      BY <1>8, <2>1, Zenon DEF Exit
    <3>2. QED BY <3>1, Zenon DEF NoneStays
  <2>2. CASE t \notin Listeners
    <3>1. req' = req BY <1>8, <2>2, Zenon DEF Exit
    <3>2. QED BY <1>1, <3>1, Zenon
  <2>3. QED BY <2>1, <2>2, Zenon
<1>9. CASE LoopSteps BY <1>3, <1>4, <1>5, <1>6, <1>7, <1>8, <1>9, Zenon DEF LoopSteps
<1>10. QED BY <1>2, <1>9, Zenon

=============================================================================
