----------------------------- MODULE BaseProofs -----------------------------
(***************************************************************************)
(* Proofs about the two classes under all the others: EventLoop, for every *)
(* set of callers and functors, every socketpair capacity and recv size;   *)
(* and Buffer, for every set of buffers and bytes, all sizes and all       *)
(* texts.                                                                  *)
(***************************************************************************)
EXTENDS EventLoop, Buffer, SequenceTheorems, TLAPS

-----------------------------------------------------------------------------
(* EventLoop: types, and no wakeup is lost.                               *)

Functors == Tasks \cup {StopTask}

\* The vectors on the loop thread's stack: a functor that is running is at the head
\* of the innermost one, and while StopInLoop flushes, the vector below the flushed
\* one still has StopInLoop at its head.
StackShape ==
    /\ lpc \in {"created", "starting", "watched", "dispatch", "reset", "stop", "done"} => flush = 0
    /\ lpc \in {"empty", "loopexit"} => flush # 0
    /\ lpc \in {"loop", "run", "dec"} => batches # <<>>
    /\ lpc \in {"run", "dec"} => Head(batches) # <<>>
    /\ flush # 0 /\ lpc \in {"store", "swap", "empty", "loopexit"} =>
          batches # <<>> /\ Head(batches) # <<>>
    /\ flush # 0 /\ lpc \in {"loop", "run", "dec"} =>
          Tail(batches) # <<>> /\ Head(Tail(batches)) # <<>>

TypeInv == TypeOK /\ StackShape

\* Putting a vector on top of the stack (the swap in DoPendingFunctors).
LEMMA PushVector ==
  ASSUME NEW S, NEW v \in S, NEW b \in Seq(S)
  PROVE  /\ <<v>> \o b \in Seq(S)
         /\ <<v>> \o b # <<>>
         /\ Head(<<v>> \o b) = v
         /\ Tail(<<v>> \o b) = b
  <1>1. Len(<<v>> \o b) = Len(b) + 1 /\ <<v>> \o b \in Seq(S) /\ (<<v>> \o b)[1] = v
    OBVIOUS
  <1>2. \A i \in 1..Len(b) : (<<v>> \o b)[i + 1] = b[i]
    OBVIOUS
  <1>3. Tail(<<v>> \o b) = b
    BY <1>1, <1>2
  <1>4. QED
    BY <1>1, <1>3

\* The constructor leaves the loop well typed, with nothing on the stack.
LEMMA InitTypeInv == Init => TypeInv
  <1> SUFFICES ASSUME Init PROVE TypeInv
    OBVIOUS
  <1> USE LoopAssumption DEF Init
  <1>1. qpc \in [Threads -> QueueSteps]
    BY DEF QueueSteps
  <1>2. TypeOK
    <2>1. exiting \in BOOLEAN /\ notified \in BOOLEAN /\ disturbed \in BOOLEAN
      BY Zenon
    <2>2. QED
      BY <1>1, <2>1 DEF TypeOK, LoopSteps
  <1>3. StackShape
    BY DEF StackShape
  <1>4. QED
    BY <1>2, <1>3 DEF TypeInv

\* Every step of a caller or of the loop thread keeps the types and the shape of the
\* stack of vectors; only SwapPending, DecrementCount and BatchReturns change the stack.
LEMMA NextTypeInv == TypeInv /\ [Next]_vars => TypeInv'
  <1> SUFFICES ASSUME TypeInv, [Next]_vars PROVE TypeInv'
    OBVIOUS
  <1> USE LoopAssumption DEF TypeInv, TypeOK, StackShape, Threads, LoopSteps, QueueSteps,
          callerVars, loopVars
  <1>1. ASSUME NEW t \in Threads, NEW f \in Tasks, QueueInLoop(t, f) PROVE TypeInv'
    <2>1. /\ pending' \in Seq(Tasks \cup {StopTask})
          /\ pushed' \in Seq(Tasks \cup {StopTask})
      BY <1>1 DEF QueueInLoop, Push
    <2>2. qpc' \in [Threads -> QueueSteps]
      BY <1>1 DEF QueueInLoop, Step
    <2>3. QED
      BY <1>1, <2>1, <2>2, SMTT(20) DEF QueueInLoop
  <1>2. ASSUME NEW t \in Threads, NEW f \in Tasks, RunInLoop(t, f) PROVE TypeInv'
    BY <1>2, SMTT(20) DEF RunInLoop
  <1>3. ASSUME NEW t \in Threads, Stop(t) PROVE TypeInv'
    BY <1>3, SMTT(20) DEF Stop, Step
  <1>4. ASSUME NEW t \in Threads, IncrementCount(t) PROVE TypeInv'
    <2>1. TypeOK'
      BY <1>4 DEF IncrementCount, Step
    <2>2. StackShape'
      BY <1>4 DEF IncrementCount
    <2>3. QED
      BY <2>1, <2>2, Zenon
  <1>5. ASSUME NEW t \in Threads, CompareExchange(t) PROVE TypeInv'
    <2>1. qpc' \in [Threads -> QueueSteps]
      BY <1>5 DEF CompareExchange, Step
    <2>2. notified' \in BOOLEAN /\ disturbed' \in BOOLEAN
      BY <1>5, Zenon DEF CompareExchange
    <2>3. QED
      BY <1>5, <2>1, <2>2, SMTT(20) DEF CompareExchange
  <1>6. ASSUME NEW t \in Threads, CheckWatcher(t) PROVE TypeInv'
    BY <1>6, SMTT(20) DEF CheckWatcher, Step
  <1>7. ASSUME NEW t \in Threads, Notify(t) PROVE TypeInv'
    BY <1>7, SMTT(20) DEF Notify, Step
  <1>8. ASSUME NEW t \in Threads, QueueStopInLoop(t) PROVE TypeInv'
    <2>1. /\ pending' \in Seq(Tasks \cup {StopTask})
          /\ pushed' \in Seq(Tasks \cup {StopTask})
      BY <1>8 DEF QueueStopInLoop, Push
    <2>2. qpc' \in [Threads -> QueueSteps]
      BY <1>8 DEF QueueStopInLoop, Step
    <2>3. QED
      BY <1>8, <2>1, <2>2, SMTT(20) DEF QueueStopInLoop
  <1>9. ASSUME Run PROVE TypeInv'
    BY <1>9 DEF Run, LoopStep
  <1>10. ASSUME AsyncWait PROVE TypeInv'
    BY <1>10 DEF AsyncWait, LoopStep
  <1>11. ASSUME SetRunning PROVE TypeInv'
    BY <1>11 DEF SetRunning, LoopStep
  <1>12. ASSUME HandlerFn PROVE TypeInv'
    BY <1>12 DEF HandlerFn, LoopStep
  <1>13. ASSUME ClearNotified PROVE TypeInv'
    BY <1>13, Zenon DEF ClearNotified, LoopStep
  <1>14. ASSUME SwapPending PROVE TypeInv'
    <2>1. /\ batches' \in Seq(Seq(Functors)) /\ batches' # <<>>
          /\ Head(batches') = pending /\ Tail(batches') = batches
      <3>1. pending \in Seq(Functors) /\ batches \in Seq(Seq(Functors))
        BY DEF Functors
      <3>2. batches' = <<pending>> \o batches
        BY <1>14 DEF SwapPending
      <3> HIDE DEF TypeInv, TypeOK, StackShape
      <3> DEFINE S == Seq(Functors)
      <3>3. pending \in S /\ batches \in Seq(S)
        BY <3>1
      <3> HIDE DEF S
      <3>4. /\ <<pending>> \o batches \in Seq(S) /\ <<pending>> \o batches # <<>>
            /\ Head(<<pending>> \o batches) = pending
            /\ Tail(<<pending>> \o batches) = batches
        BY <3>3, PushVector
      <3>5. QED
        BY <3>2, <3>4 DEF S
    <2>2. TypeOK'
      BY <1>14, <2>1 DEF SwapPending, LoopStep, Functors
    <2>3. StackShape'
      BY <1>14, <2>1, Zenon DEF SwapPending, LoopStep
    <2>4. QED
      BY <2>2, <2>3, Zenon
  <1>15. ASSUME CallFunctor PROVE TypeInv'
    BY <1>15 DEF CallFunctor, LoopStep
  <1>16. ASSUME FunctorReturns PROVE TypeInv'
    BY <1>16 DEF FunctorReturns, LoopStep
  <1>17. ASSUME DecrementCount PROVE TypeInv'
    BY <1>17 DEF DecrementCount, LoopStep
  <1>18. ASSUME BatchReturns PROVE TypeInv'
    <2>1. TypeOK'
      BY <1>18, SMTT(20) DEF BatchReturns, LoopStep
    <2>2. StackShape'
      BY <1>18, SMTT(20) DEF BatchReturns, LoopStep
    <2>3. QED
      BY <2>1, <2>2, Zenon
  <1>19. ASSUME IsPendingQueueEmpty PROVE TypeInv'
    BY <1>19, SMTT(20) DEF IsPendingQueueEmpty, LoopStep
  <1>20. ASSUME LoopExit PROVE TypeInv'
    <2>1. exiting' \in BOOLEAN
      BY <1>20 DEF LoopExit
    <2>2. TypeOK'
      BY <1>20, <2>1 DEF LoopExit, LoopStep
    <2>3. StackShape'
      BY <1>20 DEF LoopExit, LoopStep
    <2>4. QED
      BY <2>2, <2>3, Zenon
  <1>21. ASSUME DispatchReturns PROVE TypeInv'
    BY <1>21 DEF DispatchReturns, LoopStep
  <1>22. ASSUME ResetWatcher PROVE TypeInv'
    BY <1>22 DEF ResetWatcher, LoopStep
  <1>23. ASSUME SetStopped PROVE TypeInv'
    BY <1>23 DEF SetStopped, LoopStep
  <1>24. ASSUME AfterFork PROVE TypeInv'
    BY <1>24 DEF AfterFork
  <1>25. ASSUME UNCHANGED vars PROVE TypeInv'
    BY <1>25, SMTT(20) DEF vars
  <1> HIDE DEF TypeInv, TypeOK, StackShape, LoopSteps, QueueSteps
  <1>26. QED
    BY <1>1, <1>2, <1>3, <1>4, <1>5, <1>6, <1>7, <1>8, <1>9, <1>10, <1>11, <1>12, <1>13,
       <1>14, <1>15, <1>16, <1>17, <1>18, <1>19, <1>20, <1>21, <1>22, <1>23, <1>24, <1>25
       DEF Next, CallerContinues, LoopContinues

\* Every reachable state of the loop is well typed.
THEOREM TypeCorrect == Spec => []TypeOK
  <1>1. TypeInv => TypeOK
    BY DEF TypeInv
  <1>2. QED
    BY <1>1, InitTypeInv, NextTypeInv, PTL DEF Spec

-----------------------------------------------------------------------------
\* The inductive form of NoLostWakeup.  It must also speak of the states inside the
\* handler: after the recv has taken the byte and until notified_ is cleared, and
\* from there until the swap has emptied the queue.
WakeupInv ==
    /\ lpc \notin {"stop", "done"} => watcher # "null"
    /\ notified /\ watcher # "null" /\ ~disturbed => WakeupDue \/ lpc = "store"
    /\ pending # <<>> /\ watcher # "null" /\ ~disturbed =>
          \/ notified
          \/ \E t \in Threads : qpc[t] \in {"count", "cas"}
          \/ lpc \in {"store", "swap"}

\* QueueInLoop and DoPendingFunctors keep that invariant step by step.
LEMMA NextWakeupInv ==
  ASSUME TypeInv, WakeupInv, [Next]_vars
  PROVE  WakeupInv'
  <1> USE LoopAssumption DEF TypeInv, TypeOK, WakeupInv, WakeupDue, Threads, LoopSteps, QueueSteps,
          callerVars, loopVars
  <1>1. ASSUME NEW t \in Threads, NEW f \in Tasks, QueueInLoop(t, f) PROVE WakeupInv'
    BY <1>1 DEF QueueInLoop, Push, Step
  <1>2. ASSUME NEW t \in Threads, NEW f \in Tasks, RunInLoop(t, f) PROVE WakeupInv'
    BY <1>2 DEF RunInLoop
  <1>3. ASSUME NEW t \in Threads, Stop(t) PROVE WakeupInv'
    BY <1>3 DEF Stop, Step
  <1>4. ASSUME NEW t \in Threads, IncrementCount(t) PROVE WakeupInv'
    BY <1>4 DEF IncrementCount, Step
  <1>5. ASSUME NEW t \in Threads, CompareExchange(t) PROVE WakeupInv'
    BY <1>5 DEF CompareExchange, Step
  <1>6. ASSUME NEW t \in Threads, CheckWatcher(t) PROVE WakeupInv'
    BY <1>6 DEF CheckWatcher, Step
  <1>7. ASSUME NEW t \in Threads, Notify(t) PROVE WakeupInv'
    BY <1>7 DEF Notify, Step
  <1>8. ASSUME NEW t \in Threads, QueueStopInLoop(t) PROVE WakeupInv'
    BY <1>8 DEF QueueStopInLoop, Push, Step
  <1>9. ASSUME Run PROVE WakeupInv'
    BY <1>9 DEF Run, LoopStep
  <1>10. ASSUME AsyncWait PROVE WakeupInv'
    BY <1>10 DEF AsyncWait, LoopStep
  <1>11. ASSUME SetRunning PROVE WakeupInv'
    BY <1>11 DEF SetRunning, LoopStep
  <1>12. ASSUME HandlerFn PROVE WakeupInv'
    BY <1>12 DEF HandlerFn, LoopStep
  <1>13. ASSUME ClearNotified PROVE WakeupInv'
    BY <1>13 DEF ClearNotified, LoopStep
  <1>14. ASSUME SwapPending PROVE WakeupInv'
    BY <1>14 DEF SwapPending, LoopStep
  <1>15. ASSUME CallFunctor PROVE WakeupInv'
    BY <1>15 DEF CallFunctor, LoopStep
  <1>16. ASSUME FunctorReturns PROVE WakeupInv'
    BY <1>16 DEF FunctorReturns, LoopStep
  <1>17. ASSUME DecrementCount PROVE WakeupInv'
    BY <1>17 DEF DecrementCount, LoopStep
  <1>18. ASSUME BatchReturns PROVE WakeupInv'
    BY <1>18 DEF BatchReturns, LoopStep
  <1>19. ASSUME IsPendingQueueEmpty PROVE WakeupInv'
    BY <1>19 DEF IsPendingQueueEmpty, LoopStep
  <1>20. ASSUME LoopExit PROVE WakeupInv'
    BY <1>20 DEF LoopExit, LoopStep
  <1>21. ASSUME DispatchReturns PROVE WakeupInv'
    BY <1>21 DEF DispatchReturns, LoopStep
  <1>22. ASSUME ResetWatcher PROVE WakeupInv'
    BY <1>22 DEF ResetWatcher, LoopStep
  <1>23. ASSUME SetStopped PROVE WakeupInv'
    BY <1>23 DEF SetStopped, LoopStep
  <1>24. ASSUME AfterFork PROVE WakeupInv'
    BY <1>24 DEF AfterFork
  <1>25. ASSUME UNCHANGED vars PROVE WakeupInv'
    BY <1>25 DEF vars
  <1> HIDE DEF WakeupInv
  <1>26. QED
    BY <1>1, <1>2, <1>3, <1>4, <1>5, <1>6, <1>7, <1>8, <1>9, <1>10, <1>11, <1>12, <1>13,
       <1>14, <1>15, <1>16, <1>17, <1>18, <1>19, <1>20, <1>21, <1>22, <1>23, <1>24, <1>25
       DEF Next, CallerContinues, LoopContinues

\* No wakeup is lost, however many threads queue functors, until a weak compare-exchange
\* fails spuriously or a fork before Run leaves a byte behind.
THEOREM WakeupNeverLost == Spec => []NoLostWakeup
  <1>1. Init => WakeupInv
    BY DEF Init, WakeupInv
  <1>2. TypeInv /\ WakeupInv /\ [Next]_vars => WakeupInv'
    BY NextWakeupInv
  <1>3. WakeupInv => NoLostWakeup
    BY DEF WakeupInv, NoLostWakeup
  <1>4. QED
    BY <1>1, <1>2, <1>3, InitTypeInv, NextTypeInv, PTL DEF Spec

-----------------------------------------------------------------------------
(* Buffer: the lemmas on memory, then one per method, then the invariant  *)
(* and the refinement of a queue of bytes.                                *)

\* The memory of n bytes holds the sequence s from position r on.
Has(mem, n, r, s) ==
  /\ n \in Nat /\ r \in Nat /\ s \in Seq(Bytes)
  /\ r + Len(s) <= n
  /\ DOMAIN mem = 0..(n - 1)
  /\ \A i \in 1..Len(s) : mem[r + i - 1] = s[i]

\* A copy inside the memory changes exactly the bytes it covers.
LEMMA Copied ==
  ASSUME NEW n \in Nat, NEW mem, DOMAIN mem = 0..(n - 1), NEW at \in Nat, NEW s \in Seq(Bytes),
         at + Len(s) <= n
  PROVE  /\ DOMAIN memcpy(mem, at, s) = 0..(n - 1)
         /\ \A i \in 1..Len(s) : memcpy(mem, at, s)[at + i - 1] = s[i]
         /\ \A j \in 0..(n - 1) : j < at \/ at + Len(s) <= j => memcpy(mem, at, s)[j] = mem[j]
  <1>1. Len(s) \in Nat
    OBVIOUS
  <1>2. ASSUME NEW i \in 1..Len(s)
        PROVE  memcpy(mem, at, s)[at + i - 1] = s[i]
    <2>1. at + i - 1 \in 0..(n - 1) /\ at <= at + i - 1 /\ at + i - 1 < at + Len(s)
      BY <1>1
    <2>2. at + i - 1 - at + 1 = i
      BY <1>1
    <2>3. QED
      BY <2>1, <2>2 DEF memcpy
  <1>3. QED
    BY <1>1, <1>2 DEF memcpy

\* The memory new is mem, of n bytes, with s copied to at.
Copies(new, mem, n, at, s) ==
  /\ DOMAIN new = 0..(n - 1)
  /\ \A i \in 1..Len(s) : new[at + i - 1] = s[i]
  /\ \A j \in 0..(n - 1) : j < at \/ at + Len(s) <= j => new[j] = mem[j]

\* The same, of memcpy.
LEMMA MemcpyCopies ==
  ASSUME NEW n \in Nat, NEW mem, DOMAIN mem = 0..(n - 1), NEW at \in Nat, NEW s \in Seq(Bytes),
         at + Len(s) <= n
  PROVE  Copies(memcpy(mem, at, s), mem, n, at, s)
  <1> DEFINE new == memcpy(mem, at, s)
  <1>1. /\ DOMAIN new = 0..(n - 1)
        /\ \A i \in 1..Len(s) : new[at + i - 1] = s[i]
        /\ \A j \in 0..(n - 1) : j < at \/ at + Len(s) <= j => new[j] = mem[j]
    BY Copied
  <1> HIDE DEF new
  <1>2. Copies(new, mem, n, at, s)
    BY <1>1, Zenon DEF Copies
  <1>3. QED
    BY <1>2, Zenon DEF new

\* Memory into which s has been copied holds s.
LEMMA MemoryCopy ==
  ASSUME NEW n \in Nat, NEW mem, DOMAIN mem = 0..(n - 1), NEW at \in Nat, NEW s \in Seq(Bytes),
         at + Len(s) <= n
  PROVE  Has(memcpy(mem, at, s), n, at, s)
  BY Copied DEF Has

\* Bytes copied behind those held are held with them.
LEMMA MemoryAppend ==
  ASSUME NEW n, NEW mem, NEW r, NEW s, Has(mem, n, r, s), NEW t \in Seq(Bytes), r + Len(s) + Len(t) <= n
  PROVE  Has(memcpy(mem, r + Len(s), t), n, r, s \o t)
  <1> DEFINE new == memcpy(mem, r + Len(s), t)
  <1>1. n \in Nat /\ r \in Nat /\ Len(s) \in Nat /\ Len(t) \in Nat /\ s \in Seq(Bytes) /\ DOMAIN mem = 0..(n - 1)
    BY DEF Has
  <1>2. /\ DOMAIN new = 0..(n - 1)
        /\ \A i \in 1..Len(t) : new[r + Len(s) + i - 1] = t[i]
        /\ \A j \in 0..(n - 1) : j < r + Len(s) => new[j] = mem[j]
    <2> DEFINE at == r + Len(s)
    <2>1. at \in Nat /\ at + Len(t) <= n
      BY <1>1
    <2> HIDE DEF at
    <2>2. Copies(memcpy(mem, at, t), mem, n, at, t)
      BY <1>1, <2>1, MemcpyCopies, Zenon
    <2>3. QED
      BY <2>2, Zenon DEF Copies, at
  <1>3. /\ s \o t \in Seq(Bytes) /\ Len(s \o t) = Len(s) + Len(t)
        /\ \A i \in 1..(Len(s) + Len(t)) : (s \o t)[i] = IF i <= Len(s) THEN s[i] ELSE t[i - Len(s)]
    BY <1>1, ConcatProperties
  <1>4. ASSUME NEW i \in 1..(Len(s) + Len(t))
        PROVE  new[r + i - 1] = (s \o t)[i]
    <2>1. CASE i <= Len(s)
      <3>1. r + i - 1 \in 0..(n - 1) /\ r + i - 1 < r + Len(s) /\ i \in 1..Len(s)
        BY <1>1, <2>1
      <3>2. new[r + i - 1] = mem[r + i - 1] /\ mem[r + i - 1] = s[i]
        BY <1>2, <3>1 DEF Has
      <3>3. QED
        BY <1>3, <2>1, <3>2
    <2>2. CASE ~(i <= Len(s))
      <3>1. i - Len(s) \in 1..Len(t) /\ r + Len(s) + (i - Len(s)) - 1 = r + i - 1
        BY <1>1, <2>2
      <3>2. new[r + i - 1] = t[i - Len(s)]
        BY <1>2, <3>1
      <3>3. QED
        BY <1>3, <2>2, <3>2
    <2>3. QED
      BY <2>1, <2>2
  <1>5. QED
    BY <1>1, <1>2, <1>3, <1>4 DEF Has

\* Bytes copied before those held are held with them.
LEMMA MemoryPrepend ==
  ASSUME NEW n, NEW mem, NEW r, NEW s, Has(mem, n, r, s), NEW t \in Seq(Bytes), Len(t) <= r
  PROVE  Has(memcpy(mem, r - Len(t), t), n, r - Len(t), t \o s)
  <1> DEFINE a == r - Len(t)
             new == memcpy(mem, a, t)
  <1>1. n \in Nat /\ r \in Nat /\ Len(s) \in Nat /\ Len(t) \in Nat /\ s \in Seq(Bytes) /\ DOMAIN mem = 0..(n - 1)
        /\ r + Len(s) <= n
    BY DEF Has
  <1>2. a \in Nat /\ a + Len(t) <= n
    BY <1>1
  <1>3. a = r - Len(t)
    OBVIOUS
  <1>4. n \in Nat /\ DOMAIN mem = 0..(n - 1)
    BY <1>1
  <1> HIDE DEF a
  <1>5. /\ DOMAIN new = 0..(n - 1)
        /\ \A i \in 1..Len(t) : new[a + i - 1] = t[i]
        /\ \A j \in 0..(n - 1) : a + Len(t) <= j => new[j] = mem[j]
    BY <1>2, <1>4, Copied
  <1>6. /\ t \o s \in Seq(Bytes) /\ Len(t \o s) = Len(t) + Len(s)
        /\ \A i \in 1..(Len(t) + Len(s)) : (t \o s)[i] = IF i <= Len(t) THEN t[i] ELSE s[i - Len(t)]
    BY <1>1, ConcatProperties
  <1>7. ASSUME NEW i \in 1..(Len(t) + Len(s))
        PROVE  new[a + i - 1] = (t \o s)[i]
    <2>1. CASE i <= Len(t)
      <3>1. i \in 1..Len(t)
        BY <1>1, <2>1
      <3>2. QED
        BY <1>5, <1>6, <2>1, <3>1
    <2>2. CASE ~(i <= Len(t))
      <3>1. /\ i - Len(t) \in 1..Len(s) /\ a + i - 1 = r + (i - Len(t)) - 1
            /\ a + i - 1 \in 0..(n - 1) /\ a + Len(t) <= a + i - 1
        BY <1>3, <1>1, <1>2, <2>2
      <3>2. new[a + i - 1] = mem[a + i - 1]
        BY <1>5, <3>1
      <3>3. mem[r + (i - Len(t)) - 1] = s[i - Len(t)]
        BY <3>1, SMTT(20) DEF Has
      <3>4. QED
        BY <1>6, <2>2, <3>1, <3>2, <3>3
    <2>3. QED
      BY <2>1, <2>2
  <1> HIDE DEF new
  <1>8. Has(new, n, a, t \o s)
    <2>1. a + (Len(t) + Len(s)) <= n
      BY <1>3, <1>1
    <2>2. QED
      BY <1>2, <1>5, <1>6, <1>7, <1>4, <2>1 DEF Has
  <1>9. QED
    BY <1>8 DEF a, new

\* The bytes that are left when n are skipped, and when all but n are cut off.
LEMMA MemoryPart ==
  ASSUME NEW n, NEW mem, NEW r, NEW s, Has(mem, n, r, s), NEW k \in 0..Len(s)
  PROVE  /\ Has(mem, n, r + k, SubSeq(s, k + 1, Len(s))) /\ Len(SubSeq(s, k + 1, Len(s))) = Len(s) - k
         /\ Has(mem, n, r, SubSeq(s, 1, k)) /\ Len(SubSeq(s, 1, k)) = k
  <1>1. n \in Nat /\ r \in Nat /\ Len(s) \in Nat /\ r + Len(s) <= n /\ k \in Nat /\ k <= Len(s)
    BY DEF Has
  <1>2. s \in Seq(Bytes) /\ DOMAIN mem = 0..(n - 1) /\ \A i \in 1..Len(s) : s[i] \in Bytes /\ mem[r + i - 1] = s[i]
    BY DEF Has
  <1>3. Has(mem, n, r + k, SubSeq(s, k + 1, Len(s))) /\ Len(SubSeq(s, k + 1, Len(s))) = Len(s) - k
    <2> DEFINE t == SubSeq(s, k + 1, Len(s))
    <2>1. \A i \in (k + 1)..Len(s) : s[i] \in Bytes
      BY <1>1, <1>2
    <2>2. /\ t \in Seq(Bytes) /\ Len(t) = Len(s) - k
          /\ \A i \in 1..(Len(s) - k) : t[i] = s[k + i]
      BY <1>1, <2>1, SubSeqProperties
    <2>3. ASSUME NEW i \in 1..(Len(s) - k)
          PROVE  mem[r + k + i - 1] = t[i]
      <3>1. k + i \in 1..Len(s) /\ r + (k + i) - 1 = r + k + i - 1
        BY <1>1
      <3>2. QED
        BY <1>2, <2>2, <3>1
    <2>4. r + k \in Nat /\ r + k + (Len(s) - k) <= n
      BY <1>1
    <2> HIDE DEF t
    <2>5. Has(mem, n, r + k, t) /\ Len(t) = Len(s) - k
      BY <1>1, <1>2, <2>2, <2>3, <2>4 DEF Has
    <2>6. QED
      BY <2>5 DEF t
  <1>4. Has(mem, n, r, SubSeq(s, 1, k)) /\ Len(SubSeq(s, 1, k)) = k
    <2> DEFINE t == SubSeq(s, 1, k)
    <2>1. \A i \in 1..k : s[i] \in Bytes /\ mem[r + i - 1] = s[i]
      BY <1>1, <1>2
    <2>2. t \in Seq(Bytes) /\ Len(t) = k /\ \A i \in 1..k : t[i] = s[i]
      BY <1>1, <2>1, SubSeqProperties
    <2> HIDE DEF t
    <2>3. Has(mem, n, r, t) /\ Len(t) = k
      BY <1>1, <1>2, <2>1, <2>2 DEF Has
    <2>4. QED
      BY <2>3 DEF t
  <1>5. QED
    BY <1>3, <1>4

\* A consistent buffer's memory holds its content from read_index_ to write_index_.
LEMMA ValidHas ==
  ASSUME NEW x, Valid(x)
  PROVE  /\ Has(x.buffer_, x.capacity_, x.read_index_, Content(x))
         /\ Len(Content(x)) = length(x) /\ length(x) \in Nat
         /\ x.write_index_ = x.read_index_ + Len(Content(x))
         /\ x.read_index_ \in Nat /\ x.capacity_ \in Nat /\ x.write_index_ <= x.capacity_
         /\ x.reserved_prepend_size_ \in Nat /\ x.reserved_prepend_size_ <= x.capacity_
         /\ Content(x) \in Seq(Bytes)
  <1>1. length(x) \in Nat /\ x.write_index_ = x.read_index_ + length(x)
    BY DEF Valid, length
  <1>2. \A i \in 1..length(x) : x.buffer_[x.read_index_ + i - 1] \in Bytes
    BY SMTT(20) DEF Valid, length
  <1>3. Content(x) \in [1..length(x) -> Bytes]
    BY <1>2 DEF Content
  <1>4. Content(x) \in Seq(Bytes) /\ Len(Content(x)) = length(x)
    BY <1>1, <1>3
  <1>5. \A i \in 1..length(x) : x.buffer_[x.read_index_ + i - 1] = Content(x)[i]
    BY DEF Content
  <1>6. Has(x.buffer_, x.capacity_, x.read_index_, Content(x))
    BY <1>1, <1>4, <1>5 DEF Has, Valid
  <1>7. QED
    BY <1>1, <1>4, <1>6 DEF Valid

\* Conversely, fields whose memory holds s are a consistent buffer with the content s.
LEMMA HasValid ==
  ASSUME NEW n, NEW mem, NEW r, NEW s, Has(mem, n, r, s), NEW w, w = r + Len(s), NEW p \in Nat, p <= n
  PROVE  Valid(Fields(mem, n, r, w, p)) /\ Content(Fields(mem, n, r, w, p)) = s
  <1> DEFINE x == Fields(mem, n, r, w, p)
  <1>1. x.buffer_ = mem /\ x.capacity_ = n /\ x.read_index_ = r /\ x.write_index_ = w /\ x.reserved_prepend_size_ = p
    BY DEF Fields
  <1>2. n \in Nat /\ r \in Nat /\ Len(s) \in Nat /\ w = r + Len(s) /\ w <= n /\ w \in Nat /\ r <= w
    BY DEF Has
  <1>3. DOMAIN mem = 0..(n - 1) /\ s \in Seq(Bytes) /\ \A i \in 1..Len(s) : mem[r + i - 1] = s[i] /\ s[i] \in Bytes
    BY DEF Has
  <1>4. ASSUME NEW i \in 0..(n - 1), r <= i, i < w
        PROVE  mem[i] \in Bytes
    <2>1. i - r + 1 \in 1..Len(s) /\ r + (i - r + 1) - 1 = i
      BY <1>2, <1>4
    <2>2. QED
      BY <1>3, <2>1
  <1> HIDE DEF x
  <1>5. Valid(x)
    BY <1>1, <1>2, <1>3, <1>4 DEF Valid
  <1>6. length(x) = Len(s)
    BY <1>1, <1>2 DEF length
  <1>7. \A i \in 1..Len(s) : Content(x)[i] = s[i]
    BY <1>1, <1>3, <1>6 DEF Content
  <1>8. Content(x) = s
    BY <1>3, <1>5, <1>6, <1>7, ValidHas, SeqEqual
  <1>9. QED
    BY <1>5, <1>8 DEF x

-----------------------------------------------------------------------------
(* The methods.                                                            *)

\* Memory just allocated.
LEMMA AllocatedDomain == \A n \in Nat : DOMAIN Allocated(n) = 0..(n - 1)
  BY DEF Allocated

\* A new buffer is consistent and empty, with the capacity it was asked for.
LEMMA NewEmpty ==
  ASSUME NEW i \in Nat, NEW p \in Nat
  PROVE  Valid(New(i, p)) /\ Content(New(i, p)) = <<>> /\ WritableBytes(New(i, p)) = i
  <1>1. p + i \in Nat /\ p <= p + i /\ p + 0 <= p + i /\ p = p + 0
    OBVIOUS
  <1>2. <<>> \in Seq(Bytes) /\ Len(<<>>) = 0
    OBVIOUS
  <1>3. Has(Allocated(p + i), p + i, p, <<>>)
    BY <1>1, <1>2, AllocatedDomain DEF Has
  <1>4. Valid(New(i, p)) /\ Content(New(i, p)) = <<>>
    BY <1>1, <1>2, <1>3, HasValid DEF New
  <1>5. QED
    BY <1>4 DEF New, Fields, WritableBytes

\* Put appends where there is room.
LEMMA PutAppends ==
  ASSUME NEW x, Valid(x), NEW s \in Seq(Bytes), Len(s) <= WritableBytes(x)
  PROVE  /\ Valid(Put(x, s)) /\ Content(Put(x, s)) = Content(x) \o s
         /\ WritableBytes(Put(x, s)) = WritableBytes(x) - Len(s)
  <1> DEFINE r == x.read_index_
             c == Content(x)
             w == x.write_index_
             n == x.capacity_
             p == x.reserved_prepend_size_
  <1>1. /\ Has(x.buffer_, n, r, c) /\ w = r + Len(c) /\ p \in Nat /\ p <= n
        /\ n \in Nat /\ r \in Nat /\ c \in Seq(Bytes)
    BY ValidHas
  <1>2. n - w >= Len(s)
    BY DEF WritableBytes
  <1>3. Put(x, s) = Fields(memcpy(x.buffer_, w, s), n, r, w + Len(s), p)
    BY DEF Put
  <1>4. WritableBytes(Put(x, s)) = n - (w + Len(s)) /\ WritableBytes(x) = n - w
    BY <1>3 DEF WritableBytes, Fields
  <1> HIDE DEF r, c, w, n, p
  <1>5. Len(c) \in Nat /\ Len(s) \in Nat /\ r + Len(c) + Len(s) <= n
    BY <1>1, <1>2
  <1>6. Has(memcpy(x.buffer_, r + Len(c), s), n, r, c \o s)
    BY <1>1, <1>5, MemoryAppend
  <1>7. Len(c \o s) = Len(c) + Len(s)
    BY <1>1, ConcatProperties
  <1>8. w + Len(s) = r + Len(c \o s)
    BY <1>1, <1>5, <1>7
  <1>9. Valid(Put(x, s)) /\ Content(Put(x, s)) = c \o s
    <2> DEFINE v == w + Len(s)
               e == c \o s
               mem == memcpy(x.buffer_, w, s)
    <2>1. Has(mem, n, r, e)
      BY <1>1, <1>6
    <2>2. p \in Nat /\ p <= n
      BY <1>1
    <2>3. Put(x, s) = Fields(mem, n, r, v, p) /\ v = r + Len(e)
      BY <1>3, <1>8
    <2> HIDE DEF v, e, mem
    <2>4. Valid(Put(x, s)) /\ Content(Put(x, s)) = e
      BY <2>1, <2>2, <2>3, HasValid
    <2>5. QED
      BY <2>4 DEF e
  <1>10. n - (w + Len(s)) = n - w - Len(s)
    BY <1>1, <1>5
  <1>11. QED
    BY <1>4, <1>9, <1>10 DEF c

\* grow keeps the content and makes room for len bytes, and its asserts hold, when there is not
\* enough room behind the data or new memory is needed.
LEMMA GrowKeeps ==
  ASSUME NEW x, Valid(x), NEW len \in Nat, WritableBytes(x) < len \/ Allocates(x, len)
  PROVE  /\ Valid(grow(x, len)) /\ Content(grow(x, len)) = Content(x)
         /\ WritableBytes(grow(x, len)) >= len
         /\ GrowAsserts(x, len)
  <1> DEFINE r == x.read_index_
             c == Content(x)
             n == x.capacity_
             p == x.reserved_prepend_size_
             m == length(x)
             d == 2 * x.capacity_ + len
  <1>1. /\ Has(x.buffer_, n, r, c) /\ c \in Seq(Bytes) /\ Len(c) = m
    BY ValidHas
  <1>2. /\ r \in Nat /\ m \in Nat /\ n \in Nat /\ p \in Nat /\ p <= n /\ r + m <= n
        /\ WritableBytes(x) = n - (r + m) /\ PrependableBytes(x) = r
        /\ Allocates(x, len) <=> n - (r + m) + r < len + p
    BY ValidHas DEF WritableBytes, PrependableBytes, Allocates
  <1>3. d \in Nat /\ d = 2 * n + len
    BY <1>2
  <1>4. CASE Allocates(x, len)
    <2>1. grow(x, len) = Fields(memcpy(Allocated(d), p, c), d, p, p + m, p)
      BY <1>4 DEF grow
    <2> HIDE DEF r, c, n, p, m, d
    <2>2. p + m <= d /\ p <= d /\ d - (p + m) >= len
      BY <1>2, <1>3
    <2>3. Has(memcpy(Allocated(d), p, c), d, p, c)
      BY <1>1, <1>2, <1>3, <2>2, AllocatedDomain, MemoryCopy, SMTT(20)
    <2>4. Valid(grow(x, len)) /\ Content(grow(x, len)) = c
      BY <1>1, <1>2, <2>1, <2>2, <2>3, HasValid
    <2>5. grow(x, len).capacity_ = d /\ grow(x, len).write_index_ = p + m
      BY <2>1 DEF Fields
    <2>6. WritableBytes(grow(x, len)) >= len /\ Fits(grow(x, len), p, c)
      BY <1>1, <2>2, <2>5 DEF WritableBytes, Fits
    <2>7. QED
      BY <1>4, <2>4, <2>6 DEF GrowAsserts, c, p
  <1>5. CASE ~Allocates(x, len)
    <2>1. grow(x, len) = Fields(memcpy(x.buffer_, p, c), n, p, p + m, p)
      BY <1>5 DEF grow
    <2>2. WritableBytes(x) < len
      BY <1>5
    <2> HIDE DEF r, c, n, p, m, d
    <2>3. p < r /\ p + m <= n /\ n - (p + m) >= len
      BY <1>2, <1>5, <2>2
    <2>4. Has(memcpy(x.buffer_, p, c), n, p, c)
      <3>1. DOMAIN x.buffer_ = 0..(n - 1)
        BY <1>1 DEF Has
      <3>2. QED
        BY <1>1, <1>2, <2>3, <3>1, MemoryCopy
    <2>5. Valid(grow(x, len)) /\ Content(grow(x, len)) = c
      BY <1>1, <1>2, <2>1, <2>3, <2>4, HasValid
    <2>6. grow(x, len).capacity_ = n /\ grow(x, len).write_index_ = p + m
      BY <2>1 DEF Fields
    <2>7. WritableBytes(grow(x, len)) >= len /\ Fits(grow(x, len), p, c)
      BY <1>1, <2>3, <2>6 DEF WritableBytes, Fits
    <2>8. QED
      BY <2>3, <2>5, <2>7 DEF GrowAsserts, c, p, r
  <1>6. QED
    BY <1>4, <1>5

\* Write appends, and its asserts hold.
LEMMA WriteAppends ==
  ASSUME NEW x, Valid(x), NEW s \in Seq(Bytes)
  PROVE  Valid(Write(x, s)) /\ Content(Write(x, s)) = Content(x) \o s /\ WriteAsserts(x, s)
  <1> DEFINE y == EnsureWritableBytes(x, Len(s))
  <1>1. Len(s) \in Nat
    OBVIOUS
  <1>2. WritableBytes(x) \in Nat
    BY DEF Valid, WritableBytes
  <1>3. Valid(y) /\ Content(y) = Content(x) /\ Len(s) <= WritableBytes(y) /\ EnsureAsserts(x, Len(s))
    <2>1. CASE WritableBytes(x) < Len(s)
      BY <1>1, <2>1, GrowKeeps DEF EnsureWritableBytes, EnsureAsserts
    <2>2. CASE ~(WritableBytes(x) < Len(s))
      BY <1>1, <1>2, <2>2 DEF EnsureWritableBytes, EnsureAsserts
    <2>3. QED
      BY <2>1, <2>2
  <1>4. Fits(y, y.write_index_, s)
    BY <1>1, <1>3 DEF Fits, WritableBytes, Valid
  <1>5. Valid(Put(y, s)) /\ Content(Put(y, s)) = Content(y) \o s
    BY <1>3, PutAppends, Zenon
  <1>6. QED
    BY <1>3, <1>4, <1>5 DEF Write, WriteAsserts

\* Three pieces joined in either order.
LEMMA JoinedThree ==
  ASSUME NEW s \in Seq(Bytes), NEW t \in Seq(Bytes), NEW u \in Seq(Bytes)
  PROVE  (s \o t) \o u = s \o (t \o u)
  BY ConcatAssociative, SMT

\* ReadFromFD appends what was read, through extrabuf too, and its asserts hold.
LEMMA ReadAppends ==
  ASSUME NEW x, Valid(x), NEW s \in Seq(Bytes)
  PROVE  Valid(ReadFromFD(x, s)) /\ Content(ReadFromFD(x, s)) = Content(x) \o s /\ ReadAsserts(x, s)
  <1> DEFINE k == WritableBytes(x)
             a == SubSeq(s, 1, k)
             b == SubSeq(s, k + 1, Len(s))
             c == Content(x)
  <1>1. k \in Nat /\ Len(s) \in Nat
    BY DEF Valid, WritableBytes
  <1>2. CASE Len(s) <= k
    BY <1>1, <1>2, PutAppends DEF ReadFromFD, ReadAsserts
  <1>3. CASE ~(Len(s) <= k)
    <2>1. \A i \in 1..Len(s) : s[i] \in Bytes
      OBVIOUS
    <2>2. a \in Seq(Bytes) /\ Len(a) = k
      BY <1>1, <1>3, <2>1, SubSeqProperties
    <2>3. b \in Seq(Bytes)
      BY <1>1, <1>3, <2>1, SubSeqProperties
    <2>4. a \o b = s
      <3>1. 1 \in 1..(Len(s) + 1) /\ k \in (1 - 1)..Len(s) /\ Len(s) \in k..Len(s)
        BY <1>1, <1>3
      <3>2. a \o b = SubSeq(s, 1, Len(s))
        BY <3>1, ConcatAdjacentSubSeq, Zenon
      <3>3. QED
        BY <3>2, SubSeqFull, Zenon
    <2>5. ReadFromFD(x, s) = Write(Put(x, a), b) /\ (WriteAsserts(Put(x, a), b) => ReadAsserts(x, s))
      BY <1>3 DEF ReadFromFD, ReadAsserts
    <2>6. c \in Seq(Bytes)
      BY ValidHas
    <2> HIDE DEF a, b, c
    <2>7. Len(a) <= WritableBytes(x)
      BY <1>1, <2>2
    <2>8. Valid(Put(x, a)) /\ Content(Put(x, a)) = c \o a
      BY <2>2, <2>7, PutAppends DEF c
    <2>9. /\ Valid(Write(Put(x, a), b)) /\ Content(Write(Put(x, a), b)) = (c \o a) \o b
          /\ WriteAsserts(Put(x, a), b)
      BY <2>3, <2>8, WriteAppends, Zenon
    <2>10. (c \o a) \o b = c \o (a \o b)
      BY <2>2, <2>3, <2>6, JoinedThree, Zenon
    <2>11. (c \o a) \o b = c \o s
      BY <2>4, <2>10, Zenon
    <2>12. Valid(ReadFromFD(x, s)) /\ Content(ReadFromFD(x, s)) = c \o s /\ ReadAsserts(x, s)
      BY <2>5, <2>9, <2>11, Zenon
    <2>13. QED
      BY <2>12 DEF c
  <1>4. QED
    BY <1>2, <1>3

\* Prepend puts bytes before the content.
LEMMA PrependPrepends ==
  ASSUME NEW x, Valid(x), NEW s \in Seq(Bytes), Len(s) <= PrependableBytes(x)
  PROVE  Valid(Prepend(x, s)) /\ Content(Prepend(x, s)) = s \o Content(x)
  <1> DEFINE r == x.read_index_
             c == Content(x)
             n == x.capacity_
             p == x.reserved_prepend_size_
             a == r - Len(s)
             mem == memcpy(x.buffer_, a, s)
             e == s \o c
             w == x.write_index_
  <1>1. /\ Has(x.buffer_, n, r, c) /\ w = r + Len(c) /\ p \in Nat /\ p <= n
        /\ r \in Nat /\ c \in Seq(Bytes) /\ Len(s) <= r
    BY ValidHas DEF PrependableBytes
  <1>2. Prepend(x, s) = Fields(mem, n, a, w, p)
    BY DEF Prepend
  <1>3. Has(mem, n, a, e)
    <2> HIDE DEF r, c, n, p, w
    <2>1. QED
      BY <1>1, MemoryPrepend
  <1>4. Len(e) = Len(s) + Len(c) /\ Len(s) \in Nat /\ Len(c) \in Nat
    BY <1>1, ConcatProperties
  <1>5. w = a + Len(e)
    BY <1>1, <1>4
  <1> HIDE DEF r, n, p, a, mem, e, w
  <1>6. Valid(Prepend(x, s)) /\ Content(Prepend(x, s)) = e
    BY <1>1, <1>2, <1>3, <1>5, HasValid
  <1>7. QED
    BY <1>6 DEF e

\* Setting the indices around a sequence the memory holds.
LEMMA MovedHas ==
  ASSUME NEW x, Valid(x), NEW r, NEW s, Has(x.buffer_, x.capacity_, r, s), NEW w, w = r + Len(s)
  PROVE  Valid(Moved(x, r, w)) /\ Content(Moved(x, r, w)) = s
  <1>1. x.reserved_prepend_size_ \in Nat /\ x.reserved_prepend_size_ <= x.capacity_
    BY DEF Valid
  <1>2. QED
    BY <1>1, HasValid DEF Moved

\* Reset leaves an empty buffer.
LEMMA ResetEmpties ==
  ASSUME NEW x, Valid(x)
  PROVE  Valid(Reset(x)) /\ Content(Reset(x)) = <<>>
  <1> DEFINE p == x.reserved_prepend_size_
  <1>1. p \in Nat /\ x.capacity_ \in Nat /\ p + 0 <= x.capacity_ /\ p = p + 0 /\ DOMAIN x.buffer_ = 0..(x.capacity_ - 1)
    BY DEF Valid
  <1>2. <<>> \in Seq(Bytes) /\ Len(<<>>) = 0
    OBVIOUS
  <1>3. Has(x.buffer_, x.capacity_, p, <<>>)
    BY <1>1, <1>2 DEF Has
  <1>4. QED
    BY <1>1, <1>2, <1>3, MovedHas DEF Reset

\* Skip drops bytes at the front.
LEMMA SkipDrops ==
  ASSUME NEW x, Valid(x), NEW n \in Nat
  PROVE  LET k == IF n < length(x) THEN n ELSE length(x)
         IN  /\ Valid(Skip(x, n)) /\ Content(Skip(x, n)) = SubSeq(Content(x), k + 1, Len(Content(x)))
             /\ k \in 0..Len(Content(x))
  <1> DEFINE r == x.read_index_
             c == Content(x)
             m == length(x)
  <1>1. Has(x.buffer_, x.capacity_, r, c)
    BY ValidHas
  <1>2. m \in Nat /\ r \in Nat /\ Len(c) = m /\ x.write_index_ = r + m
    BY ValidHas
  <1>3. CASE n < m
    <2> DEFINE t == SubSeq(c, n + 1, Len(c))
    <2>1. n \in 0..Len(c)
      BY <1>2, <1>3
    <2>2. Has(x.buffer_, x.capacity_, r + n, t) /\ Len(t) = m - n
      BY <1>1, <1>2, <2>1, MemoryPart
    <2>3. x.write_index_ = r + n + Len(t)
      BY <1>2, <2>2
    <2>4. Skip(x, n) = Moved(x, r + n, x.write_index_)
      BY <1>3 DEF Skip
    <2> HIDE DEF t, r, c
    <2>5. Valid(Skip(x, n)) /\ Content(Skip(x, n)) = t
      BY <2>2, <2>3, <2>4, MovedHas
    <2>6. QED
      BY <1>3, <2>1, <2>5 DEF t, c
  <1>4. CASE ~(n < m)
    <2>1. Skip(x, n) = Reset(x)
      BY <1>4 DEF Skip
    <2>2. SubSeq(c, m + 1, Len(c)) = <<>>
      BY <1>2, SubSeqEmpty
    <2>3. m \in 0..Len(c)
      BY <1>2
    <2>4. QED
      BY <1>4, <2>1, <2>2, <2>3, ResetEmpties, Zenon
  <1>5. QED
    BY <1>3, <1>4

\* Truncate keeps the first bytes.
LEMMA TruncateKeeps ==
  ASSUME NEW x, Valid(x), NEW n \in Nat
  PROVE  LET k == IF n < length(x) THEN n ELSE length(x)
         IN  /\ Valid(Truncate(x, n)) /\ Content(Truncate(x, n)) = SubSeq(Content(x), 1, k)
             /\ k \in 0..Len(Content(x))
  <1> DEFINE r == x.read_index_
             c == Content(x)
             m == length(x)
  <1>1. Has(x.buffer_, x.capacity_, r, c) /\ c \in Seq(Bytes)
    BY ValidHas
  <1>2. m \in Nat /\ r \in Nat /\ Len(c) = m /\ x.write_index_ = r + m
    BY ValidHas
  <1>3. CASE n = 0
    <2>1. Truncate(x, n) = Reset(x) /\ (IF n < m THEN n ELSE m) = 0
      BY <1>2, <1>3 DEF Truncate
    <2>2. SubSeq(c, 1, 0) = <<>>
      BY SubSeqEmpty
    <2>3. Valid(Truncate(x, n)) /\ Content(Truncate(x, n)) = SubSeq(c, 1, 0)
      BY <2>1, <2>2, ResetEmpties, Zenon
    <2>4. 0 \in 0..Len(c)
      BY <1>2
    <2>5. QED
      BY <2>1, <2>3, <2>4, Zenon
  <1>4. CASE n # 0 /\ n < m
    <2> DEFINE t == SubSeq(c, 1, n)
    <2>1. n \in 0..Len(c) /\ x.write_index_ > r + n
      BY <1>2, <1>4
    <2>2. Has(x.buffer_, x.capacity_, r, t) /\ Len(t) = n
      BY <1>1, <2>1, MemoryPart
    <2>3. Truncate(x, n) = Moved(x, r, r + n)
      BY <1>4, <2>1 DEF Truncate
    <2> HIDE DEF t
    <2>4. Valid(Truncate(x, n)) /\ Content(Truncate(x, n)) = t
      BY <2>2, <2>3, MovedHas
    <2>5. QED
      BY <1>4, <2>1, <2>4 DEF t
  <1>5. CASE n # 0 /\ ~(n < m)
    <2>1. Truncate(x, n) = x
      BY <1>2, <1>5 DEF Truncate
    <2>2. SubSeq(c, 1, m) = c
      BY <1>1, <1>2, SubSeqFull
    <2>3. QED
      BY <1>2, <1>5, <2>1, <2>2
  <1>6. QED
    BY <1>3, <1>4, <1>5

\* UnwriteBytes takes bytes back at the end.
LEMMA UnwriteKeeps ==
  ASSUME NEW x, Valid(x), NEW n \in Nat, n <= length(x)
  PROVE  /\ Valid(UnwriteBytes(x, n)) /\ Content(UnwriteBytes(x, n)) = SubSeq(Content(x), 1, length(x) - n)
         /\ length(x) - n \in 0..Len(Content(x))
  <1> DEFINE r == x.read_index_
             c == Content(x)
             k == length(x) - n
             t == SubSeq(c, 1, k)
  <1>1. Has(x.buffer_, x.capacity_, r, c)
    BY ValidHas
  <1>2. length(x) \in Nat /\ r \in Nat /\ Len(c) = length(x) /\ x.write_index_ = r + length(x)
    BY ValidHas
  <1>3. k \in 0..Len(c) /\ x.write_index_ - n = r + k
    BY <1>2
  <1> HIDE DEF k
  <1>4. Has(x.buffer_, x.capacity_, r, t) /\ Len(t) = k
    BY <1>1, <1>3, MemoryPart
  <1>5. UnwriteBytes(x, n) = Moved(x, r, r + k)
    BY <1>3 DEF UnwriteBytes
  <1> HIDE DEF t
  <1>6. Valid(UnwriteBytes(x, n)) /\ Content(UnwriteBytes(x, n)) = t
    BY <1>4, <1>5, MovedHas
  <1>7. QED
    BY <1>3, <1>6 DEF t, k

\* Reserve only changes the capacity.
LEMMA ReserveKeeps ==
  ASSUME NEW x, Valid(x), NEW n \in Nat
  PROVE  /\ Valid(Reserve(x, n)) /\ Content(Reserve(x, n)) = Content(x)
         /\ (x.capacity_ < n + x.reserved_prepend_size_ => GrowAsserts(x, n + x.reserved_prepend_size_))
  <1> DEFINE len == n + x.reserved_prepend_size_
  <1>1. len \in Nat /\ x.capacity_ \in Nat
    BY DEF Valid
  <1>2. CASE x.capacity_ >= len
    BY <1>1, <1>2 DEF Reserve
  <1>3. CASE ~(x.capacity_ >= len)
    <2>1. Allocates(x, len)
      BY <1>1, <1>3, SMTT(20) DEF Allocates, WritableBytes, PrependableBytes, Valid
    <2>2. Reserve(x, n) = grow(x, len)
      BY <1>3 DEF Reserve
    <2> HIDE DEF len
    <2>3. Valid(grow(x, len)) /\ Content(grow(x, len)) = Content(x) /\ GrowAsserts(x, len)
      BY <1>1, <2>1, GrowKeeps
    <2>4. QED
      BY <2>2, <2>3 DEF len
  <1>4. QED
    BY <1>2, <1>3

\* Shrink copies the content to a new buffer.
LEMMA ShrinkKeeps ==
  ASSUME NEW x, Valid(x), NEW n \in Nat
  PROVE  /\ Valid(Shrink(x, n)) /\ Content(Shrink(x, n)) = Content(x)
         /\ WriteAsserts(New(length(x) + n, kCheapPrependSize), Content(x))
  <1> DEFINE z == New(length(x) + n, kCheapPrependSize)
  <1>1. length(x) + n \in Nat /\ kCheapPrependSize \in Nat /\ Content(x) \in Seq(Bytes)
    BY ValidHas, BufferAssumption
  <1>2. Valid(z) /\ Content(z) = <<>>
    BY <1>1, NewEmpty
  <1>3. <<>> \o Content(x) = Content(x)
    BY <1>1, ConcatEmptySeq
  <1> HIDE DEF z
  <1>4. Valid(Write(z, Content(x))) /\ Content(Write(z, Content(x))) = <<>> \o Content(x) /\ WriteAsserts(z, Content(x))
    BY <1>1, <1>2, WriteAppends, Zenon
  <1>5. QED
    BY <1>3, <1>4 DEF Shrink, z

-----------------------------------------------------------------------------
(* The invariant and the refinement.                                       *)

\* The bytes t lie in x's memory just before the unread ones.
Before(x, t) == Len(t) <= x.read_index_ /\ Has(x.buffer_, x.capacity_, x.read_index_ - Len(t), t)

\* What the last read returned is still there, unless the read emptied the buffer.
TakenKept ==
  \A b \in Buffers : taken[b] \in Seq(Bytes) /\ (WasReset(buf[b]) \/ Before(buf[b], taken[b]))

IInv ==
  /\ buf = [b \in Buffers |-> buf[b]] /\ taken = [b \in Buffers |-> taken[b]]
  /\ FieldsConsistent
  /\ TakenKept
  /\ asserts

\* Memory that holds s and, behind it, t holds both.
LEMMA MemoryJoin ==
  ASSUME NEW n, NEW mem, NEW r, NEW s, NEW t, Has(mem, n, r, s), Has(mem, n, r + Len(s), t)
  PROVE  Has(mem, n, r, s \o t)
  <1>1. n \in Nat /\ r \in Nat /\ Len(s) \in Nat /\ Len(t) \in Nat /\ r + Len(s) + Len(t) <= n
    BY DEF Has
  <1>2. s \in Seq(Bytes) /\ t \in Seq(Bytes) /\ DOMAIN mem = 0..(n - 1)
    BY DEF Has
  <1>3. /\ s \o t \in Seq(Bytes) /\ Len(s \o t) = Len(s) + Len(t)
        /\ \A i \in 1..(Len(s) + Len(t)) : (s \o t)[i] = IF i <= Len(s) THEN s[i] ELSE t[i - Len(s)]
    BY <1>2, ConcatProperties
  <1>4. ASSUME NEW i \in 1..(Len(s) + Len(t))
        PROVE  mem[r + i - 1] = (s \o t)[i]
    <2>1. CASE i <= Len(s)
      <3>1. i \in 1..Len(s)
        BY <1>1, <2>1
      <3>2. mem[r + i - 1] = s[i]
        BY <3>1, Zenon DEF Has
      <3>3. QED
        BY <1>3, <2>1, <3>2
    <2>2. CASE ~(i <= Len(s))
      <3>1. i - Len(s) \in 1..Len(t) /\ r + Len(s) + (i - Len(s)) - 1 = r + i - 1
        BY <1>1, <2>2
      <3>2. mem[r + Len(s) + (i - Len(s)) - 1] = t[i - Len(s)]
        BY <3>1, Zenon DEF Has
      <3>3. QED
        BY <1>3, <2>2, <3>1, <3>2
    <2>3. QED
      BY <2>1, <2>2
  <1>5. QED
    BY <1>1, <1>2, <1>3, <1>4 DEF Has

\* Nothing lies before the unread bytes.
LEMMA BeforeNothing ==
  ASSUME NEW x, Valid(x)
  PROVE  Before(x, <<>>)
  <1>1. <<>> \in Seq(Bytes) /\ Len(<<>>) = 0
    OBVIOUS
  <1>2. /\ x.read_index_ \in Nat /\ x.capacity_ \in Nat /\ x.read_index_ <= x.capacity_ /\ x.read_index_ - 0 = x.read_index_
        /\ DOMAIN x.buffer_ = 0..(x.capacity_ - 1)
    BY DEF Valid
  <1>3. Has(x.buffer_, x.capacity_, x.read_index_, <<>>)
    BY <1>1, <1>2 DEF Has
  <1>4. QED
    BY <1>1, <1>2, <1>3 DEF Before

\* The bytes passed by a read that does not reset lie before those that are left.
LEMMA ReadKeeps ==
  ASSUME NEW x, Valid(x), NEW k \in 0..length(x)
  PROVE  LET y == Moved(x, x.read_index_ + k, x.write_index_)
             t == SubSeq(Content(x), 1, k)
         IN  /\ Valid(y) /\ Content(y) = SubSeq(Content(x), k + 1, Len(Content(x)))
             /\ t \in Seq(Bytes) /\ Before(y, t)
  <1> DEFINE r == x.read_index_
             c == Content(x)
             m == length(x)
             y == Moved(x, r + k, x.write_index_)
             t == SubSeq(c, 1, k)
             d == SubSeq(c, k + 1, Len(c))
  <1>1. Has(x.buffer_, x.capacity_, r, c) /\ c \in Seq(Bytes)
    BY ValidHas
  <1>2. m \in Nat /\ r \in Nat /\ Len(c) = m /\ x.write_index_ = r + m
    BY ValidHas
  <1>3. k \in 0..Len(c) /\ k \in Nat
    BY <1>2
  <1>4. Has(x.buffer_, x.capacity_, r + k, d) /\ Len(d) = m - k /\ Has(x.buffer_, x.capacity_, r, t) /\ Len(t) = k
    BY <1>1, <1>2, <1>3, MemoryPart
  <1>5. x.write_index_ = r + k + Len(d)
    BY <1>2, <1>3, <1>4, SMTT(20)
  <1>6. y.read_index_ = r + k /\ y.buffer_ = x.buffer_ /\ y.capacity_ = x.capacity_
    BY DEF Moved, Fields
  <1>7. t \in Seq(Bytes)
    BY <1>4 DEF Has
  <1> HIDE DEF d, t
  <1>8. Valid(y) /\ Content(y) = d
    BY <1>4, <1>5, MovedHas
  <1> HIDE DEF y, r
  <1>9. Before(y, t)
    <2>1. Len(t) = k /\ y.read_index_ = r + k
      BY <1>4, <1>6
    <2>2. r \in Nat /\ k \in Nat
      BY <1>2, <1>3
    <2>3. Len(t) <= y.read_index_ /\ y.read_index_ - Len(t) = r
      BY <2>1, <2>2
    <2>4. Has(y.buffer_, y.capacity_, y.read_index_ - Len(t), t)
      BY <1>4, <1>6, <2>3, Zenon
    <2>5. QED
      BY <2>3, <2>4, Zenon DEF Before
  <1>10. QED
    BY <1>7, <1>8, <1>9, Zenon DEF d, t, y, r, c

\* UnreadBytes gives the last n bytes read back.
LEMMA UnreadRestores ==
  ASSUME NEW x, Valid(x), NEW t \in Seq(Bytes), Before(x, t), NEW n \in 0..Len(t)
  PROVE  LET y == Moved(x, x.read_index_ - n, x.write_index_)
         IN  Valid(y) /\ Content(y) = SubSeq(t, Len(t) - n + 1, Len(t)) \o Content(x)
  <1> DEFINE r == x.read_index_
             c == Content(x)
             k == Len(t) - n
             u == SubSeq(t, k + 1, Len(t))
             a == r - n
  <1>1. c \in Seq(Bytes) /\ r \in Nat /\ Len(c) = length(x) /\ x.write_index_ = r + length(x) /\ length(x) \in Nat
    BY ValidHas
  <1>2. Len(t) \in Nat /\ n \in Nat /\ n <= Len(t) /\ Len(t) <= r
    BY DEF Before
  <1>3. k \in 0..Len(t) /\ Len(t) - k = n /\ r - Len(t) + k = a /\ a + n = r
    BY <1>1, <1>2
  <1>4. Has(x.buffer_, x.capacity_, r - Len(t), t) /\ Has(x.buffer_, x.capacity_, r, c)
    BY ValidHas DEF Before
  <1> HIDE DEF k, a
  <1>5. Has(x.buffer_, x.capacity_, a, u) /\ Len(u) = n
    <2>1. Has(x.buffer_, x.capacity_, r - Len(t) + k, u) /\ Len(u) = Len(t) - k
      BY <1>3, <1>4, MemoryPart
    <2>2. QED
      BY <1>3, <2>1
  <1> HIDE DEF u, c
  <1>6. Has(x.buffer_, x.capacity_, a, u \o c)
    BY <1>3, <1>4, <1>5, MemoryJoin
  <1>7. x.write_index_ = a + Len(u \o c)
    <2>1. u \in Seq(Bytes)
      BY <1>5 DEF Has
    <2>2. Len(u \o c) = Len(u) + Len(c)
      BY <1>1, <2>1, ConcatProperties, Zenon
    <2>3. a \in Nat
      BY <1>5 DEF Has
    <2>4. QED
      BY <1>1, <1>2, <1>3, <1>5, <2>2, <2>3
  <1>8. Valid(Moved(x, a, x.write_index_)) /\ Content(Moved(x, a, x.write_index_)) = u \o c
    BY <1>6, <1>7, MovedHas, Zenon
  <1>9. QED
    BY <1>8, Zenon DEF a, r, u, c, k

\* A call that is no read and leaves a consistent buffer x keeps the invariant and, seen from
\* outside, replaces the bytes of b by those of x.
LEMMA CallBecomes ==
  ASSUME IInv, NEW b \in Buffers, NEW x, Valid(x), Becomes(b, x), asserts'
  PROVE  IInv' /\ Queue!Becomes(b, Content(x))
  <1>1. buf' = [c \in Buffers |-> IF c = b THEN x ELSE buf[c]] /\ taken' = [c \in Buffers |-> IF c = b THEN <<>> ELSE taken[c]]
    BY Zenon DEF IInv, Becomes
  <1>2. buf' = [c \in Buffers |-> buf'[c]] /\ taken' = [c \in Buffers |-> taken'[c]]
    BY <1>1
  <1>3. FieldsConsistent'
    BY <1>1 DEF IInv, FieldsConsistent
  <1>4. TakenKept'
    <2>1. <<>> \in Seq(Bytes) /\ Before(x, <<>>)
      BY BeforeNothing
    <2>2. QED
      BY <1>1, <2>1, Zenon DEF IInv, TakenKept
  <1>5. IInv'
    BY <1>2, <1>3, <1>4, Zenon DEF IInv
  <1>6. [c \in Buffers |-> Content(buf'[c])] = [[c \in Buffers |-> Content(buf[c])] EXCEPT ![b] = Content(x)]
    BY <1>1, Zenon
  <1>7. QED
    BY <1>5, <1>6 DEF Queue!Becomes, Becomes

\* A read of k bytes that leaves a consistent buffer x with the others.
LEMMA CallTakes ==
  ASSUME IInv, NEW b \in Buffers, NEW x, Valid(x), NEW k \in 0..Len(Content(buf[b])),
         Content(x) = SubSeq(Content(buf[b]), k + 1, Len(Content(buf[b]))),
         WasReset(x) \/ Before(x, SubSeq(Content(buf[b]), 1, k)),
         SubSeq(Content(buf[b]), 1, k) \in Seq(Bytes),
         buf' = [buf EXCEPT ![b] = x], taken' = [taken EXCEPT ![b] = SubSeq(Content(buf[b]), 1, k)], asserts'
  PROVE  IInv' /\ Queue!Take(b)
  <1> DEFINE t == SubSeq(Content(buf[b]), 1, k)
             d == SubSeq(Content(buf[b]), k + 1, Len(Content(buf[b])))
             queue == [c \in Buffers |-> Content(buf[c])]
  <1>1. buf' = [c \in Buffers |-> IF c = b THEN x ELSE buf[c]] /\ taken' = [c \in Buffers |-> IF c = b THEN t ELSE taken[c]]
    BY Zenon DEF IInv
  <1> HIDE DEF t
  <1>2. buf' = [c \in Buffers |-> buf'[c]] /\ taken' = [c \in Buffers |-> taken'[c]]
    BY <1>1, Zenon
  <1>3. FieldsConsistent'
    BY <1>1, Zenon DEF IInv, FieldsConsistent
  <1>4. t \in Seq(Bytes) /\ (WasReset(x) \/ Before(x, t))
    BY DEF t
  <1>5. TakenKept'
    BY <1>1, <1>4, Zenon DEF IInv, TakenKept
  <1>6. IInv'
    BY <1>2, <1>3, <1>5, Zenon DEF IInv
  <1>7. Content(x) = d
    OBVIOUS
  <1> HIDE DEF d
  <1>8. [c \in Buffers |-> Content(buf'[c])] = [queue EXCEPT ![b] = d]
    BY <1>1, <1>7, Zenon
  <1>9. queue[b] = Content(buf[b])
    OBVIOUS
  <1>10. QED
    BY <1>6, <1>8, <1>9, Zenon DEF Queue!Take, Queue!Drop, Queue!Front, t, d

\* A call that changes storage only.
LEMMA KeepAll ==
  ASSUME IInv, NEW b \in Buffers, Queue!Becomes(b, Content(buf[b]))
  PROVE  Queue!Keep(b)
  <1> DEFINE c == Content(buf[b])
  <1>1. c \in Seq(Bytes) /\ Len(c) \in Nat
    BY ValidHas DEF IInv, FieldsConsistent
  <1>2. SubSeq(c, 1, Len(c)) = c /\ Len(c) \in 0..Len(c)
    BY <1>1, SubSeqFull
  <1>3. [a \in Buffers |-> Content(buf[a])][b] = c
    OBVIOUS
  <1> HIDE DEF c
  <1>4. Queue!Becomes(b, SubSeq(c, 1, Len(c)))
    BY <1>2, Zenon DEF c
  <1>5. QED
    BY <1>2, <1>3, <1>4, Zenon DEF Queue!Keep, Queue!Front

\* The first buffers are empty.
LEMMA InitInv ==
  ASSUME BufferInit
  PROVE  IInv /\ Queue!Init
  <1>1. \A b \in Buffers : Valid(buf[b]) /\ Content(buf[b]) = <<>>
    <2> TAKE b \in Buffers
    <2>1. PICK i \in Sizes, r \in Sizes : buf[b] = New(i, r)
      BY DEF BufferInit
    <2>2. i \in Nat /\ r \in Nat
      BY BufferAssumption
    <2>3. QED
      BY <2>1, <2>2, NewEmpty
  <1>2. buf = [b \in Buffers |-> buf[b]] /\ taken = [b \in Buffers |-> taken[b]] /\ taken = [b \in Buffers |-> <<>>] /\ asserts
    BY DEF BufferInit
  <1>3. TakenKept
    <2>1. <<>> \in Seq(Bytes)
      OBVIOUS
    <2>2. QED
      BY <1>1, <1>2, <2>1, BeforeNothing, Zenon DEF TakenKept
  <1>4. IInv
    BY <1>1, <1>2, <1>3, Zenon DEF IInv, FieldsConsistent
  <1>5. [b \in Buffers |-> Content(buf[b])] = [b \in Buffers |-> <<>>]
    BY <1>1
  <1>6. QED
    BY <1>2, <1>4, <1>5 DEF Queue!Init

\* Every step keeps the invariant and is a step of the queue.
LEMMA NextInv ==
  ASSUME ~UnreadAfterReset, IInv, BufferNext
  PROVE  IInv' /\ Queue!Next
  <1>1. \A b \in Buffers : Valid(buf[b]) /\ Content(buf[b]) \in Seq(Bytes) /\ [a \in Buffers |-> Content(buf[a])][b] = Content(buf[b])
    BY ValidHas, Zenon DEF IInv, FieldsConsistent
  <1>2. Texts \subseteq Seq(Bytes) /\ Sizes \subseteq Nat
    BY BufferAssumption
  <1>3. asserts
    BY DEF IInv
  <1>4. ASSUME NEW b \in Buffers, NEW s \in Texts, DoWrite(b, s)
        PROVE  IInv' /\ Queue!PutBack(b)
    <2>1. Valid(Write(buf[b], s)) /\ Content(Write(buf[b], s)) = Content(buf[b]) \o s /\ WriteAsserts(buf[b], s)
      BY <1>1, <1>2, WriteAppends, Zenon
    <2>2. Becomes(b, Write(buf[b], s)) /\ asserts'
      BY <1>3, <1>4, <2>1, Zenon DEF DoWrite
    <2>3. IInv' /\ Queue!Becomes(b, Content(buf[b]) \o s)
      BY <2>1, <2>2, CallBecomes, Zenon
    <2>4. QED
      BY <1>1, <2>3, Zenon DEF Queue!PutBack
  <1>5. ASSUME NEW b \in Buffers, NEW s \in Texts, DoReadFromFD(b, s)
        PROVE  IInv' /\ Queue!PutBack(b)
    <2>1. Valid(ReadFromFD(buf[b], s)) /\ Content(ReadFromFD(buf[b], s)) = Content(buf[b]) \o s /\ ReadAsserts(buf[b], s)
      BY <1>1, <1>2, ReadAppends, Zenon
    <2>2. Becomes(b, ReadFromFD(buf[b], s)) /\ asserts'
      BY <1>3, <1>5, <2>1, Zenon DEF DoReadFromFD
    <2>3. IInv' /\ Queue!Becomes(b, Content(buf[b]) \o s)
      BY <2>1, <2>2, CallBecomes, Zenon
    <2>4. QED
      BY <1>1, <2>3, Zenon DEF Queue!PutBack
  <1>6. ASSUME NEW b \in Buffers, NEW s \in Texts, DoWriteBytes(b, s)
        PROVE  IInv' /\ Queue!PutBack(b)
    <2>1. Len(s) <= WritableBytes(buf[b]) /\ Becomes(b, Put(buf[b], s)) /\ asserts'
      BY <1>3, <1>6, Zenon DEF DoWriteBytes
    <2>2. Valid(Put(buf[b], s)) /\ Content(Put(buf[b], s)) = Content(buf[b]) \o s
      BY <1>1, <1>2, <2>1, PutAppends
    <2>3. IInv' /\ Queue!Becomes(b, Content(buf[b]) \o s)
      BY <2>1, <2>2, CallBecomes, Zenon
    <2>4. QED
      BY <1>1, <2>3, Zenon DEF Queue!PutBack
  <1>7. ASSUME NEW b \in Buffers, NEW s \in Texts, DoPrepend(b, s)
        PROVE  IInv' /\ Queue!PutFront(b)
    <2>1. Len(s) <= PrependableBytes(buf[b]) /\ Becomes(b, Prepend(buf[b], s)) /\ asserts'
      BY <1>3, <1>7, Zenon DEF DoPrepend
    <2>2. Valid(Prepend(buf[b], s)) /\ Content(Prepend(buf[b], s)) = s \o Content(buf[b])
      BY <1>1, <1>2, <2>1, PrependPrepends
    <2>3. IInv' /\ Queue!Becomes(b, s \o Content(buf[b]))
      BY <2>1, <2>2, CallBecomes, Zenon
    <2>4. QED
      BY <1>1, <2>3, Zenon DEF Queue!PutFront
  <1>8. ASSUME NEW b \in Buffers, NEW n \in Sizes, DoUnwriteBytes(b, n)
        PROVE  IInv' /\ Queue!Keep(b)
    <2> DEFINE k == length(buf[b]) - n
    <2>1. n <= length(buf[b]) /\ Becomes(b, UnwriteBytes(buf[b], n)) /\ asserts'
      BY <1>3, <1>8, Zenon DEF DoUnwriteBytes
    <2>2. /\ Valid(UnwriteBytes(buf[b], n)) /\ Content(UnwriteBytes(buf[b], n)) = SubSeq(Content(buf[b]), 1, k)
          /\ k \in 0..Len(Content(buf[b]))
      BY <1>1, <1>2, <2>1, UnwriteKeeps
    <2> HIDE DEF k
    <2>3. IInv' /\ Queue!Becomes(b, SubSeq(Content(buf[b]), 1, k))
      BY <2>1, <2>2, CallBecomes, Zenon
    <2>4. QED
      BY <1>1, <2>2, <2>3, Zenon DEF Queue!Keep, Queue!Front
  <1>9. ASSUME NEW b \in Buffers, NEW n \in Sizes, DoTruncate(b, n)
        PROVE  IInv' /\ Queue!Keep(b)
    <2> DEFINE k == IF n < length(buf[b]) THEN n ELSE length(buf[b])
    <2>1. Becomes(b, Truncate(buf[b], n)) /\ asserts'
      BY <1>3, <1>9, Zenon DEF DoTruncate
    <2>2. /\ Valid(Truncate(buf[b], n)) /\ Content(Truncate(buf[b], n)) = SubSeq(Content(buf[b]), 1, k)
          /\ k \in 0..Len(Content(buf[b]))
      BY <1>1, <1>2, TruncateKeeps, SMTT(20)
    <2> HIDE DEF k
    <2>3. IInv' /\ Queue!Becomes(b, SubSeq(Content(buf[b]), 1, k))
      BY <2>1, <2>2, CallBecomes, Zenon
    <2>4. QED
      BY <1>1, <2>2, <2>3, Zenon DEF Queue!Keep, Queue!Front
  <1>10. ASSUME NEW b \in Buffers, NEW n \in Sizes, DoReserve(b, n)
         PROVE  IInv' /\ Queue!Keep(b)
    <2>1. /\ Valid(Reserve(buf[b], n)) /\ Content(Reserve(buf[b], n)) = Content(buf[b])
          /\ (buf[b].capacity_ < n + buf[b].reserved_prepend_size_ => GrowAsserts(buf[b], n + buf[b].reserved_prepend_size_))
      BY <1>1, <1>2, ReserveKeeps
    <2>2. Becomes(b, Reserve(buf[b], n)) /\ asserts'
      BY <1>3, <1>10, <2>1, Zenon DEF DoReserve
    <2>3. IInv' /\ Queue!Becomes(b, Content(buf[b]))
      BY <2>1, <2>2, CallBecomes, Zenon
    <2>4. QED
      BY <2>3, KeepAll, Zenon
  <1>11. ASSUME NEW b \in Buffers, NEW n \in Sizes, DoShrink(b, n)
         PROVE  IInv' /\ Queue!Keep(b)
    <2>1. /\ Valid(Shrink(buf[b], n)) /\ Content(Shrink(buf[b], n)) = Content(buf[b])
          /\ WriteAsserts(New(length(buf[b]) + n, kCheapPrependSize), Content(buf[b]))
      BY <1>1, <1>2, ShrinkKeeps
    <2>2. Becomes(b, Shrink(buf[b], n)) /\ asserts'
      BY <1>3, <1>11, <2>1, Zenon DEF DoShrink
    <2>3. IInv' /\ Queue!Becomes(b, Content(buf[b]))
      BY <2>1, <2>2, CallBecomes, Zenon
    <2>4. QED
      BY <2>3, KeepAll, Zenon
  <1>12. ASSUME NEW b \in Buffers, DoToText(b)
         PROVE  IInv' /\ Queue!Keep(b)
    <2>1. PICK z \in Bytes : /\ Becomes(b, UnwriteBytes(Write(buf[b], <<z>>), 1))
                             /\ asserts' = (asserts /\ WriteAsserts(buf[b], <<z>>))
      BY <1>12, Zenon DEF DoToText
    <2> DEFINE x == Write(buf[b], <<z>>)
               c == Content(buf[b])
    <2>2. <<z>> \in Seq(Bytes) /\ Len(<<z>>) = 1
      OBVIOUS
    <2>3. Valid(x) /\ Content(x) = c \o <<z>> /\ WriteAsserts(buf[b], <<z>>)
      BY <1>1, <2>2, WriteAppends, Zenon
    <2>4. c \in Seq(Bytes) /\ Len(c) \in Nat
      BY <1>1
    <2> HIDE DEF c, x
    <2>5. Len(c \o <<z>>) = Len(c) + 1 /\ SubSeq(c \o <<z>>, 1, Len(c)) = c
      BY <2>2, <2>4
    <2>6. length(x) = Len(c) + 1
      BY <2>3, <2>5, ValidHas
    <2>7. 1 <= length(x) /\ length(x) - 1 = Len(c) /\ 1 \in Nat
      BY <2>4, <2>6
    <2>8. Valid(UnwriteBytes(x, 1)) /\ Content(UnwriteBytes(x, 1)) = SubSeq(Content(x), 1, length(x) - 1)
      BY <2>3, <2>7, UnwriteKeeps
    <2>9. Content(UnwriteBytes(x, 1)) = c
      BY <2>3, <2>5, <2>7, <2>8, Zenon
    <2>10. Becomes(b, UnwriteBytes(x, 1)) /\ asserts'
      BY <1>3, <2>1, <2>3, Zenon DEF x
    <2>11. IInv' /\ Queue!Becomes(b, c)
      BY <2>8, <2>9, <2>10, CallBecomes, Zenon
    <2>12. QED
      BY <2>11, KeepAll, Zenon DEF c
  <1>13. ASSUME NEW b \in Buffers, NEW n \in Sizes, DoNext(b, n)
         PROVE  IInv' /\ Queue!Take(b)
    <2> DEFINE c == Content(buf[b])
               m == length(buf[b])
               k == IF n < m THEN n ELSE m
               x == Skip(buf[b], n)
    <2>1. buf' = [buf EXCEPT ![b] = x] /\ taken' = [taken EXCEPT ![b] = SubSeq(c, 1, k)] /\ asserts'
      BY <1>3, <1>13, Zenon DEF DoNext
    <2>2. m \in Nat /\ n \in Nat
      BY <1>1, <1>2, ValidHas
    <2>3. k \in 0..m
      BY <2>2
    <2>4. Valid(x) /\ Content(x) = SubSeq(c, k + 1, Len(c)) /\ k \in 0..Len(c)
      BY <1>1, <1>2, SkipDrops, Zenon
    <2>5. SubSeq(c, 1, k) \in Seq(Bytes) /\ Before(Moved(buf[b], buf[b].read_index_ + k, buf[b].write_index_), SubSeq(c, 1, k))
      <3> HIDE DEF k
      <3>1. QED
        BY <1>1, <2>3, ReadKeeps
    <2>6. WasReset(x) \/ x = Moved(buf[b], buf[b].read_index_ + k, buf[b].write_index_)
      <3>1. CASE n < m
        BY <3>1 DEF Skip
      <3>2. CASE ~(n < m)
        <4>1. x = Moved(buf[b], buf[b].reserved_prepend_size_, buf[b].reserved_prepend_size_) /\ buf[b].reserved_prepend_size_ \in Nat
          BY <1>1, <3>2 DEF Skip, Reset, Valid
        <4>2. QED
          BY <4>1 DEF WasReset, Moved, Fields, length
      <3>3. QED
        BY <3>1, <3>2
    <2> HIDE DEF k, x
    <2>7. WasReset(x) \/ Before(x, SubSeq(c, 1, k))
      BY <2>5, <2>6, Zenon
    <2>8. QED
      BY <2>1, <2>4, <2>5, <2>7, CallTakes, Zenon
  <1>14. ASSUME NEW b \in Buffers, DoReadByte(b)
         PROVE  IInv' /\ Queue!Take(b)
    <2> DEFINE c == Content(buf[b])
               x == Moved(buf[b], buf[b].read_index_ + 1, buf[b].write_index_)
    <2>1. /\ length(buf[b]) >= 1 /\ taken' = [taken EXCEPT ![b] = SubSeq(c, 1, 1)] /\ asserts'
          /\ buf' = [buf EXCEPT ![b] = Moved(@, @.read_index_ + 1, @.write_index_)]
      BY <1>3, <1>14, Zenon DEF DoReadByte
    <2>2. buf' = [buf EXCEPT ![b] = x]
      BY <2>1
    <2>3. length(buf[b]) \in Nat /\ Len(c) = length(buf[b])
      BY <1>1, ValidHas
    <2>4. 1 \in 0..length(buf[b]) /\ 1 \in 0..Len(c)
      BY <2>1, <2>3
    <2>5. /\ Valid(x) /\ Content(x) = SubSeq(c, 1 + 1, Len(c))
          /\ SubSeq(c, 1, 1) \in Seq(Bytes) /\ Before(x, SubSeq(c, 1, 1))
      BY <1>1, <2>4, ReadKeeps
    <2> HIDE DEF x
    <2>6. QED
      BY <2>1, <2>2, <2>4, <2>5, CallTakes, Zenon
  <1>15. ASSUME NEW b \in Buffers, NEW n \in Sizes, DoUnreadBytes(b, n)
         PROVE  IInv' /\ Queue!Untake(b)
    <2> DEFINE c == Content(buf[b])
               t == taken[b]
               x == Moved(buf[b], buf[b].read_index_ - n, buf[b].write_index_)
    <2>1. n <= Len(t) /\ ~WasReset(buf[b]) /\ Becomes(b, x) /\ asserts'
      BY <1>3, <1>15, Zenon DEF DoUnreadBytes
    <2>2. t \in Seq(Bytes) /\ Before(buf[b], t)
      BY <2>1, Zenon DEF IInv, TakenKept
    <2>3. n \in 0..Len(t) /\ Len(t) - n + 1 = (Len(t) - n) + 1
      <3>1. n \in Nat /\ n <= Len(t) /\ t \in Seq(Bytes)
        BY <1>2, <2>1, <2>2, Zenon
      <3> HIDE DEF t
      <3>2. QED
        BY <3>1
    <2> HIDE DEF t
    <2>4. Valid(x) /\ Content(x) = SubSeq(t, Len(t) - n + 1, Len(t)) \o c
      BY <1>1, <2>2, <2>3, UnreadRestores, Zenon
    <2> HIDE DEF x
    <2>5. IInv' /\ Queue!Becomes(b, SubSeq(t, Len(t) - n + 1, Len(t)) \o c)
      BY <2>1, <2>4, CallBecomes, Zenon
    <2>6. QED
      BY <1>1, <2>3, <2>5, Zenon DEF Queue!Untake, Queue!Drop, t
  <1>16. ASSUME NEW b \in Buffers, NEW c \in Buffers, DoSwap(b, c)
         PROVE  IInv' /\ Queue!Exchange(b, c)
    <2> DEFINE queue == [a \in Buffers |-> Content(buf[a])]
    <2>1. /\ buf' = [a \in Buffers |-> IF a = c THEN buf[b] ELSE IF a = b THEN buf[c] ELSE buf[a]]
          /\ taken' = [a \in Buffers |-> IF a = c \/ a = b THEN <<>> ELSE taken[a]]
      BY <1>16, Zenon DEF DoSwap, IInv
    <2>2. buf' = [a \in Buffers |-> buf'[a]] /\ taken' = [a \in Buffers |-> taken'[a]]
      BY <2>1
    <2>3. FieldsConsistent'
      BY <1>1, <2>1, Zenon DEF FieldsConsistent
    <2>4. <<>> \in Seq(Bytes) /\ Before(buf[b], <<>>) /\ Before(buf[c], <<>>)
      BY <1>1, BeforeNothing
    <2>5. TakenKept'
      BY <2>1, <2>4, Zenon DEF IInv, TakenKept
    <2>6. IInv'
      BY <1>3, <1>16, <2>2, <2>3, <2>5, Zenon DEF IInv, DoSwap
    <2>7. [a \in Buffers |-> Content(buf'[a])] = [queue EXCEPT ![b] = queue[c], ![c] = queue[b]]
      BY <2>1, Zenon
    <2>8. QED
      BY <1>16, <2>6, <2>7, Zenon DEF Queue!Exchange, DoSwap
  <1>17. QED
    BY <1>4, <1>5, <1>6, <1>7, <1>8, <1>9, <1>10, <1>11, <1>12, <1>13, <1>14, <1>15, <1>16, Zenon DEF BufferNext, Queue!Next

\* If callers do not unread after a read that emptied the buffer, the fields of every buffer stay
\* consistent through every sequence of calls (the asserts of length() and WritableBytes()).
THEOREM BufferConsistent ==
  ASSUME ~UnreadAfterReset
  PROVE  BufferSpec => []FieldsConsistent
  <1>1. IInv /\ UNCHANGED bufferVars => IInv'
    BY DEF IInv, FieldsConsistent, TakenKept, bufferVars
  <1>2. IInv => FieldsConsistent
    BY DEF IInv
  <1>3. QED
    BY InitInv, NextInv, <1>1, <1>2, PTL DEF BufferSpec

\* Under the same condition the asserts inside grow, EnsureWritableBytes and Write never fail and
\* no copy leaves the allocated memory.
THEOREM BufferAsserts ==
  ASSUME ~UnreadAfterReset
  PROVE  BufferSpec => []AssertsHold
  <1>1. IInv /\ UNCHANGED bufferVars => IInv'
    BY DEF IInv, FieldsConsistent, TakenKept, bufferVars
  <1>2. IInv => AssertsHold
    BY DEF IInv, AssertsHold
  <1>3. QED
    BY InitInv, NextInv, <1>1, <1>2, PTL DEF BufferSpec

\* Under the same condition a Buffer implements the queue of bytes: every call is an operation
\* of the queue on what data() and length() show.
THEOREM BufferIsQueue ==
  ASSUME ~UnreadAfterReset
  PROVE  BufferSpec => ImplementsByteQueue
  <1>1. IInv /\ UNCHANGED bufferVars => IInv'
    BY DEF IInv, FieldsConsistent, TakenKept, bufferVars
  <1>2. UNCHANGED bufferVars => UNCHANGED <<[b \in Buffers |-> Content(buf[b])], taken>>
    BY DEF bufferVars
  <1>3. QED
    BY InitInv, NextInv, <1>1, <1>2, PTL DEF BufferSpec, ImplementsByteQueue, Queue!Spec
=============================================================================
