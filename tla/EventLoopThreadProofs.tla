------------------------ MODULE EventLoopThreadProofs ------------------------
(***************************************************************************)
(* Proofs about EventLoopThread for any number of objects, joiners and     *)
(* starts, and about EventLoopThreadPool for any number of threads and     *)
(* users.                                                                  *)
(***************************************************************************)
EXTENDS EventLoopThreadPool, FiniteSetTheorems, TLAPS

\* What one object may do, whoever acts on it.
ObjectNext(w) ==
    \/ \E wait \in WaitStart : Start(w, wait)
    \/ \E wait \in BOOLEAN : CallStop(w, wait)
    \/ OwnerCallsJoin(w) \/ Destroy(w)
    \/ ThreadContinues(w) \/ OwnerContinues(w) \/ WeakCasFails(w)
    \/ \E j \in Joiners : JoinerLocks(j, w) \/ JoinerJoins(j, w)

Same(v) ==
    /\ status'[v] = status[v] /\ loop'[v] = loop[v] /\ thread'[v] = thread[v]
    /\ tpc'[v] = tpc[v] /\ opc'[v] = opc[v] /\ preRan'[v] = preRan[v]

\* A thread that has been given up is gone, and a destroyed object has none.
Gone(th, t, at) ==
    /\ ~th => t \in {"none", "exited"}
    /\ at = "destroyed" => ~th

ThreadInv == TypeOK /\ \A w \in Workers : Gone(thread[w], tpc[w], opc[w].at)

\* The steps of the owner that can be reached when the object has status s and its loop l,
\* while the thread is in its loop.
InLoop(s, l, at) ==
    \/ s = "kRunning" /\ l = "kRunning" /\ at \in {"starting", "idle", "stop", "store", "join", "joining"}
    \/ s = "kStopping" /\ l = "kRunning" /\ at = "stoploop"
    \/ s = "kStopping" /\ l = "kStopping" /\ at \in {"stopped", "idle", "join", "joining"}

\* An object whose owner waits in Start(), whose pre() succeeds and of which no compare-exchange
\* fails spuriously: its status s, the status of its loop l, the step t of its thread and the
\* step at of its owner.
Careful(s, l, t, at) ==
    \/ /\ t = "none" /\ s = "kNull" /\ l = "kInitialized"
       /\ at \in {"idle", "join", "joining", "destroyed"}
    \/ t = "spawned" /\ s = "kStarting" /\ l \in {"kInitialized", "kStopped"} /\ at = "starting"
    \/ t = "fn" /\ s = "kStarting" /\ l = "kRunning" /\ at = "starting"
    \/ t \in {"pre", "loop"} /\ InLoop(s, l, at)
    \/ /\ t \in {"post", "exit"} /\ l = "kStopped"
       /\ \/ s = "kStarting" /\ at = "starting"
          \/ s = "kStopping" /\ at \in {"stopped", "idle", "join", "joining"}
    \/ /\ t = "exited" /\ l = "kStopped" /\ s = "kStopped"
       /\ at \in {"starting", "idle", "stopped", "join", "joining", "destroyed"}

CarefulInv ==
    casual = {} => ~aborted /\ \A w \in Workers : Careful(status[w], loop[w], tpc[w], opc[w].at)

-----------------------------------------------------------------------------
(* Types.                                                                  *)

\* A step of the owner leaves a record of the owner's call.
LEMMA OwnerMoves ==
    ASSUME TypeOK, NEW w \in Workers, NEW at \in OwnerSteps
    PROVE  [opc EXCEPT ![w] = [at |-> at, wait |-> @.wait, dtor |-> @.dtor]]
               \in [Workers -> [at : OwnerSteps, wait : BOOLEAN, dtor : BOOLEAN]]
<1>1. opc[w].wait \in BOOLEAN /\ opc[w].dtor \in BOOLEAN
  BY Zenon DEF TypeOK
<1>2. [at |-> at, wait |-> opc[w].wait, dtor |-> opc[w].dtor]
          \in [at : OwnerSteps, wait : BOOLEAN, dtor : BOOLEAN]
  BY <1>1
<1> QED  BY <1>2, Zenon DEF TypeOK

\* What a compare-exchange that fails leaves and moves.
LEMMA WeakCas ==
    ASSUME NEW w, WeakCasFails(w)
    PROVE  /\ opc' = opc \/ OwnerStep(w, "stoploop", "stopped") \/ OwnerStep(w, "stoploop", "idle")
           /\ tpc' = tpc \/ ThreadStep(w, "spawned", "post") \/ ThreadStep(w, "pre", "loop")
           /\ casual' = casual \cup {"weak cas"}
           /\ UNCHANGED <<status, loop, thread, jpc, mutex, starts, preRan, aborted>>
<1>1. opc' = opc \/ OwnerStep(w, "stoploop", "stopped") \/ OwnerStep(w, "stoploop", "idle")
  <2>1. CASE OwnerStep(w, "stoploop", IF opc[w].wait THEN "stopped" ELSE "idle")
    BY <2>1, Zenon
  <2> QED  BY <2>1, Zenon DEF WeakCasFails
<1> QED  BY <1>1, Zenon DEF WeakCasFails

\* Every step of an object keeps the type invariant.
LEMMA ObjectTypeOK ==
    ASSUME TypeOK, NEW w \in Workers, ObjectNext(w)
    PROVE  TypeOK'
<1> USE ThreadAssumption DEF TypeOK, Statuses, ThreadSteps, OwnerSteps
<1>1. ASSUME NEW wait \in WaitStart, Start(w, wait) PROVE TypeOK'
  <2>1. opc' \in [Workers -> [at : OwnerSteps, wait : BOOLEAN, dtor : BOOLEAN]]
    BY OwnerMoves, <1>1, Zenon DEF Start, OwnerStep
  <2>2. casual' \subseteq {"no wait", "pre failed", "weak cas"}
    BY <1>1, Zenon DEF Start
  <2>3. starts' \in [Workers -> 0..MaxStarts]
    <3>1. starts[w] + 1 \in 0..MaxStarts
      <4>1. starts[w] \in 0..MaxStarts
        BY Zenon
      <4>2. starts[w] < MaxStarts
        BY <1>1, Zenon DEF Start
      <4> HIDE DEF TypeOK
      <4> QED  BY <4>1, <4>2
    <3> QED  BY <1>1, <3>1, Zenon DEF Start
  <2>4. thread' \in [Workers -> BOOLEAN] /\ preRan' \in [Workers -> BOOLEAN]
    BY <1>1, Zenon DEF Start
  <2>5. status' \in [Workers -> Statuses] /\ tpc' \in [Workers -> ThreadSteps]
    BY <1>1, Zenon DEF Start
  <2> QED  BY <1>1, <2>1, <2>2, <2>3, <2>4, <2>5, Zenon DEF Start
<1>2. ASSUME NEW wait \in BOOLEAN, CallStop(w, wait) PROVE TypeOK'
  BY <1>2, Zenon DEF CallStop, EnterStop
<1>3. ASSUME NEW rc \in PreResults, PreReturns(w, rc) PROVE TypeOK'
  BY <1>3, Zenon DEF PreReturns, ThreadStep, LoopStop
<1>4. CASE EnterLoop(w)
  BY <1>4, ZenonT(30) DEF EnterLoop, ThreadStep, ownerVars
<1>5. CASE SetRunning(w)
  BY <1>5, Zenon DEF SetRunning, ThreadStep, ownerVars
<1>6. CASE LeaveLoop(w)
  BY <1>6, Zenon DEF LeaveLoop, ThreadStep, ownerVars
<1>7. CASE PostReturns(w)
  BY <1>7, Zenon DEF PostReturns, ThreadStep, ownerVars
<1>8. CASE SetStopped(w)
  BY <1>8, Zenon DEF SetStopped, ThreadStep, ownerVars
<1>9. CASE StartReturns(w)
  BY OwnerMoves, <1>9, Zenon DEF StartReturns, OwnerStep
<1>10. CASE StopAsserts(w)
  BY OwnerMoves, <1>10, Zenon DEF StopAsserts, OwnerStep
<1>11. CASE StopStores(w)
  BY OwnerMoves, <1>11, Zenon DEF StopStores, OwnerStep
<1>12. CASE StopLoop(w)
  BY OwnerMoves, <1>12, Zenon DEF StopLoop, OwnerStep, LoopStop
<1>13. CASE SawStopped(w)
  BY OwnerMoves, <1>13, Zenon DEF SawStopped, OwnerStep
<1>14. CASE OwnerLocks(w)
  BY OwnerMoves, <1>14, Zenon DEF OwnerLocks, OwnerStep, Lock
<1>15. CASE OwnerJoins(w)
  BY OwnerMoves, <1>15, Zenon DEF OwnerJoins, OwnerStep, JoinThread
<1>16. CASE OwnerCallsJoin(w)
  BY OwnerMoves, <1>16, Zenon DEF OwnerCallsJoin, OwnerStep
<1>17. CASE Destroy(w)
  BY OwnerMoves, <1>17, Zenon DEF Destroy
<1>18. ASSUME NEW j \in Joiners, JoinerLocks(j, w) PROVE TypeOK'
  BY <1>18, Zenon DEF JoinerLocks, JoinerStep, Lock
<1>19. ASSUME NEW j \in Joiners, JoinerJoins(j, w) PROVE TypeOK'
  BY <1>19, Zenon DEF JoinerJoins, JoinerStep, JoinThread
<1>20. CASE WeakCasFails(w)
  <2>0. /\ opc' = opc \/ OwnerStep(w, "stoploop", "stopped") \/ OwnerStep(w, "stoploop", "idle")
        /\ tpc' = tpc \/ ThreadStep(w, "spawned", "post") \/ ThreadStep(w, "pre", "loop")
        /\ casual' = casual \cup {"weak cas"}
        /\ UNCHANGED <<status, loop, thread, jpc, mutex, starts, preRan, aborted>>
    BY <1>20, WeakCas, Zenon
  <2>1. opc' \in [Workers -> [at : OwnerSteps, wait : BOOLEAN, dtor : BOOLEAN]]
    <3>1. CASE OwnerStep(w, "stoploop", "stopped")
      BY OwnerMoves, <3>1, Zenon DEF OwnerStep
    <3>2. CASE OwnerStep(w, "stoploop", "idle")
      BY OwnerMoves, <3>2, Zenon DEF OwnerStep
    <3> QED  BY <2>0, <3>1, <3>2, Zenon
  <2>2. tpc' \in [Workers -> ThreadSteps]
    <3>1. CASE ThreadStep(w, "spawned", "post")
      BY <3>1, Zenon DEF ThreadStep
    <3>2. CASE ThreadStep(w, "pre", "loop")
      BY <3>2, Zenon DEF ThreadStep
    <3> QED  BY <2>0, <3>1, <3>2, Zenon
  <2>3. casual' \subseteq {"no wait", "pre failed", "weak cas"}
    BY <2>0, Zenon
  <2> QED  BY <2>0, <2>1, <2>2, <2>3, Zenon
<1> QED  BY <1>1, <1>2, <1>3, <1>4, <1>5, <1>6, <1>7, <1>8, <1>9, <1>10,
         <1>11, <1>12, <1>13, <1>14, <1>15, <1>16, <1>17, <1>18, <1>19, <1>20, ZenonT(30)
         DEF ObjectNext, ThreadContinues, OwnerContinues

-----------------------------------------------------------------------------
(* The thread outlives neither its object nor its thread_.                 *)

\* A step of one object leaves what the others are doing.
LEMMA OthersStay ==
    ASSUME TypeOK, NEW w \in Workers, ObjectNext(w), NEW v \in Workers, v # w
    PROVE  Same(v)
<1> USE DEF TypeOK, Same
<1>1. ASSUME NEW wait \in WaitStart, Start(w, wait) PROVE Same(v)
  BY <1>1, Zenon DEF Start, OwnerStep
<1>2. ASSUME NEW wait \in BOOLEAN, CallStop(w, wait) PROVE Same(v)
  BY <1>2, Zenon DEF CallStop, EnterStop
<1>3. ASSUME NEW rc \in PreResults, PreReturns(w, rc) PROVE Same(v)
  BY <1>3, Zenon DEF PreReturns, ThreadStep, LoopStop
<1>4. CASE EnterLoop(w)
  BY <1>4, Zenon DEF EnterLoop, ThreadStep, ownerVars
<1>5. CASE SetRunning(w)
  BY <1>5, Zenon DEF SetRunning, ThreadStep, ownerVars
<1>6. CASE LeaveLoop(w)
  BY <1>6, Zenon DEF LeaveLoop, ThreadStep, ownerVars
<1>7. CASE PostReturns(w)
  BY <1>7, Zenon DEF PostReturns, ThreadStep, ownerVars
<1>8. CASE SetStopped(w)
  BY <1>8, Zenon DEF SetStopped, ThreadStep, ownerVars
<1>9. CASE StartReturns(w)
  BY <1>9, Zenon DEF StartReturns, OwnerStep
<1>10. CASE StopAsserts(w)
  BY <1>10, Zenon DEF StopAsserts, OwnerStep
<1>11. CASE StopStores(w)
  BY <1>11, Zenon DEF StopStores, OwnerStep
<1>12. CASE StopLoop(w)
  BY <1>12, Zenon DEF StopLoop, OwnerStep, LoopStop
<1>13. CASE SawStopped(w)
  BY <1>13, Zenon DEF SawStopped, OwnerStep
<1>14. CASE OwnerLocks(w)
  BY <1>14, Zenon DEF OwnerLocks, OwnerStep
<1>15. CASE OwnerJoins(w)
  BY <1>15, Zenon DEF OwnerJoins, OwnerStep, JoinThread
<1>16. CASE OwnerCallsJoin(w)
  BY <1>16, Zenon DEF OwnerCallsJoin, OwnerStep
<1>17. CASE Destroy(w)
  BY <1>17, Zenon DEF Destroy
<1>18. ASSUME NEW j \in Joiners, JoinerLocks(j, w) PROVE Same(v)
  BY <1>18, Zenon DEF JoinerLocks
<1>19. ASSUME NEW j \in Joiners, JoinerJoins(j, w) PROVE Same(v)
  BY <1>19, Zenon DEF JoinerJoins, JoinThread
<1>20. CASE WeakCasFails(w)
  BY <1>20, ZenonT(30) DEF WeakCasFails, ThreadStep, OwnerStep
<1> QED  BY <1>1, <1>2, <1>3, <1>4, <1>5, <1>6, <1>7, <1>8, <1>9, <1>10,
         <1>11, <1>12, <1>13, <1>14, <1>15, <1>16, <1>17, <1>18, <1>19, <1>20, ZenonT(30)
         DEF ObjectNext, ThreadContinues, OwnerContinues

\* thread_ is reset only when the thread has exited, and the destructor joins.
LEMMA ObjectGone ==
    ASSUME TypeOK, NEW w \in Workers, ObjectNext(w), Gone(thread[w], tpc[w], opc[w].at)
    PROVE  Gone(thread[w], tpc[w], opc[w].at)'
<1> USE DEF TypeOK, Gone
<1>1. ASSUME NEW wait \in WaitStart, Start(w, wait) PROVE Gone(thread[w], tpc[w], opc[w].at)'
  BY <1>1, Zenon DEF Start, OwnerStep
<1>2. ASSUME NEW wait \in BOOLEAN, CallStop(w, wait) PROVE Gone(thread[w], tpc[w], opc[w].at)'
  BY <1>2, Zenon DEF CallStop, EnterStop
<1>3. ASSUME NEW rc \in PreResults, PreReturns(w, rc) PROVE Gone(thread[w], tpc[w], opc[w].at)'
  BY <1>3, Zenon DEF PreReturns, ThreadStep, LoopStop
<1>4. CASE EnterLoop(w)
  BY <1>4, Zenon DEF EnterLoop, ThreadStep, ownerVars
<1>5. CASE SetRunning(w)
  BY <1>5, Zenon DEF SetRunning, ThreadStep, ownerVars
<1>6. CASE LeaveLoop(w)
  BY <1>6, Zenon DEF LeaveLoop, ThreadStep, ownerVars
<1>7. CASE PostReturns(w)
  BY <1>7, Zenon DEF PostReturns, ThreadStep, ownerVars
<1>8. CASE SetStopped(w)
  BY <1>8, Zenon DEF SetStopped, ThreadStep, ownerVars
<1>9. CASE StartReturns(w)
  BY <1>9, Zenon DEF StartReturns, OwnerStep
<1>10. CASE StopAsserts(w)
  BY <1>10, Zenon DEF StopAsserts, OwnerStep
<1>11. CASE StopStores(w)
  BY <1>11, Zenon DEF StopStores, OwnerStep
<1>12. CASE StopLoop(w)
  BY <1>12, Zenon DEF StopLoop, OwnerStep, LoopStop
<1>13. CASE SawStopped(w)
  BY <1>13, Zenon DEF SawStopped, OwnerStep
<1>14. CASE OwnerLocks(w)
  BY <1>14, Zenon DEF OwnerLocks, OwnerStep
<1>15. CASE OwnerJoins(w)
  BY <1>15, Zenon DEF OwnerJoins, OwnerStep, JoinThread
<1>16. CASE OwnerCallsJoin(w)
  BY <1>16, Zenon DEF OwnerCallsJoin, OwnerStep
<1>17. CASE Destroy(w)
  BY <1>17, Zenon DEF Destroy
<1>18. ASSUME NEW j \in Joiners, JoinerLocks(j, w) PROVE Gone(thread[w], tpc[w], opc[w].at)'
  BY <1>18, Zenon DEF JoinerLocks
<1>19. ASSUME NEW j \in Joiners, JoinerJoins(j, w) PROVE Gone(thread[w], tpc[w], opc[w].at)'
  BY <1>19, Zenon DEF JoinerJoins, JoinThread
<1>20. CASE WeakCasFails(w)
  <2>0. thread' = thread
    BY <1>20, WeakCas, Zenon
  <2>1. opc'[w].at = "destroyed" => opc[w].at = "destroyed"
    <3>1. CASE OwnerStep(w, "stoploop", "stopped")
      BY <3>1, Zenon DEF OwnerStep
    <3>2. CASE OwnerStep(w, "stoploop", "idle")
      BY <3>2, Zenon DEF OwnerStep
    <3> QED  BY <1>20, <3>1, <3>2, WeakCas, Zenon
  <2>2. tpc' = tpc \/ tpc[w] \in {"spawned", "pre"}
    BY <1>20, WeakCas, Zenon DEF ThreadStep
  <2> QED  BY <2>0, <2>1, <2>2, Zenon
<1> QED  BY <1>1, <1>2, <1>3, <1>4, <1>5, <1>6, <1>7, <1>8, <1>9, <1>10,
         <1>11, <1>12, <1>13, <1>14, <1>15, <1>16, <1>17, <1>18, <1>19, <1>20, ZenonT(30)
         DEF ObjectNext, ThreadContinues, OwnerContinues

\* What the owner and the thread do of an object is one of the lines of Careful.
LEMMA ObjectCareful ==
    ASSUME TypeOK, NEW w \in Workers, ObjectNext(w), casual' = {}, ~aborted,
           Gone(thread[w], tpc[w], opc[w].at), Careful(status[w], loop[w], tpc[w], opc[w].at)
    PROVE  ~aborted' /\ Careful(status[w], loop[w], tpc[w], opc[w].at)'
<1> USE DEF TypeOK, Careful, InLoop
<1>1. ASSUME NEW wait \in WaitStart, Start(w, wait) PROVE ~aborted' /\ Careful(status[w], loop[w], tpc[w], opc[w].at)'
  BY <1>1, Zenon DEF Start, OwnerStep, Gone
<1>2. ASSUME NEW wait \in BOOLEAN, CallStop(w, wait)
      PROVE  ~aborted' /\ Careful(status[w], loop[w], tpc[w], opc[w].at)'
  BY <1>2, Zenon DEF CallStop, EnterStop
<1>3. ASSUME NEW rc \in PreResults, PreReturns(w, rc)
      PROVE  ~aborted' /\ Careful(status[w], loop[w], tpc[w], opc[w].at)'
  BY <1>3, Zenon DEF PreReturns, ThreadStep, LoopStop
<1>4. CASE EnterLoop(w)
  BY <1>4, Zenon DEF EnterLoop, ThreadStep, ownerVars
<1>5. CASE SetRunning(w)
  BY <1>5, Zenon DEF SetRunning, ThreadStep, ownerVars
<1>6. CASE LeaveLoop(w)
  BY <1>6, Zenon DEF LeaveLoop, ThreadStep, ownerVars
<1>7. CASE PostReturns(w)
  BY <1>7, Zenon DEF PostReturns, ThreadStep, ownerVars
<1>8. CASE SetStopped(w)
  BY <1>8, Zenon DEF SetStopped, ThreadStep, ownerVars
<1>9. CASE StartReturns(w)
  BY <1>9, Zenon DEF StartReturns, OwnerStep
<1>10. CASE StopAsserts(w)
  BY <1>10, Zenon DEF StopAsserts, OwnerStep
<1>11. CASE StopStores(w)
  BY <1>11, Zenon DEF StopStores, OwnerStep
<1>12. CASE StopLoop(w)
  BY <1>12, Zenon DEF StopLoop, OwnerStep, LoopStop
<1>13. CASE SawStopped(w)
  BY <1>13, Zenon DEF SawStopped, OwnerStep
<1>14. CASE OwnerLocks(w)
  BY <1>14, Zenon DEF OwnerLocks, OwnerStep
<1>15. CASE OwnerJoins(w)
  BY <1>15, Zenon DEF OwnerJoins, OwnerStep, JoinThread, Gone
<1>16. CASE OwnerCallsJoin(w)
  BY <1>16, Zenon DEF OwnerCallsJoin, OwnerStep
<1>17. CASE Destroy(w)
  BY <1>17, Zenon DEF Destroy
<1>18. ASSUME NEW j \in Joiners, JoinerLocks(j, w) PROVE ~aborted' /\ Careful(status[w], loop[w], tpc[w], opc[w].at)'
  BY <1>18, Zenon DEF JoinerLocks
<1>19. ASSUME NEW j \in Joiners, JoinerJoins(j, w) PROVE ~aborted' /\ Careful(status[w], loop[w], tpc[w], opc[w].at)'
  BY <1>19, Zenon DEF JoinerJoins, JoinThread
<1>20. CASE WeakCasFails(w)
  BY <1>20, ZenonT(30) DEF WeakCasFails, ThreadStep, OwnerStep
<1> QED  BY <1>1, <1>2, <1>3, <1>4, <1>5, <1>6, <1>7, <1>8, <1>9, <1>10,
         <1>11, <1>12, <1>13, <1>14, <1>15, <1>16, <1>17, <1>18, <1>19, <1>20, ZenonT(30)
         DEF ObjectNext, ThreadContinues, OwnerContinues

\* What the owners have done that Stop() does not allow for is never forgotten.
LEMMA CasualGrows ==
    ASSUME NEW w \in Workers, ObjectNext(w), casual' = {}
    PROVE  casual = {}
<1> QED
  BY Zenon DEF ObjectNext, Start, OwnerStep, CallStop, EnterStop, OwnerCallsJoin, Destroy,
         ThreadContinues, EnterLoop, ThreadStep, SetRunning, PreReturns, LeaveLoop, PostReturns,
         SetStopped, OwnerContinues, StartReturns, StopAsserts, StopStores, StopLoop, SawStopped,
         OwnerLocks, OwnerJoins, WeakCasFails, JoinerLocks, JoinerJoins, ownerVars

\* The objects as their constructors leave them.
LEMMA InitTypeOK ==
    ASSUME Init
    PROVE  TypeOK
<1>1. opc \in [Workers -> [at : OwnerSteps, wait : BOOLEAN, dtor : BOOLEAN]]
  BY DEF Init, Idle, OwnerSteps
<1>2. starts \in [Workers -> 0..MaxStarts] /\ casual \subseteq {"no wait", "pre failed", "weak cas"}
  BY ThreadAssumption DEF Init
<1>3. thread \in [Workers -> BOOLEAN] /\ preRan \in [Workers -> BOOLEAN] /\ aborted \in BOOLEAN
  BY Zenon DEF Init
<1>4. jpc \in [Joiners \X Workers -> {"idle", "joining", "done"}]
  BY DEF Init
<1> QED  BY <1>1, <1>2, <1>3, <1>4 DEF Init, TypeOK, Statuses, ThreadSteps

\* The thread of an object is gone before thread_ is reset and before the destructor returns.
LEMMA ThreadInvariant == Spec => []ThreadInv
<1>1. Init => ThreadInv
  BY InitTypeOK, Zenon DEF Init, ThreadInv, Gone, Idle
<1>2. ASSUME ThreadInv, [Next]_vars PROVE ThreadInv'
  <2>1. CASE UNCHANGED vars
    BY <1>2, <2>1, Zenon DEF ThreadInv, TypeOK, vars
  <2>2. CASE Next
    <3>1. PICK w \in Workers : ObjectNext(w)
      BY <2>2 DEF Next, ObjectNext
    <3>2. TypeOK'
      BY <1>2, <3>1, ObjectTypeOK DEF ThreadInv
    <3>3. Gone(thread[w], tpc[w], opc[w].at)'
      BY <1>2, <3>1, ObjectGone DEF ThreadInv
    <3>4. ASSUME NEW v \in Workers, v # w PROVE Gone(thread[v], tpc[v], opc[v].at)'
      <4>1. Same(v)
        BY <1>2, <3>1, <3>4, OthersStay DEF ThreadInv
      <4> QED  BY <1>2, <4>1 DEF ThreadInv, Same
    <3> QED  BY <3>2, <3>3, <3>4 DEF ThreadInv
  <2> QED  BY <1>2, <2>1, <2>2
<1> QED  BY <1>1, <1>2, PTL DEF Spec

\* As long as every Start() waits, every pre() succeeds and no compare-exchange fails spuriously,
\* each object is on one of the lines of Careful.
LEMMA CarefulInvariant == Spec => []CarefulInv
<1>1. Init => CarefulInv
  BY DEF Init, CarefulInv, Careful, Idle
<1>2. ASSUME ThreadInv, CarefulInv, [Next]_vars PROVE CarefulInv'
  <2> SUFFICES ASSUME casual' = {}
               PROVE  ~aborted' /\ \A v \in Workers : Careful(status[v], loop[v], tpc[v], opc[v].at)'
    BY SMTT(20) DEF CarefulInv
  <2>1. CASE UNCHANGED vars
    BY <1>2, <2>1 DEF CarefulInv, vars
  <2>2. CASE Next
    <3>1. PICK w \in Workers : ObjectNext(w)
      BY <2>2, SMTT(20) DEF Next, ObjectNext
    <3>2. ~aborted /\ \A v \in Workers : Careful(status[v], loop[v], tpc[v], opc[v].at)
      BY <1>2, <3>1, CasualGrows DEF CarefulInv
    <3>3. ~aborted' /\ Careful(status[w], loop[w], tpc[w], opc[w].at)'
      BY <1>2, <3>1, <3>2, ObjectCareful DEF ThreadInv
    <3>4. ASSUME NEW v \in Workers, v # w PROVE Careful(status[v], loop[v], tpc[v], opc[v].at)'
      <4>1. Same(v)
        BY <1>2, <3>1, <3>4, OthersStay DEF ThreadInv
      <4> QED  BY <3>2, <4>1 DEF Same
    <3> QED  BY <3>3, <3>4
  <2> QED  BY <1>2, <2>1, <2>2, SMTT(20)
<1> QED  BY <1>1, <1>2, ThreadInvariant, PTL DEF Spec

\* EventLoopThread::Run() never touches the object after ~EventLoopThread() has returned,
\* however many threads call Join(), and whatever state the destructor finds the object in.
THEOREM DestroyedThreadIsGone == Spec => []NoUseAfterDestroy
<1>1. ThreadInv => NoUseAfterDestroy
  BY DEF ThreadInv, Gone, NoUseAfterDestroy
<1> QED  BY <1>1, ThreadInvariant, PTL

\* thread_ is null only when no thread runs on the loop: the assert of Start() is enough to
\* keep a second thread away from it.
THEOREM LoopHasOneThread == Spec => []OneThreadPerLoop
<1>1. ThreadInv => OneThreadPerLoop
  BY DEF ThreadInv, Gone, OneThreadPerLoop
<1> QED  BY <1>1, ThreadInvariant, PTL

\* The asserts of Stop() and of Run() hold for an owner that waits in Start() and whose pre()
\* succeeds, however often it starts the object again and whoever joins it, as long as no
\* compare-exchange fails spuriously.
THEOREM CarefulOwnerNeverAborts == Spec => []CarefulAsserts
<1>1. CarefulInv => CarefulAsserts
  BY DEF CarefulInv, CarefulAsserts
<1> QED  BY <1>1, CarefulInvariant, PTL

-----------------------------------------------------------------------------
(* The pool.                                                               *)

\* How far the owner of the pool has come with its thread w.
Stage(w) ==
    IF \/ w > num
       \/ ppc = "idle" /\ pstatus = "kNull"
       \/ ppc = "start" /\ w >= i
       \/ ppc = "push" /\ w > i
    THEN "before"
    ELSE IF \/ ppc \in {"stop", "stopping"} /\ w < i
            \/ ppc \in {"wait", "store", "stopped", "join", "joining", "clear", "done"}
         THEN "told"
         ELSE IF ppc = "stopping" /\ w = i THEN "stopping" ELSE "serving"

Counted == {"started", "loop", "post", "exiting", "callback", "exit", "exited"}
Leaving == {"exiting", "callback", "exit", "exited"}

\* A thread that nobody has told to stop: status s, loop l, step t, pre() called or not.
Serving(s, l, t, ran) ==
    \/ t = "spawned" /\ s = "kStarting" /\ l = "kInitialized"
    \/ t = "fn" /\ s = "kStarting" /\ l = "kRunning"
    \/ t \in {"pre", "started", "loop"} /\ s = "kRunning" /\ l = "kRunning" /\ ran

\* One that the owner has told.
Told(l, t) ==
    \/ t \in {"started", "loop"} /\ l = "kStopping"
    \/ t \in {"post"} \cup Leaving /\ l = "kStopped"

\* An object at stage g of the owner's work: at and wait are of the owner's call on it.
InStage(g, s, l, t, at, wait, ran) ==
    \/ g = "before" /\ t = "none" /\ s = "kNull" /\ l = "kInitialized" /\ at = "idle"
    \/ g = "serving" /\ Serving(s, l, t, ran) /\ at \in {"idle", "starting"}
    \/ /\ g = "stopping" /\ t \in {"started", "loop"} /\ l = "kRunning" /\ ~wait
       /\ \/ at \in {"stop", "store"} /\ s = "kRunning"
          \/ at = "stoploop"
    \/ g = "stopping" /\ Told(l, t) /\ at = "idle"
    \/ g = "told" /\ Told(l, t) /\ at \in {"idle", "join", "joining", "destroyed"}

At(g, w) == InStage(g, status[w], loop[w], tpc[w], opc[w].at, opc[w].wait, preRan[w])

InStages ==
    \A w \in Workers : At(Stage(w), w)

\* threads_ and the owner's position in it.
Position ==
    /\ \A k \in 1..Len(threads) : threads[k] = k
    /\ ppc \in {"start", "push"} => pstatus # "kNull" /\ i \in 1..num /\ Len(threads) = i - 1
    /\ (ppc = "idle" /\ pstatus = "kNull") \/ ppc = "done" => Len(threads) = 0
    /\ \/ ppc = "idle" /\ pstatus # "kNull"
       \/ ppc \in {"running", "stop", "stopping", "wait", "store", "stopped", "join", "joining",
                   "clear"}
       => Len(threads) = num
    /\ ppc \in {"stop", "stopping", "join", "joining"} => i \in 1..num
    /\ ppc = "running" => pstatus # "kNull"
    /\ ppc \in {"start", "push"} => pwait \in WaitStart
    /\ ppc \notin {"idle", "start", "push", "running"} => pstatus \in {"kStopping", "kStopped"}

\* The counters, and what each fetch_add returned.
Counts ==
    /\ started = Cardinality({w \in Workers : tpc[w] \in Counted})
    /\ exited = Cardinality({w \in Workers : tpc[w] \in Leaving})
    /\ \A w \in Workers : tpc[w] = "started" => nth[w] <= started
    /\ \A w \in Workers : tpc[w] = "exiting" => nth[w] <= exited
    /\ \A v, w \in Workers :
         tpc[v] = tpc[w] /\ tpc[v] \in {"started", "exiting"} /\ nth[v] = nth[w] => v = w

AllIn == \A w \in 1..num : tpc[w] \in Counted /\ ~(tpc[w] = "started" /\ nth[w] = num)
AllOut == \A w \in 1..num : tpc[w] \in Leaving /\ ~(tpc[w] = "exiting" /\ nth[w] = num)

\* The last thread to start and the last to exit.
Last ==
    /\ pstatus \notin {"kNull", "kStarting"} => AllIn
    /\ ppc \in {"idle", "start", "push", "running"} => ~cb /\ calls = 0
    /\ calls <= 1
    /\ calls = 1 => ~cb /\ AllOut /\ \A w \in Workers : tpc[w] # "callback"
    /\ \A w \in Workers : tpc[w] = "callback" =>
         cb /\ calls = 0 /\ AllOut /\ \A v \in Workers : tpc[v] = "callback" => v = w

\* The threads that have been joined.
Passed(w) ==
    \/ ppc \in {"join", "joining"} /\ w < i
    \/ ppc = "joining" /\ w = i /\ opc[w].at = "idle"
    \/ ppc \in {"clear", "done"}

Joined ==
    /\ \A w \in Workers : Gone(thread[w], tpc[w], opc[w].at)
    /\ \A w \in 1..num : Passed(w) => ~thread[w]

\* Where the owner can be while a user is inside GetNextLoop, when the two do not race.
Used == {"idle", "stop", "stopping", "wait", "store", "stopped"}

UserInv == ~UsersRace =>
    \A u \in Users :
        /\ upc[u] # "idle" => num > 0 /\ pstatus # "kNull" /\ ppc \in Used
        /\ upc[u] = "index" => index[u] < num

PoolInv == ~aborted /\ InStages /\ Position /\ Counts /\ Last /\ Joined /\ UserInv

\* The calls that the pool makes on one object, and the steps of its thread.
Moves(w) ==
    \/ EnterLoop(w) \/ SetRunning(w) \/ LeaveLoop(w) \/ SetStopped(w)
    \/ StartReturns(w) \/ StopAsserts(w) \/ StopStores(w) \/ StopLoop(w)
    \/ OwnerLocks(w) \/ OwnerJoins(w)

\* The steps of the pre and post functors.
Counting(w) ==
    \/ CountStarted(w) \/ OnThreadStarted(w)
    \/ CountExited(w) \/ OnThreadExited(w) \/ CallStopped(w)

-----------------------------------------------------------------------------
\* A step on an object by its thread or by a call of the pool stays within the stage.
LEMMA MovesKeepStage ==
    ASSUME TypeOK, NEW w \in Workers, NEW g, At(g, w), ~aborted, Moves(w)
    PROVE  ~aborted' /\ At(g, w)'
<1> USE DEF TypeOK, At, InStage, Serving, Told, Leaving
<1>1. CASE EnterLoop(w)
  BY <1>1, Zenon DEF EnterLoop, ThreadStep, ownerVars
<1>2. CASE SetRunning(w)
  BY <1>2, Zenon DEF SetRunning, ThreadStep, ownerVars
<1>3. CASE LeaveLoop(w)
  BY <1>3, Zenon DEF LeaveLoop, ThreadStep, ownerVars
<1>4. CASE SetStopped(w)
  BY <1>4, Zenon DEF SetStopped, ThreadStep, ownerVars
<1>5. CASE StartReturns(w)
  BY <1>5, Zenon DEF StartReturns, OwnerStep
<1>6. CASE StopAsserts(w)
  BY <1>6, Zenon DEF StopAsserts, OwnerStep
<1>7. CASE StopStores(w)
  BY <1>7, Zenon DEF StopStores, OwnerStep
<1>8. CASE StopLoop(w)
  BY <1>8, Zenon DEF StopLoop, OwnerStep, LoopStop
<1>9. CASE OwnerLocks(w)
  BY <1>9, Zenon DEF OwnerLocks, OwnerStep
<1>10. CASE OwnerJoins(w)
  BY <1>10, Zenon DEF OwnerJoins, OwnerStep
<1> QED  BY <1>1, <1>2, <1>3, <1>4, <1>5, <1>6, <1>7, <1>8, <1>9, <1>10, Zenon DEF Moves

\* So does a step of the pre and post functors.
LEMMA CountingKeepsStage ==
    ASSUME TypeOK, NEW w \in Workers, NEW g, At(g, w), ~aborted, Counting(w)
    PROVE  ~aborted' /\ At(g, w)'
<1> USE DEF TypeOK, At, InStage, Serving, Told, Leaving
<1>1. CASE CountStarted(w)
  BY <1>1, Zenon DEF CountStarted, ThreadStep, ownerVars
<1>2. CASE OnThreadStarted(w)
  BY <1>2, Zenon DEF OnThreadStarted, ThreadStep, ownerVars
<1>3. CASE CountExited(w)
  BY <1>3, Zenon DEF CountExited, ThreadStep, ownerVars
<1>4. CASE OnThreadExited(w)
  BY <1>4, Zenon DEF OnThreadExited, ThreadStep, ownerVars
<1>5. CASE CallStopped(w)
  BY <1>5, Zenon DEF CallStopped, ThreadStep, ownerVars
<1> QED  BY <1>1, <1>2, <1>3, <1>4, <1>5, Zenon DEF Counting

\* The pool's own variables.
PoolData ==
    /\ num \in Nat /\ 1..num \subseteq Workers
    /\ threads \in Seq(Nat) /\ i \in Nat
    /\ calls \in Nat /\ started \in Nat /\ exited \in Nat
    /\ nth \in [Workers -> Nat]
    /\ next \in Nat /\ index \in [Users -> Nat]
    /\ upc \in [Users -> {"idle", "fetch", "hash", "index"}]

\* The pool makes no call that the owner of one object could not make.
LEMMA MovesAreObjects ==
    ASSUME NEW w \in Workers, Moves(w)
    PROVE  ObjectNext(w)
BY Zenon DEF Moves, ObjectNext, ThreadContinues, OwnerContinues

\* A functor moves its own thread and touches no other state of any object.
LEMMA CountingObjects ==
    ASSUME TypeOK, NEW w \in Workers, Counting(w)
    PROVE  /\ TypeOK' /\ \A v \in Workers : v # w => Same(v)
           /\ UNCHANGED <<status, loop, preRan, ownerVars>>
<1> USE DEF TypeOK, Same, ThreadSteps
<1>1. CASE CountStarted(w)
  BY <1>1, Zenon DEF CountStarted, ThreadStep, ownerVars
<1>2. CASE OnThreadStarted(w)
  BY <1>2, Zenon DEF OnThreadStarted, ThreadStep, ownerVars
<1>3. CASE CountExited(w)
  BY <1>3, Zenon DEF CountExited, ThreadStep, ownerVars
<1>4. CASE OnThreadExited(w)
  BY <1>4, Zenon DEF OnThreadExited, ThreadStep, ownerVars
<1>5. CASE CallStopped(w)
  BY <1>5, Zenon DEF CallStopped, ThreadStep, ownerVars
<1> QED  BY <1>1, <1>2, <1>3, <1>4, <1>5, Zenon DEF Counting

\* The owner's steps that are a call on the object of its position, those that touch no
\* object, and the steps of a user.
OwnerCall == StartThread \/ StopThread \/ ThreadJoin

OwnerAlone ==
    \/ \E wait \in WaitStart : PoolStart(wait)
    \/ \E wait \in StopWaits, fn \in BOOLEAN : PoolStop(wait, fn)
    \/ PushThread \/ SawRunning \/ ThreadStopReturns \/ SawAllStopped \/ StoreStopped
    \/ PoolJoin \/ ThreadJoinReturns

UserMoves(u) == GetNextLoop(u) \/ GetNextLoopWithHash(u) \/ UserContinues(u)

\* Every step of the pool is of one object, of a functor, of the owner or of a user.
LEMMA PoolCases ==
    ASSUME PoolNext
    PROVE  \/ \E w \in Workers : (Moves(w) /\ UNCHANGED poolOnly) \/ Counting(w)
           \/ OwnerCall \/ OwnerAlone \/ ClearThreads
           \/ \E u \in Users : UserMoves(u)
<1>1. CASE PoolContinues
  BY <1>1, Zenon DEF PoolContinues, OwnerCall, OwnerAlone
<1>2. ASSUME NEW w \in Workers, WorkerContinues(w) \/ ObjectContinues(w)
      PROVE  (Moves(w) /\ UNCHANGED poolOnly) \/ Counting(w)
  BY <1>2, Zenon DEF WorkerContinues, ObjectContinues, Moves, Counting
<1> QED  BY <1>1, <1>2, Zenon DEF PoolNext, OwnerAlone, UserMoves

\* Steps of the owner between its calls, and of the users, leave the objects alone.
LEMMA AloneLeavesObjects ==
    ASSUME OwnerAlone \/ \E u \in Users : UserMoves(u)
    PROVE  UNCHANGED vars
BY Zenon DEF OwnerAlone, UserMoves, PoolStart, PoolStop, PushThread, SawRunning, ThreadStopReturns,
   SawAllStopped, StoreStopped, PoolJoin, ThreadJoinReturns, GetNextLoop, GetNextLoopWithHash,
   SeesThreads, UserContinues, FetchNext, HashIndex, ReturnLoop

\* The object that the owner calls is the one of its position, and running when it stops it.
LEMMA OwnerCallsObject ==
    ASSUME PoolData, Position, OwnerCall,
           \A w \in 1..num : ppc = "stop" /\ w = i => loop[w] = "kRunning"
    PROVE  /\ i \in Workers /\ i \in 1..num /\ ObjectNext(i)
           /\ UNCHANGED <<num, pstatus, threads, i, pwait, counters, userVars>>
<1>1. i \in Workers /\ i \in 1..num
  BY Zenon DEF OwnerCall, StartThread, StopThread, ThreadJoin, PoolStep, Position, PoolData
<1>2. CASE StartThread
  BY <1>1, <1>2, Zenon DEF StartThread, PoolStep, Position, ObjectNext
<1>3. CASE StopThread
  <2>1. threads[i] = i
    BY <1>3 DEF StopThread, PoolStep, Position, PoolData
  <2>2. EnterStop(i, FALSE) /\ loop[i] = "kRunning"
    BY <1>1, <1>3, <2>1, Zenon DEF StopThread, PoolStep
  <2> QED  BY <1>1, <1>3, <2>2, Zenon DEF StopThread, ObjectNext, CallStop
<1>4. CASE ThreadJoin
  <2>1. threads[i] = i
    BY <1>4 DEF ThreadJoin, PoolStep, Position, PoolData
  <2> QED  BY <1>1, <1>4, <2>1, Zenon DEF ThreadJoin, ObjectNext
<1> QED  BY <1>2, <1>3, <1>4, Zenon DEF OwnerCall

\* threads_.clear() is about threads 1 to num.
LEMMA Cleared ==
    ASSUME PoolData, TypeOK, Position, ClearThreads, NEW w \in Workers
    PROVE  /\ w \in 1..num => opc'[w] = [at |-> "destroyed", wait |-> TRUE, dtor |-> TRUE]
           /\ w \notin 1..num => opc'[w] = opc[w]
<1>1. (\E k \in DOMAIN threads : threads[k] = w) <=> w \in 1..num
  BY DEF ClearThreads, PoolStep, PoolData, Position
<1> QED  BY <1>1, Zenon DEF ClearThreads

\* The objects keep their types in a pool.
LEMMA PoolObjectsTyped ==
    ASSUME PoolData, TypeOK, Position, PoolNext,
           \A w \in 1..num : ppc = "stop" /\ w = i => loop[w] = "kRunning"
    PROVE  TypeOK'
<1>1. ASSUME NEW w \in Workers, (Moves(w) /\ UNCHANGED poolOnly) \/ Counting(w) PROVE TypeOK'
  BY <1>1, MovesAreObjects, ObjectTypeOK, CountingObjects, Zenon
<1>2. CASE OwnerCall
  BY <1>2, OwnerCallsObject, ObjectTypeOK, Zenon
<1>3. CASE OwnerAlone \/ \E u \in Users : UserMoves(u)
  <2>1. UNCHANGED vars
    BY <1>3, AloneLeavesObjects, Zenon
  <2> QED  BY <2>1, Zenon DEF TypeOK, vars
<1>4. CASE ClearThreads
  <2>1. opc' \in [Workers -> [at : OwnerSteps, wait : BOOLEAN, dtor : BOOLEAN]]
    BY <1>4, Zenon DEF ClearThreads, TypeOK, OwnerSteps
  <2> QED  BY <1>4, <2>1, Zenon DEF ClearThreads, TypeOK
<1> QED  BY <1>1, <1>2, <1>3, <1>4, PoolCases, Zenon

\* A thread that has been created is one of the pool, which has been started; it leaves only
\* when it has been told to.
LEMMA InPool ==
    ASSUME PoolData, Position, NEW w \in Workers, At(Stage(w), w), tpc[w] # "none"
    PROVE  /\ w \in 1..num /\ pstatus # "kNull"
           /\ tpc[w] \in {"post"} \cup Leaving => ppc \notin {"idle", "start", "push", "running"}
<1>1. w \in Nat /\ w >= 1
  BY PoolAssumption
<1>2. Stage(w) # "before"
  BY DEF At, InStage
<1>3. tpc[w] \in {"post"} \cup Leaving => Stage(w) \in {"stopping", "told"}
  BY Zenon DEF At, InStage, Serving, Leaving
<1>4. w \in 1..num /\ pstatus # "kNull"
  BY <1>1, <1>2 DEF Stage, PoolData, Position
<1>5. Stage(w) \in {"stopping", "told"} => ppc \notin {"idle", "start", "push", "running"}
  BY Zenon DEF Stage
<1> QED  BY <1>3, <1>4, <1>5, Zenon

\* The last thread that starts makes the pool run, the last that exits ends it.
LEMMA CountingPool ==
    ASSUME PoolData, Position, Last, NEW w \in Workers, At(Stage(w), w), Counting(w)
    PROVE  /\ UNCHANGED <<num, threads, ppc, i, pwait, userVars>>
           /\ w \in 1..num /\ pstatus # "kNull" /\ pstatus' # "kNull"
           /\ \/ pstatus' = pstatus
              \/ pstatus = "kStarting" /\ pstatus' = "kRunning"
              \/ pstatus' = "kStopped" /\ ppc \notin {"idle", "start", "push", "running"}
<1>1. UNCHANGED <<num, threads, ppc, i, pwait, userVars>> /\ tpc[w] # "none"
  BY Zenon DEF Counting, CountStarted, OnThreadStarted, CountExited, OnThreadExited, CallStopped,
     ThreadStep
<1>2. /\ w \in 1..num /\ pstatus # "kNull"
      /\ tpc[w] \in {"post"} \cup Leaving => ppc \notin {"idle", "start", "push", "running"}
  BY <1>1, InPool, Zenon
<1>3. CASE OnThreadStarted(w)
  BY <1>2, <1>3, Zenon DEF OnThreadStarted, ThreadStep, Last, AllIn
<1>4. CASE OnThreadExited(w)
  BY <1>2, <1>4, Zenon DEF OnThreadExited, ThreadStep, Leaving
<1>5. CASE CountStarted(w) \/ CountExited(w) \/ CallStopped(w)
  BY <1>2, <1>5, Zenon DEF CountStarted, CountExited, CallStopped
<1>6. /\ pstatus' # "kNull"
      /\ \/ pstatus' = pstatus
         \/ pstatus = "kStarting" /\ pstatus' = "kRunning"
         \/ pstatus' = "kStopped" /\ ppc \notin {"idle", "start", "push", "running"}
  BY <1>2, <1>3, <1>4, <1>5, Zenon DEF Counting
<1> QED  BY <1>1, <1>2, <1>6, Zenon

\* The pool's own variables keep theirs.
LEMMA PoolDataStep ==
    ASSUME PoolData, Position, PoolNext,
           \A w \in 1..num : ppc = "stop" /\ w = i => loop[w] = "kRunning"
    PROVE  PoolData'
<1> USE DEF PoolData
<1>1. ASSUME NEW w \in Workers, Moves(w), UNCHANGED poolOnly PROVE PoolData'
  BY <1>1 DEF poolOnly, counters, userVars
<1>2. ASSUME NEW w \in Workers, Counting(w) PROVE PoolData'
  <2>1. CASE CountStarted(w)
    BY <2>1 DEF CountStarted, userVars
  <2>2. CASE OnThreadStarted(w)
    BY <2>2 DEF OnThreadStarted, counters, userVars
  <2>3. CASE CountExited(w)
    BY <2>3 DEF CountExited, userVars
  <2>4. CASE OnThreadExited(w)
    BY <2>4 DEF OnThreadExited, counters, userVars
  <2>5. CASE CallStopped(w)
    BY <2>5 DEF CallStopped, userVars
  <2> QED  BY <1>2, <2>1, <2>2, <2>3, <2>4, <2>5, Zenon DEF Counting
<1>3. CASE OwnerCall
  <2>1. UNCHANGED <<num, pstatus, threads, i, pwait, counters, userVars>>
    BY <1>3, OwnerCallsObject
  <2> QED  BY <2>1 DEF counters, userVars
<1>4. CASE OwnerAlone
  <2>1. ASSUME NEW wait \in WaitStart, PoolStart(wait) PROVE PoolData'
    BY <2>1 DEF PoolStart, counters, userVars
  <2>2. ASSUME NEW wait \in StopWaits, NEW fn \in BOOLEAN, PoolStop(wait, fn) PROVE PoolData'
    BY <2>2 DEF PoolStop, userVars
  <2>3. CASE PushThread \/ ThreadStopReturns \/ ThreadJoinReturns
    <3>1. i + 1 \in Nat /\ Append(threads, i) \in Seq(Nat)
      OBVIOUS
    <3>2. CASE PushThread
      BY <3>1, <3>2, Zenon DEF PushThread, counters, userVars
    <3>3. CASE ThreadStopReturns \/ ThreadJoinReturns
      BY <3>1, <3>3, Zenon DEF ThreadStopReturns, ThreadJoinReturns, counters, userVars
    <3> QED  BY <2>3, <3>2, <3>3, Zenon
  <2>4. CASE SawRunning \/ SawAllStopped \/ StoreStopped \/ PoolJoin
    BY <2>4, SMTT(30) DEF SawRunning, SawAllStopped, StoreStopped, PoolJoin, counters, userVars
  <2> QED  BY <1>4, <2>1, <2>2, <2>3, <2>4, Zenon DEF OwnerAlone
<1>5. CASE ClearThreads
  BY <1>5 DEF ClearThreads, counters, userVars
<1>6. ASSUME NEW u \in Users, UserMoves(u) PROVE PoolData'
  <2>1. CASE FetchNext(u)
    BY <2>1 DEF FetchNext, UserStep, counters
  <2>2. ASSUME NEW hash \in Hashes, HashIndex(u, hash) PROVE PoolData'
    BY <2>2, PoolAssumption DEF HashIndex, UserStep, counters
  <2>3. CASE GetNextLoop(u) \/ GetNextLoopWithHash(u) \/ ReturnLoop(u)
    BY <2>3, Zenon DEF GetNextLoop, GetNextLoopWithHash, SeesThreads, ReturnLoop, UserStep, counters
  <2> QED  BY <1>6, <2>1, <2>2, <2>3, Zenon DEF UserMoves, UserContinues
<1> HIDE DEF PoolData
<1> QED  BY <1>1, <1>2, <1>3, <1>4, <1>5, <1>6, PoolCases, Zenon

\* The owner's position after each of its steps.
LEMMA PositionStep ==
    ASSUME PoolData, Position, Last, InStages, PoolNext,
           \A w \in 1..num : ppc = "stop" /\ w = i => loop[w] = "kRunning"
    PROVE  Position'
<1>1. ASSUME NEW w \in Workers, Moves(w), UNCHANGED poolOnly PROVE Position'
  BY <1>1, Zenon DEF poolOnly, Position
<1>2. ASSUME NEW w \in Workers, Counting(w) PROVE Position'
  <2>1. At(Stage(w), w)
    BY Zenon DEF InStages
  <2> QED  BY <1>2, <2>1, CountingPool, Zenon DEF Position
<1>3. CASE OwnerCall
  <2>1. UNCHANGED <<num, pstatus, threads, i, pwait, counters, userVars>>
    BY <1>3, OwnerCallsObject, Zenon
  <2>2. \/ ppc = "start" /\ ppc' = "push"
        \/ ppc = "stop" /\ ppc' = "stopping"
        \/ ppc = "join" /\ ppc' = "joining"
    BY <1>3, Zenon DEF OwnerCall, StartThread, StopThread, ThreadJoin, PoolStep
  <2> QED  BY <2>1, <2>2, Zenon DEF Position
<1>4. CASE OwnerAlone
  <2>1. ASSUME NEW wait \in WaitStart, PoolStart(wait) PROVE Position'
    BY <2>1 DEF PoolStart, PoolStep, Position, PoolData
  <2>2. ASSUME NEW wait \in StopWaits, NEW fn \in BOOLEAN, PoolStop(wait, fn) PROVE Position'
    BY <2>2 DEF PoolStop, PoolStep, Position, PoolData
  <2>3. CASE PushThread
    <3>1. /\ Len(threads') = Len(threads) + 1
          /\ \A k \in 1..Len(threads') : threads'[k] = k
      BY <2>3 DEF PushThread, PoolStep, Position, PoolData
    <3> QED  BY <2>3, <3>1, SMTT(30) DEF PushThread, PoolStep, Position, PoolData
  <2>4. CASE ThreadStopReturns
    BY <2>4 DEF ThreadStopReturns, PoolStep, Position, PoolData
  <2>5. CASE ThreadJoinReturns
    BY <2>5 DEF ThreadJoinReturns, PoolStep, Position, PoolData
  <2>6. CASE PoolJoin
    BY <2>6 DEF PoolJoin, PoolStep, Position, PoolData
  <2>7. CASE SawRunning \/ SawAllStopped \/ StoreStopped
    BY <2>7, Zenon DEF SawRunning, SawAllStopped, StoreStopped, PoolStep, Position
  <2> QED  BY <1>4, <2>1, <2>2, <2>3, <2>4, <2>5, <2>6, <2>7, Zenon DEF OwnerAlone
<1>5. CASE ClearThreads
  BY <1>5 DEF ClearThreads, PoolStep, Position
<1>6. ASSUME NEW u \in Users, UserMoves(u) PROVE Position'
  BY <1>6, Zenon DEF UserMoves, UserContinues, FetchNext, HashIndex, GetNextLoop,
     GetNextLoopWithHash, SeesThreads, ReturnLoop, Position
<1> QED  BY <1>1, <1>2, <1>3, <1>4, <1>5, <1>6, PoolCases, Zenon

-----------------------------------------------------------------------------
(* The stages of the threads.                                              *)

\* A stage depends on the owner's position alone.
LEMMA StageStays ==
    ASSUME UNCHANGED <<num, ppc, i>>, (pstatus' = "kNull") <=> (pstatus = "kNull"), NEW v
    PROVE  Stage(v)' = Stage(v)
BY Zenon DEF Stage

\* An object that no step touches stays where it is.
LEMMA SameAt ==
    ASSUME NEW v, Same(v), NEW g, At(g, v)
    PROVE  At(g, v)'
BY Zenon DEF Same, At

\* The owner alone: a thread whose Stop() has returned has been told.
LEMMA AloneStages ==
    ASSUME PoolData, Position, OwnerAlone, NEW v \in Workers
    PROVE  \/ Stage(v)' = Stage(v)
           \/ Stage(v) = "stopping" /\ opc[v].at = "idle" /\ Stage(v)' = "told"
<1>0. v \in Nat /\ v >= 1
  BY PoolAssumption
<1>1. ASSUME NEW wait \in WaitStart, PoolStart(wait) PROVE Stage(v)' = Stage(v)
  BY <1>0, <1>1 DEF PoolStart, PoolStep, Stage, PoolData
<1>2. ASSUME NEW wait \in StopWaits, NEW fn \in BOOLEAN, PoolStop(wait, fn)
      PROVE  Stage(v)' = Stage(v)
  BY <1>0, <1>2, SMTT(30) DEF PoolStop, PoolStep, Stage, PoolData
<1>3. CASE PushThread
  BY <1>0, <1>3, SMTT(30) DEF PushThread, PoolStep, Stage, Position, PoolData
<1>4. CASE ThreadStopReturns
  <2>1. threads[i] = i
    BY <1>4 DEF ThreadStopReturns, PoolStep, Position, PoolData
  <2> QED  BY <1>0, <1>4, <2>1, SMTT(30) DEF ThreadStopReturns, PoolStep, Stage, Position, PoolData
<1>5. CASE SawRunning
  BY <1>5, Zenon DEF SawRunning, PoolStep, Stage
<1>6. CASE SawAllStopped \/ StoreStopped \/ PoolJoin \/ ThreadJoinReturns
  <2>1. /\ ppc \in {"wait", "store", "stopped", "joining"} /\ num' = num
        /\ ppc' \in {"store", "stopped", "done", "join", "clear"}
    BY <1>6, Zenon DEF SawAllStopped, StoreStopped, PoolJoin, ThreadJoinReturns, PoolStep
  <2> QED  BY <2>1, Zenon DEF Stage
<1> QED  BY <1>1, <1>2, <1>3, <1>4, <1>5, <1>6, Zenon DEF OwnerAlone

\* The owner's call on an object moves it to its next stage.
LEMMA CallStages ==
    ASSUME PoolData, TypeOK, Position, InStages, OwnerCall,
           \A w \in 1..num :
             ppc = "stop" /\ w = i => loop[w] = "kRunning" /\ tpc[w] \in {"started", "loop"}
    PROVE  ~aborted' /\ InStages'
<1>0. /\ i \in Workers /\ i \in 1..num /\ ObjectNext(i) /\ UNCHANGED <<num, pstatus, i>>
      /\ At(Stage(i), i)
  BY OwnerCallsObject, Zenon DEF InStages
<1>1. ASSUME NEW v \in Workers, v # i PROVE At(Stage(v), v)'
  <2>1. Same(v) /\ At(Stage(v), v)
    BY <1>0, <1>1, OthersStay, Zenon DEF InStages
  <2>2. Stage(v)' = Stage(v)
    <3>1. v \in Nat /\ v >= 1 /\ i \in Nat
      BY PoolAssumption DEF PoolData
    <3>2. \/ ppc = "start" /\ ppc' = "push"
          \/ ppc = "stop" /\ ppc' = "stopping"
          \/ ppc = "join" /\ ppc' = "joining"
      BY Zenon DEF OwnerCall, StartThread, StopThread, ThreadJoin, PoolStep
    <3> QED  BY <1>0, <1>1, <3>1, <3>2, SMTT(30) DEF Stage
  <2> QED  BY <2>1, <2>2, SameAt, Zenon
<1>2. i >= i /\ ~(i > i) /\ ~(i < i) /\ ~(i > num)
  BY <1>0 DEF PoolData
<1>3. ~aborted' /\ At(Stage(i), i)'
  <2>1. CASE StartThread
    <3>1. Stage(i) = "before" /\ Stage(i)' = "serving"
      BY <1>0, <1>2, <2>1, Zenon DEF StartThread, PoolStep, Stage
    <3>2. /\ ~aborted' /\ status'[i] = "kStarting" /\ loop'[i] = loop[i] /\ tpc'[i] = "spawned"
          /\ opc'[i].at \in {"idle", "starting"}
      BY <1>0, <2>1, Zenon DEF StartThread, Start, OwnerStep, PoolStep, TypeOK
    <3> QED  BY <1>0, <3>1, <3>2, Zenon DEF At, InStage, Serving
  <2>2. CASE StopThread
    <3>1. Stage(i) = "serving" /\ Stage(i)' = "stopping"
      BY <1>0, <1>2, <2>2, Zenon DEF StopThread, PoolStep, Stage
    <3>2. threads[i] = i
      BY <2>2 DEF StopThread, PoolStep, Position, PoolData
    <3>3. /\ ~aborted' /\ opc'[i].at = "stop" /\ ~opc'[i].wait
          /\ UNCHANGED <<status, loop, tpc, preRan>>
      BY <1>0, <2>2, <3>2, Zenon DEF StopThread, EnterStop, PoolStep, TypeOK
    <3>4. loop[i] = "kRunning" /\ tpc[i] \in {"started", "loop"}
      BY <1>0, <2>2, Zenon DEF StopThread, PoolStep
    <3> QED  BY <1>0, <3>1, <3>3, <3>4, Zenon DEF At, InStage, Serving
  <2>3. CASE ThreadJoin
    <3>1. Stage(i) = "told" /\ Stage(i)' = "told"
      BY <1>0, <1>2, <2>3, Zenon DEF ThreadJoin, PoolStep, Stage
    <3>2. threads[i] = i
      BY <2>3 DEF ThreadJoin, PoolStep, Position, PoolData
    <3>3. /\ ~aborted' /\ opc'[i].at = "join"
          /\ UNCHANGED <<status, loop, tpc, preRan>>
      BY <1>0, <2>3, <3>2, Zenon DEF ThreadJoin, OwnerCallsJoin, OwnerStep, PoolStep, TypeOK
    <3> QED  BY <1>0, <3>1, <3>3, Zenon DEF At, InStage
  <2> QED  BY <2>1, <2>2, <2>3, Zenon DEF OwnerCall
<1> QED  BY <1>0, <1>1, <1>3, Zenon DEF InStages

\* No assert fails, and every thread is where its stage lets it be.
LEMMA StagesStep ==
    ASSUME PoolData, TypeOK, Position, Last, InStages, ~aborted, PoolNext,
           \A w \in 1..num :
             ppc = "stop" /\ w = i => loop[w] = "kRunning" /\ tpc[w] \in {"started", "loop"}
    PROVE  ~aborted' /\ InStages'
<1>1. ASSUME NEW w \in Workers, Moves(w), UNCHANGED poolOnly PROVE ~aborted' /\ InStages'
  <2>1. ASSUME NEW v \in Workers PROVE Stage(v)' = Stage(v)
    BY <1>1, StageStays, Zenon DEF poolOnly
  <2>2. ~aborted' /\ At(Stage(w), w)'
    <3>1. At(Stage(w), w)
      BY Zenon DEF InStages
    <3>2. ASSUME NEW g, At(g, w) PROVE ~aborted' /\ At(g, w)'
      BY <1>1, <3>2, MovesKeepStage, Zenon
    <3> QED  BY <2>1, <3>1, <3>2, Zenon DEF At
  <2>3. ASSUME NEW v \in Workers, v # w PROVE At(Stage(v), v)'
    <3>1. At(Stage(v), v) /\ Same(v)
      BY <1>1, <2>3, MovesAreObjects, OthersStay, Zenon DEF InStages
    <3> QED  BY <2>1, <3>1, Zenon DEF At, Same
  <2> QED  BY <2>2, <2>3, Zenon DEF InStages
<1>2. ASSUME NEW w \in Workers, Counting(w) PROVE ~aborted' /\ InStages'
  <2>0. At(Stage(w), w)
    BY Zenon DEF InStages
  <2>1. ASSUME NEW v \in Workers PROVE Stage(v)' = Stage(v)
    BY <1>2, <2>0, CountingPool, StageStays, Zenon
  <2>2. ~aborted' /\ At(Stage(w), w)'
    <3>1. ASSUME NEW g, At(g, w) PROVE ~aborted' /\ At(g, w)'
      BY <1>2, <3>1, CountingKeepsStage, Zenon
    <3> QED  BY <2>0, <2>1, <3>1, Zenon DEF At
  <2>3. ASSUME NEW v \in Workers, v # w PROVE At(Stage(v), v)'
    <3>1. At(Stage(v), v) /\ Same(v)
      BY <1>2, <2>3, CountingObjects, Zenon DEF InStages
    <3> QED  BY <2>1, <3>1, Zenon DEF At, Same
  <2> QED  BY <2>2, <2>3, Zenon DEF InStages
<1>3. CASE OwnerCall
  BY <1>3, CallStages, Zenon
<1>4. CASE OwnerAlone
  <2>1. UNCHANGED vars
    BY <1>4, AloneLeavesObjects, Zenon
  <2>2. ASSUME NEW v \in Workers PROVE At(Stage(v), v)'
    <3>1. At(Stage(v), v)
      BY Zenon DEF InStages
    <3>2. CASE Stage(v)' = Stage(v)
      BY <2>1, <3>1, <3>2, Zenon DEF At, vars
    <3>3. CASE Stage(v) = "stopping" /\ opc[v].at = "idle" /\ Stage(v)' = "told"
      BY <2>1, <3>1, <3>3, Zenon DEF At, InStage, vars
    <3> QED  BY <1>4, <3>2, <3>3, AloneStages, Zenon
  <2> QED  BY <2>1, <2>2, Zenon DEF InStages, vars
<1>5. CASE ClearThreads
  <2>1. ~aborted' /\ UNCHANGED <<status, loop, tpc, preRan>>
    BY <1>5, Zenon DEF ClearThreads, PoolStep
  <2>2. ASSUME NEW v \in Workers PROVE At(Stage(v), v)'
    <3>1. At(Stage(v), v)
      BY Zenon DEF InStages
    <3>2. v \in Nat /\ v >= 1
      BY PoolAssumption, SMTT(30)
    <3>3. Stage(v)' = Stage(v) /\ (v \in 1..num => Stage(v) = "told") /\ (v \notin 1..num => Stage(v) = "before")
      BY <1>5, <3>2 DEF ClearThreads, PoolStep, Stage, PoolData
    <3>4. /\ v \in 1..num => opc'[v].at = "destroyed"
          /\ v \notin 1..num => opc'[v] = opc[v]
      BY <1>5, Cleared
    <3>5. CASE v \in 1..num
      BY <2>1, <3>1, <3>3, <3>4, <3>5, Zenon DEF At, InStage
    <3>6. CASE v \notin 1..num
      BY <2>1, <3>1, <3>3, <3>4, <3>6, Zenon DEF At, InStage
    <3> QED  BY <3>5, <3>6, Zenon
  <2> QED  BY <2>1, <2>2, Zenon DEF InStages
<1>6. ASSUME NEW u \in Users, UserMoves(u) PROVE ~aborted' /\ InStages'
  <2>1. UNCHANGED <<vars, num, pstatus, ppc, i>>
    BY <1>6, Zenon DEF UserMoves, UserContinues, FetchNext, HashIndex, GetNextLoop,
       GetNextLoopWithHash, SeesThreads, ReturnLoop
  <2>2. ASSUME NEW v \in Workers PROVE At(Stage(v), v)'
    <3>1. At(Stage(v), v) /\ Stage(v)' = Stage(v)
      BY <2>1, StageStays, Zenon DEF InStages
    <3> QED  BY <2>1, <3>1, Zenon DEF At, vars
  <2> QED  BY <2>1, <2>2, Zenon DEF InStages, vars
<1> QED  BY <1>1, <1>2, <1>3, <1>4, <1>5, <1>6, PoolCases, Zenon

-----------------------------------------------------------------------------
(* The counts.                                                             *)

\* A set of threads of the pool that is as large as the pool is all of it.
LEMMA FullCount ==
    ASSUME NEW n \in Nat, NEW S, S \subseteq 1..n, n <= Cardinality(S)
    PROVE  S = 1..n
<1>1. IsFiniteSet(1..n) /\ Cardinality(1..n) = n
  BY FS_Interval
<1>2. /\ IsFiniteSet(S) /\ Cardinality(S) <= n
      /\ Cardinality(S) = n => S = 1..n
  BY <1>1, FS_Subset, Zenon
<1>3. Cardinality(S) \in Nat
  BY <1>2, FS_CardinalityType
<1> QED  BY <1>2, <1>3

\* One more thread has been counted.
LEMMA OneMore ==
    ASSUME NEW S, S \subseteq Workers, NEW w \in Workers, w \notin S
    PROVE  Cardinality(S \cup {w}) = Cardinality(S) + 1
<1>1. IsFiniteSet(Workers)
  BY PoolAssumption, FS_Interval
<1>2. IsFiniteSet(S)
  BY <1>1, FS_Subset
<1> QED  BY <1>2, FS_AddElement

\* No thread is counted, and none begins to wait for a count.
Quiet ==
    \A v \in Workers :
        /\ tpc'[v] \in Counted <=> tpc[v] \in Counted
        /\ tpc'[v] \in Leaving <=> tpc[v] \in Leaving
        /\ tpc'[v] \in {"started", "exiting"} => tpc'[v] = tpc[v]

\* Steps that count nobody keep the counts.
LEMMA QuietCounts ==
    ASSUME Counts, Quiet, UNCHANGED <<started, exited, nth>>
    PROVE  Counts'
<1>1. {w \in Workers : tpc'[w] \in Counted} = {w \in Workers : tpc[w] \in Counted}
  BY Zenon DEF Quiet
<1>2. {w \in Workers : tpc'[w] \in Leaving} = {w \in Workers : tpc[w] \in Leaving}
  BY Zenon DEF Quiet
<1> QED  BY <1>1, <1>2, Zenon DEF Counts, Quiet

\* The steps on one object count nobody.
LEMMA MovesAreQuiet ==
    ASSUME TypeOK, NEW w \in Workers, NEW g, At(g, w), Moves(w)
    PROVE  Quiet /\ \A v \in Workers : tpc'[v] = "callback" => tpc[v] = "callback"
<1>1. ASSUME NEW v \in Workers, v # w PROVE tpc'[v] = tpc[v]
  BY <1>1, MovesAreObjects, OthersStay, Zenon DEF Same
<1>2. \/ tpc'[w] = tpc[w]
      \/ tpc[w] = "spawned" /\ tpc'[w] = "fn"
      \/ tpc[w] = "fn" /\ tpc'[w] = "pre"
      \/ tpc[w] = "loop" /\ tpc'[w] = "post"
      \/ tpc[w] = "exit" /\ tpc'[w] = "exited"
  BY Zenon DEF Moves, EnterLoop, SetRunning, LeaveLoop, SetStopped, StartReturns, StopAsserts,
     StopStores, StopLoop, OwnerLocks, OwnerJoins, ThreadStep, TypeOK, At, InStage, Serving,
     Told, Leaving
<1> QED  BY <1>1, <1>2, Zenon DEF Quiet, Counted, Leaving

\* Nor do those of the owner and the users.
LEMMA OwnerIsQuiet ==
    ASSUME PoolData, TypeOK, Position, InStages,
           OwnerCall \/ OwnerAlone \/ ClearThreads \/ \E u \in Users : UserMoves(u)
    PROVE  Quiet /\ \A v \in Workers : tpc'[v] = "callback" => tpc[v] = "callback"
<1>1. CASE UNCHANGED tpc
  BY <1>1, Zenon DEF Quiet
<1>2. CASE StartThread
  <2>1. i \in Workers /\ i >= i
    BY <1>2 DEF StartThread, PoolStep, Position, PoolData
  <2>2. tpc[i] = "none"
    <3>1. At(Stage(i), i) /\ Stage(i) = "before"
      BY <1>2, <2>1, Zenon DEF InStages, StartThread, PoolStep, Stage
    <3> QED  BY <3>1, Zenon DEF At, InStage
  <2>3. tpc' = [tpc EXCEPT ![i] = "spawned"]
    BY <1>2, Zenon DEF StartThread, Start
  <2> QED  BY <2>1, <2>2, <2>3, Zenon DEF Quiet, Counted, Leaving, TypeOK
<1>3. CASE StopThread \/ ThreadJoin \/ ClearThreads
  BY <1>1, <1>3, Zenon DEF StopThread, EnterStop, ThreadJoin, OwnerCallsJoin, ClearThreads
<1>4. CASE OwnerAlone \/ \E u \in Users : UserMoves(u)
  BY <1>1, <1>4, AloneLeavesObjects, Zenon DEF vars
<1> QED  BY <1>2, <1>3, <1>4, Zenon DEF OwnerCall

\* The thread that counts itself in gets a number that no other waiting thread has.
LEMMA StartedCounts ==
    ASSUME PoolData, TypeOK, Counts, NEW w \in Workers, CountStarted(w)
    PROVE  Counts'
<1>0. started \in Nat /\ nth \in [Workers -> Nat]
  BY Zenon DEF PoolData
<1>1. /\ tpc[w] = "pre" /\ tpc' = [tpc EXCEPT ![w] = "started"]
      /\ started' = started + 1 /\ exited' = exited /\ nth' = [nth EXCEPT ![w] = started + 1]
  BY Zenon DEF CountStarted, ThreadStep
<1>2. /\ \A v \in Workers : v # w => tpc'[v] = tpc[v] /\ nth'[v] = nth[v]
      /\ tpc'[w] = "started" /\ nth'[w] = started + 1
  BY <1>1, Zenon DEF TypeOK, PoolData
<1>3. {v \in Workers : tpc'[v] \in Counted} = {v \in Workers : tpc[v] \in Counted} \cup {w}
  BY <1>1, <1>2, Zenon DEF Counted
<1>4. {v \in Workers : tpc'[v] \in Leaving} = {v \in Workers : tpc[v] \in Leaving}
  BY <1>1, <1>2, Zenon DEF Leaving
<1>5. w \notin {v \in Workers : tpc[v] \in Counted}
  BY <1>1, Zenon DEF Counted
<1>6. started' = Cardinality({v \in Workers : tpc'[v] \in Counted})
  BY <1>1, <1>3, <1>5, OneMore, Zenon DEF Counts
<1>7. ASSUME NEW v \in Workers, tpc'[v] = "started" PROVE nth'[v] <= started'
  <2>1. v # w => nth'[v] = nth[v] /\ nth[v] <= started /\ nth[v] \in Nat
    BY <1>0, <1>2, <1>7, Zenon DEF Counts
  <2> QED  BY <1>0, <1>1, <1>2, <2>1
<1>8. ASSUME NEW v \in Workers, v # w, tpc[v] = "started" PROVE nth'[v] # nth'[w]
  <2>1. nth'[v] = nth[v] /\ nth[v] <= started /\ nth[v] \in Nat
    BY <1>0, <1>2, <1>8, Zenon DEF Counts
  <2> QED  BY <1>0, <1>2, <2>1
<1>9. ASSUME NEW u \in Workers, NEW v \in Workers,
             tpc'[u] = tpc'[v], tpc'[u] \in {"started", "exiting"}, nth'[u] = nth'[v]
      PROVE  u = v
  BY <1>2, <1>8, <1>9, ZenonT(30) DEF Counts
<1>10. ASSUME NEW v \in Workers, tpc'[v] = "exiting" PROVE nth'[v] <= exited'
  BY <1>1, <1>2, <1>10, Zenon DEF Counts
<1> QED  BY <1>1, <1>4, <1>6, <1>7, <1>9, <1>10, Zenon DEF Counts

\* The same for a thread that counts itself out.
LEMMA ExitedCounts ==
    ASSUME PoolData, TypeOK, Counts, NEW w \in Workers, CountExited(w)
    PROVE  Counts'
<1>0. exited \in Nat /\ nth \in [Workers -> Nat]
  BY Zenon DEF PoolData
<1>1. /\ tpc[w] = "post" /\ tpc' = [tpc EXCEPT ![w] = "exiting"]
      /\ exited' = exited + 1 /\ started' = started /\ nth' = [nth EXCEPT ![w] = exited + 1]
  BY Zenon DEF CountExited, ThreadStep
<1>2. /\ \A v \in Workers : v # w => tpc'[v] = tpc[v] /\ nth'[v] = nth[v]
      /\ tpc'[w] = "exiting" /\ nth'[w] = exited + 1
  BY <1>1, Zenon DEF TypeOK, PoolData
<1>3. {v \in Workers : tpc'[v] \in Leaving} = {v \in Workers : tpc[v] \in Leaving} \cup {w}
  BY <1>1, <1>2, Zenon DEF Leaving
<1>4. {v \in Workers : tpc'[v] \in Counted} = {v \in Workers : tpc[v] \in Counted}
  BY <1>1, <1>2, Zenon DEF Counted
<1>5. w \notin {v \in Workers : tpc[v] \in Leaving}
  BY <1>1, Zenon DEF Leaving
<1>6. exited' = Cardinality({v \in Workers : tpc'[v] \in Leaving})
  BY <1>1, <1>3, <1>5, OneMore, Zenon DEF Counts
<1>7. ASSUME NEW v \in Workers, tpc'[v] = "exiting" PROVE nth'[v] <= exited'
  <2>1. v # w => nth'[v] = nth[v] /\ nth[v] <= exited /\ nth[v] \in Nat
    BY <1>0, <1>2, <1>7, Zenon DEF Counts
  <2> QED  BY <1>0, <1>1, <1>2, <2>1
<1>8. ASSUME NEW v \in Workers, v # w, tpc[v] = "exiting" PROVE nth'[v] # nth'[w]
  <2>1. nth'[v] = nth[v] /\ nth[v] <= exited /\ nth[v] \in Nat
    BY <1>0, <1>2, <1>8, Zenon DEF Counts
  <2> QED  BY <1>0, <1>2, <2>1
<1>9. ASSUME NEW u \in Workers, NEW v \in Workers,
             tpc'[u] = tpc'[v], tpc'[u] \in {"started", "exiting"}, nth'[u] = nth'[v]
      PROVE  u = v
  BY <1>2, <1>8, <1>9, Zenon DEF Counts
<1>10. ASSUME NEW v \in Workers, tpc'[v] = "started" PROVE nth'[v] <= started'
  BY <1>1, <1>2, <1>10, Zenon DEF Counts
<1> QED  BY <1>1, <1>4, <1>6, <1>7, <1>9, <1>10, Zenon DEF Counts

\* The other steps of the functors.
LEMMA DoneCounting ==
    ASSUME TypeOK, NEW w \in Workers, OnThreadStarted(w) \/ OnThreadExited(w) \/ CallStopped(w)
    PROVE  Quiet /\ UNCHANGED <<started, exited, nth>>
<1>1. \/ tpc[w] = "started" /\ tpc' = [tpc EXCEPT ![w] = "loop"]
      \/ /\ tpc[w] = "exiting"
         /\ \/ tpc' = [tpc EXCEPT ![w] = "callback"] \/ tpc' = [tpc EXCEPT ![w] = "exit"]
      \/ tpc[w] = "callback" /\ tpc' = [tpc EXCEPT ![w] = "exit"]
  BY Zenon DEF OnThreadStarted, OnThreadExited, CallStopped, ThreadStep
<1>2. UNCHANGED <<started, exited, nth>>
  BY Zenon DEF OnThreadStarted, OnThreadExited, CallStopped, counters
<1> QED  BY <1>1, <1>2, ZenonT(30) DEF Quiet, Counted, Leaving, TypeOK

\* started_count and exited_count are exact after every step.
LEMMA CountsStep ==
    ASSUME PoolData, TypeOK, Position, InStages, Counts, PoolNext
    PROVE  Counts'
<1>1. ASSUME NEW w \in Workers, Moves(w), UNCHANGED poolOnly PROVE Counts'
  <2>1. At(Stage(w), w)
    BY Zenon DEF InStages
  <2>2. Quiet
    BY <1>1, <2>1, MovesAreQuiet, Zenon
  <2> QED  BY <1>1, <2>2, QuietCounts, Zenon DEF poolOnly, counters
<1>2. ASSUME NEW w \in Workers, Counting(w) PROVE Counts'
  BY <1>2, StartedCounts, ExitedCounts, DoneCounting, QuietCounts, Zenon DEF Counting
<1>3. CASE OwnerCall \/ OwnerAlone \/ ClearThreads \/ \E u \in Users : UserMoves(u)
  <2>1. Quiet
    BY <1>3, OwnerIsQuiet, Zenon
  <2>2. UNCHANGED <<started, exited, nth>>
    BY <1>3, Zenon DEF OwnerCall, OwnerAlone, ClearThreads, UserMoves, StartThread, StopThread,
       ThreadJoin, PoolStart, PoolStop, PushThread, SawRunning, ThreadStopReturns, SawAllStopped,
       StoreStopped, PoolJoin, ThreadJoinReturns, GetNextLoop, GetNextLoopWithHash, SeesThreads,
       UserContinues, FetchNext, HashIndex, ReturnLoop, counters
  <2> QED  BY <2>1, <2>2, QuietCounts, Zenon
<1> QED  BY <1>1, <1>2, <1>3, PoolCases, Zenon

-----------------------------------------------------------------------------
(* The last thread in and the last thread out.                             *)

Early == {"idle", "start", "push", "running"}

\* Steps that count nobody leave all threads in, or out.
LEMMA QuietAll ==
    ASSUME PoolData, Quiet, UNCHANGED <<num, nth>>
    PROVE  (AllIn => AllIn') /\ (AllOut => AllOut')
BY Zenon DEF Quiet, AllIn, AllOut, PoolData

\* A step that leaves the callback alone.
LEMMA QuietLast ==
    ASSUME PoolData, Quiet, UNCHANGED <<num, nth, cb, calls>>, Last,
           \A v \in Workers : tpc'[v] = "callback" => tpc[v] = "callback",
           \/ pstatus \notin {"kNull", "kStarting"}
           \/ pstatus' \in {"kNull", "kStarting"}
           \/ AllIn',
           ppc' \in Early => ppc \in Early
    PROVE  Last'
<1>1. (AllIn => AllIn') /\ (AllOut => AllOut')
  BY QuietAll, Zenon
<1>2. pstatus' \notin {"kNull", "kStarting"} => AllIn'
  BY <1>1, Zenon DEF Last
<1>3. ppc' \in Early => ~cb' /\ calls' = 0
  BY Zenon DEF Last, Early
<1>4. calls' <= 1
  BY Zenon DEF Last
<1>5. calls' = 1 => ~cb' /\ AllOut' /\ \A w \in Workers : tpc'[w] # "callback"
  BY <1>1, Zenon DEF Last
<1>6. \A w \in Workers : tpc'[w] = "callback" =>
         cb' /\ calls' = 0 /\ AllOut' /\ \A v \in Workers : tpc'[v] = "callback" => v = w
  BY <1>1, Zenon DEF Last
<1> QED  BY <1>2, <1>3, <1>4, <1>5, <1>6, Zenon DEF Last, Early

\* Every step of the owner but the entry of Stop().
LEMMA OwnerLast ==
    ASSUME PoolData, TypeOK, Position, InStages, Last,
           \/ OwnerCall \/ ClearThreads \/ \E u \in Users : UserMoves(u)
           \/ OwnerAlone /\ ~ \E wait \in StopWaits, fn \in BOOLEAN : PoolStop(wait, fn)
    PROVE  Last'
<1>1. Quiet /\ \A v \in Workers : tpc'[v] = "callback" => tpc[v] = "callback"
  BY OwnerIsQuiet, Zenon
<1>2. UNCHANGED <<num, nth, cb, calls>>
  BY Zenon DEF OwnerCall, OwnerAlone, ClearThreads, UserMoves, StartThread, StopThread,
     ThreadJoin, PoolStart, PushThread, SawRunning, ThreadStopReturns, SawAllStopped,
     StoreStopped, PoolJoin, ThreadJoinReturns, GetNextLoop, GetNextLoopWithHash, SeesThreads,
     UserContinues, FetchNext, HashIndex, ReturnLoop, counters
<1>3. CASE \E wait \in WaitStart : PoolStart(wait)
  <2>1. /\ ppc = "idle" /\ num' = num
        /\ \/ num = 0 \/ pstatus' = "kStarting"
    BY <1>3, Zenon DEF PoolStart, PoolStep
  <2>2. num = 0 => 1..num = {}
    OBVIOUS
  <2>3. num = 0 => AllIn'
    BY <2>1, <2>2, Zenon DEF AllIn
  <2> QED  BY <1>1, <1>2, <2>1, <2>3, QuietLast, ZenonT(30) DEF Early
<1>4. CASE StoreStopped
  <2>1. ppc = "store" /\ ppc' = "stopped"
    BY <1>4, Zenon DEF StoreStopped, PoolStep
  <2>2. pstatus \in {"kStopping", "kStopped"}
    BY <2>1, Zenon DEF Position
  <2> QED  BY <1>1, <1>2, <2>1, <2>2, QuietLast, Zenon DEF Early
<1>5. CASE \/ OwnerCall \/ ClearThreads \/ \E u \in Users : UserMoves(u)
           \/ PushThread \/ SawRunning \/ ThreadStopReturns \/ SawAllStopped
           \/ PoolJoin \/ ThreadJoinReturns
  <2>1. pstatus' = pstatus
    BY <1>5, Zenon DEF OwnerCall, ClearThreads, UserMoves, StartThread, StopThread,
       ThreadJoin, PushThread, SawRunning, ThreadStopReturns, SawAllStopped,
       PoolJoin, ThreadJoinReturns, GetNextLoop, GetNextLoopWithHash, SeesThreads,
       UserContinues, FetchNext, HashIndex, ReturnLoop
  <2>2. ppc' \in Early => ppc \in Early
    BY <1>5, Zenon DEF OwnerCall, ClearThreads, UserMoves, StartThread, StopThread,
       ThreadJoin, PushThread, SawRunning, ThreadStopReturns, SawAllStopped,
       PoolJoin, ThreadJoinReturns, GetNextLoop, GetNextLoopWithHash, SeesThreads,
       UserContinues, FetchNext, HashIndex, ReturnLoop, PoolStep, Early
  <2> QED  BY <1>1, <1>2, <2>1, <2>2, QuietLast, Zenon
<1> QED  BY <1>3, <1>4, <1>5, Zenon DEF OwnerAlone

\* Stop() hands the callback over, or, without threads, calls it.
LEMMA StopLast ==
    ASSUME PoolData, InStages, Last, NEW wait, NEW fn \in BOOLEAN, PoolStop(wait, fn)
    PROVE  Last'
<1>1. /\ ppc = "idle" /\ pstatus = "kRunning" /\ ppc' \notin Early
      /\ UNCHANGED <<num, nth, tpc>> /\ calls' = (IF num = 0 /\ fn THEN calls + 1 ELSE calls)
      /\ cb' = (num # 0 /\ fn)
  BY Zenon DEF PoolStop, PoolStep, vars, Early
<1>2. AllIn /\ calls = 0 /\ ~cb
  BY <1>1, Zenon DEF Last
<1>3. AllIn'
  BY <1>1, <1>2, Zenon DEF AllIn
<1>4. \A w \in Workers : tpc'[w] # "callback"
  BY <1>1, <1>2, Zenon DEF Last
<1>5. calls' \in {0, 1} /\ (calls' = 1 => num = 0)
  BY <1>1, <1>2
<1>6. num = 0 => AllOut' /\ ~cb'
  <2>1. num = 0 => 1..num = {}
    OBVIOUS
  <2> QED  BY <1>1, <2>1, Zenon DEF AllOut
<1>7. calls' <= 1
  BY <1>5
<1> QED  BY <1>1, <1>3, <1>4, <1>5, <1>6, <1>7, Zenon DEF Last, Early

\* A thread that counts itself in finds the pool starting.
LEMMA StartedLast ==
    ASSUME PoolData, TypeOK, InStages, Last, NEW w \in 1..num, w \in Workers, CountStarted(w)
    PROVE  Last'
<1>1. /\ tpc[w] = "pre" /\ tpc' = [tpc EXCEPT ![w] = "started"]
      /\ UNCHANGED <<num, pstatus, ppc, cb, calls>>
  BY Zenon DEF CountStarted, ThreadStep
<1>2. ~AllIn /\ ~AllOut
  BY <1>1, Zenon DEF AllIn, AllOut, Counted, Leaving
<1>3. \A v \in Workers : tpc'[v] # "callback"
  BY <1>1, <1>2, Zenon DEF Last, TypeOK
<1> QED  BY <1>1, <1>2, <1>3, Zenon DEF Last

\* A thread that counts itself out finds that not all are out yet.
LEMMA ExitedLast ==
    ASSUME PoolData, TypeOK, InStages, Last, NEW w \in 1..num, w \in Workers, CountExited(w)
    PROVE  Last'
<1>1. /\ tpc[w] = "post" /\ tpc' = [tpc EXCEPT ![w] = "exiting"]
      /\ nth' = [nth EXCEPT ![w] = exited + 1]
      /\ UNCHANGED <<num, pstatus, ppc, cb, calls>>
  BY Zenon DEF CountExited, ThreadStep
<1>2. ~AllOut
  BY <1>1, Zenon DEF AllOut, Leaving
<1>3. \A v \in Workers : tpc'[v] # "callback"
  BY <1>1, <1>2, Zenon DEF Last, TypeOK
<1>4. AllIn => AllIn'
  <2>1. \A v \in Workers : v # w => tpc'[v] = tpc[v] /\ nth'[v] = nth[v]
    BY <1>1, Zenon DEF TypeOK, PoolData
  <2>2. tpc'[w] = "exiting"
    BY <1>1, Zenon DEF TypeOK
  <2> QED  BY <1>1, <2>1, <2>2, ZenonT(30) DEF AllIn, Counted, PoolData
<1> QED  BY <1>1, <1>2, <1>3, <1>4, Zenon DEF Last

\* Once the count has reached num, every thread of the pool is counted.
LEMMA AllCounted ==
    ASSUME PoolData, NEW steps, \A v \in Workers : tpc[v] \in steps => v \in 1..num,
           NEW w \in Workers, nth[w] = num, NEW n, nth[w] <= n,
           n = Cardinality({v \in Workers : tpc[v] \in steps})
    PROVE  \A v \in 1..num : tpc[v] \in steps
<1>1. {v \in Workers : tpc[v] \in steps} \subseteq 1..num
  BY Zenon
<1>2. num \in Nat /\ num <= Cardinality({v \in Workers : tpc[v] \in steps})
  BY Zenon DEF PoolData
<1>3. {v \in Workers : tpc[v] \in steps} = 1..num
  BY <1>1, <1>2, FullCount, Zenon
<1> QED  BY <1>3, Zenon

\* The thread that was counted last makes the pool running when all are in.
LEMMA OnStartedLast ==
    ASSUME PoolData, TypeOK, Counts, Last, NEW w \in Workers, OnThreadStarted(w),
           \A v \in Workers : tpc[v] \in Counted => v \in 1..num
    PROVE  Last'
<1>1. /\ tpc[w] = "started" /\ tpc' = [tpc EXCEPT ![w] = "loop"]
      /\ pstatus' = IF nth[w] = num THEN "kRunning" ELSE pstatus
      /\ UNCHANGED <<num, nth, ppc, cb, calls>>
  BY Zenon DEF OnThreadStarted, ThreadStep, counters
<1>2. Quiet
  BY DoneCounting, Zenon
<1>3. \A v \in Workers : tpc'[v] = "callback" => tpc[v] = "callback"
  BY <1>1, Zenon DEF TypeOK
<1>4. ASSUME nth[w] = num PROVE AllIn'
  <2>1. /\ nth[w] <= started /\ started = Cardinality({v \in Workers : tpc[v] \in Counted})
        /\ \A v \in Workers : tpc[v] = "started" /\ nth[v] = num => v = w
    BY <1>1, <1>4, Zenon DEF Counts
  <2>2. \A v \in 1..num : tpc[v] \in Counted
    BY <1>4, <2>1, AllCounted, Zenon
  <2>3. tpc'[w] = "loop"
    BY <1>1, Zenon DEF TypeOK
  <2> QED  BY <1>1, <1>2, <2>1, <2>2, <2>3, Zenon DEF AllIn, Quiet, PoolData
<1> QED  BY <1>1, <1>2, <1>3, <1>4, QuietLast, Zenon

\* The thread that was counted out last takes the callback, when all are out.
LEMMA OnExitedLast ==
    ASSUME PoolData, TypeOK, Counts, Last, NEW w \in 1..num, w \in Workers, OnThreadExited(w),
           pstatus \notin {"kNull", "kStarting"}, ppc \notin Early,
           \A v \in Workers : tpc[v] \in Leaving => v \in 1..num
    PROVE  Last'
<1>1. /\ tpc[w] = "exiting"
      /\ tpc' = [tpc EXCEPT ![w] = IF nth[w] = num /\ cb THEN "callback" ELSE "exit"]
      /\ UNCHANGED <<num, nth, ppc, cb, calls>>
  BY Zenon DEF OnThreadExited, ThreadStep, counters
<1>2. Quiet
  BY DoneCounting, Zenon
<1>3. CASE ~(nth[w] = num /\ cb)
  <2>1. \A v \in Workers : tpc'[v] = "callback" => tpc[v] = "callback"
    BY <1>1, <1>3, Zenon DEF TypeOK
  <2> QED  BY <1>1, <1>2, <2>1, QuietLast, Zenon
<1>4. CASE nth[w] = num /\ cb
  <2>1. /\ nth[w] <= exited /\ exited = Cardinality({v \in Workers : tpc[v] \in Leaving})
        /\ \A v \in Workers : tpc[v] = "exiting" /\ nth[v] = num => v = w
    BY <1>1, <1>4, Zenon DEF Counts
  <2>2. \A v \in 1..num : tpc[v] \in Leaving
    BY <1>4, <2>1, AllCounted, Zenon
  <2>3. tpc'[w] = "callback" /\ \A v \in Workers : v # w => tpc'[v] = tpc[v]
    BY <1>1, <1>4, Zenon DEF TypeOK
  <2>4. AllOut'
    BY <1>1, <1>2, <2>1, <2>2, <2>3, Zenon DEF AllOut, Quiet, PoolData
  <2>5. ~AllOut
    BY <1>1, <1>4, Zenon DEF AllOut
  <2>6. \A v \in Workers : tpc[v] # "callback"
    BY <2>5, Zenon DEF Last
  <2>7. \A v \in Workers : tpc'[v] = "callback" => v = w
    BY <2>3, <2>6, Zenon
  <2>8. calls # 1 /\ calls <= 1 /\ calls \in Nat
    BY <1>4, Zenon DEF Last, PoolData
  <2>9. calls' = 0 /\ calls' # 1 /\ calls' <= 1
    BY <1>1, <2>8
  <2>10. AllIn'
    BY <1>1, <1>2, QuietAll, Zenon DEF Last
  <2> QED  BY <1>1, <1>4, <2>4, <2>7, <2>9, <2>10, Zenon DEF Last, Early
<1> QED  BY <1>3, <1>4, Zenon

\* It calls the callback and clears it.
LEMMA CalledLast ==
    ASSUME PoolData, TypeOK, Last, NEW w \in Workers, CallStopped(w), ppc \notin Early
    PROVE  Last'
<1>1. /\ tpc[w] = "callback" /\ tpc' = [tpc EXCEPT ![w] = "exit"]
      /\ UNCHANGED <<num, nth, ppc, pstatus>> /\ cb' = FALSE /\ calls' = calls + 1
  BY Zenon DEF CallStopped, ThreadStep
<1>2. Quiet
  BY DoneCounting, Zenon
<1>3. calls = 0 /\ AllOut /\ \A v \in Workers : tpc[v] = "callback" => v = w
  BY <1>1, Zenon DEF Last
<1>4. \A v \in Workers : tpc'[v] # "callback"
  BY <1>1, <1>3, Zenon DEF TypeOK
<1>5. calls' = 1 /\ calls' <= 1
  BY <1>1, <1>3
<1>6. AllOut' /\ (AllIn => AllIn')
  BY <1>1, <1>2, <1>3, QuietAll, Zenon
<1> QED  BY <1>1, <1>4, <1>5, <1>6, Zenon DEF Last, Early

\* The last thread in and the last thread out are the only ones to act, at every step.
LEMMA LastStep ==
    ASSUME PoolData, TypeOK, Position, InStages, Counts, Last, PoolNext
    PROVE  Last'
<1>1. ASSUME NEW w \in Workers, Moves(w), UNCHANGED poolOnly PROVE Last'
  <2>1. At(Stage(w), w)
    BY Zenon DEF InStages
  <2>2. Quiet /\ \A v \in Workers : tpc'[v] = "callback" => tpc[v] = "callback"
    BY <1>1, <2>1, MovesAreQuiet, Zenon
  <2>3. UNCHANGED <<num, nth, cb, calls, pstatus, ppc>>
    BY <1>1, Zenon DEF poolOnly, counters
  <2> QED  BY <2>2, <2>3, QuietLast, Zenon
<1>2. ASSUME NEW w \in Workers, Counting(w) PROVE Last'
  <2>1. ASSUME NEW v \in Workers
        PROVE  /\ tpc[v] # "none" => v \in 1..num
               /\ tpc[v] \in Leaving => ppc \notin Early
    <3>1. At(Stage(v), v)
      BY Zenon DEF InStages
    <3>2. tpc[v] \in Leaving => tpc[v] # "none" /\ tpc[v] \in {"post"} \cup Leaving
      BY Zenon DEF Leaving
    <3>3. CASE tpc[v] # "none"
      BY <3>1, <3>3, InPool, Zenon DEF Early
    <3> QED  BY <3>2, <3>3, Zenon
  <2>2. \A v \in Workers : tpc[v] \in Counted \/ tpc[v] \in Leaving => v \in 1..num
    BY <2>1, Zenon DEF Counted, Leaving
  <2>3. tpc[w] \in Leaving => pstatus \notin {"kNull", "kStarting"}
    BY <2>1, Zenon DEF Position, Early
  <2>4. CASE CountStarted(w) \/ CountExited(w)
    <3>1. tpc[w] # "none"
      BY <2>4, Zenon DEF CountStarted, CountExited, ThreadStep
    <3> QED  BY <2>1, <2>4, <3>1, StartedLast, ExitedLast, Zenon
  <2>5. CASE OnThreadStarted(w)
    BY <2>2, <2>5, OnStartedLast, Zenon
  <2>6. CASE OnThreadExited(w)
    <3>1. tpc[w] \in Leaving
      BY <2>6, Zenon DEF OnThreadExited, ThreadStep, Leaving
    <3> QED  BY <2>1, <2>2, <2>3, <2>6, <3>1, OnExitedLast, ZenonT(30)
  <2>7. CASE CallStopped(w)
    <3>1. tpc[w] \in Leaving
      BY <2>7, Zenon DEF CallStopped, ThreadStep, Leaving
    <3> QED  BY <2>1, <2>7, <3>1, CalledLast, ZenonT(30)
  <2> QED  BY <1>2, <2>4, <2>5, <2>6, <2>7, Zenon DEF Counting
<1>3. CASE OwnerCall \/ OwnerAlone \/ ClearThreads \/ \E u \in Users : UserMoves(u)
  BY <1>3, OwnerLast, StopLast, Zenon
<1> QED  BY <1>1, <1>2, <1>3, PoolCases, Zenon

-----------------------------------------------------------------------------
(* Join() and the destruction of the objects.                              *)

\* A step on one object gives up its thread_ at the end of the owner's join() alone.
LEMMA MovesJoin ==
    ASSUME TypeOK, NEW w \in Workers, NEW g, At(g, w), Moves(w)
    PROVE  /\ thread'[w] = thread[w] \/ ~thread'[w]
           /\ g = "told" /\ opc'[w].at = "idle" => opc[w].at = "idle" \/ ~thread'[w]
<1> USE DEF TypeOK
<1>1. CASE EnterLoop(w) \/ SetRunning(w) \/ LeaveLoop(w) \/ SetStopped(w)
  BY <1>1, Zenon DEF EnterLoop, SetRunning, LeaveLoop, SetStopped, ownerVars
<1>2. CASE StartReturns(w) \/ StopAsserts(w) \/ StopStores(w) \/ StopLoop(w) \/ OwnerLocks(w)
  <2>1. thread' = thread
    BY <1>2, Zenon DEF StartReturns, StopAsserts, StopStores, StopLoop, OwnerLocks
  <2>2. g = "told" => opc[w].at \in {"idle", "join", "joining", "destroyed"}
    BY Zenon DEF At, InStage
  <2>3. CASE StartReturns(w) \/ StopAsserts(w) \/ StopStores(w) \/ StopLoop(w)
    <3>1. opc[w].at \in {"starting", "stop", "store", "stoploop"}
      BY <2>3, Zenon DEF StartReturns, StopAsserts, StopStores, StopLoop, OwnerStep
    <3> QED  BY <2>1, <2>2, <3>1, ZenonT(30)
  <2>4. CASE OwnerLocks(w)
    <3>1. opc'[w].at = "joining"
      BY <2>4, Zenon DEF OwnerLocks, OwnerStep
    <3> QED  BY <2>1, <3>1, Zenon
  <2> QED  BY <1>2, <2>3, <2>4, Zenon
<1>3. CASE OwnerJoins(w)
  BY <1>3, Zenon DEF OwnerJoins, JoinThread
<1> QED  BY <1>1, <1>2, <1>3, Zenon DEF Moves

\* A thread_ that Join() has passed is given up, and its thread gone.
LEMMA JoinedStep ==
    ASSUME PoolData, TypeOK, Position, Last, InStages, Joined, PoolNext,
           \A w \in 1..num :
             ppc = "stop" /\ w = i => loop[w] = "kRunning" /\ tpc[w] \in {"started", "loop"}
    PROVE  Joined'
<1>0. num \in Nat /\ 1..num \subseteq Workers /\ num' = num
  BY Zenon DEF PoolData, PoolNext, PoolContinues, WorkerContinues, ObjectContinues,
     UserContinues, StartThread, StopThread, ThreadJoin, PoolStart, PoolStop, PushThread,
     SawRunning, ThreadStopReturns, SawAllStopped, StoreStopped, PoolJoin, ThreadJoinReturns,
     ClearThreads, GetNextLoop, GetNextLoopWithHash, SeesThreads, FetchNext, HashIndex,
     ReturnLoop, poolOnly, CountStarted, OnThreadStarted, CountExited, OnThreadExited,
     CallStopped
<1>1. ASSUME NEW w \in Workers, Moves(w), UNCHANGED poolOnly PROVE Joined'
  <2>1. ObjectNext(w) /\ \A v \in Workers : v # w => Same(v)
    BY <1>1, MovesAreObjects, OthersStay, Zenon
  <2>2. Gone(thread[w], tpc[w], opc[w].at)'
    BY <2>1, ObjectGone, Zenon DEF Joined
  <2>3. \A v \in Workers : Gone(thread'[v], tpc'[v], opc'[v].at)
    BY <2>1, <2>2, Zenon DEF Joined, Same
  <2>4. UNCHANGED <<num, ppc, i>>
    BY <1>1, Zenon DEF poolOnly
  <2>5. ASSUME NEW v \in 1..num, v # w, Passed(v)' PROVE ~thread'[v]
    BY <1>0, <2>1, <2>4, <2>5, Zenon DEF Joined, Passed, Same
  <2>6. ASSUME w \in 1..num, Passed(w)' PROVE ~thread'[w]
    <3>1. At(Stage(w), w)
      BY Zenon DEF InStages
    <3>2. CASE Passed(w)
      BY <1>1, <2>6, <3>1, <3>2, MovesJoin, Zenon DEF Joined
    <3>3. CASE ~Passed(w)
      <4>1. ppc = "joining" /\ w = i /\ opc'[w].at = "idle" /\ opc[w].at # "idle"
        BY <2>4, <2>6, <3>3, Zenon DEF Passed
      <4>2. ~(w > num)
        BY <1>0, <2>6
      <4>3. Stage(w) = "told"
        BY <4>1, <4>2, Zenon DEF Stage
      <4> QED  BY <1>1, <3>1, <4>1, <4>3, MovesJoin, Zenon
    <3> QED  BY <3>2, <3>3, Zenon
  <2> QED  BY <2>3, <2>4, <2>5, <2>6, Zenon DEF Joined
<1>2. ASSUME NEW w \in Workers, Counting(w) PROVE Joined'
  <2>1. /\ \A v \in Workers : v # w => Same(v)
        /\ UNCHANGED <<thread, opc>>
    BY <1>2, CountingObjects, Zenon DEF ownerVars
  <2>2. UNCHANGED <<num, ppc, i>>
    BY <1>2, CountingPool, Zenon DEF InStages
  <2>3. tpc[w] \notin {"none", "exited"}
    BY <1>2, Zenon DEF Counting, CountStarted, OnThreadStarted, CountExited, OnThreadExited,
       CallStopped,
       ThreadStep
  <2>4. \A v \in Workers : Gone(thread'[v], tpc'[v], opc'[v].at)
    BY <2>1, <2>3, Zenon DEF Joined, Same, Gone
  <2> QED  BY <2>1, <2>2, <2>4, Zenon DEF Joined, Passed
<1>3. CASE OwnerCall
  <2>1. PICK w \in 1..num : ObjectNext(w) /\ \A v \in Workers : v # w => Same(v)
    BY <1>3, OwnerCallsObject, OthersStay, Zenon DEF PoolData
  <2>3. \A v \in Workers : Gone(thread'[v], tpc'[v], opc'[v].at)
    BY <1>0, <2>1, ObjectGone, Zenon DEF Joined, Same
  <2>4. CASE StartThread \/ StopThread
    <3>1. ppc' \in {"push", "stopping"}
      BY <2>4, Zenon DEF StartThread, StopThread, PoolStep
    <3> QED  BY <2>3, <3>1, Zenon DEF Joined, Passed
  <2>5. CASE ThreadJoin
    <3>1. ppc = "join" /\ ppc' = "joining" /\ UNCHANGED <<num, i, thread>>
      BY <2>5, Zenon DEF ThreadJoin, PoolStep, OwnerCallsJoin
    <3>2. threads[i] = i /\ i \in Workers
      BY <3>1 DEF Position, PoolData
    <3>3. opc'[i].at = "join"
      BY <2>5, <3>2, Zenon DEF ThreadJoin, OwnerCallsJoin, OwnerStep, TypeOK
    <3> QED  BY <2>3, <3>1, <3>3, Zenon DEF Joined, Passed
  <2> QED  BY <1>3, <2>4, <2>5, Zenon DEF OwnerCall
<1>4. CASE OwnerAlone \/ \E u \in Users : UserMoves(u)
  <2>1. UNCHANGED vars
    BY <1>4, AloneLeavesObjects, Zenon
  <2>2. \A v \in Workers : Gone(thread'[v], tpc'[v], opc'[v].at)
    BY <2>1, Zenon DEF vars, Joined
  <2>3. CASE ThreadJoinReturns
    <3>1. /\ ppc = "joining" /\ ppc' = (IF i < Len(threads) THEN "join" ELSE "clear")
          /\ i' = i + 1 /\ opc[threads[i]].at = "idle"
      BY <2>3, Zenon DEF ThreadJoinReturns, PoolStep
    <3>2. i \in 1..num /\ Len(threads) = num /\ threads[i] = i
      BY <3>1, SMTT(30) DEF Position
    <3>3. ASSUME NEW w \in 1..num PROVE Passed(w)' => w < i \/ w = i
      BY <3>1, <3>2 DEF Passed
    <3> QED  BY <1>0, <2>1, <2>2, <3>1, <3>2, <3>3, ZenonT(30) DEF Joined, Passed, vars
  <2>4. CASE PoolJoin
    <3>1. /\ ppc = "stopped" /\ i' = 1 /\ ppc' = (IF threads = <<>> THEN "done" ELSE "join")
      BY <2>4, Zenon DEF PoolJoin, PoolStep
    <3>2. Len(threads) = num
      BY <3>1, Zenon DEF Position
    <3>3. ASSUME NEW w \in 1..num PROVE ~Passed(w)'
      BY <3>1, <3>2 DEF Passed
    <3> QED  BY <1>0, <2>2, <3>3, Zenon DEF Joined
  <2>5. CASE (OwnerAlone /\ ~ThreadJoinReturns /\ ~PoolJoin) \/ \E u \in Users : UserMoves(u)
    <3>1. \/ ppc' \notin {"join", "joining", "clear", "done"}
          \/ ppc' = ppc /\ i' = i
      BY <2>5, Zenon DEF OwnerAlone, UserMoves, PoolStart, PoolStop, PushThread, SawRunning,
         ThreadStopReturns, SawAllStopped, StoreStopped, PoolStep, GetNextLoop, GetNextLoopWithHash,
         SeesThreads, UserContinues, FetchNext, HashIndex, ReturnLoop
    <3> QED  BY <1>0, <2>1, <2>2, <3>1, ZenonT(30) DEF Joined, Passed, vars
  <2> QED  BY <1>4, <2>3, <2>4, <2>5, Zenon
<1>5. CASE ClearThreads
  <2>1. ppc = "clear" /\ ppc' = "done" /\ UNCHANGED <<thread, tpc>>
    BY <1>5, Zenon DEF ClearThreads, PoolStep
  <2>2. \A v \in 1..num : ~thread[v]
    BY <2>1, Zenon DEF Joined, Passed
  <2>3. ASSUME NEW v \in Workers PROVE Gone(thread'[v], tpc'[v], opc'[v].at)
    <3>1. v \in 1..num => opc'[v].at = "destroyed"
      BY <1>5, Cleared
    <3>2. v \notin 1..num => opc'[v] = opc[v]
      BY <1>5, Cleared, Zenon
    <3> QED  BY <2>1, <2>2, <3>1, <3>2, ZenonT(30) DEF Joined, Gone
  <2> QED  BY <1>0, <2>1, <2>2, <2>3, Zenon DEF Joined
<1> QED  BY <1>1, <1>2, <1>3, <1>4, <1>5, PoolCases, ZenonT(30)

-----------------------------------------------------------------------------
(* The users of GetNextLoop.                                               *)

UserIn(u) ==
    /\ upc[u] # "idle" => num > 0 /\ pstatus # "kNull" /\ ppc \in Used
    /\ upc[u] = "index" => index[u] < num

\* A user who came between Start() and Join() finds threads_ full.
LEMMA UsersStep ==
    ASSUME PoolData, Position, Last, InStages, UserInv, PoolNext
    PROVE  UserInv'
<1> SUFFICES ASSUME ~UsersRace PROVE UserInv'
  BY Zenon DEF UserInv
<1>0. \A u \in Users : UserIn(u)
  BY Zenon DEF UserInv, UserIn
<1>1. ASSUME NEW w \in Workers, Moves(w), UNCHANGED poolOnly PROVE UserInv'
  BY <1>0, <1>1, Zenon DEF UserInv, UserIn, poolOnly, userVars
<1>2. ASSUME NEW w \in Workers, Counting(w) PROVE UserInv'
  <2>1. UNCHANGED <<num, ppc, userVars>> /\ pstatus' # "kNull"
    BY <1>2, CountingPool, Zenon DEF InStages
  <2> QED  BY <1>0, <2>1, Zenon DEF UserInv, UserIn, userVars
<1>3. CASE OwnerCall \/ OwnerAlone \/ ClearThreads
  <2>1. UNCHANGED <<num, upc, index>>
    BY <1>3, Zenon DEF OwnerCall, OwnerAlone, ClearThreads, StartThread, StopThread,
       ThreadJoin, PoolStart, PoolStop, PushThread, SawRunning, ThreadStopReturns, SawAllStopped,
       StoreStopped, PoolJoin, ThreadJoinReturns, userVars
  <2>2. CASE PoolJoin
    BY <1>0, <2>1, <2>2, Zenon DEF PoolJoin, UserInv, UserIn
  <2>3. CASE ~PoolJoin /\ pstatus # "kNull" /\ ppc \in Used
    <3>1. pstatus' # "kNull" /\ ppc' \in Used
      BY <1>3, <2>3, Zenon DEF OwnerCall, OwnerAlone, ClearThreads, StartThread, StopThread,
         ThreadJoin, PoolStart, PoolStop, PushThread, SawRunning, ThreadStopReturns, SawAllStopped,
         StoreStopped, ThreadJoinReturns, PoolStep, Used
    <3> QED  BY <1>0, <2>1, <3>1, Zenon DEF UserInv, UserIn
  <2>4. CASE pstatus = "kNull" \/ ppc \notin Used
    <3>1. \A u \in Users : upc[u] = "idle"
      BY <1>0, <2>4, Zenon DEF UserIn
    <3> QED  BY <2>1, <3>1, Zenon DEF UserInv, UserIn
  <2> QED  BY <2>2, <2>3, <2>4, Zenon
<1>4. ASSUME NEW u \in Users, UserMoves(u) PROVE UserInv'
  <2>1. UNCHANGED <<num, pstatus, ppc, threads>>
    BY <1>4, Zenon DEF UserMoves, GetNextLoop, GetNextLoopWithHash, SeesThreads, UserContinues,
       FetchNext, HashIndex, ReturnLoop
  <2>2. ASSUME NEW v \in Users, v # u PROVE upc'[v] = upc[v] /\ index'[v] = index[v]
    BY <1>4, <2>2, Zenon DEF UserMoves, GetNextLoop, GetNextLoopWithHash, SeesThreads,
       UserContinues,
       FetchNext, HashIndex, ReturnLoop, UserStep, PoolData
  <2>3. UserIn(u)'
    <3>1. CASE GetNextLoop(u) \/ GetNextLoopWithHash(u)
      <4>1. ppc = "idle" /\ pstatus = "kRunning" /\ threads # <<>> /\ upc'[u] \in {"fetch", "hash"}
        BY <3>1, Zenon DEF GetNextLoop, GetNextLoopWithHash, SeesThreads, UserStep, PoolData
      <4>2. Len(threads) = num
        BY <4>1, Zenon DEF Position
      <4>3. num > 0
        BY <4>1, <4>2 DEF PoolData
      <4> QED  BY <2>1, <4>1, <4>3, Zenon DEF UserIn, Used
    <3>2. ASSUME NEW n \in Nat,
                 upc[u] # "idle" /\ upc'[u] = "index",
                 index' = [index EXCEPT ![u] = IF threads = <<>> THEN 0 ELSE n % Len(threads)]
          PROVE  UserIn(u)'
      <4>1. num > 0 /\ pstatus # "kNull" /\ ppc \in Used
        BY <1>0, <3>2, Zenon DEF UserIn
      <4>2. Len(threads) = num
        BY <4>1, Zenon DEF Position, Used
      <4>3. n % num < num
        BY <4>1 DEF PoolData
      <4>4. threads # <<>>
        BY <4>1, <4>2 DEF PoolData
      <4>5. index'[u] = n % num
        BY <3>2, <4>2, <4>4, Zenon DEF PoolData
      <4> QED  BY <2>1, <4>1, <4>3, <4>5, Zenon DEF UserIn
    <3>3. CASE FetchNext(u)
      BY <3>2, <3>3, Zenon DEF FetchNext, UserStep, PoolData
    <3>4. ASSUME NEW hash \in Hashes, HashIndex(u, hash) PROVE UserIn(u)'
      BY <3>2, <3>4, PoolAssumption, Zenon DEF HashIndex, UserStep, PoolData
    <3>5. CASE ReturnLoop(u)
      BY <3>5, Zenon DEF ReturnLoop, UserStep, PoolData, UserIn
    <3> QED  BY <1>4, <3>1, <3>3, <3>4, <3>5, Zenon DEF UserMoves, UserContinues
  <2>4. ASSUME NEW v \in Users, v # u PROVE UserIn(v)'
    BY <1>0, <2>1, <2>2, <2>4, Zenon DEF UserIn
  <2> QED  BY <2>3, <2>4, Zenon DEF UserInv, UserIn
<1> QED  BY <1>1, <1>2, <1>3, <1>4, PoolCases, Zenon

-----------------------------------------------------------------------------
\* The owner comes to stop a thread that has been counted in and that nobody has told.
LEMMA StopsServing ==
    ASSUME PoolData, InStages, Position, Last
    PROVE  \A w \in 1..num :
             ppc = "stop" /\ w = i => loop[w] = "kRunning" /\ tpc[w] \in {"started", "loop"}
<1> SUFFICES ASSUME NEW w \in 1..num, ppc = "stop", w = i
             PROVE  loop[w] = "kRunning" /\ tpc[w] \in {"started", "loop"}
  BY Zenon
<1>1. ~(w > num) /\ ~(w < i) /\ w \in Workers
  BY DEF PoolData
<1>2. Stage(w) = "serving"
  BY <1>1, Zenon DEF Stage
<1>3. At("serving", w)
  BY <1>1, <1>2, Zenon DEF InStages
<1>4. tpc[w] \in Counted
  BY Zenon DEF Position, Last, AllIn
<1> QED  BY <1>3, <1>4, Zenon DEF At, InStage, Serving, Counted

PoolReach == PoolData /\ TypeOK /\ PoolInv

\* A pool as its constructor leaves it.
LEMMA PoolInitReach ==
    ASSUME PoolInit
    PROVE  PoolReach
<1>1. TypeOK /\ ~aborted
  BY InitTypeOK, Zenon DEF PoolInit, Init
<1>2. PoolData
  BY PoolAssumption DEF PoolInit, PoolData
<1>3. \A w \in Workers :
        /\ tpc[w] = "none" /\ status[w] = "kNull" /\ loop[w] = "kInitialized"
        /\ opc[w].at = "idle" /\ ~thread[w]
  BY Zenon DEF PoolInit, Init, Idle
<1>4. InStages
  BY <1>3, Zenon DEF InStages, Stage, PoolInit, At, InStage
<1>5. Position
  BY DEF Position, PoolInit
<1>6. Counts
  <2>1. {w \in Workers : tpc[w] \in Counted} = {} /\ {w \in Workers : tpc[w] \in Leaving} = {}
    BY <1>3, Zenon DEF Counted, Leaving
  <2>2. Cardinality({}) = 0
    BY FS_EmptySet, Zenon
  <2> QED  BY <1>3, <2>1, <2>2, Zenon DEF Counts, PoolInit
<1>7. Last
  <2>1. 0 <= 1 /\ 0 # 1
    OBVIOUS
  <2> QED  BY <1>3, <2>1, Zenon DEF Last, PoolInit
<1>8. Joined
  BY <1>3, Zenon DEF Joined, Passed, Gone, PoolInit
<1>9. UserInv
  BY Zenon DEF UserInv, PoolInit
<1> QED  BY <1>1, <1>2, <1>4, <1>5, <1>6, <1>7, <1>8, <1>9, ZenonT(30) DEF PoolReach, PoolInv

\* The inductive invariant is kept by every step of the pool.
LEMMA PoolReachStep ==
    ASSUME PoolReach, [PoolNext]_poolVars
    PROVE  PoolReach'
<1>1. CASE PoolNext
  <2>1. PoolData /\ TypeOK /\ ~aborted /\ InStages /\ Position /\ Counts /\ Last /\ Joined /\ UserInv
    BY Zenon DEF PoolReach, PoolInv
  <2>2. \A w \in 1..num :
          ppc = "stop" /\ w = i => loop[w] = "kRunning" /\ tpc[w] \in {"started", "loop"}
    BY <2>1, StopsServing, Zenon
  <2>3. PoolData' /\ TypeOK' /\ Position'
    BY <1>1, <2>1, <2>2, PoolDataStep, PoolObjectsTyped, PositionStep, ZenonT(30)
  <2>4. ~aborted' /\ InStages' /\ Counts' /\ Last'
    BY <1>1, <2>1, <2>2, StagesStep, CountsStep, LastStep, Zenon
  <2>5. Joined' /\ UserInv'
    BY <1>1, <2>1, <2>2, JoinedStep, UsersStep, Zenon
  <2> QED  BY <2>3, <2>4, <2>5, Zenon DEF PoolReach, PoolInv
<1>2. CASE UNCHANGED poolVars
  <2>1. UNCHANGED vars /\ UNCHANGED poolOnly
    BY <1>2, Zenon DEF poolVars
  <2>2. PoolData' /\ TypeOK' /\ ~aborted' /\ Position' /\ UserInv'
    BY <2>1, Zenon DEF vars, poolOnly, counters, userVars, PoolReach, PoolInv, PoolData, TypeOK,
       Position, UserInv
  <2>3. InStages' /\ Joined'
    BY <2>1, ZenonT(30) DEF vars, poolOnly, PoolReach, PoolInv, InStages, At, Stage, Joined, Passed
  <2>4. Counts' /\ Last'
    BY <2>1, Zenon DEF vars, poolOnly, counters, PoolReach, PoolInv, Counts, Last, AllIn, AllOut
  <2> QED  BY <2>2, <2>3, <2>4, Zenon DEF PoolReach, PoolInv
<1> QED  BY <1>1, <1>2, Zenon

\* The inductive invariant holds in every reachable state of a pool.
LEMMA PoolInvariant == PoolSpec => []PoolReach
<1>1. PoolInit => PoolReach
  BY PoolInitReach, Zenon
<1>2. PoolReach /\ [PoolNext]_poolVars => PoolReach'
  BY PoolReachStep, Zenon
<1> QED  BY <1>1, <1>2, PTL DEF PoolSpec

\* The assert of EventLoopThread::Stop() holds whenever the pool stops its threads, with any
\* number of them, whether or not the owner waits in Start() and in Stop().
THEOREM PoolAssertsHold == PoolSpec => []AssertsHold
<1>1. PoolReach => AssertsHold
  BY Zenon DEF PoolReach, PoolInv, AssertsHold
<1> QED  BY <1>1, PoolInvariant, PTL

\* The stopped callback comes after the last loop has stopped and the last thread has
\* counted itself out.
THEOREM CallbackIsLast == PoolSpec => []CallbackAfterLastLoop
<1>1. PoolReach => CallbackAfterLastLoop
  <2> SUFFICES ASSUME PoolReach, calls > 0, NEW w \in 1..num
               PROVE  loop[w] = "kStopped" /\ exited = num
    BY Zenon DEF CallbackAfterLastLoop
  <2>1. PoolData /\ InStages /\ Position /\ Counts /\ Last
    BY Zenon DEF PoolReach, PoolInv
  <2>2. calls = 1
    BY <2>1 DEF PoolData, Last
  <2>3. AllOut
    BY <2>1, <2>2, Zenon DEF Last
  <2>4. w \in Workers /\ tpc[w] \in Leaving
    BY <2>1, <2>3, Zenon DEF AllOut, PoolData
  <2>5. At(Stage(w), w)
    BY <2>1, <2>4, Zenon DEF InStages
  <2>6. loop[w] = "kStopped"
    BY <2>4, <2>5, Zenon DEF At, InStage, Serving, Told, Leaving
  <2>7. {v \in Workers : tpc[v] \in Leaving} = 1..num
    <3>1. ASSUME NEW v \in Workers, tpc[v] \in Leaving PROVE v \in 1..num
      <4>1. tpc[v] # "none" /\ At(Stage(v), v)
        BY <2>1, <3>1, Zenon DEF Leaving, InStages
      <4> QED  BY <2>1, <4>1, InPool, Zenon
    <3> QED  BY <2>1, <2>3, <3>1, Zenon DEF AllOut, PoolData
  <2>8. num \in Nat /\ Cardinality(1..num) = num
    BY <2>1, FS_Interval DEF PoolData
  <2> QED  BY <2>1, <2>6, <2>7, <2>8, Zenon DEF Counts
<1> QED  BY <1>1, PoolInvariant, PTL

\* It comes at most once.
CallbackOnce == calls \in {0, 1}

THEOREM CallbackComesOnce == PoolSpec => []CallbackOnce
<1>1. PoolReach => CallbackOnce
  BY SMTT(30) DEF PoolReach, PoolInv, PoolData, Last, CallbackOnce
<1> QED  BY <1>1, PoolInvariant, PTL

\* A pool that IsRunning() has all its threads in their loops.
THEOREM RunningIsStarted == PoolSpec => []RunningMeansStarted
<1>1. PoolReach => RunningMeansStarted
  <2> SUFFICES ASSUME PoolReach, pstatus = "kRunning", NEW w \in 1..num
               PROVE  status[w] = "kRunning" /\ loop[w] = "kRunning" /\ preRan[w]
    BY Zenon DEF RunningMeansStarted
  <2>1. PoolData /\ InStages /\ Position /\ Last
    BY Zenon DEF PoolReach, PoolInv
  <2>2. ppc \in Early
    BY <2>1, Zenon DEF Position, Early
  <2>3. w \in Workers /\ tpc[w] \in Counted
    BY <2>1, Zenon DEF Last, AllIn, PoolData
  <2>4. At(Stage(w), w)
    BY <2>1, <2>3, Zenon DEF InStages
  <2>5. Stage(w) # "told" /\ Stage(w) # "stopping"
    BY <2>2, Zenon DEF Stage, Early
  <2> QED  BY <2>3, <2>4, <2>5, Zenon DEF At, InStage, Serving, Counted
<1> QED  BY <1>1, PoolInvariant, PTL

\* GetNextLoop indexes threads_ within its bounds as long as the users call between the
\* owner's Start() and Join().
THEOREM IndexesInRange ==
    ASSUME ~UsersRace
    PROVE  PoolSpec => []IndexInRange
<1>1. PoolReach => IndexInRange
  <2> SUFFICES ASSUME PoolReach, NEW u \in Users, upc[u] = "index"
               PROVE  index[u] < Len(threads)
    BY Zenon DEF IndexInRange
  <2>1. Position /\ UserInv
    BY Zenon DEF PoolReach, PoolInv
  <2>2. index[u] < num /\ pstatus # "kNull" /\ ppc \in Used
    BY <2>1, Zenon DEF UserInv
  <2>3. Len(threads) = num
    BY <2>1, <2>2, Zenon DEF Position, Used
  <2> QED  BY <2>2, <2>3, Zenon
<1> QED  BY <1>1, PoolInvariant, PTL

\* Join() destroys the objects of the pool after their threads.
THEOREM PoolNoUseAfterDestroy == PoolSpec => []NoUseAfterDestroy
<1>1. PoolReach => NoUseAfterDestroy
  BY Zenon DEF PoolReach, PoolInv, Joined, Gone, NoUseAfterDestroy
<1> QED  BY <1>1, PoolInvariant, PTL
=============================================================================
