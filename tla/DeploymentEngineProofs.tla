------------------------ MODULE DeploymentEngineProofs ------------------------
(***************************************************************************)
(* DeploymentService implements DeploymentEngine, for every value of its   *)
(* constants.                                                              *)
(***************************************************************************)
EXTENDS DeploymentServiceProofs

Owner(c) == IF callPC[c] = "accepted" THEN dep[c].app ELSE None

\* The initial states of the service are initial states of the engine.
LEMMA EngineInit == Init => Engine!Init
<1> SUFFICES ASSUME Init
             PROVE  Engine!Init
  OBVIOUS
<1>1. \A c \in Calls : EngineStage(c) = "none"
  BY DEF Init, EngineStage
<1> QED
  BY <1>1 DEF Init, Engine!Init

\* A step that changes the stage and the owner of no deployment is a stutter.
LEMMA EngineStutter ==
    ASSUME \A c \in Calls : EngineStage(c)' = EngineStage(c) /\ Owner(c)' = Owner(c)
    PROVE  UNCHANGED Engine!engineVars
BY DEF Owner, Engine!engineVars

\* A step that leaves the jobs where they are is a stutter.
LEMMA EngineFrame ==
    ASSUME JobsStay
    PROVE  UNCHANGED Engine!engineVars
<1>1. ASSUME NEW c \in Calls
      PROVE  EngineStage(c)' = EngineStage(c) /\ Owner(c)' = Owner(c)
  <2>1. /\ InQueue(c)' <=> InQueue(c)
        /\ Held(c)' <=> Held(c)
        /\ BeingRun(c)' <=> BeingRun(c)
    BY DEF JobsStay, InQueue, Held, BeingRun
  <2> QED
    BY <2>1 DEF JobsStay, EngineStage, Owner
<1> QED
  BY <1>1, EngineStutter

\* SendJob accepts: the call had no stage, and its job now waits.
LEMMA EngineAccepts ==
    ASSUME IInv, NEW c \in Calls, SendJob(c)
    PROVE  \E a \in Apps : Engine!Accept(c, a)
<1>1. /\ callPC[c] = "sending" /\ callPC' = [callPC EXCEPT ![c] = "accepted"]
      /\ callPC \in [Calls -> CallPCs] /\ jobQueue \in Seq(Calls)
      /\ jobQueue' = Append(jobQueue, c)
      /\ UNCHANGED <<dep, workerPC, workerJob>>
  BY DEF SendJob, CallMoves, workerVars, IInv, Typed, TypeOK
<1>2. PICK a \in Apps : a = dep[c].app
  BY <1>1 DEF IInv, JobsOK, UnderWay
<1>3. \A d \in Calls : BeingRun(d)' <=> BeingRun(d)
  BY <1>1 DEF BeingRun
<1>4. \A d \in Calls : Held(d)' <=> Held(d)
  BY <1>1 DEF Held
<1>5. \A d \in Calls : d # c => (InQueue(d)' <=> InQueue(d))
  BY <1>1 DEF InQueue
<1>6. InQueue(c)'
  <2>1. Len(jobQueue') = Len(jobQueue) + 1 /\ jobQueue'[Len(jobQueue) + 1] = c
    BY <1>1
  <2>2. Len(jobQueue) + 1 \in 1..Len(jobQueue')
    BY <1>1, <2>1
  <2> QED
    BY <2>1, <2>2 DEF InQueue
<1>7. ~ BeingRun(c)
  BY <1>1, ConstantsAssumption DEF IInv, JobsOK, BeingRun
<1>8. EngineStage(c) = "none" /\ EngineStage(c)' = "waiting"
  BY <1>1, <1>3, <1>6, <1>7 DEF EngineStage
<1>9. \A d \in Calls : d # c => EngineStage(d)' = EngineStage(d)
  BY <1>1, <1>3, <1>4, <1>5 DEF EngineStage
<1> QED
  BY <1>1, <1>2, <1>8, <1>9 DEF Engine!Accept

\* TakeJob moves a waiting job from one place to the other.
LEMMA EngineTakes ==
    ASSUME IInv, NEW w \in Workers, TakeJob(w)
    PROVE  UNCHANGED Engine!engineVars
<1> DEFINE q == jobQueue
<1>1. /\ q \in Seq(Calls) /\ q # <<>> /\ q' = Tail(q)
      /\ workerPC \in [Workers -> WorkerPCs] /\ workerJob \in [Workers -> Calls \cup {None}]
      /\ workerPC[w] = "idle" /\ workerPC' = [workerPC EXCEPT ![w] = "locking"]
      /\ workerJob' = [workerJob EXCEPT ![w] = q[1]]
      /\ UNCHANGED <<callPC, dep>>
  BY DEF TakeJob, WorkerMoves, callVars, IInv, Typed, TypeOK
<1>2. /\ q[1] \in Calls /\ 1 \in 1..Len(q) /\ Len(q') = Len(q) - 1 /\ Len(q) \in Nat
      /\ \A n \in 1..Len(q') : n + 1 \in 1..Len(q) /\ q'[n] = q[n + 1]
      /\ \A n \in 1..Len(q) : n = 1 \/ (n - 1 \in 1..Len(q') /\ q'[n - 1] = q[n])
  BY <1>1
<1>3. workerJob[w] = None
  BY <1>1 DEF IInv, JobsOK, LockedPCs
<1> SUFFICES ASSUME NEW c \in Calls
             PROVE  EngineStage(c)' = EngineStage(c) /\ Owner(c)' = Owner(c)
  BY EngineStutter
<1>4. BeingRun(c)' <=> BeingRun(c)
  <2>1. \A v \in Workers : workerPC'[v] \in LockedPCs <=> workerPC[v] \in LockedPCs
    BY <1>1 DEF LockedPCs
  <2>2. \A v \in Workers : workerPC[v] \in LockedPCs => workerJob'[v] = workerJob[v]
    BY <1>1 DEF LockedPCs
  <2> QED
    BY <2>1, <2>2 DEF BeingRun
<1>5. InQueue(c)' \/ Held(c)' <=> InQueue(c) \/ Held(c)
  <2>1. CASE c = q[1]
    BY <1>1, <1>2, <2>1 DEF InQueue, Held
  <2>2. CASE c # q[1]
    <3>1. InQueue(c)' <=> InQueue(c)
      BY <1>2, <2>2 DEF InQueue
    <3>2. Held(c)' <=> Held(c)
      BY <1>1, <1>3, <2>2, ConstantsAssumption DEF Held
    <3> QED
      BY <3>1, <3>2
  <2> QED
    BY <2>1, <2>2
<1> QED
  BY <1>1, <1>4, <1>5 DEF EngineStage, Owner

\* LockApp begins: no deployment of the application is running, for its mutex
\* would be taken.
LEMMA EngineBegins ==
    ASSUME IInv, NEW w \in Workers, LockApp(w)
    PROVE  \E c \in Calls : Engine!Begin(c)
<1>1. /\ workerPC \in [Workers -> WorkerPCs]
      /\ workerPC[w] = "locking" /\ workerPC' = [workerPC EXCEPT ![w] = "opening"]
      /\ appLock[dep[workerJob[w]].app] = None
      /\ UNCHANGED <<callPC, dep, jobQueue, workerJob>>
  BY DEF LockApp, WorkerMoves, callVars, IInv, Typed, TypeOK
<1>2. PICK c \in Calls : c = workerJob[w] /\ c # None
  BY <1>1, ConstantsAssumption DEF IInv, Typed, WorkersHaveJobs
<1>3. callPC[c] = "accepted" /\ \A v \in Workers : v # w => workerJob[v] # c
  BY <1>2 DEF IInv, JobsOK
<1>4. ~ BeingRun(c) /\ Held(c) /\ BeingRun(c)'
  BY <1>1, <1>2, <1>3 DEF BeingRun, Held, LockedPCs
<1>5. EngineStage(c) = "waiting" /\ EngineStage(c)' = "running"
  BY <1>1, <1>3, <1>4 DEF EngineStage
<1>6. \A d \in Calls : d # c => EngineStage(d)' = EngineStage(d)
  <2> SUFFICES ASSUME NEW d \in Calls, d # c
               PROVE  EngineStage(d)' = EngineStage(d)
    OBVIOUS
  <2>1. BeingRun(d)' <=> BeingRun(d)
    BY <1>1, <1>2 DEF BeingRun, LockedPCs
  <2>2. (InQueue(d)' <=> InQueue(d)) /\ (Held(d)' <=> Held(d))
    BY <1>1 DEF InQueue, Held
  <2> QED
    BY <1>1, <2>1, <2>2 DEF EngineStage
<1>7. ASSUME NEW d \in Calls, EngineStage(d) = "running"
      PROVE  Owner(d) # Owner(c)
  <2>1. callPC[d] = "accepted" /\ BeingRun(d)
    BY <1>7 DEF EngineStage
  <2>2. PICK v \in Workers : workerJob[v] = d /\ workerPC[v] \in LockedPCs
    BY <2>1 DEF BeingRun
  <2>3. appLock[dep[d].app] = v /\ v # None
    BY <2>2, ConstantsAssumption DEF IInv, HolderOK
  <2> QED
    BY <1>1, <1>2, <1>3, <2>1, <2>3 DEF Owner
<1> QED
  BY ZenonT(60), <1>1, <1>2, <1>5, <1>6, <1>7 DEF Engine!Begin, Owner

\* FinishJob finishes: the job is in no other place.
LEMMA EngineFinishes ==
    ASSUME IInv, NEW w \in Workers, FinishJob(w)
    PROVE  \E c \in Calls : Engine!Finish(c)
<1>1. /\ workerPC \in [Workers -> WorkerPCs] /\ workerJob \in [Workers -> Calls \cup {None}]
      /\ workerPC[w] \in LockedPCs
      /\ workerPC' = [workerPC EXCEPT ![w] = "idle"]
      /\ workerJob' = [workerJob EXCEPT ![w] = None]
      /\ UNCHANGED <<callPC, dep, jobQueue>>
  BY DEF FinishJob, LeaveJob, callVars, LockedPCs, IInv, Typed, TypeOK
<1>2. PICK c \in Calls : c = workerJob[w] /\ c # None
  BY <1>1, ConstantsAssumption DEF IInv, Typed, WorkersHaveJobs
<1>3. callPC[c] = "accepted" /\ \A v \in Workers : v # w => workerJob[v] # c
  BY <1>2 DEF IInv, JobsOK
<1>4. BeingRun(c) /\ ~ InQueue(c)
  BY <1>1, <1>2 DEF IInv, JobsOK, BeingRun, InQueue
<1>5. ~ BeingRun(c)' /\ ~ InQueue(c)' /\ ~ Held(c)'
  BY <1>1, <1>2, <1>3, <1>4 DEF BeingRun, InQueue, Held
<1>6. EngineStage(c) = "running" /\ EngineStage(c)' = "finished"
  BY <1>1, <1>3, <1>4, <1>5 DEF EngineStage
<1>7. \A d \in Calls : d # c => EngineStage(d)' = EngineStage(d)
  <2> SUFFICES ASSUME NEW d \in Calls, d # c
               PROVE  EngineStage(d)' = EngineStage(d)
    OBVIOUS
  <2>0. d # None
    BY ConstantsAssumption
  <2>1. BeingRun(d)' <=> BeingRun(d)
    BY <1>1, <1>2, <2>0 DEF BeingRun, LockedPCs
  <2>2. (InQueue(d)' <=> InQueue(d)) /\ (Held(d)' <=> Held(d))
    BY <1>1, <1>2, <2>0 DEF InQueue, Held
  <2> QED
    BY <1>1, <2>1, <2>2 DEF EngineStage
<1> QED
  BY <1>1, <1>2, <1>6, <1>7 DEF Engine!Finish

\* The end of the process loses what was accepted, and the calls under way.
LEMMA EngineLoses ==
    ASSUME IInv, ProcessEnds
    PROVE  Engine!Lose
<1> DEFINE gone == {c \in Calls : callPC[c] # "idle"}
<1>1. callPC' = [c \in Calls |-> IF callPC[c] = "idle" THEN "idle" ELSE "gone"]
  BY DEF ProcessEnds
<1>2. \A c \in Calls : EngineStage(c) # "none" => c \in gone
  BY DEF EngineStage
<1>3. \A c \in Calls : EngineStage(c)' = IF c \in gone THEN "lost" ELSE EngineStage(c)
  BY <1>1 DEF EngineStage
<1>4. \A c \in Calls : Owner(c)' = None
  BY <1>1 DEF Owner
<1> QED
  BY <1>2, <1>3, <1>4 DEF Engine!Lose, Owner

\* A start finds no accepted call.
LEMMA EngineBoots ==
    ASSUME IInv, Boot
    PROVE  UNCHANGED Engine!engineVars
<1>1. /\ phase = "down" /\ UNCHANGED <<callPC, jobQueue, workerPC, workerJob>>
  BY DEF Boot, callVars, workerVars
<1>2. \A c \in Calls : callPC[c] # "accepted"
  BY <1>1 DEF IInv, DownOK
<1>3. JobsStay
  BY <1>1, <1>2 DEF JobsStay
<1> QED
  BY <1>3, EngineFrame


\* Every step of the service is a step of the engine or a stutter.
LEMMA EngineStep == IInv /\ [Next]_vars => [Engine!Next]_(Engine!engineVars)
<1> SUFFICES ASSUME IInv, [Next]_vars
             PROVE  Engine!Next \/ UNCHANGED Engine!engineVars
  OBVIOUS
<1>1. Typed'
  BY NextTyped DEF IInv
<1>2. CASE UNCHANGED vars
  BY <1>1, <1>2, QuietKeepsJobs, EngineFrame
     DEF vars, processVars, callVars, stores, workerVars
<1>3. ASSUME NEW c \in Calls, NEW a \in Apps,
             EnqueueCheck(c, a) \/ \E i \in IDs : RollbackTarget(c, a, i)
      PROVE  UNCHANGED Engine!engineVars
  BY <1>1, <1>3, CallKeepsJobs, EngineFrame
<1>4. ASSUME NEW c \in Calls, CallStep(c)
      PROVE  Engine!Next \/ UNCHANGED Engine!engineVars
  <2>1. CASE SendJob(c)
    BY <2>1, EngineAccepts DEF Engine!Next
  <2>2. CASE ~ SendJob(c)
    BY <1>1, <1>4, <2>2, CallKeepsJobs, EngineFrame
  <2> QED
    BY <2>1, <2>2
<1>5. ASSUME NEW i \in IDs, Cancel(i)
      PROVE  UNCHANGED Engine!engineVars
  BY <1>1, <1>5, QuietKeepsJobs, EngineFrame DEF Cancel, processVars, callVars, stores
<1>6. ASSUME NEW w \in Workers, TakeJob(w) \/ WorkerReturns(w) \/ LockApp(w) \/ RunStep(w)
      PROVE  Engine!Next \/ UNCHANGED Engine!engineVars
  <2>1. CASE TakeJob(w)
    BY <2>1, EngineTakes
  <2>2. CASE WorkerReturns(w)
    BY <1>1, <2>2, ReturnKeepsJobs, EngineFrame
  <2>3. CASE LockApp(w)
    BY <2>3, EngineBegins DEF Engine!Next
  <2>4. CASE FinishJob(w)
    BY <2>4, EngineFinishes DEF Engine!Next
  <2>5. CASE RunStep(w) /\ ~ FinishJob(w)
    BY <1>1, <2>5, RunKeepsJobs, EngineFrame
  <2> QED
    BY <1>6, <2>1, <2>2, <2>3, <2>4, <2>5
<1>7. ASSUME NEW h \in Handlers, DeleteStep(h) \/ \E a \in Apps : ClearFailedList(h, a)
      PROVE  UNCHANGED Engine!engineVars
  BY <1>1, <1>7, QuietKeepsJobs, EngineFrame
     DEF DeleteStep, DeleteEntry, RemoveDirectory, ClearFailedList,
         processVars, callVars, stores, workerVars
<1>8. CASE CloseShutdown \/ CancelAll \/ ShutdownReturns \/ Reconcile
  BY <1>1, <1>8, QuietKeepsJobs, EngineFrame
     DEF CloseShutdown, CancelAll, ShutdownReturns, Reconcile, ReconciledRecords,
         callVars, stores, workerVars
<1>9. CASE ProcessEnds
  BY <1>9, EngineLoses DEF Engine!Next
<1>10. CASE Boot
  BY <1>10, EngineBoots
<1> QED
  BY <1>2, <1>3, <1>4, <1>5, <1>6, <1>7, <1>8, <1>9, <1>10 DEF Next

\* ImplementsEngine: whatever the constants, the service accepts each
\* deployment once, runs it at most once and never beside another of its
\* application, and loses none but by the end of the process.
THEOREM Refinement == Spec => ImplementsEngine
<1>1. Spec => []IInv
  BY InitInv, NextInv, PTL DEF Spec
<1> QED
  BY <1>1, EngineInit, EngineStep, PTL DEF Spec, ImplementsEngine, Engine!Spec


===============================================================================
