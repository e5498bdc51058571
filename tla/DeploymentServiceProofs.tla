----------------------- MODULE DeploymentServiceProofs -----------------------
(***************************************************************************)
(* Theorems about DeploymentService, for every value of its constants.     *)
(***************************************************************************)
EXTENDS DeploymentService, TLAPS

\* A worker between the channel and its next visit to it has a job.
WorkersHaveJobs ==
    \A w \in Workers : workerPC[w] \in LockedPCs \cup {"locking"} => workerJob[w] \in Calls

Typed == TypeOK /\ WorkersHaveJobs

\* What a status becomes is a status.
LEMMA TransitionIsStatus ==
    ASSUME NEW from \in Status, NEW to \in Status
    PROVE  Transition(from, to) \in Status
BY DEF Transition

\* The zero value of a deployment is a record.
LEMMA NoDeploymentIsRecord ==
    NoDeployment \in DeploymentRecord /\ NoDeployment.app = None /\ NoDeployment.id = None
BY DEF NoDeployment, DeploymentRecord

\* The service starts typed.
LEMMA InitTyped == Init => Typed
BY ConstantsAssumption, NoDeploymentIsRecord
   DEF Init, Typed, TypeOK, WorkersHaveJobs, NoRecord, Phases, CallPCs, WorkerPCs,
       LockedPCs, Deleters

\* A record with a field changed is a record.
LEMMA SetStatusTyped ==
    ASSUME dep \in [Calls -> DeploymentRecord], NEW c, NEW s \in Status
    PROVE  [dep EXCEPT ![c].status = s] \in [Calls -> DeploymentRecord]
<1> SUFFICES ASSUME NEW d \in Calls
             PROVE  [dep EXCEPT ![c].status = s][d] \in DeploymentRecord
  OBVIOUS
<1>1. [dep[d] EXCEPT !.status = s] \in DeploymentRecord
  BY DEF DeploymentRecord
<1> QED
  BY <1>1

\* A number is given only when it is one of IDs, and the record stays typed.
LEMMA NumberTyped ==
    ASSUME dep \in [Calls -> DeploymentRecord], NEW c \in Calls, NEW i \in IDs, NEW n \in Nat
    PROVE  [dep EXCEPT ![c].id = i, ![c].status = "queued", ![c].created = n]
             \in [Calls -> DeploymentRecord]
<1> SUFFICES ASSUME NEW d \in Calls
             PROVE  [dep EXCEPT ![c].id = i, ![c].status = "queued",
                                ![c].created = n][d] \in DeploymentRecord
  OBVIOUS
<1>1. [dep[d] EXCEPT !.id = i, !.status = "queued", !.created = n] \in DeploymentRecord
  BY DEF DeploymentRecord, Status
<1>2. CASE d = c
  BY <1>1, <1>2
<1>3. CASE d # c
  BY <1>3
<1> QED
  BY <1>2, <1>3

\* A save stores a typed record under a number of its application.
LEMMA PersistTyped ==
    ASSUME Typed, NEW c \in Calls, PersistIgnoringError(c)
    PROVE  disk' \in [Apps -> [IDs -> [call: Calls \cup {None}, rec: DeploymentRecord]]]
<1> DEFINE file == [call |-> c, rec |-> dep[c]]
           File == [call: Calls \cup {None}, rec: DeploymentRecord]
<1>1. file \in File
  BY DEF Typed, TypeOK
<1>2. disk \in [Apps -> [IDs -> File]]
  BY DEF Typed, TypeOK
<1>3. disk' = disk \/ disk' = [disk EXCEPT ![dep[c].app][dep[c].id] = file]
  BY DEF PersistIgnoringError, PersistDeployment
<1> HIDE DEF file, File
<1>4. disk' \in [Apps -> [IDs -> File]]
  BY <1>1, <1>2, <1>3
<1> QED
  BY <1>4 DEF File

\* The steps of a call keep the types.
LEMMA CallStepTyped ==
    ASSUME Typed, NEW c \in Calls, CallStep(c)
    PROVE  Typed'
<1> USE DEF CallMoves, processVars, workerVars, deleteVars, CallPCs, UnderWay
<1>1. CASE RollbackCheck(c)
  BY <1>1, NoDeploymentIsRecord DEF RollbackCheck, Typed, TypeOK, WorkersHaveJobs
<1>2. CASE NumberDeployment(c)
  <2>1. clock' \in Nat
    BY <1>2 DEF NumberDeployment, Typed, TypeOK
  <2>2. NextDeploymentID(dep[c].app) \in IDs /\ dep \in [Calls -> DeploymentRecord]
    BY <1>2 DEF NumberDeployment, Typed, TypeOK
  <2>3. dep' \in [Calls -> DeploymentRecord]
    BY <1>2, <2>1, <2>2, NumberTyped DEF NumberDeployment
  <2> QED
    BY <1>2, <2>1, <2>3 DEF NumberDeployment, Typed, TypeOK, WorkersHaveJobs
<1>3. CASE PersistNew(c)
  BY <1>3 DEF PersistNew, PersistDeployment, Typed, TypeOK, WorkersHaveJobs
<1>4. CASE PersistNewFails(c)
  BY <1>4, NoDeploymentIsRecord DEF PersistNewFails, Typed, TypeOK, WorkersHaveJobs
<1>5. CASE InsertNew(c)
  BY <1>5 DEF InsertNew, Typed, TypeOK, WorkersHaveJobs
<1>6. CASE RegisterCancel(c)
  BY <1>6 DEF RegisterCancel, Typed, TypeOK, WorkersHaveJobs
<1>7. CASE ResaveRollback(c)
  BY <1>7, PersistTyped DEF ResaveRollback, Typed, TypeOK, WorkersHaveJobs
<1>8. CASE SendJob(c)
  <2>1. jobQueue' \in Seq(Calls) /\ Len(jobQueue') <= QueueCap
    BY <1>8, ConstantsAssumption DEF SendJob, Typed, TypeOK
  <2> QED
    BY <1>8, <2>1 DEF SendJob, Typed, TypeOK, WorkersHaveJobs
<1>9. CASE QueueFull(c)
  <2>1. dep' \in [Calls -> DeploymentRecord]
    BY <1>9, SetStatusTyped DEF QueueFull, Typed, TypeOK, Status
  <2> QED
    BY <1>9, <2>1 DEF QueueFull, Typed, TypeOK, WorkersHaveJobs
<1>10. CASE PersistRefused(c)
  BY <1>10, PersistTyped DEF PersistRefused, Typed, TypeOK, WorkersHaveJobs
<1> QED
  BY <1>1, <1>2, <1>3, <1>4, <1>5, <1>6, <1>7, <1>8, <1>9, <1>10 DEF CallStep

\* An assignment to the status of a job's record keeps the types.
LEMMA StatusUpdateTyped ==
    ASSUME Typed, NEW c \in Calls, NEW s \in Status, SetStatus(c, s)
    PROVE  dep' \in [Calls -> DeploymentRecord]
BY SetStatusTyped DEF SetStatus, Typed, TypeOK

\* updateDeployment's map write follows one of three assignments.
LEMMA StoreRecordMoves ==
    ASSUME NEW w \in Workers, StoreRecord(w)
    PROVE  \/ RunMoves(w, "storing_start", "saving_start")
           \/ RunMoves(w, "storing_success", "saving_success")
           \/ RunMoves(w, "storing_end", "saving_end")
BY DEF StoreRecord, AfterStoring

\* A stage of Execute changes a status and an image, and keeps the types.
LEMMA ExecuteStageTyped ==
    ASSUME dep \in [Calls -> DeploymentRecord], NEW w \in Workers, workerJob[w] \in Calls,
           ExecuteStage(w)
    PROVE  dep' \in [Calls -> DeploymentRecord]
<1> DEFINE c == workerJob[w]
           from == dep[c].status
           to == Transition(from, NextStage[from])
           image == IF from = "building" THEN c ELSE dep[c].imageID
<1>1. from \in Status /\ NextStage[from] \in Status
  BY DEF ExecuteStage, NextStage, Status
<1>2. to \in Status
  BY <1>1, TransitionIsStatus
<1>3. image \in Calls \cup {None}
  BY DEF DeploymentRecord
<1>4. dep' = [dep EXCEPT ![c].status = to, ![c].imageID = image]
  BY DEF ExecuteStage
<1> HIDE DEF c, to, image
<1> SUFFICES ASSUME NEW d \in Calls
             PROVE  [dep EXCEPT ![c].status = to, ![c].imageID = image][d] \in DeploymentRecord
  BY <1>4
<1>5. [dep[d] EXCEPT !.status = to, !.imageID = image] \in DeploymentRecord
  BY ZenonT(60), <1>2, <1>3 DEF DeploymentRecord
<1> QED
  BY <1>5

\* The image a rollback takes over is the image of a call.
LEMMA ExecuteRollbackTyped ==
    ASSUME dep \in [Calls -> DeploymentRecord], NEW w \in Workers, workerJob[w] \in Calls,
           ExecuteRollbackImage(w)
    PROVE  dep' \in [Calls -> DeploymentRecord]
<1> DEFINE c == workerJob[w]
           image == dep[c].rollbackTo
<1>1. image \in Calls \cup {None}
  BY DEF DeploymentRecord
<1>2. dep' = [dep EXCEPT ![c].imageID = image]
  BY DEF ExecuteRollbackImage
<1> HIDE DEF c, image
<1> SUFFICES ASSUME NEW d \in Calls
             PROVE  [dep EXCEPT ![c].imageID = image][d] \in DeploymentRecord
  BY <1>2
<1>3. [dep[d] EXCEPT !.imageID = image] \in DeploymentRecord
  BY <1>1 DEF DeploymentRecord
<1> QED
  BY <1>3

\* A deletion, of a prune or of a clear, keeps the types.
LEMMA DeleteStepTyped ==
    ASSUME Typed, NEW d \in Deleters, DeleteStep(d)
    PROVE  Typed'
<1> USE DEF processVars, callVars, stores, workerVars, deleteVars
<1>1. ASSUME NEW i \in IDs, DeleteEntry(d, i)
      PROVE  Typed'
  BY <1>1 DEF DeleteEntry, Typed, TypeOK, WorkersHaveJobs
<1>2. CASE RemoveDirectory(d)
  <2> DEFINE File == [call: Calls \cup {None}, rec: DeploymentRecord]
  <2>1. NoRecord \in File
    BY NoDeploymentIsRecord DEF NoRecord
  <2>2. disk \in [Apps -> [IDs -> File]]
    BY DEF Typed, TypeOK
  <2>3. \E a : disk' = disk \/ disk' = [disk EXCEPT ![a][removing[d]] = NoRecord]
    BY <1>2 DEF RemoveDirectory
  <2>4. disk' \in [Apps -> [IDs -> File]]
    <3> HIDE DEF File
    <3> QED  BY <2>1, <2>2, <2>3
  <2> QED
    BY <1>2, <2>4 DEF RemoveDirectory, Typed, TypeOK, WorkersHaveJobs
<1> QED
  BY <1>1, <1>2 DEF DeleteStep

\* Whatever a worker does inside the mutex keeps the types.
LEMMA RunStepTyped ==
    ASSUME Typed, NEW w \in Workers, RunStep(w)
    PROVE  Typed'
<1> USE DEF RunMoves, WorkerMoves, processVars, callVars, stores, workerVars, deleteVars,
            WorkerPCs, LockedPCs
<1> DEFINE c == workerJob[w]
<1>0. workerPC[w] \in LockedPCs => c \in Calls
  BY DEF Typed, WorkersHaveJobs
<1>1. CASE StartJob(w)
  <2>1. dep' \in [Calls -> DeploymentRecord]
    BY <1>0, <1>1, StatusUpdateTyped DEF StartJob, Status
  <2> QED
    BY <1>1, <2>1 DEF StartJob, Typed, TypeOK, WorkersHaveJobs
<1>2. CASE OpenLogFails(w)
  <2>1. dep' \in [Calls -> DeploymentRecord]
    BY <1>0, <1>2, StatusUpdateTyped DEF OpenLogFails, Status
  <2> QED
    BY <1>2, <2>1 DEF OpenLogFails, Typed, TypeOK, WorkersHaveJobs
<1>3. CASE PersistStart(w)
  BY <1>0, <1>3, PersistTyped DEF PersistStart, Typed, TypeOK, WorkersHaveJobs
<1>4. CASE ExecuteStage(w)
  <2>0. c \in Calls
    BY <1>0, <1>4 DEF ExecuteStage
  <2>1. dep' \in [Calls -> DeploymentRecord]
    BY <2>0, <1>4, ExecuteStageTyped DEF Typed, TypeOK
  <2> QED
    BY <1>4, <2>1 DEF ExecuteStage, Typed, TypeOK, WorkersHaveJobs
<1>5. CASE ExecuteRollbackImage(w)
  <2>0. c \in Calls
    BY <1>0, <1>5 DEF ExecuteRollbackImage
  <2>1. dep' \in [Calls -> DeploymentRecord]
    BY <2>0, <1>5, ExecuteRollbackTyped DEF Typed, TypeOK
  <2> QED
    BY <1>5, <2>1 DEF ExecuteRollbackImage, Typed, TypeOK, WorkersHaveJobs
<1>6. CASE ExecuteSucceeds(w)
  <2>1. dep' \in [Calls -> DeploymentRecord]
    BY <1>0, <1>6, StatusUpdateTyped DEF ExecuteSucceeds, Status
  <2> QED
    BY <1>6, <2>1 DEF ExecuteSucceeds, Typed, TypeOK, WorkersHaveJobs
<1>7. CASE ExecuteFails(w)
  <2>1. dep' \in [Calls -> DeploymentRecord]
    BY <1>0, <1>7, StatusUpdateTyped DEF ExecuteFails, Status
  <2> QED
    BY <1>7, <2>1 DEF ExecuteFails, Typed, TypeOK, WorkersHaveJobs
<1>8. CASE PersistSuccess(w)
  BY <1>0, <1>8, PersistTyped DEF PersistSuccess, Typed, TypeOK, WorkersHaveJobs
<1>9. CASE ListOld(w)
  BY <1>9 DEF ListOld, OldDeployments, ListByApp, Typed, TypeOK, WorkersHaveJobs
<1>10. CASE DeleteStep(w)
  BY <1>10, DeleteStepTyped DEF Deleters
<1>11. CASE PersistOutcome(w)
  BY <1>0, <1>11, PersistTyped DEF PersistOutcome, Typed, TypeOK, WorkersHaveJobs
<1>12. CASE FinishJob(w)
  BY <1>12 DEF FinishJob, LeaveJob, Typed, TypeOK, WorkersHaveJobs
<1>13. CASE StoreRecord(w)
  <2>1. deployments' = [deployments EXCEPT ![dep[c].id] = c] /\ UNCHANGED <<dep, disk, doomed>>
    BY <1>13 DEF StoreRecord
  <2> QED
    BY <1>0, <1>13, <2>1, StoreRecordMoves DEF Typed, TypeOK, WorkersHaveJobs
<1> QED
  BY <1>1, <1>2, <1>3, <1>4, <1>5, <1>6, <1>7, <1>8, <1>9, <1>10, <1>11, <1>12, <1>13
     DEF RunStep


\* A call begins.
LEMMA CallBeginsTyped ==
    ASSUME Typed, NEW c \in Calls, NEW a \in Apps,
           EnqueueCheck(c, a) \/ \E i \in IDs : RollbackTarget(c, a, i)
    PROVE  Typed'
<1> USE DEF CallMoves, processVars, workerVars, deleteVars, CallPCs, UnderWay
<1>1. \A image \in Calls \cup {None} :
        [dep EXCEPT ![c].app = a, ![c].rollbackTo = image] \in [Calls -> DeploymentRecord]
  <2> SUFFICES ASSUME NEW image \in Calls \cup {None}, NEW d \in Calls
               PROVE  [dep EXCEPT ![c].app = a, ![c].rollbackTo = image][d] \in DeploymentRecord
    BY DEF Typed, TypeOK
  <2>0. dep[d] \in DeploymentRecord
    BY DEF Typed, TypeOK
  <2>1. [dep[d] EXCEPT !.app = a, !.rollbackTo = image] \in DeploymentRecord
    BY <2>0 DEF DeploymentRecord
  <2> QED
    BY <2>1 DEF Typed, TypeOK
<1>2. [dep EXCEPT ![c].app = a] \in [Calls -> DeploymentRecord]
  <2> SUFFICES ASSUME NEW d \in Calls
               PROVE  [dep EXCEPT ![c].app = a][d] \in DeploymentRecord
    BY DEF Typed, TypeOK
  <2>0. dep[d] \in DeploymentRecord
    BY DEF Typed, TypeOK
  <2>1. [dep[d] EXCEPT !.app = a] \in DeploymentRecord
    BY <2>0 DEF DeploymentRecord
  <2> QED
    BY <2>1 DEF Typed, TypeOK
<1>3. CASE EnqueueCheck(c, a)
  BY <1>2, <1>3 DEF EnqueueCheck, Typed, TypeOK, WorkersHaveJobs
<1>4. ASSUME NEW i \in IDs, RollbackTarget(c, a, i)
      PROVE  Typed'
  <2>1. dep[deployments[i]].imageID \in Calls \cup {None}
    BY <1>4 DEF RollbackTarget, Typed, TypeOK, DeploymentRecord
  <2>2. dep' \in [Calls -> DeploymentRecord]
    BY <1>1, <1>4, <2>1 DEF RollbackTarget
  <2> QED
    BY <1>4, <2>2 DEF RollbackTarget, Typed, TypeOK, WorkersHaveJobs
<1> QED
  BY <1>3, <1>4

\* A worker takes a job, and the mutex of its application.
LEMMA WorkerTyped ==
    ASSUME Typed, NEW w \in Workers, TakeJob(w) \/ WorkerReturns(w) \/ LockApp(w)
    PROVE  Typed'
<1> USE DEF WorkerMoves, processVars, callVars, stores, workerVars, WorkerPCs, LockedPCs
<1>1. CASE TakeJob(w)
  <2>1. Head(jobQueue) \in Calls /\ Tail(jobQueue) \in Seq(Calls)
        /\ Len(Tail(jobQueue)) <= QueueCap
    BY <1>1, ConstantsAssumption DEF TakeJob, Typed, TypeOK
  <2> QED
    BY <1>1, <2>1 DEF TakeJob, Typed, TypeOK, WorkersHaveJobs
<1>2. CASE WorkerReturns(w)
  BY <1>2 DEF WorkerReturns, Typed, TypeOK, WorkersHaveJobs
<1>3. CASE LockApp(w)
  BY <1>3 DEF LockApp, Typed, TypeOK, WorkersHaveJobs
<1> QED
  BY <1>1, <1>2, <1>3

\* What is loaded from the files is typed.
LEMMA LoadedTyped ==
    ASSUME Typed, NEW i \in IDs
    PROVE  LoadedFrom(i) \in [call: Calls \cup {None}, rec: DeploymentRecord]
<1> DEFINE File == [call: Calls \cup {None}, rec: DeploymentRecord]
<1>1. NoRecord \in File
  BY NoDeploymentIsRecord DEF NoRecord
<1>2. \A a \in Apps : disk[a][i] \in File
  BY DEF Typed, TypeOK
<1> HIDE DEF File
<1>3. LoadedFrom(i) \in File
  <2>1. CASE \E a \in Apps : LastOwner(i, a)
    <3>1. (CHOOSE a \in Apps : LastOwner(i, a)) \in Apps
      BY <2>1
    <3> QED
      BY <1>2, <2>1, <3>1 DEF LoadedFrom
  <2>2. CASE ~ \E a \in Apps : LastOwner(i, a)
    BY <1>1, <2>2 DEF LoadedFrom
  <2> QED
    BY <2>1, <2>2
<1> QED
  BY <1>3 DEF File

\* A start of the process loads typed records.
LEMMA BootTyped ==
    ASSUME Typed, Boot
    PROVE  Typed'
<1> DEFINE File == [call: Calls \cup {None}, rec: DeploymentRecord]
           Loaded == {LoadedFrom(i) : i \in IDs}
<1>1. Loaded \subseteq File
  BY LoadedTyped
<1>2. deployments' \in [IDs -> Calls \cup {None}]
  BY LoadedTyped DEF Boot
<1>3. dep' \in [Calls -> DeploymentRecord]
  <2> SUFFICES ASSUME NEW c \in Calls
               PROVE  dep'[c] \in DeploymentRecord
    BY DEF Boot
  <2>1. CASE \E i \in IDs : LoadedFrom(i).call = c
    <3> DEFINE found == CHOOSE r \in Loaded : r.call = c
    <3>1. found \in Loaded
      BY <2>1
    <3>2. dep'[c] = found.rec
      BY <2>1 DEF Boot
    <3> HIDE DEF found, Loaded
    <3> QED
      BY <1>1, <3>1, <3>2
  <2>2. CASE ~ \E i \in IDs : LoadedFrom(i).call = c
    BY <2>2, NoDeploymentIsRecord DEF Boot
  <2> QED
    BY <2>1, <2>2
<1>4. phase' \in Phases /\ boots' \in 0..MaxBoots
  BY ConstantsAssumption DEF Boot, Typed, TypeOK, Phases
<1> QED
  BY <1>2, <1>3, <1>4
     DEF Boot, Typed, TypeOK, WorkersHaveJobs, callVars, workerVars, deleteVars

\* Cancelling changes a context and nothing else.
LEMMA CancelTyped ==
    ASSUME Typed, (\E i \in IDs : Cancel(i)) \/ CancelAll
    PROVE  Typed'
<1> USE DEF processVars, callVars, stores, deleteVars
<1>1. ctxCancelled' \in [Workers -> BOOLEAN]
  <2>1. CASE CancelAll
    BY <2>1 DEF CancelAll
  <2>2. ASSUME NEW i \in IDs, Cancel(i)
        PROVE  ctxCancelled' \in [Workers -> BOOLEAN]
    BY <2>2 DEF Cancel, Typed, TypeOK
  <2> QED
    BY <2>1, <2>2
<1>2. CASE CancelAll
  BY <1>1, <1>2 DEF CancelAll, Typed, TypeOK, WorkersHaveJobs, Phases
<1>3. ASSUME NEW i \in IDs, Cancel(i)
      PROVE  Typed'
  BY <1>1, <1>3 DEF Cancel, Typed, TypeOK, WorkersHaveJobs
<1> QED
  BY <1>2, <1>3

\* The steps of the process keep the types.
LEMMA ProcessTyped ==
    ASSUME Typed, CloseShutdown \/ ShutdownReturns \/ ProcessEnds \/ Reconcile
    PROVE  Typed'
<1> USE DEF Phases, processVars, callVars, stores, workerVars, deleteVars
<1>1. CASE CloseShutdown
  BY <1>1 DEF CloseShutdown, Typed, TypeOK, WorkersHaveJobs
<1>2. CASE ShutdownReturns
  BY <1>2 DEF ShutdownReturns, Typed, TypeOK, WorkersHaveJobs
<1>3. CASE ProcessEnds
  BY <1>3, NoDeploymentIsRecord, ConstantsAssumption
     DEF ProcessEnds, Typed, TypeOK, WorkersHaveJobs, CallPCs, WorkerPCs, LockedPCs, Deleters
<1>4. CASE Reconcile
  BY <1>4 DEF Reconcile, ReconciledRecords, Typed, TypeOK, WorkersHaveJobs
<1> QED
  BY <1>1, <1>2, <1>3, <1>4

\* A clear lists numbers of the map.
LEMMA ClearListTyped ==
    ASSUME Typed, NEW h \in Handlers, NEW a \in Apps, ClearFailedList(h, a)
    PROVE  Typed'
BY DEF ClearFailedList, ListByApp, Deleters, Typed, TypeOK, WorkersHaveJobs,
       processVars, callVars, stores, workerVars

\* Every step keeps the types.
LEMMA NextTyped == Typed /\ [Next]_vars => Typed'
<1> SUFFICES ASSUME Typed, [Next]_vars
             PROVE  Typed'
  OBVIOUS
<1>1. CASE UNCHANGED vars
  BY <1>1 DEF vars, processVars, callVars, stores, workerVars, deleteVars, Typed, TypeOK,
              WorkersHaveJobs
<1>2. CASE Next
  BY <1>2, CallBeginsTyped, CallStepTyped, CancelTyped, WorkerTyped, RunStepTyped,
     DeleteStepTyped, ClearListTyped, ProcessTyped, BootTyped DEF Next, Deleters
<1> QED
  BY <1>1, <1>2

\* TypeOK: in every reachable state, whatever the constants, each variable has
\* its type: so a record on disk is a whole record, and the channel of jobs
\* never holds more than its capacity.
THEOREM TypeCorrect == Spec => []TypeOK
<1>1. Typed => TypeOK
  BY DEF Typed
<1> QED
  BY <1>1, InitTyped, NextTyped, PTL DEF Spec


-----------------------------------------------------------------------------
(* Mutual exclusion.  OneRunPerApp is not inductive: it says nothing of who  *)
(* holds the mutex, nor that the application a worker locked is still the    *)
(* application of its job when it unlocks.  The mutex protects a run because *)
(* a job in a worker's hands is an accepted call's, whose record keeps its   *)
(* application, and because the worker's mutex bears the worker's name.      *)

\* Jobs are accepted calls', each in one place.
JobsOK ==
    /\ \A c \in Calls : callPC[c] \in UnderWay \cup {"accepted"} => dep[c].app \in Apps
    /\ \A w \in Workers :
          workerPC[w] \in LockedPCs \cup {"locking"} <=> workerJob[w] # None
    /\ \A w \in Workers : workerJob[w] # None => callPC[workerJob[w]] = "accepted"
    /\ \A v, w \in Workers : v # w /\ workerJob[v] # None => workerJob[v] # workerJob[w]
    /\ \A n \in 1..Len(jobQueue) : callPC[jobQueue[n]] = "accepted"
    /\ \A m, n \in 1..Len(jobQueue) : m # n => jobQueue[m] # jobQueue[n]
    /\ \A n \in 1..Len(jobQueue), w \in Workers : jobQueue[n] # workerJob[w]

\* Who runs a job has its application's mutex.
HolderOK ==
    \A w \in Workers : workerPC[w] \in LockedPCs => appLock[dep[workerJob[w]].app] = w

\* Nothing moves in a process that is down.
DownOK ==
    phase = "down" =>
        /\ jobQueue = <<>>
        /\ \A w \in Workers : workerPC[w] = "idle"
        /\ \A c \in Calls : callPC[c] \notin UnderWay \cup {"accepted"}

IInv == Typed /\ JobsOK /\ HolderOK /\ DownOK

\* The service starts with no jobs and no holder: the invariant holds.
LEMMA InitInv == Init => IInv
BY InitTyped DEF Init, IInv, JobsOK, HolderOK, DownOK, UnderWay, LockedPCs

\* A step that leaves the jobs where they are.
JobsStay ==
    /\ UNCHANGED <<jobQueue, workerJob>>
    /\ \A c \in Calls : callPC[c] = "accepted" <=> callPC'[c] = "accepted"
    /\ \A c \in Calls : callPC[c] = "gone" <=> callPC'[c] = "gone"
    /\ \A c \in Calls : callPC[c] = "accepted" => dep'[c].app = dep[c].app
    /\ \A w \in Workers : workerPC'[w] \in LockedPCs <=> workerPC[w] \in LockedPCs

\* Such a step keeps the invariant.
LEMMA JobsFrame ==
    ASSUME Typed, Typed', JobsOK, HolderOK, JobsStay, UNCHANGED appLock,
           \A c \in Calls : callPC'[c] \in UnderWay \cup {"accepted"} => dep'[c].app \in Apps,
           \A w \in Workers : workerPC'[w] = "locking" <=> workerPC[w] = "locking"
    PROVE  JobsOK' /\ HolderOK'
<1>1. JobsOK'
  <2>1. \A n \in 1..Len(jobQueue) : jobQueue[n] \in Calls
    BY DEF Typed, TypeOK
  <2>2. \A w \in Workers : workerJob[w] # None => workerJob[w] \in Calls
    BY DEF Typed, TypeOK
  <2> QED
    BY <2>1, <2>2 DEF JobsOK, JobsStay
<1>2. HolderOK'
  <2> SUFFICES ASSUME NEW w \in Workers, workerPC'[w] \in LockedPCs
               PROVE  appLock'[dep'[workerJob'[w]].app] = w
    BY DEF HolderOK, JobsStay
  <2>1. workerPC[w] \in LockedPCs /\ workerJob[w] \in Calls
    BY DEF Typed, WorkersHaveJobs, JobsStay
  <2>2. workerJob[w] # None
    BY <2>1 DEF JobsOK
  <2>3. callPC[workerJob[w]] = "accepted"
    BY <2>2 DEF JobsOK
  <2> QED
    BY <2>1, <2>3 DEF HolderOK, JobsStay
<1> QED
  BY <1>1, <1>2


\* The steps of a call, its send apart, leave the jobs where they are.
LEMMA CallKeepsJobs ==
    ASSUME IInv, Typed', NEW c \in Calls,
           \/ \E a \in Apps : EnqueueCheck(c, a) \/ \E i \in IDs : RollbackTarget(c, a, i)
           \/ CallStep(c) /\ ~ SendJob(c)
    PROVE  IInv' /\ JobsStay
<1> USE DEF IInv, UnderWay
<1>0. dep \in [Calls -> DeploymentRecord] /\ callPC \in [Calls -> CallPCs]
  BY DEF Typed, TypeOK
<1>1. ASSUME UNCHANGED <<phase, jobQueue, appLock, workerPC, workerJob>>, phase # "down",
             \A d \in Calls : d # c => callPC'[d] = callPC[d] /\ dep'[d].app = dep[d].app,
             {callPC[c], callPC'[c]} \cap {"accepted", "gone"} = {},
             callPC'[c] \in UnderWay => dep'[c].app \in Apps
      PROVE  IInv' /\ JobsStay
  <2>1. \A d \in Calls : d = c => callPC[d] # "accepted" /\ callPC'[d] # "accepted"
                                 /\ callPC[d] # "gone" /\ callPC'[d] # "gone"
    BY <1>1
  <2>2. \A d \in Calls : callPC'[d] \in UnderWay \cup {"accepted"} => dep'[d].app \in Apps
    BY <1>1 DEF JobsOK
  <2>3. JobsStay
    BY <1>1, <2>1 DEF JobsStay
  <2>4. JobsOK' /\ HolderOK'
    BY <1>1, <2>2, <2>3, JobsFrame
  <2> QED
    BY <1>1, <2>3, <2>4 DEF DownOK
<1> USE DEF CallMoves, processVars, workerVars, deleteVars
<1>2. ASSUME NEW a \in Apps, EnqueueCheck(c, a)
      PROVE  IInv' /\ JobsStay
  BY <1>0, <1>1, <1>2 DEF EnqueueCheck, MayCall, Answering
<1>3. ASSUME NEW a \in Apps, NEW i \in IDs, RollbackTarget(c, a, i)
      PROVE  IInv' /\ JobsStay
  <2>1. dep' = [dep EXCEPT ![c].app = a, ![c].rollbackTo = dep[deployments[i]].imageID]
    BY <1>3 DEF RollbackTarget
  <2>2. dep'[c].app = a /\ \A d \in Calls : d # c => dep'[d] = dep[d]
    BY <1>0, <2>1 DEF DeploymentRecord
  <2> QED
    BY <1>0, <1>1, <1>3, <2>2 DEF RollbackTarget, MayCall, Answering
<1>4. CASE CallStep(c) /\ ~ SendJob(c)
  <2>0. callPC[c] \in UnderWay
    BY <1>4 DEF CallStep, RollbackCheck, NumberDeployment, PersistNew, PersistNewFails,
                InsertNew, RegisterCancel, ResaveRollback, QueueFull, PersistRefused
  <2>1. phase # "down" /\ dep[c].app \in Apps
    BY <2>0 DEF DownOK, JobsOK
  <2>2. CASE RollbackCheck(c)
    BY <1>0, <1>1, <2>1, <2>2 DEF RollbackCheck
  <2>3. CASE NumberDeployment(c)
    <3> DEFINE i == NextDeploymentID(dep[c].app)
    <3>1. dep' = [dep EXCEPT ![c].id = i, ![c].status = "queued", ![c].created = clock']
      BY <2>3 DEF NumberDeployment
    <3> HIDE DEF i
    <3>2. \A d \in Calls : dep'[d].app = dep[d].app
      BY <1>0, <3>1 DEF DeploymentRecord
    <3> QED
      BY <1>0, <1>1, <2>1, <2>3, <3>2 DEF NumberDeployment
  <2>4. CASE PersistNew(c)
    BY <1>0, <1>1, <2>1, <2>4 DEF PersistNew
  <2>5. CASE PersistNewFails(c)
    BY <1>0, <1>1, <2>1, <2>5 DEF PersistNewFails
  <2>6. CASE InsertNew(c)
    BY <1>0, <1>1, <2>1, <2>6 DEF InsertNew
  <2>7. CASE RegisterCancel(c)
    BY <1>0, <1>1, <2>1, <2>7 DEF RegisterCancel
  <2>8. CASE ResaveRollback(c)
    BY <1>0, <1>1, <2>1, <2>8 DEF ResaveRollback
  <2>9. CASE QueueFull(c)
    BY <1>0, <1>1, <2>1, <2>9 DEF QueueFull, DeploymentRecord
  <2>10. CASE PersistRefused(c)
    BY <1>0, <1>1, <2>1, <2>10 DEF PersistRefused
  <2> QED
    BY <1>4, <2>2, <2>3, <2>4, <2>5, <2>6, <2>7, <2>8, <2>9, <2>10 DEF CallStep
<1> QED
  BY <1>2, <1>3, <1>4

\* So do the steps of nobody's job: a cancel, a deletion, a clear, a phase of
\* Shutdown, the end of start-up.
LEMMA QuietKeepsJobs ==
    ASSUME IInv, Typed', UNCHANGED <<callPC, dep, jobQueue, appLock, workerPC, workerJob>>,
           phase' = "down" => phase = "down"
    PROVE  IInv' /\ JobsStay
<1>1. JobsStay
  BY DEF JobsStay
<1>2. JobsOK' /\ HolderOK'
  BY <1>1, JobsFrame DEF IInv, JobsOK
<1> QED
  BY <1>1, <1>2 DEF IInv, DownOK

\* A worker that runs its job, and has not finished, keeps the jobs and the
\* mutexes as they are.
LEMMA RunKeepsJobs ==
    ASSUME IInv, Typed', NEW w \in Workers, RunStep(w), ~ FinishJob(w)
    PROVE  IInv' /\ JobsStay
<1> USE DEF IInv
<1>0. dep \in [Calls -> DeploymentRecord] /\ workerPC \in [Workers -> WorkerPCs]
  BY DEF Typed, TypeOK
<1>1. ASSUME UNCHANGED <<phase, callPC, jobQueue, appLock, workerJob>>,
             \A c \in Calls : dep'[c].app = dep[c].app,
             workerPC[w] \in LockedPCs, workerPC'[w] \in LockedPCs,
             \A v \in Workers : v # w => workerPC'[v] = workerPC[v]
      PROVE  IInv' /\ JobsStay
  <2>1. phase # "down"
    BY <1>1 DEF DownOK, LockedPCs
  <2>2. \A c \in Calls : callPC'[c] \in UnderWay \cup {"accepted"} => dep'[c].app \in Apps
    BY <1>1 DEF JobsOK
  <2>3. JobsStay
    BY <1>1 DEF JobsStay
  <2>4. \A v \in Workers : workerPC'[v] = "locking" <=> workerPC[v] = "locking"
    BY <1>1 DEF LockedPCs
  <2>5. JobsOK' /\ HolderOK'
    BY <1>1, <2>2, <2>3, <2>4, JobsFrame
  <2> QED
    BY <1>1, <2>1, <2>3, <2>5 DEF DownOK
<1>2. ASSUME NEW c \in Calls, NEW s, NEW d \in Calls, SetStatus(c, s)
      PROVE  dep'[d].app = dep[d].app
  BY <1>0, <1>2 DEF SetStatus, DeploymentRecord
<1> USE DEF RunMoves, WorkerMoves, processVars, callVars, workerVars, deleteVars, LockedPCs
<1>3. workerPC[w] \in LockedPCs => workerJob[w] \in Calls
  BY DEF Typed, WorkersHaveJobs
<1>4. CASE StartJob(w)
  BY <1>0, <1>1, <1>2, <1>3, <1>4 DEF StartJob
<1>5. CASE OpenLogFails(w)
  BY <1>0, <1>1, <1>2, <1>3, <1>5 DEF OpenLogFails
<1>6. CASE PersistStart(w)
  BY <1>0, <1>1, <1>6 DEF PersistStart
<1>7. CASE ExecuteStage(w)
  <2>1. \A c \in Calls : dep'[c].app = dep[c].app
    BY <1>0, <1>7 DEF ExecuteStage, DeploymentRecord
  <2> QED
    BY <1>0, <1>1, <1>7, <2>1 DEF ExecuteStage
<1>8. CASE ExecuteRollbackImage(w)
  <2>1. \A c \in Calls : dep'[c].app = dep[c].app
    BY <1>0, <1>8 DEF ExecuteRollbackImage, DeploymentRecord
  <2> QED
    BY <1>0, <1>1, <1>8, <2>1 DEF ExecuteRollbackImage
<1>9. CASE ExecuteSucceeds(w)
  BY <1>0, <1>1, <1>2, <1>3, <1>9 DEF ExecuteSucceeds
<1>10. CASE ExecuteFails(w)
  BY <1>0, <1>1, <1>2, <1>3, <1>10 DEF ExecuteFails
<1>11. CASE PersistSuccess(w)
  BY <1>0, <1>1, <1>11 DEF PersistSuccess
<1>12. CASE ListOld(w)
  BY <1>0, <1>1, <1>12 DEF ListOld
<1>13. CASE PersistOutcome(w)
  BY <1>0, <1>1, <1>13 DEF PersistOutcome
<1>14. CASE DeleteStep(w)
  BY <1>14, QuietKeepsJobs DEF DeleteStep, DeleteEntry, RemoveDirectory
<1>15. CASE StoreRecord(w)
  <2>1. UNCHANGED dep
    BY <1>15 DEF StoreRecord
  <2> QED
    BY <1>0, <1>1, <1>15, <2>1, StoreRecordMoves
<1> QED
  BY <1>4, <1>5, <1>6, <1>7, <1>8, <1>9, <1>10, <1>11, <1>12, <1>13, <1>14, <1>15 DEF RunStep


\* A send puts a job of an accepted call, which is nowhere else, at the end.
LEMMA SendKeepsJobs ==
    ASSUME IInv, Typed', NEW c \in Calls, SendJob(c)
    PROVE  IInv'
<1> USE DEF SendJob, CallMoves, processVars, workerVars, deleteVars
<1> DEFINE q == jobQueue
           len == Len(jobQueue)
<1>1. /\ callPC[c] = "sending" /\ callPC' = [callPC EXCEPT ![c] = "accepted"]
      /\ callPC \in [Calls -> CallPCs]
  BY DEF IInv, Typed, TypeOK
<1>2. q \in Seq(Calls) /\ len \in Nat
  BY DEF IInv, Typed, TypeOK
<1>3. Len(q') = len + 1 /\ q'[len + 1] = c /\ \A n \in 1..len : q'[n] = q[n]
  BY <1>2
<1>4. \A n \in 1..len : q[n] \in Calls /\ callPC[q[n]] = "accepted" /\ q[n] # c
  BY <1>1, <1>2 DEF IInv, JobsOK
<1>5. \A w \in Workers : workerJob[w] # c
  BY <1>1, ConstantsAssumption DEF IInv, JobsOK
<1>6. JobsOK'
  <2>1. \A d \in Calls : callPC'[d] \in UnderWay \cup {"accepted"} => dep'[d].app \in Apps
    BY <1>1 DEF IInv, JobsOK, UnderWay
  <2>2. \A w \in Workers : workerJob[w] # None => callPC'[workerJob[w]] = "accepted"
    <3>1. \A w \in Workers : workerJob[w] # None => workerJob[w] \in Calls
      BY DEF IInv, Typed, TypeOK
    <3> QED
      BY <1>1, <3>1 DEF IInv, JobsOK
  <2>3. \A n \in 1..Len(q') : n \in 1..len \/ n = len + 1
    BY <1>2, <1>3
  <2>4. \A n \in 1..Len(q') : callPC'[q'[n]] = "accepted"
    BY <1>1, <1>3, <1>4, <2>3
  <2>5. \A m, n \in 1..Len(q') : m # n => q'[m] # q'[n]
    BY <1>3, <1>4, <2>3 DEF IInv, JobsOK
  <2>6. \A n \in 1..Len(q'), w \in Workers : q'[n] # workerJob[w]
    BY <1>3, <1>5, <2>3 DEF IInv, JobsOK
  <2> HIDE DEF SendJob, CallMoves
  <2>7. UNCHANGED <<workerPC, workerJob>>
    BY DEF SendJob, CallMoves
  <2> QED
    BY <2>1, <2>2, <2>4, <2>5, <2>6, <2>7 DEF IInv, JobsOK
<1>7. HolderOK' /\ DownOK'
  BY <1>1 DEF IInv, HolderOK, DownOK, UnderWay
<1> QED
  BY <1>6, <1>7 DEF IInv

\* A worker takes the head of the channel.
LEMMA TakeKeepsJobs ==
    ASSUME IInv, Typed', NEW w \in Workers, TakeJob(w)
    PROVE  IInv'
<1> USE DEF TakeJob, WorkerMoves, processVars, callVars
<1> DEFINE q == jobQueue
           len == Len(jobQueue)
<1>1. q \in Seq(Calls) /\ len \in Nat \ {0} /\ Head(q) = q[1] /\ q[1] \in Calls
  BY DEF IInv, Typed, TypeOK
<1>2. Len(q') = len - 1 /\ \A n \in 1..(len - 1) : q'[n] = q[n + 1]
  BY <1>1
<1>3. /\ workerPC \in [Workers -> WorkerPCs] /\ workerJob \in [Workers -> Calls \cup {None}]
      /\ workerPC[w] = "idle" /\ workerPC' = [workerPC EXCEPT ![w] = "locking"]
      /\ workerJob' = [workerJob EXCEPT ![w] = q[1]]
      /\ UNCHANGED <<phase, callPC, dep, appLock>>
  BY <1>1 DEF IInv, Typed, TypeOK
<1>4. \A n \in 1..Len(q') : n \in 1..len /\ n + 1 \in 1..len /\ n + 1 # 1
  BY <1>1, <1>2
<1>5. 1 \in 1..len
  BY <1>1
<1>6. JobsOK'
  <2>1. \A v \in Workers :
          workerPC'[v] \in LockedPCs \cup {"locking"} <=> workerJob'[v] # None
    BY <1>1, <1>3, ConstantsAssumption DEF IInv, JobsOK
  <2>2. \A v \in Workers : workerJob'[v] # None => callPC'[workerJob'[v]] = "accepted"
    BY <1>3, <1>5 DEF IInv, JobsOK
  <2>3. \A u, v \in Workers : u # v /\ workerJob'[u] # None => workerJob'[u] # workerJob'[v]
    BY <1>3, <1>5 DEF IInv, JobsOK
  <2>4. \A n \in 1..Len(q') : callPC'[q'[n]] = "accepted"
    BY <1>2, <1>3, <1>4 DEF IInv, JobsOK
  <2>5. \A m, n \in 1..Len(q') : m # n => q'[m] # q'[n]
    BY <1>1, <1>2, <1>4 DEF IInv, JobsOK
  <2>6. \A n \in 1..Len(q'), v \in Workers : q'[n] # workerJob'[v]
    BY <1>2, <1>3, <1>4, <1>5 DEF IInv, JobsOK
  <2>7. \A c \in Calls : callPC'[c] \in UnderWay \cup {"accepted"} => dep'[c].app \in Apps
    BY <1>3 DEF IInv, JobsOK
  <2> QED
    BY <2>1, <2>2, <2>3, <2>4, <2>5, <2>6, <2>7 DEF JobsOK
<1>7. HolderOK'
  BY <1>3 DEF IInv, HolderOK, LockedPCs
<1>8. DownOK'
  BY <1>1, <1>3 DEF IInv, DownOK
<1> QED
  BY <1>6, <1>7, <1>8 DEF IInv


\* The mutex was free, so no other worker is running that application.
LEMMA LockKeepsJobs ==
    ASSUME IInv, Typed', NEW w \in Workers, LockApp(w)
    PROVE  IInv'
<1> DEFINE a == dep[workerJob[w]].app
<1>1. /\ workerPC \in [Workers -> WorkerPCs] /\ appLock \in [Apps -> Workers \cup {None}]
      /\ workerPC[w] = "locking" /\ workerPC' = [workerPC EXCEPT ![w] = "opening"]
      /\ appLock[a] = None /\ appLock' = [appLock EXCEPT ![a] = w]
      /\ UNCHANGED <<phase, callPC, dep, jobQueue, workerJob>>
  BY DEF LockApp, WorkerMoves, processVars, callVars, IInv, Typed, TypeOK
<1>2. \A v \in Workers :
        workerPC'[v] \in LockedPCs \cup {"locking"} <=> workerPC[v] \in LockedPCs \cup {"locking"}
  BY <1>1 DEF LockedPCs
<1>3. a \in Apps
  <2>1. workerJob[w] \in Calls
    BY <1>1 DEF IInv, Typed, WorkersHaveJobs
  <2>2. workerJob[w] # None
    BY <1>1 DEF IInv, JobsOK
  <2> QED
    BY <2>1, <2>2 DEF IInv, JobsOK
<1>4. JobsOK'
  BY <1>1, <1>2 DEF IInv, JobsOK
<1>5. HolderOK'
  <2> SUFFICES ASSUME NEW v \in Workers, workerPC'[v] \in LockedPCs
               PROVE  appLock'[dep[workerJob[v]].app] = v
    BY <1>1 DEF HolderOK
  <2>1. CASE v = w
    BY <1>1, <1>3, <2>1
  <2>2. CASE v # w
    <3>1. workerPC[v] \in LockedPCs
      BY <1>1, <2>2
    <3>2. appLock[dep[workerJob[v]].app] = v /\ v # None
      BY <3>1, ConstantsAssumption DEF IInv, HolderOK
    <3> QED
      BY <1>1, <3>2
  <2> QED
    BY <2>1, <2>2
<1>6. DownOK'
  BY <1>1 DEF IInv, DownOK
<1> QED
  BY <1>4, <1>5, <1>6 DEF IInv

\* The mutex that is released is the worker's own.
LEMMA FinishKeepsJobs ==
    ASSUME IInv, Typed', NEW w \in Workers, FinishJob(w)
    PROVE  IInv'
<1> DEFINE a == dep[workerJob[w]].app
<1>1. /\ workerPC \in [Workers -> WorkerPCs] /\ appLock \in [Apps -> Workers \cup {None}]
      /\ workerJob \in [Workers -> Calls \cup {None}]
      /\ workerPC[w] \in LockedPCs
      /\ workerPC' = [workerPC EXCEPT ![w] = "idle"]
      /\ workerJob' = [workerJob EXCEPT ![w] = None]
      /\ appLock' = [appLock EXCEPT ![a] = None]
      /\ UNCHANGED <<phase, callPC, dep, jobQueue>>
  BY DEF FinishJob, LeaveJob, processVars, callVars, deleteVars, LockedPCs, IInv, Typed, TypeOK
<1>3. JobsOK'
  <2>1. \A v \in Workers :
          workerPC'[v] \in LockedPCs \cup {"locking"} <=> workerJob'[v] # None
    BY <1>1 DEF IInv, JobsOK, LockedPCs
  <2>2. \A n \in 1..Len(jobQueue), v \in Workers : jobQueue[n] # workerJob'[v]
    <3>1. \A n \in 1..Len(jobQueue) : jobQueue[n] # None
      BY ConstantsAssumption DEF IInv, Typed, TypeOK
    <3> QED
      BY <1>1, <3>1 DEF IInv, JobsOK
  <2>3. \A u, v \in Workers : u # v /\ workerJob'[u] # None => workerJob'[u] # workerJob'[v]
    BY <1>1 DEF IInv, JobsOK
  <2>4. \A v \in Workers : workerJob'[v] # None => callPC'[workerJob'[v]] = "accepted"
    BY <1>1 DEF IInv, JobsOK
  <2> QED
    BY <1>1, <2>1, <2>2, <2>3, <2>4 DEF IInv, JobsOK
<1>4. HolderOK'
  <2> SUFFICES ASSUME NEW v \in Workers, workerPC'[v] \in LockedPCs
               PROVE  appLock'[dep'[workerJob'[v]].app] = v
    BY DEF HolderOK
  <2>1. v # w /\ workerPC[v] \in LockedPCs /\ workerJob'[v] = workerJob[v]
    BY <1>1 DEF LockedPCs
  <2>2. appLock[dep[workerJob[v]].app] = v /\ appLock[a] = w
    BY <1>1, <2>1 DEF IInv, HolderOK
  <2> QED
    BY <1>1, <2>1, <2>2
<1>5. DownOK'
  BY <1>1 DEF IInv, DownOK, LockedPCs
<1> QED
  BY <1>3, <1>4, <1>5 DEF IInv

\* A process that ends leaves no job, and one that starts finds none.
LEMMA ProcessKeepsJobs ==
    ASSUME IInv, Typed', ProcessEnds \/ Boot
    PROVE  IInv'
<1>1. CASE ProcessEnds
  BY <1>1 DEF ProcessEnds, IInv, JobsOK, HolderOK, DownOK, UnderWay, LockedPCs
<1>2. CASE Boot
  <2>1. /\ phase = "down" /\ phase' = "booting"
        /\ UNCHANGED <<callPC, jobQueue, appLock, workerPC, workerJob>>
    BY <1>2 DEF Boot, callVars, workerVars
  <2>2. /\ jobQueue = <<>> /\ \A w \in Workers : workerPC[w] = "idle"
        /\ \A c \in Calls : callPC[c] \notin UnderWay \cup {"accepted"}
    BY <2>1 DEF IInv, DownOK
  <2> QED
    BY <2>1, <2>2 DEF IInv, JobsOK, HolderOK, DownOK, LockedPCs
<1> QED
  BY <1>1, <1>2


\* A worker that returns has no job.
LEMMA ReturnKeepsJobs ==
    ASSUME IInv, Typed', NEW w \in Workers, WorkerReturns(w)
    PROVE  IInv' /\ JobsStay
<1>1. /\ phase # "down" /\ workerPC[w] = "idle"
      /\ workerPC' = [workerPC EXCEPT ![w] = "exited"]
      /\ UNCHANGED <<phase, callPC, dep, jobQueue, appLock, workerJob>>
  BY DEF WorkerReturns, WorkerMoves, Closed, processVars, callVars, stores
<1>2. \A v \in Workers :
        /\ workerPC'[v] \in LockedPCs <=> workerPC[v] \in LockedPCs
        /\ workerPC'[v] = "locking" <=> workerPC[v] = "locking"
  BY <1>1 DEF LockedPCs, IInv, Typed, TypeOK
<1>3. JobsStay
  BY <1>1, <1>2 DEF JobsStay
<1>4. JobsOK' /\ HolderOK'
  BY <1>1, <1>2, <1>3, JobsFrame DEF IInv, JobsOK
<1> QED
  BY <1>1, <1>3, <1>4 DEF IInv, DownOK

\* Every step keeps the invariant.
LEMMA NextInv == IInv /\ [Next]_vars => IInv'
<1> SUFFICES ASSUME IInv, [Next]_vars
             PROVE  IInv'
  OBVIOUS
<1>1. Typed'
  BY NextTyped DEF IInv
<1>2. CASE UNCHANGED vars
  BY <1>1, <1>2, QuietKeepsJobs
     DEF vars, processVars, callVars, stores, workerVars
<1>3. ASSUME NEW c \in Calls, NEW a \in Apps,
             EnqueueCheck(c, a) \/ \E i \in IDs : RollbackTarget(c, a, i)
      PROVE  IInv'
  BY <1>1, <1>3, CallKeepsJobs
<1>4. ASSUME NEW c \in Calls, CallStep(c)
      PROVE  IInv'
  BY <1>1, <1>4, CallKeepsJobs, SendKeepsJobs
<1>5. ASSUME NEW i \in IDs, Cancel(i)
      PROVE  IInv'
  BY <1>1, <1>5, QuietKeepsJobs DEF Cancel, processVars, callVars, stores
<1>6. ASSUME NEW w \in Workers, TakeJob(w) \/ WorkerReturns(w) \/ LockApp(w) \/ RunStep(w)
      PROVE  IInv'
  BY <1>1, <1>6, TakeKeepsJobs, ReturnKeepsJobs, LockKeepsJobs, RunKeepsJobs,
     FinishKeepsJobs
<1>7. ASSUME NEW h \in Handlers, DeleteStep(h) \/ \E a \in Apps : ClearFailedList(h, a)
      PROVE  IInv'
  BY <1>1, <1>7, QuietKeepsJobs
     DEF DeleteStep, DeleteEntry, RemoveDirectory, ClearFailedList,
         processVars, callVars, stores, workerVars
<1>8. CASE CloseShutdown \/ CancelAll \/ ShutdownReturns \/ Reconcile
  BY <1>1, <1>8, QuietKeepsJobs
     DEF CloseShutdown, CancelAll, ShutdownReturns, Reconcile, ReconciledRecords,
         callVars, stores, workerVars
<1>9. CASE ProcessEnds \/ Boot
  BY <1>1, <1>9, ProcessKeepsJobs
<1> QED
  BY <1>2, <1>3, <1>4, <1>5, <1>6, <1>7, <1>7, <1>8, <1>9 DEF Next

\* Two runs of one application would both hold its one mutex.
LEMMA InvImpliesOneRun == IInv => OneRunPerApp
BY ConstantsAssumption DEF IInv, HolderOK, OneRunPerApp

\* OneRunPerApp: whatever the number of workers, applications and calls, and
\* with crashes, cancels and clears in between, no two workers are inside
\* runJob's locked part for the same application (getAppLock).
THEOREM MutualExclusion == Spec => []OneRunPerApp
<1>1. Spec => []IInv
  BY InitInv, NextInv, PTL DEF Spec
<1> QED
  BY <1>1, InvImpliesOneRun, PTL


=============================================================================
