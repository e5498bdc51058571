----------------------- MODULE DeploymentRecordsProofs -----------------------
(***************************************************************************)
(* Theorems about the records of DeploymentService: what their statuses    *)
(* say of the jobs, whom a cancel function cancels, what the files hold,   *)
(* and, when calls do not overlap, what is in the map, which then is the   *)
(* history that DeploymentHistory describes.  RInv extends the             *)
(* inductive invariant of DeploymentServiceProofs; SavedInv and HInv       *)
(* extend RInv.                                                            *)
(***************************************************************************)
EXTENDS DeploymentServiceProofs, FiniteSetTheorems

\* A call that has no record yet; the statuses of a run; the points of a run at
\* which its record has yet to be stored in the map, and those at which it
\* differs from its file.
Early == {"idle", "targeted", "checked"}
Executing == {"preparing", "building", "starting", "health_check", "routing"}
Storing == {"storing_start", "storing_success", "storing_end"}
Unsaved == Storing \cup {"saving_start", "executing", "saving_success", "saving_end"}

\* The status of a record, by where its call is.  An accepted deployment has
\* ended, or its job is in the channel or in a worker's hands.
CallStatus(c) ==
    /\ callPC[c] \in Early => dep[c].status = "absent"
    /\ callPC[c] \in {"numbered", "persisted", "inserted", "sending"} => dep[c].status = "queued"
    /\ callPC[c] = "accepted" => IsTerminal(dep[c].status) \/ InQueue(c) \/ Held(c)
    /\ callPC[c] = "refused" /\ dep[c].id # None => dep[c].app \in Apps
    /\ InQueue(c) => dep[c].status = "queued"

\* The status of a worker's job, by where the worker is.
RunStatus(w) ==
    LET d == dep[workerJob[w]] IN
    /\ workerPC[w] \in {"locking", "opening"} => d.status = "queued"
    /\ workerPC[w] \in {"storing_start", "saving_start"} => d.status = "preparing"
    /\ workerPC[w] = "executing" =>
          d.status \in Executing /\ (d.rollbackTo # None => d.status = "preparing")
    /\ workerPC[w] \in {"storing_success", "saving_success", "listing", "pruning"} =>
          d.status = "success"
    /\ workerPC[w] \in {"storing_end", "saving_end", "finishing"} =>
          d.status \in {"failed", "cancelled"}

\* No file is of a call that has no record; nothing else is left of a process
\* that is down.
FilesOK ==
    /\ \A a \in Apps, i \in IDs :
          disk[a][i].call # None => callPC[disk[a][i].call] \notin Early
    /\ phase = "down" => \A c \in Calls : callPC[c] \in {"idle", "gone"}

RInv ==
    /\ IInv
    /\ \A c \in Calls : CallStatus(c)
    /\ \A w \in Workers : RunStatus(w)
    /\ FilesOK
    /\ CancelHitsItsJob

-----------------------------------------------------------------------------
(* Frames *)

\* A worker that stays where it is, with a job whose record stays.
LEMMA RunStatusFrame ==
    ASSUME IInv, NEW w \in Workers, RunStatus(w),
           workerPC'[w] = workerPC[w], workerJob'[w] = workerJob[w],
           \A c \in Calls : callPC[c] = "accepted" /\ workerJob[w] = c => dep'[c] = dep[c]
    PROVE  RunStatus(w)'
<1>1. CASE workerPC[w] \in LockedPCs \cup {"locking"}
  <2>1. workerJob[w] \in Calls /\ workerJob[w] # None
    BY <1>1 DEF IInv, Typed, WorkersHaveJobs, JobsOK
  <2>2. dep'[workerJob[w]] = dep[workerJob[w]]
    BY <2>1 DEF IInv, JobsOK
  <2> QED
    BY <2>2 DEF RunStatus
<1>2. CASE workerPC[w] \notin LockedPCs \cup {"locking"}
  BY <1>2 DEF RunStatus, LockedPCs
<1> QED
  BY <1>1, <1>2

\* A call that stays where it is, whose record and whose job stay.
LEMMA CallStatusFrame ==
    ASSUME NEW c \in Calls, CallStatus(c),
           callPC'[c] = callPC[c], dep'[c] = dep[c],
           InQueue(c)' <=> InQueue(c), Held(c) => Held(c)'
    PROVE  CallStatus(c)'
BY DEF CallStatus

\* Files keep to calls that have a record.
LEMMA FilesFrame ==
    ASSUME Typed, FilesOK,
           \A a \in Apps, i \in IDs :
              \/ disk'[a][i].call \in {disk[a][i].call, None}
              \/ disk'[a][i].call \in Calls /\ callPC'[disk'[a][i].call] \notin Early,
           \A c \in Calls : callPC'[c] \in Early => callPC[c] \in Early,
           phase' # "down" \/ \A c \in Calls : callPC'[c] \in {"idle", "gone"}
    PROVE  FilesOK'
<1>1. ASSUME NEW a \in Apps, NEW i \in IDs, disk'[a][i].call # None
      PROVE  callPC'[disk'[a][i].call] \notin Early
  <2>1. CASE disk'[a][i].call = disk[a][i].call
    <3>1. disk[a][i].call \in Calls
      BY <1>1, <2>1 DEF Typed, TypeOK
    <3> QED
      BY <1>1, <2>1, <3>1 DEF FilesOK
  <2> QED
    BY <1>1, <2>1
<1> QED
  BY <1>1 DEF FilesOK

\* What a save changes.
LEMMA PersistFacts ==
    ASSUME Typed, NEW c \in Calls, PersistIgnoringError(c)
    PROVE  \A a \in Apps, i \in IDs :
              disk'[a][i] # disk[a][i] => disk'[a][i].call = c /\ disk'[a][i].rec = dep[c]
<1> DEFINE file == [call |-> c, rec |-> dep[c]]
<1>1. disk \in [Apps -> [IDs -> [call: Calls \cup {None}, rec: DeploymentRecord]]]
  BY DEF Typed, TypeOK
<1>2. disk' = disk \/ disk' = [disk EXCEPT ![dep[c].app][dep[c].id] = file]
  BY DEF PersistIgnoringError, PersistDeployment
<1> HIDE DEF file
<1>3. \A a \in Apps, i \in IDs : disk'[a][i] = disk[a][i] \/ disk'[a][i] = file
  BY <1>1, <1>2
<1> QED
  BY <1>3 DEF file

\* A save that is carried out leaves the record in its place.
LEMMA PersistSaves ==
    ASSUME Typed, NEW c \in Calls, PersistDeployment(c),
           dep[c].app \in Apps, dep[c].id \in IDs
    PROVE  disk'[dep[c].app][dep[c].id].rec = dep[c]
<1>1. disk \in [Apps -> [IDs -> [call: Calls \cup {None}, rec: DeploymentRecord]]]
  BY DEF Typed, TypeOK
<1> QED
  BY <1>1 DEF PersistDeployment

-----------------------------------------------------------------------------
(* The steps of a call *)

\* What every step of a call but its send leaves alone.
LEMMA CallFacts ==
    ASSUME RInv, NEW c \in Calls,
           \/ \E a \in Apps : EnqueueCheck(c, a) \/ \E i \in IDs : RollbackTarget(c, a, i)
           \/ CallStep(c) /\ ~ SendJob(c)
    PROVE  /\ phase # "down"
           /\ UNCHANGED <<phase, jobQueue, workerPC, workerJob, doomed, removing, clearApp>>
           /\ callPC[c] \notin {"accepted", "gone", "refused"}
           /\ callPC'[c] \notin {"accepted", "gone"}
           /\ \A d \in Calls : d # c => callPC'[d] = callPC[d] /\ dep'[d] = dep[d]
           /\ ~ InQueue(c) /\ ~ Held(c)
           /\ \A i \in IDs, w \in Workers : cancelFns'[i] = w => cancelFns[i] = w
<1> USE DEF RInv, CallMoves, processVars, workerVars, deleteVars
<1>0. /\ dep \in [Calls -> DeploymentRecord] /\ callPC \in [Calls -> CallPCs]
      /\ cancelFns \in [IDs -> Workers \cup {Discarded, None}]
  BY DEF IInv, Typed, TypeOK
<1>1. callPC[c] # "accepted" => ~ InQueue(c) /\ ~ Held(c)
  <2>1. callPC[c] # "accepted" => ~ InQueue(c)
    BY DEF IInv, JobsOK, InQueue
  <2>2. callPC[c] # "accepted" => ~ Held(c)
    BY ConstantsAssumption DEF IInv, JobsOK, Held
  <2> QED
    BY <2>1, <2>2
<1>2. ASSUME NEW a \in Apps, EnqueueCheck(c, a)
      PROVE  /\ phase # "down" /\ callPC[c] = "idle" /\ callPC' = [callPC EXCEPT ![c] = "checked"]
             /\ dep' = [dep EXCEPT ![c].app = a]
             /\ UNCHANGED <<phase, jobQueue, cancelFns, workerPC, workerJob, doomed, removing,
                            clearApp>>
  BY <1>2 DEF EnqueueCheck, MayCall, Answering
<1>3. ASSUME NEW a \in Apps, NEW i \in IDs, RollbackTarget(c, a, i)
      PROVE  /\ phase # "down" /\ callPC[c] = "idle" /\ callPC' = [callPC EXCEPT ![c] = "targeted"]
             /\ dep' = [dep EXCEPT ![c].app = a, ![c].rollbackTo = dep[deployments[i]].imageID]
             /\ UNCHANGED <<phase, jobQueue, cancelFns, workerPC, workerJob, doomed, removing,
                            clearApp>>
  BY <1>3 DEF RollbackTarget, MayCall, Answering
<1>4. ASSUME CallStep(c), ~ SendJob(c)
      PROVE  /\ callPC[c] \in UnderWay
             /\ \E to \in CallPCs \ {"accepted", "gone"} : callPC' = [callPC EXCEPT ![c] = to]
             /\ UNCHANGED <<phase, jobQueue, workerPC, workerJob, doomed, removing, clearApp>>
             /\ cancelFns' \in {cancelFns, [cancelFns EXCEPT ![dep[c].id] = Discarded]}
  BY <1>4 DEF CallStep, RollbackCheck, NumberDeployment, PersistNew, PersistNewFails, InsertNew,
              RegisterCancel, ResaveRollback, QueueFull, PersistRefused, UnderWay, CallPCs
<1>5. ASSUME CallStep(c), ~ SendJob(c), NEW d \in Calls, d # c
      PROVE  dep'[d] = dep[d]
  BY <1>0, <1>5 DEF CallStep, RollbackCheck, NumberDeployment, PersistNew, PersistNewFails,
              InsertNew, RegisterCancel, ResaveRollback, QueueFull, PersistRefused
<1>6. CASE \E a \in Apps : EnqueueCheck(c, a) \/ \E i \in IDs : RollbackTarget(c, a, i)
  <2>1. /\ phase # "down" /\ callPC[c] = "idle"
        /\ \E to \in {"checked", "targeted"} : callPC' = [callPC EXCEPT ![c] = to]
        /\ \A d \in Calls : d # c => dep'[d] = dep[d]
        /\ UNCHANGED <<phase, jobQueue, cancelFns, workerPC, workerJob, doomed, removing, clearApp>>
    BY <1>0, <1>2, <1>3, <1>6
  <2> QED
    BY <1>0, <1>1, <2>1
<1>7. CASE CallStep(c) /\ ~ SendJob(c)
  <2>1. phase # "down" /\ callPC[c] \notin {"accepted", "gone", "refused"}
    BY <1>4, <1>7 DEF IInv, DownOK, UnderWay
  <2>2. \A i \in IDs, w \in Workers : cancelFns'[i] = w => cancelFns[i] = w
    BY <1>0, <1>4, <1>7, ConstantsAssumption
  <2> QED
    BY <1>0, <1>1, <1>4, <1>5, <1>7, <2>1, <2>2
<1> QED
  BY <1>6, <1>7

\* The call's own record has the status that goes with where the call is.
LEMMA CallKeepsItsStatus ==
    ASSUME RInv, NEW c \in Calls,
           \/ \E a \in Apps : EnqueueCheck(c, a) \/ \E i \in IDs : RollbackTarget(c, a, i)
           \/ CallStep(c) /\ ~ SendJob(c)
    PROVE  CallStatus(c)'
<1> USE DEF RInv, CallMoves, Early
<1>0. /\ dep \in [Calls -> DeploymentRecord] /\ callPC \in [Calls -> CallPCs]
      /\ CallStatus(c)
  BY DEF IInv, Typed, TypeOK
<1>1. ~ InQueue(c)' /\ callPC'[c] # "accepted"
  BY CallFacts DEF InQueue
<1>2. SUFFICES
        /\ callPC'[c] \in Early => dep'[c].status = "absent"
        /\ callPC'[c] \in {"numbered", "persisted", "inserted", "sending"} =>
              dep'[c].status = "queued"
        /\ callPC'[c] = "refused" /\ dep'[c].id # None => dep'[c].app \in Apps
  BY <1>1 DEF CallStatus
<1>3. ASSUME NEW a \in Apps, EnqueueCheck(c, a)
      PROVE  callPC'[c] = "checked" /\ dep'[c].status = "absent"
  BY <1>0, <1>3 DEF EnqueueCheck, CallStatus, DeploymentRecord
<1>4. ASSUME NEW a \in Apps, NEW i \in IDs, RollbackTarget(c, a, i)
      PROVE  callPC'[c] = "targeted" /\ dep'[c].status = "absent"
  <2>1. dep' = [dep EXCEPT ![c].app = a, ![c].rollbackTo = dep[deployments[i]].imageID]
    BY <1>4 DEF RollbackTarget
  <2>2. dep'[c].status = dep[c].status
    BY <1>0, <2>1 DEF DeploymentRecord
  <2> QED
    BY <1>0, <1>4, <2>2 DEF RollbackTarget, CallStatus
<1>5. CASE RollbackCheck(c)
  BY <1>0, <1>5 DEF RollbackCheck, NoDeployment, CallStatus
<1>6. CASE NumberDeployment(c)
  <2> DEFINE n == NextDeploymentID(dep[c].app)
  <2>1. dep' = [dep EXCEPT ![c].id = n, ![c].status = "queued", ![c].created = clock']
    BY <1>6 DEF NumberDeployment
  <2> HIDE DEF n
  <2>2. dep'[c].status = "queued"
    BY <1>0, <2>1 DEF DeploymentRecord
  <2> QED
    BY <1>0, <1>6, <2>2 DEF NumberDeployment
<1>7. CASE PersistNewFails(c)
  BY <1>0, <1>7 DEF PersistNewFails, NoDeployment
<1>8. CASE PersistNew(c) \/ InsertNew(c) \/ RegisterCancel(c) \/ ResaveRollback(c)
  BY <1>0, <1>8 DEF PersistNew, InsertNew, RegisterCancel, ResaveRollback, CallStatus
<1>9. CASE QueueFull(c)
  BY <1>0, <1>9 DEF QueueFull
<1>10. CASE PersistRefused(c)
  BY <1>0, <1>10 DEF PersistRefused, IInv, JobsOK, UnderWay
<1> QED
  BY <1>3, <1>4, <1>5, <1>6, <1>7, <1>8, <1>9, <1>10 DEF CallStep

\* A call writes no file before it has a record.
LEMMA CallKeepsFiles ==
    ASSUME RInv, NEW c \in Calls,
           \/ \E a \in Apps : EnqueueCheck(c, a) \/ \E i \in IDs : RollbackTarget(c, a, i)
           \/ CallStep(c) /\ ~ SendJob(c)
    PROVE  FilesOK'
<1> USE DEF RInv, CallMoves
<1>0. callPC \in [Calls -> CallPCs] /\ Typed
  BY DEF IInv, Typed, TypeOK
<1>1. \/ UNCHANGED disk
      \/ /\ PersistIgnoringError(c)
         /\ callPC'[c] \notin Early
  <2>1. CASE PersistNew(c) \/ ResaveRollback(c) \/ PersistRefused(c)
    <3>1. PersistIgnoringError(c)
      BY <2>1 DEF PersistNew, ResaveRollback, PersistRefused, PersistIgnoringError
    <3>2. callPC'[c] \in {"persisted", "sending", "refused"}
      BY <1>0, <2>1 DEF PersistNew, ResaveRollback, PersistRefused
    <3> QED
      BY <3>1, <3>2 DEF Early
  <2>2. CASE ~ (PersistNew(c) \/ ResaveRollback(c) \/ PersistRefused(c))
    BY <2>2 DEF EnqueueCheck, RollbackTarget, CallStep, RollbackCheck, NumberDeployment,
                PersistNewFails, InsertNew, RegisterCancel, QueueFull
  <2> QED
    BY <2>1, <2>2
<1>2. \A a \in Apps, i \in IDs :
         \/ disk'[a][i].call \in {disk[a][i].call, None}
         \/ disk'[a][i].call \in Calls /\ callPC'[disk'[a][i].call] \notin Early
  <2>1. CASE UNCHANGED disk
    BY <2>1
  <2>2. ASSUME PersistIgnoringError(c), callPC'[c] \notin Early, NEW a \in Apps, NEW i \in IDs,
               disk'[a][i].call # disk[a][i].call
        PROVE  disk'[a][i].call = c
    BY <1>0, <2>2, PersistFacts
  <2> QED
    BY <1>1, <2>1, <2>2
<1>3. callPC'[c] \in Early => callPC[c] \in Early
  BY <1>0 DEF EnqueueCheck, RollbackTarget, CallStep, RollbackCheck, NumberDeployment,
              PersistNew, PersistNewFails, InsertNew, RegisterCancel, ResaveRollback, QueueFull,
              PersistRefused, Early
<1>4. phase' # "down" /\ \A d \in Calls : callPC'[d] \in Early => callPC[d] \in Early
  BY <1>3, CallFacts
<1> QED
  BY <1>0, <1>2, <1>4, FilesFrame

\* So every step of a call but its send keeps the invariant.
LEMMA CallKeepsRecords ==
    ASSUME RInv, IInv', NEW c \in Calls,
           \/ \E a \in Apps : EnqueueCheck(c, a) \/ \E i \in IDs : RollbackTarget(c, a, i)
           \/ CallStep(c) /\ ~ SendJob(c)
    PROVE  RInv'
<1>1. ASSUME NEW d \in Calls
      PROVE  CallStatus(d)'
  <2>1. CASE d = c
    BY <2>1, CallKeepsItsStatus
  <2>2. CASE d # c
    BY <2>2, CallFacts, CallStatusFrame DEF RInv, InQueue, Held
  <2> QED
    BY <2>1, <2>2
<1>2. ASSUME NEW w \in Workers
      PROVE  RunStatus(w)'
  BY CallFacts, RunStatusFrame DEF RInv, Held
<1>3. CancelHitsItsJob'
  <2> SUFFICES ASSUME NEW i \in IDs, NEW w \in Workers, cancelFns'[i] = w
               PROVE  workerPC'[w] \in LockedPCs /\ dep'[workerJob'[w]].id = i
    BY DEF CancelHitsItsJob
  <2>1. workerPC[w] \in LockedPCs /\ dep[workerJob[w]].id = i
    BY CallFacts DEF RInv, CancelHitsItsJob
  <2>2. workerJob[w] \in Calls /\ workerJob[w] # c
    BY <2>1, CallFacts DEF RInv, IInv, Typed, WorkersHaveJobs, Held
  <2> QED
    BY <2>1, <2>2, CallFacts
<1> QED
  BY <1>1, <1>2, <1>3, CallKeepsFiles DEF RInv

\* A send puts a queued deployment in the channel.
LEMMA SendKeepsRecords ==
    ASSUME RInv, IInv', NEW c \in Calls, SendJob(c)
    PROVE  RInv'
<1> USE DEF RInv
<1>1. /\ callPC[c] = "sending" /\ callPC' = [callPC EXCEPT ![c] = "accepted"]
      /\ callPC \in [Calls -> CallPCs] /\ jobQueue \in Seq(Calls)
      /\ jobQueue' = Append(jobQueue, c)
      /\ UNCHANGED <<phase, dep, disk, cancelFns, workerPC, workerJob>>
  BY DEF SendJob, CallMoves, processVars, workerVars, IInv, Typed, TypeOK
<1>2. /\ Len(jobQueue') = Len(jobQueue) + 1 /\ Len(jobQueue) \in Nat
      /\ jobQueue'[Len(jobQueue) + 1] = c
      /\ \A n \in 1..Len(jobQueue) : jobQueue'[n] = jobQueue[n]
  BY <1>1
<1>3. /\ InQueue(c)'
      /\ \A d \in Calls : d # c => (InQueue(d)' <=> InQueue(d))
      /\ \A d \in Calls : Held(d)' <=> Held(d)
  BY <1>1, <1>2 DEF InQueue, Held
<1>4. ASSUME NEW d \in Calls
      PROVE  CallStatus(d)'
  <2>1. CASE d = c
    BY <1>1, <1>3, <2>1 DEF CallStatus, Early
  <2>2. CASE d # c
    BY <1>1, <1>3, <2>2, CallStatusFrame
  <2> QED
    BY <2>1, <2>2
<1>5. ASSUME NEW w \in Workers
      PROVE  RunStatus(w)'
  BY <1>1, RunStatusFrame
<1>6. FilesOK'
  BY <1>1, FilesFrame DEF FilesOK, IInv, DownOK, UnderWay, Early
<1>7. CancelHitsItsJob'
  BY <1>1 DEF CancelHitsItsJob
<1> QED
  BY <1>4, <1>5, <1>6, <1>7

-----------------------------------------------------------------------------
(* The steps of a worker *)

\* A worker that has its application's mutex, and a step of its own that does
\* not end the run, change the record of its job alone.
LEMMA RunFacts ==
    ASSUME RInv, NEW w \in Workers, RunStep(w), ~ FinishJob(w), ~ DeleteStep(w)
    PROVE  /\ phase # "down" /\ workerPC[w] \in LockedPCs /\ workerPC'[w] \in LockedPCs
           /\ workerJob[w] \in Calls /\ callPC[workerJob[w]] = "accepted"
           /\ Held(workerJob[w]) /\ ~ InQueue(workerJob[w])
           /\ UNCHANGED <<phase, callPC, jobQueue, cancelFns, workerJob>>
           /\ \A v \in Workers : v # w => workerPC'[v] = workerPC[v] /\ workerJob[v] # workerJob[w]
           /\ \A d \in Calls : d # workerJob[w] => dep'[d] = dep[d]
           /\ dep'[workerJob[w]].id = dep[workerJob[w]].id
           /\ dep'[workerJob[w]].app = dep[workerJob[w]].app
<1> USE DEF RInv, RunMoves, WorkerMoves, processVars, callVars, workerVars, LockedPCs
<1> DEFINE c == workerJob[w]
<1>0. /\ dep \in [Calls -> DeploymentRecord] /\ workerPC \in [Workers -> WorkerPCs]
  BY DEF IInv, Typed, TypeOK
<1>1. workerPC[w] \in LockedPCs /\ workerPC'[w] \in LockedPCs
  BY <1>0, StoreRecordMoves
     DEF RunStep, StartJob, OpenLogFails, PersistStart, ExecuteStage, ExecuteRollbackImage,
         ExecuteSucceeds, ExecuteFails, PersistSuccess, ListOld, PersistOutcome
<1>2. /\ UNCHANGED <<phase, callPC, jobQueue, cancelFns, workerJob>>
      /\ \A v \in Workers : v # w => workerPC'[v] = workerPC[v]
  BY <1>0, StoreRecordMoves
     DEF RunStep, StartJob, OpenLogFails, PersistStart, ExecuteStage, ExecuteRollbackImage,
         ExecuteSucceeds, ExecuteFails, PersistSuccess, ListOld, PersistOutcome
<1>3. c \in Calls /\ c # None
  BY <1>1 DEF IInv, Typed, WorkersHaveJobs, JobsOK
<1>4. /\ callPC[c] = "accepted" /\ Held(c) /\ ~ InQueue(c)
      /\ \A v \in Workers : v # w => workerJob[v] # c
  BY <1>3 DEF IInv, JobsOK, Held, InQueue
<1>5. phase # "down"
  BY <1>4, <1>3 DEF IInv, DownOK
<1>6. \/ UNCHANGED dep
      \/ \E s : dep' = [dep EXCEPT ![c].status = s]
      \/ \E s, i : dep' = [dep EXCEPT ![c].status = s, ![c].imageID = i]
      \/ \E i : dep' = [dep EXCEPT ![c].imageID = i]
  <2>1. CASE StartJob(w) \/ OpenLogFails(w) \/ ExecuteSucceeds(w) \/ ExecuteFails(w)
    BY <2>1 DEF StartJob, OpenLogFails, ExecuteSucceeds, ExecuteFails, SetStatus
  <2>2. CASE ExecuteStage(w)
    BY <2>2 DEF ExecuteStage
  <2>3. CASE ExecuteRollbackImage(w)
    BY <2>3 DEF ExecuteRollbackImage
  <2>4. CASE \/ StoreRecord(w) \/ PersistStart(w) \/ PersistSuccess(w) \/ ListOld(w)
             \/ PersistOutcome(w)
    BY <2>4 DEF StoreRecord, PersistStart, PersistSuccess, ListOld, PersistOutcome
  <2> QED
    BY <2>1, <2>2, <2>3, <2>4 DEF RunStep
<1> HIDE DEF c
<1>7. /\ \A d \in Calls : d # c => dep'[d] = dep[d]
      /\ dep'[c].id = dep[c].id /\ dep'[c].app = dep[c].app
  <2>1. CASE UNCHANGED dep \/ \E s : dep' = [dep EXCEPT ![c].status = s]
    BY <1>0, <1>3, <2>1 DEF DeploymentRecord
  <2>2. CASE \E s, i : dep' = [dep EXCEPT ![c].status = s, ![c].imageID = i]
    BY <1>0, <1>3, <2>2 DEF DeploymentRecord
  <2>3. CASE \E i : dep' = [dep EXCEPT ![c].imageID = i]
    BY <1>0, <1>3, <2>3 DEF DeploymentRecord
  <2> QED
    BY <1>6, <2>1, <2>2, <2>3
<1> QED
  BY <1>1, <1>2, <1>3, <1>4, <1>5, <1>7 DEF c

\* The status of the job follows the worker.
LEMMA RunKeepsItsStatus ==
    ASSUME RInv, NEW w \in Workers, RunStep(w), ~ FinishJob(w), ~ DeleteStep(w)
    PROVE  RunStatus(w)'
<1> USE DEF RInv
<1> DEFINE c == workerJob[w]
<1>0. /\ dep \in [Calls -> DeploymentRecord] /\ workerPC \in [Workers -> WorkerPCs]
      /\ RunStatus(w) /\ c \in Calls /\ workerJob' = workerJob
  BY RunFacts DEF IInv, Typed, TypeOK
<1> HIDE DEF RInv
<1>1. ASSUME NEW to, NEW s, RunMoves(w, workerPC[w], to), SetStatus(c, s)
      PROVE  workerPC'[w] = to /\ dep'[c].status = s
  BY <1>0, <1>1 DEF RunMoves, WorkerMoves, SetStatus, DeploymentRecord
<1>2. CASE StartJob(w)
  <2>1. workerPC'[w] = "storing_start" /\ dep'[c].status = "preparing"
    BY <1>1, <1>2 DEF StartJob, RunMoves, WorkerMoves
  <2> QED
    BY <1>0, <2>1 DEF RunStatus
<1>3. CASE OpenLogFails(w)
  <2>1. workerPC'[w] = "storing_end" /\ dep'[c].status = "failed"
    BY <1>1, <1>3 DEF OpenLogFails, RunMoves, WorkerMoves
  <2> QED
    BY <1>0, <2>1 DEF RunStatus
<1>4. CASE PersistStart(w)
  BY <1>0, <1>4 DEF PersistStart, RunMoves, WorkerMoves, RunStatus, Executing
<1>5. CASE ExecuteStage(w)
  <2> DEFINE from == dep[c].status
             to == Transition(from, NextStage[from])
  <2>1. from \in Executing /\ workerPC'[w] = "executing" /\ dep[c].rollbackTo = None
    BY <1>0, <1>5 DEF ExecuteStage, RunStatus, workerVars
  <2>2. to \in Executing
    BY <1>5, <2>1 DEF ExecuteStage, NextStage, Transition, Executing
  <2>3. \E i : dep' = [dep EXCEPT ![c].status = to, ![c].imageID = i]
    BY <1>5 DEF ExecuteStage
  <2> HIDE DEF to
  <2>4. dep'[c].status = to /\ dep'[c].rollbackTo = None
    BY <1>0, <2>1, <2>3 DEF DeploymentRecord
  <2> QED
    BY <1>0, <2>1, <2>2, <2>4 DEF RunStatus
<1>6. CASE ExecuteRollbackImage(w)
  <2>1. dep'[c].status = dep[c].status /\ dep'[c].rollbackTo = dep[c].rollbackTo
    BY <1>0, <1>6 DEF ExecuteRollbackImage, DeploymentRecord
  <2>2. workerPC'[w] = workerPC[w]
    BY <1>6 DEF ExecuteRollbackImage, workerVars
  <2> QED
    BY <1>0, <2>1, <2>2 DEF RunStatus
<1>7. CASE ExecuteSucceeds(w)
  <2>1. workerPC'[w] = "storing_success" /\ dep'[c].status = "success"
    BY <1>1, <1>7 DEF ExecuteSucceeds, RunMoves, WorkerMoves
  <2> QED
    BY <1>0, <2>1 DEF RunStatus
<1>8. CASE ExecuteFails(w)
  <2>1. workerPC'[w] = "storing_end" /\ dep'[c].status \in {"failed", "cancelled"}
    BY <1>1, <1>8 DEF ExecuteFails, RunMoves, WorkerMoves
  <2> QED
    BY <1>0, <2>1 DEF RunStatus
<1>9. CASE PersistSuccess(w) \/ ListOld(w)
  BY <1>0, <1>9 DEF PersistSuccess, ListOld, RunMoves, WorkerMoves, RunStatus
<1>10. CASE PersistOutcome(w)
  BY <1>0, <1>10 DEF PersistOutcome, RunMoves, WorkerMoves, RunStatus
<1>11. CASE StoreRecord(w)
  <2>1. UNCHANGED dep
    BY <1>11 DEF StoreRecord
  <2> QED
    BY <1>0, <1>11, <2>1, StoreRecordMoves DEF RunMoves, WorkerMoves, RunStatus
<1> QED
  BY <1>2, <1>3, <1>4, <1>5, <1>6, <1>7, <1>8, <1>9, <1>10, <1>11 DEF RunStep

\* So a run that goes on keeps the invariant.
LEMMA RunKeepsRecords ==
    ASSUME RInv, IInv', NEW w \in Workers, RunStep(w), ~ FinishJob(w), ~ DeleteStep(w)
    PROVE  RInv'
<1> DEFINE c == workerJob[w]
<1>1. ASSUME NEW d \in Calls
      PROVE  CallStatus(d)'
  <2>1. (InQueue(d)' <=> InQueue(d)) /\ (Held(d)' <=> Held(d))
    BY RunFacts DEF InQueue, Held
  <2>2. CASE d = c
    BY <2>1, <2>2, RunFacts DEF CallStatus, Early
  <2>3. CASE d # c
    BY <2>1, <2>3, RunFacts, CallStatusFrame DEF RInv
  <2> QED
    BY <2>2, <2>3
<1>2. ASSUME NEW v \in Workers
      PROVE  RunStatus(v)'
  <2>1. CASE v = w
    BY <2>1, RunKeepsItsStatus
  <2>2. CASE v # w
    BY <2>2, RunFacts, RunStatusFrame DEF RInv
  <2> QED
    BY <2>1, <2>2
<1>3. FilesOK'
  <2>1. PersistIgnoringError(c) \/ UNCHANGED disk
    BY DEF RunStep, StartJob, OpenLogFails, StoreRecord, PersistStart, ExecuteStage,
           ExecuteRollbackImage, ExecuteSucceeds, ExecuteFails, PersistSuccess, ListOld,
           PersistOutcome
  <2>2. \A a \in Apps, i \in IDs : disk'[a][i].call \in {disk[a][i].call, c}
    BY <2>1, RunFacts, PersistFacts DEF RInv, IInv
  <2>3. c \in Calls /\ callPC'[c] \notin Early
    BY RunFacts DEF Early
  <2> QED
    BY <2>2, <2>3, RunFacts, FilesFrame DEF RInv, IInv
<1>4. CancelHitsItsJob'
  <2> SUFFICES ASSUME NEW i \in IDs, NEW v \in Workers, cancelFns'[i] = v
               PROVE  workerPC'[v] \in LockedPCs /\ dep'[workerJob'[v]].id = i
    BY DEF CancelHitsItsJob
  <2>1. workerPC[v] \in LockedPCs /\ dep[workerJob[v]].id = i
    BY RunFacts DEF RInv, CancelHitsItsJob
  <2>2. workerJob[v] \in Calls
    BY <2>1 DEF RInv, IInv, Typed, WorkersHaveJobs
  <2> QED
    BY <2>1, <2>2, RunFacts
<1> QED
  BY <1>1, <1>2, <1>3, <1>4 DEF RInv

\* A worker takes a queued deployment from the channel.
LEMMA TakeKeepsRecords ==
    ASSUME RInv, IInv', NEW w \in Workers, TakeJob(w)
    PROVE  RInv'
<1> DEFINE q == jobQueue
<1>0. PICK c \in Calls : c = Head(q)
  BY DEF TakeJob, RInv, IInv, Typed, TypeOK
<1>1. /\ workerPC \in [Workers -> WorkerPCs] /\ workerJob \in [Workers -> Calls \cup {None}]
      /\ workerPC[w] = "idle" /\ workerPC' = [workerPC EXCEPT ![w] = "locking"]
      /\ workerJob' = [workerJob EXCEPT ![w] = c] /\ q' = Tail(q)
      /\ q \in Seq(Calls) /\ q # <<>>
      /\ UNCHANGED <<phase, callPC, dep, disk, cancelFns>>
  BY <1>0 DEF TakeJob, WorkerMoves, processVars, callVars, RInv, IInv, Typed, TypeOK
<1>2. /\ c = q[1] /\ Len(q) \in Nat \ {0}
      /\ Len(q') = Len(q) - 1 /\ \A n \in 1..(Len(q) - 1) : q'[n] = q[n + 1]
  BY <1>0, <1>1
<1>3. workerJob[w] = None
  BY <1>1 DEF RInv, IInv, JobsOK, LockedPCs
<1>4. /\ InQueue(c)
      /\ \A d \in Calls : InQueue(d)' => InQueue(d)
      /\ \A d \in Calls : d # c => (InQueue(d) => InQueue(d)')
  <2>1. InQueue(c)
    BY <1>2 DEF InQueue
  <2>2. ASSUME NEW d \in Calls, InQueue(d)'
        PROVE  InQueue(d)
    <3>1. PICK n \in 1..(Len(q) - 1) : q[n + 1] = d
      BY <1>2, <2>2 DEF InQueue
    <3>2. n + 1 \in 1..Len(q)
      BY <1>2
    <3> QED
      BY <3>1, <3>2 DEF InQueue
  <2>3. ASSUME NEW d \in Calls, d # c, InQueue(d)
        PROVE  InQueue(d)'
    <3>1. PICK n \in 1..Len(q) : q[n] = d
      BY <2>3 DEF InQueue
    <3>2. n # 1
      BY <1>2, <2>3, <3>1
    <3>3. n - 1 \in 1..(Len(q) - 1) /\ n = (n - 1) + 1
      BY <1>2, <3>2
    <3>4. q'[n - 1] = q[n]
      BY <1>2, <3>3
    <3> QED
      BY <1>2, <3>1, <3>3, <3>4 DEF InQueue
  <2> QED
    BY <2>1, <2>2, <2>3
<1>5. /\ Held(c)'
      /\ \A d \in Calls : Held(d) => Held(d)'
  BY <1>1, <1>3, ConstantsAssumption DEF Held
<1>6. ASSUME NEW d \in Calls
      PROVE  CallStatus(d)'
  BY <1>1, <1>4, <1>5 DEF RInv, CallStatus
<1>7. ASSUME NEW v \in Workers
      PROVE  RunStatus(v)'
  <2>1. CASE v = w
    <3>1. dep[c].status = "queued"
      BY <1>2, <1>4 DEF RInv, CallStatus
    <3> QED
      BY <1>1, <2>1, <3>1 DEF RunStatus
  <2>2. CASE v # w
    BY <1>1, <2>2, RunStatusFrame DEF RInv
  <2> QED
    BY <2>1, <2>2
<1>8. FilesOK'
  BY <1>1 DEF RInv, FilesOK
<1>9. CancelHitsItsJob'
  BY <1>1 DEF RInv, CancelHitsItsJob, LockedPCs
<1> QED
  BY <1>6, <1>7, <1>8, <1>9 DEF RInv

\* A worker that returns has no job; one that gets the mutex registers a cancel
\* function under its job's number, and no other number had one of it.
LEMMA LockKeepsRecords ==
    ASSUME RInv, IInv', NEW w \in Workers, WorkerReturns(w) \/ LockApp(w)
    PROVE  RInv'
<1>1. /\ workerPC \in [Workers -> WorkerPCs]
      /\ cancelFns \in [IDs -> Workers \cup {Discarded, None}]
      /\ UNCHANGED <<phase, callPC, dep, disk, jobQueue, workerJob>>
      /\ \/ /\ workerPC[w] = "idle" /\ workerPC' = [workerPC EXCEPT ![w] = "exited"]
            /\ cancelFns' = cancelFns
         \/ /\ workerPC[w] = "locking" /\ workerPC' = [workerPC EXCEPT ![w] = "opening"]
            /\ cancelFns' = [cancelFns EXCEPT ![dep[workerJob[w]].id] = w]
  BY DEF WorkerReturns, LockApp, WorkerMoves, processVars, callVars, stores, RInv, IInv, Typed,
         TypeOK
<1>2. ASSUME NEW d \in Calls
      PROVE  CallStatus(d)'
  BY <1>1 DEF RInv, CallStatus, InQueue, Held
<1>3. ASSUME NEW v \in Workers
      PROVE  RunStatus(v)'
  <2>1. CASE v = w
    BY <1>1, <2>1 DEF RInv, RunStatus
  <2>2. CASE v # w
    BY <1>1, <2>2, RunStatusFrame DEF RInv
  <2> QED
    BY <2>1, <2>2
<1>4. CancelHitsItsJob'
  <2> SUFFICES ASSUME NEW i \in IDs, NEW v \in Workers, cancelFns'[i] = v
               PROVE  workerPC'[v] \in LockedPCs /\ dep[workerJob[v]].id = i
    BY <1>1 DEF CancelHitsItsJob
  <2>1. CASE cancelFns[i] = v
    BY <1>1, <2>1 DEF RInv, CancelHitsItsJob, LockedPCs
  <2>2. CASE cancelFns[i] # v
    <3>1. v = w /\ i = dep[workerJob[w]].id /\ workerPC'[w] = "opening"
      BY <1>1, <2>2
    <3> QED
      BY <3>1 DEF LockedPCs
  <2> QED
    BY <2>1, <2>2
<1> QED
  BY <1>1, <1>2, <1>3, <1>4 DEF RInv, FilesOK

\* A worker that finishes has a job that ended, and takes its cancel function
\* with it.
LEMMA FinishKeepsRecords ==
    ASSUME RInv, IInv', NEW w \in Workers, FinishJob(w)
    PROVE  RInv'
<1> DEFINE c == workerJob[w]
<1>1. /\ workerPC \in [Workers -> WorkerPCs]
      /\ workerJob \in [Workers -> Calls \cup {None}]
      /\ cancelFns \in [IDs -> Workers \cup {Discarded, None}]
      /\ UNCHANGED <<phase, callPC, dep, disk, jobQueue>>
      /\ workerPC[w] \in {"finishing", "pruning"}
      /\ workerPC' = [workerPC EXCEPT ![w] = "idle"]
      /\ workerJob' = [workerJob EXCEPT ![w] = None]
      /\ cancelFns' = [cancelFns EXCEPT ![dep[c].id] = None]
  BY DEF FinishJob, LeaveJob, processVars, callVars, RInv, IInv, Typed, TypeOK
<1>2. c \in Calls /\ dep[c].status \in {"success", "failed", "cancelled"}
  BY <1>1 DEF RInv, RunStatus, IInv, Typed, WorkersHaveJobs, LockedPCs
<1>3. ASSUME NEW d \in Calls
      PROVE  CallStatus(d)'
  <2>1. InQueue(d)' <=> InQueue(d)
    BY <1>1 DEF InQueue
  <2>2. CASE d = c
    BY <1>1, <1>2, <2>1, <2>2 DEF RInv, CallStatus, IsTerminal
  <2>3. CASE d # c
    BY <1>1, <2>1, <2>3 DEF RInv, CallStatus, Held
  <2> QED
    BY <2>2, <2>3
<1>4. ASSUME NEW v \in Workers
      PROVE  RunStatus(v)'
  <2>1. CASE v = w
    BY <1>1, <2>1 DEF RunStatus
  <2>2. CASE v # w
    BY <1>1, <2>2, RunStatusFrame DEF RInv
  <2> QED
    BY <2>1, <2>2
<1>5. CancelHitsItsJob'
  <2> SUFFICES ASSUME NEW i \in IDs, NEW v \in Workers, cancelFns'[i] = v
               PROVE  workerPC'[v] \in LockedPCs /\ dep[workerJob'[v]].id = i
    BY <1>1 DEF CancelHitsItsJob
  <2>1. cancelFns[i] = v /\ i # dep[c].id
    BY <1>1, ConstantsAssumption
  <2>2. workerPC[v] \in LockedPCs /\ dep[workerJob[v]].id = i
    BY <2>1 DEF RInv, CancelHitsItsJob
  <2>3. v # w
    BY <2>1, <2>2
  <2> QED
    BY <1>1, <2>2, <2>3
<1> QED
  BY <1>1, <1>3, <1>4, <1>5 DEF RInv, FilesOK

-----------------------------------------------------------------------------
(* All other steps, and the theorems *)

\* A cancel, a deletion, a clear, a phase of Shutdown, the end of start-up.
LEMMA QuietKeepsRecords ==
    ASSUME RInv, IInv',
           UNCHANGED <<callPC, dep, jobQueue, cancelFns, workerPC, workerJob>>,
           phase' = "down" => phase = "down",
           \A a \in Apps, i \in IDs : disk'[a][i].call \in {disk[a][i].call, None}
    PROVE  RInv'
<1>1. ASSUME NEW d \in Calls
      PROVE  CallStatus(d)'
  BY DEF RInv, CallStatus, InQueue, Held
<1>2. ASSUME NEW w \in Workers
      PROVE  RunStatus(w)'
  BY DEF RInv, RunStatus
<1>3. FilesOK'
  BY FilesFrame DEF RInv, IInv, FilesOK
<1> QED
  BY <1>1, <1>2, <1>3 DEF RInv, CancelHitsItsJob

\* A deletion takes a file away, or leaves all as they are.
LEMMA DeleteFacts ==
    ASSUME Typed, NEW d \in Deleters, DeleteStep(d)
    PROVE  /\ \A a \in Apps, i \in IDs : disk'[a][i] \in {disk[a][i], NoRecord}
           /\ UNCHANGED <<phase, callPC, dep, jobQueue, cancelFns, workerPC, workerJob>>
<1> USE DEF processVars, callVars, workerVars
<1>1. ASSUME NEW i \in IDs, DeleteEntry(d, i)
      PROVE  UNCHANGED <<phase, callPC, dep, disk, jobQueue, cancelFns, workerPC, workerJob>>
  BY <1>1 DEF DeleteEntry
<1>2. CASE RemoveDirectory(d)
  <2>1. \E a : disk' = disk \/ disk' = [disk EXCEPT ![a][removing[d]] = NoRecord]
    BY <1>2 DEF RemoveDirectory
  <2>2. disk \in [Apps -> [IDs -> [call: Calls \cup {None}, rec: DeploymentRecord]]]
    BY DEF Typed, TypeOK
  <2>3. \A a \in Apps, i \in IDs : disk'[a][i] \in {disk[a][i], NoRecord}
    BY <2>1, <2>2
  <2> QED
    BY <1>2, <2>3 DEF RemoveDirectory
<1> QED
  BY <1>1, <1>2 DEF DeleteStep

\* A process that ends leaves the files; a process that starts loads them, and
\* no record of them is of a call that has none.
LEMMA ProcessKeepsRecords ==
    ASSUME RInv, IInv', ProcessEnds \/ Boot
    PROVE  RInv'
<1>1. CASE ProcessEnds
  <2>1. /\ callPC' = [c \in Calls |-> IF callPC[c] = "idle" THEN "idle" ELSE "gone"]
        /\ dep' = [c \in Calls |-> NoDeployment] /\ jobQueue' = <<>>
        /\ cancelFns' = [i \in IDs |-> None]
        /\ workerPC' = [w \in Workers |-> "idle"] /\ workerJob' = [w \in Workers |-> None]
        /\ UNCHANGED disk
    BY <1>1 DEF ProcessEnds
  <2>2. \A c \in Calls : CallStatus(c)'
    BY <2>1 DEF CallStatus, Early, InQueue, NoDeployment
  <2>3. \A w \in Workers : RunStatus(w)'
    BY <2>1 DEF RunStatus
  <2>4. FilesOK'
    BY <2>1, FilesFrame DEF RInv, IInv, Early
  <2>5. CancelHitsItsJob'
    BY <2>1, ConstantsAssumption DEF CancelHitsItsJob
  <2> QED
    BY <2>2, <2>3, <2>4, <2>5 DEF RInv
<1>2. CASE Boot
  <2>1. /\ phase = "down" /\ phase' = "booting"
        /\ UNCHANGED <<callPC, disk, cancelFns, jobQueue, workerPC, workerJob>>
    BY <1>2 DEF Boot, callVars, workerVars
  <2>2. /\ jobQueue = <<>> /\ \A w \in Workers : workerPC[w] = "idle"
        /\ \A c \in Calls : callPC[c] \in {"idle", "gone"}
    BY <2>1 DEF RInv, IInv, DownOK, FilesOK
  <2>3. ASSUME NEW c \in Calls, callPC[c] \in Early
        PROVE  dep'[c].status = "absent"
    <3>1. ASSUME NEW i \in IDs
          PROVE  LoadedFrom(i).call # c
      <4>1. CASE \E a \in Apps : LastOwner(i, a)
        <5> DEFINE a == CHOOSE b \in Apps : LastOwner(i, b)
        <5>1. a \in Apps
          BY <4>1
        <5>2. LoadedFrom(i) = disk[a][i]
          BY <4>1 DEF LoadedFrom
        <5> HIDE DEF a
        <5> QED
          BY <2>3, <5>1, <5>2, ConstantsAssumption DEF RInv, FilesOK
      <4>2. CASE ~ \E a \in Apps : LastOwner(i, a)
        BY <4>2, ConstantsAssumption DEF LoadedFrom, NoRecord
      <4> QED
        BY <4>1, <4>2
    <3>2. dep'[c] = NoDeployment
      BY <1>2, <3>1 DEF Boot
    <3> QED
      BY <3>2 DEF NoDeployment
  <2>4. ASSUME NEW c \in Calls
        PROVE  CallStatus(c)'
    BY <2>1, <2>2, <2>3 DEF CallStatus, InQueue
  <2>5. \A w \in Workers : RunStatus(w)'
    BY <2>1, <2>2 DEF RunStatus
  <2>6. FilesOK'
    BY <2>1 DEF RInv, FilesOK
  <2>7. CancelHitsItsJob'
    BY <2>1, <2>2 DEF RInv, CancelHitsItsJob, LockedPCs
  <2> QED
    BY <2>4, <2>5, <2>6, <2>7 DEF RInv
<1> QED
  BY <1>1, <1>2

\* The service starts without records.
LEMMA InitRecords == Init => RInv
<1> SUFFICES ASSUME Init
             PROVE  RInv
  OBVIOUS
<1>1. \A c \in Calls : CallStatus(c)
  BY DEF Init, CallStatus, Early, NoDeployment, InQueue
<1>2. \A w \in Workers : RunStatus(w)
  BY DEF Init, RunStatus
<1>3. FilesOK /\ CancelHitsItsJob
  BY ConstantsAssumption DEF Init, FilesOK, NoRecord, CancelHitsItsJob
<1> QED
  BY <1>1, <1>2, <1>3, InitInv DEF RInv

\* Every step keeps the invariant.
LEMMA NextRecords == RInv /\ [Next]_vars => RInv'
<1> SUFFICES ASSUME RInv, [Next]_vars
             PROVE  RInv'
  OBVIOUS
<1>1. IInv'
  BY NextInv DEF RInv
<1>2. CASE UNCHANGED vars
  BY <1>1, <1>2, QuietKeepsRecords DEF vars, processVars, callVars, stores, workerVars
<1>3. ASSUME NEW c \in Calls, NEW a \in Apps,
             EnqueueCheck(c, a) \/ \E i \in IDs : RollbackTarget(c, a, i)
      PROVE  RInv'
  BY <1>1, <1>3, CallKeepsRecords
<1>4. ASSUME NEW c \in Calls, CallStep(c)
      PROVE  RInv'
  BY <1>1, <1>4, CallKeepsRecords, SendKeepsRecords
<1>5. ASSUME NEW i \in IDs, Cancel(i)
      PROVE  RInv'
  BY <1>1, <1>5, QuietKeepsRecords DEF Cancel, processVars, callVars, stores
<1>6. ASSUME NEW d \in Deleters, DeleteStep(d)
      PROVE  RInv'
  BY <1>1, <1>6, QuietKeepsRecords, DeleteFacts DEF NoRecord, RInv, IInv
<1>7. ASSUME NEW w \in Workers, TakeJob(w) \/ WorkerReturns(w) \/ LockApp(w) \/ RunStep(w)
      PROVE  RInv'
  BY <1>1, <1>6, <1>7, TakeKeepsRecords, LockKeepsRecords, RunKeepsRecords, FinishKeepsRecords
     DEF Deleters
<1>8. ASSUME NEW h \in Handlers, DeleteStep(h) \/ \E a \in Apps : ClearFailedList(h, a)
      PROVE  RInv'
  <2>1. CASE \E a \in Apps : ClearFailedList(h, a)
    BY <1>1, <2>1, QuietKeepsRecords
       DEF ClearFailedList, processVars, callVars, stores, workerVars
  <2> QED
    BY <1>6, <1>8, <2>1 DEF Deleters
<1>9. CASE CloseShutdown \/ CancelAll \/ ShutdownReturns \/ Reconcile
  BY <1>1, <1>9, QuietKeepsRecords
     DEF CloseShutdown, CancelAll, ShutdownReturns, Reconcile, ReconciledRecords,
         callVars, stores, workerVars
<1>10. CASE ProcessEnds \/ Boot
  BY <1>1, <1>10, ProcessKeepsRecords
<1> QED
  BY <1>2, <1>3, <1>4, <1>5, <1>7, <1>8, <1>9, <1>10 DEF Next

\* The invariant holds in every reachable state.
LEMMA RecordsInv == Spec => []RInv
BY InitRecords, NextRecords, PTL DEF Spec

\* A set whose members are all the same has one or none.
LEMMA AtMostOne ==
    ASSUME NEW S, \A x, y \in S : x = y
    PROVE  /\ S = {} => Cardinality(S) = 0
           /\ S # {} => Cardinality(S) = 1
<1>1. S = {} => Cardinality(S) = 0
  BY FS_EmptySet
<1>2. ASSUME S # {}
      PROVE  Cardinality(S) = 1
  <2>1. PICK x \in S : TRUE
    BY <1>2
  <2>2. S = {x}
    BY <2>1
  <2> QED
    BY <2>2, FS_Singleton
<1> QED
  BY <1>1, <1>2

\* A job is in one place of the channel, or in the hands of one worker.
LEMMA InvImpliesConservation == RInv => JobConservation
<1> SUFFICES ASSUME RInv, NEW c \in Calls
             PROVE  /\ Places(c) <= 1
                    /\ Places(c) = 1 => callPC[c] = "accepted"
                    /\ callPC[c] = "accepted" /\ ~IsTerminal(dep[c].status) => Places(c) = 1
  BY DEF JobConservation
<1> DEFINE Q == {n \in 1..Len(jobQueue) : jobQueue[n] = c}
           W == {w \in Workers : workerJob[w] = c}
<1>0. c # None
  BY ConstantsAssumption
<1>1. \A m, n \in Q : m = n
  BY DEF RInv, IInv, JobsOK
<1>2. \A v, w \in W : v = w
  BY <1>0 DEF RInv, IInv, JobsOK
<1>3. Q = {} \/ W = {}
  BY DEF RInv, IInv, JobsOK
<1>4. (Q # {} <=> InQueue(c)) /\ (W # {} <=> Held(c))
  BY DEF InQueue, Held
<1>5. InQueue(c) \/ Held(c) => callPC[c] = "accepted"
  BY <1>0 DEF RInv, IInv, JobsOK, InQueue, Held
<1>6. Places(c) = Cardinality(Q) + Cardinality(W)
  BY DEF Places
<1>7. /\ Cardinality(Q) = IF Q = {} THEN 0 ELSE 1
      /\ Cardinality(W) = IF W = {} THEN 0 ELSE 1
  BY <1>1, <1>2, AtMostOne
<1> HIDE DEF Q, W
<1>8. Places(c) <= 1 /\ (Places(c) = 1 <=> InQueue(c) \/ Held(c))
  BY <1>3, <1>4, <1>6, <1>7
<1> QED
  BY <1>5, <1>8 DEF RInv, CallStatus

\* JobConservation: for any number of calls and workers and any capacity of the
\* channel, a deployment that Enqueue or EnqueueRollback accepted is in the
\* channel or with one worker until it has ended, and never twice; one that was
\* turned away is nowhere.
THEOREM JobsAreConserved == Spec => []JobConservation
BY RecordsInv, InvImpliesConservation, PTL

\* CancelHitsItsJob: the function that Cancel finds under a number cancels a run
\* of a deployment of this number, however runs, cancels and crashes interleave:
\* what runJob's deferred call takes out is all that it put in.
THEOREM CancelAlwaysHitsItsJob == Spec => []CancelHitsItsJob
<1>1. RInv => CancelHitsItsJob
  BY DEF RInv
<1> QED
  BY <1>1, RecordsInv, PTL

\* How a step of the process changes a status.
FollowsGraph ==
    phase # "down" /\ phase' # "down" =>
        \A c \in Calls :
           LET from == dep[c].status  to == dep'[c].status IN
           from \in Status /\ to \in Status /\ from # to =>
             \/ ValidTransition(from, to)
             \/ to = "cancelled" /\ IsActive(from) /\ from # "queued"
             \/ to = "success" /\ from = "preparing" /\ dep[c].rollbackTo # None

\* A call creates its record queued, and marks it failed when the channel is full.
LEMMA CallFollowsGraph ==
    ASSUME RInv, NEW c \in Calls,
           \/ \E a \in Apps : EnqueueCheck(c, a) \/ \E i \in IDs : RollbackTarget(c, a, i)
           \/ CallStep(c) /\ ~ SendJob(c)
    PROVE  FollowsGraph
<1>0. dep \in [Calls -> DeploymentRecord] /\ CallStatus(c)
  BY DEF RInv, IInv, Typed, TypeOK
<1>1. \A d \in Calls : d # c => dep'[d] = dep[d]
  BY CallFacts
<1>2. \/ dep[c].status = "absent"
      \/ UNCHANGED dep
      \/ dep'[c].status = "absent"
      \/ dep[c].status = "queued" /\ dep'[c].status = "failed"
  <2>1. CASE callPC[c] \in Early
    BY <1>0, <2>1 DEF CallStatus
  <2>2. CASE callPC[c] \notin Early
    <3>1. CASE PersistNewFails(c)
      BY <1>0, <3>1 DEF PersistNewFails, NoDeployment
    <3>2. CASE QueueFull(c)
      BY <1>0, <3>2 DEF QueueFull, CallMoves, CallStatus, DeploymentRecord
    <3>3. CASE ~ (PersistNewFails(c) \/ QueueFull(c))
      BY <2>2, <3>3 DEF EnqueueCheck, RollbackTarget, CallStep, CallMoves, RollbackCheck,
                        NumberDeployment, PersistNew, InsertNew, RegisterCancel, ResaveRollback,
                        PersistRefused, Early
    <3> QED
      BY <3>1, <3>2, <3>3
  <2> QED
    BY <2>1, <2>2
<1>3. "absent" \notin Status /\ ValidTransition("queued", "failed")
  BY DEF Status, ValidTransition, IsTerminal
<1> QED
  BY <1>1, <1>2, <1>3 DEF FollowsGraph

\* A run takes its record from queued through the stages to an end.
LEMMA RunFollowsGraph ==
    ASSUME RInv, NEW w \in Workers, RunStep(w), ~ FinishJob(w), ~ DeleteStep(w)
    PROVE  FollowsGraph
<1> DEFINE c == workerJob[w]
<1>0. /\ dep \in [Calls -> DeploymentRecord] /\ c \in Calls /\ RunStatus(w)
      /\ \A d \in Calls : d # c => dep'[d] = dep[d]
  BY RunFacts DEF RInv, IInv, Typed, TypeOK
<1>1. ASSUME NEW s, SetStatus(c, s)
      PROVE  dep'[c].status = s
  BY <1>0, <1>1 DEF SetStatus, DeploymentRecord
<1>2. CASE StartJob(w)
  <2>1. dep[c].status = "queued" /\ dep'[c].status = "preparing"
    BY <1>0, <1>1, <1>2 DEF StartJob, RunMoves, WorkerMoves, RunStatus
  <2>2. ValidTransition("queued", "preparing")
    BY DEF ValidTransition, Allowed
  <2> QED
    BY <1>0, <2>1, <2>2 DEF FollowsGraph
<1>3. CASE OpenLogFails(w)
  <2>1. dep[c].status = "queued" /\ dep'[c].status = "failed"
    BY <1>0, <1>1, <1>3 DEF OpenLogFails, RunMoves, WorkerMoves, RunStatus
  <2>2. ValidTransition("queued", "failed")
    BY DEF ValidTransition, IsTerminal
  <2> QED
    BY <1>0, <2>1, <2>2 DEF FollowsGraph
<1>4. CASE ExecuteStage(w)
  <2> DEFINE from == dep[c].status
             to == Transition(from, NextStage[from])
  <2>1. \E i : dep' = [dep EXCEPT ![c].status = to, ![c].imageID = i]
    BY <1>4 DEF ExecuteStage
  <2>2. to # from => ValidTransition(from, to)
    BY DEF Transition
  <2> HIDE DEF to
  <2>3. dep'[c].status = to
    BY <1>0, <2>1 DEF DeploymentRecord
  <2> QED
    BY <1>0, <2>2, <2>3 DEF FollowsGraph
<1>5. CASE ExecuteRollbackImage(w)
  <2>1. dep'[c].status = dep[c].status
    BY <1>0, <1>5 DEF ExecuteRollbackImage, DeploymentRecord
  <2> QED
    BY <1>0, <2>1 DEF FollowsGraph
<1>6. CASE ExecuteSucceeds(w)
  <2>1. /\ dep'[c].status = "success"
        /\ \/ dep[c].status = "routing"
           \/ dep[c].status = "preparing" /\ dep[c].rollbackTo # None
    BY <1>0, <1>1, <1>6 DEF ExecuteSucceeds, RunMoves, WorkerMoves, RunStatus
  <2>2. ValidTransition("routing", "success")
    BY DEF ValidTransition, Allowed
  <2> QED
    BY <1>0, <2>1, <2>2 DEF FollowsGraph
<1>7. CASE ExecuteFails(w)
  <2>1. dep[c].status \in Executing /\ dep'[c].status \in {"failed", "cancelled"}
    BY <1>0, <1>1, <1>7 DEF ExecuteFails, RunMoves, WorkerMoves, RunStatus
  <2>2. \A s \in Executing : ValidTransition(s, "failed") /\ IsActive(s) /\ s # "queued"
    BY DEF Executing, ValidTransition, IsTerminal, IsActive
  <2> QED
    BY <1>0, <2>1, <2>2 DEF FollowsGraph
<1>8. CASE \/ StoreRecord(w) \/ PersistStart(w) \/ PersistSuccess(w) \/ ListOld(w)
           \/ PersistOutcome(w)
  BY <1>8 DEF StoreRecord, PersistStart, PersistSuccess, ListOld, PersistOutcome, FollowsGraph
<1> QED
  BY <1>2, <1>3, <1>4, <1>5, <1>6, <1>7, <1>8 DEF RunStep

\* So does every step.
LEMMA NextFollowsGraph == RInv /\ [Next]_vars => FollowsGraph
<1> SUFFICES ASSUME RInv, [Next]_vars
             PROVE  FollowsGraph
  OBVIOUS
<1>1. CASE UNCHANGED dep
  BY <1>1 DEF FollowsGraph
<1>2. CASE phase = "down" \/ phase' = "down"
  BY <1>2 DEF FollowsGraph
<1>3. ASSUME NEW c \in Calls, NEW a \in Apps,
             EnqueueCheck(c, a) \/ \E i \in IDs : RollbackTarget(c, a, i)
      PROVE  FollowsGraph
  BY <1>3, CallFollowsGraph
<1>4. ASSUME NEW c \in Calls, CallStep(c)
      PROVE  FollowsGraph
  <2>1. SendJob(c) => UNCHANGED dep
    BY DEF SendJob
  <2> QED
    BY <1>1, <1>4, <2>1, CallFollowsGraph
<1>5. ASSUME NEW i \in IDs, Cancel(i)
      PROVE  FollowsGraph
  BY <1>1, <1>5 DEF Cancel, stores
<1>6. ASSUME NEW d \in Deleters, DeleteStep(d)
      PROVE  FollowsGraph
  BY <1>1, <1>6, DeleteFacts DEF RInv, IInv
<1>7. ASSUME NEW w \in Workers, TakeJob(w) \/ WorkerReturns(w) \/ LockApp(w) \/ FinishJob(w)
      PROVE  FollowsGraph
  BY <1>1, <1>7 DEF TakeJob, WorkerReturns, LockApp, FinishJob, LeaveJob, stores
<1>8. ASSUME NEW w \in Workers, TakeJob(w) \/ WorkerReturns(w) \/ LockApp(w) \/ RunStep(w)
      PROVE  FollowsGraph
  BY <1>6, <1>7, <1>8, RunFollowsGraph DEF Deleters
<1>9. ASSUME NEW h \in Handlers, DeleteStep(h) \/ \E a \in Apps : ClearFailedList(h, a)
      PROVE  FollowsGraph
  BY <1>1, <1>6, <1>9 DEF ClearFailedList, stores, Deleters
<1>10. CASE CloseShutdown \/ CancelAll \/ ShutdownReturns \/ Reconcile \/ UNCHANGED vars
  BY <1>1, <1>10 DEF CloseShutdown, CancelAll, ShutdownReturns, Reconcile, ReconciledRecords,
                     stores, vars
<1>11. CASE ProcessEnds \/ Boot
  BY <1>2, <1>11 DEF ProcessEnds, Boot
<1> QED
  BY <1>3, <1>4, <1>5, <1>8, <1>9, <1>10, <1>11 DEF Next

\* StatusFollowsGraph: while the process lives, a status moves along the edges of
\* validTransition, or is cancelled in the course of a run, or is that of a
\* rollback that succeeds without its stages; it never leaves an end.  For any
\* number of calls, workers and applications.
THEOREM StatusAlwaysFollowsGraph == Spec => StatusFollowsGraph
<1>1. RInv /\ [Next]_vars => [FollowsGraph]_vars
  BY NextFollowsGraph
<1>2. RInv /\ [Next]_vars =>
        [phase # "down" /\ phase' # "down" =>
           \A c \in Calls :
              LET from == dep[c].status  to == dep'[c].status IN
              from \in Status /\ to \in Status /\ from # to =>
                \/ ValidTransition(from, to)
                \/ to = "cancelled" /\ IsActive(from) /\ from # "queued"
                \/ to = "success" /\ from = "preparing" /\ dep[c].rollbackTo # None]_vars
  BY <1>1 DEF FollowsGraph
<1> QED
  BY <1>2, RecordsInv, PTL DEF Spec, StatusFollowsGraph

-----------------------------------------------------------------------------
(* What the files hold.  SettledIsSaved is not inductive: it says nothing of *)
(* the moments before a deployment comes to rest.  Between the first save of *)
(* a deployment and its next change the file is right all along, and every   *)
(* change is followed by a save before the record is at rest.                *)

\* A deployment that was saved, and that no run has changed since its last save,
\* is in its file as it is in memory.
Saved(c) ==
    /\ callPC[c] \in {"persisted", "inserted", "sending", "accepted", "refused"}
    /\ dep[c].id \in IDs /\ dep[c].app \in Apps
    /\ \A w \in Workers : workerJob[w] = c => workerPC[w] \notin Unsaved
    /\ disk[dep[c].app][dep[c].id].call = c
    => disk[dep[c].app][dep[c].id].rec = dep[c]

SavedInv == RInv /\ \A c \in Calls : Saved(c)

\* A step that touches neither a deployment, nor its file, nor a worker of it.
LEMMA SavedFrame ==
    ASSUME NEW c \in Calls, Saved(c), dep'[c] = dep[c], callPC'[c] = callPC[c],
           \A w \in Workers :
              workerJob[w] = c /\ workerPC[w] \in Unsaved =>
                  workerJob'[w] = c /\ workerPC'[w] \in Unsaved,
           \A a \in Apps, i \in IDs : disk'[a][i].call = c => disk'[a][i] = disk[a][i]
    PROVE  Saved(c)'
<1>1. Saved(c)' <=>
        (/\ callPC[c] \in {"persisted", "inserted", "sending", "accepted", "refused"}
         /\ dep[c].id \in IDs /\ dep[c].app \in Apps
         /\ \A w \in Workers : workerJob'[w] = c => workerPC'[w] \notin Unsaved
         /\ disk'[dep[c].app][dep[c].id].call = c
         => disk'[dep[c].app][dep[c].id].rec = dep[c])
  BY DEF Saved
<1> QED
  BY <1>1 DEF Saved

\* When no error is dropped, a save by one deployment leaves its record in its
\* file, and the files of the others alone.
LEMMA PersistKeepsSaved ==
    ASSUME Typed, NEW c \in Calls, "saveLost" \notin Events, PersistIgnoringError(c), dep' = dep
    PROVE  /\ \A d \in Calls, a \in Apps, i \in IDs :
                 d # c /\ disk'[a][i].call = d => disk'[a][i] = disk[a][i]
           /\ Saved(c)'
<1>1. PersistDeployment(c)
  BY DEF PersistIgnoringError
<1>2. \A d \in Calls, a \in Apps, i \in IDs :
         d # c /\ disk'[a][i].call = d => disk'[a][i] = disk[a][i]
  BY PersistFacts
<1>3. Saved(c)'
  BY <1>1, PersistSaves DEF Saved
<1> QED
  BY <1>2, <1>3

\* The steps of a call.
LEMMA CallKeepsSaved ==
    ASSUME SavedInv, NEW c \in Calls, "saveLost" \notin Events,
           \/ \E a \in Apps : EnqueueCheck(c, a) \/ \E i \in IDs : RollbackTarget(c, a, i)
           \/ CallStep(c) /\ ~ SendJob(c)
    PROVE  \A d \in Calls : Saved(d)'
<1> USE DEF SavedInv
<1>0. callPC \in [Calls -> CallPCs] /\ Typed /\ RInv
  BY DEF RInv, IInv, Typed, TypeOK
<1>1. ASSUME PersistIgnoringError(c), UNCHANGED dep, NEW d \in Calls
      PROVE  Saved(d)'
  <2>1. CASE d = c
    BY <1>0, <1>1, <2>1, PersistKeepsSaved
  <2>2. CASE d # c
    <3>1. \A a \in Apps, i \in IDs : disk'[a][i].call = d => disk'[a][i] = disk[a][i]
      BY <1>0, <1>1, <2>2, PersistKeepsSaved
    <3>2. /\ dep'[d] = dep[d] /\ callPC'[d] = callPC[d]
          /\ UNCHANGED <<workerPC, workerJob>>
      BY <1>0, <2>2, CallFacts
    <3> QED
      BY <3>1, <3>2, SavedFrame
  <2> QED
    BY <2>1, <2>2
<1>2. ASSUME UNCHANGED disk, NEW d \in Calls, d # c
      PROVE  Saved(d)'
  <2>1. /\ dep'[d] = dep[d] /\ callPC'[d] = callPC[d]
        /\ UNCHANGED <<workerPC, workerJob>>
    BY <1>0, <1>2, CallFacts
  <2> QED
    BY <1>2, <2>1, SavedFrame
<1>3. CASE PersistNew(c) \/ ResaveRollback(c) \/ PersistRefused(c)
  <2>1. PersistIgnoringError(c) /\ UNCHANGED dep
    BY <1>3 DEF PersistNew, ResaveRollback, PersistRefused, PersistIgnoringError
  <2> QED
    BY <1>1, <2>1
<1>4. CASE InsertNew(c) \/ RegisterCancel(c)
  <2>1. /\ callPC[c] \in {"persisted", "inserted"} /\ callPC'[c] \in {"inserted", "sending"}
        /\ UNCHANGED <<dep, disk, workerPC, workerJob>>
    BY <1>0, <1>4 DEF InsertNew, RegisterCancel, CallMoves, workerVars
  <2>2. Saved(c)'
    BY <2>1 DEF Saved
  <2> QED
    BY <1>2, <2>1, <2>2
<1>5. CASE PersistNewFails(c)
  <2>1. dep'[c].id = None /\ UNCHANGED disk
    BY <1>0, <1>5 DEF PersistNewFails, NoDeployment, Typed, TypeOK
  <2>2. Saved(c)'
    BY <2>1, ConstantsAssumption DEF Saved
  <2> QED
    BY <1>2, <2>1, <2>2
<1>6. CASE ~ \/ PersistNew(c) \/ ResaveRollback(c) \/ PersistRefused(c)
             \/ InsertNew(c) \/ RegisterCancel(c) \/ PersistNewFails(c)
  <2>1. UNCHANGED disk
    BY <1>6 DEF EnqueueCheck, RollbackTarget, CallStep, RollbackCheck, NumberDeployment, QueueFull
  <2>2. callPC'[c] \in Early \cup {"numbered", "refusing"}
    BY <1>0, <1>6 DEF EnqueueCheck, RollbackTarget, CallStep, RollbackCheck, NumberDeployment,
                      QueueFull, CallMoves, Early
  <2>3. Saved(c)'
    BY <2>2 DEF Saved, Early
  <2> QED
    BY <1>2, <2>1, <2>3
<1> QED
  BY <1>3, <1>4, <1>5, <1>6

\* A run changes its record only at points from which it goes on to a save.
LEMMA RunKeepsSaved ==
    ASSUME SavedInv, NEW w \in Workers, "saveLost" \notin Events,
           RunStep(w), ~ FinishJob(w), ~ DeleteStep(w)
    PROVE  \A d \in Calls : Saved(d)'
<1> USE DEF SavedInv
<1> DEFINE c == workerJob[w]
<1>0. workerPC \in [Workers -> WorkerPCs] /\ Typed /\ RInv /\ c \in Calls /\ workerJob' = workerJob
  BY RunFacts DEF RInv, IInv, Typed, TypeOK
<1>1. ASSUME NEW d \in Calls, d # c,
             \A a \in Apps, i \in IDs : disk'[a][i].call = d => disk'[a][i] = disk[a][i]
      PROVE  Saved(d)'
  BY <1>0, <1>1, RunFacts, SavedFrame
<1>2. CASE PersistStart(w) \/ PersistSuccess(w) \/ PersistOutcome(w)
  <2>1. PersistIgnoringError(c) /\ UNCHANGED dep
    BY <1>2 DEF PersistStart, PersistSuccess, PersistOutcome
  <2> QED
    BY <1>0, <1>1, <2>1, PersistKeepsSaved
<1>3. CASE \/ StartJob(w) \/ OpenLogFails(w) \/ StoreRecord(w) \/ ExecuteStage(w)
           \/ ExecuteRollbackImage(w) \/ ExecuteSucceeds(w) \/ ExecuteFails(w)
  <2>1. UNCHANGED disk
    BY <1>3 DEF StartJob, OpenLogFails, StoreRecord, ExecuteStage, ExecuteRollbackImage,
                ExecuteSucceeds, ExecuteFails
  <2>2. workerPC'[w] \in Unsaved
    BY <1>0, <1>3, StoreRecordMoves
       DEF StartJob, OpenLogFails, ExecuteStage, ExecuteRollbackImage, ExecuteSucceeds,
           ExecuteFails, RunMoves, WorkerMoves, workerVars, Storing, Unsaved
  <2>3. Saved(c)'
    <3>1. PICK d \in Calls : d = c
      BY <1>0
    <3>2. workerJob'[w] = d
      BY <1>0, <3>1
    <3>3. Saved(d)'
      BY <2>2, <3>2 DEF Saved
    <3> QED
      BY <1>0, <3>1, <3>3 DEF Saved
  <2> QED
    BY <1>1, <2>1, <2>3, <1>0
<1>4. CASE ListOld(w)
  <2>1. /\ UNCHANGED <<dep, disk, callPC, workerJob>>
        /\ \A v \in Workers : workerPC[v] \in Unsaved <=> workerPC'[v] \in Unsaved
    BY <1>0, <1>4 DEF ListOld, RunMoves, WorkerMoves, callVars, Storing, Unsaved
  <2> QED
    BY <2>1 DEF Saved
<1> QED
  BY <1>2, <1>3, <1>4 DEF RunStep

\* All other steps leave records and files as they are, a deletion apart, which
\* leaves no file that is of a deployment, and the end and the start of a
\* process, at which no call is under way or answered.
LEMMA NextSaved ==
    ASSUME SavedInv, "saveLost" \notin Events, [Next]_vars
    PROVE  SavedInv'
<1> USE DEF SavedInv
<1>0. RInv' /\ RInv /\ Typed
  BY NextRecords DEF RInv, IInv
<1>1. ASSUME UNCHANGED <<dep, callPC>>,
             \A w \in Workers :
                \/ workerPC[w] \notin Unsaved
                \/ workerPC'[w] = workerPC[w] /\ workerJob'[w] = workerJob[w],
             \A a \in Apps, i \in IDs : disk'[a][i] \in {disk[a][i], NoRecord}
      PROVE  \A c \in Calls : Saved(c)'
  BY <1>1, SavedFrame, ConstantsAssumption DEF NoRecord
<1>2. ASSUME NEW c \in Calls, NEW a \in Apps,
             EnqueueCheck(c, a) \/ \E i \in IDs : RollbackTarget(c, a, i)
      PROVE  \A d \in Calls : Saved(d)'
  BY <1>2, CallKeepsSaved
<1>3. ASSUME NEW c \in Calls, CallStep(c)
      PROVE  \A d \in Calls : Saved(d)'
  <2>1. CASE SendJob(c)
    <3>1. /\ callPC[c] = "sending" /\ \A d \in Calls : d # c => callPC'[d] = callPC[d]
          /\ UNCHANGED <<dep, disk, workerPC, workerJob>>
      BY <1>0, <2>1 DEF SendJob, CallMoves, workerVars, Typed, TypeOK
    <3> QED
      BY <3>1 DEF Saved
  <2> QED
    BY <1>3, <2>1, CallKeepsSaved
<1>4. ASSUME NEW d \in Deleters, DeleteStep(d)
      PROVE  \A c \in Calls : Saved(c)'
  BY <1>0, <1>1, <1>4, DeleteFacts
<1>5. ASSUME NEW w \in Workers, TakeJob(w) \/ WorkerReturns(w) \/ LockApp(w) \/ FinishJob(w)
      PROVE  \A c \in Calls : Saved(c)'
  <2>1. /\ UNCHANGED <<dep, callPC, disk>>
        /\ \A v \in Workers : v # w => workerPC'[v] = workerPC[v] /\ workerJob'[v] = workerJob[v]
    BY <1>0, <1>5 DEF TakeJob, WorkerReturns, LockApp, FinishJob, LeaveJob, WorkerMoves, callVars,
                      stores, Typed, TypeOK
  <2>2. workerPC[w] \notin Unsaved
    BY <1>5 DEF TakeJob, WorkerReturns, LockApp, FinishJob, LeaveJob, WorkerMoves, Storing,
                      Unsaved
  <2> QED
    BY <1>1, <2>1, <2>2
<1>6. ASSUME NEW w \in Workers, TakeJob(w) \/ WorkerReturns(w) \/ LockApp(w) \/ RunStep(w)
      PROVE  \A c \in Calls : Saved(c)'
  BY <1>4, <1>5, <1>6, RunKeepsSaved DEF Deleters
<1>7. ASSUME NEW h \in Handlers, DeleteStep(h) \/ \E a \in Apps : ClearFailedList(h, a)
      PROVE  \A c \in Calls : Saved(c)'
  <2>1. CASE \E a \in Apps : ClearFailedList(h, a)
    BY <1>1, <2>1 DEF ClearFailedList, callVars, stores, workerVars
  <2> QED
    BY <1>4, <1>7, <2>1 DEF Deleters
<1>8. CASE \/ CloseShutdown \/ CancelAll \/ ShutdownReturns \/ Reconcile \/ UNCHANGED vars
           \/ \E i \in IDs : Cancel(i)
  <2>1. UNCHANGED <<dep, callPC, disk, workerPC, workerJob>>
    BY <1>8 DEF CloseShutdown, CancelAll, ShutdownReturns, Reconcile, ReconciledRecords,
                Cancel, vars, callVars, stores, workerVars
  <2> QED
    BY <1>0, <1>1, <2>1
<1>9. CASE ProcessEnds \/ Boot
  <2>1. \A c \in Calls : callPC'[c] \in {"idle", "gone"}
    <3>1. CASE ProcessEnds
      BY <3>1 DEF ProcessEnds
    <3>2. CASE Boot
      BY <1>0, <3>2 DEF Boot, callVars, RInv, FilesOK
    <3> QED
      BY <1>9, <3>1, <3>2
  <2> QED
    BY <1>0, <2>1 DEF Saved
<1> QED
  BY <1>0, <1>2, <1>3, <1>6, <1>7, <1>8, <1>9 DEF Next

\* A deployment at rest was saved.
LEMMA SavedImpliesSettled == SavedInv => SettledIsSaved
<1> SUFFICES ASSUME SavedInv, NEW c \in Calls, Settled(c),
                    disk[dep[c].app][dep[c].id].call = c
             PROVE  disk[dep[c].app][dep[c].id].rec = dep[c]
  BY DEF SettledIsSaved
<1>1. dep[c].id \in IDs
  BY DEF Settled, SavedInv, RInv, IInv, Typed, TypeOK, DeploymentRecord
<1>2. dep[c].app \in Apps
  BY DEF Settled, SavedInv, RInv, IInv, JobsOK, CallStatus
<1>3. \A w \in Workers : workerJob[w] = c => workerPC[w] \notin Unsaved
  BY DEF Settled, Storing, Unsaved
<1> QED
  BY <1>1, <1>2, <1>3 DEF Settled, SavedInv, Saved

\* SettledIsSaved: as long as no save fails whose error the code drops, a
\* deployment at rest is in its file as it is in memory, for any number of calls,
\* workers, deletions and restarts: each change of a record is followed by
\* persistDeployment.
THEOREM SettledAlwaysSaved ==
    ASSUME "saveLost" \notin Events
    PROVE  Spec => []SettledIsSaved
<1>1. Init => SavedInv
  BY InitRecords DEF Init, SavedInv, Saved
<1>2. SavedInv /\ [Next]_vars => SavedInv'
  BY NextSaved
<1> QED
  BY <1>1, <1>2, SavedImpliesSettled, PTL DEF Spec

-----------------------------------------------------------------------------
(* One request at a time.  That an application has one active deployment,    *)
(* that deployments keep their entries of the map and that only finished     *)
(* ones are deleted hold when requests do not overlap: one call is under way *)
(* at a time, and one clear; there is one application, for numbers are       *)
(* shared; no read of a status is torn; and no clear begins between the      *)
(* failure of a run and its write of the map.  The number of a deployment is *)
(* then one that no entry and no list of numbers to delete has, which none   *)
(* of the three properties says.  Of the workers there may be any number.    *)

OneByOne ==
    /\ MaxInFlight = 1
    /\ \A a, b \in Apps : a = b
    /\ \A g, h \in Handlers : g = h
    /\ "tornRead" \notin Events
    /\ "earlyClear" \notin Events

\* A number that is in use, and the deployment that uses it.
Present(i) == deployments[i] # None
Entry(i) == dep[deployments[i]]

\* A call that has passed its check; a deployment that has, and has not ended.
Checked == {"checked", "numbered", "persisted", "inserted", "sending"}
Open(c) ==
    \/ callPC[c] \in Checked
    \/ callPC[c] = "accepted" /\ ~ IsTerminal(dep[c].status)

OneAtATime ==
    /\ \A c, d \in Calls : callPC[c] \in UnderWay /\ callPC[d] \in UnderWay => c = d
    /\ \A c, d \in Calls : Open(c) /\ Open(d) => c = d
    /\ \A c \in Calls : callPC[c] # "refusing" /\ dep[c].created <= clock

\* The entries of the map: by number, and in the order of their creation as far
\* as this process has made them.
EntriesOK ==
    /\ \A i \in IDs : Present(i) =>
          /\ Entry(i).id = i /\ Entry(i).app \in Apps /\ Entry(i).status \in Status
          /\ callPC[deployments[i]] \in {"inserted", "sending", "accepted", "gone"}
    /\ \A i, j \in IDs :
          Present(i) /\ Present(j) /\ i < j /\ callPC[deployments[j]] # "gone"
              => Entry(i).created < Entry(j).created

\* A new number is free, the largest, and nobody is about to delete it.
FreshOK ==
    \A c \in Calls : callPC[c] \in {"numbered", "persisted"} =>
        /\ dep[c].id \in IDs
        /\ \A i \in IDs : Present(i) => i < dep[c].id /\ Entry(i).created < dep[c].created
        /\ \A d \in Deleters : dep[c].id \notin doomed[d]

\* The open deployment is in the map, under the largest number.
OpenOK ==
    \A c \in Calls : callPC[c] \in {"inserted", "sending", "accepted"} /\ Open(c) =>
        /\ dep[c].id \in IDs /\ deployments[dep[c].id] = c
        /\ \A i \in IDs : Present(i) => i <= dep[c].id

\* Once a call has passed the check, all other deployments have ended.
EndedOK ==
    (\E c \in Calls : callPC[c] \in Checked \cup {"accepted", "refused"}) =>
        \A i \in IDs : Present(i) => IsTerminal(Entry(i).status) \/ Open(deployments[i])

\* Where a run is that has succeeded, before its prune and with it.
Succeeded == {"storing_success", "saving_success", "listing"}
Successful == Succeeded \cup {"pruning"}
USE DEF Succeeded, Successful

\* A run that has succeeded is in the map until its own prune; what is newer has
\* not begun to run.  What a prune is about to delete has ended, and there is a
\* larger number in the map that stays there.
PrunesOK ==
    \A w \in Workers :
        LET c == workerJob[w] IN
        /\ workerPC[w] \in Succeeded =>
              dep[c].id \in IDs /\ deployments[dep[c].id] = c
        /\ workerPC[w] \in Successful =>
              \A i \in IDs : Present(i) /\ i > dep[c].id => Open(deployments[i])
        /\ doomed[w] # {} => workerPC[w] = "pruning"
        /\ \A i \in doomed[w] :
              /\ Present(i) => IsTerminal(Entry(i).status)
              /\ \E m \in IDs \ doomed[w] :
                    i < m /\ Present(m) /\ (deployments[m] = c \/ Open(deployments[m]))

\* What a clear is about to delete has failed; a number of it that a prune has
\* taken is smaller than one that the clear leaves.
ClearsOK ==
    \A h \in Handlers, i \in IDs : i \in doomed[h] =>
        /\ Present(i) => Entry(i).status \in {"failed", "cancelled"}
        /\ ~ Present(i) => \E j \in IDs \ doomed[h] : i < j /\ Present(j)

\* A file bears the number of its directory, and no two are of one deployment.
NumbersOK ==
    \A a \in Apps, i \in IDs : disk[a][i] # NoRecord =>
        LET c == disk[a][i].call IN
        /\ c \in Calls
        /\ disk[a][i].rec.id = i /\ disk[a][i].rec.app = a
        /\ disk[a][i].rec.status \in Status /\ disk[a][i].rec.created <= clock
        /\ callPC[c] = "gone" \/ dep[c].id \in {i, None}
        /\ \A j \in IDs : disk[a][j].call = c => i = j

\* The map and the disk are finite, whatever the numbers there are.
FiniteOK ==
    /\ IsFiniteSet({i \in IDs : Present(i)})
    /\ \A a \in Apps : IsFiniteSet({i \in IDs : disk[a][i] # NoRecord})

\* A process that is down has no entries, and deletes nothing.
NothingOK ==
    phase = "down" => /\ \A i \in IDs : ~ Present(i)
                      /\ \A d \in Deleters : doomed[d] = {}

SerialOK ==
    /\ OneAtATime /\ EntriesOK /\ FreshOK /\ OpenOK /\ EndedOK
    /\ PrunesOK /\ ClearsOK /\ NumbersOK /\ FiniteOK /\ NothingOK

\* A run that has failed and is about to store its record finds its own entry, and
\* no clear has the number on its list.
StoredOK ==
    \A w \in Workers : workerPC[w] = "storing_end" =>
        LET c == workerJob[w] IN
        /\ dep[c].id \in IDs /\ deployments[dep[c].id] = c
        /\ \A h \in Handlers : dep[c].id \notin doomed[h]

HInv == RInv /\ SerialOK /\ StoredOK

-----------------------------------------------------------------------------
(* Facts about a state *)

\* The types of what the invariant is about.
LEMMA HTypes ==
    ASSUME HInv
    PROVE  /\ RInv /\ IInv /\ Typed
           /\ clock \in Nat
           /\ callPC \in [Calls -> CallPCs]
           /\ dep \in [Calls -> DeploymentRecord]
           /\ \A c \in Calls : /\ dep[c].id \in IDs \cup {None} /\ dep[c].created \in Nat
                               /\ dep[c].status \in Status \cup {"absent"}
           /\ deployments \in [IDs -> Calls \cup {None}]
           /\ \A i \in IDs : Present(i) => deployments[i] \in Calls
           /\ disk \in [Apps -> [IDs -> [call: Calls \cup {None}, rec: DeploymentRecord]]]
           /\ workerPC \in [Workers -> WorkerPCs]
           /\ workerJob \in [Workers -> Calls \cup {None}]
           /\ doomed \in [Deleters -> SUBSET IDs]
           /\ removing \in [Deleters -> IDs \cup {None}]
<1>1. RInv /\ IInv /\ Typed
  BY DEF HInv, RInv, IInv
<1> QED
  BY <1>1 DEF Typed, TypeOK, Present, DeploymentRecord

\* With one request at a time, one that begins finds none under way.
LEMMA NobodyUnderWay ==
    ASSUME OneByOne, HInv, NEW c \in Calls, MayCall(c)
    PROVE  \A d \in Calls : callPC[d] \notin UnderWay
<1> DEFINE S == {d \in Calls : callPC[d] \in UnderWay}
<1>1. \A x, y \in S : x = y
  BY DEF HInv, SerialOK, OneAtATime
<1>2. Cardinality(S) < 1
  BY DEF MayCall, OneByOne
<1>3. S = {}
  <2> HIDE DEF S
  <2> QED
    BY <1>1, <1>2, AtMostOne
<1> QED
  BY <1>3

\* A call that finds no active deployment, and no other call behind its check,
\* finds that all deployments have ended.
LEMMA AllEnded ==
    ASSUME OneByOne, HInv, NEW a \in Apps, NoActiveSeen(a),
           \A d \in Calls : callPC[d] \notin Checked
    PROVE  /\ \A i \in IDs : Present(i) => IsTerminal(Entry(i).status)
           /\ \A d \in Calls : ~ Open(d)
<1>1. ASSUME NEW i \in IDs, Present(i)
      PROVE  IsTerminal(Entry(i).status)
  <2>1. Entry(i).app = a /\ Entry(i).status \in Status
    BY <1>1 DEF HInv, SerialOK, EntriesOK, OneByOne
  <2>2. ~ IsActive(Entry(i).status)
    BY <1>1, <2>1 DEF NoActiveSeen, ListByApp, MaybeTorn, OneByOne, Present, Entry
  <2> QED
    BY <2>1, <2>2 DEF IsActive, IsTerminal, Status
<1>2. ASSUME NEW d \in Calls, Open(d)
      PROVE  FALSE
  <2>1. callPC[d] = "accepted" /\ ~ IsTerminal(dep[d].status)
    BY <1>2 DEF Open
  <2>2. dep[d].id \in IDs /\ deployments[dep[d].id] = d
    BY <1>2, <2>1 DEF HInv, SerialOK, OpenOK
  <2>3. d # None
    BY ConstantsAssumption
  <2> QED
    BY <1>1, <2>1, <2>2, <2>3 DEF Present, Entry
<1> QED
  BY <1>1, <1>2

\* Two workers are not in the locked part of runJob, for there is one
\* application.
LEMMA OneLocked ==
    ASSUME OneByOne, HInv, NEW v \in Workers, NEW w \in Workers,
           workerPC[v] \in LockedPCs, workerPC[w] \in LockedPCs
    PROVE  v = w
<1>1. /\ workerJob[v] \in Calls /\ callPC[workerJob[v]] = "accepted"
      /\ workerJob[w] \in Calls /\ callPC[workerJob[w]] = "accepted"
  BY HTypes, ConstantsAssumption DEF IInv, Typed, WorkersHaveJobs, JobsOK
<1>2. dep[workerJob[v]].app = dep[workerJob[w]].app
  BY <1>1, HTypes DEF OneByOne, IInv, JobsOK
<1> QED
  BY <1>2, HTypes DEF IInv, HolderOK

\* The job of a worker that has not ended is the open deployment, and is in the
\* map.
LEMMA JobIsOpen ==
    ASSUME HInv, NEW w \in Workers, workerPC[w] \in LockedPCs,
           ~ IsTerminal(dep[workerJob[w]].status)
    PROVE  LET c == workerJob[w] IN
           /\ c \in Calls /\ callPC[c] = "accepted" /\ Open(c)
           /\ dep[c].id \in IDs /\ deployments[dep[c].id] = c
           /\ \A i \in IDs : Present(i) => i <= dep[c].id
<1>1. workerJob[w] \in Calls /\ callPC[workerJob[w]] = "accepted"
  BY HTypes, ConstantsAssumption DEF IInv, Typed, WorkersHaveJobs, JobsOK
<1>2. Open(workerJob[w])
  BY <1>1 DEF Open
<1> QED
  BY <1>1, <1>2 DEF HInv, SerialOK, OpenOK

-----------------------------------------------------------------------------
(* The largest number *)

\* A finite set of numbers that has a member has a largest one, and Max finds
\* it: among the finite sets without a largest member there would be a smallest.
LEMMA MaxIsLargest ==
    ASSUME NEW S \in SUBSET Nat, IsFiniteSet(S), S # {}
    PROVE  Max(S) \in S /\ \A y \in S : y <= Max(S)
<1> DEFINE Bad == {A \in FiniteSubsetsOf(Nat) : A # {} /\ \A x \in A : \E y \in A : y > x}
<1>1. \E x \in S : \A y \in S : ~ (y > x)
  <2> SUFFICES ASSUME \A x \in S : \E y \in S : y > x
               PROVE  FALSE
    OBVIOUS
  <2>1. S \in Bad /\ Bad \subseteq FiniteSubsetsOf(Nat)
    BY DEF FiniteSubsetsOf
  <2>2. IsWellFoundedOn(StrictSubsetOrdering(Nat), FiniteSubsetsOf(Nat))
    BY FS_StrictSubsetOrderingWellFounded
  <2> HIDE DEF Bad
  <2>3. PICK A \in Bad : \A B \in Bad : ~ (<<B, A>> \in StrictSubsetOrdering(Nat))
    BY <2>1, <2>2, WFMin
  <2>4. A \in SUBSET Nat /\ IsFiniteSet(A) /\ A # {} /\ \A x \in A : \E y \in A : y > x
    BY DEF Bad, FiniteSubsetsOf
  <2>5. PICK x \in A, y \in A : y > x
    BY <2>4
  <2> DEFINE B == A \ {x}
  <2>6. B \in SUBSET Nat /\ y \in B /\ IsFiniteSet(B) /\ x \notin B
    BY <2>4, <2>5, FS_RemoveElement
  <2>7. <<B, A>> \in StrictSubsetOrdering(Nat)
    BY <2>4, <2>6 DEF StrictSubsetOrdering
  <2>8. B \notin Bad
    BY <2>3, <2>7
  <2>9. PICK b \in B : \A z \in B : ~ (z > b)
    BY <2>6, <2>8 DEF Bad, FiniteSubsetsOf
  <2>10. PICK z \in A : z > b
    BY <2>4, <2>9
  <2>11. z = x
    BY <2>9, <2>10
  <2> QED
    BY <2>4, <2>5, <2>6, <2>9, <2>10, <2>11
<1>2. PICK x \in S : \A y \in S : x >= y
  BY <1>1
<1> QED
  BY <1>2 DEF Max

-----------------------------------------------------------------------------
(* Frames *)

\* A step that leaves the map, and all of a record but the image and the status
\* of an open deployment.
Stays ==
    /\ deployments' = deployments /\ doomed' = doomed /\ clock' = clock
    /\ phase' = "down" => phase = "down"
    /\ \A c \in Calls :
          /\ dep'[c].id = dep[c].id /\ dep'[c].app = dep[c].app /\ dep'[c].created = dep[c].created
          /\ \/ dep'[c].status = dep[c].status
             \/ callPC[c] = "accepted" /\ Open(c) /\ dep'[c].status \in Status
          /\ \/ callPC'[c] = callPC[c]
             \/ callPC[c] = "inserted" /\ callPC'[c] = "sending"
             \/ callPC[c] = "sending" /\ callPC'[c] = "accepted" /\ dep[c].status = "queued"

\* Nothing becomes open, and the entries are what they were.
LEMMA StaysFacts ==
    ASSUME HInv, Stays
    PROVE  /\ \A c \in Calls : Open(c)' => Open(c)
           /\ \A c \in Calls :
                 callPC'[c] \in {"numbered", "persisted"} => callPC[c] = callPC'[c]
           /\ \A i \in IDs : Present(i)' <=> Present(i)
           /\ \A i \in IDs : Present(i) =>
                 /\ deployments[i] \in Calls /\ deployments'[i] = deployments[i]
                 /\ Entry(i)'.id = Entry(i).id /\ Entry(i)'.app = Entry(i).app
                 /\ Entry(i)'.created = Entry(i).created
                 /\ \/ Entry(i)'.status = Entry(i).status
                    \/ ~ IsTerminal(Entry(i).status) /\ Entry(i)'.status \in Status
<1>1. \A c \in Calls : Open(c)' => Open(c)
  BY DEF Stays, Open, Checked
<1>2. \A i \in IDs : Present(i) => deployments[i] \in Calls
  BY HTypes
<1> QED
  BY <1>1, <1>2 DEF Stays, Present, Entry, Open, Checked

\* Such a step keeps what is said of calls and entries.
LEMMA StaysKeeps ==
    ASSUME HInv, Stays
    PROVE  OneAtATime' /\ EntriesOK' /\ FreshOK' /\ OpenOK' /\ NothingOK'
<1>0. OneAtATime /\ EntriesOK /\ FreshOK /\ OpenOK /\ NothingOK
  BY DEF HInv, SerialOK
<1>1. OneAtATime'
  <2>1. \A c \in Calls : callPC'[c] \in UnderWay => callPC[c] \in UnderWay
    BY DEF Stays, UnderWay
  <2> QED
    BY <1>0, <2>1, StaysFacts DEF Stays, OneAtATime
<1>2. EntriesOK'
  <2>1. ASSUME NEW i \in IDs, Present(i)'
        PROVE  /\ Entry(i)'.id = i /\ Entry(i)'.app \in Apps /\ Entry(i)'.status \in Status
               /\ callPC'[deployments'[i]] \in {"inserted", "sending", "accepted", "gone"}
               /\ callPC'[deployments'[i]] # "gone" => callPC[deployments[i]] # "gone"
    BY <1>0, <2>1, StaysFacts DEF Stays, EntriesOK
  <2>2. ASSUME NEW i \in IDs, NEW j \in IDs, Present(i)', Present(j)', i < j,
               callPC'[deployments'[j]] # "gone"
        PROVE  Entry(i)'.created < Entry(j)'.created
    BY <1>0, <2>1, <2>2, StaysFacts DEF EntriesOK
  <2> QED
    BY <2>1, <2>2 DEF EntriesOK
<1>3. FreshOK'
  BY <1>0, StaysFacts DEF FreshOK, Stays
<1>4. OpenOK'
  <2>1. ASSUME NEW c \in Calls, callPC'[c] \in {"inserted", "sending", "accepted"}, Open(c)'
        PROVE  callPC[c] \in {"inserted", "sending", "accepted"} /\ Open(c)
    BY <2>1, StaysFacts DEF Stays
  <2> QED
    BY <1>0, <2>1, StaysFacts DEF OpenOK, Stays
<1>5. NothingOK'
  BY <1>0, StaysFacts DEF NothingOK, Stays
<1> QED
  BY <1>1, <1>2, <1>3, <1>4, <1>5

\* What is open stays so or has ended, and failed entries stay failed.
LEMMA StaysEnded ==
    ASSUME HInv, Stays
    PROVE  EndedOK' /\ ClearsOK'
<1>0. EndedOK /\ ClearsOK
  BY DEF HInv, SerialOK
<1>1. EndedOK'
  <2> SUFFICES ASSUME NEW c \in Calls, callPC'[c] \in Checked \cup {"accepted", "refused"},
                      NEW i \in IDs, Present(i)', ~ IsTerminal(Entry(i)'.status)
               PROVE  Open(deployments[i])'
    BY DEF EndedOK
  <2>1. callPC[c] \in Checked \cup {"accepted", "refused"}
    BY DEF Stays, Checked
  <2>2. Present(i) /\ ~ IsTerminal(Entry(i).status)
    BY StaysFacts
  <2>3. Open(deployments[i])
    BY <1>0, <2>1, <2>2 DEF EndedOK
  <2>4. PICK d \in Calls : d = deployments[i]
    BY <2>2, HTypes
  <2>5. Open(d)'
    BY <2>3, <2>4 DEF Open, Stays, Entry, Checked
  <2> QED
    BY <2>4, <2>5 DEF Open, Stays
<1>2. ClearsOK'
  <2> SUFFICES ASSUME NEW h \in Handlers, NEW i \in IDs, i \in doomed'[h]
               PROVE  /\ Present(i)' => Entry(i)'.status \in {"failed", "cancelled"}
                      /\ ~ Present(i)' => \E j \in IDs \ doomed'[h] : i < j /\ Present(j)'
    BY DEF ClearsOK
  <2>1. i \in doomed[h] /\ doomed' = doomed
    BY DEF Stays
  <2> QED
    BY <1>0, <2>1, StaysFacts DEF ClearsOK, IsTerminal
<1> QED
  BY <1>1, <1>2

\* If no file changes, nor do those.
LEMMA StaysFiles ==
    ASSUME HInv, Stays, UNCHANGED disk
    PROVE  NumbersOK' /\ FiniteOK'
<1>1. NumbersOK'
  <2>1. NumbersOK
    BY DEF HInv, SerialOK
  <2>2. \A c \in Calls : callPC[c] = "gone" => callPC'[c] = "gone"
    BY DEF Stays
  <2> QED
    BY <2>1, <2>2 DEF NumbersOK, Stays
<1>2. FiniteOK'
  <2>1. FiniteOK
    BY DEF HInv, SerialOK
  <2> QED
    BY <2>1 DEF FiniteOK, Present, Stays
<1> QED
  BY <1>1, <1>2

\* Nor what is said of prunes, if nothing ends and no worker enters its prune.
LEMMA StaysPrunes ==
    ASSUME HInv, Stays,
           \A c \in Calls : Open(c) => Open(c)',
           \A w \in Workers :
              /\ workerPC'[w] \in Succeeded =>
                    workerPC[w] \in Succeeded
              /\ workerPC'[w] = "pruning" => workerPC[w] = "pruning"
              /\ workerPC[w] = "pruning" /\ doomed[w] # {} => workerPC'[w] = "pruning"
              /\ workerPC'[w] \in Successful =>
                    workerJob'[w] = workerJob[w]
    PROVE  PrunesOK'
<1>0. PrunesOK
  BY DEF HInv, SerialOK
<1> SUFFICES ASSUME NEW w \in Workers
             PROVE  LET c == workerJob'[w] IN
                    /\ workerPC'[w] \in Succeeded =>
                          dep'[c].id \in IDs /\ deployments'[dep'[c].id] = c
                    /\ workerPC'[w] \in Successful =>
                          \A i \in IDs : Present(i)' /\ i > dep'[c].id => Open(deployments[i])'
                    /\ doomed'[w] # {} => workerPC'[w] = "pruning"
                    /\ \A i \in doomed'[w] :
                          /\ Present(i)' => IsTerminal(Entry(i)'.status)
                          /\ \E m \in IDs \ doomed'[w] :
                                /\ i < m /\ Present(m)'
                                /\ deployments'[m] = c \/ Open(deployments[m])'
  BY DEF PrunesOK
<1> DEFINE c == workerJob[w]
<1>1. /\ deployments' = deployments /\ doomed' = doomed /\ doomed[w] \subseteq IDs
      /\ \A d \in Calls : dep'[d].id = dep[d].id
  BY HTypes DEF Stays, Deleters
<1>2. workerPC[w] \in Successful => c \in Calls
  BY HTypes DEF Typed, WorkersHaveJobs, LockedPCs
<1>3. ASSUME NEW i \in IDs, Present(i), Open(deployments[i])
      PROVE  Open(deployments[i])'
  <2>1. PICK d \in Calls : d = deployments[i]
    BY <1>3, HTypes
  <2>2. Open(d)'
    BY <1>3, <2>1
  <2> QED
    BY <1>1, <2>1, <2>2 DEF Open
<1>4. workerPC'[w] \in Successful =>
          /\ workerJob'[w] = c /\ c \in Calls
          /\ workerPC[w] \in Successful
  BY <1>2
<1>5. workerPC'[w] \in Succeeded =>
          dep'[c].id \in IDs /\ deployments'[dep'[c].id] = c
  BY <1>0, <1>1, <1>2 DEF PrunesOK
<1>6. workerPC'[w] \in Successful =>
          \A i \in IDs : Present(i)' /\ i > dep'[c].id => Open(deployments[i])'
  BY <1>0, <1>1, <1>3, <1>4, StaysFacts DEF PrunesOK
<1>7. doomed'[w] # {} => workerPC'[w] = "pruning" /\ workerJob'[w] = c
  BY <1>0, <1>1 DEF PrunesOK
<1>8. ASSUME NEW i \in doomed'[w]
      PROVE  /\ Present(i)' => IsTerminal(Entry(i)'.status)
             /\ \E m \in IDs \ doomed'[w] :
                   /\ i < m /\ Present(m)'
                   /\ deployments'[m] = c \/ Open(deployments[m])'
  <2>1. i \in doomed[w] /\ i \in IDs
    BY <1>1
  <2>2. Present(i)' => IsTerminal(Entry(i)'.status)
    BY <1>0, <2>1, StaysFacts DEF PrunesOK
  <2>3. PICK m \in IDs \ doomed[w] :
           i < m /\ Present(m) /\ (deployments[m] = c \/ Open(deployments[m]))
    BY <1>0, <2>1 DEF PrunesOK
  <2> QED
    BY <1>1, <1>3, <2>2, <2>3, StaysFacts
<1> QED
  BY <1>4, <1>5, <1>6, <1>7, <1>8

-----------------------------------------------------------------------------
(* The calls, until they have inserted their record *)

\* A step of a call whose record is not in the map, which leaves the map alone.
Outside == CallPCs \ {"inserted", "sending", "accepted", "gone"}
Aside(c) ==
    /\ callPC[c] \in Outside /\ callPC'[c] \in Outside
    /\ \A d \in Calls : d # c => callPC'[d] = callPC[d] /\ dep'[d] = dep[d]
    /\ UNCHANGED <<phase, deployments, doomed, workerPC, workerJob>>

\* The entries and the jobs stay as they are.
LEMMA AsideFacts ==
    ASSUME HInv, NEW c \in Calls, Aside(c)
    PROVE  /\ \A i \in IDs : Present(i)' <=> Present(i)
           /\ \A i \in IDs : Present(i) =>
                 /\ deployments[i] \in Calls /\ deployments[i] # c
                 /\ deployments'[i] = deployments[i]
                 /\ callPC'[deployments[i]] = callPC[deployments[i]]
                 /\ Entry(i)' = Entry(i)
                 /\ Open(deployments[i])' <=> Open(deployments[i])
           /\ \A w \in Workers : workerJob[w] # None =>
                 /\ workerJob[w] \in Calls /\ workerJob[w] # c /\ workerJob'[w] = workerJob[w]
                 /\ dep'[workerJob[w]] = dep[workerJob[w]]
<1>1. ASSUME NEW i \in IDs, Present(i)
      PROVE  /\ deployments[i] \in Calls /\ deployments[i] # c
             /\ deployments'[i] = deployments[i]
             /\ callPC'[deployments[i]] = callPC[deployments[i]]
             /\ Entry(i)' = Entry(i)
             /\ Open(deployments[i])' <=> Open(deployments[i])
  <2>1. PICK d \in Calls : d = deployments[i]
    BY <1>1, HTypes
  <2>2. d # c
    BY <1>1, <2>1 DEF HInv, SerialOK, EntriesOK, Aside, Outside
  <2>3. callPC'[d] = callPC[d] /\ dep'[d] = dep[d] /\ deployments' = deployments
    BY <2>2 DEF Aside
  <2> QED
    BY <2>1, <2>2, <2>3 DEF Entry, Open
<1>2. ASSUME NEW w \in Workers, workerJob[w] # None
      PROVE  /\ workerJob[w] \in Calls /\ workerJob[w] # c /\ workerJob'[w] = workerJob[w]
             /\ dep'[workerJob[w]] = dep[workerJob[w]]
  <2>1. workerJob[w] \in Calls /\ callPC[workerJob[w]] = "accepted"
    BY <1>2, HTypes DEF IInv, JobsOK
  <2> QED
    BY <2>1 DEF Aside, Outside
<1> QED
  BY <1>1, <1>2 DEF Aside, Present

\* What is said of entries, jobs and deletions stays.
LEMMA AsideKeeps ==
    ASSUME HInv, NEW c \in Calls, Aside(c)
    PROVE  EntriesOK' /\ OpenOK' /\ PrunesOK' /\ ClearsOK' /\ NothingOK'
<1>0. /\ EntriesOK /\ OpenOK /\ PrunesOK /\ ClearsOK /\ NothingOK
      /\ deployments' = deployments /\ doomed' = doomed
  BY DEF HInv, SerialOK, Aside
<1>1. EntriesOK'
  BY <1>0, AsideFacts DEF EntriesOK
<1>2. OpenOK'
  <2> SUFFICES ASSUME NEW d \in Calls, callPC'[d] \in {"inserted", "sending", "accepted"}, Open(d)'
               PROVE  /\ dep'[d].id \in IDs /\ deployments'[dep'[d].id] = d
                      /\ \A i \in IDs : Present(i)' => i <= dep'[d].id
    BY DEF OpenOK
  <2>1. d # c /\ callPC'[d] = callPC[d] /\ dep'[d] = dep[d]
    BY DEF Aside, Outside
  <2>2. Open(d)
    BY <2>1 DEF Open
  <2> QED
    BY <1>0, <2>1, <2>2, AsideFacts DEF OpenOK
<1>3. PrunesOK'
  <2> SUFFICES ASSUME NEW w \in Workers
               PROVE  LET j == workerJob'[w] IN
                      /\ workerPC'[w] \in Succeeded =>
                            dep'[j].id \in IDs /\ deployments'[dep'[j].id] = j
                      /\ workerPC'[w] \in Successful =>
                            \A i \in IDs : Present(i)' /\ i > dep'[j].id => Open(deployments[i])'
                      /\ doomed'[w] # {} => workerPC'[w] = "pruning"
                      /\ \A i \in doomed'[w] :
                            /\ Present(i)' => IsTerminal(Entry(i)'.status)
                            /\ \E m \in IDs \ doomed'[w] :
                                  /\ i < m /\ Present(m)'
                                  /\ deployments'[m] = j \/ Open(deployments[m])'
    BY DEF PrunesOK
  <2> DEFINE j == workerJob[w]
  <2>1. workerPC' = workerPC /\ workerJob' = workerJob
    BY DEF Aside
  <2>2. workerPC[w] \in Successful => dep'[j] = dep[j]
    BY AsideFacts, HTypes DEF IInv, JobsOK, LockedPCs
  <2>3. doomed[w] \subseteq IDs
    BY HTypes DEF Deleters
  <2>4. /\ workerPC'[w] \in Succeeded =>
              dep'[j].id \in IDs /\ deployments'[dep'[j].id] = j
        /\ workerPC'[w] \in Successful =>
              \A i \in IDs : Present(i)' /\ i > dep'[j].id => Open(deployments[i])'
        /\ doomed'[w] # {} => workerPC'[w] = "pruning"
    BY <1>0, <2>1, <2>2, AsideFacts DEF PrunesOK
  <2>5. ASSUME NEW i \in doomed'[w]
        PROVE  /\ Present(i)' => IsTerminal(Entry(i)'.status)
               /\ \E m \in IDs \ doomed'[w] :
                     /\ i < m /\ Present(m)'
                     /\ deployments'[m] = j \/ Open(deployments[m])'
    <3>1. i \in doomed[w] /\ i \in IDs
      BY <1>0, <2>3
    <3>2. PICK m \in IDs \ doomed[w] :
             i < m /\ Present(m) /\ (deployments[m] = j \/ Open(deployments[m]))
      BY <1>0, <3>1 DEF PrunesOK
    <3>3. Present(m)' /\ (deployments'[m] = j \/ Open(deployments[m])')
      BY <1>0, <3>2, AsideFacts
    <3>4. Present(i)' => IsTerminal(Entry(i)'.status)
      BY <1>0, <3>1, AsideFacts DEF PrunesOK
    <3> QED
      BY <1>0, <3>2, <3>3, <3>4
  <2> QED
    BY <2>1, <2>4, <2>5
<1>4. ClearsOK'
  <2>1. \A h \in Handlers : doomed[h] \subseteq IDs
    BY HTypes DEF Deleters
  <2> QED
    BY <1>0, <2>1, AsideFacts DEF ClearsOK
<1>5. NothingOK'
  BY <1>0, AsideFacts DEF NothingOK, Aside
<1> QED
  BY <1>1, <1>2, <1>3, <1>4, <1>5

\* If no file changes, nor does what is said of them.
LEMMA AsideFiles ==
    ASSUME HInv, NEW c \in Calls, Aside(c), UNCHANGED <<disk, clock>>,
           dep'[c].id \in {dep[c].id, None}
    PROVE  NumbersOK' /\ FiniteOK'
<1>0. NumbersOK /\ FiniteOK /\ disk' = disk /\ clock' = clock
  BY DEF HInv, SerialOK
<1>1. \A d \in Calls : /\ callPC[d] = "gone" => callPC'[d] = "gone"
                       /\ dep'[d].id \in {dep[d].id, None}
  BY DEF Aside, Outside
<1>2. NumbersOK'
  <2> SUFFICES ASSUME NEW a \in Apps, NEW i \in IDs, disk'[a][i] # NoRecord
               PROVE  LET d == disk'[a][i].call IN
                      /\ d \in Calls
                      /\ disk'[a][i].rec.id = i /\ disk'[a][i].rec.app = a
                      /\ disk'[a][i].rec.status \in Status /\ disk'[a][i].rec.created <= clock'
                      /\ callPC'[d] = "gone" \/ dep'[d].id \in {i, None}
                      /\ \A j \in IDs : disk'[a][j].call = d => i = j
    BY DEF NumbersOK
  <2> QED
    BY <1>0, <1>1 DEF NumbersOK
<1>3. FiniteOK'
  BY <1>0 DEF FiniteOK, Aside, Present
<1> QED
  BY <1>2, <1>3

\* A call that passes its check is the only open one.
LEMMA PassesCheck ==
    ASSUME OneByOne, HInv, NEW c \in Calls, Aside(c), UNCHANGED <<disk, clock>>,
           NEW a \in Apps, NoActiveSeen(a),
           \A d \in Calls : callPC[d] \in UnderWay => d = c,
           callPC[c] \in {"idle", "targeted"}, callPC'[c] = "checked",
           dep'[c].id = dep[c].id, dep'[c].created = dep[c].created
    PROVE  SerialOK'
<1>1. \A d \in Calls : callPC[d] \notin Checked
  BY DEF Checked, UnderWay
<1>2. /\ \A i \in IDs : Present(i) => IsTerminal(Entry(i).status)
      /\ \A d \in Calls : ~ Open(d)
  BY <1>1, AllEnded
<1>3. \A d \in Calls : d # c => callPC'[d] = callPC[d] /\ dep'[d] = dep[d]
  BY DEF Aside
<1>4. OneAtATime'
  <2>1. \A d \in Calls : callPC'[d] \in UnderWay => d = c
    BY <1>3
  <2>2. \A d \in Calls : Open(d)' => d = c
    BY <1>2, <1>3 DEF Open
  <2>3. \A d \in Calls : callPC'[d] # "refusing" /\ dep'[d].created <= clock'
    BY <1>3 DEF HInv, SerialOK, OneAtATime
  <2> QED
    BY <2>1, <2>2, <2>3 DEF OneAtATime
<1>5. FreshOK'
  BY <1>1, <1>3 DEF FreshOK, Checked
<1>6. EndedOK'
  BY <1>2, AsideFacts DEF EndedOK
<1> QED
  BY <1>4, <1>5, <1>6, AsideKeeps, AsideFiles DEF SerialOK

\* A rollback that has its target, a call that is turned away, and one whose
\* first save fails, leave the open deployment alone.
LEMMA StaysOutside ==
    ASSUME HInv, NEW c \in Calls, Aside(c), UNCHANGED <<disk, clock>>,
           callPC'[c] \in {"idle", "targeted", "refused"},
           callPC'[c] = "targeted" => \A d \in Calls : callPC[d] \notin UnderWay,
           callPC'[c] = "refused" => callPC[c] \in Checked,
           dep'[c].id \in {dep[c].id, None}, dep'[c].created <= clock
    PROVE  SerialOK'
<1>0. OneAtATime /\ FreshOK /\ EndedOK /\ doomed' = doomed
  BY DEF HInv, SerialOK, Aside
<1>1. \A d \in Calls : d # c => callPC'[d] = callPC[d] /\ dep'[d] = dep[d]
  BY DEF Aside
<1>2. OneAtATime'
  <2>1. \A d \in Calls : Open(d)' => Open(d)
    BY <1>1 DEF Open, Checked
  <2>2. \A d \in Calls : callPC'[d] \in UnderWay => callPC[d] \in UnderWay \/ d = c
    BY <1>1
  <2>3. \A d, e \in Calls : callPC'[d] \in UnderWay /\ callPC'[e] \in UnderWay => d = e
    BY <1>0, <1>1, <2>2 DEF OneAtATime, UnderWay
  <2> QED
    BY <1>0, <1>1, <2>1, <2>3 DEF OneAtATime
<1>3. FreshOK'
  BY <1>0, <1>1, AsideFacts DEF FreshOK
<1>4. EndedOK'
  <2> SUFFICES ASSUME NEW d \in Calls, callPC'[d] \in Checked \cup {"accepted", "refused"},
                      NEW i \in IDs, Present(i)', ~ IsTerminal(Entry(i)'.status)
               PROVE  Open(deployments[i])'
    BY DEF EndedOK
  <2>1. callPC[d] \in Checked \cup {"accepted", "refused"}
    BY <1>1 DEF Checked
  <2> QED
    BY <1>0, <2>1, AsideFacts DEF EndedOK
<1> QED
  BY <1>2, <1>3, <1>4, AsideKeeps, AsideFiles DEF SerialOK

\* The new number is larger than those in the map, and no deletion has it.
LEMMA NewNumber ==
    ASSUME OneByOne, HInv, NEW c \in Calls, NumberDeployment(c)
    PROVE  LET n == NextDeploymentID(dep[c].app) IN
           /\ n \in IDs
           /\ \A i \in IDs : Present(i) => i < n
           /\ \A d \in Deleters : n \notin doomed[d]
<1>1. dep[c].app \in Apps
  BY HTypes DEF NumberDeployment, CallMoves, IInv, JobsOK, UnderWay
<1>2. PICK a \in Apps : a = dep[c].app
  BY <1>1
<1>3. PICK n \in IDs : n = NextDeploymentID(a)
  BY <1>2 DEF NumberDeployment
<1>4. ListByApp(a) = {i \in IDs : Present(i)}
  BY DEF ListByApp, OneByOne, HInv, SerialOK, EntriesOK, Present, Entry
<1>5. \A i \in IDs : Present(i) => i < n
  <2> DEFINE S == ListByApp(a) \cup {0}
  <2>1. IDs \subseteq Nat
    BY ConstantsAssumption
  <2>2. IsFiniteSet(ListByApp(a))
    BY <1>4 DEF HInv, SerialOK, FiniteOK
  <2>3. S \in SUBSET Nat /\ S # {} /\ IsFiniteSet(S)
    <3>1. IsFiniteSet(S)
      BY <2>2, FS_AddElement
    <3>2. ListByApp(a) \subseteq IDs
      BY <1>4
    <3>3. ASSUME NEW x \in S
          PROVE  x \in Nat
      <4>1. CASE x \in ListByApp(a)
        BY <2>1, <3>2, <4>1
      <4>2. CASE x = 0
        BY <4>2
      <4> QED
        BY <4>1, <4>2
    <3>4. S \in SUBSET Nat /\ 0 \in S
      BY <3>3
    <3> QED
      BY <3>1, <3>4
  <2> HIDE DEF S
  <2>4. Max(S) \in Nat /\ \A y \in S : y <= Max(S)
    BY <2>3, MaxIsLargest
  <2>5. n = 1 + Max(S)
    BY <1>3 DEF NextDeploymentID, S
  <2> QED
    BY <1>4, <2>1, <2>4, <2>5 DEF S
<1>6. ASSUME NEW w \in Workers, n \in doomed[w]
      PROVE  FALSE
  <2>1. PICK m \in IDs : n < m /\ Present(m)
    BY <1>6 DEF HInv, SerialOK, PrunesOK
  <2> QED
    BY <1>5, <2>1, ConstantsAssumption
<1>7. ASSUME NEW h \in Handlers, n \in doomed[h]
      PROVE  FALSE
  <2>1. ~ Present(n)
    BY <1>5, ConstantsAssumption
  <2>2. PICK m \in IDs : n < m /\ Present(m)
    BY <1>7, <2>1 DEF HInv, SerialOK, ClearsOK
  <2> QED
    BY <1>5, <2>2, ConstantsAssumption
<1> QED
  BY <1>2, <1>3, <1>5, <1>6, <1>7 DEF Deleters

\* The call that has it is still the open one.
LEMMA NumberKeeps ==
    ASSUME OneByOne, HInv, NEW c \in Calls, NumberDeployment(c)
    PROVE  SerialOK'
<1>0. /\ OneAtATime /\ EntriesOK /\ FreshOK /\ EndedOK /\ NumbersOK /\ FiniteOK
      /\ dep \in [Calls -> DeploymentRecord] /\ callPC \in [Calls -> CallPCs]
      /\ clock \in Nat
  BY HTypes DEF HInv, SerialOK
<1>1. /\ callPC[c] = "checked" /\ callPC' = [callPC EXCEPT ![c] = "numbered"]
      /\ clock' = clock + 1
      /\ UNCHANGED <<phase, deployments, disk, doomed, workerPC, workerJob>>
  BY DEF NumberDeployment, CallMoves, processVars, workerVars, deleteVars
<1>2. /\ dep'[c].id = NextDeploymentID(dep[c].app) /\ dep'[c].created = clock + 1
      /\ \A d \in Calls : d # c => dep'[d] = dep[d]
  BY <1>0 DEF NumberDeployment, DeploymentRecord
<1>3. /\ callPC'[c] = "numbered"
      /\ \A d \in Calls : d # c => callPC'[d] = callPC[d] /\ dep'[d] = dep[d]
  BY <1>0, <1>1, <1>2
<1>4. Aside(c)
  BY <1>1, <1>3 DEF Aside, Outside, CallPCs, UnderWay
<1>5. OneAtATime'
  <2>1. \A d \in Calls : (Open(d)' <=> Open(d)) /\ (callPC'[d] \in UnderWay <=> callPC[d] \in UnderWay)
    BY <1>1, <1>3 DEF Open, Checked, UnderWay
  <2>2. \A d \in Calls : callPC'[d] # "refusing" /\ dep'[d].created <= clock'
    <3>1. \A d \in Calls : dep[d].created \in Nat
      BY HTypes
    <3> QED
      BY <1>0, <1>1, <1>2, <1>3, <3>1 DEF OneAtATime
  <2> QED
    BY <1>0, <2>1, <2>2 DEF OneAtATime
<1>6. FreshOK'
  <2> SUFFICES ASSUME NEW d \in Calls, callPC'[d] \in {"numbered", "persisted"}
               PROVE  /\ dep'[d].id \in IDs
                      /\ \A i \in IDs : Present(i)' => i < dep'[d].id /\ Entry(i)'.created < dep'[d].created
                      /\ \A e \in Deleters : dep'[d].id \notin doomed'[e]
    BY DEF FreshOK
  <2>1. d = c
    BY <1>0, <1>1, <1>3 DEF OneAtATime, UnderWay
  <2>2. \A i \in IDs : Present(i) => Entry(i).created <= clock /\ Entry(i).created \in Nat
    BY <1>0, HTypes DEF OneAtATime, Entry
  <2>3. \A i \in IDs : Present(i)' => i < dep'[c].id
    BY <1>2, <1>4, NewNumber, AsideFacts
  <2>4. \A i \in IDs : Present(i)' => Entry(i)'.created < dep'[c].created
    BY <1>0, <1>2, <1>4, <2>2, AsideFacts
  <2>5. dep'[c].id \in IDs /\ \A e \in Deleters : dep'[c].id \notin doomed'[e]
    BY <1>1, <1>2, NewNumber
  <2> QED
    BY <2>1, <2>3, <2>4, <2>5
<1>7. EndedOK'
  <2>1. EndedOK => \A i \in IDs : Present(i) => IsTerminal(Entry(i).status) \/ Open(deployments[i])
    BY <1>1 DEF EndedOK, Checked
  <2> QED
    BY <1>0, <1>4, <2>1, AsideFacts DEF EndedOK
<1>8. NumbersOK'
  <2> SUFFICES ASSUME NEW a \in Apps, NEW i \in IDs, disk[a][i] # NoRecord
               PROVE  LET d == disk[a][i].call IN
                      /\ d \in Calls
                      /\ disk[a][i].rec.id = i /\ disk[a][i].rec.app = a
                      /\ disk[a][i].rec.status \in Status /\ disk[a][i].rec.created <= clock'
                      /\ callPC'[d] = "gone" \/ dep'[d].id \in {i, None}
                      /\ \A j \in IDs : disk[a][j].call = d => i = j
    BY <1>1 DEF NumbersOK
  <2>1. PICK d \in Calls : d = disk[a][i].call
    BY <1>0 DEF NumbersOK
  <2>2. d # c
    BY <1>1, <2>1, ConstantsAssumption DEF HInv, RInv, FilesOK, Early
  <2>3. disk[a][i].rec.created \in Nat
    <3>1. disk[a][i] \in [call: Calls \cup {None}, rec: DeploymentRecord]
      BY HTypes
    <3> QED
      BY <3>1 DEF DeploymentRecord
  <2> QED
    BY <1>0, <1>1, <1>3, <2>1, <2>2, <2>3 DEF NumbersOK
<1>9. FiniteOK'
  BY <1>0, <1>1 DEF FiniteOK, Present
<1> QED
  BY <1>4, <1>5, <1>6, <1>7, <1>8, <1>9, AsideKeeps DEF SerialOK

\* A save of a record that has a number keeps the files apart.
LEMMA PersistNumbers ==
    ASSUME HInv, NEW c \in Calls, PersistIgnoringError(c), UNCHANGED <<dep, clock, deployments>>,
           dep[c].app \in Apps, dep[c].status \in Status, callPC[c] \notin {"idle", "gone"},
           \A d \in Calls : callPC[d] = "gone" => callPC'[d] = "gone"
    PROVE  NumbersOK' /\ FiniteOK'
<1> DEFINE a == dep[c].app
           n == dep[c].id
           file == [call |-> c, rec |-> dep[c]]
<1>0. NumbersOK /\ FiniteOK /\ OneAtATime
  BY DEF HInv, SerialOK
<1>1. CASE disk' = disk
  <2>1. NumbersOK'
    BY <1>0, <1>1 DEF NumbersOK
  <2>2. FiniteOK'
    BY <1>0, <1>1 DEF FiniteOK, Present
  <2> QED
    BY <2>1, <2>2
<1>2. CASE disk' # disk
  <2>1. disk' = [disk EXCEPT ![a][n] = file] /\ n \in IDs
    <3>1. disk' = [disk EXCEPT ![a][n] = file]
      BY <1>2 DEF PersistIgnoringError, PersistDeployment
    <3>2. n \notin IDs => disk' = disk
      <4>1. disk \in [Apps -> [IDs -> [call: Calls \cup {None}, rec: DeploymentRecord]]]
        BY HTypes
      <4> SUFFICES ASSUME n \notin IDs
                   PROVE  disk' = disk
        OBVIOUS
      <4> HIDE DEF file
      <4>2. \A b \in Apps : disk'[b] = disk[b]
        BY <3>1, <4>1
      <4>3. disk' = [b \in Apps |-> disk'[b]] /\ disk = [b \in Apps |-> disk[b]]
        BY <3>1, <4>1
      <4> QED
        BY <4>2, <4>3
    <3> QED
      BY <1>2, <3>1, <3>2
  <2>2. /\ \A b \in Apps, i \in IDs : ~ (b = a /\ i = n) => disk'[b][i] = disk[b][i]
        /\ disk'[a][n] = file
    <3>1. disk \in [Apps -> [IDs -> [call: Calls \cup {None}, rec: DeploymentRecord]]]
      BY HTypes
    <3> HIDE DEF file
    <3> QED
      BY <2>1, <3>1
  <2>3. file.call = c /\ file.rec = dep[c] /\ dep[c].created <= clock
    BY <1>0 DEF OneAtATime
  <2>4. NumbersOK'
    <3> SUFFICES ASSUME NEW b \in Apps, NEW i \in IDs, disk'[b][i] # NoRecord
                 PROVE  LET d == disk'[b][i].call IN
                        /\ d \in Calls
                        /\ disk'[b][i].rec.id = i /\ disk'[b][i].rec.app = b
                        /\ disk'[b][i].rec.status \in Status /\ disk'[b][i].rec.created <= clock'
                        /\ callPC'[d] = "gone" \/ dep'[d].id \in {i, None}
                        /\ \A j \in IDs : disk'[b][j].call = d => i = j
      BY DEF NumbersOK
    <3> HIDE DEF file
    <3>0. n # None /\ c # None
      BY <2>1, ConstantsAssumption
    <3>1. ASSUME NEW e \in Apps, NEW j \in IDs, disk[e][j].call = c
          PROVE  j = n
      <4>1. disk[e][j] # NoRecord
        BY <3>0, <3>1 DEF NoRecord
      <4> QED
        BY <1>0, <3>0, <3>1, <4>1 DEF NumbersOK
    <3>2. CASE b = a /\ i = n
      <4>1. /\ disk'[b][i].call = c /\ disk'[b][i].rec = dep[c]
        BY <2>2, <2>3, <3>2
      <4>2. ASSUME NEW j \in IDs, disk'[b][j].call = c
            PROVE  i = j
        BY <2>2, <3>1, <3>2, <4>2
      <4> QED
        BY <2>3, <3>2, <4>1, <4>2
    <3>3. CASE ~ (b = a /\ i = n)
      <4>1. disk'[b][i] = disk[b][i]
        BY <2>2, <3>3
      <4>2. PICK d \in Calls : d = disk[b][i].call
        BY <1>0, <3>3, <4>1 DEF NumbersOK
      <4>3. d = c => i = n
        BY <3>1, <4>2
      <4>4. ASSUME NEW j \in IDs, disk'[b][j].call = d
            PROVE  i = j
        <5>1. CASE b = a /\ j = n
          BY <2>2, <2>3, <4>3, <4>4, <5>1
        <5>2. CASE ~ (b = a /\ j = n)
          BY <1>0, <2>2, <4>1, <4>2, <4>4, <5>2 DEF NumbersOK
        <5> QED
          BY <5>1, <5>2
      <4> QED
        BY <1>0, <4>1, <4>2, <4>4 DEF NumbersOK
    <3> QED
      BY <3>2, <3>3
  <2>5. FiniteOK'
    <3>1. ASSUME NEW b \in Apps
          PROVE  IsFiniteSet({i \in IDs : disk'[b][i] # NoRecord})
      <4> DEFINE Old == {i \in IDs : disk[b][i] # NoRecord}
                 New == {i \in IDs : disk'[b][i] # NoRecord}
      <4>1. IsFiniteSet(Old \cup {n})
        <5>1. IsFiniteSet(Old)
          BY <1>0 DEF FiniteOK
        <5> QED
          BY <5>1, FS_AddElement
      <4>2. New \in SUBSET (Old \cup {n})
        BY <2>2
      <4> HIDE DEF Old, New
      <4>3. IsFiniteSet(New)
        BY <4>1, <4>2, FS_Subset
      <4> QED
        BY <4>3 DEF New
    <3> QED
      BY <1>0, <3>1 DEF FiniteOK, Present
  <2> QED
    BY <2>4, <2>5
<1> QED
  BY <1>1, <1>2

\* The first save: the call stays the open one.
LEMMA PersistNewKeeps ==
    ASSUME HInv, NEW c \in Calls, PersistNew(c)
    PROVE  SerialOK'
<1>0. /\ OneAtATime /\ FreshOK /\ EndedOK
      /\ callPC \in [Calls -> CallPCs]
  BY HTypes DEF HInv, SerialOK
<1>1. /\ callPC[c] = "numbered" /\ callPC' = [callPC EXCEPT ![c] = "persisted"]
      /\ UNCHANGED <<phase, clock, dep, deployments, doomed, workerPC, workerJob>>
      /\ PersistDeployment(c)
  BY DEF PersistNew, CallMoves, processVars, workerVars, deleteVars
<1>2. /\ callPC'[c] = "persisted"
      /\ \A d \in Calls : dep'[d] = dep[d] /\ (d # c => callPC'[d] = callPC[d])
  BY <1>0, <1>1
<1>3. Aside(c)
  BY <1>1, <1>2 DEF Aside, Outside, CallPCs, UnderWay
<1>4. OneAtATime'
  <2>1. \A d \in Calls : /\ Open(d)' <=> Open(d)
                         /\ callPC'[d] \in UnderWay <=> callPC[d] \in UnderWay
                         /\ callPC'[d] # "refusing"
    BY <1>0, <1>1, <1>2 DEF Open, Checked, UnderWay, OneAtATime
  <2> QED
    BY <1>0, <1>1, <2>1 DEF OneAtATime
<1>5. FreshOK'
  <2>1. \A d \in Calls : callPC'[d] \in {"numbered", "persisted"} => callPC[d] \in {"numbered", "persisted"}
    BY <1>1, <1>2
  <2> QED
    BY <1>0, <1>1, <1>3, <2>1, AsideFacts DEF FreshOK
<1>6. EndedOK'
  <2>1. EndedOK => \A i \in IDs : Present(i) => IsTerminal(Entry(i).status) \/ Open(deployments[i])
    BY <1>1 DEF EndedOK, Checked
  <2> QED
    BY <1>0, <1>3, <2>1, AsideFacts DEF EndedOK
<1>7. NumbersOK' /\ FiniteOK'
  <2>1. dep[c].app \in Apps /\ dep[c].status \in Status
    BY <1>1, HTypes DEF IInv, JobsOK, UnderWay, RInv, CallStatus, Status
  <2>2. \A d \in Calls : callPC[d] = "gone" => callPC'[d] = "gone"
    BY <1>1, <1>2
  <2> QED
    BY <1>1, <2>1, <2>2, PersistNumbers DEF PersistIgnoringError
<1> QED
  BY <1>3, <1>4, <1>5, <1>6, <1>7, AsideKeeps DEF SerialOK

\* The new record comes into the map at a free number, above all others.
LEMMA InsertKeeps ==
    ASSUME HInv, NEW c \in Calls, InsertNew(c)
    PROVE  SerialOK'
<1>n. PICK n \in IDs : n = dep[c].id
  BY DEF HInv, SerialOK, FreshOK, InsertNew, CallMoves
<1>0. /\ OneAtATime /\ EntriesOK /\ FreshOK /\ OpenOK /\ EndedOK /\ PrunesOK /\ ClearsOK
      /\ NumbersOK /\ FiniteOK
      /\ deployments \in [IDs -> Calls \cup {None}]
      /\ callPC \in [Calls -> CallPCs]
  BY HTypes DEF HInv, SerialOK
<1>1. /\ callPC[c] = "persisted" /\ callPC' = [callPC EXCEPT ![c] = "inserted"]
      /\ deployments' = [deployments EXCEPT ![n] = c]
      /\ UNCHANGED <<phase, clock, dep, disk, doomed, workerPC, workerJob>>
  BY <1>n DEF InsertNew, CallMoves, processVars, workerVars, deleteVars
<1>2. /\ n \in IDs /\ n \in Nat /\ ~ Present(n)
      /\ \A i \in IDs : Present(i) => i < n /\ Entry(i).created < dep[c].created
      /\ \A d \in Deleters : n \notin doomed[d]
  <2>1. /\ n \in IDs
        /\ \A i \in IDs : Present(i) => i < n /\ Entry(i).created < dep[c].created
        /\ \A d \in Deleters : n \notin doomed[d]
    BY <1>0, <1>1, <1>n DEF FreshOK
  <2>2. n \in Nat
    BY <2>1, ConstantsAssumption
  <2>3. ~ Present(n)
    BY <2>1, <2>2
  <2> QED
    BY <2>1, <2>2, <2>3
<1>3. /\ callPC'[c] = "inserted" /\ deployments'[n] = c /\ c # None
      /\ \A d \in Calls : dep'[d] = dep[d] /\ (d # c => callPC'[d] = callPC[d])
      /\ \A i \in IDs : i # n => deployments'[i] = deployments[i]
  BY <1>0, <1>1, <1>2, ConstantsAssumption
<1>4. /\ \A d \in Calls : (Open(d)' <=> Open(d)) /\ (callPC'[d] \in UnderWay <=> callPC[d] \in UnderWay)
      /\ Open(c)
  BY <1>1, <1>3 DEF Open, Checked, UnderWay
<1>5. /\ Present(n)' /\ Entry(n)' = dep[c]
      /\ \A i \in IDs : i # n => (Present(i)' <=> Present(i))
      /\ \A i \in IDs : Present(i) =>
            /\ i # n /\ deployments'[i] = deployments[i] /\ deployments[i] \in Calls
            /\ deployments[i] # c
            /\ Entry(i)' = Entry(i) /\ callPC'[deployments[i]] = callPC[deployments[i]]
            /\ Open(deployments[i])' <=> Open(deployments[i])
  <2>1. ASSUME NEW i \in IDs, Present(i)
        PROVE  /\ i # n /\ deployments'[i] = deployments[i] /\ deployments[i] \in Calls
               /\ deployments[i] # c
               /\ Entry(i)' = Entry(i) /\ callPC'[deployments[i]] = callPC[deployments[i]]
               /\ Open(deployments[i])' <=> Open(deployments[i])
    <3>1. i # n /\ deployments'[i] = deployments[i]
      BY <1>2, <1>3, <2>1
    <3>2. PICK d \in Calls : d = deployments[i]
      BY <2>1, HTypes
    <3>3. d # c
      BY <1>0, <1>1, <2>1, <3>2 DEF EntriesOK
    <3>4. dep'[d] = dep[d] /\ callPC'[d] = callPC[d]
      BY <1>3, <3>3
    <3> QED
      BY <3>1, <3>2, <3>3, <3>4 DEF Entry, Open
  <2>2. Present(n)' /\ Entry(n)' = dep[c]
    BY <1>1, <1>3 DEF Present, Entry
  <2>3. \A i \in IDs : i # n => (Present(i)' <=> Present(i))
    BY <1>3 DEF Present
  <2> QED
    BY <2>1, <2>2, <2>3
<1>6. dep[c].app \in Apps /\ dep[c].status = "queued"
  BY <1>1, HTypes DEF IInv, JobsOK, UnderWay, RInv, CallStatus
<1>7. OneAtATime'
  BY <1>0, <1>1, <1>3, <1>4 DEF OneAtATime
<1>8. EntriesOK'
  <2>1. ASSUME NEW i \in IDs, Present(i)'
        PROVE  /\ Entry(i)'.id = i /\ Entry(i)'.app \in Apps /\ Entry(i)'.status \in Status
               /\ callPC'[deployments'[i]] \in {"inserted", "sending", "accepted", "gone"}
    <3>1. CASE i = n
      <4>1. Entry(i)' = dep[c] /\ callPC'[deployments'[i]] = "inserted"
        BY <1>3, <1>5, <3>1
      <4> QED
        BY <1>n, <1>6, <3>1, <4>1 DEF Status
    <3>2. CASE i # n
      BY <1>0, <1>5, <2>1, <3>2 DEF EntriesOK
    <3> QED
      BY <3>1, <3>2
  <2>2. ASSUME NEW i \in IDs, NEW j \in IDs, Present(i)', Present(j)', i < j,
               callPC'[deployments'[j]] # "gone"
        PROVE  Entry(i)'.created < Entry(j)'.created
    <3>1. CASE i = n
      <4>1. j # n /\ Present(j)
        BY <1>2, <1>5, <2>2, <3>1
      <4>2. j \in Nat /\ j < n
        BY <1>2, <4>1, ConstantsAssumption
      <4> QED
        BY <1>2, <2>2, <3>1, <4>2
    <3>2. CASE j = n
      <4>1. i # n /\ Present(i)
        BY <1>2, <1>5, <2>2, <3>2
      <4>2. Entry(i)' = Entry(i) /\ Entry(i).created < dep[c].created
        BY <1>2, <1>5, <4>1
      <4>3. Entry(j)' = dep[c]
        BY <1>5, <3>2 DEF Entry
      <4> QED
        BY <4>2, <4>3
    <3>3. CASE i # n /\ j # n
      BY <1>0, <1>5, <2>2, <3>3 DEF EntriesOK
    <3> QED
      BY <3>1, <3>2, <3>3
  <2> QED
    BY <2>1, <2>2 DEF EntriesOK
<1>9. FreshOK'
  <2>1. \A d \in Calls : callPC'[d] \notin {"numbered", "persisted"}
    BY <1>0, <1>1, <1>3 DEF OneAtATime, UnderWay
  <2> QED
    BY <2>1 DEF FreshOK
<1>10. OpenOK'
  <2> SUFFICES ASSUME NEW d \in Calls, callPC'[d] \in {"inserted", "sending", "accepted"}, Open(d)'
               PROVE  /\ dep'[d].id \in IDs /\ deployments'[dep'[d].id] = d
                      /\ \A i \in IDs : Present(i)' => i <= dep'[d].id
    BY DEF OpenOK
  <2>1. d = c
    BY <1>0, <1>4 DEF OneAtATime
  <2>2. \A i \in IDs : Present(i)' => i <= n
    BY <1>2, <1>5, ConstantsAssumption
  <2> QED
    BY <1>1, <1>2, <1>3, <1>n, <2>1, <2>2
<1>11. EndedOK'
  <2>1. \A i \in IDs : Present(i) => IsTerminal(Entry(i).status) \/ Open(deployments[i])
    BY <1>0, <1>1 DEF EndedOK, Checked
  <2>2. ASSUME NEW i \in IDs, Present(i)'
        PROVE  IsTerminal(Entry(i)'.status) \/ Open(deployments[i])'
    <3>1. CASE i = n
      BY <1>3, <1>4, <3>1 DEF Open
    <3>2. CASE i # n
      BY <1>5, <2>1, <2>2, <3>2
    <3> QED
      BY <3>1, <3>2
  <2> QED
    BY <2>2 DEF EndedOK
<1>12. PrunesOK'
  <2> SUFFICES ASSUME NEW w \in Workers
               PROVE  LET j == workerJob'[w] IN
                      /\ workerPC'[w] \in Succeeded =>
                            dep'[j].id \in IDs /\ deployments'[dep'[j].id] = j
                      /\ workerPC'[w] \in Successful =>
                            \A i \in IDs : Present(i)' /\ i > dep'[j].id => Open(deployments[i])'
                      /\ doomed'[w] # {} => workerPC'[w] = "pruning"
                      /\ \A i \in doomed'[w] :
                            /\ Present(i)' => IsTerminal(Entry(i)'.status)
                            /\ \E m \in IDs \ doomed'[w] :
                                  /\ i < m /\ Present(m)'
                                  /\ deployments'[m] = j \/ Open(deployments[m])'
    BY DEF PrunesOK
  <2> DEFINE j == workerJob[w]
  <2>1. workerPC' = workerPC /\ workerJob' = workerJob /\ dep' = dep /\ doomed' = doomed
    BY <1>1
  <2>2. workerPC[w] \in Successful => j \in Calls /\ j # None
    BY HTypes, ConstantsAssumption DEF Typed, WorkersHaveJobs, LockedPCs
  <2>3. doomed[w] \subseteq IDs /\ n \notin doomed[w]
    BY <1>2, HTypes DEF Deleters
  <2>4. workerPC[w] \in Succeeded =>
              dep[j].id \in IDs /\ deployments'[dep[j].id] = j
    <3>1. workerPC[w] \in Succeeded =>
              dep[j].id \in IDs /\ deployments[dep[j].id] = j
      BY <1>0 DEF PrunesOK
    <3> QED
      BY <1>2, <1>3, <2>2, <3>1 DEF Present
  <2>5. ASSUME workerPC[w] \in Successful,
               NEW i \in IDs, Present(i)', i > dep[j].id
        PROVE  Open(deployments[i])'
    <3>1. CASE i = n
      BY <1>3, <1>4, <3>1 DEF Open
    <3>2. CASE i # n
      BY <1>0, <1>5, <2>5, <3>2 DEF PrunesOK
    <3> QED
      BY <3>1, <3>2
  <2>6. doomed[w] # {} => workerPC[w] = "pruning"
    BY <1>0 DEF PrunesOK
  <2>7. ASSUME NEW i \in doomed[w]
        PROVE  /\ Present(i)' => IsTerminal(Entry(i)'.status)
               /\ \E m \in IDs \ doomed[w] :
                     /\ i < m /\ Present(m)'
                     /\ deployments'[m] = j \/ Open(deployments[m])'
    <3>1. i \in IDs /\ i # n
      BY <2>3
    <3>2. PICK m \in IDs \ doomed[w] :
             i < m /\ Present(m) /\ (deployments[m] = j \/ Open(deployments[m]))
      BY <1>0, <3>1 DEF PrunesOK
    <3>3. Present(m)' /\ (deployments'[m] = j \/ Open(deployments[m])')
      BY <1>5, <3>2
    <3>4. Present(i)' => IsTerminal(Entry(i)'.status)
      BY <1>0, <1>5, <3>1 DEF PrunesOK
    <3> QED
      BY <3>2, <3>3, <3>4
  <2> QED
    BY <2>1, <2>4, <2>5, <2>6, <2>7
<1>13. ClearsOK'
  <2> SUFFICES ASSUME NEW h \in Handlers, NEW i \in IDs, i \in doomed[h]
               PROVE  /\ Present(i)' => Entry(i)'.status \in {"failed", "cancelled"}
                      /\ ~ Present(i)' => \E j \in IDs \ doomed[h] : i < j /\ Present(j)'
    BY <1>1 DEF ClearsOK
  <2>1. i # n
    BY <1>2 DEF Deleters
  <2> QED
    BY <1>0, <1>5, <2>1 DEF ClearsOK
<1>14. NumbersOK'
  <2>1. \A d \in Calls : callPC[d] = "gone" => callPC'[d] = "gone"
    BY <1>1, <1>3
  <2> QED
    BY <1>0, <1>1, <2>1 DEF NumbersOK
<1>15. FiniteOK'
  <2> DEFINE Old == {i \in IDs : Present(i)}
             New == {i \in IDs : Present(i)'}
  <2>1. New = Old \cup {n}
    <3>1. \A i \in IDs : deployments'[i] # None <=> deployments[i] # None \/ i = n
      BY <1>5 DEF Present
    <3> QED
      BY <1>2, <3>1 DEF Present
  <2>2. IsFiniteSet(Old)
    BY <1>0 DEF FiniteOK
  <2> HIDE DEF Old, New
  <2>3. IsFiniteSet(New)
    BY <2>1, <2>2, FS_AddElement
  <2> QED
    BY <1>0, <1>1, <2>3 DEF FiniteOK, New
<1>16. NothingOK'
  <2>1. phase' # "down"
    BY <1>1, HTypes DEF IInv, DownOK, UnderWay
  <2> QED
    BY <2>1 DEF NothingOK
<1> QED
  BY <1>7, <1>8, <1>9, <1>10, <1>11, <1>12, <1>13, <1>14, <1>15, <1>16 DEF SerialOK

\* A call that has inserted its record, and the send of its job.
LEMMA SendingKeeps ==
    ASSUME HInv, NEW c \in Calls, RegisterCancel(c) \/ ResaveRollback(c) \/ SendJob(c)
    PROVE  SerialOK'
<1>0. callPC \in [Calls -> CallPCs] /\ OneAtATime
  BY HTypes DEF HInv, SerialOK
<1>1. /\ \/ callPC[c] = "inserted" /\ callPC' = [callPC EXCEPT ![c] = "sending"]
         \/ callPC[c] = "sending" /\ callPC' = [callPC EXCEPT ![c] = "accepted"]
      /\ UNCHANGED <<phase, clock, dep, deployments, doomed, workerPC, workerJob>>
      /\ PersistIgnoringError(c) \/ UNCHANGED disk
  BY DEF RegisterCancel, ResaveRollback, SendJob, CallMoves, processVars, workerVars, deleteVars
<1>2. dep[c].status = "queued" /\ dep[c].app \in Apps
  BY <1>1, HTypes DEF RInv, CallStatus, IInv, JobsOK, UnderWay
<1>3. Stays
  BY <1>0, <1>1, <1>2 DEF Stays
<1>4. \A d \in Calls : Open(d) => Open(d)'
  <2>1. ASSUME NEW d \in Calls, Open(d)
        PROVE  Open(d)'
    <3>1. CASE d = c
      BY <1>0, <1>1, <1>2, <3>1 DEF Open, Checked, IsTerminal
    <3>2. CASE d # c
      BY <1>0, <1>1, <2>1, <3>2 DEF Open
    <3> QED
      BY <3>1, <3>2
  <2> QED
    BY <2>1
<1>5. NumbersOK' /\ FiniteOK'
  <2>1. CASE UNCHANGED disk
    BY <1>3, <2>1, StaysFiles
  <2>2. CASE PersistIgnoringError(c)
    <3>1. \A d \in Calls : callPC[d] = "gone" => callPC'[d] = "gone"
      BY <1>3 DEF Stays
    <3> QED
      BY <1>1, <1>2, <2>2, <3>1, PersistNumbers DEF Status
  <2> QED
    BY <1>1, <2>1, <2>2
<1>6. PrunesOK'
  BY <1>1, <1>3, <1>4, StaysPrunes
<1> QED
  BY <1>3, <1>5, <1>6, StaysKeeps, StaysEnded DEF SerialOK

\* The channel is never full for the only call there is, for a job in it would
\* be an open deployment besides.
LEMMA NeverFull ==
    ASSUME HInv, NEW c \in Calls, QueueFull(c) \/ PersistRefused(c)
    PROVE  FALSE
<1>1. CASE PersistRefused(c)
  BY <1>1 DEF PersistRefused, CallMoves, HInv, SerialOK, OneAtATime
<1>2. CASE QueueFull(c)
  <2>1. callPC[c] = "sending" /\ Len(jobQueue) >= QueueCap
    BY <1>2 DEF QueueFull, CallMoves
  <2>2. jobQueue \in Seq(Calls) /\ QueueCap \in Nat \ {0}
    BY HTypes, ConstantsAssumption DEF Typed, TypeOK
  <2>3. 1 \in 1..Len(jobQueue) /\ jobQueue[1] \in Calls
    BY <2>1, <2>2
  <2>4. PICK d \in Calls : d = jobQueue[1]
    BY <2>3
  <2>5. callPC[d] = "accepted" /\ InQueue(d)
    BY <2>3, <2>4, HTypes DEF IInv, JobsOK, InQueue
  <2>6. dep[d].status = "queued"
    BY <2>5, HTypes DEF RInv, CallStatus
  <2>7. Open(d) /\ Open(c)
    BY <2>1, <2>5, <2>6 DEF Open, Checked, IsTerminal
  <2>8. d = c
    BY <2>7 DEF HInv, SerialOK, OneAtATime
  <2> QED
    BY <2>1, <2>5, <2>8
<1> QED
  BY <1>1, <1>2

\* The steps of a call.
LEMMA CallKeepsSerial ==
    ASSUME OneByOne, HInv, NEW c \in Calls,
           \/ \E a \in Apps : EnqueueCheck(c, a) \/ \E i \in IDs : RollbackTarget(c, a, i)
           \/ CallStep(c)
    PROVE  SerialOK'
<1>0. /\ OneAtATime
      /\ callPC \in [Calls -> CallPCs] /\ dep \in [Calls -> DeploymentRecord]
      /\ \A d \in Calls : dep[d].created \in Nat
  BY HTypes DEF HInv, SerialOK
<1> USE DEF CallMoves, processVars, workerVars, deleteVars
<1>1. ASSUME NEW a \in Apps, EnqueueCheck(c, a)
      PROVE  SerialOK'
  <2>1. /\ callPC[c] = "idle" /\ callPC' = [callPC EXCEPT ![c] = "checked"]
        /\ dep' = [dep EXCEPT ![c].app = a] /\ NoActiveSeen(a) /\ MayCall(c)
        /\ UNCHANGED <<phase, clock, deployments, disk, doomed, workerPC, workerJob>>
    BY <1>1 DEF EnqueueCheck
  <2>2. /\ callPC'[c] = "checked"
        /\ \A d \in Calls : d # c => callPC'[d] = callPC[d] /\ dep'[d] = dep[d]
        /\ dep'[c].id = dep[c].id /\ dep'[c].created = dep[c].created
    BY <1>0, <2>1 DEF DeploymentRecord
  <2>3. Aside(c)
    BY <2>1, <2>2 DEF Aside, Outside, CallPCs, UnderWay
  <2>4. \A d \in Calls : callPC[d] \in UnderWay => d = c
    BY <2>1, NobodyUnderWay
  <2> QED
    BY <2>1, <2>2, <2>3, <2>4, PassesCheck
<1>2. ASSUME NEW a \in Apps, NEW i \in IDs, RollbackTarget(c, a, i)
      PROVE  SerialOK'
  <2>1. /\ callPC[c] = "idle" /\ callPC' = [callPC EXCEPT ![c] = "targeted"]
        /\ dep' = [dep EXCEPT ![c].app = a, ![c].rollbackTo = dep[deployments[i]].imageID]
        /\ MayCall(c)
        /\ UNCHANGED <<phase, clock, deployments, disk, doomed, workerPC, workerJob>>
    BY <1>2 DEF RollbackTarget
  <2>2. /\ callPC'[c] = "targeted"
        /\ \A d \in Calls : d # c => callPC'[d] = callPC[d] /\ dep'[d] = dep[d]
        /\ dep'[c].id = dep[c].id /\ dep'[c].created = dep[c].created
    BY <1>0, <2>1 DEF DeploymentRecord
  <2>3. Aside(c)
    BY <2>1, <2>2 DEF Aside, Outside, CallPCs, UnderWay
  <2>4. \A d \in Calls : callPC[d] \notin UnderWay
    BY <2>1, NobodyUnderWay
  <2>5. dep'[c].created <= clock
    BY <1>0, <2>2 DEF OneAtATime
  <2> QED
    BY <2>1, <2>2, <2>3, <2>4, <2>5, StaysOutside
<1>3. CASE RollbackCheck(c)
  <2>1. /\ callPC[c] = "targeted"
        /\ UNCHANGED <<phase, clock, deployments, disk, doomed, workerPC, workerJob>>
        /\ \/ /\ NoActiveSeen(dep[c].app) /\ callPC' = [callPC EXCEPT ![c] = "checked"]
              /\ dep' = dep
           \/ callPC' = [callPC EXCEPT ![c] = "idle"] /\ dep' = [dep EXCEPT ![c] = NoDeployment]
    BY <1>3 DEF RollbackCheck
  <2>2. /\ callPC'[c] \in {"checked", "idle"}
        /\ \A d \in Calls : d # c => callPC'[d] = callPC[d] /\ dep'[d] = dep[d]
    BY <1>0, <2>1
  <2>3. Aside(c)
    BY <2>1, <2>2 DEF Aside, Outside, CallPCs, UnderWay
  <2>4. CASE callPC'[c] = "checked"
    <3>1. PICK a \in Apps : a = dep[c].app
      BY <2>1, HTypes DEF IInv, JobsOK, UnderWay
    <3>2. NoActiveSeen(a) /\ dep' = dep
      BY <1>0, <2>1, <2>4, <3>1
    <3>3. \A d \in Calls : callPC[d] \in UnderWay => d = c
      BY <1>0, <2>1 DEF OneAtATime, UnderWay
    <3> QED
      BY <2>1, <2>3, <2>4, <3>2, <3>3, PassesCheck
  <2>5. CASE callPC'[c] = "idle"
    <3>1. dep'[c] = NoDeployment
      BY <1>0, <2>1, <2>5
    <3>2. dep'[c].id = None /\ dep'[c].created <= clock
      BY <3>1, HTypes DEF NoDeployment
    <3> QED
      BY <2>1, <2>3, <2>5, <3>2, StaysOutside
  <2> QED
    BY <2>2, <2>4, <2>5
<1>4. CASE PersistNewFails(c)
  <2>1. /\ callPC[c] = "numbered" /\ callPC' = [callPC EXCEPT ![c] = "refused"]
        /\ dep' = [dep EXCEPT ![c] = NoDeployment]
        /\ UNCHANGED <<phase, clock, deployments, disk, doomed, workerPC, workerJob>>
    BY <1>4 DEF PersistNewFails
  <2>2. /\ callPC'[c] = "refused" /\ dep'[c] = NoDeployment
        /\ \A d \in Calls : d # c => callPC'[d] = callPC[d] /\ dep'[d] = dep[d]
    BY <1>0, <2>1
  <2>3. Aside(c)
    BY <2>1, <2>2 DEF Aside, Outside, CallPCs, UnderWay
  <2>4. dep'[c].id = None /\ dep'[c].created <= clock
    BY <2>2, HTypes DEF NoDeployment
  <2> QED
    BY <2>1, <2>2, <2>3, <2>4, StaysOutside DEF Checked
<1>5. CASE NumberDeployment(c) \/ PersistNew(c) \/ InsertNew(c)
  BY <1>5, NumberKeeps, PersistNewKeeps, InsertKeeps
<1>6. CASE RegisterCancel(c) \/ ResaveRollback(c) \/ SendJob(c)
  BY <1>6, SendingKeeps
<1>7. CASE QueueFull(c) \/ PersistRefused(c)
  BY <1>7, NeverFull
<1> QED
  BY <1>1, <1>2, <1>3, <1>4, <1>5, <1>6, <1>7 DEF CallStep

-----------------------------------------------------------------------------
(* The workers *)

\* A step of a worker that changes neither records nor the map, and saves none.
LEMMA QuietKeepsSerial ==
    ASSUME HInv, UNCHANGED <<clock, callPC, dep, deployments, disk, doomed>>,
           phase' = "down" => phase = "down",
           \A w \in Workers :
              \/ workerPC'[w] = workerPC[w] /\ workerJob'[w] = workerJob[w]
              \/ /\ workerPC'[w] \notin Successful
                 /\ workerPC[w] = "pruning" => doomed[w] = {}
    PROVE  SerialOK'
<1>1. Stays
  BY DEF Stays
<1>2. \A c \in Calls : Open(c) => Open(c)'
  BY DEF Open
<1>3. PrunesOK'
  BY <1>1, <1>2, StaysPrunes
<1> QED
  BY <1>1, <1>3, StaysKeeps, StaysEnded, StaysFiles DEF SerialOK

\* A new status of a job that has not ended leaves all else as it is.
LEMMA StatusStays ==
    ASSUME HInv, NEW w \in Workers, workerPC[w] \in LockedPCs,
           ~ IsTerminal(dep[workerJob[w]].status),
           NEW s \in Status, SetStatus(workerJob[w], s),
           UNCHANGED <<phase, clock, callPC, deployments, doomed>>
    PROVE  /\ Stays /\ dep'[workerJob[w]].status = s
           /\ \A d \in Calls : d # workerJob[w] => dep'[d] = dep[d]
<1>1. PICK c \in Calls : c = workerJob[w]
  BY JobIsOpen
<1>2. /\ callPC[c] = "accepted" /\ Open(c)
      /\ dep[c].id \in IDs /\ deployments[dep[c].id] = c
  BY <1>1, JobIsOpen
<1>3. dep' = [dep EXCEPT ![c].status = s]
  BY <1>1 DEF SetStatus
<1>4. dep \in [Calls -> DeploymentRecord]
  BY HTypes
<1>5. /\ \A d \in Calls : d # c => dep'[d] = dep[d]
      /\ dep'[c].status = s /\ dep'[c].id = dep[c].id /\ dep'[c].app = dep[c].app
      /\ dep'[c].created = dep[c].created
  BY <1>3, <1>4 DEF DeploymentRecord
<1> QED
  BY <1>1, <1>2, <1>5 DEF Stays

\* A step of a run whose deployment goes on.
LEMMA RunGoesOn ==
    ASSUME HInv, NEW w \in Workers,
           StartJob(w) \/ ExecuteStage(w) \/ ExecuteRollbackImage(w)
    PROVE  SerialOK'
<1> USE DEF RunMoves, WorkerMoves, processVars, callVars, workerVars, deleteVars
<1>0. /\ workerPC \in [Workers -> WorkerPCs] /\ dep \in [Calls -> DeploymentRecord]
      /\ RunStatus(w)
  BY HTypes DEF RInv
<1>1. /\ workerPC[w] \in {"opening", "executing"}
      /\ UNCHANGED <<phase, clock, callPC, deployments, disk, doomed, workerJob>>
      /\ \A v \in Workers : v # w => workerPC'[v] = workerPC[v]
      /\ workerPC'[w] \in {"storing_start", "executing"}
  BY <1>0 DEF StartJob, ExecuteStage, ExecuteRollbackImage
<1>2. ~ IsTerminal(dep[workerJob[w]].status)
  BY <1>0, <1>1 DEF RunStatus, Executing, IsTerminal
<1>3. PICK c \in Calls : c = workerJob[w]
  BY <1>1, <1>2, JobIsOpen DEF LockedPCs
<1>4. callPC[c] = "accepted" /\ Open(c)
  BY <1>1, <1>2, <1>3, JobIsOpen DEF LockedPCs
<1>5. Stays /\ ~ IsTerminal(dep'[c].status) /\ \A d \in Calls : d # c => dep'[d] = dep[d]
  <2>1. CASE StartJob(w)
    <3>1. SetStatus(workerJob[w], "preparing")
      BY <2>1 DEF StartJob
    <3> QED
      BY <1>1, <1>2, <1>3, <3>1, StatusStays DEF LockedPCs, Status, IsTerminal
  <2>2. CASE ExecuteStage(w)
    <3> DEFINE s == Transition(dep[c].status, NextStage[dep[c].status])
    <3>1. \E i : dep' = [dep EXCEPT ![c].status = s, ![c].imageID = i]
      BY <1>3, <2>2 DEF ExecuteStage
    <3>2. s \in Status /\ ~ IsTerminal(s)
      <4>1. dep[c].status \in DOMAIN NextStage
        BY <1>3, <2>2 DEF ExecuteStage
      <4> QED
        BY <4>1 DEF NextStage, Transition, Status, IsTerminal
    <3> HIDE DEF s
    <3>3. /\ \A d \in Calls : d # c => dep'[d] = dep[d]
          /\ dep'[c].status = s /\ dep'[c].id = dep[c].id /\ dep'[c].app = dep[c].app
          /\ dep'[c].created = dep[c].created
      BY <1>0, <3>1 DEF DeploymentRecord
    <3>4. deployments' = deployments
      BY <2>2 DEF ExecuteStage
    <3> QED
      BY <1>1, <1>4, <3>2, <3>3, <3>4 DEF Stays
  <2>3. CASE ExecuteRollbackImage(w)
    <3>1. \E i : dep' = [dep EXCEPT ![c].imageID = i]
      BY <1>3, <2>3 DEF ExecuteRollbackImage
    <3>2. /\ \A d \in Calls : d # c => dep'[d] = dep[d]
          /\ dep'[c].status = dep[c].status /\ dep'[c].id = dep[c].id /\ dep'[c].app = dep[c].app
          /\ dep'[c].created = dep[c].created
      BY <1>0, <3>1 DEF DeploymentRecord
    <3>3. deployments' = deployments
      BY <2>3 DEF ExecuteRollbackImage
    <3> QED
      BY <1>1, <1>2, <1>3, <3>2, <3>3 DEF Stays
  <2> QED
    BY <2>1, <2>2, <2>3
<1>6. \A d \in Calls : Open(d) => Open(d)'
  BY <1>1, <1>4, <1>5 DEF Open
<1>7. PrunesOK'
  BY <1>1, <1>5, <1>6, StaysPrunes
<1> QED
  BY <1>1, <1>5, <1>7, StaysKeeps, StaysEnded, StaysFiles DEF SerialOK

\* A run that ends: no other worker is in its prune.
LEMMA RunEnds ==
    ASSUME OneByOne, HInv, NEW w \in Workers,
           OpenLogFails(w) \/ ExecuteSucceeds(w) \/ ExecuteFails(w)
    PROVE  SerialOK'
<1> USE DEF RunMoves, WorkerMoves, processVars, callVars, workerVars, deleteVars
<1>0. workerPC \in [Workers -> WorkerPCs] /\ RunStatus(w) /\ PrunesOK
  BY HTypes DEF HInv, SerialOK, RInv
<1>1. /\ workerPC[w] \in {"opening", "executing"}
      /\ UNCHANGED <<phase, clock, callPC, deployments, disk, doomed, workerJob>>
      /\ \A v \in Workers : v # w => workerPC'[v] = workerPC[v]
      /\ workerPC'[w] \in {"storing_end", "storing_success"}
  BY <1>0 DEF OpenLogFails, ExecuteSucceeds, ExecuteFails
<1>2. \E s \in Status : SetStatus(workerJob[w], s)
  BY DEF OpenLogFails, ExecuteSucceeds, ExecuteFails, Status
<1>3. ~ IsTerminal(dep[workerJob[w]].status)
  BY <1>0, <1>1 DEF RunStatus, Executing, IsTerminal
<1>4. PICK c \in Calls : c = workerJob[w]
  BY <1>1, <1>3, JobIsOpen DEF LockedPCs
<1>5. /\ dep[c].id \in IDs /\ deployments[dep[c].id] = c
      /\ \A i \in IDs : Present(i) => i <= dep[c].id
  BY <1>1, <1>3, <1>4, JobIsOpen DEF LockedPCs
<1>6. Stays
  BY <1>1, <1>2, <1>3, StatusStays DEF LockedPCs
<1>7. \A v \in Workers : v # w => workerPC[v] \notin LockedPCs
  BY <1>1, OneLocked DEF LockedPCs
<1>8. \A v \in Workers : doomed[v] = {}
  BY <1>0, <1>1, <1>7 DEF PrunesOK, LockedPCs
<1>9. PrunesOK'
  <2> SUFFICES ASSUME NEW v \in Workers
               PROVE  LET j == workerJob'[v] IN
                      /\ workerPC'[v] \in Succeeded =>
                            dep'[j].id \in IDs /\ deployments'[dep'[j].id] = j
                      /\ workerPC'[v] \in Successful =>
                            \A i \in IDs : Present(i)' /\ i > dep'[j].id => Open(deployments[i])'
                      /\ doomed'[v] # {} => workerPC'[v] = "pruning"
                      /\ \A i \in doomed'[v] :
                            /\ Present(i)' => IsTerminal(Entry(i)'.status)
                            /\ \E m \in IDs \ doomed'[v] :
                                  /\ i < m /\ Present(m)'
                                  /\ deployments'[m] = j \/ Open(deployments[m])'
    BY DEF PrunesOK
  <2>1. doomed'[v] = {} /\ workerJob' = workerJob
    BY <1>1, <1>8
  <2>2. workerPC'[v] \in Successful => v = w
    BY <1>1, <1>7 DEF LockedPCs
  <2>3. /\ dep'[c].id = dep[c].id /\ dep'[c].id \in IDs /\ deployments'[dep'[c].id] = c
    BY <1>5, <1>6 DEF Stays
  <2>4. \A i \in IDs : Present(i)' => i <= dep'[c].id
    BY <1>5, <1>6, <2>3, StaysFacts
  <2>5. ASSUME NEW i \in IDs, Present(i)'
        PROVE  ~ (i > dep'[c].id)
    <3>1. i \in Nat /\ dep'[c].id \in Nat
      BY <2>3, ConstantsAssumption
    <3>2. i <= dep'[c].id
      BY <2>4, <2>5
    <3> QED
      BY <3>1, <3>2
  <2> QED
    BY <1>4, <2>1, <2>2, <2>3, <2>5
<1> QED
  BY <1>1, <1>6, <1>9, StaysKeeps, StaysEnded, StaysFiles DEF SerialOK

\* The write of the map in updateDeployment finds the deployment under its number.
LEMMA StoreKeepsMap ==
    ASSUME HInv, NEW w \in Workers, StoreRecord(w)
    PROVE  deployments' = deployments
<1>1. /\ workerPC[w] \in {"storing_start", "storing_success", "storing_end"}
      /\ deployments' = [deployments EXCEPT ![dep[workerJob[w]].id] = workerJob[w]]
  BY DEF StoreRecord, AfterStoring
<1>2. deployments \in [IDs -> Calls \cup {None}] /\ RunStatus(w)
  BY HTypes DEF RInv
<1>3. deployments[dep[workerJob[w]].id] = workerJob[w]
  <2>1. CASE workerPC[w] = "storing_start"
    <3>1. ~ IsTerminal(dep[workerJob[w]].status)
      BY <1>2, <2>1 DEF RunStatus, IsTerminal
    <3> QED
      BY <2>1, <3>1, JobIsOpen DEF LockedPCs
  <2>2. CASE workerPC[w] = "storing_success"
    BY <2>2 DEF HInv, SerialOK, PrunesOK
  <2>3. CASE workerPC[w] = "storing_end"
    BY <2>3 DEF HInv, StoredOK
  <2> QED
    BY <1>1, <2>1, <2>2, <2>3
<1> QED
  BY <1>1, <1>2, <1>3

\* So it changes nothing but the place of the worker.
LEMMA RunStores ==
    ASSUME HInv, NEW w \in Workers, StoreRecord(w)
    PROVE  SerialOK'
<1> USE DEF RunMoves, WorkerMoves, processVars, callVars, workerVars, deleteVars
<1>0. workerPC \in [Workers -> WorkerPCs] /\ deployments' = deployments
  BY HTypes, StoreKeepsMap
<1>1. /\ UNCHANGED <<phase, clock, callPC, dep, disk, doomed, workerJob>>
      /\ workerPC[w] \in DOMAIN AfterStoring
      /\ workerPC' = [workerPC EXCEPT ![w] = AfterStoring[workerPC[w]]]
  BY DEF StoreRecord
<1>2. \A v \in Workers :
        /\ workerPC'[v] \in Succeeded => workerPC[v] \in Succeeded
        /\ workerPC'[v] = "pruning" <=> workerPC[v] = "pruning"
  BY <1>0, <1>1 DEF AfterStoring
<1>3. Stays /\ \A c \in Calls : Open(c) => Open(c)'
  BY <1>0, <1>1 DEF Stays, Open
<1>4. PrunesOK'
  BY <1>1, <1>2, <1>3, StaysPrunes
<1> QED
  BY <1>1, <1>3, <1>4, StaysKeeps, StaysEnded, StaysFiles DEF SerialOK

\* A save of a worker's.
LEMMA RunSaves ==
    ASSUME HInv, NEW w \in Workers, PersistStart(w) \/ PersistSuccess(w) \/ PersistOutcome(w)
    PROVE  SerialOK'
<1> USE DEF RunMoves, WorkerMoves, processVars, callVars, workerVars, deleteVars
<1>0. workerPC \in [Workers -> WorkerPCs] /\ RunStatus(w)
  BY HTypes DEF RInv
<1>1. /\ UNCHANGED <<phase, clock, callPC, dep, deployments, doomed, workerJob>>
      /\ PersistIgnoringError(workerJob[w])
      /\ \/ workerPC[w] = "saving_start" /\ workerPC' = [workerPC EXCEPT ![w] = "executing"]
         \/ workerPC[w] = "saving_success" /\ workerPC' = [workerPC EXCEPT ![w] = "listing"]
         \/ workerPC[w] = "saving_end" /\ workerPC' = [workerPC EXCEPT ![w] = "finishing"]
  BY DEF PersistStart, PersistSuccess, PersistOutcome
<1>2. PICK c \in Calls : c = workerJob[w] /\ callPC[c] = "accepted" /\ dep[c].app \in Apps
  BY <1>1, HTypes, ConstantsAssumption DEF IInv, Typed, WorkersHaveJobs, JobsOK, LockedPCs
<1>3. dep[c].status \in Status
  BY <1>0, <1>1, <1>2 DEF RunStatus, Status
<1>4. Stays
  BY <1>1 DEF Stays
<1>5. NumbersOK' /\ FiniteOK'
  BY <1>1, <1>2, <1>3, PersistNumbers
<1>6. PrunesOK'
  <2>1. \A d \in Calls : Open(d) => Open(d)'
    BY <1>1 DEF Open
  <2>2. \A v \in Workers :
          /\ workerPC'[v] \in Succeeded =>
                workerPC[v] \in Succeeded
          /\ workerPC'[v] = "pruning" <=> workerPC[v] = "pruning"
    BY <1>0, <1>1
  <2> QED
    BY <1>1, <1>4, <2>1, <2>2, StaysPrunes
<1> QED
  BY <1>4, <1>5, <1>6, StaysKeeps, StaysEnded DEF SerialOK

-----------------------------------------------------------------------------
(* Prunes and clears *)

\* A list of numbers to delete is made of entries that there are.
LEMMA ListsKeep ==
    ASSUME HInv, UNCHANGED <<phase, clock, callPC, dep, deployments, disk>>, phase # "down",
           \A d \in Deleters : \A i \in doomed'[d] : i \in doomed[d] \/ (i \in IDs /\ Present(i))
    PROVE  /\ OneAtATime' /\ EntriesOK' /\ FreshOK' /\ OpenOK' /\ EndedOK'
           /\ NumbersOK' /\ FiniteOK' /\ NothingOK'
<1>0. /\ OneAtATime /\ EntriesOK /\ FreshOK /\ OpenOK /\ EndedOK
      /\ NumbersOK /\ FiniteOK /\ NothingOK
  BY DEF HInv, SerialOK
<1>1. OneAtATime' /\ EntriesOK' /\ OpenOK'
  BY <1>0 DEF OneAtATime, EntriesOK, OpenOK, Open, Present, Entry
<1>2. EndedOK'
  BY <1>0 DEF EndedOK, Open, Present, Entry
<1>3. NumbersOK'
  BY <1>0 DEF NumbersOK
<1>4. FiniteOK'
  BY <1>0 DEF FiniteOK, Present
<1>5. FreshOK'
  <2> SUFFICES ASSUME NEW c \in Calls, callPC[c] \in {"numbered", "persisted"}
               PROVE  /\ dep[c].id \in IDs
                      /\ \A i \in IDs : Present(i) => i < dep[c].id /\ Entry(i).created < dep[c].created
                      /\ \A d \in Deleters : dep[c].id \notin doomed'[d]
    BY DEF FreshOK, Present, Entry
  <2>1. /\ dep[c].id \in IDs
        /\ \A i \in IDs : Present(i) => i < dep[c].id /\ Entry(i).created < dep[c].created
        /\ \A d \in Deleters : dep[c].id \notin doomed[d]
    BY <1>0 DEF FreshOK
  <2>2. ~ Present(dep[c].id)
    <3>1. dep[c].id \in Nat
      BY <2>1, ConstantsAssumption
    <3> QED
      BY <2>1, <3>1
  <2> QED
    BY <2>1, <2>2
<1> QED
  BY <1>0, <1>1, <1>2, <1>3, <1>4, <1>5 DEF NothingOK

\* The newest entry while a worker lists the old ones: its job's, or the open
\* deployment's.
LEMMA NewestEntry ==
    ASSUME HInv, NEW w \in Workers, workerPC[w] = "listing"
    PROVE  \E m \in IDs :
              /\ Present(m) /\ (deployments[m] = workerJob[w] \/ Open(deployments[m]))
              /\ \A i \in IDs : Present(i) => i <= m
              /\ \A i \in IDs : Present(i) => ~ (Entry(i).created > Entry(m).created)
<1>0. EntriesOK /\ OpenOK /\ PrunesOK
  BY DEF HInv, SerialOK
<1>1. PICK c \in Calls : c = workerJob[w] /\ callPC[c] = "accepted" /\ c # None
  BY HTypes, ConstantsAssumption DEF IInv, Typed, WorkersHaveJobs, JobsOK, LockedPCs
<1>2. PICK k \in IDs : k = dep[c].id /\ deployments[k] = c
  BY <1>0, <1>1 DEF PrunesOK
<1>3. PICK m \in IDs :
         /\ Present(m) /\ (deployments[m] = c \/ Open(deployments[m]))
         /\ callPC[deployments[m]] # "gone"
         /\ \A i \in IDs : Present(i) => i <= m
  <2>1. CASE \E i \in IDs : Present(i) /\ i > k
    <3>1. PICK i \in IDs : Present(i) /\ i > k
      BY <2>1
    <3>2. PICK d \in Calls : d = deployments[i]
      BY <3>1, HTypes
    <3>3. Open(d)
      BY <1>0, <1>1, <1>2, <3>1, <3>2 DEF PrunesOK
    <3>4. callPC[d] \in {"inserted", "sending", "accepted"} /\ dep[d].id = i
      BY <1>0, <3>1, <3>2, <3>3 DEF EntriesOK, Entry, Open, Checked
    <3>5. \A j \in IDs : Present(j) => j <= i
      BY <1>0, <3>3, <3>4 DEF OpenOK
    <3> QED
      BY <3>1, <3>2, <3>3, <3>4, <3>5
  <2>2. CASE ~ \E i \in IDs : Present(i) /\ i > k
    <3>1. \A i \in IDs : Present(i) => i <= k
      <4> SUFFICES ASSUME NEW i \in IDs, Present(i)
                   PROVE  i <= k
        OBVIOUS
      <4>1. i \in Nat /\ k \in Nat /\ ~ (i > k)
        BY <2>2, ConstantsAssumption
      <4> QED
        BY <4>1
    <3> QED
      BY <1>1, <1>2, <3>1 DEF Present
  <2> QED
    BY <2>1, <2>2
<1>4. ASSUME NEW i \in IDs, Present(i)
      PROVE  ~ (Entry(i).created > Entry(m).created)
  <2>1. Entry(i).created \in Nat /\ Entry(m).created \in Nat
    BY <1>3, <1>4, HTypes DEF Entry
  <2>2. i = m \/ i < m
    <3>1. i \in Nat /\ m \in Nat /\ i <= m
      BY <1>3, <1>4, ConstantsAssumption
    <3> QED
      BY <3>1
  <2>3. i < m => Entry(i).created < Entry(m).created
    BY <1>0, <1>3, <1>4 DEF EntriesOK
  <2> QED
    BY <2>1, <2>2, <2>3
<1> QED
  BY <1>1, <1>3, <1>4

\* What a prune lists has ended, and is older than an entry it leaves.
LEMMA OldHaveEnded ==
    ASSUME OneByOne, HInv, NEW w \in Workers, workerPC[w] = "listing",
           NEW a \in Apps
    PROVE  /\ \A i \in OldDeployments(a) : i \in IDs /\ Present(i) /\ IsTerminal(Entry(i).status)
           /\ \E m \in IDs \ OldDeployments(a) :
                 /\ Present(m) /\ (deployments[m] = workerJob[w] \/ Open(deployments[m]))
                 /\ \A i \in OldDeployments(a) : i < m
<1>0. EntriesOK /\ OpenOK /\ EndedOK
  BY DEF HInv, SerialOK
<1>1. PICK m \in IDs :
         /\ Present(m) /\ (deployments[m] = workerJob[w] \/ Open(deployments[m]))
         /\ \A i \in IDs : Present(i) => i <= m
         /\ \A i \in IDs : Present(i) => ~ (Entry(i).created > Entry(m).created)
  BY NewestEntry
<1>2. ListByApp(a) = {i \in IDs : Present(i)}
  BY DEF ListByApp, OneByOne, HInv, SerialOK, EntriesOK, Present, Entry
<1>3. m \notin OldDeployments(a)
  <2> DEFINE S == {j \in ListByApp(a) : dep[deployments[j]].created > dep[deployments[m]].created}
  <2>1. S = {}
    BY <1>1, <1>2 DEF Entry
  <2>2. Cardinality(S) = 0
    BY <2>1, FS_EmptySet
  <2>3. ~ (Cardinality(S) >= MaxKeep)
    <3> HIDE DEF S
    <3> QED
      BY <2>2, ConstantsAssumption
  <2> QED
    BY <2>3 DEF OldDeployments
<1>4. ASSUME NEW i \in OldDeployments(a)
      PROVE  i \in IDs /\ Present(i) /\ i < m
  <2>1. i \in IDs /\ Present(i) /\ i # m
    BY <1>2, <1>3 DEF OldDeployments
  <2>2. i \in Nat /\ m \in Nat /\ i <= m
    BY <1>1, <2>1, ConstantsAssumption
  <2> QED
    BY <2>1, <2>2
<1>5. ASSUME NEW i \in OldDeployments(a)
      PROVE  IsTerminal(Entry(i).status)
  <2>1. PICK c \in Calls : c = workerJob[w] /\ callPC[c] = "accepted"
    BY HTypes, ConstantsAssumption DEF IInv, Typed, WorkersHaveJobs, JobsOK, LockedPCs
  <2>2. IsTerminal(Entry(i).status) \/ Open(deployments[i])
    BY <1>0, <1>4, <2>1 DEF EndedOK
  <2>3. ~ Open(deployments[i])
    <3> SUFFICES ASSUME Open(deployments[i])
                 PROVE  FALSE
      OBVIOUS
    <3>1. PICK d \in Calls : d = deployments[i]
      BY <1>4, HTypes
    <3>2. callPC[d] \in {"inserted", "sending", "accepted"} /\ dep[d].id = i
      BY <1>0, <1>4, <3>1 DEF EntriesOK, Entry, Open, Checked
    <3>3. m <= i
      BY <1>0, <1>1, <3>1, <3>2 DEF OpenOK
    <3>4. i \in Nat /\ m \in Nat /\ i < m
      BY <1>4, ConstantsAssumption
    <3> QED
      BY <3>3, <3>4
  <2> QED
    BY <2>2, <2>3
<1> QED
  BY <1>1, <1>3, <1>4, <1>5

\* The list of a prune.
LEMMA ListOldKeeps ==
    ASSUME OneByOne, HInv, NEW w \in Workers, ListOld(w)
    PROVE  SerialOK'
<1> USE DEF RunMoves, WorkerMoves, processVars, callVars, workerVars, deleteVars
<1>0. /\ workerPC \in [Workers -> WorkerPCs] /\ doomed \in [Deleters -> SUBSET IDs]
      /\ PrunesOK /\ ClearsOK
  BY HTypes DEF HInv, SerialOK
<1>1. PICK c \in Calls : c = workerJob[w] /\ dep[c].app \in Apps
  BY HTypes, ConstantsAssumption
     DEF ListOld, IInv, Typed, WorkersHaveJobs, JobsOK, LockedPCs
<1>2. PICK old \in SUBSET IDs : old = OldDeployments(dep[c].app)
  BY DEF OldDeployments, ListByApp
<1>3. /\ workerPC[w] = "listing" /\ workerPC' = [workerPC EXCEPT ![w] = "pruning"]
      /\ doomed' = [doomed EXCEPT ![w] = old]
      /\ UNCHANGED <<phase, clock, callPC, dep, deployments, disk, workerJob>>
  BY <1>1, <1>2 DEF ListOld
<1>4. /\ \A i \in old : i \in IDs /\ Present(i) /\ IsTerminal(Entry(i).status)
      /\ \E m \in IDs \ old :
            /\ Present(m) /\ (deployments[m] = c \/ Open(deployments[m]))
            /\ \A i \in old : i < m
  BY <1>1, <1>2, <1>3, OldHaveEnded
<1>5. /\ doomed'[w] = old /\ workerPC'[w] = "pruning"
      /\ \A d \in Deleters : d # w => doomed'[d] = doomed[d]
      /\ \A v \in Workers : v # w => workerPC'[v] = workerPC[v]
  BY <1>0, <1>3 DEF Deleters
<1>6. phase # "down"
  BY <1>3, HTypes DEF IInv, DownOK
<1>7. PrunesOK'
  <2> SUFFICES ASSUME NEW v \in Workers
               PROVE  LET j == workerJob[v] IN
                      /\ workerPC'[v] \in Succeeded =>
                            dep[j].id \in IDs /\ deployments[dep[j].id] = j
                      /\ workerPC'[v] \in Successful =>
                            \A i \in IDs : Present(i) /\ i > dep[j].id => Open(deployments[i])
                      /\ doomed'[v] # {} => workerPC'[v] = "pruning"
                      /\ \A i \in doomed'[v] :
                            /\ Present(i) => IsTerminal(Entry(i).status)
                            /\ \E m \in IDs \ doomed'[v] :
                                  /\ i < m /\ Present(m)
                                  /\ deployments[m] = j \/ Open(deployments[m])
    BY <1>3 DEF PrunesOK, Present, Entry, Open
  <2>1. CASE v = w
    BY <1>0, <1>1, <1>3, <1>4, <1>5, <2>1 DEF PrunesOK
  <2>2. CASE v # w
    <3>1. workerPC'[v] = workerPC[v] /\ doomed'[v] = doomed[v]
      BY <1>5, <2>2 DEF Deleters
    <3> QED
      BY <1>0, <3>1 DEF PrunesOK
  <2> QED
    BY <2>1, <2>2
<1>8. ClearsOK'
  <2>1. \A h \in Handlers : doomed'[h] = doomed[h]
    BY <1>5, ConstantsAssumption DEF Deleters
  <2> QED
    BY <1>0, <1>3, <2>1 DEF ClearsOK, Present, Entry
<1>9. \A d \in Deleters : \A i \in doomed'[d] : i \in doomed[d] \/ (i \in IDs /\ Present(i))
  BY <1>4, <1>5
<1> QED
  BY <1>3, <1>6, <1>7, <1>8, <1>9, ListsKeep DEF SerialOK

\* The list of a clear.
LEMMA ClearKeeps ==
    ASSUME HInv, NEW h \in Handlers, NEW a \in Apps, ClearFailedList(h, a)
    PROVE  SerialOK'
<1>0. doomed \in [Deleters -> SUBSET IDs] /\ PrunesOK /\ ClearsOK
  BY HTypes DEF HInv, SerialOK
<1>1. PICK failed \in SUBSET IDs :
         failed = {i \in ListByApp(a) : dep[deployments[i]].status \in {"failed", "cancelled"}}
  BY DEF ListByApp
<1>2. /\ doomed' = [doomed EXCEPT ![h] = failed] /\ phase # "down"
      /\ UNCHANGED <<phase, clock, callPC, dep, deployments, disk, workerPC, workerJob>>
  BY <1>1 DEF ClearFailedList, Answering, processVars, callVars, stores, workerVars
<1>3. /\ doomed'[h] = failed
      /\ \A d \in Deleters : d # h => doomed'[d] = doomed[d]
  BY <1>0, <1>2 DEF Deleters
<1>4. \A i \in failed : i \in IDs /\ Present(i) /\ Entry(i).status \in {"failed", "cancelled"}
  BY <1>1 DEF ListByApp, Present, Entry
<1>5. PrunesOK'
  <2>1. \A w \in Workers : doomed'[w] = doomed[w]
    BY <1>3, ConstantsAssumption DEF Deleters
  <2> QED
    BY <1>0, <1>2, <2>1 DEF PrunesOK, Present, Entry, Open
<1>6. ClearsOK'
  <2> SUFFICES ASSUME NEW g \in Handlers, NEW i \in IDs, i \in doomed'[g]
               PROVE  /\ Present(i) => Entry(i).status \in {"failed", "cancelled"}
                      /\ ~ Present(i) => \E j \in IDs \ doomed'[g] : i < j /\ Present(j)
    BY <1>2 DEF ClearsOK, Present, Entry
  <2>1. CASE g = h
    BY <1>3, <1>4, <2>1
  <2>2. CASE g # h
    BY <1>0, <1>3, <2>2 DEF ClearsOK, Deleters
  <2> QED
    BY <2>1, <2>2
<1>7. \A d \in Deleters : \A i \in doomed'[d] : i \in doomed[d] \/ (i \in IDs /\ Present(i))
  BY <1>3, <1>4
<1> QED
  BY <1>2, <1>5, <1>6, <1>7, ListsKeep DEF SerialOK

\* What is about to be deleted has ended; what a clear is, did not succeed.
LEMMA DoomedIsOver ==
    ASSUME HInv, NEW d \in Deleters, NEW i \in doomed[d], Present(i)
    PROVE  /\ i \in IDs /\ IsTerminal(Entry(i).status) /\ ~ Open(deployments[i])
           /\ d \in Handlers =>
                 /\ Entry(i).status \in {"failed", "cancelled"}
                 /\ \A w \in Workers :
                       workerPC[w] \in Successful =>
                           deployments[i] # workerJob[w]
<1>0. PrunesOK /\ ClearsOK /\ EntriesOK
  BY DEF HInv, SerialOK
<1>1. i \in IDs
  BY HTypes
<1>2. IsTerminal(Entry(i).status) /\ (d \in Handlers => Entry(i).status \in {"failed", "cancelled"})
  BY <1>0, <1>1 DEF PrunesOK, ClearsOK, Deleters, IsTerminal
<1>3. ~ Open(deployments[i])
  <2>1. PICK c \in Calls : c = deployments[i]
    BY <1>1, HTypes
  <2>2. callPC[c] \in {"inserted", "sending"} => dep[c].status = "queued"
    BY HTypes DEF RInv, CallStatus
  <2>3. callPC[c] \in {"inserted", "sending", "accepted", "gone"}
    BY <1>0, <1>1, <2>1 DEF EntriesOK
  <2> QED
    BY <1>2, <2>1, <2>2, <2>3 DEF Open, Checked, Entry, IsTerminal
<1>4. ASSUME d \in Handlers, NEW w \in Workers,
             workerPC[w] \in Successful
      PROVE  deployments[i] # workerJob[w]
  <2>1. dep[workerJob[w]].status = "success"
    BY <1>4, HTypes DEF RInv, RunStatus
  <2> QED
    BY <1>2, <1>4, <2>1 DEF Entry
<1> QED
  BY <1>1, <1>2, <1>3, <1>4

\* The entry that a prune deletes has a larger one that stays, which no clear is
\* about to delete.
LEMMA PruneLeavesLarger ==
    ASSUME HInv, NEW w \in Workers, NEW i \in doomed[w], NEW h \in Handlers
    PROVE  \E m \in IDs \ doomed[h] : i < m /\ Present(m)
<1>1. workerPC[w] = "pruning"
  BY DEF HInv, SerialOK, PrunesOK
<1>2. PICK m \in IDs \ doomed[w] :
         i < m /\ Present(m) /\ (deployments[m] = workerJob[w] \/ Open(deployments[m]))
  BY DEF HInv, SerialOK, PrunesOK
<1>3. m \notin doomed[h]
  BY <1>1, <1>2, DoomedIsOver DEF Deleters
<1> QED
  BY <1>2, <1>3

\* One deletion of an entry, by a prune or a clear.
LEMMA DeleteEntryKeeps ==
    ASSUME OneByOne, HInv, NEW d \in Deleters, NEW i \in IDs, DeleteEntry(d, i)
    PROVE  SerialOK'
<1>0. /\ OneAtATime /\ EntriesOK /\ FreshOK /\ OpenOK /\ EndedOK
      /\ PrunesOK /\ ClearsOK /\ NumbersOK /\ FiniteOK /\ NothingOK
  BY DEF HInv, SerialOK
<1>1. /\ i \in doomed[d] /\ doomed' = [doomed EXCEPT ![d] = @ \ {i}]
      /\ deployments' = [deployments EXCEPT ![i] = None]
      /\ UNCHANGED <<phase, clock, callPC, dep, disk, workerPC, workerJob>>
  BY DEF DeleteEntry, processVars, callVars, workerVars
<1>2. /\ deployments \in [IDs -> Calls \cup {None}] /\ doomed \in [Deleters -> SUBSET IDs]
  BY HTypes
<1>3. /\ doomed'[d] = doomed[d] \ {i}
      /\ \A e \in Deleters : doomed'[e] \subseteq doomed[e] /\ (e # d => doomed'[e] = doomed[e])
  BY <1>1, <1>2
<1>4. /\ ~ Present(i)'
      /\ \A j \in IDs : j # i => deployments'[j] = deployments[j]
      /\ \A j \in IDs : Present(j)' <=> j # i /\ Present(j)
      /\ \A j \in IDs : Present(j)' => Entry(j)' = Entry(j)
  BY <1>1, <1>2 DEF Present, Entry
<1>5. /\ \A c \in Calls : Open(c)' <=> Open(c)
      /\ \A j \in IDs : Present(j)' => (Open(deployments[j])' <=> Open(deployments[j]))
  BY <1>1, <1>4 DEF Open
<1>6. Present(i) => ~ Open(deployments[i])
  BY <1>1, DoomedIsOver
<1>7. OneAtATime' /\ NumbersOK'
  BY <1>0, <1>1 DEF OneAtATime, NumbersOK, Open
<1>8. EntriesOK'
  BY <1>0, <1>1, <1>4 DEF EntriesOK
<1>9. FreshOK'
  BY <1>0, <1>1, <1>3, <1>4 DEF FreshOK
<1>10. OpenOK'
  <2> SUFFICES ASSUME NEW c \in Calls, callPC[c] \in {"inserted", "sending", "accepted"}, Open(c)
               PROVE  /\ dep[c].id \in IDs /\ deployments'[dep[c].id] = c
                      /\ \A j \in IDs : Present(j)' => j <= dep[c].id
    BY <1>1, <1>5 DEF OpenOK
  <2>1. /\ dep[c].id \in IDs /\ deployments[dep[c].id] = c
        /\ \A j \in IDs : Present(j) => j <= dep[c].id
    BY <1>0 DEF OpenOK
  <2>2. dep[c].id # i
    BY <1>6, <2>1, ConstantsAssumption DEF Present
  <2> QED
    BY <1>4, <2>1, <2>2
<1>11. EndedOK'
  BY <1>0, <1>1, <1>4, <1>5 DEF EndedOK
<1>12. FiniteOK'
  <2>1. {j \in IDs : Present(j)'} \subseteq {j \in IDs : Present(j)}
    BY <1>4
  <2>2. IsFiniteSet({j \in IDs : Present(j)'})
    BY <1>0, <2>1, FS_Subset DEF FiniteOK
  <2> QED
    BY <1>0, <1>1, <2>2 DEF FiniteOK
<1>13. NothingOK'
  BY <1>0, <1>1 DEF NothingOK
<1>14. ASSUME NEW w \in Workers, d \in Workers, workerPC[w] \in LockedPCs
       PROVE  w = d
  BY <1>0, <1>1, <1>14, OneLocked DEF PrunesOK, LockedPCs
<1>15. ASSUME NEW w \in Workers, workerPC[w] \in Successful,
              w # d, Present(i)
       PROVE  deployments[i] # workerJob[w]
  BY <1>1, <1>14, <1>15, DoomedIsOver DEF Deleters, LockedPCs
<1>16. PrunesOK'
  <2> SUFFICES ASSUME NEW w \in Workers
               PROVE  LET c == workerJob[w] IN
                      /\ workerPC[w] \in Succeeded =>
                            dep[c].id \in IDs /\ deployments'[dep[c].id] = c
                      /\ workerPC[w] \in Successful =>
                            \A j \in IDs : Present(j)' /\ j > dep[c].id => Open(deployments[j])'
                      /\ doomed'[w] # {} => workerPC[w] = "pruning"
                      /\ \A j \in doomed'[w] :
                            /\ Present(j)' => IsTerminal(Entry(j)'.status)
                            /\ \E m \in IDs \ doomed'[w] :
                                  /\ j < m /\ Present(m)'
                                  /\ deployments'[m] = c \/ Open(deployments[m])'
    BY <1>1 DEF PrunesOK
  <2> DEFINE c == workerJob[w]
  <2>1. doomed'[w] \subseteq doomed[w] /\ doomed[w] \subseteq IDs
    BY <1>2, <1>3 DEF Deleters
  <2>2. ASSUME workerPC[w] \in Succeeded
        PROVE  dep[c].id \in IDs /\ deployments'[dep[c].id] = c
    <3>1. dep[c].id \in IDs /\ deployments[dep[c].id] = c /\ c \in Calls
      BY <1>0, <2>2, HTypes DEF PrunesOK, Typed, WorkersHaveJobs, LockedPCs
    <3>2. w # d
      BY <1>0, <1>1, <2>2 DEF PrunesOK
    <3>3. dep[c].id # i
      BY <1>15, <2>2, <3>1, <3>2, ConstantsAssumption DEF Present
    <3> QED
      BY <1>4, <3>1, <3>3
  <2>3. ASSUME workerPC[w] \in Successful,
               NEW j \in IDs, Present(j)', j > dep[c].id
        PROVE  Open(deployments[j])'
    BY <1>0, <1>4, <1>5, <2>3 DEF PrunesOK
  <2>4. doomed'[w] # {} => workerPC[w] = "pruning"
    BY <1>0, <2>1 DEF PrunesOK
  <2>5. ASSUME NEW j \in doomed'[w]
        PROVE  /\ Present(j)' => IsTerminal(Entry(j)'.status)
               /\ \E m \in IDs \ doomed'[w] :
                     /\ j < m /\ Present(m)'
                     /\ deployments'[m] = c \/ Open(deployments[m])'
    <3>1. j \in doomed[w] /\ j \in IDs /\ workerPC[w] = "pruning"
      BY <2>1, <2>4
    <3>2. PICK m \in IDs \ doomed[w] :
             j < m /\ Present(m) /\ (deployments[m] = c \/ Open(deployments[m]))
      BY <1>0, <3>1 DEF PrunesOK
    <3>3. m # i
      BY <1>1, <1>6, <1>15, <3>1, <3>2
    <3>4. Present(m)' /\ (deployments'[m] = c \/ Open(deployments[m])')
      BY <1>4, <1>5, <3>2, <3>3
    <3>5. Present(j)' => IsTerminal(Entry(j)'.status)
      BY <1>0, <1>4, <3>1 DEF PrunesOK
    <3> QED
      BY <2>1, <3>2, <3>4, <3>5
  <2> QED
    BY <2>2, <2>3, <2>4, <2>5
<1>17. ClearsOK'
  <2> SUFFICES ASSUME NEW h \in Handlers, NEW j \in IDs, j \in doomed'[h]
               PROVE  /\ Present(j)' => Entry(j)'.status \in {"failed", "cancelled"}
                      /\ ~ Present(j)' => \E k \in IDs \ doomed'[h] : j < k /\ Present(k)'
    BY DEF ClearsOK
  <2>1. j \in doomed[h] /\ doomed'[h] \subseteq doomed[h]
    BY <1>3 DEF Deleters
  <2>2. Present(j)' => Entry(j)'.status \in {"failed", "cancelled"}
    BY <1>0, <1>4, <2>1 DEF ClearsOK
  <2>3. i \notin doomed'[h]
        \/ (d \in Workers /\ \E m \in IDs \ doomed'[h] : i < m /\ Present(m)')
    <3>1. CASE d = h
      BY <1>3, <3>1
    <3>2. CASE d # h
      <4>1. d \in Workers
        BY <3>2 DEF OneByOne, Deleters
      <4>2. PICK m \in IDs \ doomed[h] : i < m /\ Present(m)
        BY <1>1, <4>1, PruneLeavesLarger
      <4>3. m # i
        BY <4>2, ConstantsAssumption
      <4> QED
        BY <1>4, <2>1, <4>1, <4>2, <4>3
    <3> QED
      BY <3>1, <3>2
  <2>4. ASSUME ~ Present(j)'
        PROVE  \E k \in IDs \ doomed'[h] : j < k /\ Present(k)'
    <3>1. CASE j = i
      BY <2>3, <3>1
    <3>2. CASE j # i
      <4>1. PICK k \in IDs \ doomed[h] : j < k /\ Present(k)
        BY <1>0, <1>4, <2>1, <2>4, <3>2 DEF ClearsOK
      <4>2. CASE k # i
        BY <1>4, <2>1, <4>1, <4>2
      <4>3. CASE k = i
        <5>1. d # h
          BY <1>1, <4>1, <4>3
        <5>2. d \in Workers
          BY <5>1 DEF OneByOne, Deleters
        <5>3. PICK m \in IDs \ doomed[h] : i < m /\ Present(m)
          BY <1>1, <5>2, PruneLeavesLarger
        <5>4. j < m /\ m # i
          BY <4>1, <4>3, <5>3, ConstantsAssumption
        <5> QED
          BY <1>4, <2>1, <5>3, <5>4
      <4> QED
        BY <4>2, <4>3
    <3> QED
      BY <3>1, <3>2
  <2> QED
    BY <2>2, <2>4
<1> QED
  BY <1>7, <1>8, <1>9, <1>10, <1>11, <1>12, <1>13, <1>16, <1>17 DEF SerialOK

\* The directory of a deleted entry.
LEMMA RemoveKeeps ==
    ASSUME HInv, NEW d \in Deleters, RemoveDirectory(d)
    PROVE  SerialOK'
<1>0. NumbersOK /\ FiniteOK
  BY DEF HInv, SerialOK
<1>1. UNCHANGED <<phase, clock, callPC, dep, deployments, doomed, workerPC, workerJob>>
  BY DEF RemoveDirectory, processVars, callVars, workerVars
<1>2. \A a \in Apps, i \in IDs : disk'[a][i] \in {disk[a][i], NoRecord}
  BY HTypes, DeleteFacts DEF DeleteStep
<1>3. Stays /\ \A c \in Calls : Open(c) => Open(c)'
  BY <1>1 DEF Stays, Open
<1>4. NumbersOK'
  <2>1. \A a \in Apps, i \in IDs : \A c \in Calls :
           disk'[a][i].call = c => disk'[a][i] = disk[a][i]
    <3>1. \A c \in Calls : NoRecord.call # c
      BY ConstantsAssumption DEF NoRecord
    <3> QED
      BY <1>2, <3>1
  <2>2. \A a \in Apps, i \in IDs : disk'[a][i] # NoRecord => disk'[a][i] = disk[a][i]
    BY <1>2
  <2> QED
    BY <1>0, <1>1, <2>1, <2>2 DEF NumbersOK
<1>5. FiniteOK'
  <2>1. IsFiniteSet({i \in IDs : Present(i)}')
    BY <1>0, <1>1 DEF FiniteOK, Present
  <2>2. ASSUME NEW a \in Apps
        PROVE  IsFiniteSet({i \in IDs : disk'[a][i] # NoRecord})
    <3>1. {i \in IDs : disk'[a][i] # NoRecord} \subseteq {i \in IDs : disk[a][i] # NoRecord}
      BY <1>2
    <3> QED
      BY <1>0, <3>1, FS_Subset DEF FiniteOK
  <2> QED
    BY <2>1, <2>2 DEF FiniteOK
<1>6. PrunesOK'
  BY <1>1, <1>3, StaysPrunes
<1> QED
  BY <1>3, <1>4, <1>5, <1>6, StaysKeeps, StaysEnded DEF SerialOK

-----------------------------------------------------------------------------
(* The process *)

\* A process that ends leaves no entry, and no list of numbers to delete.
LEMMA EndKeepsSerial ==
    ASSUME HInv, ProcessEnds
    PROVE  SerialOK'
<1>0. /\ OneAtATime /\ NumbersOK /\ FiniteOK /\ clock \in Nat
  BY HTypes DEF HInv, SerialOK
<1>1. /\ \A c \in Calls : callPC'[c] \in {"idle", "gone"} /\ dep'[c] = NoDeployment
      /\ \A c \in Calls : callPC[c] = "gone" => callPC'[c] = "gone"
      /\ \A i \in IDs : deployments'[i] = None
      /\ \A w \in Workers : workerPC'[w] = "idle"
      /\ \A d \in Deleters : doomed'[d] = {}
      /\ clock' = clock /\ disk' = disk
  BY DEF ProcessEnds
<1>2. \A c \in Calls : ~ Open(c)'
  BY <1>1 DEF Open, Checked
<1>3. \A i \in IDs : ~ Present(i)'
  BY <1>1 DEF Present
<1>4. OneAtATime'
  BY <1>0, <1>1, <1>2 DEF OneAtATime, UnderWay, NoDeployment
<1>5. EntriesOK' /\ FreshOK' /\ OpenOK' /\ EndedOK' /\ NothingOK'
  BY <1>1, <1>3 DEF EntriesOK, FreshOK, OpenOK, EndedOK, NothingOK
<1>6. PrunesOK' /\ ClearsOK'
  BY <1>1 DEF PrunesOK, ClearsOK, Deleters
<1>7. NumbersOK'
  BY <1>0, <1>1 DEF NumbersOK, NoDeployment
<1>8. FiniteOK'
  <2>1. {i \in IDs : Present(i)'} = {}
    BY <1>3
  <2>2. IsFiniteSet({i \in IDs : Present(i)'})
    BY <2>1, FS_EmptySet
  <2> QED
    BY <1>0, <1>1, <2>2 DEF FiniteOK
<1> QED
  BY <1>4, <1>5, <1>6, <1>7, <1>8 DEF SerialOK

\* What a process finds when it starts: under each number the file of the one
\* application, and its record as that of the deployment the file names.
LEMMA BootLoads ==
    ASSUME OneByOne, HInv, Boot
    PROVE  /\ \A i \in IDs : Present(i)' =>
                 \E a \in Apps : /\ disk[a][i] # NoRecord
                                 /\ deployments'[i] = disk[a][i].call
                                 /\ Entry(i)' = disk[a][i].rec
           /\ \A c \in Calls :
                 \/ dep'[c] = NoDeployment
                 \/ \E i \in IDs : Present(i)' /\ deployments'[i] = c
<1>0. NumbersOK
  BY DEF HInv, SerialOK
<1>1. /\ deployments' = [i \in IDs |-> LoadedFrom(i).call]
      /\ dep' = [c \in Calls |->
                   IF \E i \in IDs : LoadedFrom(i).call = c
                   THEN (CHOOSE r \in {LoadedFrom(i) : i \in IDs} : r.call = c).rec
                   ELSE NoDeployment]
  BY DEF Boot
<1>2. ASSUME NEW i \in IDs
      PROVE  \/ LoadedFrom(i) = NoRecord
             \/ \E a \in Apps : disk[a][i] # NoRecord /\ LoadedFrom(i) = disk[a][i]
  <2>1. CASE \E a \in Apps : LastOwner(i, a)
    <3>1. PICK a \in Apps : a = CHOOSE b \in Apps : LastOwner(i, b)
      BY <2>1
    <3>2. LastOwner(i, a)
      BY <2>1, <3>1
    <3>3. LoadedFrom(i) = disk[a][i]
      BY <2>1, <3>1 DEF LoadedFrom
    <3> QED
      BY <3>2, <3>3 DEF LastOwner
  <2>2. CASE ~ \E a \in Apps : LastOwner(i, a)
    BY <2>2 DEF LoadedFrom
  <2> QED
    BY <2>1, <2>2
<1>3. ASSUME NEW i \in IDs, NEW c \in Calls, LoadedFrom(i).call = c
      PROVE  /\ \E a \in Apps : disk[a][i] # NoRecord /\ LoadedFrom(i) = disk[a][i]
             /\ \A j \in IDs : LoadedFrom(j).call = c => j = i
  <2>1. c # None /\ NoRecord.call = None
    BY ConstantsAssumption DEF NoRecord
  <2>2. PICK a \in Apps : disk[a][i] # NoRecord /\ LoadedFrom(i) = disk[a][i]
    BY <1>2, <1>3, <2>1
  <2>3. ASSUME NEW j \in IDs, LoadedFrom(j).call = c
        PROVE  j = i
    <3>1. PICK b \in Apps : disk[b][j] # NoRecord /\ LoadedFrom(j) = disk[b][j]
      BY <1>2, <2>1, <2>3
    <3>2. b = a
      BY DEF OneByOne
    <3> QED
      BY <1>0, <1>3, <2>2, <2>3, <3>1, <3>2 DEF NumbersOK
  <2> QED
    BY <2>2, <2>3
<1>4. ASSUME NEW i \in IDs, Present(i)'
      PROVE  \E a \in Apps : /\ disk[a][i] # NoRecord
                             /\ deployments'[i] = disk[a][i].call
                             /\ Entry(i)' = disk[a][i].rec
  <2>1. deployments'[i] = LoadedFrom(i).call /\ LoadedFrom(i).call # None
    BY <1>1, <1>4 DEF Present
  <2>2. PICK a \in Apps : disk[a][i] # NoRecord /\ LoadedFrom(i) = disk[a][i]
    BY <1>2, <2>1 DEF NoRecord
  <2>3. PICK c \in Calls : c = LoadedFrom(i).call
    BY <1>0, <2>2 DEF NumbersOK
  <2> DEFINE r == CHOOSE s \in {LoadedFrom(j) : j \in IDs} : s.call = c
  <2>4. r \in {LoadedFrom(j) : j \in IDs} /\ r.call = c
    BY <2>3
  <2>5. dep'[c] = r.rec
    BY <1>1, <2>3
  <2> HIDE DEF r
  <2>6. r = LoadedFrom(i)
    BY <1>3, <2>3, <2>4
  <2> QED
    BY <2>1, <2>2, <2>3, <2>5, <2>6 DEF Entry
<1>5. ASSUME NEW c \in Calls, dep'[c] # NoDeployment
      PROVE  \E i \in IDs : Present(i)' /\ deployments'[i] = c
  <2>1. PICK i \in IDs : LoadedFrom(i).call = c
    BY <1>1, <1>5
  <2>2. deployments'[i] = c /\ c # None
    BY <1>1, <2>1, ConstantsAssumption
  <2> QED
    BY <2>2 DEF Present
<1> QED
  BY <1>4, <1>5

\* What it finds is of calls that are gone.
LEMMA BootKeepsSerial ==
    ASSUME OneByOne, HInv, Boot
    PROVE  SerialOK'
<1>0. /\ NumbersOK /\ FiniteOK /\ NothingOK /\ OneAtATime /\ clock \in Nat
  BY HTypes DEF HInv, SerialOK
<1>1. /\ phase = "down" /\ phase' = "booting"
      /\ UNCHANGED <<clock, callPC, disk, doomed, workerPC, workerJob>>
  BY DEF Boot, callVars, workerVars, deleteVars
<1>2. /\ \A c \in Calls : callPC[c] \in {"idle", "gone"}
      /\ \A w \in Workers : workerPC[w] = "idle"
      /\ \A d \in Deleters : doomed[d] = {}
  BY <1>0, <1>1, HTypes DEF RInv, FilesOK, IInv, DownOK, NothingOK
<1>3. ASSUME NEW a \in Apps, NEW i \in IDs, disk[a][i] # NoRecord
      PROVE  disk[a][i].call \in Calls /\ callPC[disk[a][i].call] = "gone"
  <2>1. disk[a][i].call \in Calls
    BY <1>0, <1>3 DEF NumbersOK
  <2>2. callPC[disk[a][i].call] \notin Early
    BY <2>1, HTypes, ConstantsAssumption DEF RInv, FilesOK
  <2> QED
    BY <1>2, <2>1, <2>2 DEF Early
<1>4. ASSUME NEW i \in IDs, Present(i)'
      PROVE  \E a \in Apps : /\ disk[a][i] # NoRecord
                             /\ deployments'[i] = disk[a][i].call
                             /\ Entry(i)' = disk[a][i].rec
  BY <1>4, BootLoads
<1>5. ASSUME NEW i \in IDs, Present(i)'
      PROVE  /\ Entry(i)'.id = i /\ Entry(i)'.app \in Apps /\ Entry(i)'.status \in Status
             /\ Entry(i)'.created <= clock
             /\ callPC[deployments'[i]] = "gone"
  BY <1>0, <1>3, <1>4, <1>5 DEF NumbersOK
<1>6. EntriesOK'
  BY <1>1, <1>5 DEF EntriesOK
<1>7. OneAtATime'
  <2>1. \A c \in Calls : ~ Open(c)' /\ callPC'[c] \notin UnderWay
    BY <1>1, <1>2 DEF Open, Checked, UnderWay
  <2>2. ASSUME NEW c \in Calls
        PROVE  dep'[c].created <= clock
    <3>1. CASE dep'[c] = NoDeployment
      BY <1>0, <3>1 DEF NoDeployment
    <3>2. CASE dep'[c] # NoDeployment
      BY <1>5, <3>2, BootLoads DEF Entry
    <3> QED
      BY <3>1, <3>2
  <2> QED
    BY <1>1, <2>1, <2>2 DEF OneAtATime, UnderWay
<1>8. FreshOK' /\ OpenOK' /\ EndedOK' /\ NothingOK'
  BY <1>1, <1>2 DEF FreshOK, OpenOK, EndedOK, NothingOK, Checked
<1>9. PrunesOK' /\ ClearsOK'
  BY <1>1, <1>2 DEF PrunesOK, ClearsOK, Deleters
<1>10. NumbersOK'
  BY <1>0, <1>1, <1>3 DEF NumbersOK
<1>11. FiniteOK'
  <2>1. IsFiniteSet({i \in IDs : Present(i)'})
    <3>1. CASE Apps = {}
      <4>1. {i \in IDs : Present(i)'} = {}
        BY <1>4, <3>1
      <4> QED
        BY <4>1, FS_EmptySet
    <3>2. CASE Apps # {}
      <4>1. PICK a \in Apps : TRUE
        BY <3>2
      <4>2. {i \in IDs : Present(i)'} \subseteq {i \in IDs : disk[a][i] # NoRecord}
        BY <1>4 DEF OneByOne
      <4> QED
        BY <1>0, <4>2, FS_Subset DEF FiniteOK
    <3> QED
      BY <3>1, <3>2
  <2> QED
    BY <1>0, <1>1, <2>1 DEF FiniteOK
<1> QED
  BY <1>6, <1>7, <1>8, <1>9, <1>10, <1>11 DEF SerialOK

\* The steps that change neither records nor the map.
LEMMA OthersKeepSerial ==
    ASSUME HInv,
           \/ UNCHANGED vars
           \/ \E i \in IDs : Cancel(i)
           \/ \E w \in Workers : TakeJob(w) \/ WorkerReturns(w) \/ LockApp(w) \/ FinishJob(w)
           \/ CloseShutdown \/ CancelAll \/ ShutdownReturns \/ Reconcile
    PROVE  SerialOK'
<1> USE DEF vars, processVars, callVars, stores, workerVars, deleteVars
<1>0. workerPC \in [Workers -> WorkerPCs] /\ workerJob \in [Workers -> Calls \cup {None}]
  BY HTypes
<1>1. CASE UNCHANGED vars \/ \E i \in IDs : Cancel(i)
  BY <1>1, QuietKeepsSerial DEF Cancel
<1>2. ASSUME NEW w \in Workers, TakeJob(w) \/ WorkerReturns(w) \/ LockApp(w)
      PROVE  SerialOK'
  <2>1. /\ UNCHANGED <<phase, clock, callPC, dep, deployments, disk, doomed>>
        /\ workerPC[w] # "pruning" /\ workerPC'[w] \in {"locking", "exited", "opening"}
        /\ \A v \in Workers : v # w => workerPC'[v] = workerPC[v] /\ workerJob'[v] = workerJob[v]
    BY <1>0, <1>2 DEF TakeJob, WorkerReturns, LockApp, WorkerMoves
  <2> QED
    BY <2>1, QuietKeepsSerial
<1>3. ASSUME NEW w \in Workers, FinishJob(w)
      PROVE  SerialOK'
  <2>1. /\ UNCHANGED <<phase, clock, callPC, dep, deployments, disk, doomed>>
        /\ workerPC[w] = "pruning" => doomed[w] = {}
        /\ workerPC'[w] = "idle"
        /\ \A v \in Workers : v # w => workerPC'[v] = workerPC[v] /\ workerJob'[v] = workerJob[v]
    BY <1>0, <1>3 DEF FinishJob, LeaveJob
  <2> QED
    BY <2>1, QuietKeepsSerial
<1>4. CASE CloseShutdown \/ CancelAll \/ ShutdownReturns \/ Reconcile
  BY <1>4, QuietKeepsSerial
     DEF CloseShutdown, CancelAll, ShutdownReturns, Reconcile, ReconciledRecords
<1> QED
  BY <1>1, <1>2, <1>3, <1>4

-----------------------------------------------------------------------------
(* A run that has failed and is about to store its record *)

\* It keeps its entry in a step that takes no entry away and adds no number to
\* the list of a clear.
LEMMA StoredStays ==
    ASSUME HInv, deployments' = deployments,
           \A w \in Workers : workerPC'[w] = "storing_end" =>
              workerPC[w] = "storing_end" /\ workerJob'[w] = workerJob[w],
           \A c \in Calls : callPC[c] = "accepted" => dep'[c].id = dep[c].id,
           \A h \in Handlers : doomed'[h] \subseteq doomed[h]
    PROVE  StoredOK'
<1> SUFFICES ASSUME NEW w \in Workers, workerPC'[w] = "storing_end"
             PROVE  LET c == workerJob'[w] IN
                    /\ dep'[c].id \in IDs /\ deployments'[dep'[c].id] = c
                    /\ \A h \in Handlers : dep'[c].id \notin doomed'[h]
  BY DEF StoredOK
<1>1. PICK c \in Calls : c = workerJob[w] /\ callPC[c] = "accepted"
  BY HTypes, ConstantsAssumption DEF IInv, Typed, WorkersHaveJobs, JobsOK, LockedPCs
<1>2. /\ dep[c].id \in IDs /\ deployments[dep[c].id] = c
      /\ \A h \in Handlers : dep[c].id \notin doomed[h]
  BY <1>1 DEF HInv, StoredOK
<1> QED
  BY <1>1, <1>2

\* A run that fails has its entry, which no clear has listed, for it had not
\* failed before.
LEMMA StoredFails ==
    ASSUME OneByOne, HInv, NEW w \in Workers, OpenLogFails(w) \/ ExecuteFails(w)
    PROVE  StoredOK'
<1> USE DEF RunMoves, WorkerMoves, processVars, callVars, workerVars, deleteVars
<1>0. workerPC \in [Workers -> WorkerPCs] /\ dep \in [Calls -> DeploymentRecord] /\ RunStatus(w)
  BY HTypes DEF RInv
<1>1. /\ workerPC[w] \in {"opening", "executing"}
      /\ UNCHANGED <<deployments, doomed, workerJob>>
      /\ \E s : dep' = [dep EXCEPT ![workerJob[w]].status = s]
      /\ \A v \in Workers : v # w => workerPC'[v] = workerPC[v]
  BY <1>0 DEF OpenLogFails, ExecuteFails, SetStatus
<1>2. ~ IsTerminal(dep[workerJob[w]].status)
  BY <1>0, <1>1 DEF RunStatus, Executing, IsTerminal
<1>3. PICK c \in Calls : c = workerJob[w]
  BY <1>1, <1>2, JobIsOpen DEF LockedPCs
<1>4. Open(c) /\ dep[c].id \in IDs /\ deployments[dep[c].id] = c
  BY <1>1, <1>2, <1>3, JobIsOpen DEF LockedPCs
<1>5. dep'[c].id = dep[c].id
  BY <1>0, <1>1, <1>3 DEF DeploymentRecord
<1>6. \A h \in Handlers : dep[c].id \notin doomed[h]
  BY <1>4, DoomedIsOver, ConstantsAssumption DEF Present, Deleters
<1>7. ASSUME NEW v \in Workers, workerPC'[v] = "storing_end"
      PROVE  v = w
  BY <1>1, <1>7, OneLocked DEF LockedPCs
<1> QED
  BY <1>1, <1>3, <1>4, <1>5, <1>6, <1>7 DEF StoredOK

\* A step that changes the map: a new record has another number, a clear has
\* other numbers on its list, and no other worker has the mutex.
LEMMA StoredMaps ==
    ASSUME OneByOne, HInv,
           \/ \E c \in Calls : InsertNew(c)
           \/ \E w \in Workers : StoreRecord(w)
           \/ \E d \in Deleters, i \in IDs : DeleteEntry(d, i)
           \/ ProcessEnds \/ Boot
    PROVE  StoredOK'
<1> USE DEF RunMoves, WorkerMoves, CallMoves, processVars, callVars, workerVars, deleteVars
<1>0. /\ workerPC \in [Workers -> WorkerPCs] /\ deployments \in [IDs -> Calls \cup {None}]
      /\ doomed \in [Deleters -> SUBSET IDs]
      /\ \A w \in Workers : workerPC[w] = "storing_end" => workerJob[w] \in Calls
  BY HTypes DEF Typed, WorkersHaveJobs, LockedPCs
<1>1. ASSUME NEW c \in Calls, InsertNew(c)
      PROVE  StoredOK'
  <2>1. /\ callPC[c] = "persisted" /\ deployments' = [deployments EXCEPT ![dep[c].id] = c]
        /\ UNCHANGED <<dep, doomed, workerPC, workerJob>>
    BY <1>1 DEF InsertNew
  <2>2. dep[c].id \in IDs /\ \A i \in IDs : Present(i) => i < dep[c].id
    BY <2>1 DEF HInv, SerialOK, FreshOK
  <2>3. ASSUME NEW w \in Workers, workerPC[w] = "storing_end"
        PROVE  LET j == workerJob[w] IN
               /\ dep[j].id \in IDs /\ deployments'[dep[j].id] = j
               /\ \A h \in Handlers : dep[j].id \notin doomed[h]
    <3>1. PICK j \in Calls : j = workerJob[w]
      BY <1>0, <2>3
    <3>2. /\ dep[j].id \in IDs /\ deployments[dep[j].id] = j
          /\ \A h \in Handlers : dep[j].id \notin doomed[h]
      BY <2>3, <3>1 DEF HInv, StoredOK
    <3>3. dep[j].id < dep[c].id /\ dep[j].id \in Nat /\ dep[c].id \in Nat
      BY <2>2, <3>2, ConstantsAssumption DEF Present
    <3> QED
      BY <1>0, <2>1, <3>1, <3>2, <3>3
  <2> QED
    BY <2>1, <2>3 DEF StoredOK
<1>2. ASSUME NEW w \in Workers, StoreRecord(w)
      PROVE  StoredOK'
  <2>1. /\ workerPC[w] \in LockedPCs /\ workerPC'[w] # "storing_end"
        /\ \A v \in Workers : v # w => workerPC'[v] = workerPC[v]
    BY <1>0, <1>2 DEF StoreRecord, AfterStoring, LockedPCs
  <2>2. \A v \in Workers : workerPC'[v] # "storing_end"
    BY <2>1, OneLocked DEF LockedPCs
  <2> QED
    BY <2>2 DEF StoredOK
<1>3. ASSUME NEW d \in Deleters, NEW i \in IDs, DeleteEntry(d, i)
      PROVE  StoredOK'
  <2>1. /\ i \in doomed[d] /\ doomed' = [doomed EXCEPT ![d] = @ \ {i}]
        /\ deployments' = [deployments EXCEPT ![i] = None]
        /\ UNCHANGED <<dep, workerPC, workerJob>>
    BY <1>3 DEF DeleteEntry
  <2>2. ASSUME NEW w \in Workers, workerPC[w] = "storing_end"
        PROVE  LET j == workerJob[w] IN
               /\ dep[j].id \in IDs /\ deployments'[dep[j].id] = j
               /\ \A h \in Handlers : dep[j].id \notin doomed'[h]
    <3>1. PICK j \in Calls : j = workerJob[w]
      BY <1>0, <2>2
    <3>2. /\ dep[j].id \in IDs /\ deployments[dep[j].id] = j
          /\ \A h \in Handlers : dep[j].id \notin doomed[h]
      BY <2>2, <3>1 DEF HInv, StoredOK
    <3>3. d \in Handlers
      <4>1. ASSUME d \in Workers
            PROVE  FALSE
        <5>1. workerPC[d] = "pruning"
          BY <2>1, <4>1 DEF HInv, SerialOK, PrunesOK
        <5> QED
          BY <2>2, <4>1, <5>1, OneLocked DEF LockedPCs
      <4> QED
        BY <4>1 DEF Deleters
    <3>4. dep[j].id # i
      BY <2>1, <3>2, <3>3
    <3>5. \A h \in Handlers : doomed'[h] \subseteq doomed[h]
      BY <1>0, <2>1 DEF Deleters
    <3> QED
      BY <1>0, <2>1, <3>1, <3>2, <3>4, <3>5
  <2> QED
    BY <2>1, <2>2 DEF StoredOK
<1>4. CASE ProcessEnds \/ Boot
  <2>1. \A w \in Workers : workerPC'[w] # "storing_end"
    BY <1>4, HTypes DEF ProcessEnds, Boot, IInv, DownOK
  <2> QED
    BY <2>1 DEF StoredOK
<1> QED
  BY <1>1, <1>2, <1>3, <1>4

\* A clear begins when no run of the application is about to store its failure.
LEMMA StoredClear ==
    ASSUME OneByOne, HInv, NEW h \in Handlers, NEW a \in Apps, ClearFailedList(h, a)
    PROVE  StoredOK'
<1>1. workerPC' = workerPC /\ ~ Unstored(a)
  BY DEF ClearFailedList, workerVars, OneByOne
<1>2. ASSUME NEW w \in Workers, workerPC[w] = "storing_end"
      PROVE  FALSE
  <2>1. workerJob[w] \in Calls /\ callPC[workerJob[w]] = "accepted"
    BY <1>2, HTypes, ConstantsAssumption DEF IInv, Typed, WorkersHaveJobs, JobsOK, LockedPCs
  <2>2. dep[workerJob[w]].app = a
    BY <2>1, HTypes DEF IInv, JobsOK, OneByOne
  <2> QED
    BY <1>1, <1>2, <2>2 DEF Unstored
<1> QED
  BY <1>1, <1>2 DEF StoredOK

\* Every step keeps the entry of such a run.
LEMMA NextStored ==
    ASSUME OneByOne, HInv, [Next]_vars
    PROVE  StoredOK'
<1> USE DEF RunMoves, WorkerMoves, CallMoves, vars, processVars, callVars, stores, workerVars,
            deleteVars
<1>0. /\ workerPC \in [Workers -> WorkerPCs] /\ workerJob \in [Workers -> Calls \cup {None}]
      /\ dep \in [Calls -> DeploymentRecord] /\ callPC \in [Calls -> CallPCs]
      /\ doomed \in [Deleters -> SUBSET IDs]
  BY HTypes
<1>1. ASSUME NEW c \in Calls,
             \/ \E a \in Apps : EnqueueCheck(c, a) \/ \E i \in IDs : RollbackTarget(c, a, i)
             \/ CallStep(c)
      PROVE  StoredOK'
  <2>1. CASE InsertNew(c)
    BY <2>1, StoredMaps
  <2>2. CASE ~ InsertNew(c)
    <3>1. /\ UNCHANGED <<deployments, doomed, workerPC, workerJob>>
          /\ callPC[c] # "accepted"
      BY <1>1, <2>2 DEF EnqueueCheck, RollbackTarget, CallStep, RollbackCheck, NumberDeployment,
           PersistNew, PersistNewFails, RegisterCancel, ResaveRollback, SendJob, QueueFull,
           PersistRefused
    <3>2. \A d \in Calls : d # c => dep'[d] = dep[d]
      BY <1>0, <1>1, <2>2 DEF EnqueueCheck, RollbackTarget, CallStep, RollbackCheck,
           NumberDeployment, PersistNew, PersistNewFails, RegisterCancel, ResaveRollback, SendJob,
           QueueFull, PersistRefused
    <3> QED
      BY <3>1, <3>2, StoredStays
  <2> QED
    BY <2>1, <2>2
<1>2. ASSUME NEW d \in Deleters, DeleteStep(d)
      PROVE  StoredOK'
  <2>1. CASE RemoveDirectory(d)
    <3>1. UNCHANGED <<dep, deployments, doomed, workerPC, workerJob>>
      BY <2>1 DEF RemoveDirectory
    <3> QED
      BY <3>1, StoredStays
  <2> QED
    BY <1>2, <2>1, StoredMaps DEF DeleteStep
<1>3. ASSUME NEW w \in Workers, TakeJob(w) \/ WorkerReturns(w) \/ LockApp(w) \/ RunStep(w)
      PROVE  StoredOK'
  <2>1. CASE OpenLogFails(w) \/ ExecuteFails(w)
    BY <2>1, StoredFails
  <2>2. CASE StoreRecord(w)
    BY <2>2, StoredMaps
  <2>3. CASE DeleteStep(w)
    BY <1>2, <2>3 DEF Deleters
  <2>4. CASE StartJob(w) \/ ExecuteStage(w) \/ ExecuteRollbackImage(w) \/ ExecuteSucceeds(w)
    <3>1. /\ UNCHANGED <<deployments, doomed, workerJob>>
          /\ workerPC'[w] # "storing_end"
          /\ \A v \in Workers : v # w => workerPC'[v] = workerPC[v]
      BY <1>0, <2>4 DEF StartJob, ExecuteStage, ExecuteRollbackImage, ExecuteSucceeds
    <3>2. \A c \in Calls : dep'[c].id = dep[c].id
      BY <1>0, <2>4 DEF StartJob, ExecuteStage, ExecuteRollbackImage, ExecuteSucceeds, SetStatus,
           DeploymentRecord
    <3> QED
      BY <3>1, <3>2, StoredStays
  <2>5. CASE ListOld(w)
    <3>1. /\ UNCHANGED <<dep, deployments, workerJob>>
          /\ \A h \in Handlers : doomed'[h] = doomed[h]
          /\ \A v \in Workers : workerPC'[v] = "storing_end" => workerPC[v] = "storing_end"
      BY <1>0, <2>5, ConstantsAssumption DEF ListOld, Deleters
    <3> QED
      BY <3>1, StoredStays
  <2>6. CASE \/ TakeJob(w) \/ WorkerReturns(w) \/ LockApp(w) \/ PersistStart(w)
             \/ PersistSuccess(w) \/ PersistOutcome(w) \/ FinishJob(w)
    <3>1. /\ UNCHANGED <<dep, deployments, doomed>>
          /\ workerPC'[w] # "storing_end"
          /\ \A v \in Workers : v # w => workerPC'[v] = workerPC[v] /\ workerJob'[v] = workerJob[v]
      BY <1>0, <2>6 DEF TakeJob, WorkerReturns, LockApp, PersistStart, PersistSuccess,
           PersistOutcome, FinishJob, LeaveJob
    <3> QED
      BY <3>1, StoredStays
  <2> QED
    BY <1>3, <2>1, <2>2, <2>3, <2>4, <2>5, <2>6 DEF RunStep
<1>4. ASSUME NEW h \in Handlers, DeleteStep(h) \/ \E a \in Apps : ClearFailedList(h, a)
      PROVE  StoredOK'
  BY <1>2, <1>4, StoredClear DEF Deleters
<1>5. CASE ProcessEnds \/ Boot
  BY <1>5, StoredMaps
<1>6. CASE \/ UNCHANGED vars \/ \E i \in IDs : Cancel(i)
           \/ CloseShutdown \/ CancelAll \/ ShutdownReturns \/ Reconcile
  <2>1. UNCHANGED <<dep, deployments, doomed, workerPC, workerJob>>
    BY <1>6 DEF Cancel, CloseShutdown, CancelAll, ShutdownReturns, Reconcile, ReconciledRecords
  <2> QED
    BY <2>1, StoredStays
<1> QED
  BY <1>1, <1>3, <1>4, <1>5, <1>6 DEF Next

-----------------------------------------------------------------------------
(* The invariant of requests one at a time *)

\* The service starts without entries and without files.
LEMMA InitSerial == Init => HInv
<1> SUFFICES ASSUME Init
             PROVE  SerialOK
  BY InitRecords DEF Init, HInv, StoredOK
<1>1. OneAtATime
  BY DEF Init, OneAtATime, Open, Checked, UnderWay, NoDeployment
<1>2. EntriesOK /\ FreshOK /\ OpenOK /\ EndedOK /\ NothingOK
  BY DEF Init, EntriesOK, FreshOK, OpenOK, EndedOK, NothingOK, Present, Checked
<1>3. PrunesOK /\ ClearsOK /\ NumbersOK
  BY DEF Init, PrunesOK, ClearsOK, NumbersOK, Deleters
<1>4. FiniteOK
  <2>1. /\ {i \in IDs : Present(i)} = {}
        /\ \A a \in Apps : {i \in IDs : disk[a][i] # NoRecord} = {}
    BY DEF Init, Present
  <2> QED
    BY <2>1, FS_EmptySet DEF FiniteOK
<1> QED
  BY <1>1, <1>2, <1>3, <1>4 DEF SerialOK

\* Every step keeps the invariant.
LEMMA NextSerial ==
    ASSUME OneByOne, HInv, [Next]_vars
    PROVE  HInv'
<1>1. RInv'
  BY NextRecords DEF HInv
<1>2. ASSUME NEW d \in Deleters, DeleteStep(d)
      PROVE  SerialOK'
  BY <1>2, DeleteEntryKeeps, RemoveKeeps DEF DeleteStep
<1>3. ASSUME NEW w \in Workers, TakeJob(w) \/ WorkerReturns(w) \/ LockApp(w) \/ RunStep(w)
      PROVE  SerialOK'
  BY <1>2, <1>3, OthersKeepSerial, RunGoesOn, RunEnds, RunStores, RunSaves, ListOldKeeps
     DEF RunStep, Deleters
<1>4. SerialOK'
  BY <1>2, <1>3, CallKeepsSerial, ClearKeeps, OthersKeepSerial, EndKeepsSerial, BootKeepsSerial
     DEF Next, Deleters
<1> QED
  BY <1>1, <1>4, NextStored DEF HInv

\* The invariant holds in every reachable state.
LEMMA SerialInv ==
    ASSUME OneByOne
    PROVE  Spec => []HInv
<1>1. HInv /\ [Next]_vars => HInv'
  BY NextSerial
<1> QED
  BY <1>1, InitSerial, PTL DEF Spec

\* OneActivePerApp: under OneByOne the deployments of an application that the
\* process has accepted have all ended but one, whatever the workers, the prunes
\* and the clear do meanwhile, and across restarts: what Enqueue reads under the
\* lock before it numbers its record is still so when it sends the job.
THEOREM OneActiveAlways ==
    ASSUME OneByOne
    PROVE  Spec => []OneActivePerApp
<1>1. HInv => OneActivePerApp
  BY DEF HInv, SerialOK, OneAtATime, Open, OneActivePerApp
<1> QED
  BY <1>1, SerialInv, PTL

\* How a step of the process changes the map: an entry stays, or its deployment
\* has ended and the entry is gone.
LEMMA NextKeepsEntries ==
    ASSUME OneByOne, HInv, [Next]_vars, phase' # "down", NEW i \in IDs, Present(i)
    PROVE  \/ deployments'[i] = deployments[i]
           \/ deployments'[i] = None /\ IsTerminal(Entry(i).status)
<1> USE DEF RunMoves, WorkerMoves, CallMoves, processVars, callVars, stores, workerVars,
            deleteVars
<1>0. deployments \in [IDs -> Calls \cup {None}]
  BY HTypes
<1>1. ASSUME NEW c \in Calls, InsertNew(c)
      PROVE  deployments'[i] = deployments[i]
  <2>1. /\ callPC[c] = "persisted"
        /\ deployments' = [deployments EXCEPT ![dep[c].id] = c]
    BY <1>1 DEF InsertNew
  <2>2. dep[c].id # i
    <3>1. dep[c].id \in Nat /\ i < dep[c].id
      BY <2>1, ConstantsAssumption DEF HInv, SerialOK, FreshOK
    <3> QED
      BY <3>1
  <2> QED
    BY <1>0, <2>1, <2>2
<1>2. ASSUME NEW c \in Calls, CallStep(c), ~ InsertNew(c)
      PROVE  deployments' = deployments
  BY <1>2 DEF CallStep, RollbackCheck, NumberDeployment, PersistNew, PersistNewFails,
              RegisterCancel, ResaveRollback, SendJob, QueueFull, PersistRefused
<1>3. ASSUME NEW w \in Workers,
             \/ StartJob(w) \/ OpenLogFails(w) \/ ExecuteSucceeds(w) \/ ExecuteFails(w)
             \/ StoreRecord(w)
      PROVE  deployments' = deployments
  BY <1>3, StoreKeepsMap DEF StartJob, OpenLogFails, ExecuteSucceeds, ExecuteFails
<1>4. ASSUME NEW d \in Deleters, DeleteStep(d)
      PROVE  \/ deployments'[i] = deployments[i]
             \/ deployments'[i] = None /\ IsTerminal(Entry(i).status)
  <2>1. CASE RemoveDirectory(d)
    BY <2>1 DEF RemoveDirectory
  <2>2. ASSUME NEW j \in IDs, DeleteEntry(d, j)
        PROVE  \/ deployments'[i] = deployments[i]
               \/ deployments'[i] = None /\ IsTerminal(Entry(i).status)
    <3>1. j \in doomed[d] /\ deployments' = [deployments EXCEPT ![j] = None]
      BY <2>2 DEF DeleteEntry
    <3> QED
      BY <1>0, <3>1, DoomedIsOver
  <2> QED
    BY <1>4, <2>1, <2>2 DEF DeleteStep
<1>5. ASSUME NEW w \in Workers, TakeJob(w) \/ WorkerReturns(w) \/ LockApp(w) \/ RunStep(w),
             ~ DeleteStep(w)
      PROVE  deployments' = deployments
  BY <1>3, <1>5 DEF TakeJob, WorkerReturns, LockApp, RunStep, PersistStart, ExecuteStage,
         ExecuteRollbackImage, PersistSuccess, ListOld, PersistOutcome, FinishJob, LeaveJob
<1>6. CASE ProcessEnds
  BY <1>6 DEF ProcessEnds
<1>7. CASE Boot
  BY <1>7 DEF Boot, HInv, SerialOK, NothingOK
<1>8. ASSUME \/ UNCHANGED vars
             \/ CloseShutdown \/ CancelAll \/ ShutdownReturns \/ Reconcile
             \/ \E j \in IDs : Cancel(j)
             \/ \E c \in Calls, a \in Apps :
                   EnqueueCheck(c, a) \/ \E j \in IDs : RollbackTarget(c, a, j)
             \/ \E h \in Handlers, a \in Apps : ClearFailedList(h, a)
      PROVE  deployments' = deployments
  BY <1>8 DEF vars, CloseShutdown, CancelAll, ShutdownReturns, Reconcile, Cancel, EnqueueCheck,
              RollbackTarget, ClearFailedList
<1> QED
  BY <1>1, <1>2, <1>4, <1>5, <1>6, <1>7, <1>8 DEF Next, Deleters

\* DeletesOnlyFinished: under OneByOne a prune or a clear deletes the record of a
\* finished deployment only, although both work on a list that they made before:
\* a number on such a list does not come into use again before its deletion.
THEOREM OnlyFinishedDeleted ==
    ASSUME OneByOne
    PROVE  Spec => DeletesOnlyFinished
<1>1. ASSUME HInv, [Next]_vars
      PROVE  [phase' # "down" =>
                 \A i \in IDs :
                    deployments[i] # None /\ deployments'[i] = None =>
                        IsTerminal(dep[deployments[i]].status)]_vars
  BY <1>1, NextKeepsEntries DEF Present, Entry
<1>2. HInv /\ [Next]_vars =>
         [phase' # "down" =>
             \A i \in IDs :
                deployments[i] # None /\ deployments'[i] = None =>
                    IsTerminal(dep[deployments[i]].status)]_vars
  BY <1>1
<1> QED
  BY <1>2, SerialInv, PTL DEF Spec, DeletesOnlyFinished

\* HistoryKept: under OneByOne the number that nextDeploymentID finds is free until
\* the record is under it, and the write of updateDeployment, which looks at
\* nothing, finds its own deployment there: it is a clear between a failure and
\* that write, which OneByOne excludes, that would make it take another's place.
THEOREM HistoryAlwaysKept ==
    ASSUME OneByOne
    PROVE  Spec => HistoryKept
<1>1. ASSUME HInv, [Next]_vars
      PROVE  [phase' # "down" =>
                 \A i \in IDs :
                    deployments[i] # None => deployments'[i] \in {deployments[i], None}]_vars
  BY <1>1, NextKeepsEntries DEF Present
<1>2. HInv /\ [Next]_vars =>
         [phase' # "down" =>
             \A i \in IDs :
                deployments[i] # None => deployments'[i] \in {deployments[i], None}]_vars
  BY <1>1
<1> QED
  BY <1>2, SerialInv, PTL DEF Spec, HistoryKept
-----------------------------------------------------------------------------
(* The service implements DeploymentHistory *)

\* The numbers of the map whose deployments have ended.
Over == {i \in IDs : Present(i) /\ IsTerminal(Entry(i).status)}

\* A step of the history that the service takes, or none.
HistoryStep == History!Next \/ UNCHANGED History!historyVars

\* What the history sees of the service.
LEMMA HistorySeen ==
    /\ History!Numbers = {i \in IDs : Present(i)}
    /\ {i \in IDs : deployments[i] # None /\ IsTerminal(dep[deployments[i]].status)} = Over
BY DEF History!Numbers, Present, Entry, Over

\* The service starts without a history.
LEMMA HistoryInit == Init => History!Init
BY DEF Init, History!Init

\* A step that leaves the map, and the records that are in it.
LEMMA HistoryUnseen ==
    ASSUME HInv, deployments' = deployments, phase = "down" <=> phase' = "down",
           \A i \in IDs : Present(i) => Entry(i)'.status = Entry(i).status
    PROVE  UNCHANGED History!historyVars
BY DEF History!historyVars, Present, Entry

\* A step that leaves the map and all records but one, whose deployment has not
\* ended: either it ends, or nothing is seen of it.
LEMMA HistoryEnds ==
    ASSUME HInv, deployments' = deployments, phase = "down" <=> phase' = "down",
           NEW c \in Calls, ~ IsTerminal(dep[c].status),
           \A d \in Calls : d # c => dep'[d] = dep[d]
    PROVE  HistoryStep
<1>1. \A i \in IDs : Present(i) => deployments[i] \in Calls /\ Entry(i).id = i
  BY HTypes DEF HInv, SerialOK, EntriesOK
<1>2. CASE \E i \in IDs : deployments[i] = c /\ IsTerminal(dep'[c].status)
  <2>1. PICK i \in IDs : deployments[i] = c /\ IsTerminal(dep'[c].status)
    BY <1>2
  <2>2. Present(i) /\ phase # "down"
    BY <2>1, ConstantsAssumption DEF Present, HInv, SerialOK, NothingOK
  <2>3. \A j \in IDs : Present(j) /\ j # i => Entry(j)' = Entry(j)
    BY <1>1, <2>1, <2>2 DEF Entry
  <2>4. i \notin Over /\ Over' = Over \cup {i}
    BY <2>1, <2>2, <2>3 DEF Over, Present, Entry
  <2>5. History!End(i)
    BY <2>2, <2>4, HistorySeen DEF History!End, Over, Present, Entry, History!Numbers
  <2> QED
    BY <2>5 DEF HistoryStep, History!Next
<1>3. CASE ~ \E i \in IDs : deployments[i] = c /\ IsTerminal(dep'[c].status)
  <2>1. Over' = Over
    BY <1>1, <1>3 DEF Over, Present, Entry
  <2> QED
    BY <2>1 DEF HistoryStep, History!historyVars, Over, Present, Entry
<1> QED
  BY <1>2, <1>3

\* A call that has no record in the map yet changes nothing that is seen.
LEMMA HistoryAside ==
    ASSUME HInv, NEW c \in Calls, Aside(c)
    PROVE  UNCHANGED History!historyVars
<1>1. \A i \in IDs : Present(i) => Entry(i)' = Entry(i)
  BY AsideFacts
<1> QED
  BY <1>1, HistoryUnseen DEF Aside

\* InsertNew creates: the number is the largest, and all else has ended.
LEMMA HistoryCreates ==
    ASSUME HInv, NEW c \in Calls, InsertNew(c)
    PROVE  HistoryStep
<1>1. /\ callPC[c] = "persisted" /\ dep' = dep /\ phase' = phase
      /\ deployments' = [deployments EXCEPT ![dep[c].id] = c]
  BY DEF InsertNew, CallMoves, processVars
<1>2. PICK i \in IDs : i = dep[c].id
  BY <1>1 DEF HInv, SerialOK, FreshOK
<1>3. phase # "down"
  BY <1>1, HTypes DEF IInv, DownOK, UnderWay
<1>4. ~ IsTerminal(dep[c].status)
  <2>1. dep[c].status = "queued"
    BY <1>1 DEF HInv, RInv, CallStatus
  <2> QED
    BY <2>1 DEF IsTerminal
<1>5. ASSUME NEW j \in IDs, Present(j)
      PROVE  j < i /\ IsTerminal(Entry(j).status) /\ deployments[j] # c
  <2>1. j < i
    BY <1>1, <1>2, <1>5 DEF HInv, SerialOK, FreshOK
  <2>2. deployments[j] \in Calls /\ deployments[j] # c
    BY <1>1, <1>5, HTypes DEF HInv, SerialOK, EntriesOK
  <2>3. Open(c)
    BY <1>1 DEF Open, Checked
  <2>4. ~ Open(deployments[j])
    BY <2>2, <2>3 DEF HInv, SerialOK, OneAtATime
  <2>5. IsTerminal(Entry(j).status)
    BY <1>1, <1>5, <2>4 DEF HInv, SerialOK, EndedOK, Checked
  <2> QED
    BY <2>1, <2>2, <2>5
<1>6. Over' = Over
  <2>1. ~ Present(i)
    <3>1. i \in Nat
      BY ConstantsAssumption
    <3> QED
      BY <1>5, <3>1
  <2>2. deployments'[i] = c /\ \A j \in IDs : j # i => deployments'[j] = deployments[j]
    BY <1>1, <1>2, HTypes
  <2> QED
    BY <1>1, <1>4, <2>1, <2>2 DEF Over, Present, Entry
<1>7. \A j \in History!Numbers : j < i /\ j \in Over /\ deployments[j] # c
  BY <1>5, HistorySeen DEF Over
<1>8. History!Create(i, c)
  BY <1>1, <1>2, <1>3, <1>6, <1>7, HistorySeen DEF History!Create, Over, Present, Entry
<1> QED
  BY <1>8 DEF HistoryStep, History!Next

\* The other steps of a call are not seen.
LEMMA HistoryCalls ==
    ASSUME OneByOne, HInv, NEW c \in Calls,
           \/ \E a \in Apps : EnqueueCheck(c, a) \/ \E i \in IDs : RollbackTarget(c, a, i)
           \/ CallStep(c)
    PROVE  HistoryStep
<1> USE DEF CallMoves, processVars, callVars, stores, workerVars, deleteVars
<1>0. callPC \in [Calls -> CallPCs] /\ dep \in [Calls -> DeploymentRecord]
  BY HTypes
<1>1. CASE \/ \E a \in Apps : EnqueueCheck(c, a) \/ \E i \in IDs : RollbackTarget(c, a, i)
           \/ RollbackCheck(c) \/ NumberDeployment(c) \/ PersistNew(c) \/ PersistNewFails(c)
  <2>1. Aside(c)
    BY <1>0, <1>1 DEF Aside, Outside, CallPCs, UnderWay, EnqueueCheck, RollbackTarget,
         RollbackCheck, NumberDeployment, PersistNew, PersistNewFails
  <2> QED
    BY <2>1, HistoryAside DEF HistoryStep
<1>2. CASE InsertNew(c)
  BY <1>2, HistoryCreates
<1>3. CASE RegisterCancel(c) \/ ResaveRollback(c) \/ SendJob(c)
  <2>1. UNCHANGED <<phase, dep, deployments>>
    BY <1>3 DEF RegisterCancel, ResaveRollback, SendJob
  <2> QED
    BY <2>1, HistoryUnseen DEF HistoryStep, Entry
<1>4. CASE QueueFull(c) \/ PersistRefused(c)
  BY <1>4, NeverFull
<1> QED
  BY <1>1, <1>2, <1>3, <1>4 DEF CallStep

\* What a run does to its own record is seen when the deployment ends.
LEMMA HistoryRuns ==
    ASSUME HInv, NEW w \in Workers,
           \/ StartJob(w) \/ OpenLogFails(w) \/ ExecuteSucceeds(w) \/ ExecuteFails(w)
           \/ ExecuteStage(w) \/ ExecuteRollbackImage(w)
    PROVE  HistoryStep
<1> USE DEF RunMoves, WorkerMoves, processVars, callVars, workerVars, deleteVars
<1>0. dep \in [Calls -> DeploymentRecord] /\ RunStatus(w)
  BY HTypes DEF RInv
<1>1. /\ workerPC[w] \in {"opening", "executing"}
      /\ UNCHANGED <<phase, clock, callPC, deployments, doomed>>
  BY DEF StartJob, OpenLogFails, ExecuteSucceeds, ExecuteFails, ExecuteStage,
         ExecuteRollbackImage
<1>2. ~ IsTerminal(dep[workerJob[w]].status)
  BY <1>0, <1>1 DEF RunStatus, Executing, IsTerminal
<1>3. PICK c \in Calls : c = workerJob[w]
  BY <1>1, <1>2, JobIsOpen DEF LockedPCs
<1>4. \A d \in Calls : d # c => dep'[d] = dep[d]
  <2>1. CASE StartJob(w) \/ OpenLogFails(w) \/ ExecuteSucceeds(w) \/ ExecuteFails(w)
    <3>1. \E s \in Status : SetStatus(workerJob[w], s)
      BY <2>1 DEF StartJob, OpenLogFails, ExecuteSucceeds, ExecuteFails, Status
    <3> QED
      BY <1>1, <1>2, <1>3, <3>1, StatusStays DEF LockedPCs
  <2>2. CASE ExecuteStage(w)
    BY <1>0, <1>3, <2>2 DEF ExecuteStage
  <2>3. CASE ExecuteRollbackImage(w)
    BY <1>0, <1>3, <2>3 DEF ExecuteRollbackImage
  <2> QED
    BY <2>1, <2>2, <2>3
<1> QED
  BY <1>1, <1>2, <1>3, <1>4, HistoryEnds

\* DeleteEntry forgets what has ended, or what is gone already.
LEMMA HistoryForgets ==
    ASSUME HInv, NEW d \in Deleters, DeleteStep(d)
    PROVE  HistoryStep
<1> USE DEF processVars
<1>1. CASE RemoveDirectory(d)
  BY <1>1, HistoryUnseen DEF RemoveDirectory, HistoryStep, Entry
<1>2. ASSUME NEW i \in IDs, DeleteEntry(d, i)
      PROVE  HistoryStep
  <2>1. /\ i \in doomed[d] /\ UNCHANGED <<phase, dep>>
        /\ deployments' = [deployments EXCEPT ![i] = None]
    BY <1>2 DEF DeleteEntry
  <2>2. /\ deployments'[i] = None
        /\ \A j \in IDs : j # i => deployments'[j] = deployments[j]
    BY <2>1, HTypes
  <2>3. CASE Present(i)
    <3>1. i \in Over
      BY <2>1, <2>3, DoomedIsOver DEF Over
    <3>2. Over' = Over \ {i}
      BY <2>1, <2>2 DEF Over, Present, Entry
    <3>3. phase # "down"
      BY <2>3 DEF HInv, SerialOK, NothingOK
    <3>4. History!Forget(i)
      BY <2>1, <3>1, <3>2, <3>3 DEF History!Forget, Over, Present, Entry
    <3> QED
      BY <3>4 DEF HistoryStep, History!Next
  <2>4. CASE ~ Present(i)
    <3>1. deployments' = deployments
      BY <2>1, <2>4, HTypes DEF Present
    <3> QED
      BY <2>1, <3>1, HistoryUnseen DEF HistoryStep, Entry
  <2> QED
    BY <2>3, <2>4
<1> QED
  BY <1>1, <1>2 DEF DeleteStep

\* The end of the process, and the next one.
LEMMA HistoryRestarts ==
    ASSUME OneByOne, HInv, ProcessEnds \/ Boot
    PROVE  HistoryStep
<1>1. CASE ProcessEnds
  <2>1. phase # "down" /\ phase' = "down" /\ deployments' = [i \in IDs |-> None]
    BY <1>1 DEF ProcessEnds
  <2>2. Over' = {}
    BY <2>1 DEF Over, Present
  <2>3. History!Lose
    BY <2>1, <2>2 DEF History!Lose, Over, Present, Entry
  <2> QED
    BY <2>3 DEF HistoryStep, History!Next
<1>2. CASE Boot
  <2>1. phase = "down" /\ phase' # "down"
    BY <1>2 DEF Boot
  <2>2. deployments' \in [IDs -> Calls \cup {None}]
    <3>1. HInv'
      BY <1>2, NextSerial DEF Next
    <3> QED
      BY <3>1 DEF HInv, RInv, IInv, Typed, TypeOK
  <2>3. ASSUME NEW i \in IDs, NEW j \in IDs, deployments'[i] = deployments'[j],
               deployments'[i] # None
        PROVE  i = j
    <3>1. Present(i)' /\ Present(j)'
      BY <2>3 DEF Present
    <3>2. PICK a \in Apps : disk[a][i] # NoRecord /\ deployments'[i] = disk[a][i].call
      BY <1>2, <3>1, BootLoads
    <3>3. PICK b \in Apps : disk[b][j] # NoRecord /\ deployments'[j] = disk[b][j].call
      BY <1>2, <3>1, BootLoads
    <3>4. b = a
      BY DEF OneByOne
    <3>5. disk[a][j].call = disk[a][i].call
      BY <2>3, <3>2, <3>3, <3>4
    <3>6. NumbersOK
      BY DEF HInv, SerialOK
    <3> QED
      BY <3>2, <3>5, <3>6 DEF NumbersOK
  <2>4. Over' \subseteq {i \in IDs : deployments'[i] # None}
    BY DEF Over, Present
  <2>5. History!Load
    BY <2>1, <2>2, <2>3, <2>4 DEF History!Load, Over, Present, Entry
  <2> QED
    BY <2>5 DEF HistoryStep, History!Next
<1> QED
  BY <1>1, <1>2

\* What else happens is not seen.
LEMMA HistoryOthers ==
    ASSUME HInv,
           \/ UNCHANGED vars
           \/ \E i \in IDs : Cancel(i)
           \/ \E w \in Workers : \/ TakeJob(w) \/ WorkerReturns(w) \/ LockApp(w) \/ FinishJob(w)
                                 \/ PersistStart(w) \/ PersistSuccess(w) \/ PersistOutcome(w)
                                 \/ StoreRecord(w) \/ ListOld(w)
           \/ \E h \in Handlers, a \in Apps : ClearFailedList(h, a)
           \/ CloseShutdown \/ CancelAll \/ ShutdownReturns \/ Reconcile
    PROVE  HistoryStep
<1> USE DEF vars, processVars, callVars, stores, workerVars, deleteVars, RunMoves, WorkerMoves
<1>1. CASE CloseShutdown \/ CancelAll \/ ShutdownReturns \/ Reconcile
  BY <1>1, HistoryUnseen
     DEF CloseShutdown, CancelAll, ShutdownReturns, Reconcile, ReconciledRecords, HistoryStep, Entry
<1>2. CASE ~ (CloseShutdown \/ CancelAll \/ ShutdownReturns \/ Reconcile)
  <2>1. UNCHANGED <<phase, dep, deployments>>
    BY <1>2, StoreKeepsMap DEF Cancel, TakeJob, WorkerReturns, LockApp, FinishJob, LeaveJob,
         PersistStart, StoreRecord, PersistSuccess, PersistOutcome, ListOld, ClearFailedList
  <2> QED
    BY <2>1, HistoryUnseen DEF HistoryStep, Entry
<1> QED
  BY <1>1, <1>2

\* KeepsHistory: under OneByOne the map behaves as a history should,
\* whatever the workers, the prunes, the clear and restarts do meanwhile: a new
\* deployment gets a number above all others and finds all others ended, an ended
\* one stays as it is until it is deleted, and a start finds no deployment under
\* two numbers.
THEOREM HistoryImplemented ==
    ASSUME OneByOne
    PROVE  Spec => KeepsHistory
<1>1. ASSUME HInv, [Next]_vars
      PROVE  HistoryStep
  <2>1. ASSUME NEW w \in Workers, TakeJob(w) \/ WorkerReturns(w) \/ LockApp(w) \/ RunStep(w)
        PROVE  HistoryStep
    BY <1>1, <2>1, HistoryRuns, HistoryForgets, HistoryOthers DEF RunStep, Deleters
  <2>2. ASSUME NEW h \in Handlers, DeleteStep(h) \/ \E a \in Apps : ClearFailedList(h, a)
        PROVE  HistoryStep
    BY <1>1, <2>2, HistoryForgets, HistoryOthers DEF Deleters
  <2> QED
    BY <1>1, <2>1, <2>2, HistoryCalls, HistoryRestarts, HistoryOthers DEF Next
<1>2. HInv /\ [Next]_vars => History!Next \/ UNCHANGED History!historyVars
  BY <1>1 DEF HistoryStep
<1> QED
  BY <1>2, SerialInv, HistoryInit, PTL DEF Spec, KeepsHistory, History!Spec

=============================================================================
