-------------------------- MODULE DeploymentService --------------------------
(***************************************************************************)
(* internal/deployment/service.go: deployments are accepted by calls of    *)
(* Enqueue and EnqueueRollback, wait in a bounded channel and are run by a *)
(* pool of workers, one at a time per application.  Every record is kept   *)
(* twice, in the map `deployments` and as a file, and the process can die  *)
(* between any two steps.                                                  *)
(*                                                                         *)
(* A step ends where the code gives another goroutine, or the disk, a      *)
(* chance to see the state: an assignment to dep.Status is seen by whoever *)
(* has the object, before updateDeployment stores it in the map and then   *)
(* in its file.  Taking a mutex is joined to the next step of its holder,  *)
(* releasing it to the one before.                                         *)
(***************************************************************************)
EXTENDS Naturals, Sequences, FiniteSets, FiniteSetsExt, Deployment

CONSTANTS
    Apps,         \* applications; numbers, for loadAll meets them in the order of their names
    Calls,        \* calls of Enqueue and EnqueueRollback; each names the *Deployment it allocates
    Workers,      \* the worker goroutines
    Handlers,     \* the request handlers that run ClearFailedDeployments
    IDs,          \* deployment numbers; the bound on "%04d", the code has none
    QueueCap,     \* capacity of the channel jobQueue (64)
    MaxKeep,      \* deployments kept by a prune (10)
    MaxInFlight,  \* calls under way at once; the bound on concurrent requests
    MaxBoots,     \* process starts; the bound on crashes and restarts
    Events,       \* what may happen, of AllEvents
    None,         \* no application, call, worker or number (nil, "")
    Discarded     \* the cancel function of a context nobody uses (jobCtx in Enqueue)

\* shutdown: main receives the stop signal.  cancel: somebody calls Cancel (only
\* tests do).  diskFault: a file operation fails whose error the code acts on.
\* saveLost: a save fails whose error it drops.  tornRead: a read of dep.Status
\* that races with its write gives neither value.  earlyClear: a clear meets a
\* run whose failure can be seen and is not yet stored.
AllEvents == {"shutdown", "cancel", "diskFault", "saveLost", "tornRead", "earlyClear"}

ASSUME ConstantsAssumption ==
    /\ Apps \subseteq Nat
    /\ IDs \subseteq Nat \ {0}
    /\ Workers # {}
    /\ {QueueCap, MaxKeep, MaxInFlight, MaxBoots} \subseteq Nat \ {0}
    /\ Events \subseteq AllEvents
    /\ None \notin Apps \cup Calls \cup Workers \cup IDs
    /\ Discarded \notin Workers \cup {None}
    /\ Handlers \cap Workers = {}

VARIABLES
    phase,        \* of the process: down, booting, serving; Shutdown: closing, draining, stopped
    boots,        \* process starts so far
    clock,        \* deployments created so far: time.Now() at creation
    callPC,       \* where each call is
    dep,          \* the *Deployment each call allocated
    deployments,  \* the map, by deployment number alone
    disk,         \* applications/<app>/deployments/<id>/meta.json
    cancelFns,    \* the map of cancel functions: whose context each cancels
    jobQueue,     \* the channel
    appLock,      \* holder of each per-application mutex
    workerPC,     \* where each worker is
    workerJob,    \* the deployment a worker is running
    ctxCancelled, \* whether the context of a worker's job is cancelled
    doomed,       \* numbers a prune or a clear has listed and not yet deleted
    removing,     \* the number whose map entry it deleted and whose directory it has not
    clearApp      \* the application a handler is clearing

processVars == <<phase, boots>>
callVars    == <<clock, callPC>>
deleteVars  == <<doomed, removing, clearApp>>
workerVars  == <<workerPC, workerJob, ctxCancelled>>
stores      == <<dep, deployments, disk, cancelFns, jobQueue>>
vars == <<processVars, callVars, stores, appLock, workerVars, deleteVars>>

Deleters == Workers \cup Handlers

NoDeployment == [app |-> None, id |-> None, status |-> "absent", created |-> 0,
                 rollbackTo |-> None, imageID |-> None]
NoRecord == [call |-> None, rec |-> NoDeployment]

\* An image is named by the call whose deployment built it.
DeploymentRecord ==
    [app: Apps \cup {None}, id: IDs \cup {None}, status: Status \cup {"absent"},
     created: Nat, rollbackTo: Calls \cup {None}, imageID: Calls \cup {None}]

Phases    == {"down", "booting", "serving", "closing", "draining", "stopped"}
Answering == {"serving", "closing", "draining", "stopped"}  \* the HTTP server is up
Closed    == {"closing", "draining", "stopped"}             \* shutdownCh is closed
UnderWay  == {"targeted", "checked", "numbered", "persisted", "inserted",
              "sending", "refusing"}
CallPCs   == UnderWay \cup {"idle", "accepted", "refused", "gone"}
LockedPCs == {"opening", "storing_start", "saving_start", "executing",
              "storing_success", "saving_success", "storing_end", "saving_end",
              "listing", "pruning", "finishing"}
WorkerPCs == LockedPCs \cup {"idle", "locking", "exited"}

TypeOK ==
    /\ phase \in Phases
    /\ boots \in 0..MaxBoots
    /\ clock \in Nat
    /\ callPC \in [Calls -> CallPCs]
    /\ dep \in [Calls -> DeploymentRecord]
    /\ deployments \in [IDs -> Calls \cup {None}]
    /\ disk \in [Apps -> [IDs -> [call: Calls \cup {None}, rec: DeploymentRecord]]]
    /\ cancelFns \in [IDs -> Workers \cup {Discarded, None}]
    /\ jobQueue \in Seq(Calls) /\ Len(jobQueue) <= QueueCap
    /\ appLock \in [Apps -> Workers \cup {None}]
    /\ workerPC \in [Workers -> WorkerPCs]
    /\ workerJob \in [Workers -> Calls \cup {None}]
    /\ ctxCancelled \in [Workers -> BOOLEAN]
    /\ doomed \in [Deleters -> SUBSET IDs]
    /\ removing \in [Deleters -> IDs \cup {None}]
    /\ clearApp \in [Handlers -> Apps \cup {None}]

-----------------------------------------------------------------------------
(* Helpers *)

\* The numbers under which the map holds deployments of an application (ListByApp).
ListByApp(a) == {i \in IDs : deployments[i] # None /\ dep[deployments[i]].app = a}

\* A status is a two-word string, written by a worker without mu: a read that
\* overlaps the write can pair the new bytes with the old length.
MaybeTorn(c) ==
    "tornRead" \in Events /\ \E w \in Workers : workerJob[w] = c /\ workerPC[w] \in {"opening", "executing"}

NoActiveSeen(a) ==
    \A i \in ListByApp(a) :
        ~IsActive(dep[deployments[i]].status) \/ MaybeTorn(deployments[i])

\* Mutant of NextDeploymentID: it counts the deployments.
NextDeploymentIDByCount(a) == 1 + Cardinality(ListByApp(a))

NextDeploymentID(a) == 1 + Max(ListByApp(a) \cup {0})

\* persistDeployment replaces the file as a whole; only Enqueue's and
\* EnqueueRollback's first one look at its error.
PersistDeployment(c) ==
    disk' = [disk EXCEPT ![dep[c].app][dep[c].id] = [call |-> c, rec |-> dep[c]]]
PersistIgnoringError(c) == PersistDeployment(c) \/ ("saveLost" \in Events /\ UNCHANGED disk)

\* An assignment to the status, without mu.
SetStatus(c, status) == dep' = [dep EXCEPT ![c].status = status]

\* A run of the application has failed, and its record is not yet stored.
Unstored(a) == \E w \in Workers : workerPC[w] = "storing_end" /\ dep[workerJob[w]].app = a

\* The older deployments of an application, all but the MaxKeep newest.
OldDeployments(a) ==
    {i \in ListByApp(a) :
        Cardinality({j \in ListByApp(a) :
            dep[deployments[j]].created > dep[deployments[i]].created}) >= MaxKeep}

\* One step of a call, and of a worker, and what none of them touches.
CallMoves(c, from, to) ==
    /\ callPC[c] = from
    /\ callPC' = [callPC EXCEPT ![c] = to]
    /\ UNCHANGED <<processVars, appLock, workerVars, deleteVars>>

WorkerMoves(w, from, to) ==
    /\ workerPC[w] = from
    /\ workerPC' = [workerPC EXCEPT ![w] = to]
    /\ UNCHANGED <<processVars, callVars, clearApp>>

\* One step of a worker that has its application's mutex.
RunMoves(w, from, to) ==
    /\ WorkerMoves(w, from, to)
    /\ UNCHANGED <<cancelFns, jobQueue, appLock, workerJob, ctxCancelled, removing>>

MayCall(c) ==
    /\ phase \in Answering
    /\ Cardinality({d \in Calls : callPC[d] \in UnderWay}) < MaxInFlight

-----------------------------------------------------------------------------
(* Enqueue and EnqueueRollback *)

\* The check of Enqueue, under RLock.  A call that is turned away leaves no
\* trace and may be made again.
EnqueueCheck(c, a) ==
    /\ MayCall(c)
    /\ CallMoves(c, "idle", "checked")
    /\ NoActiveSeen(a)
    /\ dep' = [dep EXCEPT ![c].app = a]
    /\ UNCHANGED <<clock, deployments, disk, cancelFns, jobQueue>>

\* EnqueueRollback reads its target through Get; the target's application is
\* not looked at.
RollbackTarget(c, a, i) ==
    /\ MayCall(c)
    /\ CallMoves(c, "idle", "targeted")
    /\ deployments[i] # None
    /\ dep[deployments[i]].imageID # None
    /\ dep' = [dep EXCEPT ![c].app = a, ![c].rollbackTo = dep[deployments[i]].imageID]
    /\ UNCHANGED <<clock, deployments, disk, cancelFns, jobQueue>>

RollbackCheck(c) ==
    /\ callPC[c] = "targeted"
    /\ IF NoActiveSeen(dep[c].app)
       THEN callPC' = [callPC EXCEPT ![c] = "checked"] /\ UNCHANGED dep
       ELSE /\ callPC' = [callPC EXCEPT ![c] = "idle"]
            /\ dep' = [dep EXCEPT ![c] = NoDeployment]
    /\ UNCHANGED <<processVars, clock, deployments, disk, cancelFns, jobQueue, appLock,
                   workerVars, deleteVars>>

\* nextDeploymentID under RLock, and the record built from it.
NumberDeployment(c) ==
    /\ CallMoves(c, "checked", "numbered")
    /\ NextDeploymentID(dep[c].app) \in IDs
    /\ clock' = clock + 1
    /\ dep' = [dep EXCEPT ![c].id = NextDeploymentID(dep[c].app),
                          ![c].status = "queued", ![c].created = clock']
    /\ UNCHANGED <<deployments, disk, cancelFns, jobQueue>>

PersistNew(c) ==
    /\ CallMoves(c, "numbered", "persisted")
    /\ PersistDeployment(c)
    /\ UNCHANGED <<clock, dep, deployments, cancelFns, jobQueue>>

\* The error of the first persist is returned to the caller, and the record
\* dropped.
PersistNewFails(c) ==
    /\ "diskFault" \in Events
    /\ CallMoves(c, "numbered", "refused")
    /\ dep' = [dep EXCEPT ![c] = NoDeployment]
    /\ UNCHANGED <<clock, deployments, disk, cancelFns, jobQueue>>

InsertNew(c) ==
    /\ CallMoves(c, "persisted", "inserted")
    /\ deployments' = [deployments EXCEPT ![dep[c].id] = c]
    /\ UNCHANGED <<clock, dep, disk, cancelFns, jobQueue>>

\* Enqueue registers a cancel function; the context it cancels is dropped.
RegisterCancel(c) ==
    /\ dep[c].rollbackTo = None
    /\ CallMoves(c, "inserted", "sending")
    /\ cancelFns' = [cancelFns EXCEPT ![dep[c].id] = Discarded]
    /\ UNCHANGED <<clock, dep, deployments, disk, jobQueue>>

\* EnqueueRollback persists a second time, inside updateDeployment.
ResaveRollback(c) ==
    /\ dep[c].rollbackTo # None
    /\ CallMoves(c, "inserted", "sending")
    /\ PersistIgnoringError(c)
    /\ UNCHANGED <<clock, dep, deployments, cancelFns, jobQueue>>

\* Mutant of SendJob: the channel's capacity is not respected.
SendJobUnbounded(c) ==
    /\ CallMoves(c, "sending", "accepted")
    /\ jobQueue' = Append(jobQueue, c)
    /\ UNCHANGED <<clock, dep, deployments, disk, cancelFns>>

\* A send: the select's first case in Enqueue, the plain, waiting send of
\* EnqueueRollback.
SendJob(c) ==
    /\ CallMoves(c, "sending", "accepted")
    /\ Len(jobQueue) < QueueCap
    /\ jobQueue' = Append(jobQueue, c)
    /\ UNCHANGED <<clock, dep, deployments, disk, cancelFns>>

\* Mutant of QueueFull: the call returns success with its job not sent.
QueueFullDropsJob(c) ==
    /\ dep[c].rollbackTo = None
    /\ CallMoves(c, "sending", "accepted")
    /\ Len(jobQueue) >= QueueCap
    /\ UNCHANGED <<clock, stores>>

\* The select's default case: Enqueue does not wait, and marks its record
\* failed.  Its entry in cancelFns stays.
QueueFull(c) ==
    /\ dep[c].rollbackTo = None
    /\ CallMoves(c, "sending", "refusing")
    /\ Len(jobQueue) >= QueueCap
    /\ dep' = [dep EXCEPT ![c].status = "failed"]
    /\ UNCHANGED <<clock, deployments, disk, cancelFns, jobQueue>>

PersistRefused(c) ==
    /\ CallMoves(c, "refusing", "refused")
    /\ PersistIgnoringError(c)
    /\ UNCHANGED <<clock, dep, deployments, cancelFns, jobQueue>>

CallStep(c) ==
    \/ RollbackCheck(c)
    \/ NumberDeployment(c)
    \/ PersistNew(c)
    \/ PersistNewFails(c)
    \/ InsertNew(c)
    \/ RegisterCancel(c)
    \/ ResaveRollback(c)
    \/ SendJob(c)
    \/ QueueFull(c)
    \/ PersistRefused(c)

\* Cancel finds a function by deployment number and calls it.
Cancel(i) ==
    /\ "cancel" \in Events
    /\ phase \in Answering
    /\ cancelFns[i] \in Workers
    /\ ctxCancelled' = [ctxCancelled EXCEPT ![cancelFns[i]] = TRUE]
    /\ UNCHANGED <<processVars, callVars, stores, appLock, workerPC, workerJob, deleteVars>>

-----------------------------------------------------------------------------
(* worker and runJob *)

\* Mutant of TakeJob: the job stays in the queue.
TakeJobPeek(w) ==
    /\ WorkerMoves(w, "idle", "locking")
    /\ jobQueue # <<>>
    /\ workerJob' = [workerJob EXCEPT ![w] = Head(jobQueue)]
    /\ UNCHANGED <<stores, appLock, ctxCancelled, doomed, removing>>

\* Both cases of a worker's select may be ready: then it picks either.
TakeJob(w) ==
    /\ WorkerMoves(w, "idle", "locking")
    /\ jobQueue # <<>>
    /\ workerJob' = [workerJob EXCEPT ![w] = Head(jobQueue)]
    /\ jobQueue' = Tail(jobQueue)
    /\ UNCHANGED <<dep, deployments, disk, cancelFns, appLock, ctxCancelled, doomed,
                   removing>>

WorkerReturns(w) ==
    /\ phase \in Closed
    /\ WorkerMoves(w, "idle", "exited")
    /\ UNCHANGED <<stores, appLock, workerJob, ctxCancelled, doomed, removing>>

\* Mutant of LockApp: the worker does not wait for the mutex.
LockAppNoWait(w) ==
    LET c == workerJob[w] IN
    /\ WorkerMoves(w, "locking", "opening")
    /\ appLock' = [appLock EXCEPT ![dep[c].app] = w]
    /\ ctxCancelled' = [ctxCancelled EXCEPT ![w] = FALSE]
    /\ cancelFns' = [cancelFns EXCEPT ![dep[c].id] = w]
    /\ UNCHANGED <<dep, deployments, disk, jobQueue, workerJob, doomed, removing>>

\* Take the application's mutex, make a context, register its cancel function.
LockApp(w) ==
    LET c == workerJob[w] IN
    /\ WorkerMoves(w, "locking", "opening")
    /\ appLock[dep[c].app] = None
    /\ appLock' = [appLock EXCEPT ![dep[c].app] = w]
    /\ ctxCancelled' = [ctxCancelled EXCEPT ![w] = FALSE]
    /\ cancelFns' = [cancelFns EXCEPT ![dep[c].id] = w]
    /\ UNCHANGED <<dep, deployments, disk, jobQueue, workerJob, doomed, removing>>

StartJob(w) ==
    /\ RunMoves(w, "opening", "storing_start")
    /\ SetStatus(workerJob[w], "preparing")
    /\ UNCHANGED <<deployments, disk, doomed>>

OpenLogFails(w) ==
    /\ "diskFault" \in Events
    /\ RunMoves(w, "opening", "storing_end")
    /\ SetStatus(workerJob[w], "failed")
    /\ UNCHANGED <<deployments, disk, doomed>>

\* updateDeployment: the map, whatever it holds by now under this number; then
\* the file (PersistStart, PersistSuccess, PersistOutcome).
AfterStoring == [storing_start |-> "saving_start", storing_success |-> "saving_success",
                 storing_end |-> "saving_end"]

StoreRecord(w) ==
    LET c == workerJob[w] IN
    /\ workerPC[w] \in DOMAIN AfterStoring
    /\ RunMoves(w, workerPC[w], AfterStoring[workerPC[w]])
    /\ deployments' = [deployments EXCEPT ![dep[c].id] = c]
    /\ UNCHANGED <<dep, disk, doomed>>

PersistStart(w) ==
    /\ RunMoves(w, "saving_start", "executing")
    /\ PersistIgnoringError(workerJob[w])
    /\ UNCHANGED <<dep, deployments, doomed>>

\* The stage Execute enters after the one a status names.
NextStage == [preparing |-> "building", building |-> "starting",
              starting |-> "health_check", health_check |-> "routing"]

\* Execute, by what it does to the record: it reports each stage through
\* Transition, and at the end of the building stage it has an image.
ExecuteStage(w) ==
    LET c == workerJob[w]
        from == dep[c].status IN
    /\ workerPC[w] = "executing"
    /\ dep[c].rollbackTo = None
    /\ from \in DOMAIN NextStage
    /\ dep' = [dep EXCEPT ![c].status = Transition(from, NextStage[from]),
                          ![c].imageID = IF from = "building" THEN c ELSE @]
    /\ UNCHANGED <<processVars, callVars, deployments, disk, cancelFns, jobQueue,
                   appLock, workerVars, deleteVars>>

\* A rollback takes the image it is given and never enters the building stage:
\* Transition refuses the stages that follow, and the status stays.
ExecuteRollbackImage(w) ==
    LET c == workerJob[w] IN
    /\ workerPC[w] = "executing"
    /\ dep[c].rollbackTo # None
    /\ dep[c].imageID = None
    /\ dep' = [dep EXCEPT ![c].imageID = dep[c].rollbackTo]
    /\ UNCHANGED <<processVars, callVars, deployments, disk, cancelFns, jobQueue,
                   appLock, workerVars, deleteVars>>

\* Execute calls Succeed last; then runJob calls updateDeployment.
ExecuteSucceeds(w) ==
    LET c == workerJob[w] IN
    /\ RunMoves(w, "executing", "storing_success")
    /\ dep[c].status = "routing" \/ (dep[c].rollbackTo # None /\ dep[c].imageID # None)
    /\ SetStatus(c, "success")
    /\ UNCHANGED <<deployments, disk, doomed>>

\* Mutant of ExecuteFails: runJob does not return after the error.
ExecuteFailsGoesOn(w) ==
    /\ workerPC[w] = "executing"
    /\ SetStatus(workerJob[w], IF ctxCancelled[w] THEN "cancelled" ELSE "failed")
    /\ UNCHANGED <<processVars, callVars, deployments, disk, cancelFns, jobQueue,
                   appLock, workerVars, deleteVars>>

\* An error of Execute is a cancellation when the context is done, whatever
\* the error was.  A cancelled context does not oblige Execute to fail.
ExecuteFails(w) ==
    /\ RunMoves(w, "executing", "storing_end")
    /\ SetStatus(workerJob[w], IF ctxCancelled[w] THEN "cancelled" ELSE "failed")
    /\ UNCHANGED <<deployments, disk, doomed>>

PersistSuccess(w) ==
    /\ RunMoves(w, "saving_success", "listing")
    /\ PersistIgnoringError(workerJob[w])
    /\ UNCHANGED <<dep, deployments, doomed>>

\* PruneOldDeployments works on a copy of the list.
ListOld(w) ==
    /\ RunMoves(w, "listing", "pruning")
    /\ doomed' = [doomed EXCEPT ![w] = OldDeployments(dep[workerJob[w]].app)]
    /\ UNCHANGED <<dep, deployments, disk>>

\* Mutant of PersistOutcome: the failure is not saved.
PersistOutcomeSkipped(w) ==
    /\ RunMoves(w, "saving_end", "finishing")
    /\ UNCHANGED <<dep, deployments, disk, doomed>>

\* A deployment that did not succeed is saved and not followed by a prune.
PersistOutcome(w) ==
    /\ RunMoves(w, "saving_end", "finishing")
    /\ PersistIgnoringError(workerJob[w])
    /\ UNCHANGED <<dep, deployments, doomed>>

\* What FinishJob and its mutants share.
LeaveJob(w) ==
    /\ \/ workerPC[w] = "finishing"
       \/ workerPC[w] = "pruning" /\ doomed[w] = {} /\ removing[w] = None
    /\ workerPC' = [workerPC EXCEPT ![w] = "idle"]
    /\ workerJob' = [workerJob EXCEPT ![w] = None]
    /\ UNCHANGED <<processVars, callVars, dep, deployments, disk, jobQueue, ctxCancelled,
                   deleteVars>>

\* Mutants of FinishJob: a deferred call is forgotten.
FinishJobKeepsCancel(w) ==
    /\ LeaveJob(w)
    /\ appLock' = [appLock EXCEPT ![dep[workerJob[w]].app] = None]
    /\ UNCHANGED cancelFns

FinishJobKeepsLock(w) ==
    /\ LeaveJob(w)
    /\ cancelFns' = [cancelFns EXCEPT ![dep[workerJob[w]].id] = None]
    /\ UNCHANGED appLock

\* The deferred calls of runJob: forget the cancel function, unlock.
FinishJob(w) ==
    /\ LeaveJob(w)
    /\ cancelFns' = [cancelFns EXCEPT ![dep[workerJob[w]].id] = None]
    /\ appLock' = [appLock EXCEPT ![dep[workerJob[w]].app] = None]

-----------------------------------------------------------------------------
(* The deletion loop of PruneOldDeployments and ClearFailedDeployments.  The *)
(* code goes through its list from the newest; any order is allowed here.    *)

\* Mutant of ClearFailedList: it takes whatever did not succeed.
ClearUnsuccessfulList(h, a) ==
    LET failed == {i \in ListByApp(a) : dep[deployments[i]].status # "success"} IN
    /\ phase \in Answering
    /\ doomed[h] = {} /\ removing[h] = None
    /\ failed # {}
    /\ doomed' = [doomed EXCEPT ![h] = failed]
    /\ clearApp' = [clearApp EXCEPT ![h] = a]
    /\ UNCHANGED <<processVars, callVars, stores, appLock, workerVars, removing>>

ClearFailedList(h, a) ==
    LET failed == {i \in ListByApp(a) :
                      dep[deployments[i]].status \in {"failed", "cancelled"}} IN
    /\ phase \in Answering
    /\ Unstored(a) => "earlyClear" \in Events
    /\ doomed[h] = {} /\ removing[h] = None
    /\ failed # {}
    /\ doomed' = [doomed EXCEPT ![h] = failed]
    /\ clearApp' = [clearApp EXCEPT ![h] = a]
    /\ UNCHANGED <<processVars, callVars, stores, appLock, workerVars, removing>>

DeleteEntry(d, i) ==
    /\ i \in doomed[d] /\ removing[d] = None
    /\ doomed' = [doomed EXCEPT ![d] = @ \ {i}]
    /\ removing' = [removing EXCEPT ![d] = i]
    /\ deployments' = [deployments EXCEPT ![i] = None]
    /\ UNCHANGED <<processVars, callVars, dep, disk, cancelFns, jobQueue, appLock,
                   workerVars, clearApp>>

\* RemoveAll of the directory; its error is ignored.
RemoveDirectory(d) ==
    LET a == IF d \in Handlers THEN clearApp[d] ELSE dep[workerJob[d]].app IN
    /\ removing[d] # None
    /\ removing' = [removing EXCEPT ![d] = None]
    /\ \/ disk' = [disk EXCEPT ![a][removing[d]] = NoRecord]
       \/ "saveLost" \in Events /\ UNCHANGED disk
    /\ UNCHANGED <<processVars, callVars, dep, deployments, cancelFns, jobQueue, appLock,
                   workerVars, doomed, clearApp>>

DeleteStep(d) == (\E i \in IDs : DeleteEntry(d, i)) \/ RemoveDirectory(d)

\* What a worker does on its own, once it has its application's mutex.
RunStep(w) ==
    \/ StartJob(w)
    \/ OpenLogFails(w)
    \/ StoreRecord(w)
    \/ PersistStart(w)
    \/ ExecuteStage(w)
    \/ ExecuteRollbackImage(w)
    \/ ExecuteSucceeds(w)
    \/ ExecuteFails(w)
    \/ PersistSuccess(w)
    \/ ListOld(w)
    \/ DeleteStep(w)
    \/ PersistOutcome(w)
    \/ FinishJob(w)

-----------------------------------------------------------------------------
(* Shutdown, the end of the process, and the next start *)

CloseShutdown ==
    /\ "shutdown" \in Events
    /\ phase = "serving"
    /\ phase' = "closing"
    /\ UNCHANGED <<boots, callVars, stores, appLock, workerVars, deleteVars>>

\* Under mu, Shutdown calls every function in cancelFns.
CancelAll ==
    /\ phase = "closing"
    /\ phase' = "draining"
    /\ ctxCancelled' = [w \in Workers |-> ctxCancelled[w] \/ \E i \in IDs : cancelFns[i] = w]
    /\ UNCHANGED <<boots, callVars, stores, appLock, workerPC, workerJob, deleteVars>>

\* The workers have returned, or thirty seconds have passed.
ShutdownReturns ==
    /\ phase = "draining"
    /\ phase' = "stopped"
    /\ UNCHANGED <<boots, callVars, stores, appLock, workerVars, deleteVars>>

\* The process ends: main returns after Shutdown, or it crashes.  Only the
\* files remain.
ProcessEnds ==
    /\ phase # "down"
    /\ phase = "stopped" \/ boots < MaxBoots
    /\ phase' = "down"
    /\ callPC' = [c \in Calls |-> IF callPC[c] = "idle" THEN "idle" ELSE "gone"]
    /\ dep' = [c \in Calls |-> NoDeployment]
    /\ deployments' = [i \in IDs |-> None]
    /\ cancelFns' = [i \in IDs |-> None]
    /\ jobQueue' = <<>>
    /\ appLock' = [a \in Apps |-> None]
    /\ workerPC' = [w \in Workers |-> "idle"]
    /\ workerJob' = [w \in Workers |-> None]
    /\ ctxCancelled' = [w \in Workers |-> FALSE]
    /\ doomed' = [d \in Deleters |-> {}]
    /\ removing' = [d \in Deleters |-> None]
    /\ clearApp' = [h \in Handlers |-> None]
    /\ UNCHANGED <<boots, clock, disk>>

\* loadAll goes through the applications in the order of their names and
\* stores each record under its number: the last application wins.
LastOwner(i, a) ==
    disk[a][i] # NoRecord /\ \A b \in Apps : b > a => disk[b][i] = NoRecord

LoadedFrom(i) ==
    IF \E a \in Apps : LastOwner(i, a)
    THEN disk[CHOOSE a \in Apps : LastOwner(i, a)][i]
    ELSE NoRecord

Boot ==
    /\ phase = "down" /\ boots < MaxBoots
    /\ phase' = "booting"
    /\ boots' = boots + 1
    /\ deployments' = [i \in IDs |-> LoadedFrom(i).call]
    /\ dep' = [c \in Calls |->
                 IF \E i \in IDs : LoadedFrom(i).call = c
                 THEN (CHOOSE r \in {LoadedFrom(i) : i \in IDs} : r.call = c).rec
                 ELSE NoDeployment]
    /\ UNCHANGED <<callVars, disk, cancelFns, jobQueue, appLock, workerVars, deleteVars>>

\* The records after Reconcile: it calls Fail on what ListByApp returned, which
\* are copies, and stores nothing.
ReconciledRecords == dep

\* The end of start-up, then the HTTP server answers.
Reconcile ==
    /\ phase = "booting"
    /\ phase' = "serving"
    /\ dep' = ReconciledRecords
    /\ UNCHANGED <<boots, callVars, deployments, disk, cancelFns, jobQueue, appLock,
                   workerVars, deleteVars>>

-----------------------------------------------------------------------------
Init ==
    /\ phase = "down"
    /\ boots = 0
    /\ clock = 0
    /\ callPC = [c \in Calls |-> "idle"]
    /\ dep = [c \in Calls |-> NoDeployment]
    /\ deployments = [i \in IDs |-> None]
    /\ disk = [a \in Apps |-> [i \in IDs |-> NoRecord]]
    /\ cancelFns = [i \in IDs |-> None]
    /\ jobQueue = <<>>
    /\ appLock = [a \in Apps |-> None]
    /\ workerPC = [w \in Workers |-> "idle"]
    /\ workerJob = [w \in Workers |-> None]
    /\ ctxCancelled = [w \in Workers |-> FALSE]
    /\ doomed = [d \in Deleters |-> {}]
    /\ removing = [d \in Deleters |-> None]
    /\ clearApp = [h \in Handlers |-> None]

Next ==
    \/ \E c \in Calls, a \in Apps :
          EnqueueCheck(c, a) \/ \E i \in IDs : RollbackTarget(c, a, i)
    \/ \E c \in Calls : CallStep(c)
    \/ \E i \in IDs : Cancel(i)
    \/ \E w \in Workers : TakeJob(w) \/ WorkerReturns(w) \/ LockApp(w) \/ RunStep(w)
    \/ \E h \in Handlers : DeleteStep(h) \/ \E a \in Apps : ClearFailedList(h, a)
    \/ CloseShutdown
    \/ CancelAll
    \/ ShutdownReturns
    \/ ProcessEnds
    \/ Boot
    \/ Reconcile

Spec == Init /\ [][Next]_vars

\* A goroutine that can run is run.  That Execute returns is the promise of its
\* timeouts and of the Docker daemon.  A waiting mutex and a waiting send need
\* no more than this: the calls are finitely many, so nobody can be passed over
\* for ever.
Fairness ==
    /\ \A c \in Calls : WF_vars(CallStep(c))
    /\ \A w \in Workers : WF_vars(TakeJob(w) \/ LockApp(w) \/ RunStep(w))
    /\ WF_vars(Boot)
    /\ WF_vars(Reconcile)

FairSpec == Spec /\ Fairness

-----------------------------------------------------------------------------
(* Properties *)

\* At most one worker at a time is inside runJob's locked part for one
\* application ("only one deployment runs for this application at a time").
OneRunPerApp ==
    \A v, w \in Workers :
        /\ v # w
        /\ workerPC[v] \in LockedPCs /\ workerPC[w] \in LockedPCs
        => dep[workerJob[v]].app # dep[workerJob[w]].app

InQueue(c)   == \E n \in 1..Len(jobQueue) : jobQueue[n] = c
Held(c)      == \E w \in Workers : workerJob[w] = c
BeingRun(c)  == \E w \in Workers : workerJob[w] = c /\ workerPC[w] \in LockedPCs

\* The stage of DeploymentEngine a deployment is in.
EngineStage(c) ==
    CASE callPC[c] = "gone" -> "lost"
      [] callPC[c] = "accepted" -> IF BeingRun(c) THEN "running"
                                   ELSE IF InQueue(c) \/ Held(c) THEN "waiting"
                                   ELSE "finished"
      [] OTHER -> "none"

Engine == INSTANCE DeploymentEngine WITH
    stage <- [c \in Calls |-> EngineStage(c)],
    owner <- [c \in Calls |-> IF callPC[c] = "accepted" THEN dep[c].app ELSE None]

\* The service keeps the promises of DeploymentEngine: SendJob accepts, LockApp
\* begins, FinishJob finishes, ProcessEnds loses, all else is invisible.
ImplementsEngine == Engine!Spec

\* How often a deployment is in the channel or in a worker's hands.
Places(c) == Cardinality({n \in 1..Len(jobQueue) : jobQueue[n] = c})
             + Cardinality({w \in Workers : workerJob[w] = c})

\* A deployment whose call returned success is in exactly one place, channel or
\* worker, until it has finished; it is never in two; and one whose call was
\* turned away, or has not returned, is in none.
JobConservation ==
    \A c \in Calls :
        /\ Places(c) <= 1
        /\ Places(c) = 1 => callPC[c] = "accepted"
        /\ callPC[c] = "accepted" /\ ~IsTerminal(dep[c].status) => Places(c) = 1

\* A cancel function found under a number is the one of a worker that is still
\* running a deployment of that number: cancelling cannot reach the job a worker
\* took up after it.
CancelHitsItsJob ==
    \A i \in IDs, w \in Workers :
        cancelFns[i] = w => workerPC[w] \in LockedPCs /\ dep[workerJob[w]].id = i

\* No call and no worker is between a change of the record and its save.
Settled(c) ==
    /\ phase # "down"
    /\ callPC[c] \in {"accepted", "refused"} /\ dep[c].id # None
    /\ \A w \in Workers :
          workerJob[w] = c => workerPC[w] \in {"locking", "pruning", "finishing"}

\* When a deployment's record is at rest, the file that holds it tells the same
\* as memory: a crash then loses nothing of it.
SettledIsSaved ==
    \A c \in Calls :
        Settled(c) /\ disk[dep[c].app][dep[c].id].call = c =>
            disk[dep[c].app][dep[c].id].rec = dep[c]

\* While the process lives a status moves along the edges of validTransition,
\* or by one of the three assignments that go around it: a run that is
\* cancelled, a rollback that succeeds from preparing.  None leaves a final
\* status.
StatusFollowsGraph ==
    [][phase # "down" /\ phase' # "down" =>
         \A c \in Calls :
            LET from == dep[c].status  to == dep'[c].status IN
            from \in Status /\ to \in Status /\ from # to =>
              \/ ValidTransition(from, to)
              \/ to = "cancelled" /\ IsActive(from) /\ from # "queued"
              \/ to = "success" /\ from = "preparing" /\ dep[c].rollbackTo # None]_vars

\* Of the deployments of one application that were accepted since the process
\* started, at most one has not finished ("one active deployment per
\* application at a time").
OneActivePerApp ==
    \A c, d \in Calls :
        /\ c # d
        /\ callPC[c] = "accepted" /\ ~IsTerminal(dep[c].status)
        /\ callPC[d] = "accepted" /\ ~IsTerminal(dep[d].status)
        => dep[c].app # dep[d].app

\* Only the record of a finished deployment is deleted from the map, by a
\* prune or by a clear.
DeletesOnlyFinished ==
    [][phase' # "down" =>
         \A i \in IDs :
            deployments[i] # None /\ deployments'[i] = None =>
                IsTerminal(dep[deployments[i]].status)]_vars

\* An entry of the map leaves it by a deletion only: no deployment takes the
\* place of another ("ListByApp returns all deployments for a given
\* application").
HistoryKept ==
    [][phase' # "down" =>
         \A i \in IDs :
            deployments[i] # None => deployments'[i] \in {deployments[i], None}]_vars

\* What DeploymentHistory says of the entries of the map.
History == INSTANCE DeploymentHistory WITH
    up <- phase # "down",
    owner <- deployments,
    over <- {i \in IDs : deployments[i] # None /\ IsTerminal(dep[deployments[i]].status)}

\* The map keeps the promises of DeploymentHistory: InsertNew creates, the end of
\* a run ends, DeleteEntry forgets, ProcessEnds loses, Boot loads what the files
\* hold, and all else is invisible.
KeepsHistory == History!Spec

\* Every call returns, the waiting send of a rollback included, and what it
\* accepted is run to an end, while the process is serving.
CallsFinish ==
    \A c \in Calls :
        callPC[c] \in UnderWay ~>
            \/ callPC[c] \in {"idle", "refused"}
            \/ callPC[c] = "accepted" /\ IsTerminal(dep[c].status)
            \/ phase # "serving"

\* Once start-up is over, no deployment that an earlier process left behind
\* counts as active ("Incomplete deployments ... are marked FAILED").
InterruptedAreFailed ==
    phase = "serving" =>
        \A i \in IDs :
            deployments[i] # None /\ callPC[deployments[i]] = "gone" =>
                ~IsActive(dep[deployments[i]].status)

=============================================================================
