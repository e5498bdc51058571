------------------------ MODULE ApplicationLifeProofs ------------------------
(***************************************************************************)
(* Proofs about ApplicationLife, for any number of deployments, requests,  *)
(* archives and restarts, and any faults: the type invariant, NoDowntime   *)
(* and MemoryIsSaved.                                                      *)
(***************************************************************************)
EXTENDS ApplicationLife, TLAPS

-----------------------------------------------------------------------------
(* The type invariant *)

\* Where a request keeps a copy of the record, and where the copy's container.
Holding == {"editing", "appending", "relisting", "saved"}
Operating == {"starting", "stopping", "restarting", "startingAgain", "toRunning", "toStopped"}

\* A run has a deployment and a copy of a record; a request keeps what its step
\* uses; while the process is not up there is neither.
RunOK ==
    run.at # "idle" => run.dep \in Deployments /\ run.copy \in Record
RequestOK ==
    \A r \in Requests :
        /\ request[r].at \in Holding => request[r].kept \in Record
        /\ request[r].at \in Operating => request[r].kept \in Deployments
PhaseOK ==
    phase # "up" => run.at = "idle" /\ \A r \in Requests : ~Serving(r)

TInv == TypeOK /\ RunOK /\ RequestOK /\ PhaseOK

\* New records are records.
LEMMA NewRecordsAreRecords == NewRecords \subseteq Record
  BY DEF NewRecords, NewRecord, Record

\* The invariant holds initially.
LEMMA TypeInit == Init => TInv
  <1> SUFFICES ASSUME Init PROVE TInv
      OBVIOUS
  <1>1. app \in Record /\ file \in Record
      BY NewRecordsAreRecords DEF Init
  <1>2. TypeOK
      <2>1. run \in [at: RunPCs, dep: Deployments \cup {None}, copy: Record \cup {None}]
          BY DEF Init, NoRun, RunPCs
      <2>2. request \in [Requests -> [at: RequestPCs, kept: Kept]]
          BY DEF Init, NoRequest, RequestPCs, Kept
      <2>3. ctr \in [Deployments -> ContainerStates]
          BY DEF Init, ContainerStates
      <2>4. outcome \in [Deployments -> {"none", "running", "success", "failed"}]
          BY DEF Init
      <2>5. mishaps \subseteq Mishaps
          BY DEF Init
      <2>6. /\ table \in BOOLEAN /\ unsaved \in BOOLEAN /\ wanted \in BOOLEAN
            /\ phase \in {"up", "down", "loaded", "synced"}
          BY DEF Init
      <2>7. boots \in 0..MaxBoots
          BY LifeAssumption DEF Init
      <2> QED
          BY <1>1, <2>1, <2>2, <2>3, <2>4, <2>5, <2>6, <2>7 DEF TypeOK
  <1>3. RunOK /\ RequestOK /\ PhaseOK
      BY DEF Init, RunOK, RequestOK, PhaseOK, NoRun, NoRequest, Serving, Holding, Operating
  <1> QED
      BY <1>2, <1>3 DEF TInv

\* Update leaves records, in memory and on disk.
LEMMA UpdateKeepsRecords ==
    ASSUME TypeOK, NEW record \in Record, NEW saved, Update(record, saved)
    PROVE  {app', file'} \subseteq Record \cup {None} /\ unsaved' \in BOOLEAN
  <1>1. CASE Updates(record, saved)
      <2>1. app' = record /\ file' = record /\ unsaved' = FALSE
          BY <1>1 DEF Update
      <2> QED
          BY <2>1
  <1>2. CASE ~Updates(record, saved)
      <2>1. app' = app /\ file' = file /\ unsaved' \in {unsaved, TRUE}
          BY <1>2 DEF Update
      <2> QED
          BY <2>1 DEF TypeOK
  <1> QED
      BY <1>1, <1>2

\* The steps of a run preserve the invariant.
LEMMA TypeExecute == TInv /\ DeployStep => TInv'
  <1> SUFFICES ASSUME TInv, DeployStep PROVE TInv'
      OBVIOUS
  <1> USE DEF TInv, TypeOK, RunOK, RequestOK, PhaseOK, Serving
  <1>f. UNCHANGED <<request, phase, boots>>
      BY DEF DeployStep
  <1>1. CASE ObtainImage \/ CreateNew \/ StartNew \/ Healthy \/ Unhealthy
      BY <1>1, <1>f DEF ObtainImage, CreateNew, StartNew, Healthy, Unhealthy, At, GoTo, RunPCs,
         CreateContainer, StartContainer, ContainerStates, serviceVars, historyVars
  <1>2. CASE FailsEarly
      BY <1>2, <1>f DEF FailsEarly, End, NoRun, RunPCs, serviceVars, historyVars
  <1>c. CASE CreateFails
      BY <1>c, <1>f DEF CreateFails, CutOff, CreateContainer, Mishap, Mishaps, ContainerStates, End, NoRun, RunPCs, serviceVars
  <1>s. CASE StartFails
      BY <1>s, <1>f DEF StartFails, At, GoTo, CutOff, StartContainer, Mishap, Mishaps, ContainerStates, RunPCs, serviceVars
  <1>3. CASE RouteNew \/ RouteFails
      <2>1. table' \in BOOLEAN
          BY <1>3 DEF RouteNew, RouteFails, Upserted, Routed
      <2> QED
          BY <1>3, <1>f, <2>1 DEF RouteNew, RouteFails, At, GoTo, RunPCs, serviceVars, historyVars
  <1>4. CASE StopNew \/ StopOld
      BY <1>4, <1>f DEF StopNew, StopOld, At, GoTo, Attempt, Mishap, Mishaps, StopContainer, Exists, RunPCs, ContainerStates, serviceVars
  <1>5. CASE RemoveNew \/ RemoveOld
      BY <1>5, <1>f DEF RemoveNew, RemoveOld, At, End, NoRun, Attempt, Mishap, Mishaps, RemoveContainer, RunPCs, ContainerStates, serviceVars
  <1>6. CASE SaveApp
      <2>1. Switched \in Record
          BY <1>6 DEF SaveApp, At, Switched, Record
      <2>2. {app', file'} \subseteq Record \cup {None} /\ unsaved' \in BOOLEAN
          <3>1. PICK saved \in Saves : Update(Switched, saved)
              BY <1>6 DEF SaveApp
          <3> QED
              BY <2>1, <3>1, UpdateKeepsRecords DEF TInv
      <2>3. mishaps' \subseteq Mishaps
          BY <1>6 DEF SaveApp, Mishap, Mishaps
      <2> QED
          BY <1>6, <1>f, <2>2, <2>3 DEF SaveApp, At, GoTo, End, NoRun, RunPCs
  <1> QED
      BY <1>1, <1>2, <1>c, <1>s, <1>3, <1>4, <1>5, <1>6 DEF DeployStep, ExecuteStep

\* So does UpdateStatus.
LEMMA StatusKeepsRecords ==
    ASSUME TypeOK, NEW status \in {"running", "stopped"},
           NEW container \in Deployments \cup {None}, SetsStatus(status, container)
    PROVE  /\ {app', file'} \subseteq Record \cup {None} /\ unsaved' \in BOOLEAN
           /\ app # None => app' \in Record
           /\ file # None => file' # None
           /\ mishaps' \subseteq Mishaps
  <1>1. mishaps' \subseteq Mishaps
      BY DEF SetsStatus, Mishap, Mishaps, TypeOK
  <1>2. PICK saved \in Saves : UpdateStatus(status, container, saved)
      BY DEF SetsStatus
  <1>3. CASE app = None
      BY <1>1, <1>2, <1>3 DEF UpdateStatus, serviceVars, TypeOK
  <1>4. CASE app # None
      <2>1. app \in Record
          BY <1>4 DEF TypeOK
      <2>2. app' \in Record
          BY <1>2, <1>4, <2>1 DEF UpdateStatus, Record
      <2>3. file' \in {file, app'} /\ unsaved' \in BOOLEAN
          BY <1>2, <1>4 DEF UpdateStatus
      <2> QED
          BY <1>1, <2>2, <2>3, ApplicationAssumption DEF TypeOK
  <1> QED
      BY <1>3, <1>4

\* A request keeps what its next step uses.
LEMMA TypeGets ==
    ASSUME TInv, NEW r \in Requests, NEW pc \in RequestPCs, NEW kept \in Kept,
           pc \in Holding => kept \in Record, pc \in Operating => kept \in Deployments,
           Gets(r, pc, kept)
    PROVE  request' \in [Requests -> [at: RequestPCs, kept: Kept]] /\ RequestOK'
  BY DEF Gets, TInv, TypeOK, RequestOK

\* A request that has ended keeps nothing.
LEMMA TypeEnds ==
    ASSUME TInv, NEW r \in Requests, Ends(r)
    PROVE  request' \in [Requests -> [at: RequestPCs, kept: Kept]] /\ RequestOK'
  <1>1. Gets(r, "done", None)
      BY DEF Ends, Done, Gets
  <1> QED
      BY <1>1, TypeGets DEF RequestPCs, Kept, Holding, Operating

\* The first step of a request that reads a record preserves the invariant.
LEMMA TypeReads ==
    ASSUME TInv, NEW r \in Requests, NEW pc \in RequestPCs, NEW kept \in Kept,
           pc \in Holding => kept \in Record, pc \in Operating => kept \in Deployments,
           Begins(r), Gets(r, pc, kept), Meets,
           UNCHANGED <<serviceVars, ctr, table, runVars, wanted, phase, boots>>
    PROVE  TInv'
  <1>1. mishaps' \subseteq Mishaps
      BY DEF Meets, TInv, TypeOK, Mishaps
  <1>2. request' \in [Requests -> [at: RequestPCs, kept: Kept]] /\ RequestOK'
      BY TypeGets
  <1>3. TypeOK'
      BY <1>1, <1>2 DEF TInv, TypeOK, serviceVars, runVars
  <1>4. RunOK' /\ PhaseOK'
      BY DEF TInv, RunOK, PhaseOK, Begins, runVars
  <1> QED
      BY <1>2, <1>3, <1>4 DEF TInv

\* The steps of a request preserve the invariant.
LEMMA TypeRequest ==
    ASSUME TInv, NEW r \in Requests, RequestStep(r)
    PROVE  TInv'
  <1>p. TypeOK /\ RunOK /\ RequestOK /\ PhaseOK
      BY DEF TInv
  <1>a. app # None => app \in Record
      BY <1>p DEF TypeOK
  <1>u. phase = "up"
      BY <1>p DEF RequestStep, PhaseOK, Serving, Begins, Refused, EditSettings, ChangeShared, SaveSettings, AddDomain,
         RemoveDomain, SaveDomains, DecideRoute, PushDomains, RemoveRoute, Operate, DockerStart, DockerStop,
         StartRefused, StopRefused, DockerRestart, RestartFails, SaveStatus, DeleteApplication, CreateApplication,
         SystemPrune, ImportBackup, ReloadApplications, ReloadFails
  <1>v. UNCHANGED <<run, outcome, phase, boots>>
      BY DEF RequestStep, Refused, EditSettings, ChangeShared, SaveSettings, AddDomain,
         RemoveDomain, SaveDomains, DecideRoute, PushDomains, RemoveRoute, Operate, DockerStart, DockerStop,
         StartRefused, StopRefused, DockerRestart, RestartFails, SaveStatus, DeleteApplication, CreateApplication,
         SystemPrune, ImportBackup, ReloadApplications, ReloadFails, runVars
  \* What is left to show of each step that is not a first one.
  <1>t. ASSUME {app', file'} \subseteq Record \cup {None}, unsaved' \in BOOLEAN,
               ctr' \in [Deployments -> ContainerStates], table' \in BOOLEAN, wanted' \in BOOLEAN,
               mishaps' \subseteq Mishaps,
               request' \in [Requests -> [at: RequestPCs, kept: Kept]], RequestOK'
        PROVE  TInv'
      <2>1. TypeOK'
          BY <1>p, <1>v, <1>t DEF TypeOK
      <2> QED
          BY <1>p, <1>u, <1>v, <1>t, <2>1 DEF TInv, RunOK, PhaseOK
  <1>e. Ends(r) => request' \in [Requests -> [at: RequestPCs, kept: Kept]] /\ RequestOK'
      BY TypeEnds
  <1>1. CASE Refused(r) \/ ReloadFails(r)
      <2>1. UNCHANGED <<app, file, unsaved, ctr, table, wanted>> /\ mishaps' \subseteq mishaps \cup {"apart"}
          BY <1>1 DEF Refused, ReloadFails, Mishap, serviceVars, historyVars
      <2>2. Ends(r)
          BY <1>1 DEF Refused, ReloadFails
      <2>3. mishaps' \subseteq Mishaps
          BY <1>p, <2>1 DEF TypeOK, Mishaps
      <2> QED
          BY <1>p, <1>e, <1>t, <2>1, <2>2, <2>3 DEF TypeOK
  <1>2. CASE EditSettings(r)
      <2>1. PICK kind \in {"web", "worker"} : Gets(r, "editing", [app EXCEPT !.kind = kind])
          BY <1>2 DEF EditSettings
      <2>2. [app EXCEPT !.kind = kind] \in Record
          BY <1>2, <1>a DEF EditSettings, Record
      <2> QED
          BY <1>2, <2>1, <2>2, TypeReads DEF EditSettings, RequestPCs, Kept, Operating
  <1>3. CASE AddDomain(r)
      <2>1. PICK pc \in {"appending", "relisting"} : Gets(r, pc, [app EXCEPT !.domains = TRUE])
          BY <1>3 DEF AddDomain
      <2>2. [app EXCEPT !.domains = TRUE] \in Record
          BY <1>3, <1>a DEF AddDomain, Record
      <2> QED
          BY <1>3, <2>1, <2>2, TypeReads DEF AddDomain, RequestPCs, Kept, Operating
  <1>4. CASE RemoveDomain(r)
      <2>0. app \in Record
          BY <1>4, <1>a DEF RemoveDomain
      <2>1. PICK left \in BOOLEAN : Gets(r, "relisting", [app EXCEPT !.domains = left])
          BY <1>4, <2>0 DEF RemoveDomain, Record
      <2>2. [app EXCEPT !.domains = left] \in Record
          BY <2>0 DEF Record
      <2> QED
          BY <1>4, <2>1, <2>2, TypeReads DEF RemoveDomain, RequestPCs, Kept, Operating
  <1>5. CASE Operate(r)
      <2>1. PICK pc \in {"starting", "stopping", "restarting"} : Gets(r, pc, app.container)
          BY <1>5 DEF Operate
      <2>2. app.container \in Deployments
          BY <1>5, <1>a DEF Operate, Record
      <2> QED
          BY <1>5, <2>1, <2>2, TypeReads DEF Operate, RequestPCs, Kept, Holding
  <1>c. CASE ChangeShared(r)
      BY <1>c, <1>p, <1>t DEF ChangeShared, ChangeInPlace, TypeOK, RequestOK, historyVars
  <1>6. CASE SaveSettings(r) \/ SaveDomains(r)
      <2>1. request[r].kept \in Record
          BY <1>6, <1>p DEF SaveSettings, SaveDomains, RequestOK, Holding
      <2>2. {app', file'} \subseteq Record \cup {None} /\ unsaved' \in BOOLEAN
          BY <1>6, <1>p, <2>1, UpdateKeepsRecords DEF SaveSettings, SaveDomains, UpdateFor
      <2>3. Proceeds(r, "saved") => request' \in [Requests -> [at: RequestPCs, kept: Kept]] /\ RequestOK'
          BY <2>1, TypeGets DEF Proceeds, RequestPCs, Kept, Operating
      <2>4. mishaps' \subseteq Mishaps
          BY <1>6, <1>p DEF SaveSettings, SaveDomains, UpdateFor, Mishap, Mishaps, TypeOK
      <2> QED
          BY <1>6, <1>p, <1>e, <1>t, <2>2, <2>3, <2>4 DEF SaveSettings, SaveDomains, TypeOK
  <1>d. CASE DecideRoute(r)
      <2>1. \A pc \in {"removing", "upserting"} :
              Gets(r, pc, None) => request' \in [Requests -> [at: RequestPCs, kept: Kept]] /\ RequestOK'
          BY TypeGets DEF RequestPCs, Kept, Holding, Operating
      <2> QED
          BY <1>d, <1>p, <1>e, <1>t, <2>1 DEF DecideRoute, TypeOK, serviceVars, historyVars
  <1>7. CASE PushDomains(r) \/ RemoveRoute(r)
      <2>1. table' \in BOOLEAN
          BY <1>7, <1>p DEF PushDomains, RemoveRoute, Upserted, TypeOK
      <2> QED
          BY <1>7, <1>p, <1>e, <1>t, <2>1 DEF PushDomains, RemoveRoute, TypeOK, serviceVars, historyVars
  <1>8. CASE DockerStart(r) \/ DockerStop(r) \/ DockerRestart(r)
      <2>1. ctr' \in [Deployments -> ContainerStates]
          BY <1>8, <1>p DEF DockerStart, DockerStop, DockerRestart, StartContainer, StopContainer, TypeOK, ContainerStates
      <2>2. wanted' \in BOOLEAN
          BY <1>8, <1>p DEF DockerStart, DockerStop, DockerRestart, TypeOK
      <2>3. request[r].kept \in Deployments
          BY <1>8, <1>p DEF DockerStart, DockerStop, DockerRestart, RequestOK, Operating
      <2>4. \A pc \in {"toRunning", "toStopped", "startingAgain"} :
              Proceeds(r, pc) => request' \in [Requests -> [at: RequestPCs, kept: Kept]] /\ RequestOK'
          BY <2>3, TypeGets DEF Proceeds, RequestPCs, Kept, Holding
      <2>5. request' \in [Requests -> [at: RequestPCs, kept: Kept]] /\ RequestOK'
          BY <1>8, <2>4 DEF DockerStart, DockerStop, DockerRestart
      <2> QED
          BY <1>8, <1>p, <1>t, <2>1, <2>2, <2>5 DEF DockerStart, DockerStop, DockerRestart, TypeOK, serviceVars
  <1>9. CASE StartRefused(r) \/ StopRefused(r) \/ RestartFails(r)
      <2>1. ctr' \in [Deployments -> ContainerStates]
          BY <1>9, <1>p DEF StartRefused, StopRefused, RestartFails, CutOff, StartContainer, StopContainer, TypeOK, ContainerStates
      <2>2. mishaps' \subseteq Mishaps
          BY <1>9, <1>p DEF StartRefused, StopRefused, RestartFails, CutOff, Mishap, Mishaps, TypeOK
      <2>3. wanted' \in BOOLEAN
          BY <1>9, <1>p DEF StartRefused, StopRefused, RestartFails, TypeOK
      <2> QED
          BY <1>9, <1>p, <1>e, <1>t, <2>1, <2>2, <2>3 DEF StartRefused, StopRefused, RestartFails, TypeOK, serviceVars
  <1>10. CASE SaveStatus(r)
      <2>1. request[r].kept \in Deployments
          BY <1>10, <1>p DEF SaveStatus, RequestOK, Operating
      <2>2. /\ {app', file'} \subseteq Record \cup {None} /\ unsaved' \in BOOLEAN
            /\ app # None => app' \in Record
            /\ mishaps' \subseteq Mishaps
          BY <1>10, <1>p, <2>1, StatusKeepsRecords DEF SaveStatus
      <2>3. PICK sharing \in Sharing :
               request' = [q \in Requests |->
                             IF q = r THEN Done
                             ELSE IF q \in sharing THEN [at |-> "saved", kept |-> app']
                             ELSE request[q]]
          BY <1>10 DEF SaveStatus
      <2>4. \A q \in sharing : app # None
          BY <1>p, ApplicationAssumption DEF Sharing, RequestOK, Holding
      <2>5. request' \in [Requests -> [at: RequestPCs, kept: Kept]]
          BY <1>p, <2>2, <2>3 DEF Done, Kept, RequestPCs, TypeOK
      <2>6. RequestOK'
          BY <1>p, <2>2, <2>3, <2>4 DEF Done, RequestOK, Holding, Operating
      <2> QED
          BY <1>10, <1>p, <1>t, <2>2, <2>5, <2>6 DEF SaveStatus, TypeOK
  <1>11. CASE DeleteApplication(r)
      <2>1. {app', file'} \subseteq Record \cup {None} /\ unsaved' \in BOOLEAN
          <3>1. CASE Delete
              BY <3>1 DEF Delete
          <3>2. CASE DeleteFails
              BY <3>2, <1>p DEF DeleteFails, TypeOK
          <3> QED
              BY <1>11, <3>1, <3>2 DEF DeleteApplication
      <2>2. mishaps' \subseteq Mishaps
          BY <1>11, <1>p DEF DeleteApplication, Mishap, Mishaps, TypeOK
      <2> QED
          BY <1>11, <1>p, <1>e, <1>t, <2>1, <2>2 DEF DeleteApplication, TypeOK
  <1>12. CASE CreateApplication(r)
      <2>1. {app', file'} \subseteq Record \cup {None} /\ unsaved' \in BOOLEAN
          <3>1. CASE UNCHANGED <<app, file, unsaved>>
              BY <3>1, <1>p DEF TypeOK
          <3>2. CASE app' \in NewRecords /\ file' = app' /\ unsaved' = FALSE
              BY <3>2, NewRecordsAreRecords
          <3> QED
              BY <1>12, <3>1, <3>2 DEF CreateApplication, Create, serviceVars
      <2> QED
          BY <1>12, <1>p, <1>e, <1>t, <2>1 DEF CreateApplication, TypeOK, historyVars
  <1>13. CASE SystemPrune(r)
      <2>1. ctr' \in [Deployments -> ContainerStates]
          BY <1>13, <1>p DEF SystemPrune, TypeOK, ContainerStates
      <2>2. mishaps' \subseteq Mishaps
          BY <1>13, <1>p DEF SystemPrune, Mishap, Mishaps, TypeOK
      <2> QED
          BY <1>13, <1>p, <1>e, <1>t, <2>1, <2>2 DEF SystemPrune, TypeOK, serviceVars
  <1>14. CASE ImportBackup(r)
      <2>1. file' \in Record \cup {None}
          BY <1>14, <1>p, LifeAssumption DEF ImportBackup, TypeOK
      <2>2. mishaps' \subseteq Mishaps
          BY <1>14, <1>p DEF ImportBackup, Mishap, Mishaps, TypeOK
      <2>3. request' \in [Requests -> [at: RequestPCs, kept: Kept]] /\ RequestOK'
          BY <1>14, TypeGets DEF ImportBackup, RequestPCs, Kept, Holding, Operating
      <2> QED
          BY <1>14, <1>p, <1>t, <2>1, <2>2, <2>3 DEF ImportBackup, TypeOK
  <1>15. CASE ReloadApplications(r)
      <2>1. {app', file'} \subseteq Record \cup {None} /\ unsaved' \in BOOLEAN
          BY <1>15, <1>p DEF ReloadApplications, Reload, Load, TypeOK, serviceVars
      <2> QED
          BY <1>15, <1>p, <1>e, <1>t, <2>1 DEF ReloadApplications, TypeOK, historyVars
  <1> QED
      BY <1>1, <1>2, <1>3, <1>4, <1>5, <1>c, <1>6, <1>d, <1>7, <1>8, <1>9, <1>10, <1>11, <1>12, <1>13, <1>14, <1>15
      DEF RequestStep

\* The beginning of a run preserves the invariant.
LEMMA TypeDeploy ==
    ASSUME TInv, NEW d \in Deployments, Deploy(d)
    PROVE  TInv'
  <1> USE DEF TInv
  <1>1. mishaps' \subseteq Mishaps
      BY ZenonT(60) DEF Deploy, Mishap, Mishaps, TypeOK
  <1>2. /\ run' \in [at: RunPCs, dep: Deployments \cup {None}, copy: Record \cup {None}]
        /\ outcome' \in [Deployments -> {"none", "running", "success", "failed"}]
        /\ RunOK'
      BY DEF Deploy, Execute, RunPCs, TypeOK, RunOK
  <1>3. TypeOK'
      BY <1>1, <1>2 DEF Deploy, Execute, TypeOK, serviceVars
  <1>4. RequestOK' /\ PhaseOK'
      BY DEF Deploy, RequestOK, PhaseOK, Serving
  <1> QED
      BY <1>2, <1>3, <1>4

\* The end and the start of the process preserve the invariant.
LEMMA TypeRest ==
    ASSUME TInv,
           \/ ProcessEnds
           \/ \E d \in Deployments : DockerRevives(d)
           \/ LoadApplications
           \/ SyncRoutes
           \/ Reconcile
    PROVE  TInv'
  <1> USE DEF TInv
  <1>1. CASE ProcessEnds
      <2>1. run' \in [at: RunPCs, dep: Deployments \cup {None}, copy: Record \cup {None}] /\ run'.at = "idle"
          BY <1>1 DEF ProcessEnds, NoRun, RunPCs
      <2>2. \A r \in Requests : request'[r].at \in {"none", "done"} /\ request'[r] \in {Done, request[r]}
          BY <1>1 DEF ProcessEnds, Serving, Done
      <2>r. request' \in [Requests -> [at: RequestPCs, kept: Kept]]
          BY <1>1 DEF ProcessEnds, Done, RequestPCs, Kept, TypeOK
      <2>3. outcome' \in [Deployments -> {"none", "running", "success", "failed"}]
          BY <1>1 DEF ProcessEnds, TypeOK
      <2>4. ctr' \in [Deployments -> ContainerStates]
          BY <1>1 DEF ProcessEnds, TypeOK, ContainerStates
      <2>w. wanted' \in BOOLEAN
          BY <1>1 DEF ProcessEnds, TypeOK
      <2>5. boots' \in 0..MaxBoots
          BY <1>1, LifeAssumption DEF ProcessEnds, TypeOK
      <2>6. TypeOK'
          BY <1>1, <2>1, <2>r, <2>3, <2>4, <2>w, <2>5 DEF ProcessEnds, TypeOK
      <2>7. RunOK' /\ RequestOK' /\ PhaseOK'
          BY <2>1, <2>2 DEF RunOK, RequestOK, PhaseOK, Serving, Holding, Operating
      <2> QED
          BY <2>6, <2>7
  <1>2. CASE \E d \in Deployments : DockerRevives(d)
      BY <1>2 DEF DockerRevives, TypeOK, RunOK, RequestOK, PhaseOK, Serving, ContainerStates, serviceVars, runVars, historyVars
  <1>3. CASE LoadApplications
      BY <1>3 DEF LoadApplications, Load, TypeOK, RunOK, RequestOK, PhaseOK, Serving, runVars, historyVars
  <1>4. CASE SyncRoutes
      <2>1. table' \in BOOLEAN
          BY <1>4 DEF SyncRoutes, Upserted, TypeOK
      <2> QED
          BY <1>4, <2>1 DEF SyncRoutes, TypeOK, RunOK, RequestOK, PhaseOK, Serving, serviceVars, runVars, historyVars
  <1>5. CASE Reconcile
      <2>1. /\ {app', file'} \subseteq Record \cup {None} /\ unsaved' \in BOOLEAN
            /\ mishaps' \subseteq Mishaps
          <3>1. CASE UNCHANGED serviceVars /\ (UNCHANGED mishaps \/ Mishap("docker"))
              BY <3>1 DEF TypeOK, serviceVars, Mishap, Mishaps
          <3>2. CASE SetsStatus("stopped", None)
              BY <3>2, StatusKeepsRecords
          <3>3. CASE \E d \in Deployments, target \in {"running", "stopped"} : SetsStatus(target, d)
              BY <3>3, StatusKeepsRecords
          <3> QED
              BY <1>5, <3>1, <3>2, <3>3 DEF Reconcile
      <2> QED
          BY <1>5, <2>1 DEF Reconcile, TypeOK, RunOK, RequestOK, PhaseOK, Serving, runVars
  <1> QED
      BY <1>1, <1>2, <1>3, <1>4, <1>5

\* Every step preserves the invariant.
LEMMA TypeNext == TInv /\ [Next]_vars => TInv'
  <1> SUFFICES ASSUME TInv, [Next]_vars PROVE TInv'
      OBVIOUS
  <1>1. CASE Next
      BY <1>1, TypeRequest, TypeDeploy, TypeExecute, TypeRest DEF Next
  <1>2. CASE UNCHANGED vars
      BY <1>2 DEF vars, serviceVars, runVars, historyVars, TInv, TypeOK, RunOK, RequestOK, PhaseOK, Serving
  <1> QED
      BY <1>1, <1>2

\* The records of an application, in memory and on disk, the steps of its
\* deployments and requests, and its containers keep their types.
THEOREM TypeCorrect == Spec => []TypeOK
  <1>1. TInv => TypeOK
      BY DEF TInv
  <1> QED
      BY <1>1, TypeInit, TypeNext, PTL DEF Spec

-----------------------------------------------------------------------------
(* MemoryIsSaved *)

\* What the property allows for.
Losses == {"save", "delete", "apart"}

\* A process that is down has no record in memory, and the file is there.
MInv ==
    /\ MemoryIsSaved
    /\ phase = "down" => app = None /\ ~unsaved
    /\ Undisturbed(Losses) => file # None

\* An undisturbed state is reached from undisturbed states only.
LEMMA MishapsStay ==
    ASSUME NEW by, [Next]_vars, Undisturbed(by)'
    PROVE  Undisturbed(by)
  <1>1. mishaps \subseteq mishaps'
      <2>1. CASE UNCHANGED vars
          BY <2>1 DEF vars, historyVars
      <2>2. ASSUME NEW r \in Requests, RequestStep(r) PROVE mishaps \subseteq mishaps'
          BY <2>2 DEF RequestStep, Refused, EditSettings, ChangeShared, SaveSettings, AddDomain, RemoveDomain,
             SaveDomains, UpdateFor, DecideRoute, PushDomains, RemoveRoute, Operate, DockerStart, DockerStop,
             StartRefused, StopRefused, CutOff, DockerRestart, RestartFails, SaveStatus, SetsStatus,
             DeleteApplication, CreateApplication, SystemPrune, ImportBackup, ReloadApplications, ReloadFails,
             Meets, Mishap, historyVars
      <2>3. ASSUME NEW d \in Deployments, Deploy(d) PROVE mishaps \subseteq mishaps'
          BY <2>3 DEF Deploy, Mishap
      <2>4. CASE DeployStep
          BY <2>4 DEF DeployStep, ExecuteStep, ObtainImage, CreateNew, FailsEarly, CreateFails, StartNew, StartFails,
             Healthy, Unhealthy, RouteNew, RouteFails, StopNew, RemoveNew, SaveApp, StopOld, RemoveOld, Attempt, CutOff,
             Mishap, historyVars
      <2>5. CASE ProcessEnds \/ LoadApplications \/ SyncRoutes \/ Reconcile
                 \/ \E d \in Deployments : DockerRevives(d)
          BY <2>5 DEF ProcessEnds, LoadApplications, SyncRoutes, Reconcile, DockerRevives, SetsStatus, Mishap, historyVars
      <2> QED
          BY <2>1, <2>2, <2>3, <2>4, <2>5 DEF Next
  <1> QED
      BY <1>1 DEF Undisturbed

\* UpdateStatus keeps memory and file equal unless it records a lost save.
LEMMA StatusIsSaved ==
    ASSUME NEW status, NEW container, SetsStatus(status, container),
           Undisturbed(Losses)', app # None
    PROVE  app' = file' /\ ~unsaved'
  <1>1. PICK saved : /\ UpdateStatus(status, container, saved)
                     /\ saved \/ Mishap("save")
      BY DEF SetsStatus
  <1>2. saved
      BY <1>1 DEF Mishap, Undisturbed, Losses
  <1> QED
      BY <1>1, <1>2 DEF UpdateStatus

\* The steps of a request preserve the invariant.
LEMMA MemoryRequest ==
    ASSUME TInv, MInv, NEW r \in Requests, RequestStep(r)
    PROVE  MInv'
  <1>n. [Next]_vars
      BY DEF Next
  <1>t. TypeOK /\ RequestOK /\ request \in [Requests -> [at: RequestPCs, kept: Kept]]
      BY DEF TInv, TypeOK
  <1>u. UNCHANGED phase /\ phase # "down"
      BY DEF RequestStep, TInv, PhaseOK, Serving, Begins, Refused, EditSettings, ChangeShared, SaveSettings, AddDomain,
         RemoveDomain, SaveDomains, DecideRoute, PushDomains, RemoveRoute, Operate, DockerStart, DockerStop,
         StartRefused, StopRefused, DockerRestart, RestartFails, SaveStatus, DeleteApplication, CreateApplication,
         SystemPrune, ImportBackup, ReloadApplications, ReloadFails
  <1> SUFFICES ASSUME Undisturbed(Losses)'
               PROVE  /\ file' # None
                      /\ app' # file' => \E q \in Requests : request'[q].at = "importing"
                      /\ unsaved' => \E q \in Requests : request'[q].at \in {"editing", "appending"}
      BY <1>u DEF MInv, MemoryIsSaved, Losses
  <1>m. /\ file # None
        /\ app # file => \E q \in Requests : request[q].at = "importing"
        /\ unsaved => \E q \in Requests : request[q].at \in {"editing", "appending"}
      <2>1. Undisturbed(Losses)
          BY <1>n, MishapsStay
      <2> QED
          BY <1>u, <2>1 DEF MInv, MemoryIsSaved, Losses
  <1>1. CASE /\ UNCHANGED serviceVars
             /\ \A q \in Requests : request[q].at \in {"importing", "editing", "appending"} => request'[q].at = request[q].at
      BY <1>1, <1>m DEF serviceVars
  <1>2. CASE app' = file' /\ file' # None /\ ~unsaved'
      BY <1>2
  <1>3. CASE ChangeShared(r)
      BY <1>3, <1>m DEF ChangeShared, ChangeInPlace
  <1>4. CASE SaveSettings(r) \/ SaveDomains(r)
      <2>1. PICK saved \in Saves : UpdateFor(r, saved)
          BY <1>4 DEF SaveSettings, SaveDomains
      <2>2. request[r].kept \in Record
          BY <1>4, <1>t DEF SaveSettings, SaveDomains, RequestOK, Holding
      <2>3. CASE Updates(request[r].kept, saved)
          BY <1>2, <2>1, <2>2, <2>3, ApplicationAssumption DEF UpdateFor, Update
      <2>4. CASE ~Updates(request[r].kept, saved)
          <3>1. UNCHANGED <<app, file, unsaved>> /\ ~unsaved
              BY <2>1, <2>4 DEF UpdateFor, Update, Mishap, Undisturbed, Losses, serviceVars
          <3>2. \A q \in Requests : request[q].at = "importing" => request'[q].at = "importing"
              BY <1>4, <1>t DEF SaveSettings, SaveDomains, Ends, Proceeds, Gets
          <3> QED
              BY <1>m, <3>1, <3>2
      <2> QED
          BY <2>3, <2>4
  <1>5. CASE SaveStatus(r)
      <2>1. PICK status, container : SetsStatus(status, container)
          BY <1>5 DEF SaveStatus
      <2>2. CASE app # None
          <3>1. app' = file' /\ ~unsaved'
              BY <2>1, <2>2, StatusIsSaved
          <3>2. file' # None
              <4>1. request[r].kept \in Deployments
                  BY <1>5, <1>t DEF SaveStatus, RequestOK, Operating
              <4>2. PICK s \in {"running", "stopped"} : SetsStatus(s, request[r].kept)
                  BY <1>5 DEF SaveStatus
              <4> QED
                  BY <1>m, <1>t, <4>1, <4>2, StatusKeepsRecords
          <3> QED
              BY <1>2, <3>1, <3>2
      <2>3. CASE app = None
          <3>1. UNCHANGED serviceVars
              BY <2>1, <2>3 DEF SetsStatus, UpdateStatus
          <3>2. \A q \in Requests :
                   request[q].at \in {"importing", "editing", "appending"} => request'[q].at = request[q].at
              BY <1>5, <1>t DEF SaveStatus, Sharing
          <3> QED
              BY <1>1, <3>1, <3>2
      <2> QED
          BY <2>2, <2>3
  <1>6. CASE DeleteApplication(r) \/ ReloadFails(r)
      BY <1>6 DEF DeleteApplication, ReloadFails, Mishap, Undisturbed, Losses
  <1>7. CASE CreateApplication(r)
      <2>1. CASE UNCHANGED serviceVars
          BY <1>1, <1>7, <1>t, <2>1 DEF CreateApplication, Begins, Ends
      <2>2. CASE ~UNCHANGED serviceVars
          <3>1. app' \in NewRecords /\ file' = app' /\ ~unsaved'
              BY <1>7, <2>2 DEF CreateApplication, Create
          <3>2. app' # None
              BY <3>1, NewRecordsAreRecords, ApplicationAssumption
          <3> QED
              BY <1>2, <3>1, <3>2
      <2> QED
          BY <2>1, <2>2
  <1>8. CASE ImportBackup(r)
      <2>1. request'[r].at = "importing" /\ unsaved' = unsaved /\ \A q \in Requests : q # r => request'[q] = request[q]
          BY <1>8, <1>t DEF ImportBackup, Gets
      <2>2. file' # None
          BY <1>8, <1>m, LifeAssumption, ApplicationAssumption DEF ImportBackup
      <2>3. request[r].at = "none"
          BY <1>8 DEF ImportBackup, Begins
      <2> QED
          BY <1>m, <2>1, <2>2, <2>3
  <1>9. CASE ReloadApplications(r)
      BY <1>2, <1>9, <1>m DEF ReloadApplications, Reload, Load
  <1>10. CASE EditSettings(r) \/ AddDomain(r) \/ RemoveDomain(r) \/ Operate(r) \/ Refused(r)
      BY <1>1, <1>10, <1>t DEF EditSettings, AddDomain, RemoveDomain, Operate, Refused, Begins, Gets, Ends
  <1>11. CASE DecideRoute(r) \/ PushDomains(r) \/ RemoveRoute(r) \/ SystemPrune(r)
      BY <1>1, <1>11, <1>t DEF DecideRoute, PushDomains, RemoveRoute, SystemPrune, Begins, Gets, Ends
  <1>12. CASE DockerStart(r) \/ DockerStop(r) \/ StartRefused(r) \/ StopRefused(r) \/ DockerRestart(r) \/ RestartFails(r)
      BY <1>1, <1>12, <1>t DEF DockerStart, DockerStop, StartRefused, StopRefused, DockerRestart, RestartFails,
         Proceeds, Gets, Ends
  <1> QED
      BY <1>3, <1>4, <1>5, <1>6, <1>7, <1>8, <1>9, <1>10, <1>11, <1>12 DEF RequestStep

\* Every step preserves the invariant.
LEMMA MemoryNext == TInv /\ MInv /\ [Next]_vars => MInv'
  <1> SUFFICES ASSUME TInv, MInv, [Next]_vars PROVE MInv'
      OBVIOUS
  <1>1. CASE UNCHANGED serviceVars /\ UNCHANGED <<phase, request>>
      BY <1>1, MishapsStay DEF MInv, MemoryIsSaved, serviceVars, Losses
  <1>2. ASSUME NEW d \in Deployments, Deploy(d) PROVE MInv'
      BY <1>1, <1>2 DEF Deploy, Execute
  <1>3. CASE DeployStep
      <2>1. CASE UNCHANGED serviceVars
          BY <1>1, <1>3, <2>1 DEF DeployStep
      <2>3. CASE SaveApp /\ Mishap("save")
          <3>1. UNCHANGED phase /\ phase = "up"
              BY <1>3, <2>3 DEF DeployStep, SaveApp, At, TInv, PhaseOK
          <3> QED
              BY <2>3, <3>1 DEF MInv, MemoryIsSaved, Mishap, Undisturbed, Losses
      <2>2. CASE SaveApp /\ \E saved \in Saves : Update(Switched, saved) /\ Updates(Switched, saved)
          <3>1. app' = Switched /\ file' = Switched /\ ~unsaved' /\ UNCHANGED phase /\ phase # "down"
              BY <1>3, <2>2 DEF DeployStep, SaveApp, Update, At, TInv, PhaseOK
          <3>2. Switched \in Record
              BY <2>2 DEF SaveApp, At, Switched, Record, TInv, RunOK
          <3> QED
              BY <3>1, <3>2, ApplicationAssumption DEF MInv, MemoryIsSaved
      <2>4. SaveApp => Mishap("save") \/ \E saved \in Saves : Update(Switched, saved) /\ Updates(Switched, saved)
          BY DEF SaveApp
      <2> QED
          BY <1>3, <2>1, <2>2, <2>3, <2>4 DEF DeployStep, ExecuteStep, ObtainImage, CreateNew, FailsEarly, CreateFails,
             StartNew, StartFails, Healthy, Unhealthy, RouteNew, RouteFails, StopNew, RemoveNew, StopOld, RemoveOld
  <1>4. CASE ProcessEnds
      BY <1>4, MishapsStay DEF ProcessEnds, MInv, MemoryIsSaved, Losses
  <1>5. CASE \E d \in Deployments : DockerRevives(d)
      BY <1>1, <1>5 DEF DockerRevives
  <1>6. CASE LoadApplications
      BY <1>6, MishapsStay DEF LoadApplications, Load, MInv, MemoryIsSaved, Losses
  <1>7. CASE SyncRoutes
      BY <1>7, MishapsStay DEF SyncRoutes, MInv, MemoryIsSaved, serviceVars, Losses
  <1>8. CASE Reconcile
      <2>1. phase = "synced" /\ phase' = "up"
          BY <1>8 DEF Reconcile
      <2> SUFFICES ASSUME Undisturbed(Losses)' PROVE app' = file' /\ ~unsaved' /\ file' # None
          BY <2>1 DEF MInv, MemoryIsSaved, Losses
      <2>2. app = file /\ ~unsaved /\ file # None
          <3>1. Undisturbed(Losses)
              BY MishapsStay
          <3>2. \A r \in Requests : request[r].at \in {"none", "done"}
              BY <2>1 DEF TInv, PhaseOK, Serving
          <3> QED
              BY <2>1, <3>1, <3>2 DEF MInv, MemoryIsSaved, Losses
      <2>3. CASE UNCHANGED serviceVars
          BY <2>2, <2>3 DEF serviceVars
      <2>4. CASE \E status \in {"running", "stopped"}, container \in Deployments \cup {None} :
                    SetsStatus(status, container)
          BY <2>2, <2>4, StatusIsSaved, StatusKeepsRecords DEF TInv
      <2> QED
          BY <1>8, <2>3, <2>4 DEF Reconcile
  <1>9. CASE UNCHANGED vars
      BY <1>1, <1>9 DEF vars
  <1> QED
      BY MemoryRequest, <1>2, <1>3, <1>4, <1>5, <1>6, <1>7, <1>8, <1>9 DEF Next

\* Whatever steps requests, imports, deployments and restarts take and in whatever
\* order, the record in memory differs from the file only while a request is
\* between its change of the one and of the other, unless a save whose error is
\* dropped fails, Update does not write what was changed in place, an import is not
\* loaded, or the application is deleted.
THEOREM SavedMemory == Spec => []MemoryIsSaved
  <1>1. Init => MInv
      <2>1. Init => file # None
          BY NewRecordsAreRecords, ApplicationAssumption DEF Init
      <2> QED
          BY <2>1 DEF Init, MInv, MemoryIsSaved
  <1>2. MInv => MemoryIsSaved
      BY DEF MInv
  <1> QED
      BY <1>1, <1>2, TypeInit, TypeNext, MemoryNext, PTL DEF Spec

-----------------------------------------------------------------------------
(* NoDowntime *)

\* A container that the record, its file or a request under way names.
Names(record, d) == record # None /\ record.container = d
Keeps(r, d) ==
    \/ request[r].at \in Holding /\ request[r].kept.container = d
    \/ request[r].at \in Operating /\ request[r].kept = d
Known(d) ==
    \/ Names(app, d)
    \/ Names(file, d)
    \/ \E r \in Requests : Keeps(r, d)

\* A deployment that has not begun has no container, and nobody names one.
FreshOK ==
    \A d \in Deployments : outcome[d] = "none" => ~Exists(d) /\ ~Known(d)

\* Nobody names the container of a run before its end, so that no request stops
\* it.
Unsaved == {"sources", "create", "start", "health", "route", "save", "stopNew", "removeNew"}
UnsavedOK ==
    run.at # "idle" =>
      /\ outcome[run.dep] # "none"
      /\ run.at \in Unsaved => ~Known(run.dep)

\* A container that is routed is healthy.
RoutedOK == run.at \in {"route", "save"} => ctr[run.dep] = "running"

\* One container runs that the run is not about to stop.
Spare(d) ==
    /\ ctr[d] = "running"
    /\ run.at \in {"start", "health", "route", "save", "stopNew", "removeNew"} => d # run.dep
    /\ run.at \in {"stopOld", "removeOld"} => d # run.copy.container
SpareOK == wanted => \E d \in Deployments : Spare(d)

DInv == FreshOK /\ UnsavedOK /\ RoutedOK /\ SpareOK

\* The invariant holds initially.
LEMMA DowntimeInit == Init => DInv
  <1> SUFFICES ASSUME Init PROVE DInv
      OBVIOUS
  <1>1. app.container = None /\ file = app
      BY DEF Init, NewRecords, NewRecord
  <1>2. FreshOK
      BY <1>1, ApplicationAssumption DEF Init, FreshOK, Known, Names, Exists, Keeps, Holding, Operating, NoRequest
  <1>3. UnsavedOK /\ RoutedOK /\ SpareOK
      BY DEF Init, UnsavedOK, RoutedOK, SpareOK, NoRun, NoRequest
  <1> QED
      BY <1>2, <1>3 DEF DInv

\* A step of a request makes no container known but by importing a record that
\* names one: else it writes what it has read.
LEMMA KnownShrinks ==
    ASSUME TInv, NEW r \in Requests, RequestStep(r), NEW d \in Deployments, Known(d)'
    PROVE  Known(d) \/ Named(d)
  <1> USE DEF Known, Names, Keeps
  <1>p. TypeOK /\ RequestOK /\ request \in [Requests -> [at: RequestPCs, kept: Kept]]
      BY DEF TInv, TypeOK
  <1>1. CASE Refused(r) \/ DecideRoute(r) \/ PushDomains(r) \/ RemoveRoute(r) \/ StartRefused(r) \/ StopRefused(r)
             \/ RestartFails(r) \/ SystemPrune(r) \/ ReloadFails(r)
      <2>1. UNCHANGED <<app, file>>
          BY <1>1 DEF Refused, DecideRoute, PushDomains, RemoveRoute, StartRefused, StopRefused, RestartFails,
             SystemPrune, ReloadFails, serviceVars
      <2>2. request'[r].at \notin Holding \cup Operating /\ \A q \in Requests : q # r => request'[q] = request[q]
          BY <1>1, <1>p DEF Refused, DecideRoute, PushDomains, RemoveRoute, StartRefused, StopRefused, RestartFails,
             SystemPrune, ReloadFails, Ends, Gets, Done, Holding, Operating
      <2> QED
          BY <2>1, <2>2
  <1>2. CASE DockerStart(r) \/ DockerStop(r) \/ DockerRestart(r)
      <2>1. UNCHANGED <<app, file>>
          BY <1>2 DEF DockerStart, DockerStop, DockerRestart, serviceVars
      <2>2. request[r].at \in Operating \ Holding /\ request'[r].at \in Operating \ Holding
            /\ request'[r].kept = request[r].kept /\ \A q \in Requests : q # r => request'[q] = request[q]
          BY <1>2, <1>p DEF DockerStart, DockerStop, DockerRestart, Proceeds, Gets, Holding, Operating
      <2> QED
          BY <2>1, <2>2
  <1>3. CASE EditSettings(r) \/ AddDomain(r) \/ RemoveDomain(r) \/ Operate(r)
      <2>1. app \in Record /\ app # None /\ UNCHANGED <<app, file>>
          BY <1>3, <1>p DEF EditSettings, AddDomain, RemoveDomain, Operate, TypeOK, serviceVars
      <2>2. (\A q \in Requests : q # r => request'[q] = request[q])
            /\ (request'[r].at \in Holding => request'[r].kept.container = app.container)
            /\ (request'[r].at \in Operating => request'[r].kept = app.container)
          <3>1. CASE EditSettings(r)
              BY <2>1, <3>1, <1>p DEF EditSettings, Gets, Record, Operating
          <3>2. CASE AddDomain(r)
              BY <2>1, <3>2, <1>p DEF AddDomain, Gets, Record, Operating
          <3>3. CASE RemoveDomain(r)
              BY <2>1, <3>3, <1>p DEF RemoveDomain, Gets, Record, Operating
          <3>4. CASE Operate(r)
              BY <2>1, <3>4, <1>p DEF Operate, Gets, Record, Holding
          <3> QED
              BY <1>3, <3>1, <3>2, <3>3, <3>4
      <2> QED
          BY <2>1, <2>2
  <1>c. CASE ChangeShared(r)
      BY <1>c DEF ChangeShared, ChangeInPlace
  <1>4. CASE SaveSettings(r) \/ SaveDomains(r)
      <2>1. request[r].at \in Holding \ Operating /\ request[r].kept \in Record
          BY <1>4, <1>p DEF SaveSettings, SaveDomains, RequestOK, Holding, Operating
      <2>2. \/ UNCHANGED <<app, file>>
            \/ app' = request[r].kept /\ file' = request[r].kept
          BY <1>4 DEF SaveSettings, SaveDomains, UpdateFor, Update, serviceVars
      <2>3. (\A q \in Requests : q # r => request'[q] = request[q])
            /\ request'[r].at \notin Operating
            /\ (request'[r].at \in Holding => request'[r].kept = request[r].kept)
          BY <1>4, <1>p DEF SaveSettings, SaveDomains, Ends, Done, Proceeds, Gets, Holding, Operating
      <2> QED
          BY <2>1, <2>2, <2>3
  <1>5. CASE SaveStatus(r)
      <2>1. request[r].at \in Operating /\ request[r].kept \in Deployments
          BY <1>5, <1>p DEF SaveStatus, RequestOK, Operating
      <2>2. PICK sharing \in Sharing :
               request' = [q \in Requests |->
                             IF q = r THEN Done
                             ELSE IF q \in sharing THEN [at |-> "saved", kept |-> app']
                             ELSE request[q]]
          BY <1>5 DEF SaveStatus
      <2>3. PICK status, saved : UpdateStatus(status, request[r].kept, saved)
          BY <1>5 DEF SaveStatus, SetsStatus
      <2>4. app # None => app' \in Record /\ app'.container \in {app.container, request[r].kept} /\ file' \in {file, app'}
          <3>1. app # None => app \in Record
              BY <1>p DEF TypeOK
          <3>2. app # None => app' = [app EXCEPT !.status = status,
                                                 !.container = IF request[r].kept = None THEN @ ELSE request[r].kept]
                              /\ file' \in {file, app'}
              BY <2>3 DEF UpdateStatus
          <3>3. app # None => app'.container \in {app.container, request[r].kept}
              BY <3>1, <3>2 DEF Record
          <3>4. app # None => app' \in Record
              <4>1. PICK s \in {"running", "stopped"} : SetsStatus(s, request[r].kept)
                  BY <1>5 DEF SaveStatus
              <4> QED
                  BY <1>p, <2>1, <4>1, StatusKeepsRecords
          <3> QED
              BY <3>2, <3>3, <3>4
      <2>5. app = None => UNCHANGED <<app, file>>
          BY <2>3 DEF UpdateStatus, serviceVars
      <2>6. \A q \in Requests : Keeps(q, d)' => Keeps(q, d) \/ (app # None /\ app'.container = d)
          <3> SUFFICES ASSUME NEW q \in Requests, Keeps(q, d)'
                       PROVE  Keeps(q, d) \/ (app # None /\ app'.container = d)
              OBVIOUS
          <3>1. CASE q = r
              BY <2>2, <3>1 DEF Done, Holding, Operating
          <3>2. CASE q # r /\ q \in sharing
              <4>1. app # None
                  BY <1>p, <3>2, ApplicationAssumption DEF Sharing, RequestOK, Holding
              <4> QED
                  BY <2>2, <3>2, <4>1 DEF Holding, Operating
          <3>3. CASE q # r /\ q \notin sharing
              BY <2>2, <3>3
          <3> QED
              BY <3>1, <3>2, <3>3
      <2>7. app # None => app # None /\ (app'.container = d => Known(d))
          BY <2>1, <2>4
      <2> QED
          BY <2>1, <2>4, <2>5, <2>6, <2>7
  <1>6. CASE DeleteApplication(r)
      BY <1>6, <1>p DEF DeleteApplication, Delete, DeleteFails, Ends, Done, Holding, Operating
  <1>7. CASE CreateApplication(r)
      <2>1. \A record \in NewRecords : record.container = None
          BY DEF NewRecords, NewRecord
      <2> QED
          BY <1>7, <1>p, <2>1, ApplicationAssumption DEF CreateApplication, Create, Ends, Done, Holding, Operating, serviceVars
  <1>8. CASE ImportBackup(r)
      <2>1. request'[r].at \notin Holding \cup Operating /\ \A q \in Requests : q # r => request'[q] = request[q]
          BY <1>8, <1>p DEF ImportBackup, Gets, Holding, Operating
      <2>2. app' = app /\ (file' = file \/ Named(file'.container))
          BY <1>8 DEF ImportBackup
      <2> QED
          BY <2>1, <2>2
  <1>9. CASE ReloadApplications(r)
      BY <1>9, <1>p DEF ReloadApplications, Reload, Load, Ends, Done, Holding, Operating, serviceVars
  <1> QED
      BY <1>1, <1>2, <1>3, <1>c, <1>4, <1>5, <1>6, <1>7, <1>8, <1>9 DEF RequestStep

\* The steps of requests preserve the invariant: what they stop is known, hence
\* not the container of a run before its end, which no archive names either.  A
\* prune removes nothing that runs.
LEMMA DowntimeRequest ==
    ASSUME TInv, DInv, NEW r \in Requests, RequestStep(r)
    PROVE  DInv'
  <1> USE DEF DInv
  <1>p. RunOK /\ RequestOK /\ request \in [Requests -> [at: RequestPCs, kept: Kept]]
        /\ ctr \in [Deployments -> ContainerStates]
      BY DEF TInv, TypeOK
  <1>k. \A d \in Deployments : Known(d)' => Known(d) \/ Named(d)
      BY KnownShrinks
  <1>u. UNCHANGED <<run, outcome>>
      BY DEF RequestStep, Refused, EditSettings, ChangeShared, SaveSettings, AddDomain,
         RemoveDomain, SaveDomains, DecideRoute, PushDomains, RemoveRoute, Operate, DockerStart, DockerStop,
         StartRefused, StopRefused, DockerRestart, RestartFails, SaveStatus, DeleteApplication, CreateApplication,
         SystemPrune, ImportBackup, ReloadApplications, ReloadFails, runVars
  <1>i. \A d \in Deployments : outcome[d] = "none" \/ (d = run.dep /\ run.at \in Unsaved) => ~Named(d)
      BY DEF Named, Unsaved
  <1>1. UnsavedOK'
      BY <1>k, <1>p, <1>u, <1>i DEF UnsavedOK, RunOK, Unsaved
  <1>3. CASE UNCHANGED <<ctr, wanted>>
      BY <1>1, <1>3, <1>k, <1>u, <1>i DEF FreshOK, Exists, RoutedOK, SpareOK, Spare
  <1>4. CASE DockerStart(r) \/ DockerStop(r) \/ StartRefused(r) \/ StopRefused(r) \/ DockerRestart(r) \/ RestartFails(r)
      <2>0. request[r].at \in Operating
          BY <1>4 DEF DockerStart, DockerStop, StartRefused, StopRefused, DockerRestart, RestartFails, Operating
      <2>1. PICK k \in Deployments : k = request[r].kept
          BY <1>p, <2>0 DEF RequestOK
      <2>2. Known(k)
          BY <2>0, <2>1 DEF Known, Keeps
      <2>3. run.at \in Unsaved => k # run.dep
          BY <2>2 DEF UnsavedOK, Unsaved
      <2>c. UNCHANGED ctr \/ StartContainer(k) \/ StopContainer(k)
          BY <1>4, <2>1 DEF DockerStart, DockerStop, StartRefused, StopRefused, CutOff, DockerRestart, RestartFails
      <2>4. \A d \in Deployments : d # k => ctr'[d] = ctr[d]
          BY <1>p, <2>1, <2>c DEF StartContainer, StopContainer
      <2>5. ctr'[k] # "absent" => ctr[k] # "absent"
          BY <1>p, <2>1, <2>c DEF StartContainer, StopContainer, Exists
      <2>6. FreshOK'
          BY <1>k, <1>u, <1>i, <2>1, <2>4, <2>5 DEF FreshOK, Exists
      <2>7. RoutedOK'
          BY <1>p, <1>u, <2>3, <2>4 DEF RoutedOK, RunOK, Unsaved
      <2>8. SpareOK'
          <3>0. ASSUME wanted, ctr'[k] = "running" \/ ctr' = ctr PROVE SpareOK'
              <4>1. PICK d \in Deployments : Spare(d)
                  BY <3>0 DEF SpareOK
              <4>2. ctr'[d] = "running"
                  BY <2>4, <3>0, <4>1 DEF Spare
              <4> QED
                  BY <1>u, <4>1, <4>2 DEF Spare, SpareOK
          <3>1. CASE DockerStart(r)
              <4>1. ctr'[k] = "running"
                  BY <1>p, <2>1, <3>1 DEF DockerStart, StartContainer
              <4>2. CASE ~Replacing(k)
                  <5>1. run'.at \in {"start", "health", "route", "save", "stopNew", "removeNew"} => k # run'.dep
                      BY <1>u, <2>3 DEF Unsaved
                  <5>2. run'.at \in {"stopOld", "removeOld"} => k # run'.copy.container
                      BY <1>u, <4>2 DEF Replacing
                  <5>3. ctr'[k] = "running" /\ k \in Deployments
                      BY <2>1, <4>1
                  <5> QED
                      BY <5>1, <5>2, <5>3 DEF Spare, SpareOK
              <4>3. CASE wanted
                  BY <3>0, <4>1, <4>3
              <4> QED
                  BY <2>1, <3>1, <4>2, <4>3 DEF DockerStart, SpareOK
          <3>2. CASE DockerStop(r)
              BY <3>2 DEF DockerStop, SpareOK
          <3>3. CASE DockerRestart(r)
              BY <1>3, <1>u, <3>3 DEF DockerRestart, SpareOK, Spare
          <3>4. CASE StartRefused(r) \/ RestartFails(r)
              <4>1. UNCHANGED wanted /\ (UNCHANGED ctr \/ StartContainer(k))
                  BY <2>1, <3>4 DEF StartRefused, RestartFails, CutOff
              <4>2. ctr'[k] = "running" \/ ctr' = ctr
                  BY <1>p, <2>1, <4>1 DEF StartContainer
              <4> QED
                  BY <3>0, <4>1, <4>2 DEF SpareOK
          <3>5. CASE StopRefused(r)
              <4>1. wanted' => wanted /\ ctr' = ctr
                  BY <3>5 DEF StopRefused
              <4> QED
                  BY <3>0, <4>1 DEF SpareOK
          <3> QED
              BY <1>4, <3>1, <3>2, <3>3, <3>4, <3>5
      <2> QED
          BY <1>1, <2>6, <2>7, <2>8
  <1>5. CASE SystemPrune(r)
      <2>1. UNCHANGED wanted /\ (\A d \in Deployments : ctr[d] = "running" => ctr'[d] = "running")
            /\ (\A d \in Deployments : ctr[d] = "absent" => ctr'[d] = "absent")
          BY <1>5 DEF SystemPrune
      <2>2. FreshOK'
          BY <1>k, <1>u, <1>i, <2>1 DEF FreshOK, Exists
      <2>3. RoutedOK' /\ SpareOK'
          BY <1>p, <1>u, <2>1 DEF RoutedOK, RunOK, SpareOK, Spare
      <2> QED
          BY <1>1, <2>2, <2>3
  <1> QED
      BY <1>3, <1>4, <1>5 DEF RequestStep, Refused, EditSettings, ChangeShared, SaveSettings, AddDomain, RemoveDomain,
         SaveDomains, DecideRoute, PushDomains, RemoveRoute, Operate, SaveStatus, DeleteApplication, CreateApplication,
         ImportBackup, ReloadApplications, ReloadFails, historyVars

\* The steps of a run preserve the invariant.
LEMMA DowntimeExecute ==
    ASSUME TInv, DInv, DeployStep
    PROVE  DInv'
  <1> USE DEF DInv
  <1>p. RunOK /\ ctr \in [Deployments -> ContainerStates] /\ outcome \in [Deployments -> {"none", "running", "success", "failed"}]
        /\ run \in [at: RunPCs, dep: Deployments \cup {None}, copy: Record \cup {None}]
      BY DEF TInv, TypeOK
  <1>f. UNCHANGED <<request, phase, boots>>
      BY DEF DeployStep
  <1>r. run.at # "idle" /\ run.dep \in Deployments /\ run.copy \in Record /\ outcome[run.dep] # "none"
      BY <1>p DEF DeployStep, ExecuteStep, ObtainImage, CreateNew, FailsEarly, CreateFails, StartNew, StartFails, Healthy, Unhealthy,
         RouteNew, RouteFails, StopNew, RemoveNew, SaveApp, StopOld, RemoveOld, At, RunOK, UnsavedOK
  \* The steps that leave the record alone change the state of one container.
  <1>1. ASSUME NEW d \in Deployments, UNCHANGED serviceVars,
               \A e \in Deployments : e # d => ctr'[e] = ctr[e],
               outcome[d] # "none",
               \A e \in Deployments : outcome'[e] = "none" => outcome[e] = "none"
        PROVE  FreshOK' /\ (\A e \in Deployments : Known(e)' => Known(e))
      <2>1. \A e \in Deployments : Known(e)' => Known(e)
          BY <1>1, <1>f DEF Known, Names, Keeps, serviceVars
      <2> QED
          BY <1>1, <2>1 DEF FreshOK, Exists
  <1>2. CASE ObtainImage \/ Unhealthy
      <2>1. UNCHANGED <<serviceVars, ctr, outcome, wanted>> /\ run'.dep = run.dep /\ run'.copy = run.copy
            /\ run'.at \in {"create", "stopNew"} /\ (run'.at = "create" => run.at = "sources")
            /\ run.at \in Unsaved /\ run.at \notin {"stopOld", "removeOld"} /\ (run'.at # "create" => run.at = "health")
          BY <1>2, <1>p DEF ObtainImage, Unhealthy, At, GoTo, historyVars, Unsaved
      <2> QED
          BY <1>1, <1>r, <2>1 DEF UnsavedOK, RoutedOK, SpareOK, Spare, Unsaved
  <1>3. CASE CreateNew
      <2>1. UNCHANGED <<serviceVars, outcome, wanted>> /\ run'.dep = run.dep /\ run'.copy = run.copy
            /\ run.at = "create" /\ run'.at = "start" /\ ctr[run.dep] = "absent" /\ ctr' = [ctr EXCEPT ![run.dep] = "created"]
          BY <1>3, <1>p DEF CreateNew, CreateContainer, Exists, At, GoTo, historyVars
      <2> QED
          BY <1>1, <1>r, <1>p, <2>1 DEF UnsavedOK, RoutedOK, SpareOK, Spare, Unsaved
  <1>4. CASE StartNew
      <2>1. UNCHANGED <<serviceVars, outcome, wanted>> /\ run'.dep = run.dep /\ run'.copy = run.copy
            /\ run.at = "start" /\ run'.at = "health" /\ ctr' = [ctr EXCEPT ![run.dep] = "running"]
          BY <1>4, <1>p DEF StartNew, StartContainer, At, GoTo, historyVars
      <2> QED
          BY <1>1, <1>r, <1>p, <2>1 DEF UnsavedOK, RoutedOK, SpareOK, Spare, Unsaved
  <1>5. CASE Healthy \/ RouteNew \/ RouteFails
      <2>1. UNCHANGED <<serviceVars, ctr, outcome, wanted>> /\ run'.dep = run.dep /\ run'.copy = run.copy
            /\ run.at \in {"health", "route"} /\ run'.at \in {"route", "save", "stopNew"}
            /\ (run'.at \in {"route", "save"} => ctr[run.dep] = "running")
          BY <1>5, <1>p DEF Healthy, RouteNew, RouteFails, At, GoTo, historyVars, RoutedOK
      <2> QED
          BY <1>1, <1>r, <2>1 DEF UnsavedOK, RoutedOK, SpareOK, Spare, Unsaved
  <1>6. CASE FailsEarly
      <2>1. UNCHANGED <<serviceVars, ctr, wanted>> /\ run'.at = "idle" /\ outcome' = [outcome EXCEPT ![run.dep] = "failed"]
          BY <1>6 DEF FailsEarly, End, NoRun, historyVars
      <2> QED
          BY <1>1, <1>r, <1>p, <2>1 DEF UnsavedOK, RoutedOK, SpareOK, Spare
  <1>c. CASE CreateFails
      <2>1. UNCHANGED <<serviceVars, wanted>> /\ run.at = "create" /\ run'.at = "idle"
            /\ outcome' = [outcome EXCEPT ![run.dep] = "failed"]
          BY <1>c DEF CreateFails, At, End, NoRun
      <2>2. UNCHANGED ctr \/ (ctr[run.dep] = "absent" /\ ctr' = [ctr EXCEPT ![run.dep] = "created"])
          BY <1>c DEF CreateFails, CutOff, CreateContainer, Exists
      <2>3. (\A e \in Deployments : e # run.dep => ctr'[e] = ctr[e])
            /\ (\A e \in Deployments : ctr[e] = "running" => ctr'[e] = "running")
          BY <1>p, <2>2
      <2> QED
          BY <1>1, <1>r, <1>p, <2>1, <2>3 DEF UnsavedOK, RoutedOK, SpareOK, Spare
  <1>s. CASE StartFails
      <2>1. UNCHANGED <<serviceVars, outcome, wanted>> /\ run'.dep = run.dep /\ run'.copy = run.copy
            /\ run.at = "start" /\ run'.at = "removeNew"
          BY <1>s, <1>p DEF StartFails, At, GoTo
      <2>2. \A e \in Deployments : e # run.dep => ctr'[e] = ctr[e]
          BY <1>s, <1>p DEF StartFails, CutOff, StartContainer
      <2> QED
          BY <1>1, <1>r, <2>1, <2>2 DEF UnsavedOK, RoutedOK, SpareOK, Spare, Unsaved
  <1>7. CASE StopNew
      <2>1. UNCHANGED <<serviceVars, outcome, wanted>> /\ run'.dep = run.dep /\ run'.copy = run.copy
            /\ run.at = "stopNew" /\ run'.at = "removeNew" /\ (\A e \in Deployments : e # run.dep => ctr'[e] = ctr[e])
          BY <1>7, <1>p DEF StopNew, Attempt, StopContainer, At, GoTo
      <2> QED
          BY <1>1, <1>r, <2>1 DEF UnsavedOK, RoutedOK, SpareOK, Spare, Unsaved
  <1>8. CASE RemoveNew
      <2>1. UNCHANGED <<serviceVars, wanted>> /\ run.at = "removeNew" /\ run'.at = "idle"
            /\ outcome' = [outcome EXCEPT ![run.dep] = "failed"] /\ (\A e \in Deployments : e # run.dep => ctr'[e] = ctr[e])
          BY <1>8, <1>p DEF RemoveNew, Attempt, RemoveContainer, At, End, NoRun
      <2> QED
          BY <1>1, <1>r, <1>p, <2>1 DEF UnsavedOK, RoutedOK, SpareOK, Spare
  <1>9. CASE StopOld
      <2>1. UNCHANGED <<serviceVars, outcome, wanted>> /\ run'.dep = run.dep /\ run'.copy = run.copy
            /\ run.at = "stopOld" /\ run'.at = "removeOld"
            /\ (\A e \in Deployments : e # run.copy.container => ctr'[e] = ctr[e])
            /\ (\A e \in Deployments : ctr[e] = "absent" => ctr'[e] = "absent")
          BY <1>9, <1>p DEF StopOld, Attempt, StopContainer, Exists, At, GoTo
      <2>2. FreshOK' /\ \A e \in Deployments : Known(e)' => Known(e)
          BY <1>f, <2>1 DEF FreshOK, Exists, Known, Names, Keeps, serviceVars
      <2> QED
          BY <1>r, <2>1, <2>2 DEF UnsavedOK, RoutedOK, SpareOK, Spare, Unsaved
  <1>10. CASE RemoveOld
      <2>1. UNCHANGED <<serviceVars, wanted>> /\ run.at = "removeOld" /\ run'.at = "idle"
            /\ outcome' = [outcome EXCEPT ![run.dep] = "success"]
            /\ (\A e \in Deployments : e # run.copy.container => ctr'[e] = ctr[e])
            /\ (\A e \in Deployments : ctr[e] = "absent" => ctr'[e] = "absent")
          BY <1>10, <1>p DEF RemoveOld, Attempt, RemoveContainer, At, End, NoRun
      <2>2. FreshOK'
          BY <1>f, <1>p, <1>r, <2>1 DEF FreshOK, Exists, Known, Names, Keeps, serviceVars
      <2> QED
          BY <2>1, <2>2 DEF UnsavedOK, RoutedOK, SpareOK, Spare
  <1>11. CASE SaveApp
      <2>1. UNCHANGED ctr /\ run.at = "save" /\ ctr[run.dep] = "running"
          BY <1>11 DEF SaveApp, At, RoutedOK
      <2>2. \A e \in Deployments : e # run.dep => (Known(e)' => Known(e))
          <3>1. Switched.container = run.dep
              BY <1>r DEF Switched, Record
          <3>2. UNCHANGED <<app, file>> \/ (app' = Switched /\ file' = Switched)
              BY <1>11 DEF SaveApp, Update
          <3> QED
              BY <1>f, <3>1, <3>2 DEF Known, Names, Keeps
      <2>3. \A e \in Deployments : outcome'[e] = "none" => outcome[e] = "none" /\ e # run.dep
          BY <1>11, <1>r, <1>p DEF SaveApp, End
      <2>4. FreshOK'
          BY <2>1, <2>2, <2>3 DEF FreshOK, Exists
      <2>5. CASE run.copy.container \notin {None, run.dep}
          <3>1. run'.at = "stopOld" /\ run'.dep = run.dep /\ run'.copy = run.copy /\ UNCHANGED outcome
              BY <1>11, <1>p, <2>5 DEF SaveApp, GoTo
          <3> QED
              BY <1>r, <2>1, <2>4, <2>5, <3>1 DEF UnsavedOK, RoutedOK, SpareOK, Spare, Unsaved
      <2>6. CASE run.copy.container \in {None, run.dep}
          <3>1. run'.at = "idle"
              BY <1>11, <2>6 DEF SaveApp, End, NoRun
          <3> QED
              BY <1>r, <2>1, <2>4, <3>1 DEF UnsavedOK, RoutedOK, SpareOK, Spare
      <2> QED
          BY <2>5, <2>6
  <1> QED
      BY <1>2, <1>3, <1>4, <1>5, <1>6, <1>c, <1>s, <1>7, <1>8, <1>9, <1>10, <1>11 DEF DeployStep, ExecuteStep

\* The start of a deployment and the steps outside requests and runs preserve
\* the invariant.
LEMMA DowntimeRest ==
    ASSUME TInv, DInv,
           \/ \E d \in Deployments : Deploy(d) \/ DockerRevives(d)
           \/ ProcessEnds \/ LoadApplications \/ SyncRoutes \/ Reconcile
    PROVE  DInv'
  <1> USE DEF DInv
  <1>p. RunOK /\ PhaseOK /\ ctr \in [Deployments -> ContainerStates]
        /\ outcome \in [Deployments -> {"none", "running", "success", "failed"}]
        /\ request \in [Requests -> [at: RequestPCs, kept: Kept]]
      BY DEF TInv, TypeOK
  <1>1. ASSUME NEW d \in Deployments, Deploy(d) PROVE DInv'
      <2>1. UNCHANGED <<app, file, ctr, wanted, request>> /\ run.at = "idle" /\ outcome[d] = "none"
            /\ outcome'[d] # "none" /\ (\A e \in Deployments : e # d => outcome'[e] = outcome[e])
            /\ (run' = run \/ (run'.at = "sources" /\ run'.dep = d))
          BY <1>1, <1>p DEF Deploy, Execute, At, serviceVars
      <2>2. \A e \in Deployments : Known(e)' = Known(e)
          BY <2>1 DEF Known, Names, Keeps
      <2>3. FreshOK' /\ ~Known(d)
          BY <2>1, <2>2 DEF FreshOK, Exists
      <2>4. UnsavedOK' /\ RoutedOK'
          BY <2>1, <2>2, <2>3 DEF UnsavedOK, RoutedOK
      <2>5. SpareOK'
          BY <2>1 DEF SpareOK, Spare
      <2> QED
          BY <2>3, <2>4, <2>5
  <1>2. ASSUME NEW d \in Deployments, DockerRevives(d) PROVE DInv'
      <2>1. UNCHANGED <<app, file, wanted, request, run, outcome>> /\ ctr[d] = "exited"
            /\ ctr' = [ctr EXCEPT ![d] = "running"]
          BY <1>2 DEF DockerRevives, serviceVars, runVars, historyVars
      <2>2. \A e \in Deployments : ctr'[e] = "absent" <=> ctr[e] = "absent"
          BY <1>p, <2>1
      <2>3. \A e \in Deployments : ctr[e] = "running" => ctr'[e] = "running"
          BY <1>p, <2>1
      <2>4. FreshOK' /\ UnsavedOK'
          BY <2>1, <2>2 DEF FreshOK, Exists, Known, Names, Keeps, UnsavedOK
      <2>5. RoutedOK' /\ SpareOK'
          BY <1>p, <2>1, <2>3 DEF RoutedOK, RunOK, SpareOK, Spare
      <2> QED
          BY <2>4, <2>5
  <1>3. CASE ProcessEnds
      <2>1. app' = None /\ file' = file /\ run' = NoRun /\ (UNCHANGED <<ctr, wanted>> \/ ~wanted')
            /\ \A r \in Requests : request'[r].at \notin Holding \cup Operating
          BY <1>3 DEF ProcessEnds, Done, Serving, Holding, Operating
      <2>2. \A d \in Deployments : outcome'[d] = "none" => outcome[d] = "none"
          BY <1>3 DEF ProcessEnds
      <2>3. \A d \in Deployments : ctr[d] = "absent" => ctr'[d] = "absent"
          BY <1>3 DEF ProcessEnds
      <2>4. FreshOK'
          BY <2>1, <2>2, <2>3 DEF FreshOK, Exists, Known, Names, Keeps
      <2>5. UnsavedOK' /\ RoutedOK'
          BY <2>1 DEF NoRun, UnsavedOK, RoutedOK
      <2>6. SpareOK'
          BY <2>1 DEF NoRun, SpareOK, Spare
      <2> QED
          BY <2>4, <2>5, <2>6
  <1>4. CASE LoadApplications \/ SyncRoutes
      <2>1. UNCHANGED <<ctr, wanted, run, outcome, request, file>> /\ app' \in {app, file}
          BY <1>4 DEF LoadApplications, Load, SyncRoutes, serviceVars, runVars, historyVars
      <2>2. \A d \in Deployments : Known(d)' => Known(d)
          BY <2>1 DEF Known, Names, Keeps
      <2> QED
          BY <1>p, <2>1, <2>2 DEF FreshOK, Exists, RunOK, UnsavedOK, RoutedOK, SpareOK, Spare
  <1>5. CASE Reconcile
      <2>1. UNCHANGED <<ctr, wanted, run, outcome, request>> /\ run.at = "idle"
          BY <1>5, <1>p DEF Reconcile, runVars, PhaseOK
      <2>2. \A e \in Deployments : Known(e)' => Known(e) \/ Exists(e)
          <3>1. CASE UNCHANGED serviceVars
              BY <2>1, <3>1 DEF Known, Names, Keeps, serviceVars
          <3>2. ASSUME NEW status, NEW container, app # None, SetsStatus(status, container),
                       container = None \/ (container \in Deployments /\ Exists(container))
                PROVE  \A e \in Deployments : Known(e)' => Known(e) \/ Exists(e)
              <4>1. PICK saved : UpdateStatus(status, container, saved)
                  BY <3>2 DEF SetsStatus
              <4>2. app'.container \in {app.container, container} /\ file' \in {file, app'}
                    /\ (container = None => app'.container = app.container)
                  BY <3>2, <4>1 DEF UpdateStatus, TInv, TypeOK, Record
              <4> QED
                  BY <2>1, <3>2, <4>2 DEF Known, Names, Keeps
          <3> QED
              BY <1>5, <3>1, <3>2 DEF Reconcile
      <2>3. FreshOK'
          BY <2>1, <2>2 DEF FreshOK, Exists
      <2> QED
          BY <2>1, <2>3 DEF UnsavedOK, RoutedOK, SpareOK, Spare
  <1> QED
      BY <1>1, <1>2, <1>3, <1>4, <1>5

\* Every step preserves the invariant.
LEMMA DowntimeNext == TInv /\ DInv /\ [Next]_vars => DInv'
  <1> SUFFICES ASSUME TInv, DInv, [Next]_vars PROVE DInv'
      OBVIOUS
  <1>1. CASE UNCHANGED vars
      BY <1>1 DEF vars, serviceVars, runVars, historyVars, DInv, FreshOK, Exists, Known, Names, Keeps,
         UnsavedOK, RoutedOK, SpareOK, Spare
  <1>2. CASE Next
      BY <1>2, DowntimeRequest, DowntimeExecute, DowntimeRest DEF Next
  <1> QED
      BY <1>1, <1>2

\* Once an application was switched to a container or started, one of its
\* containers runs until a request or a reboot stops it: for any number of
\* deployments and requests, in any order, whatever fails and wherever the
\* process ends.
THEOREM AlwaysUp == Spec => []NoDowntime
  <1>1. DInv => NoDowntime
      BY DEF DInv, SpareOK, Spare, NoDowntime
  <1> QED
      BY <1>1, DowntimeInit, DowntimeNext, TypeInit, TypeNext, PTL DEF Spec

=============================================================================
