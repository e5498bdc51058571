--------------------------- MODULE ApplicationLife ---------------------------
(***************************************************************************)
(* The life of one application: its deployments (Pipeline), the requests   *)
(* of internal/api that change it, the end of the process and of the host, *)
(* and what cmd/liteploy/main.go and internal/system/recovery.go do at the *)
(* start.  A request reads a copy of the record and then makes several     *)
(* calls; nothing keeps two requests, or a request and a deployment, apart.*)
(***************************************************************************)
EXTENDS Pipeline, Naturals

CONSTANTS
    Requests,  \* HTTP requests, one operation each
    Archives,  \* what archives say of the application: records it had once
    MaxBoots   \* restarts of the process; a bound, the code has none

ASSUME LifeAssumption ==
    /\ MaxBoots \in Nat
    /\ Archives \subseteq Record /\ \A record \in Archives : Validate(record)

VARIABLES
    request,  \* where each request is, and what it keeps of its copy of the record
    phase,    \* up, down, loaded, or synced: the stages of a start
    boots     \* how often the process was started again

vars == <<serviceVars, ctr, table, runVars, historyVars, request, phase, boots>>

RequestPCs == {"none", "editing", "appending", "relisting", "saved", "upserting",
               "removing", "starting", "stopping", "restarting", "startingAgain",
               "toRunning", "toStopped", "importing", "done"}
\* The copy, its container when no more is used, or nothing.
Kept == Record \cup Deployments \cup {None}
NoRequest == [at |-> "none", kept |-> None]
Done == [at |-> "done", kept |-> None]

\* What the properties leave out: a run or a request that met a run, requests that
\* met, a save or a call of Docker whose error was dropped, a deleted application,
\* a prune, an import, and what left memory and file apart: an import that was not
\* loaded and a change in place that was not written.
Mishaps == {"deployment", "requests", "save", "docker", "delete", "prune", "import",
            "apart"}

TypeOK ==
    /\ {app, file} \subseteq Record \cup {None}
    /\ ctr \in [Deployments -> ContainerStates]
    /\ table \in BOOLEAN /\ unsaved \in BOOLEAN /\ wanted \in BOOLEAN
    /\ run \in [at: RunPCs, dep: Deployments \cup {None}, copy: Record \cup {None}]
    /\ outcome \in [Deployments -> {"none", "running", "success", "failed"}]
    /\ mishaps \subseteq Mishaps
    /\ request \in [Requests -> [at: RequestPCs, kept: Kept]]
    /\ phase \in {"up", "down", "loaded", "synced"}
    /\ boots \in 0..MaxBoots

Serving(r) == request[r].at \notin {"none", "done"}
Quiet == phase = "up" /\ run.at = "idle" /\ \A r \in Requests : ~Serving(r)

-----------------------------------------------------------------------------
(* Requests *)

\* The record is read; nothing else keeps a request from its first step.
Begins(r) == phase = "up" /\ request[r].at = "none"

\* History: whether a request meets a deployment or another request.
Meets ==
    mishaps' = mishaps
      \cup (IF run.at # "idle" THEN {"deployment"} ELSE {})
      \cup (IF \E q \in Requests : Serving(q) THEN {"requests"} ELSE {})

Gets(r, pc, kept) == request' = [request EXCEPT ![r] = [at |-> pc, kept |-> kept]]
Proceeds(r, pc) == Gets(r, pc, request[r].kept)
Ends(r) == request' = [request EXCEPT ![r] = Done]

\* There is no such application, or the request is refused for what it asks.
Refused(r) ==
    /\ Begins(r)
    /\ Ends(r)
    /\ UNCHANGED <<serviceVars, ctr, table, runVars, historyVars, phase, boots>>

\* handleApplicationUpdate: the form's values go into the copy.
EditSettings(r) ==
    /\ Begins(r) /\ app # None
    /\ \E kind \in {"web", "worker"} : Gets(r, "editing", [app EXCEPT !.kind = kind])
    /\ Meets
    /\ UNCHANGED <<serviceVars, ctr, table, runVars, wanted, phase, boots>>

\* Until it calls Update the form changes the limits and the credentials where the
\* map's record may have them too, and an append to a list of domains may write
\* into the array of the map's record, when that has grown by another request.
ChangeShared(r) ==
    /\ request[r].at \in {"editing", "appending"}
    /\ ChangeInPlace
    /\ UNCHANGED <<ctr, table, runVars, historyVars, request, phase, boots>>

\* Update for a request.  When it is refused or fails, a change made in place stays.
UpdateFor(r, saved) ==
    /\ Update(request[r].kept, saved)
    /\ IF unsaved' THEN Mishap("apart") ELSE UNCHANGED mishaps

SaveSettings(r) ==
    /\ request[r].at = "editing"
    /\ \E saved \in Saves : UpdateFor(r, saved)
    /\ Ends(r)
    /\ UNCHANGED <<ctr, table, runVars, wanted, phase, boots>>

\* handleApplicationAddDomain: an append to an empty list makes a new one.
AddDomain(r) ==
    /\ Begins(r) /\ app # None /\ app.kind = "web"
    /\ Gets(r, IF app.domains THEN "appending" ELSE "relisting", [app EXCEPT !.domains = TRUE])
    /\ Meets
    /\ UNCHANGED <<serviceVars, ctr, table, runVars, wanted, phase, boots>>

\* handleApplicationDeleteDomain: the list is built anew.
RemoveDomain(r) ==
    /\ Begins(r) /\ app # None
    /\ \E left \in {FALSE, app.domains} : Gets(r, "relisting", [app EXCEPT !.domains = left])
    /\ Meets
    /\ UNCHANGED <<serviceVars, ctr, table, runVars, wanted, phase, boots>>

SaveDomains(r) ==
    /\ request[r].at \in {"appending", "relisting"}
    /\ \E saved \in Saves :
          /\ UpdateFor(r, saved)
          /\ IF Updates(request[r].kept, saved) THEN Proceeds(r, "saved") ELSE Ends(r)
    /\ UNCHANGED <<ctr, table, runVars, wanted, phase, boots>>

\* The route is looked at after the mutex is released, by the status the copy has
\* by then (see SaveStatus); with the last domain it goes in any case.
DecideRoute(r) ==
    /\ request[r].at = "saved"
    /\ IF ~request[r].kept.domains THEN Gets(r, "removing", None)
       ELSE IF request[r].kept.status = "running" THEN Gets(r, "upserting", None)
       ELSE Ends(r)
    /\ UNCHANGED <<serviceVars, ctr, table, runVars, historyVars, phase, boots>>

\* The error of either is dropped.
PushDomains(r) ==
    /\ request[r].at = "upserting"
    /\ table' \in Upserted
    /\ Ends(r)
    /\ UNCHANGED <<serviceVars, ctr, runVars, historyVars, phase, boots>>

\* Mutant of RemoveRoute: the route stays.
RemoveRouteSkipped(r) ==
    /\ request[r].at = "removing"
    /\ Ends(r)
    /\ UNCHANGED <<serviceVars, ctr, table, runVars, historyVars, phase, boots>>

RemoveRoute(r) ==
    /\ request[r].at = "removing"
    /\ table' = FALSE
    /\ Ends(r)
    /\ UNCHANGED <<serviceVars, ctr, runVars, historyVars, phase, boots>>

\* handleApplicationStart, handleApplicationStop, handleApplicationRestart, which
\* use the copy for its container
Operate(r) ==
    /\ Begins(r) /\ app # None /\ app.container # None
    /\ \E pc \in {"starting", "stopping", "restarting"} : Gets(r, pc, app.container)
    /\ Meets
    /\ UNCHANGED <<serviceVars, ctr, table, runVars, wanted, phase, boots>>

\* History: starting the container that a run is just removing does not count.
DockerStart(r) ==
    /\ request[r].at \in {"starting", "startingAgain"}
    /\ StartContainer(request[r].kept)
    /\ wanted' = (wanted \/ ~Replacing(request[r].kept))
    /\ Proceeds(r, "toRunning")
    /\ UNCHANGED <<serviceVars, table, runVars, mishaps, phase, boots>>

DockerStop(r) ==
    /\ request[r].at = "stopping"
    /\ StopContainer(request[r].kept)
    /\ wanted' = FALSE
    /\ Proceeds(r, "toStopped")
    /\ UNCHANGED <<serviceVars, table, runVars, mishaps, phase, boots>>

\* The container is no longer there, Docker refuses, or the client has left; the
\* status is not looked at.
StartRefused(r) ==
    /\ request[r].at = "starting"
    /\ CutOff(StartContainer(request[r].kept))
    /\ Ends(r)
    /\ UNCHANGED <<serviceVars, table, runVars, wanted, phase, boots>>

StopRefused(r) ==
    /\ request[r].at = "stopping"
    /\ CutOff(StopContainer(request[r].kept))
    /\ wanted' = (wanted /\ ctr' = ctr)
    /\ Ends(r)
    /\ UNCHANGED <<serviceVars, table, runVars, phase, boots>>

\* A restart goes on when the stop has failed.
DockerRestart(r) ==
    /\ request[r].at = "restarting"
    /\ \/ StopContainer(request[r].kept) /\ wanted' = FALSE
       \/ UNCHANGED <<ctr, wanted>>
    /\ Proceeds(r, "startingAgain")
    /\ UNCHANGED <<serviceVars, table, runVars, mishaps, phase, boots>>

\* The container was stopped and does not start again, or nobody waits for it any
\* more: the user is told, and the record still says that it runs.
RestartFails(r) ==
    /\ request[r].at = "startingAgain"
    /\ \/ UNCHANGED ctr
       \/ "docker" \in Faults /\ StartContainer(request[r].kept)
    /\ Ends(r)
    /\ Mishap("docker")
    /\ UNCHANGED <<serviceVars, table, runVars, wanted, phase, boots>>

\* UpdateStatus with the copy's container; its error is dropped.
SetsStatus(status, container) ==
    \E saved \in Saves :
        /\ UpdateStatus(status, container, saved)
        /\ IF saved \/ app = None THEN UNCHANGED mishaps ELSE Mishap("save")

\* Requests whose copy has become the record in the map, to which UpdateStatus
\* writes; a choice, as an equal record may have replaced it.
Sharing == SUBSET {r \in Requests : request[r].at = "saved" /\ request[r].kept = app}

SaveStatus(r) ==
    /\ request[r].at \in {"toRunning", "toStopped"}
    /\ SetsStatus(IF request[r].at = "toRunning" THEN "running" ELSE "stopped",
                  request[r].kept)
    /\ \E sharing \in Sharing :
          request' = [q \in Requests |->
                        IF q = r THEN Done
                        ELSE IF q \in sharing THEN [at |-> "saved", kept |-> app']
                        ELSE request[q]]
    /\ UNCHANGED <<ctr, table, runVars, wanted, phase, boots>>

\* handleApplicationDelete does not ask whether a deployment is active.
DeleteApplication(r) ==
    /\ Begins(r) /\ app # None
    /\ \/ Delete
       \/ "save" \in Faults /\ DeleteFails
    /\ Ends(r)
    /\ Mishap("delete")
    /\ UNCHANGED <<ctr, table, runVars, wanted, phase, boots>>

\* handleApplicationCreate, handleAPICreateApplication: the highest number is
\* taken again once its application is deleted.
CreateApplication(r) ==
    /\ Begins(r)
    /\ \E record \in NewRecords, saved \in Saves : Create(record, saved)
    /\ Ends(r)
    /\ UNCHANGED <<ctr, table, runVars, historyVars, phase, boots>>

\* handleSystemPrune: Docker removes every container that does not run, the one
\* of an application that was stopped and the one a run has not started yet too.
SystemPrune(r) ==
    /\ Begins(r)
    /\ ctr' = [d \in Deployments |-> IF ctr[d] = "running" THEN ctr[d] ELSE "absent"]
    /\ Ends(r)
    /\ Mishap("prune")
    /\ UNCHANGED <<serviceVars, table, runVars, wanted, phase, boots>>

\* A record can name a container from the step on in which its run switches to it.
Named(d) ==
    d \in Deployments =>
      outcome[d] # "none" /\ (d = run.dep => run.at \in {"stopOld", "removeOld"})

\* handleBackupImport: the files first, then the records in memory.  An archive
\* need not have the application.
ImportBackup(r) ==
    /\ Begins(r)
    /\ file' \in {file} \cup {record \in Archives : Named(record.container)}
    /\ Gets(r, "importing", None)
    /\ Mishap("import")
    /\ UNCHANGED <<app, unsaved, ctr, table, runVars, wanted, phase, boots>>

ReloadApplications(r) ==
    /\ request[r].at = "importing"
    /\ Reload
    /\ Ends(r)
    /\ UNCHANGED <<ctr, table, runVars, historyVars, phase, boots>>

\* The archive is broken after the application's record, so that nothing is
\* reloaded, or some record cannot be read, an error that is dropped.
ReloadFails(r) ==
    /\ request[r].at = "importing"
    /\ Ends(r)
    /\ Mishap("apart")
    /\ UNCHANGED <<serviceVars, ctr, table, runVars, wanted, phase, boots>>

RequestStep(r) ==
    \/ Refused(r)
    \/ EditSettings(r)
    \/ ChangeShared(r)
    \/ SaveSettings(r)
    \/ AddDomain(r)
    \/ RemoveDomain(r)
    \/ SaveDomains(r)
    \/ DecideRoute(r)
    \/ PushDomains(r)
    \/ RemoveRoute(r)
    \/ Operate(r)
    \/ DockerStart(r)
    \/ DockerStop(r)
    \/ StartRefused(r)
    \/ StopRefused(r)
    \/ DockerRestart(r)
    \/ RestartFails(r)
    \/ SaveStatus(r)
    \/ DeleteApplication(r)
    \/ CreateApplication(r)
    \/ SystemPrune(r)
    \/ ImportBackup(r)
    \/ ReloadApplications(r)
    \/ ReloadFails(r)

-----------------------------------------------------------------------------
(* Deployments *)

Deploy(d) ==
    /\ phase = "up"
    /\ Execute(d)
    /\ IF \E r \in Requests : Serving(r) THEN Mishap("deployment") ELSE UNCHANGED mishaps
    /\ UNCHANGED <<wanted, request, phase, boots>>

DeployStep == ExecuteStep /\ UNCHANGED <<request, phase, boots>>

-----------------------------------------------------------------------------
(* The end and the start of the process *)

\* The process ends, anywhere, and on a reboot the containers with it.
ProcessEnds ==
    /\ phase # "down" /\ boots < MaxBoots
    /\ phase' = "down"
    /\ app' = None /\ unsaved' = FALSE /\ UNCHANGED file
    /\ table' = FALSE
    /\ run' = NoRun
    /\ outcome' = [d \in Deployments |->
                     IF outcome[d] = "running" THEN "failed" ELSE outcome[d]]
    /\ request' = [r \in Requests |-> IF Serving(r) THEN Done ELSE request[r]]
    /\ boots' = boots + 1
    /\ \/ UNCHANGED <<ctr, wanted>>
       \/ /\ ctr' = [d \in Deployments |->
                       IF ctr[d] = "running" THEN "exited" ELSE ctr[d]]
          /\ wanted' = FALSE
    /\ UNCHANGED mishaps

\* Docker's restart policy, "unless-stopped".
DockerRevives(d) ==
    /\ ctr[d] = "exited"
    /\ ctr' = [ctr EXCEPT ![d] = "running"]
    /\ UNCHANGED <<serviceVars, table, runVars, historyVars, request, phase, boots>>

LoadApplications ==
    /\ phase = "down"
    /\ Load
    /\ phase' = "loaded"
    /\ UNCHANGED <<ctr, table, runVars, historyVars, request, boots>>

\* An application that was running when its record was saved gets its route.
SyncRoutes ==
    /\ phase = "loaded"
    /\ phase' = "synced"
    /\ IF app # None /\ app.status = "running" /\ app.domains
       THEN table' \in Upserted
       ELSE UNCHANGED table
    /\ UNCHANGED <<serviceVars, ctr, runVars, historyVars, request, boots>>

\* Mutant of Reconcile: only applications without a container are looked at.
ReconcileMissingOnly ==
    /\ phase = "synced"
    /\ phase' = "up"
    /\ IF app # None /\ app.status = "running" /\ \A d \in Deployments : ~Exists(d)
       THEN SetsStatus("stopped", None)
       ELSE UNCHANGED <<serviceVars, mishaps>>
    /\ UNCHANGED <<ctr, table, runVars, wanted, request, boots>>

\* Of several containers of the application the last one that Docker lists is
\* taken for the application's own.
Reconcile ==
    /\ phase = "synced"
    /\ phase' = "up"
    /\ \/ /\ app = None
          /\ UNCHANGED <<serviceVars, mishaps>>
       \/ /\ app # None /\ \A d \in Deployments : ~Exists(d)
          /\ IF app.status = "running" THEN SetsStatus("stopped", None)
                                       ELSE UNCHANGED <<serviceVars, mishaps>>
       \/ /\ app # None
          /\ \E d \in Deployments :
                LET target == IF ctr[d] = "running" THEN "running" ELSE "stopped" IN
                /\ Exists(d)
                /\ IF app.status # target \/ app.container # d
                   THEN SetsStatus(target, d)
                   ELSE UNCHANGED <<serviceVars, mishaps>>
       \/ /\ "docker" \in Faults  \* Docker does not answer: everything is left as it was
          /\ UNCHANGED serviceVars /\ Mishap("docker")
    /\ UNCHANGED <<ctr, table, runVars, wanted, request, boots>>

-----------------------------------------------------------------------------
Init ==
    /\ app \in NewRecords /\ file = app /\ unsaved = FALSE
    /\ ctr = [d \in Deployments |-> "absent"]
    /\ table = FALSE
    /\ run = NoRun
    /\ outcome = [d \in Deployments |-> "none"]
    /\ mishaps = {}
    /\ wanted = FALSE
    /\ request = [r \in Requests |-> NoRequest]
    /\ phase = "up"
    /\ boots = 0

Next ==
    \/ \E r \in Requests : RequestStep(r)
    \/ \E d \in Deployments : Deploy(d)
    \/ DeployStep
    \/ ProcessEnds
    \/ \E d \in Deployments : DockerRevives(d)
    \/ LoadApplications
    \/ SyncRoutes
    \/ Reconcile

Spec == Init /\ [][Next]_vars

-----------------------------------------------------------------------------
(* Properties *)

Undisturbed(by) == mishaps \cap by = {}

\* "Containers must pass health checks and proxy configuration must be verified
\* before stopping previous containers": once an application was switched to a
\* container or started, one of its containers runs until a request or a reboot
\* stops it, whatever deployments fail, are cut short or meet a request, and
\* whatever is lost on the way.
NoDowntime == wanted => \E d \in Deployments : ctr[d] = "running"

\* "Previous container removed": between deployments there is the container the
\* record names and no other, after failures too, if nothing but deployments
\* and requests one after the other has happened and no archive was imported.
OneVersion ==
    Quiet /\ boots = 0
      /\ Undisturbed({"deployment", "save", "docker", "delete", "prune", "import"})
      => {d \in Deployments : Exists(d)} = {app.container} \ {None}

\* An application recorded as running runs, across restarts and reboots, unless an
\* archive has brought back what was true when it was made.
StatusIsTrue ==
    Quiet /\ app # None
      /\ Undisturbed({"deployment", "requests", "save", "docker", "delete", "import"})
      => (app.status = "running" => ctr[app.container] = "running")

\* While the process lives the record in memory and the one in the file differ
\* only while a request is between its change of the one and of the other: an
\* import, or a form whose change in place Update has not written yet.  However
\* calls interleave nothing stays different but after a save whose error was
\* dropped, a form that Update has refused or could not write, or an import that
\* was not loaded.
MemoryIsSaved ==
    phase # "down" /\ Undisturbed({"save", "delete", "apart"}) =>
      /\ app # file => \E r \in Requests : request[r].at = "importing"
      /\ unsaved => \E r \in Requests : request[r].at \in {"editing", "appending"}

\* "worker and internal services must NEVER expose public ingress routes", also
\* after they were something else, unless an import made them so.
WorkersNotExposed ==
    Quiet /\ app # None /\ Undisturbed({"deployment", "requests", "delete", "import"})
      => (app.kind = "worker" => ~table)

\* "LITEPLOY ensures your new container is fully ready to accept traffic before
\* cutting over routing from the old container": a container whose health is
\* still being checked answers no request.
ReadyBeforeTraffic == run.at = "health" => run.dep \notin Answering

\* "Reconciles container states and proxy routes automatically on VPS reboot":
\* an application found running at a start is routed.
RoutedAfterBoot ==
    [][phase = "synced" /\ phase' = "up" /\ app' # None =>
         (app'.status = "running" /\ app'.domains => table')]_vars

=============================================================================
