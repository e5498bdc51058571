------------------------------ MODULE Pipeline ------------------------------
(***************************************************************************)
(* internal/deployment/pipeline.go: Execute, for one application.  It      *)
(* works on a copy of the application's record, creates a container,       *)
(* starts it, waits until it is healthy, routes the application's domains, *)
(* writes the copy back and removes the container before it.  A failure    *)
(* removes the new container and leaves the old one.                       *)
(*                                                                         *)
(* The deployment service runs one Execute of an application at a time     *)
(* (OneRunPerApp of DeploymentService), so that there is one run.  Docker  *)
(* is external.  Of the proxy manager there is the application's entry in  *)
(* its table; what becomes of a push is the matter of ProxyManager.        *)
(***************************************************************************)
EXTENDS ApplicationService, FiniteSets

CONSTANT Faults  \* what may go wrong: saves, Docker's answers to calls whose errors
                 \* are dropped, a conflict with another application's route

ASSUME FaultsAssumption == Faults \subseteq {"save", "docker", "conflict"}

VARIABLES
    ctr,      \* Docker's containers of the application
    table,    \* whether the proxy manager's table has an entry of the application
    run,      \* where Execute is, its deployment and its copy of the record
    outcome,  \* what has become of each deployment
    mishaps,  \* history: what has disturbed the system since the beginning
    wanted    \* history: a deployment has switched to its container, or one was started
              \* on request, and since then no request or reboot has stopped any

runVars     == <<run, outcome>>
historyVars == <<mishaps, wanted>>

RunPCs == {"idle", "sources", "create", "start", "health", "route", "save",
           "stopOld", "removeOld", "stopNew", "removeNew"}
NoRun == [at |-> "idle", dep |-> None, copy |-> None]

\* absent, created but never started, running, stopped on request, exited
\* because the host went down
ContainerStates == {"absent", "created", "running", "stopped", "exited"}

\* The table after an upsert.  A conflict leaves it as it was; a push that fails
\* does not.
Upserted == {TRUE} \cup (IF "conflict" \in Faults THEN {table} ELSE {})

Exists(d) == ctr[d] # "absent"
Saves == IF "save" \in Faults THEN BOOLEAN ELSE {TRUE}
Mishap(what) == mishaps' = mishaps \cup {what}

-----------------------------------------------------------------------------
(* Docker, external: what a call does when it succeeds. *)

CreateContainer(d) == ~Exists(d) /\ ctr' = [ctr EXCEPT ![d] = "created"]
StartContainer(d)  == Exists(d) /\ ctr' = [ctr EXCEPT ![d] = "running"]
StopContainer(d)   ==
    Exists(d) /\ ctr' = [ctr EXCEPT ![d] = IF @ = "running" THEN "stopped" ELSE @]
RemoveContainer(d) == ctr' = [ctr EXCEPT ![d] = "absent"]

\* Where a request for a routed domain goes.  A route names its upstream by an
\* alias, which each container of the application has from its creation; Docker
\* resolves it to any of those that run.
Answering == {d \in Deployments : table /\ ctr[d] = "running"}

\* A call whose error the caller drops.
Attempt(call) ==
    \/ call /\ UNCHANGED mishaps
    \/ "docker" \in Faults /\ UNCHANGED ctr /\ Mishap("docker")

\* A call that fails for its caller, whose context may be done; Docker may have
\* carried it out all the same.
CutOff(call) ==
    \/ UNCHANGED <<ctr, mishaps>>
    \/ "docker" \in Faults /\ call /\ Mishap("docker")

-----------------------------------------------------------------------------
(* Execute *)

At(pc) == run.at = pc
GoTo(pc) == run' = [run EXCEPT !.at = pc]
End(result) == run' = NoRun /\ outcome' = [outcome EXCEPT ![run.dep] = result]

\* The run begins with a copy of the record, and fails if there is none.
Execute(d) ==
    /\ At("idle") /\ outcome[d] = "none"
    /\ IF app = None
       THEN UNCHANGED run /\ outcome' = [outcome EXCEPT ![d] = "failed"]
       ELSE /\ run' = [at |-> "sources", dep |-> d, copy |-> app]
            /\ outcome' = [outcome EXCEPT ![d] = "running"]
    /\ UNCHANGED <<serviceVars, ctr, table>>

\* preparing and building: the sources and the image, or the image of a
\* rollback's target.  Nothing outside the run depends on either.
ObtainImage ==
    /\ At("sources")
    /\ GoTo("create")
    /\ UNCHANGED <<serviceVars, ctr, table, outcome, historyVars>>

\* starting
CreateNew ==
    /\ At("create")
    /\ CreateContainer(run.dep)
    /\ GoTo("start")
    /\ UNCHANGED <<serviceVars, table, outcome, historyVars>>

\* No sources, no image, or the run was cancelled: the run ends with nothing to
\* undo.
FailsEarly ==
    /\ At("sources")
    /\ End("failed")
    /\ UNCHANGED <<serviceVars, ctr, table, historyVars>>

\* The run ends without a look at whether Docker created the container.
CreateFails ==
    /\ At("create")
    /\ CutOff(CreateContainer(run.dep))
    /\ End("failed")
    /\ UNCHANGED <<serviceVars, table, wanted>>

StartNew ==
    /\ At("start")
    /\ StartContainer(run.dep)
    /\ GoTo("health")
    /\ UNCHANGED <<serviceVars, table, outcome, historyVars>>

StartFails ==
    /\ At("start")
    /\ CutOff(StartContainer(run.dep))
    /\ GoTo("removeNew")
    /\ UNCHANGED <<serviceVars, table, outcome, wanted>>

\* waitForHealth
Healthy ==
    /\ At("health") /\ ctr[run.dep] = "running"
    /\ GoTo("route")
    /\ UNCHANGED <<serviceVars, ctr, table, outcome, historyVars>>

\* The container has exited or is unhealthy, or the time is over, or the run was
\* cancelled.
Unhealthy ==
    /\ At("health")
    /\ GoTo("stopNew")
    /\ UNCHANGED <<serviceVars, ctr, table, outcome, historyVars>>

\* Workers, internal services and applications without domains have no route.
Routed(record) == record.kind = "web" /\ record.domains

RouteNew ==
    /\ At("route")
    /\ table' = (table \/ Routed(run.copy))
    /\ GoTo("save")
    /\ UNCHANGED <<serviceVars, ctr, outcome, historyVars>>

\* A conflict, or a push that fails.
RouteFails ==
    /\ At("route") /\ Routed(run.copy)
    /\ table' \in Upserted
    /\ GoTo("stopNew")
    /\ UNCHANGED <<serviceVars, ctr, outcome, historyVars>>

\* The failure of a run after StartContainer; the run's context may be done, so
\* these calls have one of their own.
StopNew ==
    /\ At("stopNew")
    /\ Attempt(StopContainer(run.dep))
    /\ GoTo("removeNew")
    /\ UNCHANGED <<serviceVars, table, outcome, wanted>>

\* Mutant of RemoveNew: the container before it is removed.
RemoveNewTakesOld ==
    /\ At("removeNew")
    /\ Attempt(IF run.copy.container # None THEN RemoveContainer(run.copy.container)
                                            ELSE RemoveContainer(run.dep))
    /\ End("failed")
    /\ UNCHANGED <<serviceVars, table, wanted>>

RemoveNew ==
    /\ At("removeNew")
    /\ Attempt(RemoveContainer(run.dep))
    /\ End("failed")
    /\ UNCHANGED <<serviceVars, table, wanted>>

\* Mutant of Switched: the deployment's status is taken for the application's.
SwitchedToSuccess == [run.copy EXCEPT !.status = "success", !.container = run.dep]

\* What the run changes in its copy.
Switched == [run.copy EXCEPT !.status = "running", !.container = run.dep]

\* The copy, with what the run has changed, is written back whole.  An error is
\* dropped, and the run goes on to remove the old container.
SaveApp ==
    /\ At("save")
    /\ \E saved \in Saves :
          /\ Update(Switched, saved)
          /\ IF Updates(Switched, saved) THEN UNCHANGED mishaps ELSE Mishap("save")
    /\ IF run.copy.container \notin {None, run.dep}
       THEN GoTo("stopOld") /\ UNCHANGED outcome
       ELSE End("success")
    /\ wanted' = TRUE
    /\ UNCHANGED <<ctr, table>>

StopOld ==
    /\ At("stopOld")
    /\ Attempt(IF Exists(run.copy.container) THEN StopContainer(run.copy.container)
                                             ELSE UNCHANGED ctr)
    /\ GoTo("removeOld")
    /\ UNCHANGED <<serviceVars, table, outcome, wanted>>

\* Mutant of RemoveOld: the old container is only stopped.
RemoveOldSkipped ==
    /\ At("removeOld")
    /\ End("success")
    /\ UNCHANGED <<serviceVars, ctr, table, historyVars>>

RemoveOld ==
    /\ At("removeOld")
    /\ Attempt(RemoveContainer(run.copy.container))
    /\ End("success")
    /\ UNCHANGED <<serviceVars, table, wanted>>

\* The run has switched to its own container and removes this one.
Replacing(d) == run.at \in {"stopOld", "removeOld"} /\ run.copy.container = d

ExecuteStep ==
    \/ ObtainImage
    \/ CreateNew
    \/ FailsEarly
    \/ CreateFails
    \/ StartNew
    \/ StartFails
    \/ Healthy
    \/ Unhealthy
    \/ RouteNew
    \/ RouteFails
    \/ StopNew
    \/ RemoveNew
    \/ SaveApp
    \/ StopOld
    \/ RemoveOld

=============================================================================
