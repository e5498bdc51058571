# Liteploy: a verification project

Liteploy is a self-hosted deployment server: one Go process that clones a
repository, builds an image with Docker, starts a container and routes a domain
to it through Caddy. All of its state is in memory and in JSON files. This
directory holds TLA+ models of its core, the TLC configurations that check
them, and TLAPS proofs of what matters most.

Paths below are relative to the repository. `PROJECT.json` maps every
definition to the lines it stands for.

## 1. The system

| Part | Its state | What it does | Meets others through |
|---|---|---|---|
| **Deployment service** `internal/deployment/service.go`, `deployment.go` | `deployments` (map by number), `cancelFns`, the channel `jobQueue` (64), `appLocks`, `shutdownCh`; one `meta.json` per deployment | `Enqueue`, `EnqueueRollback`, `Cancel`, `worker`/`runJob`, `PruneOldDeployments`, `ClearFailedDeployments`, `Shutdown`, `loadAll`, readers | calls `Executor.Execute`; called by handlers, webhook, CLI; records read by the log streams |
| **Pipeline** `internal/deployment/pipeline.go` | none of its own; changes the deployment record, the application record, containers, images, routes | `Execute`: prepare, build or take an image, create and start a container, wait for health, route, switch over, remove the old container | Docker, git, application service, proxy manager |
| **Application service** `internal/application/` | map of applications and `application.json`, env and project files | `Create`, `Get` (a copy of the top level), `Update` (file, then map), `UpdateStatus` (map, then file), `Delete`, `Reload`, env, projects | handlers read a copy and write it back; so do the pipeline and `Reconcile` |
| **Proxy manager** `internal/proxy/proxy.go` | `routes`, `lastKnownGood`, `dashboard`; no mutex | `UpsertRoute`, `RemoveRoute`, `SetDashboardRoute`, `apply`, `buildCaddyConfig` | pushes whole configurations to Caddy's admin API; called by the pipeline, handlers and `main` at once |
| **Settings** `internal/system/settings.go` | one record in memory and in a file | `Save`, `SetPrimaryDomain`, `SkipSetup` | handlers, which push the dashboard route too |
| **Recovery** `internal/system/recovery.go` | none | `Reconcile`, once, before the HTTP server: application states from Docker, interrupted deployments | application service, deployment service, Docker |
| **Process life** `cmd/liteploy/main.go` | none | order of start-up, route synchronisation, signals, shutdown, CLI | everything |
| **HTTP handlers** `internal/api/` | none of their own | forms to service calls, several calls per request | all services, concurrently |
| **Log streaming** `handlers_sse.go`, `service.go:468-503` | an offset per reader | tails a log that is still written | build log, deployment status |
| **Webhook** `internal/webhook/` | none | signature, parsing, `Enqueue` | deployment service |
| **Storage** `internal/storage/` | the data directory | `WriteJSON` (temporary file, sync, rename), `ReadJSON`, import and export | everything that persists |
| **Users** `internal/auth/` | map of users and its file; sessions are signed cookies | first admin, passwords | handlers, CLI |
| **Git** `internal/git/` | a working copy per application, kept between deployments | `Sync`: clone, or fetch and reset | pipeline |
| **Docker client**, **configuration**, **statistics**, **web interface** | none that outlives a call | input and output | pipeline, handlers |

What makes each of them hard, and what makes it right:

- *Deployment service.* Requests, the webhook, a pool of workers, deletions and
  shutdown interleave. Its mutex `mu` is released between the check for an
  active deployment, the choice of a number and the insertion; records are
  changed outside it; every save can fail; the process can die between memory
  and file; the channel can be full. Right: one run per application at a time;
  an accepted job is run once, neither lost nor doubled; a cancel reaches the
  job it names; a record at rest is on disk; no final status is left; only
  finished deployments are deleted; every call returns and what it accepted
  ends.
- *Pipeline.* A sequence of external effects with compensation, working on a
  copy of the application that others change meanwhile. Right: the route points
  to a container that runs; on failure the old container stays; no container is
  left that no record knows; no configuration change is lost.
- *Proxy manager.* Concurrent callers without a mutex, pushes that time out,
  are refused, or arrive out of order. Right: after the last push Caddy serves
  the table, and a refused change leaves both as they were.
- *Application service, settings, users.* Read, modify, write with a copy.
  Right: no update is lost; memory and file agree when an operation has failed.
- *Log streaming.* Right: a reader gets the whole log, in order, and ends.
- *Storage.* Right: after a crash a file is the old one or the new one.
- *Git.* The copy outlives deployments, kills and changes of the branch. Right:
  what is built is the latest commit of the branch, and a copy can be used again.
- *Webhook.* Deliveries come late, twice or out of order. Right: a push is
  deployed, and never replaced by an older one.

`PROJECT.json` lists these as hazards at their lines.

## 2. Plan

Done:

1. `Deployment`: the status graph.
2. `DeploymentService`: the service with its workers, deletions, shutdown,
   crashes and restarts. `DeploymentEngine`: what it promises, and the
   refinement. Proofs of both.

3. `CaddyConfig` and `ProxyManager`: the table of routes, the list of matchers,
   `apply` with its rollback, concurrent callers, Caddy as an external part.
   Proofs for calls that do not overlap, and of who answers a request.

4. `ApplicationService`, `Pipeline`, `ApplicationLife`: the life of one
   application. `Execute` step by step with Docker, the requests that change the
   application, the import of an archive, crashes, reboots and what a start does. Proofs of what holds
   however they interleave.

5. `Storage`, `SystemSettings`, `UserStore`, `DataDirectory`: the steps of
   `atomicWrite` and `ImportBackup` under crashes and losses of power, the
   settings with their handlers, the accounts, and the command that resets a
   password as a second process. Proofs of all its properties.

6. `WorkingCopy`, `LogStream`, `PushToDeploy`: from a push to a running version,
   over `DeploymentEngine`, and the browsers that follow the log. Proofs of all
   its safety properties.

7. `DeploymentRecordsProofs`, `ApplicationTruthProofs`, the second half of
   `DataDirectoryProofs`: jobs, cancels, statuses and files of deployments, and
   what is in the map when calls do not overlap, which is the history that
   `DeploymentHistory` describes; that the record of an application is true; that memory is on disk and the dashboard's route follows the settings.

Next, in this order:

8. The env file and the projects of an application; the creation of Caddy's
   container.

## 3. The deployment service

### Modules

- `Deployment`: `Status`, `IsTerminal`, `IsActive`, `ValidTransition` and
  `Transition` of `deployment.go`. `Transition` leaves the status alone when the
  graph has no such edge, and `Fail` goes through it.
- `DeploymentService`: the state machine.
- `DeploymentEngine`: the abstract specification. A deployment is accepted, is
  waiting, runs, finishes; two of one application never run together; the end of
  the process loses what was not finished.
- `DeploymentHistory`: a second one, for requests that do not overlap. The history
  is what is shown under each number, and which numbers are over: a new deployment
  gets a number above all others when all others are over, what is over stays so
  until it is forgotten, and only what is over is forgotten; a restart loses the
  history of memory and loads one in which no deployment has two numbers.
- `MCDeploymentService`: sets and symmetry for TLC.
- `DeploymentServiceProofs`, `DeploymentEngineProofs`, `DeploymentRecordsProofs`:
  the theorems.

### State

A call of `Enqueue` or `EnqueueRollback` names the `*Deployment` it allocates:
`dep[c]` is the object, and `deployments[i] = c` says that the map holds that
object under number `i`. As in the code the map has no application in its key.
`disk[a][i]` is the file `applications/<a>/deployments/<i>/meta.json`. It holds
a record and remembers whose call it was, so that a loaded object keeps its
identity. `cancelFns[i]` is the worker whose context the function under `i`
cancels, or `Discarded` for the context that `Enqueue` makes and nobody reads.
`callPC`, `workerPC` are the program points of calls and workers; `phase` is
the life of the process; `doomed` and `removing` are the lists and the
loop position of prunes and clears. `clock` stands for `CreatedAt`.

### Actions

| Code | Actions |
|---|---|
| `Enqueue` | `EnqueueCheck`, `NumberDeployment`, `PersistNew` or `PersistNewFails`, `InsertNew`, `RegisterCancel`, `SendJob` or `QueueFull` and `PersistRefused` |
| `EnqueueRollback` | `RollbackTarget`, `RollbackCheck`, `NumberDeployment`, `PersistNew` or `PersistNewFails`, `InsertNew`, `ResaveRollback`, `SendJob` (which waits) |
| `Cancel` | `Cancel` |
| `worker` | `TakeJob`, `WorkerReturns` |
| `runJob` | `LockApp`, `StartJob` or `OpenLogFails`, Execute's steps, `ListOld`, `FinishJob` |
| `updateDeployment`, after each change `runJob` makes | `StoreRecord` (the map), then `PersistStart`, `PersistSuccess` or `PersistOutcome` (the file) |
| `Execute`, by its effect on the record | `ExecuteStage`, `ExecuteRollbackImage`, `ExecuteSucceeds`, `ExecuteFails` |
| `PruneOldDeployments`, `ClearFailedDeployments` | `ListOld`, `ClearFailedList`, `DeleteEntry`, `RemoveDirectory` |
| `Shutdown` | `CloseShutdown`, `CancelAll`, `ShutdownReturns` |
| `NewService`, `loadAll`; `Reconcile`; `main` | `Boot`; `Reconcile`; `ProcessEnds` |

A step ends where another goroutine or the disk can see the state. An assignment
to `dep.Status` is one step, since the map shares the object; `updateDeployment` is
two more, the map and the file. One simplification loses nothing: taking a mutex is
joined with the next step of its holder, and releasing it with the one before, for
what lies between is local to the holder.

Errors: `Events` says what can go wrong in a run. `diskFault` is an error the
code acts on (the first save of a new record, the build log's file). `saveLost`
is one it only logs. `tornRead` is a data race: workers assign `dep.Status`
without `mu`, and `Enqueue` reads it under `RLock`. A Go string is two words, so
the read can see neither the old nor the new value, and then the deployment does
not look active. `earlyClear` is a clear that lists the deployments of an
application after a run has failed and before `updateDeployment` has written the map.

Left out here: the build log, error messages, timestamps other than the order of
creation; the deletion of an application; what `Execute` does to containers,
routes and the application record (section 5). An arbitrary failure of
`Execute` is `ExecuteFails`, enabled throughout it.

### Runs

| Run | Asks | Instance |
|---|---|---|
| `safety` | Are runs exclusive, jobs neither lost nor doubled, cancels on target, records at rest saved, statuses on the graph; does the service implement `DeploymentEngine`? | 2 applications, 2 calls, 2 workers, 2 numbers, channel of 1, 2 starts; shutdown, cancels, file errors, torn reads |
| `serial` | When calls do not overlap: is one deployment active, are only finished ones deleted, does none take another's place, does no cancel function outlive its run; does the service implement `DeploymentHistory`? | 1 application, 3 calls one at a time, 1 worker, a prune that keeps 1, a clear that is not early, 2 starts; file errors, lost saves |
| `live` | Does every call return and what it accepted end? | 1 application, 3 calls, 2 at once, channel of 1; torn reads, which let several jobs of the application in |
| `collision` | "all deployments for a given application" with 2 applications | violated |
| `recovery` | "Incomplete deployments ... are marked FAILED" after a restart | violated |

*Bounds.* The channel of one place is full with one job waiting, so `QueueFull`
and the waiting send happen; two workers meet at a mutex; two numbers let two
applications collide and one application reuse a number; `MaxKeep = 1` makes
the second success prune the first; two starts are one crash, in any state, and
one recovery. A third call is needed only where a prune must have something old
beside something active (`serial`) and where a send must wait behind a full
channel and a busy worker (`live`). Shutdown and cancels beside each other multiply
the states, so `safety` leaves the clear to `serial`, which checks `CancelHitsItsJob`
too, for a number comes back after a clear, and to the proofs, which take any number
of handlers; in `safety` two applications share numbers. `IDs`, `MaxInFlight` and `MaxBoots` are
bounds of the model: the code has no limit on numbers, requests or restarts.
`safety` and `serial` use symmetry of calls and workers, which no action tells
apart; `live` uses none.

Deadlock is not checked: after the last start the process may be down for good,
and after the last call the service has nothing to do.

*Fairness* (`live` only): weak fairness of each call's next step, of each
worker's, of `Boot` and `Reconcile`. The Go scheduler gives it to a runnable
goroutine. That `Execute` returns rests on the timeouts of the clone and of the
health check, and for the build on the Docker daemon alone: `buildTimeout` is
stored and never used (`pipeline.go:84`). Nobody is obliged to call, cancel, clear, or stop the
process. Weak fairness is enough for the mutex and the channel, because there
are finitely many calls: a waiter can be passed over only finitely often.

*Deviations found* (in `findings`): deployments of two applications share keys
in the map; `Reconcile` marks copies, so an interrupted deployment blocks its
application for ever. Four more are in the model without a run of their own:

- "one active deployment per application at a time" (`service.go:7`) fails for
  calls that overlap, since `Enqueue` lets go of `mu` between its check and the
  insertion: `DS_serial.cfg` with `MaxInFlight = 2` shows it. `OneRunPerApp` and
  `JobConservation` hold all the same (`safety` has overlapping calls).
- The same sentence fails for calls that do not overlap, with one clear, because
  `updateDeployment` writes the map without looking (`service.go:390`). A run fails,
  which its record in the map shows at once (`service.go:303`, `308`); a clear deletes
  the entry; the next call gets the number; the write puts the failed record over
  the new deployment, and a further call finds nothing active. `DS_serial.cfg` with
  `"earlyClear"` among its `Events` shows it: `OneActivePerApp`, `DeletesOnlyFinished`,
  `HistoryKept` and `KeepsHistory` are violated, `CancelHitsItsJob` is not.
- "Cancel all active jobs." (`service.go:215`): a worker that takes a queued job,
  or gets its application's mutex, after `CancelAll` registers a function that
  nobody calls.
- "deletes all failed or cancelled deployments" (`service.go:357`): two clears that
  overlap can list the same numbers. When the first has deleted the largest, the
  next deployment gets its number, and the second clear deletes that one, queued or
  running: `DS_serial.cfg` with two `Handlers` shows it (`DeletesOnlyFinished`).

### Proofs

From `ConstantsAssumption` alone (numbers for applications and deployment
numbers, distinct markers, at least one worker, positive bounds), for every
number of applications, calls, workers and restarts:

- `TypeCorrect`: `Spec => []TypeOK`. The type invariant is inductive together
  with `WorkersHaveJobs` (a worker between the channel and its next visit to it
  has a job). It includes the capacity of the channel.
- `MutualExclusion`: `Spec => []OneRunPerApp`. `OneRunPerApp` alone is not
  inductive: it does not say who holds the mutex, nor that the application a
  worker has locked is still its job's application when it unlocks. `IInv` adds
  `JobsOK` (a job in the channel or in a worker's hands belongs to an accepted
  call, whose application is never changed, and is in one place), `HolderOK` (a
  worker in the locked part holds its application's mutex) and `DownOK` (a
  process that is down has no workers, calls or jobs).
- `Refinement`: `Spec => ImplementsEngine`. With `stage` and `owner` computed
  from the service's state, `SendJob` is `Accept`, `LockApp` is `Begin`,
  `FinishJob` is `Finish`, `ProcessEnds` is `Lose`; every other action changes
  neither. `IInv` supplies that the stage is well defined.

The proofs have a lemma per action or group of actions: those that move no job
(`JobsStay`) share one argument, and the few that move one have their own.

`DeploymentRecordsProofs` extends `IInv` to `RInv`, with what the status of a
record says of the job: `CallStatus` (a call that is under way has a "queued"
record; an accepted deployment has ended, or its job is in the channel or in a
worker's hands), `RunStatus` (the status of a worker's job at each point of
`runJob`), `FilesOK` (no file is of a call without a record; a process that is
down has no calls but those it lost) and `CancelHitsItsJob`. From it follow

- `JobsAreConserved`: `JobConservation`. That an accepted deployment which has not
  ended is somewhere is `CallStatus`; that it is nowhere twice is `JobsOK`.
- `CancelAlwaysHitsItsJob`: `CancelHitsItsJob`. Numbers may be shared by two
  applications; the proof shows that a later run under the number puts its own
  function there, and that a run which ends removes what is there.
- `StatusAlwaysFollowsGraph`: `StatusFollowsGraph`, by the program point of the
  one action that changes the status.
- `SettledAlwaysSaved`: `SettledIsSaved`, if `saveLost` is not in `Events`: a save
  whose error is dropped leaves the file behind for good, so `safety` has none
  either. `SavedInv` adds `Saved`: wherever a call or a worker is not between a change
  and its save, the file, if it is still that deployment's, is the record.

The last four are about requests that do not overlap. Their hypothesis is
`OneByOne`: one call is under way at a time (`MaxInFlight = 1`), one clear, there is
one application, since numbers are shared, no read of a status is torn, and no clear
is early. With overlapping calls or clears, an early clear (the deviations above) or
a second application
(`collision`) the code breaks the properties; the instance of `serial` satisfies the
hypothesis. Workers, calls in sequence, clears, restarts, the channel's capacity and
`MaxKeep` stay arbitrary, and a worker's prune, a clear and a call still interleave.

- `OneActiveAlways`: `OneActivePerApp`.
- `OnlyFinishedDeleted`: `DeletesOnlyFinished`.
- `HistoryAlwaysKept`: `HistoryKept`.
- `HistoryImplemented`: `KeepsHistory`, the refinement of `DeploymentHistory`.

None of them is inductive. What makes them true is that a number which a prune
or a clear has listed, and not yet deleted, does not come into use again:
`nextDeploymentID` would return it only if no larger number were left in the map,
and a prune leaves one that no clear deletes, that of the run that succeeded or of
the deployment after it. So `HInv` is `RInv` with `StoredOK` (a run that has failed
and not yet stored its record has its entry, which no clear has listed: so the late
write of the map changes nothing, `StoreKeepsMap`) and `SerialOK`: `OneAtATime` and
`EndedOK` (one deployment is open, and once its call has passed the check the others
have ended), `EntriesOK`, `FreshOK` and `OpenOK` (an entry has its own number, a new
number is above all entries and on nobody's list, the open deployment is the
largest), `PrunesOK` (what a prune has listed has ended, and a larger number that
the prune leaves is the run's own or the open one), `ClearsOK` (what a clear has
listed failed, and if it is gone already, there is a larger entry that the clear
leaves), `NumbersOK` (the files, which the next process loads), `FiniteOK` (the map
is finite, so `Max` is its largest number: `MaxIsLargest`) and `NothingOK`.

In the refinement the map is the history as it is, and a number is over when the
status of its deployment is final. `InsertNew` is `Create` (by `FreshOK`, `EndedOK`
and `OneAtATime`), the step that gives a run a final status is `End`, `DeleteEntry`
is `Forget`, or nothing when a prune and a clear have listed the same number and one
of them has deleted it, `ProcessEnds` is `Lose`, `Boot` is `Load` (by `NumbersOK`).
All else is not seen: the other steps of a call work on a record that is not in the
map yet (`HistoryAside`), those of a worker leave the map and whether its deployment
has ended (`HistoryUnseen`, `HistoryEnds`).

`CallsFinish` stays with TLC: liveness under fairness and ENABLED are out of the
prover's reach.

## 4. The proxy manager

`CaddyConfig` has the data: a route is a set of (host, pattern) pairs and an
upstream, a table gives each owner a route or none. The dashboard's domain and
target are the route of the owner `Dashboard`. A pattern is the sequence of
segments before its `/*`; `ParseDomainRoute` lets no other kind through.
`BuildCaddyConfig` is the set of the matchers in the list and `ComesBefore` the
order `buildCaddyConfig` gives them: the dashboard, the specific patterns with the
longest text first (`PathBytes`), the catch-alls. The order is not total, for the
ties that the code breaks by host, text and application's ID tell no requests apart.
`Answers` takes the first matcher that fits, as Caddy does; `ShouldAnswer` is the
reference definition, by the number of segments.

`ProxyManager` has the operations. `routes` and `lastKnownGood` are the
manager's fields; `served` and `inbox` are Caddy's. The built JSON is a function
of the table, so a configuration is represented by the table it was built from.

| Code | Actions |
|---|---|
| `UpsertRoute` | `UpsertRoute`, `ValidateUpsert`, then `apply` |
| `RemoveRoute`, `SetDashboardRoute`, `RemoveDashboardRoute` | the action of that name, then `apply` |
| `apply` | `ApplyValidate`, `BuildConfig`, `PushConfig` or `PushFails`, then `Accepted`, or `RollBack` or `RollBackFails` |
| client timeout, cancelled request | `GiveUp` |
| Caddy (external) | `CaddyAccepts`, `CaddyRefuses`, `CaddyDrops` |
| `NewManager` in a new process | `Restart` |

Caddy is assumed to carry out pushes in the order in which it received them, and
each as a whole or not at all (its `/load` does); it may refuse any, and a push
whose sender has given up is carried out or dropped. Concurrent access to a Go
map may also abort the process, which is `Restart`.

`confirmed` is a history variable: who made the last call about an owner, and
after that call has returned success, the route it asked for.

| Run | Asks | Instance |
|---|---|---|
| `proxy_serial` | Does what was confirmed stay served, does success mean that the whole table is served, does no conflict stay behind, do requests go to the most specific pattern? | 1 caller, 4 calls or restarts, 2 applications with nested and conflicting patterns, 2 hosts, an inbox of 2 |
| `proxy_concurrent` | "adds or updates a route for an application, then applies to Caddy", with 2 callers | violated |

*Bounds.* Four calls are enough for a success, a call that is given up, a
refusal that rolls back to before it, and a success after that; an inbox of two
holds a push that was given up and a later one. Three of the patterns lie inside
one another, and a conflict needs two applications. The bounds `MaxCalls` and
`MaxInbox` are the model's. The system stops when `MaxCalls` is reached, so
deadlock is not checked.

*Proofs*, from `ConfigAssumption` and `ManagerAssumption`. `TypeCorrect` holds
for any number of callers. `SerialCalls` proves `ConfirmedIsServed`,
`AcceptedIsCurrent` and `TableStaysValid` for one caller (`OneCaller`), any
routes and any number of calls; `SuccessMeansServed` and `NoConflictStays` state
the last two by themselves. None of the three is inductive: a rollback, or a
push left by a caller that gave up, may still change what is served. `IInv` says
that every table that may yet be served agrees with what was confirmed
(`TablesAgree`), that the call under way has its change in the table and pushes
that table (`CallsOK`), that only the last push is waited for, so that success
is told when none is left (`AwaitedOK`), and that an upsert that is undone
leaves a valid table (`ValidOK`). `OneCaller` is needed: `proxy_concurrent`
shows the failure without it.

`RequestsAlwaysGoRight` proves `RequestsGoRight` for any paths, hosts and routes, in
two steps. `FirstAnswers` is about the list alone: of two patterns that fit one
path, the one with more segments begins with the other (`PrefixesNest`), so its
text is longer (`BytesGrow`, from the assumption that `PathBytes` grows with a
pattern) and it comes first (`FirstIsBest`); there is a longest one because no
pattern that fits is longer than the path (`LargestNumber`). That takes a table
without conflicts in which the dashboard has a host of its own (`Servable`). The
other step is that Caddy is never sent anything else: a configuration is passed on
as it was built, into the last known good one, a rollback and a late push
(`TablesStay`), the manager's table has only what was asked for, whatever calls
overlap (`NextAsked`), and it is free of conflicts when it is built. The last needs
a hypothesis: that calls do not overlap, or, for any number of callers, that no two
applications ask for the same host and pattern (`NoConflicts`). With neither it
is false: a call builds its configuration after `apply` has validated the table
(`proxy.go:326`), and another call may have put a conflicting route into the table
in between, which its own validation then undoes; Caddy goes on serving the
conflict. TLC finds that with two callers and the routes of `proxy_serial`.

## 5. The life of an application

### Modules and state

- `ApplicationService`: the record of one application in the service's map
  (`app`) and in `application.json` (`file`). Each operation holds the mutex from
  its first step to its last and is one step. `Get` (`service.go:99`) copies the
  record's top level only: copies share with the map's record what it points to,
  the resource limits, the registry's credentials, the labels and the array
  behind the domains. `unsaved` says that some of this was changed in place in the
  map's record and has not been written since.
- `Pipeline` extends it with `Execute`. `ctr` is the state of each container,
  named by the deployment that created it; `table` is whether the application has
  an entry in the proxy manager's table; `run` is where `Execute` is, with its
  deployment and its copy of the record; `outcome` is what has become of each
  deployment.
- `ApplicationLife` extends that with the requests (`request`: where each is and
  the copy it has read, or the container of it when no more is used), the process
  (`phase`, `boots`) and the properties.
- `MCApplicationLife`, `ApplicationLifeProofs`, `ApplicationTruthProofs`.

There is one application and one run at a time: `OneRunPerApp` of section 3,
which is proved there, says that runs of one application exclude each other.
Nothing in the code keeps a request apart from a run or from another request,
and neither does the model.

### Actions

| Code | Actions |
|---|---|
| `Execute` | `Execute`, `ObtainImage`, `CreateNew`, `StartNew`, `Healthy`, `RouteNew`, `SaveApp`, `StopOld`, `RemoveOld`; on failure `FailsEarly`, `CreateFails`, `StartFails`, `Unhealthy`, `RouteFails`, then `StopNew`, `RemoveNew` |
| `handleApplicationUpdate` | `EditSettings`, `ChangeShared`, `SaveSettings` |
| `handleApplicationAddDomain`, `...DeleteDomain` | `AddDomain` (with `ChangeShared`) or `RemoveDomain`, `SaveDomains`, `DecideRoute`, `PushDomains` or `RemoveRoute` |
| `handleApplicationStart`, `...Stop`, `...Restart` | `Operate`, `DockerStart`, `DockerStop`, `DockerRestart`, `StartRefused`, `StopRefused`, `RestartFails`, `SaveStatus` |
| `handleApplicationCreate`, `...Delete`, `handleSystemPrune` | `CreateApplication`, `DeleteApplication`, `SystemPrune` |
| `handleBackupImport` | `ImportBackup`, then `ReloadApplications` or `ReloadFails` |
| `main`: signals, `loadAll`, routes, `Reconciler.Reconcile` | `ProcessEnds`, `LoadApplications`, `SyncRoutes`, `Reconcile` |
| Docker (external) | `CreateContainer`, `StartContainer`, `StopContainer`, `RemoveContainer`, `DockerRevives` |

`Faults` says what may go wrong: a save (`save`), a call to Docker whose error the
code drops and a call that Docker carries out although its caller was told that
it failed, because the client has left or the run was cancelled (`docker`), a
conflict with another application's route (`conflict`). An error that the code
acts on is always possible. The history variable `mishaps` collects what has
happened (a lost save, a silent Docker error or a call cut off, a request that met
a run or another request, a deletion, a prune, an import, and `apart`: a change in
place that was not written or an import that was not loaded), so that each
property names exactly the mishaps under which the code does not keep it,
and holds under all the others. `wanted` says that something ought to run: it
becomes true when a run switches or a container is started on request (unless it
is the one a run is just removing), and false when a request stops one or the
host reboots.

The settings of a record are its service type, in two classes, and whether it has
domains (which hosts they are is section 4's matter); ports are positive; a new
record names no container. After `Update` the copy of a request is the map's
record (`service.go:158`), and a domain's handler reads the status of it after the
mutex is released; so an `UpdateStatus` in between counts (`Sharing`,
`DecideRoute`). An archive (`Archives`) restores a valid record that the application
had once, whose container is not one that a run under way has yet to switch to
(`Named`), or does not have the application; that a broken archive leaves a file cut
short is section 6's matter. A container exits only when it is stopped or the host
goes down; that an application fails by itself is not a step, for nothing in the
code watches for it. What is served as a consequence of
`table` is section 4.

### Runs

| Run | Asks | Instance |
|---|---|---|
| `life` | Does something run whenever it should; is one container left; is the record true of it and saved; has a worker no route? | 2 deployments, 2 requests, archives of the application as created and while it ran, all faults, 1 restart or reboot |
| `boot` | "Reconciles container states and proxy routes automatically on VPS reboot." | violated; 2 deployments, 1 request, no faults, 1 restart |
| `traffic` | "ensures your new container is fully ready to accept traffic before cutting over routing" | violated; 2 deployments, no faults, no restart |

What `life` checks:

- `NoDowntime`: once wanted, some container runs, under every mishap, imports
  included. The hard cases are a run that ends after its save was lost, a run overlapped by a
  restart of the container it is about to remove, and a deletion.
- `OneVersion`: between runs exactly the recorded container exists, failed runs
  included; kept when requests overlap, not when one overlaps
  a run, not when a create was cut off, and not after an import.
- `StatusIsTrue`: a record that says "running" names a running container, across
  crashes, reboots and prunes; not when a request has met anything, nor after an
  import.
- `MemoryIsSaved`: memory and file differ only while an import is between the two
  or while a request holds a change in place that it has yet to save, however calls
  interleave; but for a lost save, a deletion, and what the code leaves apart for
  good (`apart`, below).
- `WorkersNotExposed`: an application turned into a worker has no route left,
  unless an import turned it.

*Bounds.* A replacement needs two deployments, a meeting two requests (one may
overlap a run and the other, and one may be an import). A record that is wrong when
the process ends is read by the next start, so one start shows what is made of it;
`MaxBoots` is the model's bound. The archives are the two that can do harm: one
brings back a worker, the other a record that says "running" and names a container
that may be gone. What more deployments, requests, archives and starts could add
is covered by the theorems below. Symmetry of deployments and requests is sound,
for no action tells them apart. Deadlock is not checked: the
last process may be down for good.

*Deviations found*: routes are pushed at a start before `Reconcile` finds out
what runs (`boot`); the route's upstream is an alias that the new container
bears from its creation, so requests reach it while its health is still checked
(`traffic`). Met while the properties were stated, and excluded by name:

- The form of an application changes the limits and the credentials where the
  map's record has them too (`handlers_app.go:239`), and `Update` sets the labels
  before it writes (`service.go:151`): when it refuses or cannot write, memory keeps
  what the file does not have (`apart`).
- An import that fails midway returns before `Reload` (`handlers_app.go:685-688`), so
  memory stays as it was (`apart`).
- An import brings back the container and the service type of an older record;
  containers and routes do not follow: the record may name a container that was
  removed, and a worker may keep its route (`import`).
- A create cut off by its context may leave a container that no record names
  (`pipeline.go:313-329`; `docker`).

### Proofs

From `ApplicationAssumption` (`None` is neither a deployment nor a record),
`FaultsAssumption` and `LifeAssumption`, for any number of deployments, requests,
archives and restarts:

- `TypeCorrect`: with `RunOK` (a run has a deployment and a copy of a record),
  `RequestOK` (a request keeps a record where it is `Holding` one, a container where
  it is `Operating` on one) and `PhaseOK` (while the process is not up nobody is).
- `SavedMemory`: `MemoryIsSaved`. `MInv` adds that a process that is down has no
  record in memory and that the file is there, so that a reload finds it, but for
  what the property allows (`Losses`); `MishapsStay` says that mishaps are not
  forgotten.
- `AlwaysUp`: `NoDowntime`. It is not inductive: a request could stop, or a run
  remove, the one container that runs. `DInv` says that some container runs that
  the run is not about to remove (`SpareOK`), that a run which routes its
  container has one that runs (`RoutedOK`), and that nobody names the container
  of a run before its end (`UnsavedOK`, from `FreshOK`: a container that does not
  exist yet is named nowhere). `KnownShrinks` is the key: a request writes the
  container it has read, and an archive names only a container that a run has
  switched to (`Named`).

`ApplicationTruthProofs` proves that the record says what there is. Each of these
properties allows for what disturbs it, so their invariants say what holds at
every step as long as nothing has. `AInv` comes first: an application that was
not deleted has a record, requests that have met no deployment find none under
way, those that have met none are alone, and, but for a mishap, none is importing
(`ImportOK`).

- `OneVersionAlways`: `OneVersion`. `VersionOK` gives the containers there are at
  every point of a run: the record's, the new one of a run that has created it and
  not failed, the old one that a run has switched from and not yet removed
  (`Expected`); and what requests and the run keep of the record names the container
  that the record names (`SameContainer`), also when the copy has become the map's
  record and changes with it (`OnlyShared`).
- `StatusIsAlwaysTrue`: `StatusIsTrue`. `StatusOK` says what the one request that
  is under way has still to write, and that a run removes another container than
  the record's. A crash between the two steps of a request leaves a record that is
  wrong until `Reconcile` has looked.
- `WorkersNeverExposed`: `WorkersNotExposed`. `ValidOK`: records that are kept are
  valid, so that a worker has no domains; `RouteOK`: without domains there is no
  route, unless a request has saved that there are none or is about to remove it,
  and copies that are still to be written or routed have the record's domains.

## 6. The data directory

### Modules and state

- `Storage`: `disk[f]` is a file as the processes see it and whether its bytes
  are synced; `durable[f]` is what a loss of power leaves if the latest change
  did not reach the disk; `temp[w]` is the temporary file of a writer; `open[w]`
  the file it unpacks into. A content is a whole record, `None` (no file) or
  `Torn` (cut short, cannot be decoded).
- `SystemSettings` extends it with `SettingsService.data` (`settings`), the
  dashboard's entry in the proxy manager's table (`route`), the mutexes (`lock`)
  and where each request is (`pc`) with the copy it holds (`req`).
- `UserStore` extends that with `UserStore.users`, and `reset-password`, a process
  that loads the file, changes it and writes it back without a mutex.
- `DataDirectory` composes them with `ImportBackup`, crashes, losses of power
  and starts, and states the properties. `MCDataDirectory`,
  `DataDirectoryProofs`.

### Actions

| Code | Actions |
|---|---|
| `atomicWrite` | `CreateTemp`, `SyncTemp`, `RenameTemp`; `DiscardTemp` on any error |
| `ImportBackup`, `handleBackupImport` | `Truncate`, `Unpack` per file, `NotInArchive`, `ImportFails` |
| `Get`; `SetPrimaryDomain`, `SkipSetup`; `Save` | `Get`, `GetAgain`; `CopySettings`; `BeginSave`, `FinishSave` or `FailSave` |
| `handleSetupDomainSubmit`, `...Skip`, `...DNSPage`, `...Verify` | op `submit`, `skip`, `page`, `verify`: `CopySettings` or `Get`, `LookupAddress`, `VerifyDomain`, `LeaveLookup`, the save, `SetRoute` |
| `handleSettingsUpdatePrimaryDomain` | op `update`: `Get`, `CopySettings`, the save, `RemoveRoute` or `GetAgain`, `SetRoute`; on Caddy's refusal `Undo` (op `revert`), `SetOldRoute` |
| `handleSettingsVerifyDomain`, `...ToggleHTTPS` | op `reverify`, `toggle`: the route first, then the save |
| `handleSetupSubmit`, `CreateAdmin` | `CheckSetup`, `CreateAdmin` or `CreateAdminRefused`, `FinishUsers` or `FailUsers` |
| `ChangePassword`; `reset-password` | `ChangePassword`, `ChangeRefused`; `ResetPassword`, `FinishReset`, `FailReset` |
| `authenticated`; `main` | `Begin`; `Start` |
| the host (external) | `Crash`, `PowerCut`, `WriteBack` |

A step ends where the mutex is let go or another process can see the disk. A
mutex is held over the whole of a save, as in the code. `PowerCut` leaves of each
file the latest content or the one before, or, if its bytes were not synced, a
part: `atomicWrite` syncs the file and not the directory, so a rename can be
lost. The command survives the server's crash and the server the command's.

History variables name what a property allows for: `loose` (a file that differs
from memory because of an import, a reset or a failed change of the password),
`unpacked` (a file an archive was unpacked over since it was last whole and
written back), `apart` (route and domain differ because a save failed, requests
about the settings overlapped, or the setup page changed the domain).

### The run `data`

What it checks, over 900,000 states:

- `FilesAreWhole`: a file that was only ever saved is whole, now and after a loss
  of power, whoever dies when.
- `MemoryIsOnDisk`: when nobody saves, memory is what the next start would load,
  but for `loose`.
- `FlagsNeedDomain`: HTTPS on, or a verified domain, only with a domain, although
  requests overwrite each other with copies of minutes ago.
- `OneAdmin`: racing setups make one administrator; so do a reset and an import.
- `SetupStaysLocked`: "Permanent Lockdown": once set up, no crash, failed save or
  start opens `/setup` again, as long as the power does not fail.
- `DashboardFollowsDomain`: between requests, HTTPS on means that the route is
  that of the domain, refusals by Caddy and the undo included.

*Bounds.* Two requests and the command are three writers; two requests of any
two kinds overlap in every way. `MaxCalls = 3` lets a third follow two that
raced (a change after a setup, a toggle after an update). Two domains, names and
passwords tell the old one from the new one. The archive is another server's, with
an administrator of its own; `NotInArchive` and `ImportFails` cover archives that
lack a file or end early. Crashes, losses of power and starts are not bounded.
`MaxCalls` is the model's bound; when it is reached nothing need happen, so
deadlock is not checked.

*Known and not stated as a property*: of two concurrent changes of the settings
one is lost, for both save whole copies; after an import only the applications
are reloaded (`handlers_app.go:691`), so the server goes on with the old settings
and accounts, and its next save overwrites the imported file, while
`docs/backup.md:24` has "primary domain settings, and credentials" restored
"instantly"; a running server does
not see `reset-password` until it is restarted and may overwrite it; the setup
page that changes a verified domain keeps HTTPS on for a domain whose route
nobody sets; a loss of power directly after the setup may undo the rename and
open the setup again; a change of the password whose save fails is in force until
the next start.

### Proofs

From `StorageAssumption`, `DataAssumption` (distinct names, markers that are no
names) and `ArchiveAssumption` (what the server that made the archive promises of
it: flags need a domain, one administrator),
for any number of requests, names, passwords, domains and calls:

- `TypeCorrect`, with what each program point implies for a request's temporary
  file and the mutex it holds.
- `SavedFilesAreWhole`: `FilesAreWhole` with `synced`: what is renamed was synced,
  so that a file whose bytes are not synced is one that was unpacked over.
- `FlagsAlwaysNeedDomain`: every copy that is in memory, in a file, in a temporary
  file, in a request's hands or about to be found again after a loss of power has
  the property, for requests may write copies of any age.
- `AlwaysOneAdmin`: the same for accounts, and that under `lock` the map has just
  the user being added.
- `SetupAlwaysStaysLocked`: once `created`, every source a start can load from has
  an administrator; a setup that is being undone had not been answered.

- `MemoryIsAlwaysOnDisk`: `MemoryIsOnDisk` with `KInv`. A request saves what it
  holds (`SavedOK`); only an archive is unpacked over a file, by a request
  (`OpenOK`); the settings change in memory with the rename, the accounts before
  it, so that for them the invariant says what a setup that fails can take back
  (`UsersOnDisk`).
- `DashboardAlwaysFollowsDomain`: `DashboardFollowsDomain` with `RouteOK`. While
  nothing has come in between (`apart`), one request is with the settings
  (`Alone`), the route follows the domain unless that request has still to bring
  one to the other (`Behind`), and what it has read is still so (`Knows`): its old
  domain at each step of `update`, of the undo and of the saves that come after
  the route.

## 7. From a push to a running version

### Modules and state

- `WorkingCopy`: `head` is the remote's latest commit per branch; `dir` is
  `repos/<application>`: whether it has a `.git`, the branch this follows, the
  latest commit fetched for it, the one checked out, and a lock left by a kill.
  Commits are numbered in the order of the pushes. What git does in these cases
  (a shallow clone follows one branch; a killed clone leaves a `.git` without
  references; a clone that fails removes its directory) was tried out with git
  itself, for it is external.
- `LogStream`: `log[d]`, the length of a log, and `stream[s]`, where a stream is
  and what it has sent. A line stands for a part of the log and `Chunk` of them
  for the 16 KiB that one read takes.
- `PushToDeploy` composes the two with the deployment service, which is there as
  `DeploymentEngine` with deliveries for calls. Section 3 proves that
  `DeploymentService` implements it, so what holds here of the engine's steps
  holds of the service's. `MCPushToDeploy`, `PushToDeployProofs`.

### Actions

| Code | Actions |
|---|---|
| the git host (external) | `Push`, `Send` |
| `webhook.Handler.ServeHTTP` and the adapter in `main.go:264` | `Receive`, `Refuse` |
| `handleApplicationUpdate` (its branch) | `ChangeBranch` |
| `runJob`, the start of `Execute` | `BeginRun`, `EndRun` |
| `Sync` | `StatFindsCopy`, `FetchSucceeds`, `ResetSucceeds` or `ResetIsRefused`; `StatFindsNone` or `FetchFails`, then `Clone` |
| `Clone` | `CloneStarts`, `CloneIsAnswered`, `CloneSucceeds`; `CloneFails` |
| cancel, timeout, `loadAll` after a crash | `GitIsKilled`; `Crash` |
| the rest of `Execute` | `BuildAndDeploy`, `BuildOrDeployFails` |
| `handleDeploymentSSE` | `OpenStream`, `ReadLog`, `AskStatus`, `CloseStream` |

One step stands for building and deploying, which section 5 has in detail. The
check and the insertion of `Enqueue` are one step here: what becomes of calls that
overlap is section 3. A delivery says of which branch and push it is, and the
code looks at neither (`OtherEvent` is an event that is no push). `spoiled` is a
history variable: a kill or a change of the branch has met the copy. `stuck` are
the records that a crash leaves active.

### The run `push`

- `PushIsCovered`: a deployment caused by a push that succeeds has built that push
  or a later one, because `Sync` fetches after `Enqueue`.
- `NeverBackwards`: late, repeated and reordered deliveries never replace a commit
  of a branch by an older one.
- `CopyStaysUsable`: a copy that is not `spoiled` can be reset to the configured
  branch next time, unless the branch is left empty and the remote's default is
  not "main".
- `StreamIsPrefix`: what was sent is the log from its beginning, without a gap or
  a repetition, while it is written.
- `StreamsFollow`: an open stream catches up again and again, and ends after its
  deployment.

*Bounds* (1.8 million states). Two deliveries overtake each other and two pushes
go to one branch or to two; the configured branch is "main" or empty and the
remote's default another one. Crashes, kills and changes of the branch are not
bounded. One stream follows the first deployment with a chunk of one line, so
that it lags behind, and may be opened again; streams share nothing. `MaxPushes`,
`Choices` and `Followed` are the model's bounds; when all has been pushed the
system may be quiet, so deadlock is not checked.

*Fairness*: weak fairness of the ticker of each stream alone, whose round the Go
scheduler and the runtime's timers give. Neither git, the build, the host nor the
browser is obliged to do anything; a log to which lines are added without end
would need more, and logs here end because deployments are finitely many.

*Known and not stated as a property*: a push during a deployment is answered 202
and forgotten (`webhook.go:121`); the adapter drops the branch and
`parseGitHubEvent` returns an empty event for anything that is no push, so every
signed event deploys; after a change of the branch, a kill in the wrong moment, or
an empty branch where the default is not "main", every later deployment fails at
`git.go:243` until somebody removes the directory; the last line of a log is
written after the status is final, and a stream that ends reads one chunk at most,
so the end of a log may not be sent ("streams the full build log",
`handlers_sse.go:111`); `git rev-parse -- HEAD` prints its argument as a path, so
`CommitSHA` is never a commit.

### Proofs

From `BranchAssumption`, `StreamAssumption` and `PushAssumption`, for any number
of branches, pushes, deliveries and streams and any chunk:

- `TypeCorrect`.
- `PushIsAlwaysCovered` and `NeverGoesBackwards` share an invariant: commits that
  were fetched, checked out or built are no later than the remote's branch; once
  the running job has fetched, its copy is no older than what was the head when
  the delivery was sent, nor than any result of the same branch.
- `CopyAlwaysUsable`: between the steps of `Sync` a copy that is not spoiled
  follows the branch of the job, and has a commit from the answer of the remote
  on.
- `StreamAlwaysPrefix`: with the fact that only `Say` changes a log, by growing it.

`StreamsFollow` stays with TLC: liveness.

## 8. Not modelled

Yet: the env file of an application, projects, the creation of Caddy's container
(see the plan); a deployment by the command line as a second service over the
same directory; a change of a repository's URL; a restart of Caddy alone;
`ExportBackup`, which reads files while they change. For good: configuration,
statistics, rendering, the web interface and the installer (no state, or input and
output only); sessions (signed cookies, no server state); the insides of git and
of Docker (external); credentials, signatures and the checks of names and paths,
which refuse or do not. The life of an application (section 5) takes the import of an
archive as one step for its record and one for the reload; how the files are
rewritten, cut short and read again is section 6, for settings and users.

The proofs leave liveness under fairness to TLC (`CallsFinish`, `StreamsFollow`).
Every other property of a run that passes has a theorem.
