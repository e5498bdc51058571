------------------------ MODULE ApplicationTruthProofs ------------------------
(***************************************************************************)
(* Proofs about ApplicationLife: that the record of an application says    *)
(* what there is.  OneVersion, StatusIsTrue and WorkersNotExposed each     *)
(* allow for what disturbs them; the invariants below say what holds at    *)
(* every step as long as nothing has, and first of all that requests and   *)
(* deployments, or two requests, do not meet unnoticed.                    *)
(***************************************************************************)
EXTENDS ApplicationLifeProofs

-----------------------------------------------------------------------------
(* What meets what *)

\* The record of an application that was not deleted is there, a request that
\* meets no deployment finds none under way, requests that meet none are alone,
\* nothing is imported unnoticed, and a process that was never started again has
\* not ended.
PresentOK == Undisturbed({"delete"}) => file # None /\ (phase # "down" => app # None)
ApartOK   == Undisturbed({"deployment", "import"}) =>
                \A r \in Requests : Serving(r) => run.at = "idle"
AloneOK   == Undisturbed({"requests", "import"}) =>
                \A r, q \in Requests : Serving(r) /\ Serving(q) => r = q
ImportOK  == Undisturbed({"import"}) => \A r \in Requests : request[r].at # "importing"
BootsOK   == boots = 0 => phase = "up"

AInv == PresentOK /\ ApartOK /\ AloneOK /\ ImportOK /\ BootsOK

\* The invariant holds initially.
LEMMA ApartInit == Init => AInv
  <1>1. Init => app # None
      BY NewRecordsAreRecords, ApplicationAssumption DEF Init
  <1> QED
      BY <1>1 DEF Init, AInv, PresentOK, ApartOK, AloneOK, ImportOK, BootsOK, Serving, NoRequest

\* The copy of another request changes only with the record that it has become.
OnlyShared(q) ==
    /\ request'[q].at = request[q].at
    /\ \/ request'[q].kept = request[q].kept
       \/ request[q].at = "saved" /\ request[q].kept = app /\ request'[q].kept = app'

\* What a step of a request leaves alone.
LEMMA RequestFrame ==
    ASSUME TInv, NEW r \in Requests, RequestStep(r)
    PROVE  /\ UNCHANGED <<run, outcome, phase, boots>>
           /\ phase = "up"
           /\ \A q \in Requests : q # r => OnlyShared(q)
  <1>1. UNCHANGED <<run, outcome, phase, boots>>
      BY DEF RequestStep, Refused, EditSettings, ChangeShared, SaveSettings, AddDomain, RemoveDomain, SaveDomains,
         DecideRoute, PushDomains, RemoveRoute, Operate, DockerStart, DockerStop, StartRefused, StopRefused,
         DockerRestart, RestartFails, SaveStatus, DeleteApplication, CreateApplication, SystemPrune,
         ImportBackup, ReloadApplications, ReloadFails, runVars
  <1>2. Begins(r) \/ Serving(r)
      BY DEF RequestStep, Refused, EditSettings, ChangeShared, SaveSettings, AddDomain, RemoveDomain, SaveDomains,
         DecideRoute, PushDomains, RemoveRoute, Operate, DockerStart, DockerStop, StartRefused, StopRefused,
         DockerRestart, RestartFails, SaveStatus, DeleteApplication, CreateApplication, SystemPrune,
         ImportBackup, ReloadApplications, ReloadFails, Serving
  <1>3. phase = "up"
      BY <1>2 DEF Begins, TInv, PhaseOK
  <1>4. ASSUME NEW q \in Requests, q # r PROVE OnlyShared(q)
      <2>1. request \in [Requests -> [at: RequestPCs, kept: Kept]]
          BY DEF TInv, TypeOK
      <2>2. CASE SaveStatus(r)
          <3>1. PICK sharing \in Sharing :
                   request' = [k \in Requests |->
                                 IF k = r THEN Done
                                 ELSE IF k \in sharing THEN [at |-> "saved", kept |-> app']
                                 ELSE request[k]]
              BY <2>2 DEF SaveStatus
          <3>2. CASE q \in sharing
              BY <1>4, <3>1, <3>2 DEF Sharing, OnlyShared
          <3>3. CASE q \notin sharing
              BY <1>4, <3>1, <3>3 DEF OnlyShared
          <3> QED
              BY <3>2, <3>3
      <2>3. CASE ~SaveStatus(r)
          <3>1. request'[q] = request[q]
              BY <1>4, <2>1, <2>3 DEF RequestStep, Refused, EditSettings, ChangeShared, SaveSettings, AddDomain,
                 RemoveDomain, SaveDomains, DecideRoute, PushDomains, RemoveRoute, Operate, DockerStart, DockerStop,
                 StartRefused, StopRefused, DockerRestart, RestartFails, DeleteApplication, CreateApplication,
                 SystemPrune, ImportBackup, ReloadApplications, ReloadFails, Gets, Proceeds, Ends
          <3> QED
              BY <3>1 DEF OnlyShared
      <2> QED
          BY <2>2, <2>3
  <1> QED
      BY <1>1, <1>3, <1>4

\* A request is under way after a step only if it was before, or if what it meets
\* or that it imports is noted.
LEMMA RequestBegins ==
    ASSUME TInv, NEW r \in Requests, RequestStep(r), Serving(r)', ~Serving(r)
    PROVE  Meets \/ Mishap("import")
  <1>1. request \in [Requests -> [at: RequestPCs, kept: Kept]]
      BY DEF TInv, TypeOK
  <1>2. CASE Refused(r) \/ DeleteApplication(r) \/ CreateApplication(r) \/ SystemPrune(r)
      BY <1>1, <1>2 DEF Refused, DeleteApplication, CreateApplication, SystemPrune, Ends, Done, Serving
  <1> QED
      BY <1>2 DEF RequestStep, EditSettings, ChangeShared, SaveSettings, AddDomain, RemoveDomain, SaveDomains,
         DecideRoute, PushDomains, RemoveRoute, Operate, DockerStart, DockerStop, StartRefused, StopRefused,
         DockerRestart, RestartFails, SaveStatus, ImportBackup, ReloadApplications, ReloadFails, Serving

\* What UpdateStatus does.
LEMMA StatusEffect ==
    ASSUME TypeOK, NEW status, NEW container \in Deployments \cup {None}, app # None,
           SetsStatus(status, container)
    PROVE  /\ app' \in [kind: {app.kind}, domains: {app.domains}, status: {status},
                        container: {IF container = None THEN app.container ELSE container}]
           /\ file' \in {file, app'}
           /\ file' = app' \/ Mishap("save")
  <1>1. app \in Record
      BY DEF TypeOK
  <1>2. PICK saved \in Saves : UpdateStatus(status, container, saved) /\ (saved \/ app = None \/ Mishap("save"))
      BY DEF SetsStatus
  <1>3. app' = [app EXCEPT !.status = status, !.container = IF container = None THEN @ ELSE container]
        /\ file' = IF saved THEN app' ELSE file
      BY <1>2 DEF UpdateStatus
  <1> QED
      BY <1>1, <1>2, <1>3 DEF Record

\* A step of a request preserves the invariant.
LEMMA ApartRequest ==
    ASSUME TInv, AInv, NEW r \in Requests, RequestStep(r)
    PROVE  AInv'
  <1> USE DEF AInv
  <1>f. UNCHANGED <<run, outcome, phase, boots>> /\ phase = "up" /\ \A q \in Requests : q # r => request'[q].at = request[q].at
      BY RequestFrame DEF OnlyShared
  <1>n. [Next]_vars
      BY DEF Next
  <1>t. RequestOK /\ request \in [Requests -> [at: RequestPCs, kept: Kept]]
      BY DEF TInv, TypeOK
  <1>1. PresentOK'
      <2> SUFFICES ASSUME Undisturbed({"delete"})' PROVE file' # None /\ app' # None
          BY <1>f DEF PresentOK
      <2>1. file # None /\ app # None
          BY <1>f, <1>n, MishapsStay DEF PresentOK
      <2>2. ~DeleteApplication(r) /\ ~CreateApplication(r)
          BY <2>1 DEF DeleteApplication, CreateApplication, Create, Mishap, Undisturbed
      <2>3. CASE SaveSettings(r) \/ SaveDomains(r)
          <3>1. request[r].kept # None
              BY <1>t, <2>3, ApplicationAssumption DEF SaveSettings, SaveDomains, RequestOK, Holding
          <3> QED
              BY <2>1, <2>3, <3>1 DEF SaveSettings, SaveDomains, UpdateFor, Update, serviceVars
      <2>4. CASE SaveStatus(r)
          <3>1. request[r].kept \in Deployments
              BY <1>t, <2>4 DEF SaveStatus, RequestOK, Operating
          <3>2. PICK status \in {"running", "stopped"} : SetsStatus(status, request[r].kept)
              BY <2>4 DEF SaveStatus
          <3> QED
              BY <2>1, <3>1, <3>2, StatusKeepsRecords, ApplicationAssumption DEF TInv
      <2>5. CASE ImportBackup(r)
          BY <2>1, <2>5, LifeAssumption, ApplicationAssumption DEF ImportBackup
      <2>6. CASE ReloadApplications(r)
          BY <2>1, <2>6 DEF ReloadApplications, Reload, Load
      <2>7. CASE UNCHANGED <<app, file>>
          BY <2>1, <2>7
      <2> QED
          BY <2>2, <2>3, <2>4, <2>5, <2>6, <2>7 DEF RequestStep, Refused, EditSettings, ChangeShared, ChangeInPlace,
             AddDomain, RemoveDomain, DecideRoute, PushDomains, RemoveRoute, Operate, DockerStart, DockerStop,
             StartRefused, StopRefused, DockerRestart, RestartFails, SystemPrune, ReloadFails, serviceVars
  <1>2. ApartOK'
      <2> SUFFICES ASSUME Undisturbed({"deployment", "import"})', NEW q \in Requests, Serving(q)' PROVE run.at = "idle"
          BY <1>f DEF ApartOK
      <2>1. CASE Serving(q)
          BY <1>n, <2>1, MishapsStay DEF ApartOK
      <2>2. CASE ~Serving(q)
          <3>1. q = r
              BY <1>f, <2>2 DEF Serving
          <3> QED
              BY <2>2, <3>1, RequestBegins DEF Meets, Mishap, Undisturbed
      <2> QED
          BY <2>1, <2>2
  <1>3. AloneOK'
      <2> SUFFICES ASSUME Undisturbed({"requests", "import"})', NEW p \in Requests, NEW q \in Requests,
                          Serving(p)', Serving(q)', p # q
                   PROVE  FALSE
          BY DEF AloneOK
      <2>1. ~(Serving(p) /\ Serving(q))
          BY <1>n, MishapsStay DEF AloneOK
      <2>2. \A k \in Requests : k # r => (Serving(k)' <=> Serving(k))
          BY <1>f DEF Serving
      <2>3. ~Serving(r) /\ Serving(r)' /\ \E k \in Requests : Serving(k)
          BY <2>1, <2>2
      <2> QED
          BY <2>3, RequestBegins DEF Meets, Mishap, Undisturbed
  <1>4. ImportOK'
      <2> SUFFICES ASSUME Undisturbed({"import"})', NEW q \in Requests PROVE request'[q].at # "importing"
          BY DEF ImportOK
      <2>1. request[q].at # "importing"
          BY <1>n, MishapsStay DEF ImportOK
      <2>2. CASE q # r
          BY <1>f, <2>1, <2>2
      <2>3. CASE q = r
          <3>1. ~ImportBackup(r)
              BY DEF ImportBackup, Mishap, Undisturbed
          <3>2. CASE SaveStatus(r)
              BY <2>3, <3>2 DEF SaveStatus, Done
          <3>3. CASE ~SaveStatus(r)
              BY <1>t, <2>1, <2>3, <3>1, <3>3 DEF RequestStep, Refused, EditSettings, ChangeShared, SaveSettings,
                 AddDomain, RemoveDomain, SaveDomains, DecideRoute, PushDomains, RemoveRoute, Operate, DockerStart,
                 DockerStop, StartRefused, StopRefused, DockerRestart, RestartFails, DeleteApplication,
                 CreateApplication, SystemPrune, ReloadApplications, ReloadFails, Gets, Proceeds, Ends, Done
          <3> QED
              BY <3>2, <3>3
      <2> QED
          BY <2>2, <2>3
  <1> QED
      BY <1>1, <1>2, <1>3, <1>4, <1>f DEF BootsOK

\* What a step of a run leaves alone.
LEMMA ExecuteFrame ==
    ASSUME TInv, DeployStep
    PROVE  /\ UNCHANGED <<request, phase, boots>>
           /\ run.at # "idle" /\ phase = "up"
           /\ run.dep \in Deployments /\ run.copy \in Record
  <1>1. run.at # "idle"
      BY DEF DeployStep, ExecuteStep, ObtainImage, CreateNew, FailsEarly, CreateFails, StartNew, StartFails, Healthy, Unhealthy,
         RouteNew, RouteFails, StopNew, RemoveNew, SaveApp, StopOld, RemoveOld, At
  <1> QED
      BY <1>1 DEF DeployStep, TInv, PhaseOK, RunOK

\* A step of a run preserves the invariant.
LEMMA ApartExecute ==
    ASSUME TInv, AInv, DeployStep
    PROVE  AInv'
  <1> USE DEF AInv
  <1>f. UNCHANGED <<request, phase, boots>> /\ run.at # "idle" /\ phase = "up" /\ run.copy \in Record
      BY ExecuteFrame
  <1>n. [Next]_vars
      BY DEF Next
  <1>1. PresentOK'
      <2> SUFFICES ASSUME Undisturbed({"delete"})' PROVE file' # None /\ app' # None
          BY <1>f DEF PresentOK
      <2>1. file # None /\ app # None
          BY <1>f, <1>n, MishapsStay DEF PresentOK
      <2>2. UNCHANGED <<app, file>> \/ (app' = Switched /\ file' = Switched)
          BY DEF DeployStep, ExecuteStep, ObtainImage, CreateNew, FailsEarly, CreateFails, StartNew, StartFails, Healthy, Unhealthy,
             RouteNew, RouteFails, StopNew, RemoveNew, SaveApp, StopOld, RemoveOld, Update, serviceVars
      <2>3. Switched \in Record
          BY <1>f, ExecuteFrame DEF Switched, Record
      <2> QED
          BY <2>1, <2>2, <2>3, ApplicationAssumption
  <1>2. ApartOK' /\ AloneOK' /\ ImportOK'
      BY <1>f, <1>n, MishapsStay DEF ApartOK, AloneOK, ImportOK, Serving
  <1> QED
      BY <1>1, <1>2, <1>f DEF BootsOK

\* The beginning of a run and the end and the start of the process preserve the
\* invariant.
LEMMA ApartRest ==
    ASSUME TInv, AInv,
           \/ \E d \in Deployments : Deploy(d) \/ DockerRevives(d)
           \/ ProcessEnds \/ LoadApplications \/ SyncRoutes \/ Reconcile
    PROVE  AInv'
  <1> USE DEF AInv
  <1>n. [Next]_vars
      BY DEF Next
  <1>1. ASSUME NEW d \in Deployments, Deploy(d) PROVE AInv'
      <2>1. UNCHANGED <<app, file, request, phase, boots>> /\ run.at = "idle"
            /\ ((\E r \in Requests : Serving(r)) => "deployment" \in mishaps')
          BY <1>1 DEF Deploy, Execute, At, Mishap, serviceVars
      <2> QED
          BY <1>n, <2>1, MishapsStay DEF PresentOK, ApartOK, AloneOK, ImportOK, BootsOK, Serving, Undisturbed
  <1>2. CASE \E d \in Deployments : DockerRevives(d)
      BY <1>n, <1>2, MishapsStay DEF DockerRevives, PresentOK, ApartOK, AloneOK, ImportOK, BootsOK, Serving, serviceVars, runVars
  <1>3. CASE ProcessEnds
      <2>1. (\A r \in Requests : ~Serving(r)') /\ boots' # 0 /\ phase' = "down" /\ file' = file
          BY <1>3, LifeAssumption DEF ProcessEnds, Done, Serving, TInv, TypeOK
      <2>2. \A r \in Requests : request'[r].at # "importing"
          BY <2>1 DEF Serving
      <2> QED
          BY <1>n, <2>1, <2>2, MishapsStay DEF PresentOK, ApartOK, AloneOK, ImportOK, BootsOK
  <1>4. CASE LoadApplications \/ SyncRoutes
      <2>1. UNCHANGED <<file, run, request, boots>> /\ boots # 0 /\ app' \in {app, file} /\ (phase = "down" => app' = file)
            /\ phase' # "down"
          BY <1>4 DEF LoadApplications, Load, SyncRoutes, serviceVars, runVars, BootsOK
      <2> QED
          BY <1>n, <2>1, MishapsStay DEF PresentOK, ApartOK, AloneOK, ImportOK, BootsOK, Serving
  <1>5. CASE Reconcile
      <2>1. UNCHANGED <<run, request, boots>> /\ phase = "synced" /\ phase' = "up"
          BY <1>5 DEF Reconcile, runVars
      <2>2. PresentOK'
          <3> SUFFICES ASSUME Undisturbed({"delete"})' PROVE file' # None /\ app' # None
              BY DEF PresentOK
          <3>1. file # None /\ app # None
              BY <1>n, <2>1, MishapsStay DEF PresentOK
          <3>2. CASE UNCHANGED serviceVars
              BY <3>1, <3>2 DEF serviceVars
          <3>3. ASSUME NEW status \in {"running", "stopped"}, NEW container \in Deployments \cup {None},
                       SetsStatus(status, container)
                PROVE  file' # None /\ app' # None
              <4>1. app' \in Record
                  BY <3>1, <3>3, StatusEffect DEF TInv, TypeOK, Record
              <4> QED
                  BY <3>1, <3>3, <4>1, StatusEffect, ApplicationAssumption DEF TInv
          <3> QED
              BY <1>5, <3>2, <3>3 DEF Reconcile
      <2> QED
          BY <1>n, <2>1, <2>2, MishapsStay DEF ApartOK, AloneOK, ImportOK, BootsOK, Serving
  <1> QED
      BY <1>1, <1>2, <1>3, <1>4, <1>5

\* Every step preserves the invariant.
LEMMA ApartNext == TInv /\ AInv /\ [Next]_vars => AInv'
  <1> SUFFICES ASSUME TInv, AInv, [Next]_vars PROVE AInv'
      OBVIOUS
  <1>1. CASE UNCHANGED vars
      BY <1>1 DEF vars, serviceVars, runVars, historyVars, AInv, PresentOK, ApartOK, AloneOK, ImportOK, BootsOK, Serving, Undisturbed
  <1> QED
      BY <1>1, ApartRequest, ApartExecute, ApartRest DEF Next

\* Every reachable state has the invariants.
LEMMA Invariants == Spec => [](TInv /\ DInv /\ AInv)
  BY TypeInit, TypeNext, DowntimeInit, DowntimeNext, ApartInit, ApartNext, PTL DEF Spec

-----------------------------------------------------------------------------
(* OneVersion *)

\* What the property allows for.
Disturbances == {"deployment", "save", "docker", "delete", "prune", "import"}

\* Where a run has a container of its own, and where it has switched to it.
Creating  == {"start", "health", "route", "save", "stopNew", "removeNew"}
Switching == {"stopOld", "removeOld"}

\* The containers that exist are the record's own, the new one of a run before
\* its end, and the old one that a run has still to remove.
Expected(d) ==
    \/ d = app.container
    \/ run.at \in Creating /\ d = run.dep
    \/ run.at \in Switching /\ d = run.copy.container

\* What a request keeps of its copy has the container that the record names.
SameContainer(r) ==
    /\ request[r].at \in Holding => request[r].kept.container = app.container
    /\ request[r].at \in Operating => request[r].kept = app.container

\* Every copy of the record names the container that the record names, until a
\* run has switched.
VersionOK ==
    boots = 0 /\ Undisturbed(Disturbances) =>
      /\ \A r \in Requests : SameContainer(r)
      /\ run.at \in Unsaved => run.copy.container = app.container
      /\ run.at \in Switching => app.container = run.dep /\ run.copy.container \notin {None, run.dep}
      /\ \A d \in Deployments : Exists(d) <=> Expected(d)

\* In an undisturbed state there is a record, and no deployment meets a request.
LEMMA Undisturbances ==
    ASSUME AInv, Undisturbed(Disturbances)
    PROVE  /\ file # None /\ (phase # "down" => app # None)
           /\ \A r \in Requests : (Serving(r) => run.at = "idle") /\ request[r].at # "importing"
  BY DEF AInv, PresentOK, ApartOK, ImportOK, Undisturbed, Disturbances

\* A step of a request preserves VersionOK: whatever it writes names the same
\* container.
LEMMA VersionRequest ==
    ASSUME TInv, AInv, VersionOK, NEW r \in Requests, RequestStep(r)
    PROVE  VersionOK'
  <1> SUFFICES ASSUME boots' = 0, Undisturbed(Disturbances)'
               PROVE  /\ \A q \in Requests : SameContainer(q)'
                      /\ run'.at \in Unsaved => run'.copy.container = app'.container
                      /\ run'.at \in Switching => app'.container = run'.dep /\ run'.copy.container \notin {None, run'.dep}
                      /\ \A d \in Deployments : Exists(d)' <=> Expected(d)'
      BY DEF VersionOK
  <1>f. UNCHANGED <<run, outcome, phase, boots>> /\ phase = "up" /\ \A q \in Requests : q # r => OnlyShared(q)
      BY RequestFrame
  <1>n. [Next]_vars
      BY DEF Next
  <1>p. /\ boots = 0 /\ Undisturbed(Disturbances)
        /\ app \in Record /\ app # None
        /\ request \in [Requests -> [at: RequestPCs, kept: Kept]]
        /\ ctr \in [Deployments -> ContainerStates]
      BY <1>f, <1>n, MishapsStay, Undisturbances DEF TInv, TypeOK
  <1>v. /\ \A q \in Requests : SameContainer(q)
        /\ run.at \in Unsaved => run.copy.container = app.container
        /\ run.at \in Switching => app.container = run.dep /\ run.copy.container \notin {None, run.dep}
        /\ \A d \in Deployments : Exists(d) <=> Expected(d)
      BY <1>p DEF VersionOK
  \* Neither a deletion, an import nor a prune has happened, no application was
  \* created, and no restart has failed.
  <1>d. /\ ~DeleteApplication(r) /\ ~CreateApplication(r) /\ ~SystemPrune(r) /\ ~RestartFails(r)
        /\ ~ImportBackup(r) /\ ~ReloadApplications(r) /\ ~ReloadFails(r)
      <2>1. ~DeleteApplication(r) /\ ~CreateApplication(r) /\ ~SystemPrune(r) /\ ~RestartFails(r) /\ ~ImportBackup(r)
          BY <1>p DEF DeleteApplication, CreateApplication, SystemPrune, RestartFails, ImportBackup, Create, Mishap,
             Undisturbed, Disturbances
      <2>2. request[r].at # "importing"
          BY <1>p, Undisturbances
      <2> QED
          BY <2>1, <2>2 DEF ReloadApplications, ReloadFails
  \* The record keeps its container.
  <1>1. app'.container = app.container
      <2>1. CASE SaveSettings(r) \/ SaveDomains(r)
          <3>1. request[r].kept.container = app.container
              BY <1>v, <2>1 DEF SaveSettings, SaveDomains, SameContainer, Holding
          <3> QED
              BY <2>1, <3>1 DEF SaveSettings, SaveDomains, UpdateFor, Update, serviceVars
      <2>2. CASE SaveStatus(r)
          <3>1. request[r].kept = app.container
              BY <1>v, <2>2 DEF SaveStatus, SameContainer, Operating
          <3>2. PICK status : SetsStatus(status, app.container)
              BY <2>2, <3>1 DEF SaveStatus
          <3> QED
              BY <1>p, <3>2, StatusEffect DEF TInv, Record
      <2>3. CASE UNCHANGED app
          BY <2>3
      <2> QED
          BY <1>d, <2>1, <2>2, <2>3 DEF RequestStep, Refused, EditSettings, ChangeShared, ChangeInPlace, AddDomain,
             RemoveDomain, DecideRoute, PushDomains, RemoveRoute, Operate, DockerStart, DockerStop, StartRefused,
             StopRefused, DockerRestart, serviceVars
  \* So does what the request keeps.
  <1>2. /\ request'[r].at \in Holding => request'[r].kept.container = app.container
        /\ request'[r].at \in Operating => request'[r].kept = app.container
      <2>1. CASE EditSettings(r) \/ AddDomain(r) \/ RemoveDomain(r)
          <3>1. request'[r].at \notin Operating
              BY <1>p, <2>1 DEF EditSettings, AddDomain, RemoveDomain, Gets, Operating
          <3>2. request'[r].kept.container = app.container
              BY <1>p, <2>1 DEF EditSettings, AddDomain, RemoveDomain, Gets, Record
          <3> QED
              BY <3>1, <3>2
      <2>2. CASE Operate(r)
          BY <1>p, <2>2 DEF Operate, Gets, Holding
      <2>3. CASE SaveDomains(r)
          BY <1>p, <1>v, <2>3 DEF SaveDomains, Proceeds, Gets, Ends, Done, SameContainer, Holding, Operating
      <2>4. CASE DockerStart(r) \/ DockerStop(r) \/ DockerRestart(r)
          BY <1>p, <1>v, <2>4 DEF DockerStart, DockerStop, DockerRestart, Proceeds, Gets, SameContainer, Holding, Operating
      <2>5. CASE ChangeShared(r)
          BY <1>v, <2>5 DEF ChangeShared, SameContainer
      <2>6. CASE SaveStatus(r)
          BY <2>6 DEF SaveStatus, Done, Holding, Operating
      <2>7. CASE Refused(r) \/ SaveSettings(r) \/ DecideRoute(r) \/ PushDomains(r) \/ RemoveRoute(r) \/ StartRefused(r) \/ StopRefused(r)
          BY <1>p, <2>7 DEF Refused, SaveSettings, DecideRoute, PushDomains, RemoveRoute, StartRefused, StopRefused,
             Gets, Ends, Done, Holding, Operating
      <2> QED
          BY <1>d, <2>1, <2>2, <2>3, <2>4, <2>5, <2>6, <2>7 DEF RequestStep
  <1>3. ASSUME NEW q \in Requests PROVE SameContainer(q)'
      <2>1. CASE q = r
          BY <1>1, <1>2, <2>1 DEF SameContainer
      <2>2. CASE q # r
          BY <1>1, <1>f, <1>v, <2>2 DEF SameContainer, OnlyShared, Holding, Operating
      <2> QED
          BY <2>1, <2>2
  \* A container that is started or stopped exists before and after.
  <1>4. \A d \in Deployments : Exists(d)' <=> Exists(d)
      <2>1. CASE UNCHANGED ctr
          BY <2>1 DEF Exists
      <2>2. CASE DockerStart(r) \/ DockerStop(r) \/ DockerRestart(r)
          BY <1>p, <2>2 DEF DockerStart, DockerStop, DockerRestart, StartContainer, StopContainer, Exists
      <2>3. CASE StartRefused(r) \/ StopRefused(r)
          BY <2>1, <2>3 DEF StartRefused, StopRefused, CutOff, Mishap, Undisturbed, Disturbances
      <2> QED
          BY <1>d, <2>1, <2>2, <2>3 DEF RequestStep, Refused, EditSettings, ChangeShared, SaveSettings, AddDomain,
             RemoveDomain, SaveDomains, DecideRoute, PushDomains, RemoveRoute, Operate, SaveStatus
  <1> QED
      BY <1>f, <1>v, <1>1, <1>3, <1>4 DEF Expected

\* A step of a run preserves VersionOK: a run whose calls succeed has one
\* container more than the record names until it is over, a failed one too.
LEMMA VersionExecute ==
    ASSUME TInv, DInv, AInv, VersionOK, DeployStep
    PROVE  VersionOK'
  <1> SUFFICES ASSUME boots' = 0, Undisturbed(Disturbances)'
               PROVE  /\ \A q \in Requests : SameContainer(q)'
                      /\ run'.at \in Unsaved => run'.copy.container = app'.container
                      /\ run'.at \in Switching => app'.container = run'.dep /\ run'.copy.container \notin {None, run'.dep}
                      /\ \A d \in Deployments : Exists(d)' <=> Expected(d)'
      BY DEF VersionOK
  <1>f. UNCHANGED <<request, phase, boots>> /\ run.at # "idle" /\ phase = "up" /\ run.dep \in Deployments /\ run.copy \in Record
      BY ExecuteFrame
  <1>n. [Next]_vars
      BY DEF Next
  <1>p. /\ boots = 0 /\ Undisturbed(Disturbances)
        /\ app \in Record
        /\ run \in [at: RunPCs, dep: Deployments \cup {None}, copy: Record \cup {None}]
        /\ ctr \in [Deployments -> ContainerStates]
      BY <1>f, <1>n, MishapsStay, Undisturbances DEF TInv, TypeOK
  <1>q. \A q \in Requests : SameContainer(q)'
      BY <1>f, <1>p, Undisturbances DEF Serving, SameContainer, Holding, Operating
  <1>v. /\ run.at \in Unsaved => run.copy.container = app.container
        /\ run.at \in Switching => app.container = run.dep /\ run.copy.container \notin {None, run.dep}
        /\ \A d \in Deployments : Exists(d) <=> Expected(d)
      BY <1>p DEF VersionOK
  \* The record does not name the container of a run that has not switched.
  <1>u. run.at \in Unsaved => run.dep # app.container
      BY <1>f, <1>p, ApplicationAssumption DEF DInv, UnsavedOK, Known, Names
  \* Where a step leads, and what it does to the containers.
  <1>k. CASE StartFails \/ CreateFails
      <2>1. UNCHANGED <<app, ctr>>
          BY <1>k DEF StartFails, CreateFails, CutOff, Mishap, Undisturbed, Disturbances, serviceVars
      <2>2. CASE StartFails
          <3>1. run.at = "start" /\ run'.at = "removeNew" /\ run'.dep = run.dep /\ run'.copy = run.copy
              BY <1>p, <2>2 DEF StartFails, At, GoTo
          <3> QED
              BY <1>q, <1>v, <2>1, <3>1 DEF Exists, Expected, Unsaved, Creating, Switching
      <2>3. CASE CreateFails
          <3>1. run.at = "create" /\ run'.at = "idle"
              BY <2>3 DEF CreateFails, At, End, NoRun
          <3> QED
              BY <1>q, <1>v, <2>1, <3>1 DEF Exists, Expected, Unsaved, Creating, Switching
      <2> QED
          BY <1>k, <2>2, <2>3
  <1>1. CASE ObtainImage \/ Unhealthy \/ Healthy \/ RouteNew \/ RouteFails
      <2>1. UNCHANGED <<app, ctr>> /\ run'.dep = run.dep /\ run'.copy = run.copy
            /\ run.at \in Unsaved /\ run'.at \in Unsaved /\ (run'.at \in Creating <=> run.at \in Creating)
            /\ run.at \notin Switching /\ run'.at \notin Switching
          BY <1>1, <1>p DEF ObtainImage, Unhealthy, Healthy, RouteNew, RouteFails, At, GoTo, Unsaved, Creating, Switching, serviceVars
      <2> QED
          BY <1>q, <1>v, <2>1 DEF Exists, Expected
  <1>2. CASE StartNew \/ StopNew
      <2>1. UNCHANGED app /\ run'.dep = run.dep /\ run'.copy = run.copy
            /\ run.at \in Unsaved /\ run'.at \in Unsaved /\ run'.at \in Creating /\ run.at \in Creating
            /\ run.at \notin Switching /\ run'.at \notin Switching
          BY <1>2, <1>p DEF StartNew, StopNew, At, GoTo, Unsaved, Creating, Switching, serviceVars
      <2>2. \A d \in Deployments : Exists(d)' <=> Exists(d)
          <3>1. StartContainer(run.dep) \/ StopContainer(run.dep)
              BY <1>2 DEF StartNew, StopNew, Attempt, Mishap, Undisturbed, Disturbances
          <3> QED
              BY <1>p, <3>1 DEF StartContainer, StopContainer, Exists
      <2> QED
          BY <1>q, <1>v, <2>1, <2>2 DEF Expected
  <1>3. CASE CreateNew
      <2>1. UNCHANGED app /\ run'.dep = run.dep /\ run'.copy = run.copy /\ run.at = "create" /\ run'.at = "start"
            /\ ctr' = [ctr EXCEPT ![run.dep] = "created"]
          BY <1>3, <1>p DEF CreateNew, CreateContainer, At, GoTo, serviceVars
      <2>2. \A d \in Deployments : Exists(d)' <=> Exists(d) \/ d = run.dep
          BY <1>f, <1>p, <2>1 DEF Exists
      <2> QED
          BY <1>q, <1>v, <2>1, <2>2 DEF Expected, Unsaved, Creating, Switching
  <1>4. CASE FailsEarly
      <2>1. UNCHANGED <<app, ctr>> /\ run.at = "sources" /\ run'.at = "idle"
          BY <1>4 DEF FailsEarly, At, End, NoRun, serviceVars
      <2> QED
          BY <1>q, <1>v, <2>1 DEF Exists, Expected, Unsaved, Creating, Switching
  <1>5. CASE RemoveNew
      <2>1. UNCHANGED app /\ run.at = "removeNew" /\ run'.at = "idle"
          BY <1>5 DEF RemoveNew, At, End, NoRun, serviceVars
      <2>2. ctr' = [ctr EXCEPT ![run.dep] = "absent"]
          BY <1>5 DEF RemoveNew, RemoveContainer, Attempt, Mishap, Undisturbed, Disturbances
      <2>3. \A d \in Deployments : Exists(d)' <=> Exists(d) /\ d # run.dep
          BY <1>f, <1>p, <2>2 DEF Exists
      <2> QED
          BY <1>q, <1>u, <1>v, <2>1, <2>3 DEF Expected, Unsaved, Creating, Switching
  <1>6. CASE StopOld
      <2>1. UNCHANGED app /\ run'.dep = run.dep /\ run'.copy = run.copy /\ run.at = "stopOld" /\ run'.at = "removeOld"
          BY <1>6, <1>p DEF StopOld, At, GoTo, serviceVars
      <2>2. \A d \in Deployments : Exists(d)' <=> Exists(d)
          <3>1. UNCHANGED ctr \/ StopContainer(run.copy.container)
              BY <1>6 DEF StopOld, Attempt
          <3> QED
              BY <1>p, <3>1 DEF StopContainer, Exists
      <2> QED
          BY <1>q, <1>v, <2>1, <2>2 DEF Expected, Unsaved, Creating, Switching
  <1>7. CASE RemoveOld
      <2>1. UNCHANGED app /\ run.at = "removeOld" /\ run'.at = "idle"
          BY <1>7 DEF RemoveOld, At, End, NoRun, serviceVars
      <2>2. ctr' = [ctr EXCEPT ![run.copy.container] = "absent"]
          BY <1>7 DEF RemoveOld, RemoveContainer, Attempt, Mishap, Undisturbed, Disturbances
      <2>3. \A d \in Deployments : Exists(d)' <=> Exists(d) /\ d # run.copy.container
          BY <1>f, <1>p, <2>2 DEF Exists, Record
      <2> QED
          BY <1>q, <1>v, <2>1, <2>3 DEF Expected, Unsaved, Creating, Switching
  <1>8. CASE SaveApp
      <2>1. Updates(Switched, TRUE) /\ app' = Switched
          BY <1>8 DEF SaveApp, Updates, Update, Mishap, Undisturbed, Disturbances
      <2>2. app'.container = run.dep
          BY <1>f, <2>1 DEF Switched, Record
      <2>3. UNCHANGED ctr /\ run.at = "save"
          BY <1>8 DEF SaveApp, At
      <2>4. CASE run.copy.container \notin {None, run.dep}
          <3>1. run'.at = "stopOld" /\ run'.dep = run.dep /\ run'.copy = run.copy
              BY <1>8, <1>p, <2>4 DEF SaveApp, GoTo
          <3> QED
              BY <1>q, <1>v, <2>2, <2>3, <2>4, <3>1 DEF Exists, Expected, Unsaved, Creating, Switching
      <2>5. CASE run.copy.container \in {None, run.dep}
          <3>1. run'.at = "idle"
              BY <1>8, <2>5 DEF SaveApp, End, NoRun
          <3> QED
              BY <1>q, <1>u, <1>v, <2>2, <2>3, <2>5, <3>1, ApplicationAssumption DEF Exists, Expected, Unsaved, Creating, Switching
      <2> QED
          BY <2>4, <2>5
  <1> QED
      BY <1>k, <1>1, <1>2, <1>3, <1>4, <1>5, <1>6, <1>7, <1>8 DEF DeployStep, ExecuteStep

\* The other steps preserve VersionOK.
LEMMA VersionRest ==
    ASSUME TInv, AInv, VersionOK,
           \/ \E d \in Deployments : Deploy(d) \/ DockerRevives(d)
           \/ ProcessEnds \/ LoadApplications \/ SyncRoutes \/ Reconcile
    PROVE  VersionOK'
  <1>n. [Next]_vars
      BY DEF Next
  <1>1. ASSUME NEW d \in Deployments, Deploy(d) PROVE VersionOK'
      <2> SUFFICES ASSUME boots' = 0, Undisturbed(Disturbances)' PROVE VersionOK'
          BY DEF VersionOK
      <2>1. UNCHANGED <<app, ctr, request, boots>> /\ run.at = "idle" /\ (run' = run \/ (run'.at = "sources" /\ run'.copy = app))
          BY <1>1 DEF Deploy, Execute, At, serviceVars
      <2> QED
          BY <1>n, <2>1, MishapsStay DEF VersionOK, SameContainer, Exists, Expected, Unsaved, Creating, Switching
  <1>2. ASSUME NEW d \in Deployments, DockerRevives(d) PROVE VersionOK'
      <2>1. UNCHANGED <<app, run, request, boots, mishaps>> /\ \A e \in Deployments : Exists(e)' <=> Exists(e)
          BY <1>2 DEF DockerRevives, serviceVars, runVars, historyVars, Exists, TInv, TypeOK
      <2> QED
          BY <2>1 DEF VersionOK, SameContainer, Expected, Undisturbed
  <1>3. CASE ProcessEnds \/ LoadApplications \/ SyncRoutes \/ Reconcile
      <2>1. boots' # 0
          BY <1>3, LifeAssumption DEF ProcessEnds, LoadApplications, SyncRoutes, Reconcile, AInv, BootsOK, TInv, TypeOK
      <2> QED
          BY <2>1 DEF VersionOK
  <1> QED
      BY <1>1, <1>2, <1>3

\* Between deployments there is the container that the record names and no
\* other, whatever deployments failed and however many requests, together or
\* one after the other, have changed the application between them.
THEOREM OneVersionAlways == Spec => []OneVersion
  <1>1. Init => VersionOK
      <2> SUFFICES ASSUME Init PROVE VersionOK
          OBVIOUS
      <2>1. app.container = None
          BY DEF Init, NewRecords, NewRecord
      <2> QED
          BY <2>1, ApplicationAssumption DEF Init, VersionOK, SameContainer, Holding, Operating, NoRequest, NoRun, Exists, Expected, Unsaved, Creating, Switching
  <1>2. TInv /\ DInv /\ AInv /\ VersionOK /\ [Next]_vars => VersionOK'
      <2> SUFFICES ASSUME TInv, DInv, AInv, VersionOK, [Next]_vars PROVE VersionOK'
          OBVIOUS
      <2>1. CASE UNCHANGED vars
          BY <2>1 DEF vars, serviceVars, runVars, historyVars, VersionOK, SameContainer, Exists, Expected, Undisturbed
      <2> QED
          BY <2>1, VersionRequest, VersionExecute, VersionRest DEF Next
  <1>3. TInv /\ AInv /\ VersionOK => OneVersion
      <2> SUFFICES ASSUME TInv, AInv, VersionOK, Quiet, boots = 0, Undisturbed(Disturbances)
                   PROVE  {d \in Deployments : Exists(d)} = {app.container} \ {None}
          BY DEF OneVersion, Disturbances
      <2>1. app.container \in Deployments \cup {None}
          BY Undisturbances DEF Quiet, TInv, TypeOK, Record
      <2>2. \A d \in Deployments : Exists(d) <=> d = app.container
          BY DEF VersionOK, Expected, Quiet, Creating, Switching
      <2> QED
          BY <2>1, <2>2, ApplicationAssumption
  <1> QED
      BY <1>1, <1>2, <1>3, Invariants, PTL DEF Spec

-----------------------------------------------------------------------------
(* StatusIsTrue *)

\* What the property allows for.
Mistakes == {"deployment", "requests", "save", "docker", "delete", "import"}

\* A request changes a container first and the record's status then.
Between == {"toStopped", "startingAgain"}

\* A request that is alone works on the record as it is; a start is recorded
\* when the container runs; a run that has switched is about to stop another
\* container than the record's; and the record is true unless a request is
\* between its two steps.
StatusOK ==
    Undisturbed(Mistakes) =>
      /\ \A r \in Requests :
            /\ SameContainer(r)
            /\ request[r].at \in Holding => request[r].kept.status = app.status
            /\ request[r].at = "toRunning" => ctr[request[r].kept] = "running"
      /\ run.at \in Switching => app.container = run.dep /\ run.copy.container # run.dep
      /\ (/\ phase = "up" /\ app.status = "running"
          /\ \A r \in Requests : request[r].at \notin Between)
           => app.container \in Deployments /\ ctr[app.container] = "running"

\* In an undisturbed state there is a record, and one request or one deployment.
LEMMA MistakesApart ==
    ASSUME AInv, Undisturbed(Mistakes)
    PROVE  /\ file # None /\ (phase # "down" => app # None)
           /\ \A r \in Requests : Serving(r) => run.at = "idle"
           /\ \A r, q \in Requests : Serving(r) /\ Serving(q) => r = q
           /\ \A r \in Requests : request[r].at # "importing"
  BY DEF AInv, PresentOK, ApartOK, AloneOK, ImportOK, Undisturbed, Mistakes

\* A step of a request preserves StatusOK.
LEMMA StatusRequest ==
    ASSUME TInv, AInv, AInv', StatusOK, NEW r \in Requests, RequestStep(r)
    PROVE  StatusOK'
  <1> SUFFICES ASSUME Undisturbed(Mistakes)' PROVE StatusOK'
      BY DEF StatusOK
  <1>f. UNCHANGED <<run, outcome, phase, boots>> /\ phase = "up"
        /\ \A q \in Requests : q # r => OnlyShared(q)
      BY RequestFrame
  <1>n. [Next]_vars
      BY DEF Next
  <1>p. /\ Undisturbed(Mistakes)
        /\ app \in Record /\ app # None
        /\ request \in [Requests -> [at: RequestPCs, kept: Kept]] /\ RequestOK
        /\ ctr \in [Deployments -> ContainerStates]
      BY <1>f, <1>n, MishapsStay, MistakesApart DEF TInv, TypeOK
  <1>v. /\ \A q \in Requests :
              /\ SameContainer(q)
              /\ request[q].at \in Holding => request[q].kept.status = app.status
              /\ request[q].at = "toRunning" => ctr[request[q].kept] = "running"
        /\ run.at \in Switching => app.container = run.dep /\ run.copy.container # run.dep
        /\ (app.status = "running" /\ \A q \in Requests : request[q].at \notin Between)
             => app.container \in Deployments /\ ctr[app.container] = "running"
      BY <1>f, <1>p DEF StatusOK
  <1>o. /\ ~DeleteApplication(r) /\ ~CreateApplication(r) /\ ~RestartFails(r)
        /\ ~ImportBackup(r) /\ ~ReloadApplications(r) /\ ~ReloadFails(r)
      <2>1. ~DeleteApplication(r) /\ ~CreateApplication(r) /\ ~RestartFails(r) /\ ~ImportBackup(r)
          BY <1>p DEF DeleteApplication, CreateApplication, RestartFails, ImportBackup, Create, Mishap, Undisturbed, Mistakes
      <2>2. request[r].at # "importing"
          BY <1>p, MistakesApart
      <2> QED
          BY <2>1, <2>2 DEF ReloadApplications, ReloadFails
  \* While this request is under way no other is, and no deployment.
  <1>s. ASSUME Serving(r) \/ Serving(r)'
        PROVE  /\ \A q \in Requests : q # r => request'[q].at \in {"none", "done"} /\ request[q].at \in {"none", "done"}
               /\ run.at = "idle"
      <2>1. CASE Serving(r)
          <3>1. \A q \in Requests : Serving(q) => q = r
              BY <1>p, <2>1, MistakesApart
          <3> QED
              BY <1>f, <1>p, <2>1, <3>1, MistakesApart DEF Serving, OnlyShared
      <2>2. CASE Serving(r)'
          <3>1. \A q \in Requests : Serving(q)' => q = r
              BY <2>2 DEF AInv, AloneOK, Undisturbed, Mistakes
          <3>2. run'.at = "idle"
              BY <2>2 DEF AInv, ApartOK, Undisturbed, Mistakes
          <3> QED
              BY <1>f, <3>1, <3>2 DEF Serving, OnlyShared
      <2> QED
          BY <1>s, <2>1, <2>2
  \* What has to be shown when the step leaves the record's container and status
  \* alone, and what runs.
  <1>g. ASSUME app'.container = app.container, app'.status = app.status,
               \A d \in Deployments : ctr[d] = "running" => ctr'[d] = "running",
               request[r].at \notin Between, request'[r].at \notin Between \cup {"toRunning"},
               SameContainer(r)', request'[r].at \in Holding => request'[r].kept.status = app.status
        PROVE  StatusOK'
      <2>1. ASSUME NEW q \in Requests
            PROVE  /\ SameContainer(q)'
                   /\ request'[q].at \in Holding => request'[q].kept.status = app'.status
                   /\ request'[q].at = "toRunning" => ctr'[request'[q].kept] = "running"
          <3>1. CASE q = r
              BY <1>g, <3>1
          <3>2. CASE q # r
              <4>1. /\ request'[q].at = request[q].at
                    /\ request'[q].kept = request[q].kept
                       \/ (request'[q].kept.container = app.container /\ request'[q].kept.status = app.status
                           /\ request[q].at = "saved")
                  BY <1>f, <1>g, <3>2 DEF OnlyShared
              <4>2. request[q].at = "toRunning" => request[q].kept \in Deployments
                  BY <1>p DEF RequestOK, Operating
              <4> QED
                  BY <1>g, <1>v, <4>1, <4>2 DEF SameContainer, Holding, Operating
          <3> QED
              BY <3>1, <3>2
      <2>2. (\A q \in Requests : request'[q].at \notin Between) => \A q \in Requests : request[q].at \notin Between
          BY <1>f, <1>g DEF OnlyShared
      <2> QED
          BY <1>f, <1>g, <1>v, <2>1, <2>2 DEF StatusOK
  \* The steps that change neither container nor record.
  <1>1. CASE Refused(r) \/ DecideRoute(r) \/ PushDomains(r) \/ RemoveRoute(r)
      <2>1. UNCHANGED <<app, ctr>> /\ request[r].at \notin Between
            /\ request'[r].at \in {"done", "removing", "upserting"}
          BY <1>1, <1>p DEF Refused, Begins, DecideRoute, PushDomains, RemoveRoute, Gets, Ends, Done, serviceVars, Between
      <2> QED
          BY <1>g, <2>1 DEF SameContainer, Holding, Operating, Between
  <1>r. CASE StartRefused(r) \/ StopRefused(r)
      <2>1. UNCHANGED ctr
          BY <1>r DEF StartRefused, StopRefused, CutOff, Mishap, Undisturbed, Mistakes
      <2>2. UNCHANGED app /\ request[r].at \notin Between /\ request'[r].at = "done"
          BY <1>r, <1>p DEF StartRefused, StopRefused, Ends, Done, serviceVars, Between
      <2> QED
          BY <1>g, <2>1, <2>2 DEF SameContainer, Holding, Operating, Between
  <1>2. CASE EditSettings(r) \/ AddDomain(r) \/ RemoveDomain(r)
      <2>1. UNCHANGED <<app, ctr>> /\ request[r].at = "none" /\ request'[r].at \in {"editing", "appending", "relisting"}
          BY <1>2, <1>p DEF EditSettings, AddDomain, RemoveDomain, Begins, Gets, serviceVars
      <2>2. request'[r].kept.container = app.container /\ request'[r].kept.status = app.status
          BY <1>2, <1>p DEF EditSettings, AddDomain, RemoveDomain, Gets, Record
      <2> QED
          BY <1>g, <2>1, <2>2 DEF SameContainer, Operating, Between
  <1>c. CASE ChangeShared(r)
      <2>1. UNCHANGED <<app, ctr, request>> /\ request[r].at \in {"editing", "appending"}
          BY <1>c DEF ChangeShared, ChangeInPlace
      <2> QED
          BY <1>g, <1>v, <2>1 DEF SameContainer, Between
  <1>7. CASE Operate(r)
      <2>1. UNCHANGED <<app, ctr>> /\ request[r].at = "none" /\ request'[r].at \in {"starting", "stopping", "restarting"}
            /\ request'[r].kept = app.container
          BY <1>7, <1>p DEF Operate, Begins, Gets, serviceVars
      <2> QED
          BY <1>g, <2>1 DEF SameContainer, Holding, Between
  <1>3. CASE SaveSettings(r) \/ SaveDomains(r)
      <2>1. request[r].at \in Holding \ Between /\ UNCHANGED ctr
          BY <1>3 DEF SaveSettings, SaveDomains, Holding, Between
      <2>2. app'.container = app.container /\ app'.status = app.status
          BY <1>3, <1>v, <2>1 DEF SaveSettings, SaveDomains, UpdateFor, Update, SameContainer, serviceVars
      <2>3. request'[r].at \in {"done", "saved"} /\ (request'[r].at = "saved" => request'[r].kept = request[r].kept)
          BY <1>3, <1>p DEF SaveSettings, SaveDomains, Ends, Proceeds, Gets, Done
      <2> QED
          BY <1>g, <1>v, <2>1, <2>2, <2>3 DEF SameContainer, Holding, Operating, Between
  <1>4. CASE DockerStart(r) \/ DockerStop(r) \/ DockerRestart(r)
      <2>1. /\ request[r].at \in {"starting", "stopping", "restarting", "startingAgain"}
            /\ request'[r].kept = request[r].kept /\ UNCHANGED app
          BY <1>4, <1>p DEF DockerStart, DockerStop, DockerRestart, Proceeds, Gets, serviceVars
      <2>2. Serving(r) /\ request[r].kept = app.container /\ app.container \in Deployments
          BY <1>p, <1>v, <2>1 DEF Serving, SameContainer, Operating, RequestOK
      <2>3. (\A q \in Requests : q # r => request'[q].at \in {"none", "done"} /\ request[q].at \in {"none", "done"}) /\ run.at = "idle"
          BY <1>s, <2>2
      <2>4. CASE DockerStart(r)
          <3>1. ctr'[app.container] = "running" /\ request'[r].at = "toRunning"
              BY <1>p, <2>2, <2>4 DEF DockerStart, StartContainer, Proceeds, Gets
          <3> QED
              BY <1>f, <2>1, <2>2, <2>3, <3>1 DEF StatusOK, SameContainer, Holding, Operating, Switching
      <2>5. CASE DockerStop(r) \/ DockerRestart(r)
          <3>1. request'[r].at \in Between
              BY <1>p, <2>5 DEF DockerStop, DockerRestart, Proceeds, Gets, Between
          <3> QED
              BY <1>f, <2>1, <2>2, <2>3, <3>1 DEF StatusOK, SameContainer, Holding, Operating, Switching, Between
      <2> QED
          BY <1>4, <2>4, <2>5
  <1>5. CASE SaveStatus(r)
      <2>1. /\ request[r].at \in {"toRunning", "toStopped"} /\ UNCHANGED ctr
            /\ request'[r].at = "done"
          BY <1>5 DEF SaveStatus, Done
      <2>2. Serving(r) /\ request[r].kept = app.container /\ app.container \in Deployments
          BY <1>p, <1>v, <2>1 DEF Serving, SameContainer, Operating, RequestOK
      <2>3. (\A q \in Requests : q # r => request'[q].at \in {"none", "done"}) /\ run.at = "idle"
          BY <1>s, <2>2
      <2>4. SetsStatus(IF request[r].at = "toRunning" THEN "running" ELSE "stopped", app.container)
          BY <1>5, <2>2 DEF SaveStatus
      <2>5. app'.container = app.container /\ app'.status = IF request[r].at = "toRunning" THEN "running" ELSE "stopped"
          BY <1>p, <2>2, <2>4, StatusEffect, ApplicationAssumption DEF TInv
      <2>6. request[r].at = "toRunning" => ctr'[app'.container] = "running"
          BY <1>v, <2>1, <2>2, <2>5
      <2> QED
          BY <1>f, <2>1, <2>2, <2>3, <2>5, <2>6 DEF StatusOK, SameContainer, Holding, Operating, Switching
  \* A prune removes nothing that runs.
  <1>6. CASE SystemPrune(r)
      <2>1. /\ UNCHANGED app /\ request[r].at = "none" /\ request'[r].at = "done"
            /\ \A d \in Deployments : ctr[d] = "running" => ctr'[d] = "running"
          BY <1>6, <1>p DEF SystemPrune, Begins, Ends, Done, serviceVars
      <2> QED
          BY <1>g, <2>1 DEF SameContainer, Holding, Operating, Between
  <1> QED
      BY <1>o, <1>r, <1>c, <1>1, <1>2, <1>3, <1>4, <1>5, <1>6, <1>7 DEF RequestStep

\* A step of a run preserves StatusOK: until the record names the new container
\* the steps are about that one, afterwards about the one before it.
LEMMA StatusExecute ==
    ASSUME TInv, DInv, AInv, StatusOK, DeployStep
    PROVE  StatusOK'
  <1> SUFFICES ASSUME Undisturbed(Mistakes)' PROVE StatusOK'
      BY DEF StatusOK
  <1>f. UNCHANGED <<request, phase, boots>> /\ run.at # "idle" /\ phase = "up" /\ run.dep \in Deployments /\ run.copy \in Record
      BY ExecuteFrame
  <1>n. [Next]_vars
      BY DEF Next
  <1>p. /\ Undisturbed(Mistakes)
        /\ app \in Record
        /\ run \in [at: RunPCs, dep: Deployments \cup {None}, copy: Record \cup {None}]
        /\ ctr \in [Deployments -> ContainerStates]
      BY <1>f, <1>n, MishapsStay, MistakesApart DEF TInv, TypeOK
  <1>q. \A q \in Requests : request[q].at \in {"none", "done"}
      BY <1>f, <1>p, MistakesApart DEF Serving
  <1>v. /\ run.at \in Switching => app.container = run.dep /\ run.copy.container # run.dep
        /\ app.status = "running" => app.container \in Deployments /\ ctr[app.container] = "running"
      BY <1>f, <1>p, <1>q DEF StatusOK, Between
  <1>u. run.at \in Unsaved => run.dep # app.container
      BY <1>f, <1>p, ApplicationAssumption DEF DInv, UnsavedOK, Known, Names
  \* What has to be shown.
  <1>g. ASSUME run'.at \in Switching => app'.container = run'.dep /\ run'.copy.container # run'.dep,
               app'.status = "running" => app'.container \in Deployments /\ ctr'[app'.container] = "running"
        PROVE  StatusOK'
      BY <1>f, <1>g, <1>q DEF StatusOK, SameContainer, Holding, Operating
  <1>1. CASE SaveApp
      <2>1. Updates(Switched, TRUE) /\ app' = Switched
          BY <1>1 DEF SaveApp, Updates, Update, Mishap, Undisturbed, Mistakes
      <2>2. app'.container = run.dep
          BY <1>f, <2>1 DEF Switched, Record
      <2>3. ctr'[run.dep] = "running"
          BY <1>1 DEF SaveApp, At, DInv, RoutedOK
      <2>4. run'.at \in Switching => run'.dep = run.dep /\ run'.copy = run.copy /\ run.copy.container # run.dep
          BY <1>1, <1>p DEF SaveApp, At, GoTo, End, NoRun, Switching
      <2> QED
          BY <1>f, <1>g, <2>2, <2>3, <2>4
  <1>2. CASE StopOld \/ RemoveOld
      <2>1. UNCHANGED app /\ run.at \in Switching
            /\ (run'.at \in Switching => run'.dep = run.dep /\ run'.copy = run.copy)
          BY <1>2, <1>p DEF StopOld, RemoveOld, At, GoTo, End, NoRun, Switching, serviceVars
      <2>2. \A d \in Deployments : d # run.copy.container => ctr'[d] = ctr[d]
          BY <1>2, <1>p DEF StopOld, RemoveOld, Attempt, StopContainer, RemoveContainer
      <2> QED
          BY <1>g, <1>v, <2>1, <2>2
  <1>k. CASE StartFails \/ CreateFails
      <2>1. UNCHANGED <<app, ctr>>
          BY <1>k DEF StartFails, CreateFails, CutOff, Mishap, Undisturbed, Mistakes, serviceVars
      <2>2. run'.at \notin Switching
          BY <1>k, <1>p DEF StartFails, CreateFails, At, GoTo, End, NoRun, Switching
      <2> QED
          BY <1>g, <1>v, <2>1, <2>2
  <1>3. CASE ObtainImage \/ FailsEarly \/ Healthy \/ Unhealthy \/ RouteNew \/ RouteFails
      <2>1. UNCHANGED <<app, ctr>> /\ run'.at \notin Switching
          BY <1>3, <1>p DEF ObtainImage, FailsEarly, Healthy, Unhealthy, RouteNew, RouteFails,
             At, GoTo, End, NoRun, Switching, serviceVars
      <2> QED
          BY <1>g, <1>v, <2>1
  <1>4. CASE CreateNew \/ StartNew \/ StopNew \/ RemoveNew
      <2>1. UNCHANGED app /\ run.at \in Unsaved /\ run'.at \notin Switching
          BY <1>4, <1>p DEF CreateNew, StartNew, StopNew, RemoveNew, At, GoTo, End, NoRun, Switching, Unsaved, serviceVars
      <2>2. \A d \in Deployments : d # run.dep => ctr'[d] = ctr[d]
          BY <1>4, <1>p DEF CreateNew, StartNew, StopNew, RemoveNew, Attempt, CreateContainer, StartContainer, StopContainer, RemoveContainer
      <2> QED
          BY <1>g, <1>u, <1>v, <2>1, <2>2
  <1> QED
      BY <1>k, <1>1, <1>2, <1>3, <1>4 DEF DeployStep, ExecuteStep

\* The other steps preserve StatusOK; a start makes the record true.
LEMMA StatusRest ==
    ASSUME TInv, DInv, AInv, StatusOK,
           \/ \E d \in Deployments : Deploy(d) \/ DockerRevives(d)
           \/ ProcessEnds \/ LoadApplications \/ SyncRoutes \/ Reconcile
    PROVE  StatusOK'
  <1> SUFFICES ASSUME Undisturbed(Mistakes)' PROVE StatusOK'
      BY DEF StatusOK
  <1>n. [Next]_vars
      BY DEF Next
  <1>p. Undisturbed(Mistakes) /\ ctr \in [Deployments -> ContainerStates]
      BY <1>n, MishapsStay DEF TInv, TypeOK
  <1>1. ASSUME NEW d \in Deployments, Deploy(d) PROVE StatusOK'
      <2>1. UNCHANGED <<app, ctr, request, phase>> /\ run'.at \notin Switching
          BY <1>1 DEF Deploy, Execute, At, serviceVars, Switching
      <2> QED
          BY <1>p, <2>1 DEF StatusOK, SameContainer
  <1>2. ASSUME NEW d \in Deployments, DockerRevives(d) PROVE StatusOK'
      <2>1. UNCHANGED <<app, run, request, phase>> /\ \A e \in Deployments : ctr[e] = "running" => ctr'[e] = "running"
          BY <1>2, <1>p DEF DockerRevives, serviceVars, runVars
      <2>2. \A r \in Requests : request[r].at = "toRunning" => request[r].kept \in Deployments
          BY DEF TInv, RequestOK, Operating
      <2> QED
          BY <1>p, <2>1, <2>2 DEF StatusOK, SameContainer
  <1>3. CASE ProcessEnds
      <2>1. phase' = "down" /\ run'.at = "idle" /\ \A r \in Requests : request'[r].at \in {"none", "done"}
          BY <1>3 DEF ProcessEnds, NoRun, Done, Serving
      <2> QED
          BY <2>1 DEF StatusOK, SameContainer, Holding, Operating, Switching
  <1>4. CASE LoadApplications \/ SyncRoutes
      <2>1. phase # "up" /\ phase' # "up" /\ UNCHANGED <<run, request>>
          BY <1>4 DEF LoadApplications, SyncRoutes, runVars
      <2> QED
          BY <2>1 DEF StatusOK, SameContainer, Holding, Operating, Serving, Switching, TInv, PhaseOK
  <1>5. CASE Reconcile
      <2>1. phase = "synced" /\ phase' = "up" /\ UNCHANGED <<run, request, ctr>>
          BY <1>5 DEF Reconcile, runVars
      <2>2. app # None /\ app \in Record
          BY <1>p, <2>1, MistakesApart DEF TInv, TypeOK
      <2>3. run.at = "idle" /\ \A r \in Requests : request[r].at \in {"none", "done"}
          BY <2>1 DEF TInv, PhaseOK, Serving
      <2>4. app'.status = "running" => app'.container \in Deployments /\ ctr[app'.container] = "running"
          <3>1. CASE app.status # "running" /\ UNCHANGED serviceVars
              BY <3>1 DEF serviceVars
          <3>2. CASE SetsStatus("stopped", None)
              BY <2>2, <3>2, StatusEffect DEF TInv
          <3>3. ASSUME NEW d \in Deployments, NEW target,
                       target = IF ctr[d] = "running" THEN "running" ELSE "stopped",
                       IF app.status # target \/ app.container # d
                         THEN SetsStatus(target, d) ELSE UNCHANGED <<serviceVars, mishaps>>
                PROVE  app'.status = "running" => app'.container \in Deployments /\ ctr[app'.container] = "running"
              <4>1. CASE SetsStatus(target, d)
                  BY <2>2, <3>3, <4>1, StatusEffect, ApplicationAssumption DEF TInv
              <4>2. CASE app.status = target /\ app.container = d /\ UNCHANGED serviceVars
                  BY <3>3, <4>2 DEF serviceVars
              <4> QED
                  BY <3>3, <4>1, <4>2
          <3>4. ~Mishap("docker")
              BY DEF Mishap, Undisturbed, Mistakes
          <3> QED
              BY <1>5, <2>2, <3>1, <3>2, <3>3, <3>4 DEF Reconcile
      <2> QED
          BY <2>1, <2>3, <2>4 DEF StatusOK, SameContainer, Holding, Operating, Switching
  <1> QED
      BY <1>1, <1>2, <1>3, <1>4, <1>5

\* An application recorded as running runs: whatever deployments fail, wherever
\* the process or the host ends, whatever a prune removes, and however many
\* requests follow one another.
THEOREM StatusIsAlwaysTrue == Spec => []StatusIsTrue
  <1>1. Init => StatusOK
      <2> SUFFICES ASSUME Init PROVE StatusOK
          OBVIOUS
      <2>1. app.status = "created"
          BY DEF Init, NewRecords, NewRecord
      <2> QED
          BY <2>1 DEF Init, StatusOK, SameContainer, Holding, Operating, NoRequest, NoRun, Switching
  <1>2. TInv /\ DInv /\ AInv /\ StatusOK /\ [Next]_vars => StatusOK'
      <2> SUFFICES ASSUME TInv, DInv, AInv, StatusOK, [Next]_vars PROVE StatusOK'
          OBVIOUS
      <2>1. CASE UNCHANGED vars
          BY <2>1 DEF vars, serviceVars, runVars, historyVars, StatusOK, SameContainer, Undisturbed
      <2>2. AInv'
          BY ApartNext
      <2> QED
          BY <2>1, <2>2, StatusRequest, StatusExecute, StatusRest DEF Next
  <1>3. StatusOK => StatusIsTrue
      BY DEF StatusOK, StatusIsTrue, Quiet, Serving, Between, Mistakes
  <1> QED
      BY <1>1, <1>2, <1>3, Invariants, PTL DEF Spec

-----------------------------------------------------------------------------
(* WorkersNotExposed *)

\* What the property allows for.
Overlaps == {"deployment", "requests", "delete", "import"}

\* A record that is kept is valid.
ValidOK == (app # None => Validate(app)) /\ (file # None => Validate(file))

\* Every copy of the record that a request or a run will write or route has the
\* domains of the record, but for the request that is about to change them; and
\* a record without domains has no route, unless a request is about to remove it.
RouteOK ==
    Undisturbed(Overlaps) =>
      /\ \A r \in Requests : request[r].at \in {"editing", "saved"} => request[r].kept.domains = app.domains
      /\ \A r \in Requests : request[r].at = "upserting" => app.domains
      /\ run.at # "idle" => run.copy.domains = app.domains
      /\ phase \in {"down", "loaded"} => ~table
      /\ phase # "down" /\ ~app.domains => ~table \/ \E r \in Requests : request[r].at \in {"saved", "removing"}

\* In such a state there is a record, and one request or one deployment.
LEMMA OverlapsApart ==
    ASSUME AInv, Undisturbed(Overlaps)
    PROVE  /\ file # None /\ (phase # "down" => app # None)
           /\ \A r \in Requests : Serving(r) => run.at = "idle"
           /\ \A r, q \in Requests : Serving(r) /\ Serving(q) => r = q
           /\ \A r \in Requests : request[r].at # "importing"
  BY DEF AInv, PresentOK, ApartOK, AloneOK, ImportOK, Undisturbed, Overlaps

\* The domains and the kind of a record decide whether it is valid.
LEMMA StatusKeepsValid ==
    ASSUME TypeOK, NEW status, NEW container \in Deployments \cup {None}, app # None, ValidOK,
           SetsStatus(status, container)
    PROVE  ValidOK' /\ app'.domains = app.domains
  BY StatusEffect DEF ValidOK, Validate

\* Records stay valid: Create and Update refuse others, UpdateStatus changes
\* neither kind nor domains.
LEMMA ValidNext == TInv /\ ValidOK /\ [Next]_vars => ValidOK'
  <1> SUFFICES ASSUME TInv, ValidOK, [Next]_vars PROVE ValidOK'
      OBVIOUS
  <1>1. CASE UNCHANGED <<app, file>>
      BY <1>1 DEF ValidOK
  <1>2. ASSUME NEW record, NEW saved, Update(record, saved) PROVE ValidOK'
      BY <1>2 DEF Update, Updates, ValidOK, serviceVars
  <1>3. ASSUME NEW status, NEW container \in Deployments \cup {None}, SetsStatus(status, container) PROVE ValidOK'
      <2>1. CASE app = None
          BY <1>1, <1>3, <2>1 DEF SetsStatus, UpdateStatus, serviceVars
      <2>2. CASE app # None
          BY <1>3, <2>2, StatusKeepsValid DEF TInv
      <2> QED
          BY <2>1, <2>2
  <1>4. ASSUME NEW r \in Requests, RequestStep(r) PROVE ValidOK'
      <2>1. CASE SaveSettings(r) \/ SaveDomains(r)
          BY <1>2, <2>1 DEF SaveSettings, SaveDomains, UpdateFor
      <2>2. CASE SaveStatus(r)
          <3>1. request[r].kept \in Deployments \cup {None}
              BY <2>2 DEF SaveStatus, TInv, RequestOK, Operating
          <3> QED
              BY <1>3, <2>2, <3>1 DEF SaveStatus
      <2>3. CASE DeleteApplication(r)
          BY <2>3 DEF DeleteApplication, Delete, DeleteFails, ValidOK
      <2>4. CASE CreateApplication(r)
          BY <2>4 DEF CreateApplication, Create, NewRecords, ValidOK, serviceVars
      <2>5. CASE ImportBackup(r)
          BY <2>5, LifeAssumption DEF ImportBackup, ValidOK
      <2>6. CASE ReloadApplications(r)
          BY <2>6 DEF ReloadApplications, Reload, Load, ValidOK, serviceVars
      <2> QED
          BY <1>1, <1>4, <2>1, <2>2, <2>3, <2>4, <2>5, <2>6 DEF RequestStep, Refused, EditSettings, ChangeShared,
             ChangeInPlace, AddDomain, RemoveDomain, DecideRoute, PushDomains, RemoveRoute, Operate, DockerStart,
             DockerStop, StartRefused, StopRefused, DockerRestart, RestartFails, SystemPrune, ReloadFails, serviceVars
  <1>5. CASE DeployStep
      BY <1>1, <1>2, <1>5 DEF DeployStep, ExecuteStep, ObtainImage, CreateNew, FailsEarly, CreateFails, StartNew,
         StartFails, Healthy, Unhealthy, RouteNew, RouteFails, StopNew, RemoveNew, SaveApp, StopOld, RemoveOld, serviceVars
  <1>6. CASE ProcessEnds \/ LoadApplications
      BY <1>6 DEF ProcessEnds, LoadApplications, Load, ValidOK
  <1>7. CASE Reconcile
      BY <1>1, <1>3, <1>7 DEF Reconcile, serviceVars
  <1>8. CASE SyncRoutes \/ (\E d \in Deployments : Deploy(d) \/ DockerRevives(d)) \/ UNCHANGED vars
      BY <1>1, <1>8 DEF SyncRoutes, Deploy, Execute, DockerRevives, vars, serviceVars
  <1> QED
      BY <1>4, <1>5, <1>6, <1>7, <1>8 DEF Next

\* A step of a request preserves RouteOK.
LEMMA RouteRequest ==
    ASSUME TInv, AInv, AInv', RouteOK, NEW r \in Requests, RequestStep(r)
    PROVE  RouteOK'
  <1> SUFFICES ASSUME Undisturbed(Overlaps)' PROVE RouteOK'
      BY DEF RouteOK
  <1>f. UNCHANGED <<run, outcome, phase, boots>> /\ phase = "up"
        /\ \A q \in Requests : q # r => OnlyShared(q)
      BY RequestFrame
  <1>n. [Next]_vars
      BY DEF Next
  <1>p. /\ Undisturbed(Overlaps)
        /\ app \in Record /\ app # None
        /\ request \in [Requests -> [at: RequestPCs, kept: Kept]] /\ RequestOK
      BY <1>f, <1>n, MishapsStay, OverlapsApart DEF TInv, TypeOK
  <1>v. /\ \A q \in Requests : request[q].at \in {"editing", "saved"} => request[q].kept.domains = app.domains
        /\ \A q \in Requests : request[q].at = "upserting" => app.domains
        /\ run.at # "idle" => run.copy.domains = app.domains
        /\ ~app.domains => ~table \/ \E q \in Requests : request[q].at \in {"saved", "removing"}
      BY <1>f, <1>p DEF RouteOK
  <1>o. /\ ~DeleteApplication(r) /\ ~CreateApplication(r)
        /\ ~ImportBackup(r) /\ ~ReloadApplications(r) /\ ~ReloadFails(r)
      <2>1. ~DeleteApplication(r) /\ ~CreateApplication(r) /\ ~ImportBackup(r)
          BY <1>p DEF DeleteApplication, CreateApplication, ImportBackup, Create, Mishap, Undisturbed, Overlaps
      <2>2. request[r].at # "importing"
          BY <1>p, OverlapsApart
      <2> QED
          BY <2>1, <2>2 DEF ReloadApplications, ReloadFails
  \* While this request is under way no other is, and no deployment.
  <1>s. ASSUME Serving(r) \/ Serving(r)'
        PROVE  /\ \A q \in Requests : q # r => request'[q].at \in {"none", "done"} /\ request[q].at \in {"none", "done"}
               /\ run.at = "idle"
      <2>1. CASE Serving(r)
          <3>1. \A q \in Requests : Serving(q) => q = r
              BY <1>p, <2>1, OverlapsApart
          <3> QED
              BY <1>f, <1>p, <2>1, <3>1, OverlapsApart DEF Serving, OnlyShared
      <2>2. CASE Serving(r)'
          <3>1. \A q \in Requests : Serving(q)' => q = r
              BY <2>2 DEF AInv, AloneOK, Undisturbed, Overlaps
          <3>2. run'.at = "idle"
              BY <2>2 DEF AInv, ApartOK, Undisturbed, Overlaps
          <3> QED
              BY <1>f, <3>1, <3>2 DEF Serving, OnlyShared
      <2> QED
          BY <1>s, <2>1, <2>2
  \* What has to be shown of the request when it is the only one.
  <1>g. ASSUME Serving(r) \/ Serving(r)',
               request'[r].at \in {"editing", "saved"} => request'[r].kept.domains = app'.domains,
               request'[r].at = "upserting" => app'.domains,
               ~app'.domains => ~table' \/ request'[r].at \in {"saved", "removing"}
        PROVE  RouteOK'
      BY <1>f, <1>g, <1>s DEF RouteOK
  \* A request that is alone is the one that may be about to remove the route.
  <1>w. ASSUME Serving(r), request[r].at \notin {"saved", "removing"}, ~app.domains
        PROVE  ~table
      BY <1>s, <1>v, <1>w
  <1>1. CASE Refused(r) \/ SystemPrune(r)
      <2>1. UNCHANGED <<app, table>> /\ request[r].at = "none" /\ request'[r].at = "done"
          BY <1>1, <1>p DEF Refused, SystemPrune, Begins, Ends, Done, serviceVars
      <2>2. \A q \in Requests : q # r => request'[q].at = request[q].at /\ request'[q].kept = request[q].kept
          BY <1>f, <2>1 DEF OnlyShared
      <2> QED
          BY <1>f, <1>v, <2>1, <2>2 DEF RouteOK
  <1>2. CASE EditSettings(r) \/ AddDomain(r) \/ RemoveDomain(r) \/ Operate(r)
      <2>1. UNCHANGED <<app, table>> /\ request[r].at = "none" /\ Serving(r)'
            /\ request'[r].at \in {"editing", "appending", "relisting", "starting", "stopping", "restarting"}
          BY <1>2, <1>p DEF EditSettings, AddDomain, RemoveDomain, Operate, Begins, Gets, Serving, serviceVars
      <2>2. request'[r].at = "editing" => request'[r].kept.domains = app.domains
          BY <1>2, <1>p DEF EditSettings, AddDomain, RemoveDomain, Operate, Gets, Record
      <2>3. ~app.domains => ~table
          BY <1>s, <1>v, <2>1
      <2> QED
          BY <1>g, <2>1, <2>2, <2>3
  <1>c. CASE ChangeShared(r)
      BY <1>c, <1>f, <1>v DEF ChangeShared, ChangeInPlace, RouteOK
  <1>3. CASE DockerStart(r) \/ DockerStop(r) \/ StartRefused(r) \/ StopRefused(r) \/ DockerRestart(r) \/ RestartFails(r)
      <2>1. UNCHANGED <<app, table>> /\ request[r].at \in {"starting", "stopping", "restarting", "startingAgain"}
            /\ request'[r].at \in {"toRunning", "toStopped", "startingAgain", "done"}
          BY <1>3, <1>p DEF DockerStart, DockerStop, StartRefused, StopRefused, DockerRestart, RestartFails, Proceeds,
             Gets, Ends, Done, serviceVars
      <2> QED
          BY <1>g, <1>w, <2>1 DEF Serving
  <1>4. CASE SaveSettings(r)
      <2>1. request[r].at = "editing" /\ request'[r].at = "done" /\ UNCHANGED table
          BY <1>4, <1>p DEF SaveSettings, Ends, Done
      <2>2. app'.domains = app.domains
          BY <1>4, <1>v, <2>1 DEF SaveSettings, UpdateFor, Update, serviceVars
      <2> QED
          BY <1>g, <1>w, <2>1, <2>2 DEF Serving
  <1>5. CASE SaveDomains(r)
      <2>1. Serving(r) /\ request[r].at \notin {"saved", "removing"} /\ UNCHANGED table
          BY <1>5 DEF SaveDomains, Serving
      <2>2. \/ app' = app /\ request'[r].at = "done"
            \/ app' = request[r].kept /\ request'[r].at = "saved" /\ request'[r].kept = request[r].kept
          <3>1. PICK saved \in Saves :
                   /\ Update(request[r].kept, saved)
                   /\ IF Updates(request[r].kept, saved) THEN Proceeds(r, "saved") ELSE Ends(r)
              BY <1>5 DEF SaveDomains, UpdateFor
          <3>2. CASE Updates(request[r].kept, saved)
              BY <1>p, <3>1, <3>2 DEF Update, Proceeds, Gets
          <3>3. CASE ~Updates(request[r].kept, saved)
              BY <1>p, <3>1, <3>3 DEF Update, Ends, Done
          <3> QED
              BY <3>2, <3>3
      <2> QED
          BY <1>g, <1>w, <2>1, <2>2
  <1>d. CASE DecideRoute(r)
      <2>1. Serving(r) /\ request[r].at = "saved" /\ UNCHANGED <<app, table>> /\ request[r].kept.domains = app.domains
          BY <1>d, <1>v DEF DecideRoute, Serving, serviceVars
      <2>2. IF app.domains THEN request'[r].at \in {"upserting", "done"} ELSE request'[r].at = "removing"
          BY <1>d, <1>p, <2>1 DEF DecideRoute, Gets, Ends, Done
      <2> QED
          BY <1>g, <2>1, <2>2
  <1>6. CASE PushDomains(r)
      <2>1. UNCHANGED app /\ request[r].at = "upserting" /\ Serving(r) /\ request'[r].at = "done"
          BY <1>6, <1>p DEF PushDomains, Ends, Done, Serving, serviceVars
      <2>2. app.domains
          BY <1>v, <2>1
      <2> QED
          BY <1>g, <2>1, <2>2
  <1>7. CASE RemoveRoute(r)
      <2>1. UNCHANGED app /\ Serving(r) /\ request'[r].at = "done" /\ ~table'
          BY <1>7, <1>p DEF RemoveRoute, Ends, Done, Serving, serviceVars
      <2> QED
          BY <1>g, <2>1
  <1>8. CASE SaveStatus(r)
      <2>1. Serving(r) /\ request'[r].at = "done" /\ request[r].at \notin {"saved", "removing"} /\ UNCHANGED table
          BY <1>8 DEF SaveStatus, Done, Serving
      <2>2. app'.domains = app.domains
          <3>1. request[r].kept \in Deployments
              BY <1>8, <1>p DEF SaveStatus, RequestOK, Operating
          <3> QED
              BY <1>8, <1>p, <3>1, StatusEffect DEF SaveStatus, TInv
      <2> QED
          BY <1>g, <1>w, <2>1, <2>2
  <1> QED
      BY <1>o, <1>c, <1>d, <1>1, <1>2, <1>3, <1>4, <1>5, <1>6, <1>7, <1>8 DEF RequestStep

\* A step of a run preserves RouteOK: it routes and saves the domains of the
\* record.
LEMMA RouteExecute ==
    ASSUME TInv, AInv, RouteOK, DeployStep
    PROVE  RouteOK'
  <1> SUFFICES ASSUME Undisturbed(Overlaps)' PROVE RouteOK'
      BY DEF RouteOK
  <1>f. UNCHANGED <<request, phase, boots>> /\ run.at # "idle" /\ phase = "up" /\ run.dep \in Deployments /\ run.copy \in Record
      BY ExecuteFrame
  <1>n. [Next]_vars
      BY DEF Next
  <1>p. /\ Undisturbed(Overlaps)
        /\ run \in [at: RunPCs, dep: Deployments \cup {None}, copy: Record \cup {None}]
      BY <1>n, MishapsStay DEF TInv, TypeOK
  <1>q. \A q \in Requests : request[q].at \in {"none", "done"}
      BY <1>f, <1>p, OverlapsApart DEF Serving
  <1>v. run.copy.domains = app.domains /\ (~app.domains => ~table)
      BY <1>f, <1>p, <1>q DEF RouteOK
  <1>1. run'.at # "idle" => run'.copy = run.copy
      BY <1>p DEF DeployStep, ExecuteStep, ObtainImage, CreateNew, FailsEarly, CreateFails, StartNew, StartFails,
         Healthy, Unhealthy, RouteNew, RouteFails, StopNew, RemoveNew, SaveApp, StopOld, RemoveOld, GoTo, End, NoRun
  <1>2. app'.domains = app.domains
      <2>1. app' = app \/ app' = Switched
          BY DEF DeployStep, ExecuteStep, ObtainImage, CreateNew, FailsEarly, CreateFails, StartNew, StartFails, Healthy,
             Unhealthy, RouteNew, RouteFails, StopNew, RemoveNew, SaveApp, StopOld, RemoveOld, Update, serviceVars
      <2> QED
          BY <1>f, <1>v, <2>1 DEF Switched, Record
  <1>3. ASSUME ~app.domains PROVE ~table'
      <2>1. ~table /\ ~Routed(run.copy)
          BY <1>3, <1>v DEF Routed
      <2> QED
          BY <2>1 DEF DeployStep, ExecuteStep, ObtainImage, CreateNew, FailsEarly, CreateFails, StartNew, StartFails,
             Healthy, Unhealthy, RouteNew, RouteFails, StopNew, RemoveNew, SaveApp, StopOld, RemoveOld
  <1> QED
      BY <1>f, <1>q, <1>v, <1>1, <1>2, <1>3 DEF RouteOK

\* The other steps preserve RouteOK; a new process has an empty table.
LEMMA RouteRest ==
    ASSUME TInv, AInv, RouteOK,
           \/ \E d \in Deployments : Deploy(d) \/ DockerRevives(d)
           \/ ProcessEnds \/ LoadApplications \/ SyncRoutes \/ Reconcile
    PROVE  RouteOK'
  <1> SUFFICES ASSUME Undisturbed(Overlaps)' PROVE RouteOK'
      BY DEF RouteOK
  <1>n. [Next]_vars
      BY DEF Next
  <1>p. Undisturbed(Overlaps)
      BY <1>n, MishapsStay
  <1>1. ASSUME NEW d \in Deployments, Deploy(d) PROVE RouteOK'
      <2>1. UNCHANGED <<app, table, request, phase>> /\ (run' = run \/ run'.copy = app)
          BY <1>1 DEF Deploy, Execute, serviceVars
      <2> QED
          BY <1>p, <2>1 DEF RouteOK
  <1>2. CASE \E d \in Deployments : DockerRevives(d)
      BY <1>p, <1>2 DEF DockerRevives, serviceVars, runVars, RouteOK
  <1>3. CASE ProcessEnds
      <2>1. phase' = "down" /\ ~table' /\ run'.at = "idle" /\ \A r \in Requests : request'[r].at \in {"none", "done"}
          BY <1>3 DEF ProcessEnds, NoRun, Done, Serving
      <2> QED
          BY <2>1 DEF RouteOK
  <1>4. CASE LoadApplications \/ SyncRoutes
      <2>1. /\ phase \in {"down", "loaded"} /\ ~table /\ UNCHANGED <<run, request>>
            /\ run.at = "idle" /\ \A r \in Requests : request[r].at \in {"none", "done"}
          BY <1>p, <1>4 DEF LoadApplications, SyncRoutes, runVars, RouteOK, TInv, PhaseOK, Serving
      <2>2. phase' = "loaded" => UNCHANGED table
          BY <1>4 DEF LoadApplications, SyncRoutes
      <2>3. ~app'.domains => UNCHANGED table
          BY <1>4 DEF LoadApplications, SyncRoutes, serviceVars
      <2>4. phase' # "down"
          BY <1>4 DEF LoadApplications, SyncRoutes
      <2> QED
          BY <2>1, <2>2, <2>3, <1>4 DEF RouteOK, LoadApplications, SyncRoutes
  <1>5. CASE Reconcile
      <2>1. phase = "synced" /\ phase' = "up" /\ UNCHANGED <<run, request, table>>
          BY <1>5 DEF Reconcile, runVars
      <2>2. app # None
          BY <1>p, <2>1, OverlapsApart
      <2>3. app'.domains = app.domains
          <3>1. CASE UNCHANGED serviceVars
              BY <3>1 DEF serviceVars
          <3>2. ASSUME NEW status, NEW container \in Deployments \cup {None}, SetsStatus(status, container)
                PROVE  app'.domains = app.domains
              BY <2>2, <3>2, StatusEffect DEF TInv
          <3> QED
              BY <1>5, <3>1, <3>2 DEF Reconcile
      <2>4. run.at = "idle" /\ \A r \in Requests : request[r].at \in {"none", "done"}
          BY <2>1 DEF TInv, PhaseOK, Serving
      <2> QED
          BY <1>p, <2>1, <2>3, <2>4 DEF RouteOK
  <1> QED
      BY <1>1, <1>2, <1>3, <1>4, <1>5

\* A worker or an internal service has no route, also when it had one as a web
\* application, after any deployments, one request after the other, lost saves,
\* conflicts and restarts.
THEOREM WorkersNeverExposed == Spec => []WorkersNotExposed
  <1>1. Init => ValidOK /\ RouteOK
      BY DEF Init, NewRecords, ValidOK, RouteOK, NoRequest, NoRun
  <1>2. TInv /\ DInv /\ AInv /\ ValidOK /\ RouteOK /\ [Next]_vars => ValidOK' /\ RouteOK'
      <2> SUFFICES ASSUME TInv, DInv, AInv, ValidOK, RouteOK, [Next]_vars PROVE ValidOK' /\ RouteOK'
          OBVIOUS
      <2>1. CASE UNCHANGED vars
          BY <2>1, ValidNext DEF vars, serviceVars, runVars, historyVars, RouteOK, Undisturbed
      <2>2. AInv'
          BY ApartNext
      <2> QED
          BY <2>1, <2>2, ValidNext, RouteRequest, RouteExecute, RouteRest DEF Next
  <1>3. ValidOK /\ RouteOK => WorkersNotExposed
      BY DEF ValidOK, Validate, RouteOK, WorkersNotExposed, Quiet, Serving, Overlaps
  <1> QED
      BY <1>1, <1>2, <1>3, Invariants, PTL DEF Spec

=============================================================================
