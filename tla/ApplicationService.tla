------------------------- MODULE ApplicationService -------------------------
(***************************************************************************)
(* internal/application: the record of one application, in the service's   *)
(* map and in its file, and the service's operations, each of which holds  *)
(* the mutex from its first step to its last.                              *)
(*                                                                         *)
(* Of the record's fields the ones that decide what the pipeline, the      *)
(* handlers and the start-up do are kept.  The settings a user edits are   *)
(* represented by the service type ("web" for web and api, "worker" for    *)
(* worker and internal) and by whether there are domains; their names are  *)
(* the matter of ProxyManager.                                             *)
(*                                                                         *)
(* Get copies the record only at its top level.  The copies of a record    *)
(* and the one in the map share what it points to: the resource limits,    *)
(* the registry's credentials, the labels and the array behind the list of *)
(* domains.                                                                *)
(* A caller that changes one of these in place changes the map's record,   *)
(* outside the mutex and before any save.                                  *)
(***************************************************************************)
CONSTANTS
    Deployments,  \* deployments; each names the container it creates
    None

VARIABLES
    app,     \* the record in the service's map, or None
    file,    \* the record in application.json, or None
    unsaved  \* what the record in the map points to was changed in place and has
             \* not been written since

serviceVars == <<app, file, unsaved>>

Record == [kind: {"web", "worker"}, domains: BOOLEAN,
           status: {"created", "running", "stopped"},
           container: Deployments \cup {None}]

ASSUME ApplicationAssumption == None \notin Deployments /\ None \notin Record

\* Neither a worker nor an internal service has public domains.
Validate(record) == record.kind = "worker" => ~record.domains

NewRecord(kind, domains) ==
    [kind |-> kind, domains |-> domains, status |-> "created", container |-> None]

\* A client may send the whole record; a form sends no domains.
NewRecords == {record \in {NewRecord(kind, domains) :
                             kind \in {"web", "worker"}, domains \in BOOLEAN} :
                 Validate(record)}

Create(record, saved) ==
    /\ app = None
    /\ IF saved THEN app' = record /\ file' = record /\ unsaved' = FALSE
                ELSE UNCHANGED serviceVars

\* Whether Update succeeds.
Updates(record, saved) == app # None /\ Validate(record) /\ saved

\* Mutant of Update: the map is changed before the file is written.
UpdateMapFirst(record, saved) ==
    IF app # None /\ Validate(record)
    THEN /\ app' = record
         /\ file' = IF saved THEN record ELSE file
         /\ unsaved' = (unsaved /\ ~saved)
    ELSE UNCHANGED serviceVars

\* The whole record replaces the one in the file, then the one in the map.  When
\* the file cannot be written the labels are already set, in the map's record too.
Update(record, saved) ==
    IF Updates(record, saved)
    THEN app' = record /\ file' = record /\ unsaved' = FALSE
    ELSE /\ UNCHANGED <<app, file>>
         /\ unsaved' \in IF app # None /\ Validate(record) THEN {unsaved, TRUE} ELSE {unsaved}

\* The record in the map is changed in place, and keeps the change when the
\* file cannot be written.
UpdateStatus(status, container, saved) ==
    IF app = None THEN UNCHANGED serviceVars
    ELSE /\ app' = [app EXCEPT !.status = status,
                               !.container = IF container = None THEN @ ELSE container]
         /\ file' = IF saved THEN app' ELSE file
         /\ unsaved' = (unsaved /\ ~saved)

\* A holder of a copy changes what the record in the map may share with it.
ChangeInPlace == app # None /\ unsaved' = TRUE /\ UNCHANGED <<app, file>>

\* The application's directory, then the entry in the map; no container, no
\* route and no deployment.
Delete == app' = None /\ file' = None /\ unsaved' = FALSE

\* Removing the directory fails before or after application.json is gone.
DeleteFails == UNCHANGED <<app, unsaved>> /\ file' \in {file, None}

\* A new process.
Load == app' = file /\ unsaved' = FALSE /\ UNCHANGED file

\* The map gets the record of the file; where there is no file it keeps its own.
Reload == IF file = None THEN UNCHANGED serviceVars ELSE Load

=============================================================================
