----------------------------- MODULE Deployment -----------------------------
(***************************************************************************)
(* The deployment record and its state machine: the pure part of           *)
(* internal/deployment/deployment.go.  The other modules of the project    *)
(* take statuses, their classification and the transition relation from    *)
(* here.                                                                   *)
(***************************************************************************)

Status == {"queued", "preparing", "building", "starting", "health_check",
           "routing", "success", "failed", "cancelling", "cancelled"}

\* A final state: no further transitions are meant to leave it.
IsTerminal(status) == status \in {"success", "failed", "cancelled"}

\* Mutant of IsActive: a queued deployment is not counted.
IsActiveOnceStarted(status) ==
    status \in {"preparing", "building", "starting", "health_check", "routing",
                "cancelling"}

\* A deployment that counts as being under way.
IsActive(status) ==
    status \in {"queued", "preparing", "building", "starting",
                "health_check", "routing", "cancelling"}

\* The edges of validTransition's table.
Allowed == [queued       |-> {"preparing", "failed", "cancelled"},
            preparing    |-> {"building", "failed"},
            building     |-> {"starting", "failed"},
            starting     |-> {"health_check", "failed"},
            health_check |-> {"routing", "failed"},
            routing      |-> {"success", "failed"},
            cancelling   |-> {"cancelled"}]

ValidTransition(from, to) ==
    \/ to = "failed" /\ ~IsTerminal(from)
    \/ to = "cancelling" /\ IsActive(from)
    \/ from \in DOMAIN Allowed /\ to \in Allowed[from]

\* Transition leaves the status alone when the edge is not in the graph; its
\* callers in the pipeline drop the error it then returns.
Transition(from, to) == IF ValidTransition(from, to) THEN to ELSE from

=============================================================================
