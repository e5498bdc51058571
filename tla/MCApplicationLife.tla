-------------------------- MODULE MCApplicationLife --------------------------
(* Instances of ApplicationLife for TLC. *)
EXTENDS ApplicationLife, TLC

CONSTANTS d1, d2, r1, r2

TwoDeployments == {d1, d2}
TwoRequests    == {r1, r2}
OneRequest     == {r1}
\* The application as it was created, and while it ran.
OldRecords ==
    {NewRecord("worker", FALSE)} \cup
    {[NewRecord("web", TRUE) EXCEPT !.status = "running", !.container = d] : d \in Deployments}
AllFaults      == {"save", "docker", "conflict"}
NoFaults       == {}

\* No action tells deployments or requests apart.
Symmetry == Permutations(Deployments) \cup Permutations(Requests)

=============================================================================
