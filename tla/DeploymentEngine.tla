-------------------------- MODULE DeploymentEngine --------------------------
(***************************************************************************)
(* What the deployment service promises of the deployments it accepts, and *)
(* nothing of how: each is run once at most, runs of one application never *)
(* overlap, and only the end of the process makes one vanish.  The         *)
(* promises are those of the package comment of service.go ("one active    *)
(* deployment per application at a time", read as one run) and of          *)
(* docs/deployments.md ("placed in bounded job queue", "Per-App Lock").    *)
(* DeploymentService implements this module.                               *)
(***************************************************************************)
CONSTANTS Apps, Calls, None

VARIABLES
    stage,  \* none, waiting, running, finished or lost, for the deployment of each call
    owner   \* the application it deploys, while the process lives

engineVars == <<stage, owner>>

Init ==
    /\ stage = [c \in Calls |-> "none"]
    /\ owner = [c \in Calls |-> None]

\* A call returns success.
Accept(c, a) ==
    /\ stage[c] = "none"
    /\ stage' = [stage EXCEPT ![c] = "waiting"]
    /\ owner' = [owner EXCEPT ![c] = a]

\* Its run begins; no other deployment of the application is being run.
Begin(c) ==
    /\ stage[c] = "waiting"
    /\ \A d \in Calls : stage[d] = "running" => owner[d] # owner[c]
    /\ stage' = [stage EXCEPT ![c] = "running"]
    /\ UNCHANGED owner

Finish(c) ==
    /\ stage[c] = "running"
    /\ stage' = [stage EXCEPT ![c] = "finished"]
    /\ UNCHANGED owner

\* The process ends: whatever was accepted or is being asked for is lost to the
\* next one, which runs none of it.
Lose ==
    \E gone \in SUBSET Calls :
        /\ \A c \in Calls : stage[c] # "none" => c \in gone
        /\ stage' = [c \in Calls |-> IF c \in gone THEN "lost" ELSE stage[c]]
        /\ owner' = [c \in Calls |-> None]

Next ==
    \/ \E c \in Calls : (\E a \in Apps : Accept(c, a)) \/ Begin(c) \/ Finish(c)
    \/ Lose

Spec == Init /\ [][Next]_engineVars

=============================================================================
