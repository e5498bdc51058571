------------------------- MODULE DeploymentHistory -------------------------
(***************************************************************************)
(* What the deployment service promises of the history it shows, as long   *)
(* as requests do not overlap, and nothing of how it is kept: a new        *)
(* deployment gets a number above all others and only when all others are  *)
(* over; what is over stays so; only what is over is forgotten; and the    *)
(* end of the process takes all of it away, to be loaded by the next one.  *)
(* The promises are those of nextDeploymentID ("the next sequential        *)
(* deployment ID"), of the package comment of service.go ("one active      *)
(* deployment per application at a time") and of its deletions, which are  *)
(* meant for old and for failed deployments.  DeploymentService implements *)
(* this module.                                                            *)
(***************************************************************************)
EXTENDS Naturals

CONSTANTS IDs, Calls, None

VARIABLES
    up,     \* whether a process has the history in memory
    owner,  \* the deployment under each number, or None
    over    \* the numbers of those that have ended

historyVars == <<up, owner, over>>

Numbers == {i \in IDs : owner[i] # None}

Init ==
    /\ up = FALSE
    /\ owner = [i \in IDs |-> None]
    /\ over = {}

Create(i, c) ==
    /\ up
    /\ \A j \in Numbers : j < i /\ j \in over /\ owner[j] # c
    /\ owner' = [owner EXCEPT ![i] = c]
    /\ UNCHANGED <<up, over>>

End(i) ==
    /\ up
    /\ i \in Numbers \ over
    /\ over' = over \cup {i}
    /\ UNCHANGED <<up, owner>>

Forget(i) ==
    /\ up
    /\ i \in over
    /\ owner' = [owner EXCEPT ![i] = None]
    /\ over' = over \ {i}
    /\ UNCHANGED up

Lose ==
    /\ up /\ up' = FALSE
    /\ owner' = [i \in IDs |-> None]
    /\ over' = {}

\* No deployment is found under two numbers.
Load ==
    /\ ~up /\ up' = TRUE
    /\ owner' \in [IDs -> Calls \cup {None}]
    /\ \A i, j \in IDs : owner'[i] = owner'[j] => i = j \/ owner'[i] = None
    /\ over' \subseteq {i \in IDs : owner'[i] # None}

Next ==
    \/ \E i \in IDs : (\E c \in Calls : Create(i, c)) \/ End(i) \/ Forget(i)
    \/ Lose
    \/ Load

Spec == Init /\ [][Next]_historyVars

=============================================================================
