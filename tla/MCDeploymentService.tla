------------------------ MODULE MCDeploymentService ------------------------
(***************************************************************************)
(* Instances of DeploymentService for TLC.                                 *)
(***************************************************************************)
EXTENDS DeploymentService, TLC

CONSTANTS c1, c2, c3, w1, w2, h1

OneApp == {1}
TwoApps == {1, 2}
TwoCalls == {c1, c2}
ThreeCalls == {c1, c2, c3}
OneWorker == {w1}
TwoWorkers == {w1, w2}
NoHandler == {}
OneHandler == {h1}
NoEvents == {}
TornReadOnly == {"tornRead"}
FileEvents == {"diskFault", "saveLost"}
CallEvents == {"shutdown", "cancel", "diskFault", "tornRead"}
TwoIDs == 1..2
ThreeIDs == 1..3

\* Calls and workers are told apart only by what they do.
CallSymmetry == Permutations(Calls) \cup Permutations(Workers)

=============================================================================
