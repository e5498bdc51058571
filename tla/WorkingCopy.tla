---------------------------- MODULE WorkingCopy ----------------------------
(***************************************************************************)
(* internal/git: the copy of an application's repository that Sync keeps   *)
(* in repos/<application> from one deployment to the next.                 *)
(*                                                                         *)
(* Commits are numbered in the order in which they were pushed.  Of git,   *)
(* which is external, three things matter: a shallow clone follows the one *)
(* branch it was made for and has no remote-tracking branch for another, a *)
(* clone that fails removes its directory, and one that is killed leaves   *)
(* it, at first without anything to follow; a checkout that is killed may  *)
(* leave the index locked.  CommandContext kills.                          *)
(***************************************************************************)
EXTENDS Naturals

CONSTANTS
    Branches,
    Main,      \* the branch "main", which Sync takes for an empty name
    Default,   \* the branch that a clone takes for an empty name
    None

ASSUME BranchAssumption == Main \in Branches /\ Default \in Branches /\ None \notin Branches \cup Nat

VARIABLES
    head,  \* the latest commit of each branch of the remote repository
    dir    \* the directory: has it a .git, which branch does that follow, what is the
           \* latest commit of it that was fetched, which one is checked out, is there a lock

NoCopy == [git |-> FALSE, tracks |-> None, ref |-> None, tree |-> None, locked |-> FALSE]
CutCopy == [NoCopy EXCEPT !.git = TRUE]

DirTypeOK ==
    /\ dir \in [git: BOOLEAN, tracks: Branches \cup {None}, ref: Nat \cup {None},
                tree: Nat \cup {None}, locked: BOOLEAN]
    /\ ~dir.git => dir = NoCopy

\* The branch that Sync means by the one configured, and the one that Clone means.
SyncBranch(b) == IF b = None THEN Main ELSE b
CloneBranch(b) == IF b = None THEN Default ELSE b

\* Mutant of RemoveAll: only .git goes, and a clone finds a directory in its way.
RemoveGit == dir' = [dir EXCEPT !.git = FALSE]

RemoveAll == dir' = NoCopy

-----------------------------------------------------------------------------
(* Clone *)

\* The directory and its .git are there, the remote has not answered.
CloneBegins == dir' = CutCopy

\* Mutant of CloneFetches: "--branch" is not passed.
CloneFetchesDefault(b) ==
    dir' = [dir EXCEPT !.tracks = Default, !.ref = head[Default]]

CloneFetches(b) ==
    dir' = [dir EXCEPT !.tracks = CloneBranch(b), !.ref = head[CloneBranch(b)]]

CloneChecksOut == dir' = [dir EXCEPT !.tree = dir.ref]

-----------------------------------------------------------------------------
(* Sync over a directory that has a .git *)

\* Mutant of Fetch: only a directory that has nothing is fetched for.
FetchOnce(b) ==
    dir' = [dir EXCEPT !.ref = IF dir.tracks = SyncBranch(b) /\ dir.ref = None
                               THEN head[SyncBranch(b)] ELSE @]

\* The fetch of a branch that is not the one followed moves FETCH_HEAD only.
Fetch(b) ==
    dir' = [dir EXCEPT !.ref = IF dir.tracks = SyncBranch(b) THEN head[SyncBranch(b)] ELSE @]

\* "reset --hard origin/<branch>" finds what it is to reset to, and the index.
CanReset(b) == dir.tracks = SyncBranch(b) /\ dir.ref # None /\ ~dir.locked

Reset(b) == CanReset(b) /\ dir' = [dir EXCEPT !.tree = dir.ref]

\* The error is returned, and the directory stays as it is.
ResetFails(b) == ~CanReset(b) /\ UNCHANGED dir

\* A git that writes the working tree is killed.
Killed == \E locked \in BOOLEAN : dir' = [dir EXCEPT !.locked = @ \/ locked]

=============================================================================
