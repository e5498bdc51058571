------------------------- MODULE PushToDeployProofs -------------------------
(***************************************************************************)
(* Theorems about PushToDeploy, for any number of deliveries, branches,    *)
(* pushes and readers.  The invariant has a conjunct for each stretch of   *)
(* the way of a push: what a delivery says is not ahead of its branch,     *)
(* what the copy has fetched is not either, and between the fetch of a job *)
(* and its end the copy has all that was built before and all that the     *)
(* job's delivery speaks of.                                               *)
(***************************************************************************)
EXTENDS PushToDeploy, SequenceTheorems, TLAPS

\* A job names its deployment, and works on a copy from the moment it has seen or
\* made one.
JobOK ==
    /\ job.at # "idle" => job.of \in Deliveries /\ stage[job.of] # "none"
    /\ job.at \in {"fetch", "cloning", "fetched", "reset", "build"} => dir.git
    /\ job.at = "cloning" => dir = CutCopy
    /\ job.at = "fetched" => dir.ref # None
    /\ job.at = "build" => dir.tree # None /\ dir.ref # None

\* A delivery that has become a deployment stays what it was, and does not name
\* a push that has not been made.
DeliveryOK ==
    \A d \in Deliveries :
        /\ stage[d] # "none" => delivery[d] # NoDelivery
        /\ delivery[d].branch # None
              => delivery[d].push \in Nat /\ delivery[d].push <= head[delivery[d].branch]

CopyOK ==
    /\ dir.ref = None <=> dir.tracks = None
    /\ dir.ref # None => dir.ref <= head[dir.tracks]

\* All that has been built of a branch, and all that the job's delivery says of
\* it, is in commit n.
Covers(n, b) ==
    /\ \A d \in Deliveries : result[d].branch = b => n >= result[d].commit
    /\ delivery[job.of].branch = b => n >= delivery[job.of].push

FreshOK ==
    /\ job.at = "fetched" => Covers(dir.ref, dir.tracks)
    /\ job.at = "reset" /\ dir.tracks = SyncBranch(job.branch) => Covers(dir.ref, dir.tracks)
    /\ job.at = "build" => Covers(dir.tree, dir.tracks) /\ dir.tree <= head[dir.tracks]

ResultOK ==
    \A d \in Deliveries : result[d] # NoResult =>
        /\ stage[d] # "none"
        /\ result[d].branch # None /\ result[d].commit \in Nat
        /\ result[d].commit <= head[result[d].branch]
        /\ result[d].branch = delivery[d].branch => result[d].commit >= delivery[d].push

\* A copy that nothing has spoiled.
UsableOK ==
    dir.git /\ ~spoiled /\ job.at # "cloning" /\ (branch = None => Main = Default)
    => dir.tracks = SyncBranch(branch) /\ dir.ref # None /\ ~dir.locked

StreamOK ==
    \A s \in Streams :
        /\ stream[s].at # "closed" => stream[s].of \in Logs
        /\ stream[s].sent = [i \in 1..Len(stream[s].sent) |-> i]
        /\ stream[s].of # Nothing => Len(stream[s].sent) <= log[stream[s].of]

\* The types of all but the streams.
PlainTypeOK ==
    /\ DirTypeOK
    /\ head \in [Branches -> Nat]
    /\ stage \in [Deliveries -> {"none", "waiting", "running", "finished", "lost"}]
    /\ owner \in [Deliveries -> {TheApp, None}]
    /\ branch \in Branches \cup {None}
    /\ delivery \in [Deliveries -> [push: Nat \cup {None}, branch: Branches \cup {None}]]
    /\ job \in [of: Deliveries \cup {Nothing}, at: Steps, branch: Branches \cup {None}]
    /\ result \in [Deliveries -> [branch: Branches \cup {None}, commit: Nat \cup {None}]]
    /\ spoiled \in BOOLEAN
    /\ stuck \subseteq Deliveries

TInv == PlainTypeOK /\ JobOK
SInv == StreamTypeOK /\ StreamOK
PInv == TInv /\ DeliveryOK /\ CopyOK /\ FreshOK /\ ResultOK

-----------------------------------------------------------------------------
(* Types *)

\* A push.
LEMMA PushTyped ==
    ASSUME TInv, NEW b \in Branches, Push(b)
    PROVE  TInv'
  <1>1. PICK n \in 1..MaxPushes : head' = [head EXCEPT ![b] = n]
      BY DEF Push
  <1>2. n \in Nat
      BY PushAssumption
  <1>3. head' \in [Branches -> Nat]
      BY <1>1, <1>2 DEF TInv, PlainTypeOK
  <1> QED
      BY ZenonT(60), <1>3
         DEF PlainTypeOK, DirTypeOK, Steps, JobOK, TInv, Push, NoCopy, CutCopy, serviceVars,
                  streamVars, Deliveries

\* A delivery on its way.
LEMMA SendTyped ==
    ASSUME TInv, NEW d \in Deliveries, Send(d)
    PROVE  TInv'
  <1>1. PICK says \in {OtherEvent} \cup {[push |-> head[b], branch |-> b] : b \in Branches} :
            delivery' = [delivery EXCEPT ![d] = says]
      BY DEF Send
  <1>2. says \in [push: Nat \cup {None}, branch: Branches \cup {None}]
      BY DEF OtherEvent, TInv, PlainTypeOK
  <1>3. delivery' \in [Deliveries -> [push: Nat \cup {None}, branch: Branches \cup {None}]]
      BY <1>1, <1>2 DEF TInv, PlainTypeOK
  <1> QED
      BY ZenonT(60), <1>3
         DEF PlainTypeOK, DirTypeOK, Steps, JobOK, TInv, Send, NoCopy, CutCopy, serviceVars,
                  streamVars, Deliveries

\* A delivery that is accepted.
LEMMA ReceiveTyped ==
    ASSUME TInv, NEW d \in Deliveries, Receive(d)
    PROVE  TInv'
  BY ZenonT(60), BranchAssumption, StreamAssumption, PushAssumption
     DEF PlainTypeOK, DirTypeOK, Steps, JobOK, TInv, Receive, Engine!Accept, serviceVars, NoCopy, CutCopy, streamVars, Deliveries

\* A delivery that is refused.
LEMMA RefuseTyped ==
    ASSUME TInv, NEW d \in Deliveries, Refuse(d)
    PROVE  TInv'
  BY ZenonT(60), BranchAssumption, StreamAssumption, PushAssumption
     DEF PlainTypeOK, DirTypeOK, Steps, JobOK, TInv, Refuse, NoDelivery, serviceVars, NoCopy, CutCopy, streamVars, Deliveries

\* The form.
LEMMA ChangeBranchTyped ==
    ASSUME TInv, NEW b \in Choices, ChangeBranch(b)
    PROVE  TInv'
  BY BranchAssumption, StreamAssumption, PushAssumption
     DEF PlainTypeOK, DirTypeOK, Steps, JobOK, TInv, ChangeBranch, serviceVars, NoCopy, CutCopy, streamVars, Deliveries

\* A run begins.
LEMMA BeginRunTyped ==
    ASSUME TInv, NEW d \in Deliveries, BeginRun(d)
    PROVE  TInv'
  BY BranchAssumption, StreamAssumption, PushAssumption
     DEF PlainTypeOK, DirTypeOK, Steps, JobOK, TInv, BeginRun, Engine!Begin, NoCopy, CutCopy, serviceVars, streamVars, Deliveries

\* One step of a job.
LEMMA StatFindsCopyTyped ==
    ASSUME TInv, StatFindsCopy
    PROVE  TInv'
  BY BranchAssumption, StreamAssumption
     DEF PlainTypeOK, DirTypeOK, Steps, JobOK, TInv, StatFindsCopy, JobMoves, Quiet,
         NoCopy, CutCopy, serviceVars, Deliveries

\* One step of a job.
LEMMA StatFindsNoneTyped ==
    ASSUME TInv, StatFindsNone
    PROVE  TInv'
  BY BranchAssumption, StreamAssumption
     DEF PlainTypeOK, DirTypeOK, Steps, JobOK, TInv, StatFindsNone, JobMoves, Quiet,
         RemoveAll, NoCopy, CutCopy, serviceVars, Deliveries

\* One step of a job.
LEMMA FetchSucceedsTyped ==
    ASSUME TInv, FetchSucceeds
    PROVE  TInv'
  BY BranchAssumption, StreamAssumption
     DEF PlainTypeOK, DirTypeOK, Steps, JobOK, TInv, FetchSucceeds, JobMoves, Quiet,
         Fetch, SyncBranch, NoCopy, CutCopy, serviceVars, Deliveries

\* One step of a job.
LEMMA FetchFailsTyped ==
    ASSUME TInv, FetchFails
    PROVE  TInv'
  BY BranchAssumption, StreamAssumption
     DEF PlainTypeOK, DirTypeOK, Steps, JobOK, TInv, FetchFails, JobMoves, Quiet,
         RemoveAll, NoCopy, CutCopy, serviceVars, Deliveries

\* One step of a job.
LEMMA CloneStartsTyped ==
    ASSUME TInv, CloneStarts
    PROVE  TInv'
  BY BranchAssumption, StreamAssumption
     DEF PlainTypeOK, DirTypeOK, Steps, JobOK, TInv, CloneStarts, JobMoves, Quiet,
         CloneBegins, CutCopy, NoCopy, serviceVars, Deliveries

\* One step of a job.
LEMMA CloneIsAnsweredTyped ==
    ASSUME TInv, CloneIsAnswered
    PROVE  TInv'
  <1> DEFINE b == CloneBranch(job.branch)
  <1>1. b \in Branches
      BY BranchAssumption DEF TInv, PlainTypeOK, CloneBranch
  <1>2. job.at = "cloning" /\ dir = CutCopy /\ job' = [job EXCEPT !.at = "fetched"]
      BY DEF CloneIsAnswered, JobMoves, TInv, JobOK
  <1>3. dir' = [dir EXCEPT !.tracks = b, !.ref = head[b]]
      BY DEF CloneIsAnswered, CloneFetches
  <1>4. head[b] \in Nat
      BY <1>1 DEF TInv, PlainTypeOK
  <1> HIDE DEF b
  <1>5. DirTypeOK' /\ dir'.git /\ dir'.ref # None
      BY <1>1, <1>2, <1>3, <1>4, BranchAssumption DEF DirTypeOK, CutCopy, NoCopy
  <1>6. /\ spoiled' \in BOOLEAN
        /\ UNCHANGED <<head, branch, delivery, stuck, stage, owner, result>>
      BY DEF CloneIsAnswered, JobMoves, Quiet, serviceVars
  <1> QED
      BY <1>2, <1>5, <1>6 DEF TInv, PlainTypeOK, JobOK, Steps, Deliveries

\* One step of a job.
LEMMA CloneSucceedsTyped ==
    ASSUME TInv, CloneSucceeds
    PROVE  TInv'
  BY BranchAssumption, StreamAssumption
     DEF PlainTypeOK, DirTypeOK, Steps, JobOK, TInv, CloneSucceeds, JobMoves, Quiet,
         CloneChecksOut, NoCopy, CutCopy, serviceVars, Deliveries

\* One step of a job.
LEMMA CloneFailsTyped ==
    ASSUME TInv, CloneFails
    PROVE  TInv'
  BY ZenonT(60), BranchAssumption, StreamAssumption
     DEF PlainTypeOK, DirTypeOK, Steps, JobOK, TInv, CloneFails, JobMoves, Quiet,
         RemoveAll, NoCopy, CutCopy, serviceVars, Deliveries

\* One step of a job.
LEMMA GitIsKilledTyped ==
    ASSUME TInv, GitIsKilled
    PROVE  TInv'
  BY BranchAssumption, StreamAssumption
     DEF PlainTypeOK, DirTypeOK, Steps, JobOK, TInv, GitIsKilled, JobMoves, Quiet,
         Killed, NoCopy, CutCopy, serviceVars, Deliveries

\* One step of a job.
LEMMA ResetSucceedsTyped ==
    ASSUME TInv, ResetSucceeds
    PROVE  TInv'
  BY BranchAssumption, StreamAssumption
     DEF PlainTypeOK, DirTypeOK, Steps, JobOK, TInv, ResetSucceeds, JobMoves, Quiet,
         Reset, CanReset, SyncBranch, NoCopy, CutCopy, serviceVars, Deliveries

\* One step of a job.
LEMMA ResetIsRefusedTyped ==
    ASSUME TInv, ResetIsRefused
    PROVE  TInv'
  BY BranchAssumption, StreamAssumption
     DEF PlainTypeOK, DirTypeOK, Steps, JobOK, TInv, ResetIsRefused, JobMoves, Quiet,
         ResetFails, NoCopy, CutCopy, serviceVars, Deliveries

\* One step of a job.
LEMMA BuildAndDeployTyped ==
    ASSUME TInv, BuildAndDeploy
    PROVE  TInv'
  BY BranchAssumption, StreamAssumption
     DEF PlainTypeOK, DirTypeOK, Steps, JobOK, TInv, BuildAndDeploy, JobMoves, Quiet,
         NoCopy, CutCopy, serviceVars, Deliveries

\* One step of a job.
LEMMA BuildOrDeployFailsTyped ==
    ASSUME TInv, BuildOrDeployFails
    PROVE  TInv'
  BY BranchAssumption, StreamAssumption
     DEF PlainTypeOK, DirTypeOK, Steps, JobOK, TInv, BuildOrDeployFails, JobMoves, Quiet,
         NoCopy, CutCopy, serviceVars, Deliveries

\* One step of a job.
LEMMA EndRunTyped ==
    ASSUME TInv, EndRun
    PROVE  TInv'
  BY BranchAssumption, StreamAssumption
     DEF PlainTypeOK, DirTypeOK, Steps, JobOK, TInv, EndRun, NoJob, NoCopy, CutCopy, serviceVars,
         Deliveries, Engine!Finish

\* The death of the process.
LEMMA CrashTyped ==
    ASSUME TInv, Crash
    PROVE  TInv'
  <1>1. /\ stage' \in [Deliveries -> {"none", "waiting", "running", "finished", "lost"}]
        /\ owner' \in [Deliveries -> {TheApp, None}]
      BY DEF TInv, PlainTypeOK, Crash, Engine!Lose
  <1>2. DirTypeOK'
    <2>1. CASE Killed /\ dir.git
        BY <2>1 DEF Killed, DirTypeOK, TInv, PlainTypeOK
    <2>2. CASE UNCHANGED dir
        BY <2>2 DEF DirTypeOK, TInv, PlainTypeOK
    <2> QED
        BY <2>1, <2>2 DEF Crash, TInv, JobOK
  <1>3. stuck' \subseteq Deliveries
      BY DEF Crash
  <1>4. job' = NoJob /\ spoiled' \in BOOLEAN /\ UNCHANGED <<head, branch, delivery, result>>
      BY DEF Crash, TInv, PlainTypeOK
  <1> QED
      BY <1>1, <1>2, <1>3, <1>4 DEF TInv, PlainTypeOK, JobOK, Steps, NoJob

-----------------------------------------------------------------------------
(* What is fetched and what is built *)

\* The head of a branch has all that was built of it and all that a delivery
\* speaks of.
LEMMA HeadCovers ==
    ASSUME PInv, job.of \in Deliveries, NEW b \in Branches
    PROVE  head[b] \in Nat /\ Covers(head[b], b)
  <1>1. head[b] \in Nat
      BY DEF PInv, TInv, PlainTypeOK
  <1>2. ASSUME NEW d \in Deliveries, result[d].branch = b
        PROVE  head[b] >= result[d].commit
      BY <1>1, <1>2, BranchAssumption DEF PInv, ResultOK, NoResult
  <1>3. ASSUME delivery[job.of].branch = b
        PROVE  head[b] >= delivery[job.of].push
      BY <1>1, <1>3, BranchAssumption DEF PInv, DeliveryOK
  <1> QED
      BY <1>1, <1>2, <1>3 DEF Covers

\* A step of a job changes neither what deliveries say nor what the branches hold.
LEMMA JobFrame ==
    ASSUME PInv, UNCHANGED <<head, delivery, stage>>
    PROVE  /\ DeliveryOK'
           /\ UNCHANGED result => ResultOK'
           /\ UNCHANGED <<result, job>> => \A n, b : Covers(n, b) => Covers(n, b)'
  <1>1. DeliveryOK'
      BY DEF PInv, DeliveryOK
  <1>2. ASSUME UNCHANGED result PROVE ResultOK'
      BY <1>2 DEF PInv, ResultOK
  <1>3. ASSUME UNCHANGED <<result, job>>, NEW n, NEW b, Covers(n, b) PROVE Covers(n, b)'
      BY <1>3 DEF Covers
  <1> QED
      BY <1>1, <1>2, <1>3

\* The directory is looked at.
LEMMA StatFindsCopyKeeps ==
    ASSUME PInv, StatFindsCopy
    PROVE  PInv'
  <1>1. UNCHANGED <<head, delivery, stage>>
      BY DEF StatFindsCopy, JobMoves, Quiet, serviceVars
  <1>2. TInv' /\ DeliveryOK'
      BY <1>1, StatFindsCopyTyped, JobFrame DEF PInv
  <1>3. CopyOK'
      BY <1>1, BranchAssumption DEF PInv, TInv, PlainTypeOK, DirTypeOK, CopyOK, JobOK, StatFindsCopy, JobMoves, Quiet, serviceVars
  <1>4. FreshOK'
      BY <1>1, HeadCovers DEF PInv, TInv, PlainTypeOK, JobOK, CopyOK, FreshOK, Covers, StatFindsCopy, JobMoves, Quiet, serviceVars
  <1>5. ResultOK'
      BY <1>1, JobFrame DEF StatFindsCopy, JobMoves, Quiet, serviceVars
  <1> QED
      BY <1>2, <1>3, <1>4, <1>5 DEF PInv

\* There is none.
LEMMA StatFindsNoneKeeps ==
    ASSUME PInv, StatFindsNone
    PROVE  PInv'
  <1>1. UNCHANGED <<head, delivery, stage>>
      BY DEF StatFindsNone, JobMoves, Quiet, serviceVars
  <1>2. TInv' /\ DeliveryOK'
      BY <1>1, StatFindsNoneTyped, JobFrame DEF PInv
  <1>3. CopyOK'
      BY <1>1, BranchAssumption DEF PInv, TInv, PlainTypeOK, DirTypeOK, CopyOK, JobOK, StatFindsNone, JobMoves, Quiet, serviceVars, RemoveAll, NoCopy
  <1>4. FreshOK'
      BY <1>1, HeadCovers DEF PInv, TInv, PlainTypeOK, JobOK, CopyOK, FreshOK, Covers, StatFindsNone, JobMoves, Quiet, serviceVars, RemoveAll, NoCopy
  <1>5. ResultOK'
      BY <1>1, JobFrame DEF StatFindsNone, JobMoves, Quiet, serviceVars, RemoveAll, NoCopy
  <1> QED
      BY <1>2, <1>3, <1>4, <1>5 DEF PInv

\* What is fetched of the branch that is followed is its latest commit.
LEMMA FetchSucceedsKeeps ==
    ASSUME PInv, FetchSucceeds
    PROVE  PInv'
  <1>1. UNCHANGED <<head, delivery, stage>>
      BY DEF FetchSucceeds, JobMoves, Quiet, serviceVars
  <1>2. TInv' /\ DeliveryOK'
      BY <1>1, FetchSucceedsTyped, JobFrame DEF PInv
  <1>3. CopyOK'
      BY <1>1, BranchAssumption DEF PInv, TInv, PlainTypeOK, DirTypeOK, CopyOK, JobOK, FetchSucceeds, JobMoves, Quiet, serviceVars, Fetch, SyncBranch
  <1>4. FreshOK'
    <2>1. job' = [job EXCEPT !.at = "reset"] /\ UNCHANGED result
        BY DEF FetchSucceeds, JobMoves, Quiet
    <2>2. job'.at = "reset" /\ job'.of = job.of /\ job'.branch = job.branch
        BY <2>1 DEF PInv, TInv, PlainTypeOK
    <2>3. ASSUME dir'.tracks = SyncBranch(job.branch)
          PROVE  Covers(dir.ref, dir.tracks)'
      <3> DEFINE b == SyncBranch(job.branch)
      <3>1. b \in Branches
          BY BranchAssumption DEF SyncBranch, PInv, TInv, PlainTypeOK
      <3>2. dir'.tracks = b /\ dir'.ref = head[b]
          BY <2>3 DEF FetchSucceeds, Fetch, PInv, TInv, PlainTypeOK, DirTypeOK
      <3>3. Covers(head[b], b)
          BY <3>1, HeadCovers DEF PInv, TInv, JobOK, FetchSucceeds, JobMoves
      <3> QED
          BY <1>1, <2>1, <2>2, <3>2, <3>3 DEF Covers
    <2> QED
        BY <2>2, <2>3 DEF FreshOK, SyncBranch
  <1>5. ResultOK'
      BY <1>1, JobFrame DEF FetchSucceeds, JobMoves, Quiet, serviceVars, Fetch, SyncBranch
  <1> QED
      BY <1>2, <1>3, <1>4, <1>5 DEF PInv

\* The copy goes.
LEMMA FetchFailsKeeps ==
    ASSUME PInv, FetchFails
    PROVE  PInv'
  <1>1. UNCHANGED <<head, delivery, stage>>
      BY DEF FetchFails, JobMoves, Quiet, serviceVars
  <1>2. TInv' /\ DeliveryOK'
      BY <1>1, FetchFailsTyped, JobFrame DEF PInv
  <1>3. CopyOK'
      BY <1>1, BranchAssumption DEF PInv, TInv, PlainTypeOK, DirTypeOK, CopyOK, JobOK, FetchFails, JobMoves, Quiet, serviceVars, RemoveAll, NoCopy
  <1>4. FreshOK'
      BY <1>1, HeadCovers DEF PInv, TInv, PlainTypeOK, JobOK, CopyOK, FreshOK, Covers, FetchFails, JobMoves, Quiet, serviceVars, RemoveAll, NoCopy
  <1>5. ResultOK'
      BY <1>1, JobFrame DEF FetchFails, JobMoves, Quiet, serviceVars, RemoveAll, NoCopy
  <1> QED
      BY <1>2, <1>3, <1>4, <1>5 DEF PInv

\* A new one begins.
LEMMA CloneStartsKeeps ==
    ASSUME PInv, CloneStarts
    PROVE  PInv'
  <1>1. UNCHANGED <<head, delivery, stage>>
      BY DEF CloneStarts, JobMoves, Quiet, serviceVars
  <1>2. TInv' /\ DeliveryOK'
      BY <1>1, CloneStartsTyped, JobFrame DEF PInv
  <1>3. CopyOK'
      BY <1>1, BranchAssumption DEF PInv, TInv, PlainTypeOK, DirTypeOK, CopyOK, JobOK, CloneStarts, JobMoves, Quiet, serviceVars, CloneBegins, CutCopy, NoCopy
  <1>4. FreshOK'
      BY <1>1, HeadCovers DEF PInv, TInv, PlainTypeOK, JobOK, CopyOK, FreshOK, Covers, CloneStarts, JobMoves, Quiet, serviceVars, CloneBegins, CutCopy, NoCopy
  <1>5. ResultOK'
      BY <1>1, JobFrame DEF CloneStarts, JobMoves, Quiet, serviceVars, CloneBegins, CutCopy, NoCopy
  <1> QED
      BY <1>2, <1>3, <1>4, <1>5 DEF PInv

\* What a clone fetches is the latest commit.
LEMMA CloneIsAnsweredKeeps ==
    ASSUME PInv, CloneIsAnswered
    PROVE  PInv'
  <1>1. UNCHANGED <<head, delivery, stage>>
      BY DEF CloneIsAnswered, JobMoves, Quiet, serviceVars
  <1>2. TInv' /\ DeliveryOK'
      BY <1>1, CloneIsAnsweredTyped, JobFrame DEF PInv
  <1>3. CopyOK'
      BY <1>1, BranchAssumption DEF PInv, TInv, PlainTypeOK, DirTypeOK, CopyOK, JobOK, CloneIsAnswered, JobMoves, Quiet, serviceVars, CloneFetches, CloneBranch
  <1>4. FreshOK'
    <2> DEFINE b == CloneBranch(job.branch)
    <2>1. job' = [job EXCEPT !.at = "fetched"] /\ UNCHANGED result
        BY DEF CloneIsAnswered, JobMoves, Quiet
    <2>2. job'.at = "fetched" /\ job'.of = job.of
        BY <2>1 DEF PInv, TInv, PlainTypeOK
    <2>3. b \in Branches
        BY BranchAssumption DEF CloneBranch, PInv, TInv, PlainTypeOK
    <2>4. dir'.tracks = b /\ dir'.ref = head[b]
        BY DEF CloneIsAnswered, CloneFetches, PInv, TInv, PlainTypeOK, DirTypeOK
    <2>5. Covers(head[b], b)
        BY <2>3, HeadCovers DEF PInv, TInv, JobOK, CloneIsAnswered, JobMoves
    <2>6. Covers(dir.ref, dir.tracks)'
        BY <1>1, <2>1, <2>2, <2>4, <2>5 DEF Covers
    <2> QED
        BY <2>2, <2>6 DEF FreshOK
  <1>5. ResultOK'
      BY <1>1, JobFrame DEF CloneIsAnswered, JobMoves, Quiet, serviceVars, CloneFetches, CloneBranch
  <1> QED
      BY <1>2, <1>3, <1>4, <1>5 DEF PInv

\* It is checked out.
LEMMA CloneSucceedsKeeps ==
    ASSUME PInv, CloneSucceeds
    PROVE  PInv'
  <1>1. UNCHANGED <<head, delivery, stage>>
      BY DEF CloneSucceeds, JobMoves, Quiet, serviceVars
  <1>2. TInv' /\ DeliveryOK'
      BY <1>1, CloneSucceedsTyped, JobFrame DEF PInv
  <1>3. CopyOK'
      BY <1>1, BranchAssumption DEF PInv, TInv, PlainTypeOK, DirTypeOK, CopyOK, JobOK, CloneSucceeds, JobMoves, Quiet, serviceVars, CloneChecksOut
  <1>4. FreshOK'
      BY <1>1, HeadCovers DEF PInv, TInv, PlainTypeOK, JobOK, CopyOK, FreshOK, Covers, CloneSucceeds, JobMoves, Quiet, serviceVars, CloneChecksOut
  <1>5. ResultOK'
      BY <1>1, JobFrame DEF CloneSucceeds, JobMoves, Quiet, serviceVars, CloneChecksOut
  <1> QED
      BY <1>2, <1>3, <1>4, <1>5 DEF PInv

\* The clone goes.
LEMMA CloneFailsKeeps ==
    ASSUME PInv, CloneFails
    PROVE  PInv'
  <1>1. UNCHANGED <<head, delivery, stage>>
      BY DEF CloneFails, JobMoves, Quiet, serviceVars
  <1>2. TInv' /\ DeliveryOK'
      BY <1>1, CloneFailsTyped, JobFrame DEF PInv
  <1>3. CopyOK'
      BY <1>1, BranchAssumption DEF PInv, TInv, PlainTypeOK, DirTypeOK, CopyOK, JobOK, CloneFails, JobMoves, Quiet, serviceVars, RemoveAll, NoCopy
  <1>4. FreshOK'
      BY <1>1, HeadCovers DEF PInv, TInv, PlainTypeOK, JobOK, CopyOK, FreshOK, Covers, CloneFails, JobMoves, Quiet, serviceVars, RemoveAll, NoCopy
  <1>5. ResultOK'
      BY <1>1, JobFrame DEF CloneFails, JobMoves, Quiet, serviceVars, RemoveAll, NoCopy
  <1> QED
      BY <1>2, <1>3, <1>4, <1>5 DEF PInv

\* The copy keeps what was fetched.
LEMMA GitIsKilledKeeps ==
    ASSUME PInv, GitIsKilled
    PROVE  PInv'
  <1>1. UNCHANGED <<head, delivery, stage>>
      BY DEF GitIsKilled, JobMoves, Quiet, serviceVars
  <1>2. TInv' /\ DeliveryOK'
      BY <1>1, GitIsKilledTyped, JobFrame DEF PInv
  <1>3. CopyOK'
      BY <1>1, BranchAssumption DEF PInv, TInv, PlainTypeOK, DirTypeOK, CopyOK, JobOK, GitIsKilled, JobMoves, Quiet, serviceVars, Killed
  <1>4. FreshOK'
      BY <1>1, HeadCovers DEF PInv, TInv, PlainTypeOK, JobOK, CopyOK, FreshOK, Covers, GitIsKilled, JobMoves, Quiet, serviceVars, Killed
  <1>5. ResultOK'
      BY <1>1, JobFrame DEF GitIsKilled, JobMoves, Quiet, serviceVars, Killed
  <1> QED
      BY <1>2, <1>3, <1>4, <1>5 DEF PInv

\* What was fetched is checked out.
LEMMA ResetSucceedsKeeps ==
    ASSUME PInv, ResetSucceeds
    PROVE  PInv'
  <1>1. UNCHANGED <<head, delivery, stage>>
      BY DEF ResetSucceeds, JobMoves, Quiet, serviceVars
  <1>2. TInv' /\ DeliveryOK'
      BY <1>1, ResetSucceedsTyped, JobFrame DEF PInv
  <1>3. CopyOK'
      BY <1>1, BranchAssumption DEF PInv, TInv, PlainTypeOK, DirTypeOK, CopyOK, JobOK, ResetSucceeds, JobMoves, Quiet, serviceVars, Reset, CanReset, SyncBranch
  <1>4. FreshOK'
      BY <1>1, HeadCovers DEF PInv, TInv, PlainTypeOK, JobOK, CopyOK, FreshOK, Covers, ResetSucceeds, JobMoves, Quiet, serviceVars, Reset, CanReset, SyncBranch
  <1>5. ResultOK'
      BY <1>1, JobFrame DEF ResetSucceeds, JobMoves, Quiet, serviceVars, Reset, CanReset, SyncBranch
  <1> QED
      BY <1>2, <1>3, <1>4, <1>5 DEF PInv

\* Nothing changes.
LEMMA ResetIsRefusedKeeps ==
    ASSUME PInv, ResetIsRefused
    PROVE  PInv'
  <1>1. UNCHANGED <<head, delivery, stage>>
      BY DEF ResetIsRefused, JobMoves, Quiet, serviceVars
  <1>2. TInv' /\ DeliveryOK'
      BY <1>1, ResetIsRefusedTyped, JobFrame DEF PInv
  <1>3. CopyOK'
      BY <1>1, BranchAssumption DEF PInv, TInv, PlainTypeOK, DirTypeOK, CopyOK, JobOK, ResetIsRefused, JobMoves, Quiet, serviceVars, ResetFails
  <1>4. FreshOK'
      BY <1>1, HeadCovers DEF PInv, TInv, PlainTypeOK, JobOK, CopyOK, FreshOK, Covers, ResetIsRefused, JobMoves, Quiet, serviceVars, ResetFails
  <1>5. ResultOK'
      BY <1>1, JobFrame DEF ResetIsRefused, JobMoves, Quiet, serviceVars, ResetFails
  <1> QED
      BY <1>2, <1>3, <1>4, <1>5 DEF PInv

\* What is built covers what was built before.
LEMMA BuildAndDeployKeeps ==
    ASSUME PInv, BuildAndDeploy
    PROVE  PInv'
  <1>1. UNCHANGED <<head, delivery, stage>>
      BY DEF BuildAndDeploy, JobMoves, Quiet, serviceVars
  <1>2. TInv' /\ DeliveryOK'
      BY <1>1, BuildAndDeployTyped, JobFrame DEF PInv
  <1>3. CopyOK'
      BY <1>1, BranchAssumption DEF PInv, TInv, PlainTypeOK, DirTypeOK, CopyOK, JobOK, BuildAndDeploy, JobMoves, Quiet, serviceVars
  <1>3a. job'.at = "ended"
      BY DEF BuildAndDeploy, JobMoves, PInv, TInv, PlainTypeOK
  <1>4. FreshOK'
      BY <1>3a DEF FreshOK
  <1>5. ResultOK'
    <2> DEFINE new == [branch |-> dir.tracks, commit |-> dir.tree]
    <2>1. result' = [result EXCEPT ![job.of] = new] /\ job.at = "build"
        BY DEF BuildAndDeploy, JobMoves
    <2>2. job.of \in Deliveries /\ stage[job.of] # "none"
        BY <2>1 DEF PInv, TInv, JobOK
    <2>3. /\ dir.tracks \in Branches /\ dir.tree \in Nat
          /\ Covers(dir.tree, dir.tracks) /\ dir.tree <= head[dir.tracks]
        BY <2>1 DEF PInv, TInv, JobOK, FreshOK, CopyOK, PlainTypeOK, DirTypeOK
    <2>4. /\ new.branch # None /\ new.commit \in Nat /\ new.commit <= head[new.branch]
          /\ new.branch = delivery[job.of].branch => new.commit >= delivery[job.of].push
        BY <2>3, BranchAssumption DEF Covers
    <2> HIDE DEF new
    <2>5. ASSUME NEW d \in Deliveries
          PROVE  result'[d] = IF d = job.of THEN new ELSE result[d]
        BY <2>1, <2>2 DEF PInv, TInv, PlainTypeOK
    <2> QED
        BY <1>1, <2>2, <2>4, <2>5 DEF PInv, ResultOK
  <1> QED
      BY <1>2, <1>3, <1>4, <1>5 DEF PInv

\* Nothing is built.
LEMMA BuildOrDeployFailsKeeps ==
    ASSUME PInv, BuildOrDeployFails
    PROVE  PInv'
  <1>1. UNCHANGED <<head, delivery, stage>>
      BY DEF BuildOrDeployFails, JobMoves, Quiet, serviceVars
  <1>2. TInv' /\ DeliveryOK'
      BY <1>1, BuildOrDeployFailsTyped, JobFrame DEF PInv
  <1>3. CopyOK'
      BY <1>1, BranchAssumption DEF PInv, TInv, PlainTypeOK, DirTypeOK, CopyOK, JobOK, BuildOrDeployFails, JobMoves, Quiet, serviceVars
  <1>4. FreshOK'
      BY <1>1, HeadCovers DEF PInv, TInv, PlainTypeOK, JobOK, CopyOK, FreshOK, Covers, BuildOrDeployFails, JobMoves, Quiet, serviceVars
  <1>5. ResultOK'
      BY <1>1, JobFrame DEF BuildOrDeployFails, JobMoves, Quiet, serviceVars
  <1> QED
      BY <1>2, <1>3, <1>4, <1>5 DEF PInv

\* A branch goes forward.
LEMMA PushKeeps ==
    ASSUME PInv, NEW b \in Branches, Push(b)
    PROVE  PInv'
  <1>1. TInv'
      BY PushTyped DEF PInv
  <1>2. DeliveryOK'
      BY BranchAssumption DEF PInv, TInv, PlainTypeOK, DeliveryOK, Push, serviceVars
  <1>3. CopyOK'
      BY BranchAssumption DEF PInv, TInv, PlainTypeOK, DirTypeOK, CopyOK, Push, serviceVars
  <1>4. FreshOK'
      BY BranchAssumption DEF PInv, TInv, PlainTypeOK, DirTypeOK, JobOK, CopyOK, FreshOK, Covers,
         DeliveryOK, ResultOK, Push, serviceVars
  <1>5. ResultOK'
      BY BranchAssumption DEF PInv, TInv, PlainTypeOK, ResultOK, DeliveryOK, NoResult, Push, serviceVars
  <1> QED
      BY <1>1, <1>2, <1>3, <1>4, <1>5 DEF PInv

\* What is sent is about the head of a branch.
LEMMA SendKeeps ==
    ASSUME PInv, NEW d \in Deliveries, Send(d)
    PROVE  PInv'
  <1>1. TInv'
      BY SendTyped DEF PInv
  <1>2. DeliveryOK'
      BY BranchAssumption DEF PInv, TInv, PlainTypeOK, DeliveryOK, Send, serviceVars, NoDelivery, OtherEvent
  <1>3. CopyOK'
      BY BranchAssumption DEF PInv, TInv, PlainTypeOK, DirTypeOK, CopyOK, Send, serviceVars, NoDelivery, OtherEvent
  <1>4. FreshOK'
      BY BranchAssumption DEF PInv, TInv, PlainTypeOK, DirTypeOK, JobOK, CopyOK, FreshOK, Covers,
         DeliveryOK, ResultOK, Send, serviceVars, NoDelivery, OtherEvent
  <1>5. ResultOK'
      BY BranchAssumption DEF PInv, TInv, PlainTypeOK, ResultOK, DeliveryOK, NoResult, Send, serviceVars, NoDelivery, OtherEvent
  <1> QED
      BY <1>1, <1>2, <1>3, <1>4, <1>5 DEF PInv

\* A delivery becomes a deployment.
LEMMA ReceiveKeeps ==
    ASSUME PInv, NEW d \in Deliveries, Receive(d)
    PROVE  PInv'
  <1>1. TInv'
      BY ReceiveTyped DEF PInv
  <1>2. DeliveryOK'
      BY BranchAssumption DEF PInv, TInv, PlainTypeOK, DeliveryOK, Receive, Engine!Accept
  <1>3. CopyOK'
      BY BranchAssumption DEF PInv, TInv, PlainTypeOK, DirTypeOK, CopyOK, Receive, Engine!Accept
  <1>4. FreshOK'
      BY BranchAssumption DEF PInv, TInv, PlainTypeOK, DirTypeOK, JobOK, CopyOK, FreshOK, Covers,
         DeliveryOK, ResultOK, Receive, Engine!Accept
  <1>5. ResultOK'
      BY BranchAssumption DEF PInv, TInv, PlainTypeOK, ResultOK, DeliveryOK, NoResult, Receive, Engine!Accept
  <1> QED
      BY <1>1, <1>2, <1>3, <1>4, <1>5 DEF PInv

\* A delivery that is not one goes.
LEMMA RefuseKeeps ==
    ASSUME PInv, NEW d \in Deliveries, Refuse(d)
    PROVE  PInv'
  <1>1. TInv'
      BY RefuseTyped DEF PInv
  <1>2. DeliveryOK'
      BY BranchAssumption DEF PInv, TInv, PlainTypeOK, DeliveryOK, Refuse, serviceVars, NoDelivery
  <1>3. CopyOK'
      BY BranchAssumption DEF PInv, TInv, PlainTypeOK, DirTypeOK, CopyOK, Refuse, serviceVars, NoDelivery
  <1>4. FreshOK'
      BY BranchAssumption DEF PInv, TInv, PlainTypeOK, DirTypeOK, JobOK, CopyOK, FreshOK, Covers,
         DeliveryOK, ResultOK, Refuse, serviceVars, NoDelivery
  <1>5. ResultOK'
      BY BranchAssumption DEF PInv, TInv, PlainTypeOK, ResultOK, DeliveryOK, NoResult, Refuse, serviceVars, NoDelivery
  <1> QED
      BY <1>1, <1>2, <1>3, <1>4, <1>5 DEF PInv

\* The form touches no copy.
LEMMA ChangeBranchKeeps ==
    ASSUME PInv, NEW b \in Choices, ChangeBranch(b)
    PROVE  PInv'
  <1>1. TInv'
      BY ChangeBranchTyped DEF PInv
  <1>2. DeliveryOK'
      BY BranchAssumption DEF PInv, TInv, PlainTypeOK, DeliveryOK, ChangeBranch, serviceVars
  <1>3. CopyOK'
      BY BranchAssumption DEF PInv, TInv, PlainTypeOK, DirTypeOK, CopyOK, ChangeBranch, serviceVars
  <1>4. FreshOK'
      BY BranchAssumption DEF PInv, TInv, PlainTypeOK, DirTypeOK, JobOK, CopyOK, FreshOK, Covers,
         DeliveryOK, ResultOK, ChangeBranch, serviceVars
  <1>5. ResultOK'
      BY BranchAssumption DEF PInv, TInv, PlainTypeOK, ResultOK, DeliveryOK, NoResult, ChangeBranch, serviceVars
  <1> QED
      BY <1>1, <1>2, <1>3, <1>4, <1>5 DEF PInv

\* A job begins with nothing fetched.
LEMMA BeginRunKeeps ==
    ASSUME PInv, NEW d \in Deliveries, BeginRun(d)
    PROVE  PInv'
  <1>1. TInv'
      BY BeginRunTyped DEF PInv
  <1>2. DeliveryOK'
      BY BranchAssumption DEF PInv, TInv, PlainTypeOK, DeliveryOK, BeginRun, Engine!Begin
  <1>3. CopyOK'
      BY BranchAssumption DEF PInv, TInv, PlainTypeOK, DirTypeOK, CopyOK, BeginRun, Engine!Begin
  <1>4. FreshOK'
      BY BranchAssumption DEF PInv, TInv, PlainTypeOK, DirTypeOK, JobOK, CopyOK, FreshOK, Covers,
         DeliveryOK, ResultOK, BeginRun, Engine!Begin
  <1>5. ResultOK'
      BY BranchAssumption DEF PInv, TInv, PlainTypeOK, ResultOK, DeliveryOK, NoResult, BeginRun, Engine!Begin
  <1> QED
      BY <1>1, <1>2, <1>3, <1>4, <1>5 DEF PInv

\* A job ends.
LEMMA EndRunKeeps ==
    ASSUME PInv, EndRun
    PROVE  PInv'
  <1>1. TInv'
      BY EndRunTyped DEF PInv
  <1>2. DeliveryOK'
      BY BranchAssumption DEF PInv, TInv, PlainTypeOK, DeliveryOK, EndRun, Engine!Finish, NoJob
  <1>3. CopyOK'
      BY BranchAssumption DEF PInv, TInv, PlainTypeOK, DirTypeOK, CopyOK, EndRun, Engine!Finish, NoJob
  <1>4. FreshOK'
      BY BranchAssumption DEF PInv, TInv, PlainTypeOK, DirTypeOK, JobOK, CopyOK, FreshOK, Covers,
         DeliveryOK, ResultOK, EndRun, Engine!Finish, NoJob
  <1>5. ResultOK'
      BY BranchAssumption DEF PInv, TInv, PlainTypeOK, ResultOK, DeliveryOK, NoResult, EndRun, Engine!Finish, NoJob
  <1> QED
      BY <1>1, <1>2, <1>3, <1>4, <1>5 DEF PInv

\* No deployment is lost that was not accepted.
LEMMA CrashKeeps ==
    ASSUME PInv, Crash
    PROVE  PInv'
  <1>1. TInv'
      BY CrashTyped DEF PInv
  <1>2. DeliveryOK'
      BY BranchAssumption DEF PInv, TInv, PlainTypeOK, DeliveryOK, Crash, Engine!Lose, NoJob, Killed
  <1>3. CopyOK'
      BY BranchAssumption DEF PInv, TInv, PlainTypeOK, DirTypeOK, CopyOK, Crash, Engine!Lose, NoJob, Killed
  <1>4. FreshOK'
      BY BranchAssumption DEF PInv, TInv, PlainTypeOK, DirTypeOK, JobOK, CopyOK, FreshOK, Covers,
         DeliveryOK, ResultOK, Crash, Engine!Lose, NoJob, Killed
  <1>5. ResultOK'
      BY BranchAssumption DEF PInv, TInv, PlainTypeOK, ResultOK, DeliveryOK, NoResult, Crash, Engine!Lose, NoJob, Killed
  <1> QED
      BY <1>1, <1>2, <1>3, <1>4, <1>5 DEF PInv

-----------------------------------------------------------------------------
(* The copy that nothing has spoiled *)

\* One step of a job.
LEMMA StatFindsCopyUsable ==
    ASSUME PInv, UsableOK, StatFindsCopy
    PROVE  UsableOK'
  BY BranchAssumption DEF PInv, TInv, PlainTypeOK, DirTypeOK, JobOK, CopyOK, UsableOK, StatFindsCopy, JobMoves, Quiet

\* One step of a job.
LEMMA StatFindsNoneUsable ==
    ASSUME PInv, UsableOK, StatFindsNone
    PROVE  UsableOK'
  BY BranchAssumption DEF PInv, TInv, PlainTypeOK, DirTypeOK, JobOK, CopyOK, UsableOK, StatFindsNone, JobMoves, Quiet, RemoveAll, NoCopy

\* One step of a job.
LEMMA FetchSucceedsUsable ==
    ASSUME PInv, UsableOK, FetchSucceeds
    PROVE  UsableOK'
  BY BranchAssumption DEF PInv, TInv, PlainTypeOK, DirTypeOK, JobOK, CopyOK, UsableOK, FetchSucceeds, JobMoves, Quiet, Fetch, SyncBranch

\* One step of a job.
LEMMA FetchFailsUsable ==
    ASSUME PInv, UsableOK, FetchFails
    PROVE  UsableOK'
  BY BranchAssumption DEF PInv, TInv, PlainTypeOK, DirTypeOK, JobOK, CopyOK, UsableOK, FetchFails, JobMoves, Quiet, RemoveAll, NoCopy

\* One step of a job.
LEMMA CloneStartsUsable ==
    ASSUME PInv, UsableOK, CloneStarts
    PROVE  UsableOK'
  BY BranchAssumption DEF PInv, TInv, PlainTypeOK, DirTypeOK, JobOK, CopyOK, UsableOK, CloneStarts, JobMoves, Quiet, CloneBegins, CutCopy, NoCopy

\* One step of a job.
LEMMA CloneIsAnsweredUsable ==
    ASSUME PInv, UsableOK, CloneIsAnswered
    PROVE  UsableOK'
  BY BranchAssumption DEF PInv, TInv, PlainTypeOK, DirTypeOK, JobOK, CopyOK, UsableOK, CloneIsAnswered, JobMoves, Quiet, CloneFetches, CloneBranch, SyncBranch, CutCopy, NoCopy

\* One step of a job.
LEMMA CloneSucceedsUsable ==
    ASSUME PInv, UsableOK, CloneSucceeds
    PROVE  UsableOK'
  BY BranchAssumption DEF PInv, TInv, PlainTypeOK, DirTypeOK, JobOK, CopyOK, UsableOK, CloneSucceeds, JobMoves, Quiet, CloneChecksOut

\* One step of a job.
LEMMA CloneFailsUsable ==
    ASSUME PInv, UsableOK, CloneFails
    PROVE  UsableOK'
  BY BranchAssumption DEF PInv, TInv, PlainTypeOK, DirTypeOK, JobOK, CopyOK, UsableOK, CloneFails, JobMoves, Quiet, RemoveAll, NoCopy

\* One step of a job.
LEMMA GitIsKilledUsable ==
    ASSUME PInv, UsableOK, GitIsKilled
    PROVE  UsableOK'
  BY BranchAssumption DEF PInv, TInv, PlainTypeOK, DirTypeOK, JobOK, CopyOK, UsableOK, GitIsKilled, JobMoves, Quiet, Killed

\* One step of a job.
LEMMA ResetSucceedsUsable ==
    ASSUME PInv, UsableOK, ResetSucceeds
    PROVE  UsableOK'
  BY BranchAssumption DEF PInv, TInv, PlainTypeOK, DirTypeOK, JobOK, CopyOK, UsableOK, ResetSucceeds, JobMoves, Quiet, Reset

\* One step of a job.
LEMMA ResetIsRefusedUsable ==
    ASSUME PInv, UsableOK, ResetIsRefused
    PROVE  UsableOK'
  BY BranchAssumption DEF PInv, TInv, PlainTypeOK, DirTypeOK, JobOK, CopyOK, UsableOK, ResetIsRefused, JobMoves, Quiet, ResetFails

\* One step of a job.
LEMMA BuildAndDeployUsable ==
    ASSUME PInv, UsableOK, BuildAndDeploy
    PROVE  UsableOK'
  BY BranchAssumption DEF PInv, TInv, PlainTypeOK, DirTypeOK, JobOK, CopyOK, UsableOK, BuildAndDeploy, JobMoves, Quiet

\* One step of a job.
LEMMA BuildOrDeployFailsUsable ==
    ASSUME PInv, UsableOK, BuildOrDeployFails
    PROVE  UsableOK'
  BY BranchAssumption DEF PInv, TInv, PlainTypeOK, DirTypeOK, JobOK, CopyOK, UsableOK, BuildOrDeployFails, JobMoves, Quiet

\* The copy is not touched.
LEMMA PushUsable ==
    ASSUME PInv, UsableOK, NEW b \in Branches, Push(b)
    PROVE  UsableOK'
  BY DEF PInv, TInv, PlainTypeOK, UsableOK, Push

\* The copy is not touched.
LEMMA SendUsable ==
    ASSUME PInv, UsableOK, NEW d \in Deliveries, Send(d)
    PROVE  UsableOK'
  BY DEF PInv, TInv, PlainTypeOK, UsableOK, Send

\* The copy is not touched.
LEMMA ReceiveUsable ==
    ASSUME PInv, UsableOK, NEW d \in Deliveries, Receive(d)
    PROVE  UsableOK'
  BY DEF PInv, TInv, PlainTypeOK, UsableOK, Receive

\* The copy is not touched.
LEMMA RefuseUsable ==
    ASSUME PInv, UsableOK, NEW d \in Deliveries, Refuse(d)
    PROVE  UsableOK'
  BY DEF PInv, TInv, PlainTypeOK, UsableOK, Refuse

\* The copy is not touched.
LEMMA ChangeBranchUsable ==
    ASSUME PInv, UsableOK, NEW b \in Choices, ChangeBranch(b)
    PROVE  UsableOK'
  BY DEF PInv, TInv, PlainTypeOK, UsableOK, ChangeBranch

\* The copy is not touched.
LEMMA BeginRunUsable ==
    ASSUME PInv, UsableOK, NEW d \in Deliveries, BeginRun(d)
    PROVE  UsableOK'
  BY DEF PInv, TInv, PlainTypeOK, UsableOK, BeginRun

\* The copy is not touched.
LEMMA EndRunUsable ==
    ASSUME PInv, UsableOK, EndRun
    PROVE  UsableOK'
  BY DEF PInv, TInv, PlainTypeOK, UsableOK, EndRun, NoJob

\* A copy that was being worked on is spoiled.
LEMMA CrashUsable ==
    ASSUME PInv, UsableOK, Crash
    PROVE  UsableOK'
  BY DEF PInv, TInv, PlainTypeOK, UsableOK, Crash, NoJob

-----------------------------------------------------------------------------
(* The readers *)

\* What is read after the lines 1 to n are the lines from n + 1 on.
LEMMA PrefixGrows ==
    ASSUME NEW sent \in Seq(Nat), NEW count \in Nat, sent = [i \in 1..Len(sent) |-> i],
           NEW t, t = sent \o Lines(Len(sent), count)
    PROVE  t \in Seq(Nat) /\ Len(t) = Len(sent) + count /\ t = [i \in 1..Len(t) |-> i]
  <1> DEFINE more == Lines(Len(sent), count)
  <1>1. Len(sent) \in Nat
      OBVIOUS
  <1>2. more \in Seq(Nat) /\ Len(more) = count /\ \A i \in 1..count : more[i] = Len(sent) + i
      BY <1>1 DEF Lines
  <1> HIDE DEF more
  <1>3. t = sent \o more
      BY DEF more
  <1>4. t \in Seq(Nat) /\ Len(t) = Len(sent) + count
      BY <1>2, <1>3, ConcatProperties
  <1>5. ASSUME NEW i \in 1..Len(t) PROVE t[i] = i
    <2>1. CASE i <= Len(sent)
        BY <1>1, <1>2, <1>3, <1>4, <2>1
    <2>2. CASE i > Len(sent)
        BY <1>1, <1>2, <1>3, <1>4, <2>2
    <2> QED
        BY <1>1, <1>4, <1>5, <2>1, <2>2
  <1>6. t = [i \in 1..Len(t) |-> t[i]]
      BY <1>4, LenProperties
  <1> QED
      BY <1>4, <1>5, <1>6

\* The log grows, or stays: nothing that was sent is undone.
LEMMA WriterKeepsPrefix ==
    ASSUME SInv, UNCHANGED stream, UNCHANGED log \/ \E d \in Logs : Say(d)
    PROVE  SInv'
  <1>1. CASE UNCHANGED log
      BY <1>1 DEF SInv, StreamTypeOK, StreamOK
  <1>2. ASSUME NEW d \in Logs, Say(d) PROVE SInv'
    <2>1. log' \in [Logs -> Nat] /\ \A e \in Logs : log'[e] >= log[e]
        BY <1>2 DEF Say, SInv, StreamTypeOK
    <2>2. StreamTypeOK'
        BY <2>1 DEF SInv, StreamTypeOK
    <2>3. ASSUME NEW s \in Streams, stream[s].of # Nothing
          PROVE  Len(stream[s].sent) <= log'[stream[s].of]
      <3>1. stream[s].of \in Logs /\ stream[s].sent \in Seq(Nat)
          BY <2>3 DEF SInv, StreamTypeOK
      <3>2. Len(stream[s].sent) <= log[stream[s].of]
          BY <2>3 DEF SInv, StreamOK
      <3>3. log[stream[s].of] \in Nat /\ log'[stream[s].of] \in Nat
          BY <2>1, <3>1 DEF SInv, StreamTypeOK
      <3>4. Len(stream[s].sent) \in Nat
          BY <3>1
      <3> QED
          BY <2>1, <3>1, <3>2, <3>3, <3>4
    <2>4. StreamOK'
        BY <2>3 DEF SInv, StreamOK
    <2> QED
        BY <2>2, <2>4 DEF SInv
  <1> QED
      BY <1>1, <1>2

\* A stream begins or ends with nothing sent, or takes another step without sending.
LEMMA QuietStreamKeepsPrefix ==
    ASSUME SInv, NEW s \in Streams, UNCHANGED log,
           NEW r \in [at: {"closed", "waiting", "asking", "last", "done"},
                       of: Logs \cup {Nothing}, sent: Seq(Nat)],
           stream' = [stream EXCEPT ![s] = r],
           r.at # "closed" => r.of \in Logs,
           r.sent = [i \in 1..Len(r.sent) |-> i],
           r.of # Nothing => Len(r.sent) <= log[r.of]
    PROVE  SInv'
  <1>1. StreamTypeOK'
      BY DEF SInv, StreamTypeOK
  <1>2. ASSUME NEW q \in Streams PROVE stream'[q] = IF q = s THEN r ELSE stream[q]
      BY DEF SInv, StreamTypeOK
  <1>3. StreamOK'
      BY <1>2 DEF SInv, StreamOK
  <1> QED
      BY <1>1, <1>3 DEF SInv

\* An empty stream has sent the first 0 lines.
LEMMA EmptyPrefix == <<>> \in Seq(Nat) /\ Len(<<>>) = 0 /\ <<>> = [i \in 1..Len(<<>>) |-> i]
  OBVIOUS

\* Opening a stream.
LEMMA OpenKeepsPrefix ==
    ASSUME SInv, NEW s \in Streams, NEW d \in Deliveries, OpenStream(s, d)
    PROVE  SInv'
  <1> DEFINE r == [at |-> IF Final(d) THEN "last" ELSE "waiting", of |-> d, sent |-> <<>>]
  <1>1. stream' = [stream EXCEPT ![s] = r] /\ UNCHANGED log
      BY DEF OpenStream, Open
  <1>2. r \in [at: {"closed", "waiting", "asking", "last", "done"},
                of: Logs \cup {Nothing}, sent: Seq(Nat)]
      BY EmptyPrefix DEF Deliveries
  <1>3. r.sent = [i \in 1..Len(r.sent) |-> i] /\ Len(r.sent) <= log[r.of]
      BY EmptyPrefix DEF Deliveries, SInv, StreamTypeOK
  <1>4. r.of \in Logs
      BY DEF Deliveries
  <1> HIDE DEF r
  <1> QED
      BY <1>1, <1>2, <1>3, <1>4, QuietStreamKeepsPrefix

\* A closed stream.
LEMMA CloseKeepsPrefix ==
    ASSUME SInv, NEW s \in Streams, CloseStream(s)
    PROVE  SInv'
  <1>1. stream' = [stream EXCEPT ![s] = NoStream] /\ UNCHANGED log
      BY DEF CloseStream, Close
  <1>2. /\ NoStream \in [at: {"closed", "waiting", "asking", "last", "done"},
                         of: Logs \cup {Nothing}, sent: Seq(Nat)]
        /\ NoStream.at = "closed" /\ NoStream.of = Nothing
        /\ NoStream.sent = [i \in 1..Len(NoStream.sent) |-> i]
      BY EmptyPrefix DEF NoStream
  <1> QED
      BY <1>1, <1>2, QuietStreamKeepsPrefix

\* The status.
LEMMA AskKeepsPrefix ==
    ASSUME SInv, NEW s \in Streams, AskStatus(s)
    PROVE  SInv'
  <1> DEFINE r == [stream[s] EXCEPT !.at = IF Final(stream[s].of) THEN "done" ELSE "waiting"]
  <1>1. stream' = [stream EXCEPT ![s] = r] /\ UNCHANGED log /\ stream[s].at = "asking"
      BY DEF AskStatus, Ask, SInv, StreamTypeOK
  <1>2. /\ stream[s] \in [at: {"closed", "waiting", "asking", "last", "done"},
                          of: Logs \cup {Nothing}, sent: Seq(Nat)]
        /\ stream[s].of \in Logs
        /\ stream[s].sent = [i \in 1..Len(stream[s].sent) |-> i]
        /\ stream[s].of # Nothing => Len(stream[s].sent) <= log[stream[s].of]
      BY <1>1 DEF SInv, StreamTypeOK, StreamOK
  <1>3. /\ r \in [at: {"closed", "waiting", "asking", "last", "done"},
                  of: Logs \cup {Nothing}, sent: Seq(Nat)]
        /\ r.of = stream[s].of /\ r.sent = stream[s].sent
      BY <1>2
  <1> HIDE DEF r
  <1> QED
      BY <1>1, <1>2, <1>3, QuietStreamKeepsPrefix

\* A read: what is sent does not pass the end of the log.
LEMMA ReadKeepsPrefix ==
    ASSUME SInv, NEW s \in Streams, ReadLog(s)
    PROVE  SInv'
  <1> DEFINE d == stream[s].of
             offset == Len(stream[s].sent)
             rest == log[d] - offset
             count == IF rest > Chunk THEN Chunk ELSE rest
             t == stream[s].sent \o Lines(offset, count)
             r == [at |-> IF stream[s].at = "waiting" THEN "asking" ELSE "done", of |-> d,
                   sent |-> t]
  <1>1. stream' = [stream EXCEPT ![s] = r] /\ UNCHANGED log /\ stream[s].at \in {"waiting", "last"}
      BY DEF ReadLog, Read
  <1>2. d \in Logs /\ stream[s].sent \in Seq(Nat) /\ log[d] \in Nat
      BY <1>1 DEF SInv, StreamTypeOK, StreamOK
  <1>3. stream[s].sent = [i \in 1..offset |-> i] /\ offset \in Nat /\ offset <= log[d]
      BY <1>2, StreamAssumption DEF SInv, StreamOK
  <1>4. count \in Nat /\ offset + count <= log[d]
      BY <1>2, <1>3, StreamAssumption
  <1> HIDE DEF count
  <1>5. t \in Seq(Nat) /\ Len(t) = offset + count /\ t = [i \in 1..Len(t) |-> i]
      BY <1>2, <1>3, <1>4, PrefixGrows
  <1> HIDE DEF t
  <1>6. /\ r \in [at: {"closed", "waiting", "asking", "last", "done"},
                  of: Logs \cup {Nothing}, sent: Seq(Nat)]
        /\ r.of = d /\ r.sent = t
      BY <1>2, <1>5
  <1> HIDE DEF r
  <1> QED
      BY <1>1, <1>2, <1>4, <1>5, <1>6, QuietStreamKeepsPrefix

\* All streams are cut.
LEMMA CrashKeepsPrefix ==
    ASSUME SInv, Crash
    PROVE  SInv'
  <1>1. stream' = [s \in Streams |-> NoStream] /\ UNCHANGED log
      BY DEF Crash
  <1> QED
      BY <1>1, EmptyPrefix DEF NoStream, SInv, StreamTypeOK, StreamOK

\* No step outside the streams does more to them than add a line to a log.
LEMMA JobKeepsPrefix ==
    ASSUME TInv, SInv, SyncStep \/ BuildAndDeploy \/ BuildOrDeployFails \/ EndRun
    PROVE  SInv'
  <1>1. CASE CloneSucceeds
      BY <1>1, WriterKeepsPrefix DEF CloneSucceeds, JobMoves, TInv, JobOK, Deliveries
  <1>2. CASE ResetSucceeds
      BY <1>2, WriterKeepsPrefix DEF ResetSucceeds, JobMoves, TInv, JobOK, Deliveries
  <1>3. CASE EndRun
      BY <1>3, WriterKeepsPrefix DEF EndRun, TInv, JobOK, Deliveries
  <1>4. ASSUME UNCHANGED <<stream, log>> PROVE SInv'
      BY <1>4, WriterKeepsPrefix
  <1>5. \/ CloneSucceeds \/ ResetSucceeds \/ EndRun
        \/ UNCHANGED <<stream, log>>
      BY DEF SyncStep, StatFindsCopy, StatFindsNone, FetchSucceeds, FetchFails, CloneStarts,
             CloneIsAnswered, CloneFails, GitIsKilled, ResetIsRefused, BuildAndDeploy,
             BuildOrDeployFails, JobMoves, Quiet
  <1> QED
      BY <1>1, <1>2, <1>3, <1>4, <1>5

-----------------------------------------------------------------------------
(* The invariant *)

IInv == PInv /\ UsableOK /\ SInv

\* The streams and what they read, apart from the rest.
plainVars == <<head, dir, serviceVars, branch, delivery, job, result, spoiled, stuck>>

\* What is true of the rest stays true when the rest stays.
LEMMA PlainFrame ==
    ASSUME PInv, UsableOK, UNCHANGED plainVars
    PROVE  PInv' /\ UsableOK'
  <1> USE DEF plainVars, serviceVars
  <1>1. TInv'
      BY DEF PInv, TInv, PlainTypeOK, DirTypeOK, JobOK
  <1>2. DeliveryOK' /\ CopyOK' /\ ResultOK' /\ UsableOK'
      BY DEF PInv, DeliveryOK, CopyOK, ResultOK, UsableOK
  <1>3. FreshOK'
      BY DEF PInv, FreshOK, Covers
  <1> QED
      BY <1>1, <1>2, <1>3 DEF PInv

\* It holds at first.
LEMMA InvInit == Init => IInv
  <1> SUFFICES ASSUME Init PROVE IInv
      OBVIOUS
  <1>1. TInv
      BY BranchAssumption, PushAssumption DEF Init, Engine!Init, TInv, PlainTypeOK, DirTypeOK,
         JobOK, NoCopy, NoJob, Steps, NoDelivery, NoResult, Deliveries
  <1>2. DeliveryOK /\ CopyOK /\ FreshOK /\ ResultOK /\ UsableOK
      BY BranchAssumption DEF Init, Engine!Init, DeliveryOK, CopyOK, FreshOK, ResultOK, UsableOK,
         NoCopy, NoJob, NoDelivery, NoResult
  <1>3. SInv
      BY EmptyPrefix DEF Init, SInv, StreamTypeOK, StreamOK, NoStream
  <1> QED
      BY <1>1, <1>2, <1>3 DEF IInv, PInv

\* It is kept by every step.
LEMMA InvNext == IInv /\ [Next]_vars => IInv'
  <1> SUFFICES ASSUME IInv, [Next]_vars PROVE IInv'
      OBVIOUS
  <1> USE DEF IInv
  <1>0. PInv /\ TInv /\ UsableOK /\ SInv
      BY DEF PInv
  <1>1. ASSUME NEW b \in Branches, Push(b) PROVE IInv'
      BY <1>0, <1>1, PushKeeps, PushUsable, WriterKeepsPrefix DEF Push, streamVars
  <1>2. ASSUME NEW d \in Deliveries, Send(d) PROVE IInv'
      BY <1>0, <1>2, SendKeeps, SendUsable, WriterKeepsPrefix DEF Send, streamVars
  <1>3. ASSUME NEW d \in Deliveries, Receive(d) PROVE IInv'
      BY <1>0, <1>3, ReceiveKeeps, ReceiveUsable, WriterKeepsPrefix DEF Receive, streamVars
  <1>4. ASSUME NEW d \in Deliveries, Refuse(d) PROVE IInv'
      BY <1>0, <1>4, RefuseKeeps, RefuseUsable, WriterKeepsPrefix DEF Refuse, streamVars
  <1>5. ASSUME NEW b \in Choices, ChangeBranch(b) PROVE IInv'
      BY <1>0, <1>5, ChangeBranchKeeps, ChangeBranchUsable, WriterKeepsPrefix DEF ChangeBranch, streamVars
  <1>6. ASSUME NEW d \in Deliveries, BeginRun(d) PROVE IInv'
      BY <1>0, <1>6, BeginRunKeeps, BeginRunUsable, WriterKeepsPrefix DEF BeginRun, Deliveries
  <1>7. CASE StatFindsCopy
      BY <1>0, <1>7, StatFindsCopyKeeps, StatFindsCopyUsable, JobKeepsPrefix DEF SyncStep
  <1>8. CASE StatFindsNone
      BY <1>0, <1>8, StatFindsNoneKeeps, StatFindsNoneUsable, JobKeepsPrefix DEF SyncStep
  <1>9. CASE FetchSucceeds
      BY <1>0, <1>9, FetchSucceedsKeeps, FetchSucceedsUsable, JobKeepsPrefix DEF SyncStep
  <1>10. CASE FetchFails
      BY <1>0, <1>10, FetchFailsKeeps, FetchFailsUsable, JobKeepsPrefix DEF SyncStep
  <1>11. CASE CloneStarts
      BY <1>0, <1>11, CloneStartsKeeps, CloneStartsUsable, JobKeepsPrefix DEF SyncStep
  <1>12. CASE CloneIsAnswered
      BY <1>0, <1>12, CloneIsAnsweredKeeps, CloneIsAnsweredUsable, JobKeepsPrefix DEF SyncStep
  <1>13. CASE CloneSucceeds
      BY <1>0, <1>13, CloneSucceedsKeeps, CloneSucceedsUsable, JobKeepsPrefix DEF SyncStep
  <1>14. CASE CloneFails
      BY <1>0, <1>14, CloneFailsKeeps, CloneFailsUsable, JobKeepsPrefix DEF SyncStep
  <1>15. CASE GitIsKilled
      BY <1>0, <1>15, GitIsKilledKeeps, GitIsKilledUsable, JobKeepsPrefix DEF SyncStep
  <1>16. CASE ResetSucceeds
      BY <1>0, <1>16, ResetSucceedsKeeps, ResetSucceedsUsable, JobKeepsPrefix DEF SyncStep
  <1>17. CASE ResetIsRefused
      BY <1>0, <1>17, ResetIsRefusedKeeps, ResetIsRefusedUsable, JobKeepsPrefix DEF SyncStep
  <1>18. CASE BuildAndDeploy
      BY <1>0, <1>18, BuildAndDeployKeeps, BuildAndDeployUsable, JobKeepsPrefix
  <1>19. CASE BuildOrDeployFails
      BY <1>0, <1>19, BuildOrDeployFailsKeeps, BuildOrDeployFailsUsable, JobKeepsPrefix
  <1>20. CASE EndRun
      BY <1>0, <1>20, EndRunKeeps, EndRunUsable, JobKeepsPrefix
  <1>21. CASE Crash
      BY <1>0, <1>21, CrashKeeps, CrashUsable, CrashKeepsPrefix
  <1>22. ASSUME NEW s \in Streams, NEW d \in Deliveries, OpenStream(s, d) PROVE IInv'
      BY <1>0, <1>22, PlainFrame, OpenKeepsPrefix DEF OpenStream, Others, plainVars
  <1>23. ASSUME NEW s \in Streams, ReadLog(s) PROVE IInv'
      BY <1>0, <1>23, PlainFrame, ReadKeepsPrefix DEF ReadLog, Others, plainVars
  <1>24. ASSUME NEW s \in Streams, AskStatus(s) PROVE IInv'
      BY <1>0, <1>24, PlainFrame, AskKeepsPrefix DEF AskStatus, Others, plainVars
  <1>25. ASSUME NEW s \in Streams, CloseStream(s) PROVE IInv'
      BY <1>0, <1>25, PlainFrame, CloseKeepsPrefix DEF CloseStream, Others, plainVars
  <1>26. CASE UNCHANGED vars
      BY <1>0, <1>26, PlainFrame, WriterKeepsPrefix DEF vars, plainVars, streamVars
  <1> QED
      BY <1>1, <1>2, <1>3, <1>4, <1>5, <1>6, <1>7, <1>8, <1>9, <1>10, <1>11, <1>12, <1>13, <1>14, <1>15, <1>16, <1>17, <1>18, <1>19, <1>20, <1>21, <1>22, <1>23, <1>24, <1>25, <1>26 DEF Next, SyncStep, Follow

\* It implies the properties.
LEMMA InvImplies == IInv => TypeOK /\ PushIsCovered /\ CopyStaysUsable /\ StreamIsPrefix
  <1> SUFFICES ASSUME IInv PROVE TypeOK /\ PushIsCovered /\ CopyStaysUsable /\ StreamIsPrefix
      OBVIOUS
  <1>1. TypeOK
      BY DEF IInv, PInv, TInv, PlainTypeOK, SInv, TypeOK
  <1>2. PushIsCovered
      BY DEF IInv, PInv, ResultOK, PushIsCovered
  <1>3. CopyStaysUsable
      BY DEF IInv, UsableOK, CopyStaysUsable
  <1>4. StreamIsPrefix
      BY DEF IInv, SInv, StreamOK, StreamIsPrefix
  <1> QED
      BY <1>1, <1>2, <1>3, <1>4

\* It holds always.
LEMMA Invariance == Spec => []IInv
  BY InvInit, InvNext, PTL DEF Spec

\* Every variable keeps its type, whatever is pushed, lost, killed or followed.
THEOREM TypeCorrect == Spec => []TypeOK
  BY Invariance, InvImplies, PTL

\* A deployment that succeeds has built the push that caused it or a later one,
\* however late its delivery is and whatever the copy held before.
THEOREM PushIsAlwaysCovered == Spec => []PushIsCovered
  BY Invariance, InvImplies, PTL

\* A copy that no kill and no change of the branch has met can always be reset
\* to the branch it is kept for.
THEOREM CopyAlwaysUsable == Spec => []CopyStaysUsable
  BY Invariance, InvImplies, PTL

\* Each reader has the lines of the log from the first on, each once and in order.
THEOREM StreamAlwaysPrefix == Spec => []StreamIsPrefix
  BY Invariance, InvImplies, PTL

\* One step builds nothing that is behind what was built before.
LEMMA StepForward ==
    ASSUME IInv, [Next]_vars, NEW d \in Deliveries, NEW e \in Deliveries,
           result[d] # NoResult, result[e] # result'[e], result'[e].branch = result[d].branch
    PROVE  result'[e].commit >= result[d].commit
  <1>1. BuildAndDeploy
    <2>1. ~UNCHANGED result
        OBVIOUS
    <2> QED
        BY <2>1 DEF Next, vars, Push, Send, Receive, Refuse, ChangeBranch, BeginRun, SyncStep, EndRun,
           Crash, OpenStream, Follow, ReadLog, AskStatus, CloseStream, Others, StatFindsCopy,
           StatFindsNone, FetchSucceeds, FetchFails, CloneStarts, CloneIsAnswered, CloneSucceeds,
           CloneFails, GitIsKilled, ResetSucceeds, ResetIsRefused, BuildOrDeployFails, Quiet
  <1>2. /\ result' = [result EXCEPT ![job.of] = [branch |-> dir.tracks, commit |-> dir.tree]]
        /\ job.at = "build"
      BY <1>1 DEF BuildAndDeploy, JobMoves
  <1>3. result'[e] = [branch |-> dir.tracks, commit |-> dir.tree]
      BY <1>2 DEF IInv, PInv, TInv, PlainTypeOK
  <1>4. Covers(dir.tree, dir.tracks)
      BY <1>2 DEF IInv, PInv, FreshOK
  <1> QED
      BY <1>3, <1>4 DEF Covers

\* No deployment that succeeds takes the application back to an earlier commit of
\* the branch, in whatever order deliveries arrive.
THEOREM NeverGoesBackwards == Spec => NeverBackwards
  <1>1. IInv /\ [Next]_vars
        => [\A d, e \in Deliveries :
              result[d] # NoResult /\ result[e] # result'[e] /\ result'[e].branch = result[d].branch
              => result'[e].commit >= result[d].commit]_vars
      BY StepForward
  <1> QED
      BY <1>1, Invariance, PTL DEF Spec, NeverBackwards

=============================================================================
