---------------------------- MODULE PushToDeploy ----------------------------
(***************************************************************************)
(* From "git push" to a running version, for one application whose source  *)
(* is a repository: the webhook, the deployment it asks for, the copy of   *)
(* the repository that the deployment brings up to date, and the browsers  *)
(* that follow the build log.                                              *)
(*                                                                         *)
(* The deployment service is DeploymentEngine, the specification that      *)
(* DeploymentService implements, with a delivery of the webhook for each   *)
(* call.  Calls of Enqueue do not overlap here: what becomes of those that *)
(* do is DeploymentService's subject.  The git host is external: it sends  *)
(* what it likes, again, late, out of order or not at all, and counts its  *)
(* pushes to no more than MaxPushes.                                       *)
(***************************************************************************)
EXTENDS WorkingCopy, LogStream

CONSTANTS
    TheApp,
    Choices,    \* what is entered for the branch; a bound
    Followed,   \* the deployments that browsers follow; a bound
    MaxPushes   \* the bound on what is pushed

ASSUME PushAssumption == MaxPushes \in Nat /\ Choices \subseteq Branches \cup {None}

Deliveries == Logs

VARIABLES
    stage, owner,  \* the deployment service: one deployment for each delivery
    branch,        \* the branch the application is configured for; None when the field is empty
    delivery,      \* what each delivery says: a push to a branch, or 0, something else
    job,           \* the pipeline: whose, which step comes next, for which branch
    result,        \* what each deployment that succeeded has built
    spoiled,       \* the copy was cut off by a kill, or is of a branch no longer configured
    stuck          \* deployments that the records call active and nobody runs any more

serviceVars == <<stage, owner>>
vars == <<head, dir, streamVars, serviceVars, branch, delivery, job, result, spoiled, stuck>>

Engine == INSTANCE DeploymentEngine WITH Apps <- {TheApp}, Calls <- Deliveries

NoDelivery == [push |-> None, branch |-> None]
OtherEvent == [push |-> 0, branch |-> None]
NoJob == [of |-> Nothing, at |-> "idle", branch |-> None]
NoResult == [branch |-> None, commit |-> None]

Steps == {"idle", "stat", "fetch", "fresh", "cloning", "fetched", "reset", "build", "ended"}

TypeOK ==
    /\ DirTypeOK
    /\ StreamTypeOK
    /\ head \in [Branches -> Nat]
    /\ stage \in [Deliveries -> {"none", "waiting", "running", "finished", "lost"}]
    /\ owner \in [Deliveries -> {TheApp, None}]
    /\ branch \in Branches \cup {None}
    /\ delivery \in [Deliveries -> [push: Nat \cup {None}, branch: Branches \cup {None}]]
    /\ job \in [of: Deliveries \cup {Nothing}, at: Steps, branch: Branches \cup {None}]
    /\ result \in [Deliveries -> [branch: Branches \cup {None}, commit: Nat \cup {None}]]
    /\ spoiled \in BOOLEAN
    /\ stuck \subseteq Deliveries

Init ==
    /\ head = [b \in Branches |-> 0]
    /\ dir = NoCopy
    /\ log = [d \in Logs |-> 0]
    /\ stream = [s \in Streams |-> NoStream]
    /\ Engine!Init
    /\ branch \in Choices
    /\ delivery = [d \in Deliveries |-> NoDelivery]
    /\ job = NoJob
    /\ result = [d \in Deliveries |-> NoResult]
    /\ spoiled = FALSE
    /\ stuck = {}

\* The status that a reader or a check finds.  Success and failure are written
\* to the record before the pipeline's last line and before runJob returns.
Final(d) ==
    \/ stage[d] = "finished"
    \/ stage[d] = "lost" /\ d \notin stuck
    \/ job.of = d /\ job.at = "ended"

Active(d) == stage[d] # "none" /\ ~Final(d)

-----------------------------------------------------------------------------
(* The git host *)

\* A push gets the next number of all.
Push(b) ==
    /\ \E n \in 1..MaxPushes :
          /\ \A c \in Branches : head[c] < n
          /\ \E c \in Branches : head[c] = n - 1
          /\ head' = [head EXCEPT ![b] = n]
    /\ UNCHANGED <<dir, streamVars, serviceVars, branch, delivery, job, result, spoiled, stuck>>

\* The host tells of the latest push to a branch, as often as it likes, or of
\* something that is no push (a tag, a comment; a click on "deploy" comes the
\* same way).  It arrives when it arrives.
Send(d) ==
    /\ delivery[d] = NoDelivery
    /\ \E says \in {OtherEvent} \cup {[push |-> head[b], branch |-> b] : b \in Branches} :
          /\ says = OtherEvent \/ says.push > 0
          /\ delivery' = [delivery EXCEPT ![d] = says]
    /\ UNCHANGED <<head, dir, streamVars, serviceVars, branch, job, result, spoiled, stuck>>

-----------------------------------------------------------------------------
(* The webhook: neither the kind of the event nor its branch is looked at *)

Receive(d) ==
    /\ delivery[d] # NoDelivery
    /\ \A e \in Deliveries : ~Active(e)
    /\ Engine!Accept(d, TheApp)
    /\ UNCHANGED <<head, dir, streamVars, branch, delivery, job, result, spoiled, stuck>>

\* A bad signature (401); or an application that is being deployed, a full
\* queue, a record that cannot be saved: 202, and the push is forgotten.
Refuse(d) ==
    /\ delivery[d] # NoDelivery
    /\ stage[d] = "none"
    /\ delivery' = [delivery EXCEPT ![d] = NoDelivery]
    /\ UNCHANGED <<head, dir, streamVars, serviceVars, branch, job, result, spoiled, stuck>>

\* The form of the application's page; the copy is left as it is.
ChangeBranch(b) ==
    /\ branch' = b
    /\ spoiled' = (spoiled \/ (b # branch /\ dir.git))
    /\ UNCHANGED <<head, dir, streamVars, serviceVars, delivery, job, result, stuck>>

-----------------------------------------------------------------------------
(* The job: runJob, Execute and, inside it, Sync *)

\* One step of the pipeline, and what no such step touches.
JobMoves(from, to) ==
    /\ job.at = from
    /\ job' = [job EXCEPT !.at = to]
    /\ UNCHANGED <<head, stream, branch, delivery, stuck>>

BeginRun(d) ==
    /\ job.at = "idle"
    /\ Engine!Begin(d)
    /\ Say(d)
    /\ job' = [of |-> d, at |-> "stat", branch |-> branch]
    /\ UNCHANGED <<head, dir, stream, branch, delivery, result, spoiled, stuck>>

\* Whatever goes wrong, Execute returns an error.  A context that is cancelled,
\* or a timeout, kills the git that runs.
Quiet == UNCHANGED <<log, serviceVars, result>>

StatFindsCopy ==
    /\ dir.git
    /\ JobMoves("stat", "fetch")
    /\ UNCHANGED <<dir, spoiled>> /\ Quiet

StatFindsNone ==
    /\ ~dir.git
    /\ JobMoves("stat", "fresh")
    /\ RemoveAll
    /\ UNCHANGED spoiled /\ Quiet

FetchSucceeds ==
    /\ JobMoves("fetch", "reset")
    /\ Fetch(job.branch)
    /\ UNCHANGED spoiled /\ Quiet

FetchFails ==
    /\ JobMoves("fetch", "fresh")
    /\ RemoveAll
    /\ spoiled' = FALSE
    /\ Quiet

CloneStarts ==
    /\ JobMoves("fresh", "cloning")
    /\ CloneBegins
    /\ spoiled' = FALSE /\ Quiet

\* The branch that the copy now follows may be one that is not configured any more.
CloneIsAnswered ==
    /\ JobMoves("cloning", "fetched")
    /\ CloneFetches(job.branch)
    /\ spoiled' = (job.branch # branch)
    /\ Quiet

CloneSucceeds ==
    /\ JobMoves("fetched", "build")
    /\ CloneChecksOut
    /\ Say(job.of)
    /\ UNCHANGED <<serviceVars, result, spoiled>>

\* Git does not start, or fails and takes its directory away.
CloneFails ==
    /\ \E at \in {"fresh", "cloning", "fetched"} : JobMoves(at, "ended")
    /\ RemoveAll
    /\ spoiled' = FALSE
    /\ Quiet

GitIsKilled ==
    /\ \E at \in {"cloning", "fetched", "reset"} : JobMoves(at, "ended")
    /\ Killed
    /\ spoiled' = TRUE
    /\ Quiet

ResetSucceeds ==
    /\ JobMoves("reset", "build")
    /\ Reset(job.branch)
    /\ Say(job.of)
    /\ UNCHANGED <<serviceVars, result, spoiled>>

ResetIsRefused ==
    /\ JobMoves("reset", "ended")
    /\ ResetFails(job.branch)
    /\ UNCHANGED spoiled /\ Quiet

\* Mutant of BuildAndDeploy: the commit that the delivery names is built.
BuildWhatIsNamed ==
    /\ JobMoves("build", "ended")
    /\ result' = [result EXCEPT ![job.of] = [branch |-> dir.tracks,
                                            commit |-> delivery[job.of].push]]
    /\ UNCHANGED <<dir, log, serviceVars, spoiled>>

\* The image is made from the working tree, and its container takes over.
BuildAndDeploy ==
    /\ JobMoves("build", "ended")
    /\ result' = [result EXCEPT ![job.of] = [branch |-> dir.tracks, commit |-> dir.tree]]
    /\ UNCHANGED <<dir, log, serviceVars, spoiled>>

BuildOrDeployFails ==
    /\ JobMoves("build", "ended")
    /\ UNCHANGED <<dir, spoiled>> /\ Quiet

\* The last line of the log; then runJob gives the application's mutex back.
EndRun ==
    /\ job.at = "ended"
    /\ Engine!Finish(job.of)
    /\ Say(job.of)
    /\ job' = NoJob
    /\ UNCHANGED <<head, dir, stream, branch, delivery, result, spoiled, stuck>>

SyncStep ==
    \/ StatFindsCopy \/ StatFindsNone \/ FetchSucceeds \/ FetchFails
    \/ CloneStarts \/ CloneIsAnswered \/ CloneSucceeds \/ CloneFails
    \/ GitIsKilled \/ ResetSucceeds \/ ResetIsRefused

\* The process dies, and git with it.  A record of a deployment that was waiting
\* or running is on file, and the next process takes it for active; of one that
\* was ending, the last save was made or not.
Crash ==
    /\ Engine!Lose
    /\ \A d \in Deliveries : stage'[d] = "lost" => stage[d] # "none"
    /\ \E saved \in BOOLEAN :
          stuck' = {d \in Deliveries : Active(d) \/ (job.of = d /\ ~saved)}
    /\ job' = NoJob
    /\ IF job.at \in {"cloning", "fetched", "reset"}
       THEN Killed /\ spoiled' = TRUE
       ELSE UNCHANGED <<dir, spoiled>>
    /\ stream' = [s \in Streams |-> NoStream]
    /\ UNCHANGED <<head, log, branch, delivery, result>>

-----------------------------------------------------------------------------
(* The readers *)

Others == UNCHANGED <<head, dir, serviceVars, branch, delivery, job, result, spoiled, stuck>>

OpenStream(s, d) == d \in Followed /\ stage[d] # "none" /\ Open(s, d, Final(d)) /\ Others
ReadLog(s) == Read(s) /\ Others
AskStatus(s) == Ask(s, Final(stream[s].of)) /\ Others
CloseStream(s) == Close(s) /\ Others

Follow(s) == ReadLog(s) \/ AskStatus(s)

Next ==
    \/ \E b \in Branches : Push(b)
    \/ \E d \in Deliveries :
          \/ Send(d) \/ Receive(d) \/ Refuse(d) \/ BeginRun(d)
    \/ \E b \in Choices : ChangeBranch(b)
    \/ SyncStep
    \/ BuildAndDeploy \/ BuildOrDeployFails \/ EndRun
    \/ Crash
    \/ \E s \in Streams : (\E d \in Deliveries : OpenStream(s, d)) \/ Follow(s) \/ CloseStream(s)

\* Of the program only the stream's ticker is fair: nothing bounds the time
\* that a build takes, and git or the browser may do nothing at all.
Fairness == \A s \in Streams : WF_vars(Follow(s))

Spec == Init /\ [][Next]_vars /\ Fairness

-----------------------------------------------------------------------------
(* What the parts owe each other *)

\* A deployment that a push has caused and that succeeds has built that push or
\* a later one to the branch, whenever the delivery arrived and whatever was
\* fetched before it: Sync fetches after Enqueue, on every deployment.
PushIsCovered ==
    \A d \in Deliveries :
        result[d] # NoResult /\ result[d].branch = delivery[d].branch
        => result[d].commit >= delivery[d].push

\* Of two deployments that succeed the later one has not built an earlier
\* commit of the same branch, in whatever order the deliveries arrive.
NeverBackwards ==
    [][\A d, e \in Deliveries :
          result[d] # NoResult /\ result[e] # result'[e] /\ result'[e].branch = result[d].branch
          => result'[e].commit >= result[d].commit]_vars

\* A copy that no kill and no change of the branch has met can be deployed from
\* again: it follows the branch that the next Sync will reset to (pipeline.go
\* never removes it, so a copy that cannot be reset to anything stays for ever).
CopyStaysUsable ==
    dir.git /\ ~spoiled /\ job.at \in {"idle", "build", "ended"}
    /\ (branch = None => Main = Default)
    => dir.tracks = SyncBranch(branch) /\ dir.ref # None /\ ~dir.locked

Ended(s) == stream[s].at \in {"done", "closed"}

\* What a stream has sent is the log from its beginning on, each line once and
\* in order, although log and reader move at the same time.
StreamIsPrefix ==
    \A s \in Streams :
        /\ stream[s].sent = [i \in 1..Len(stream[s].sent) |-> i]
        /\ stream[s].of # Nothing => Len(stream[s].sent) <= log[stream[s].of]

\* A stream that stays open catches up with its log again and again, and ends
\* once the deployment has ended.
StreamsFollow ==
    \A s \in Streams :
        /\ []<>(Ended(s) \/ Len(stream[s].sent) = log[stream[s].of])
        /\ (stream[s].of # Nothing /\ Final(stream[s].of)) ~> Ended(s)

=============================================================================
