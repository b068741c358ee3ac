---------------------------- MODULE BatchRunner -----------------------------
(***************************************************************************)
(* BatchJobRunner.run_batch_in_pod (cluster_execution/kubernetes_backend): *)
(* stage a batch, create its jobs one by one, poll them one by one until   *)
(* none is left, fetch the results, delete the jobs.  Each campaign has a  *)
(* controller pod of its own, so the runners of several campaigns          *)
(* interleave on one cluster, and each runs its batches in sequence.       *)
(***************************************************************************)
EXTENDS ScenarioJobs

CONSTANT
    TimeLimited   \* the campaigns with an execution.timeout; it is optional

ASSUME TimeLimitAssumption == TimeLimited \subseteq Campaigns

VARIABLES
    pc,         \* where the runner of each campaign is
    batch,      \* the batch it is on
    next,       \* index of the job to create or to read next
    remaining,  \* jobs the current poll found running (`remaining')
    root        \* tasks whose results are under the campaign root

runnerVars == <<pc, batch, next, remaining, root>>
vars == <<clusterVars, runnerVars>>

\* "stopped": the controller pod was removed from outside.
RunnerStates == {"stage", "create", "poll", "collect", "cleanJobs", "cleanPods",
                 "done", "raised", "stopped"}

RunnerTypeOK ==
    /\ pc \in [Campaigns -> RunnerStates]
    /\ batch \in [Campaigns -> Batches]
    /\ next \in [Campaigns -> 0 .. Width]
    /\ remaining \in [Campaigns -> SUBSET Indices]
    /\ root \subseteq Tasks

TypeOK == ClusterTypeOK /\ RunnerTypeOK

RunnerInit ==
    /\ pc = [c \in Campaigns |-> "stage"]
    /\ batch = [c \in Campaigns |-> 0]
    /\ next = [c \in Campaigns |-> 0]
    /\ remaining = [c \in Campaigns |-> {}]
    /\ root = {}

Init == ClusterInit /\ RunnerInit

Task(c, i) == <<c, batch[c], i>>
BatchTasks(c) == {Task(c, i) : i \in Indices}

Go(c, from, to) ==
    /\ pc[c] = from
    /\ pc' = [pc EXCEPT ![c] = to]

-----------------------------------------------------------------------------
(* One batch.                                                              *)

\* The config tree and the parameter files are written and uploaded.
StageBatch(c) ==
    /\ Go(c, "stage", "create")
    /\ next' = [next EXCEPT ![c] = 0]
    /\ UNCHANGED <<clusterVars, batch, remaining, root>>

\* create_namespaced_job.  A job of that name that is there already is taken
\* for the batch's own (409).
CreateJob(c) ==
    LET n == JobName(Task(c, next[c])) IN
    /\ pc[c] = "create"
    /\ next[c] < Width
    /\ IF Present(n)
         THEN UNCHANGED <<status, owner>>
         ELSE /\ status' = [status EXCEPT ![n] = "suspended"]
              /\ owner' = [owner EXCEPT ![n] = c]
    /\ next' = [next EXCEPT ![c] = @ + 1]
    /\ UNCHANGED <<pods, results, ended, held, pc, batch, remaining, root>>

BeginPoll(c) ==
    /\ pc[c] = "create"
    /\ next[c] = Width
    /\ pc' = [pc EXCEPT ![c] = "poll"]
    /\ next' = [next EXCEPT ![c] = 0]
    /\ remaining' = [remaining EXCEPT ![c] = {}]
    /\ UNCHANGED <<clusterVars, batch, root>>

\* Mutant: a job that has not started yet (no active pod) counts as finished.
StillRunningIfActive(n) == status[n] = "active"

\* Mutant: 404 does not count as finished.
StillRunningIfGone(n) ==
    status[n] \in {"absent", "suspended", "active", "terminating"}

\* get_remaining_jobs: a job that is not there any more has finished; one that
\* neither completed nor failed is running, whether or not it has a pod.
StillRunning(n) == status[n] \in {"suspended", "active", "terminating"}

\* One read_namespaced_job_status of a poll.
ReadStatus(c) ==
    /\ pc[c] = "poll"
    /\ next[c] < Width
    /\ remaining' = IF StillRunning(JobName(Task(c, next[c])))
                      THEN [remaining EXCEPT ![c] = @ \cup {next[c]}]
                      ELSE remaining
    /\ next' = [next EXCEPT ![c] = @ + 1]
    /\ UNCHANGED <<clusterVars, pc, batch, root>>

\* `remaining' is not empty: sleep, then poll every job again.
PollAgain(c) ==
    /\ pc[c] = "poll"
    /\ next[c] = Width
    /\ remaining[c] # {}
    /\ next' = [next EXCEPT ![c] = 0]
    /\ remaining' = [remaining EXCEPT ![c] = {}]
    /\ UNCHANGED <<clusterVars, pc, batch, root>>

AllFinished(c) ==
    /\ next[c] = Width
    /\ remaining[c] = {}
    /\ Go(c, "poll", "collect")
    /\ UNCHANGED <<clusterVars, batch, next, remaining, root>>

\* download_prefix of every config of the batch, then the job links.
Collect(c) ==
    /\ Go(c, "collect", "cleanJobs")
    /\ root' = root \cup (results \cap BatchTasks(c))
    /\ UNCHANGED <<clusterVars, batch, next, remaining>>

\* Mutant: the clean-up that is meant for all campaigns.
CleanAllJobs(c) ==
    /\ Go(c, "cleanJobs", "cleanPods")
    /\ RemoveJobs(JobNames)
    /\ UNCHANGED <<owner, pods, results, ended, held, batch, next, remaining, root>>

\* cleanup_jobs: by label, Background propagation.
CleanJobs(c) ==
    /\ Go(c, "cleanJobs", "cleanPods")
    /\ RemoveJobs(Labelled(Label[c]))
    /\ UNCHANGED <<owner, pods, results, ended, held, batch, next, remaining, root>>

\* The API error is logged and the batch goes on.
CleanJobsFails(c) ==
    /\ Go(c, "cleanJobs", "cleanPods")
    /\ UNCHANGED <<clusterVars, batch, next, remaining, root>>

\* The campaign has another batch, or it has none: the caller decides.
AfterBatch(c) ==
    \/ /\ pc' = [pc EXCEPT ![c] = "done"]
       /\ UNCHANGED batch
    \/ /\ batch[c] + 1 < MaxBatches
       /\ pc' = [pc EXCEPT ![c] = "stage"]
       /\ batch' = [batch EXCEPT ![c] = @ + 1]

\* cleanup_pods, whose API error is logged too.
CleanPods(c) ==
    /\ pc[c] = "cleanPods"
    /\ pods' \in {pods, pods \ PodsLabelled(Label[c])}
    /\ AfterBatch(c)
    /\ UNCHANGED <<status, owner, results, ended, held, next, remaining, root>>

\* Storage and API calls raise; nothing of the batch is cleaned up.
Raise(c) ==
    /\ pc[c] \in {"stage", "create", "poll", "collect"}
    /\ pc' = [pc EXCEPT ![c] = "raised"]
    /\ UNCHANGED <<clusterVars, batch, next, remaining, root>>

RunBatchInPod(c) ==
    \/ StageBatch(c) \/ CreateJob(c) \/ BeginPoll(c) \/ ReadStatus(c)
    \/ PollAgain(c) \/ AllFinished(c) \/ Collect(c)
    \/ CleanJobs(c) \/ CleanJobsFails(c) \/ CleanPods(c)

EnvironmentStep == \E n \in JobNames : JobStep(n) /\ UNCHANGED runnerVars

Next ==
    \/ \E c \in Campaigns : RunBatchInPod(c) \/ Raise(c)
    \/ EnvironmentStep

SafetySpec == Init /\ [][Next]_vars

Bounded(n) == owner[n] \in TimeLimited

\* Pods that nothing ends if their scenario does not: they may keep their share
\* of the queue's quota for good.
NoHog == \A t \in pods : t[1] \in TimeLimited

\* The runner's thread runs.  The pod of a campaign with a time limit ends
\* (activeDeadlineSeconds is set `if timeout'); nothing is assumed of the others.
\* A queue with quota to give admits each job in the end and does not take the
\* same job back for ever.  Kubernetes removes an ended job.
Spec ==
    /\ SafetySpec
    /\ \A c \in Campaigns : WF_vars(RunBatchInPod(c))
    /\ \A n \in JobNames :
         /\ WF_vars(Admit(n) /\ NoHog /\ UNCHANGED runnerVars)
         /\ SF_vars((Complete(n) \/ Fail(n)) /\ Bounded(n) /\ UNCHANGED runnerVars)
         /\ WF_vars(Expire(n) /\ UNCHANGED runnerVars)

-----------------------------------------------------------------------------
(* What a batch promises.                                                  *)

\* Conditions on the campaign ids that run side by side.
NamesDistinct == \A c, d \in Campaigns : NameKey[c] = NameKey[d] => c = d
LabelsDistinct == \A c, d \in Campaigns : Label[c] = Label[d] => c = d

Collecting(c) == pc[c] \in {"collect", "cleanJobs", "cleanPods"}

\* The results of a batch are fetched only after the pod of each of its jobs
\* has run to its end, although the jobs are read one at a time, may wait in
\* the queue, be preempted, or be gone when they are read
\* (run_batch_in_pod, get_remaining_jobs).
CollectsAfterEnd ==
    \A c \in Campaigns : Collecting(c) => BatchTasks(c) \subseteq ended

\* Every result that the batches before the current one delivered has reached
\* the campaign root, and no task has lost its turn.
EarlierBatchesCollected ==
    \A t \in Tasks :
      t[2] < batch[t[1]] => /\ t \in ended
                            /\ t \in results => t \in root

\* A pod leaves the cluster by its own end or by the queue, never because a
\* runner cleaned up: the clean-up of one campaign does not reach into another
\* (cleanup_jobs, cleanup_pods).
CleanupSparesRunning ==
    [][\A c \in Campaigns :
         (pc[c] \in {"cleanJobs", "cleanPods"} /\ pc'[c] # pc[c])
           => /\ pods \subseteq pods'
              /\ \A n \in JobNames : status[n] \in {"suspended", "active"} => status'[n] = status[n]]_vars

\* A job of a campaign without a time limit that has not ended.
Lingering ==
    \E n \in JobNames : ~Bounded(n) /\ status[n] \in {"suspended", "active"}

\* Every runner comes to its end, unless from some time on the cluster always
\* has an unfinished job of a campaign without a time limit: no poll waits for a
\* job that is gone, and no other campaign's jobs, ended or preempted, keep a
\* runner (run_batch_in_pod, get_remaining_jobs).
RunnersEnd ==
    \A c \in Campaigns : <>(pc[c] \in {"done", "raised"}) \/ <>[]Lingering
=============================================================================
