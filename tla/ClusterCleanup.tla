--------------------------- MODULE ClusterCleanup ----------------------------
(***************************************************************************)
(* The operator's clean-up commands beside running campaigns: run-cleanup  *)
(* (execution_utils/cli.py, cleanup_cluster_campaign), with or without     *)
(* --campaign and --data, and download-cleanup (bucket_ops).  They are     *)
(* host processes that talk to Kubernetes, Kueue and the storage one call  *)
(* at a time, while the batch runners of BatchRunner go on.                *)
(***************************************************************************)
EXTENDS BatchRunner

CONSTANTS
    Operators,  \* clean-up commands, each run once
    All,        \* the target of a command without --campaign
    Bucket,     \* the storage name of a campaign: its id, or that sanitized
    Sanitized   \* _bucket_name of the id

\* The names that stand for a campaign in list_campaigns.
StorageNames(c) == {Bucket[c], Sanitized[c]}

\* A label is a sanitized id cut to 63 characters, so that campaigns that meet
\* in a storage name meet in their label.
ASSUME StorageAssumption ==
    \A c, d \in Campaigns : Bucket[d] \in StorageNames(c) => Label[d] = Label[c]

VARIABLES
    op,       \* where each command is
    target,   \* the campaign it names, or All
    data,     \* it deletes storage too (--data)
    running,  \* the labels it found running jobs under
    stripped, \* history: jobs whose Kueue workload has lost its finalizers
    dead      \* history: campaigns that had no controller when their jobs went

operatorVars == <<op, target, data, running, stripped, dead>>
allVars == <<vars, operatorVars>>

OperatorStates == {"new", "hold", "workloads", "jobs", "finalizers", "pods",
                   "resume", "controllers", "count", "delete", "done", "error"}

OperatorTypeOK ==
    /\ op \in [Operators -> OperatorStates]
    /\ target \in [Operators -> Campaigns \cup {All}]
    /\ data \in [Operators -> BOOLEAN]
    /\ running \in [Operators -> SUBSET {Label[c] : c \in Campaigns}]
    /\ stripped \subseteq JobNames
    /\ dead \in [Operators -> SUBSET Campaigns]

CleanupTypeOK == TypeOK /\ OperatorTypeOK

CleanupInit ==
    /\ Init
    /\ op = [o \in Operators |-> "new"]
    /\ target \in [Operators -> Campaigns \cup {All}]
    /\ data \in [Operators -> BOOLEAN]
    /\ running = [o \in Operators |-> {}]
    /\ stripped = {}
    /\ dead = [o \in Operators |-> {}]

\* A label selector compares labels, not campaign ids.
Chosen(o, c) == target[o] = All \/ Label[c] = Label[target[o]]
ChosenJobs(o) == {n \in JobNames : Present(n) /\ Chosen(o, owner[n])}
ChosenPods(o) == {t \in pods : Chosen(o, t[1])}

\* The controller pod of the campaign is running its batches.
Live(c) == pc[c] \notin {"done", "raised", "stopped"}

Step(o, from, to) ==
    /\ op[o] = from
    /\ op' = [op EXCEPT ![o] = to]
    /\ UNCHANGED <<target, data>>

Command(o, from, to) == Step(o, from, to) /\ UNCHANGED <<running, stripped, dead>>

-----------------------------------------------------------------------------
(* run-cleanup.                                                            *)

\* A named campaign must have a job to be cleaned; with --data its storage is
\* deleted even so.
StartRunCleanup(o) ==
    /\ \/ /\ target[o] = All \/ ChosenJobs(o) # {}
          /\ Command(o, "new", "hold")
       \/ /\ target[o] # All /\ ChosenJobs(o) = {}
          /\ Command(o, "new", IF data[o] THEN "count" ELSE "error")
    /\ UNCHANGED vars

\* set_cluster_queue_stop_policy("Hold"); a failed patch is only logged.
HoldQueue(o) ==
    /\ Command(o, "hold", "workloads")
    /\ held' \in {held, TRUE}
    /\ UNCHANGED <<status, owner, pods, results, ended, runnerVars>>

\* cleanup_kueue_workloads: Kueue suspends some of the admitted jobs whose
\* workload is gone.  The second half goes through all that is left in the queue,
\* whoever it belongs to, and takes the finalizers off, as far as the patch calls
\* succeed; a named campaign without a job gets nothing done.
DeleteWorkloads(o) ==
    /\ Step(o, "workloads", "jobs")
    /\ UNCHANGED <<running, dead>>
    /\ \E patched \in SUBSET {n \in JobNames : Present(n)} :
         /\ target[o] # All /\ ChosenJobs(o) = {} => patched = {}
         /\ stripped' = stripped \cup patched
    /\ \E taken \in SUBSET {n \in ChosenJobs(o) : status[n] = "active"} :
         /\ status' = [n \in JobNames |-> IF n \in taken THEN "suspended" ELSE status[n]]
         /\ pods' = pods \ {TaskOf(n) : n \in taken}
    /\ UNCHANGED <<owner, results, ended, held, runnerVars>>

\* Mutant: only finished jobs are deleted.
DeleteFinishedJobs(o) ==
    /\ Step(o, "jobs", "finalizers")
    /\ status' = [n \in JobNames |->
                    IF n \in ChosenJobs(o) /\ status[n] \in {"complete", "failed"}
                      THEN "absent" ELSE status[n]]
    /\ dead' = [dead EXCEPT ![o] = {c \in Campaigns : Chosen(o, c) /\ ~Live(c)}]
    /\ UNCHANGED <<running, stripped, owner, pods, results, ended, held, runnerVars>>

\* Foreground propagation: a job whose pod runs stays until the pod is gone.
DeleteJobs(o) ==
    /\ Step(o, "jobs", "finalizers")
    /\ status' = [n \in JobNames |->
                    IF n \notin ChosenJobs(o) THEN status[n]
                    ELSE IF TaskOf(n) \in pods THEN "terminating" ELSE "absent"]
    /\ dead' = [dead EXCEPT ![o] = {c \in Campaigns : Chosen(o, c) /\ ~Live(c)}]
    /\ UNCHANGED <<running, stripped, owner, pods, results, ended, held, runnerVars>>

\* Jobs that are still terminating lose their finalizers, as far as the patch
\* calls succeed, and are gone with their pods still there.
ClearFinalizers(o) ==
    /\ Command(o, "finalizers", "pods")
    /\ \E cleared \in SUBSET {n \in ChosenJobs(o) : status[n] = "terminating"} :
         RemoveJobs(cleared)
    /\ UNCHANGED <<owner, pods, results, ended, held, runnerVars>>

\* Mutant: the label of the campaign is left out of the selector.
DeleteAllPods(o) ==
    /\ Command(o, "pods", "resume")
    /\ pods' = {}
    /\ status' = [n \in JobNames |->
                    IF status[n] = "active" THEN "failed" ELSE status[n]]
    /\ UNCHANGED <<owner, results, ended, held, runnerVars>>

\* The pods of the label, whatever became of their jobs; a job that a runner
\* created in the meantime fails with its pod.
DeletePods(o) ==
    /\ Command(o, "pods", "resume")
    /\ pods' = pods \ ChosenPods(o)
    /\ status' = [n \in JobNames |->
                    IF n \in ChosenJobs(o) /\ TaskOf(n) \in pods /\ status[n] = "active"
                      THEN "failed" ELSE status[n]]
    /\ UNCHANGED <<owner, results, ended, held, runnerVars>>

\* The access check, deleting workloads, jobs or pods, or listing the storage raises:
\* the command ends there.
CallFails(o) ==
    /\ \E from \in {"new", "workloads", "jobs", "pods", "count", "delete"} : Command(o, from, "error")
    /\ UNCHANGED vars

\* A failed patch is only logged here too.
ResumeQueue(o) ==
    /\ Command(o, "resume", "controllers")
    /\ held' \in {held, FALSE}
    /\ UNCHANGED <<status, owner, pods, results, ended, runnerVars>>

\* Mutant: the selector of cleanup_controller_pods without the campaign.
DeleteEveryController(o) ==
    /\ Command(o, "controllers", IF data[o] THEN "count" ELSE "done")
    /\ pc' = [c \in Campaigns |-> IF Live(c) THEN "stopped" ELSE pc[c]]
    /\ UNCHANGED <<clusterVars, batch, next, remaining, root>>

\* cleanup_controller_pods, best effort.
DeleteControllers(o) ==
    /\ Command(o, "controllers", IF data[o] THEN "count" ELSE "done")
    /\ \/ pc' = [c \in Campaigns |->
                   IF Chosen(o, c) /\ Live(c) THEN "stopped" ELSE pc[c]]
       \/ UNCHANGED pc
    /\ UNCHANGED <<clusterVars, batch, next, remaining, root>>

-----------------------------------------------------------------------------
(* download-cleanup, and the second half of run-cleanup --data.            *)

StartDownloadCleanup(o) ==
    /\ data[o]
    /\ Command(o, "new", "count")
    /\ UNCHANGED vars

\* get_cluster_job_counts_per_campaign: labels with running or pending jobs.
\* With --campaign a failed count is ignored.
CountJobs(o) ==
    /\ Step(o, "count", "delete")
    /\ LET busy == {Label[owner[n]] : n \in {m \in JobNames :
                      status[m] \in {"suspended", "active", "terminating"}}}
       IN  \E found \in IF target[o] = All THEN {busy} ELSE {busy, {}} :
             running' = [running EXCEPT ![o] = found]
    /\ UNCHANGED <<stripped, dead, vars>>

\* The storage names a command deletes: all, or those of the campaign it names,
\* but for those it found running.
Doomed(o) ==
    (IF target[o] = All THEN {Bucket[c] : c \in Campaigns}
                        ELSE StorageNames(target[o])) \ running[o]

\* cleanup_campaigns: every object under such a name goes, whichever campaign put
\* it there, the bucket itself last.  A deletion that fails is logged; what it
\* has deleted by then is gone.
DeleteData(o) ==
    /\ Command(o, "delete", "done")
    /\ \E gone \in SUBSET {t \in results : Bucket[t[1]] \in Doomed(o)} :
         results' = results \ gone
    /\ UNCHANGED <<status, owner, pods, ended, held, runnerVars>>

-----------------------------------------------------------------------------
(* What Kubernetes does with what the commands leave.                      *)

\* The pod of a job being deleted is gone, and the job with it.
TerminationEnds(n) ==
    /\ status[n] = "terminating"
    /\ RemoveJobs({n})
    /\ pods' = pods \ {TaskOf(n)}
    /\ UNCHANGED <<owner, results, ended, held>>

\* A pod without a job is collected, or uploads and ends before that.
OrphanEnds(t) ==
    /\ t \in pods
    /\ ~Present(JobName(t))
    /\ pods' = pods \ {t}
    /\ \/ UNCHANGED <<results, ended>>
       \/ /\ results' = results \cup {t}
          /\ ended' = ended \cup {t}
    /\ UNCHANGED <<status, owner, held>>

OperatorStep(o) ==
    \/ StartRunCleanup(o) \/ HoldQueue(o) \/ DeleteWorkloads(o) \/ DeleteJobs(o)
    \/ ClearFinalizers(o) \/ DeletePods(o) \/ CallFails(o) \/ ResumeQueue(o)
    \/ DeleteControllers(o) \/ StartDownloadCleanup(o) \/ CountJobs(o)
    \/ DeleteData(o)

LeftoverStep ==
    /\ (\E n \in JobNames : TerminationEnds(n)) \/ (\E t \in Tasks : OrphanEnds(t))
    /\ UNCHANGED <<runnerVars, operatorVars>>

CleanupNext ==
    \/ Next /\ UNCHANGED operatorVars
    \/ \E o \in Operators : OperatorStep(o)
    \/ LeftoverStep

CleanupSpec == CleanupInit /\ [][CleanupNext]_allVars

-----------------------------------------------------------------------------
(* What holds of the commands.                                             *)

Untouched(c) == \A o \in Operators : ~Chosen(o, c)

\* A command with --campaign leaves the jobs, pods, controllers and results of
\* every campaign with another label alone, although it finds them by label, by
\* controller name and by two storage names (label selectors,
\* cleanup_controller_pods, cleanup_campaigns).  The finalizers of their Kueue
\* workloads it does not leave alone: OthersWorkloadsKept.
SparesOthers ==
    [][\A o \in Operators, c \in Campaigns :
         op'[o] # op[o] /\ ~Chosen(o, c) =>
           /\ pc'[c] = pc[c]
           /\ \A n \in JobNames : owner[n] = c => status'[n] = status[n]
           /\ \A t \in Tasks : t[1] = c => (t \in pods <=> t \in pods')
                                        /\ (t \in results <=> t \in results')]_allVars

\* A campaign nobody cleans collects only what has ended, whatever happens to
\* the queue and to the jobs around it.
OthersCollectAfterEnd ==
    \A c \in Campaigns :
      Untouched(c) /\ Collecting(c) => BatchTasks(c) \subseteq ended

\* Jobs a dead controller left behind are gone for good once run-cleanup has
\* deleted them: nothing brings them back.
DeadStaysClean ==
    \A o \in Operators : \A c \in dead[o] : \A n \in JobNames :
      owner[n] = c => status[n] \in {"absent", "terminating"}

-----------------------------------------------------------------------------
(* What the words say and the code does not do: TLC finds these violated.  *)

\* A command that ran to its end leaves no job of its target that may still
\* produce results.
NothingLeft ==
    \A o \in Operators :
      op[o] = "done" /\ ~data[o]
        => \A n \in ChosenJobs(o) : status[n] \notin {"suspended", "active"}

\* cluster_execution.py:63: "If campaign is given, removes only resources for that
\* run".  The finalizers of every workload in the queue are removed.
OthersWorkloadsKept ==
    [][\A n \in stripped' \ stripped :
         \E o \in Operators : Chosen(o, owner[n]) /\ op'[o] # op[o]]_allVars

\* A command that has ended has given the queue back.
QueueReopened ==
    (\A o \in Operators : op[o] \in {"new", "done", "error"}) => ~held

\* The results of a campaign that still runs are not deleted.
LiveDataKept ==
    [][\A t \in results : Live(t[1]) => t \in results']_allVars
=============================================================================
