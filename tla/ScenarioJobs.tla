---------------------------- MODULE ScenarioJobs ----------------------------
(***************************************************************************)
(* The scenario jobs of a cluster: what the job template of                *)
(* cluster_execution/manifests.py (no retries, removed a minute after its  *)
(* end), the Kueue queue and the result upload at the end of a job's pod   *)
(* make of a job once a controller has created it.  Kubernetes and Kueue   *)
(* are external: only what the runner and the clean-up commands read or    *)
(* write of them is here.                                                  *)
(*                                                                         *)
(* A task is one packed job of one batch of one campaign.  Its job object  *)
(* has a name, made from a key of the campaign (six letters and a time),   *)
(* the batch tag and the index, and a label, made from the campaign id.    *)
(* Neither is the campaign id itself: two campaigns may share either.      *)
(***************************************************************************)
EXTENDS Naturals, FiniteSets

CONSTANTS
    Campaigns,   \* the campaigns running side by side
    MaxBatches,  \* bound: batches per campaign
    Width,       \* packed jobs per batch
    NameKey,     \* the part of a job name that stands for a campaign
    Label        \* _label_safe_campaign of a campaign

ASSUME BatchesAssumption == MaxBatches \in Nat \ {0}
ASSUME WidthAssumption == Width \in Nat \ {0}

Batches == 0 .. MaxBatches - 1
Indices == 0 .. Width - 1
Tasks == Campaigns \X Batches \X Indices

\* _short_job_name: two tasks of one campaign never share a name.
JobName(t) == <<NameKey[t[1]], t[2], t[3]>>
JobNames == {JobName(t) : t \in Tasks}

VARIABLES
    status,   \* the job object of each name
    owner,    \* the campaign whose runner created the job last
    pods,     \* tasks with a pod that is still running
    results,  \* tasks whose results are in the storage
    ended,    \* history: tasks whose pod ran to its end
    held      \* the ClusterQueue admits nothing (stopPolicy Hold)

clusterVars == <<status, owner, pods, results, ended, held>>

\* "terminating": deleted with Foreground propagation, its pod not yet gone.
JobStatus ==
    {"absent", "suspended", "active", "complete", "failed", "terminating"}

ClusterTypeOK ==
    /\ status \in [JobNames -> JobStatus]
    /\ owner \in [JobNames -> Campaigns]
    /\ pods \subseteq Tasks
    /\ results \subseteq Tasks
    /\ ended \subseteq Tasks
    /\ held \in BOOLEAN

ClusterInit ==
    /\ status = [n \in JobNames |-> "absent"]
    /\ owner \in [JobNames -> Campaigns]
    /\ \A n \in JobNames : NameKey[owner[n]] = n[1]
    /\ pods = {}
    /\ results = {}
    /\ ended = {}
    /\ held = FALSE

Present(n) == status[n] # "absent"
TaskOf(n) == <<owner[n], n[2], n[3]>>
Labelled(label) == {n \in JobNames : Present(n) /\ Label[owner[n]] = label}
PodsLabelled(label) == {t \in pods : Label[t[1]] = label}

\* One API call that deletes the job objects ns at once; their pods are
\* collected later.
RemoveJobs(ns) ==
    status' = [n \in JobNames |-> IF n \in ns THEN "absent" ELSE status[n]]

-----------------------------------------------------------------------------
(* What happens to a job once it exists.                                   *)

\* Kueue admits the workload of a suspended job and its pod starts.
Admit(n) ==
    /\ status[n] = "suspended"
    /\ ~held
    /\ status' = [status EXCEPT ![n] = "active"]
    /\ pods' = pods \cup {TaskOf(n)}
    /\ UNCHANGED <<owner, results, ended, held>>

\* Kueue takes an admitted job back: its pod goes, the job waits again.
Preempt(n) ==
    /\ status[n] = "active"
    /\ status' = [status EXCEPT ![n] = "suspended"]
    /\ pods' = pods \ {TaskOf(n)}
    /\ UNCHANGED <<owner, results, ended, held>>

\* The pod uploads what it produced and exits 0.
Complete(n) ==
    /\ status[n] = "active"
    /\ status' = [status EXCEPT ![n] = "complete"]
    /\ pods' = pods \ {TaskOf(n)}
    /\ ended' = ended \cup {TaskOf(n)}
    /\ results' = results \cup {TaskOf(n)}
    /\ UNCHANGED <<owner, held>>

\* The pod fails or, where the campaign has a time limit, meets
\* activeDeadlineSeconds; there is no second attempt.
\* It may have uploaded its results or not.
Fail(n) ==
    /\ status[n] = "active"
    /\ status' = [status EXCEPT ![n] = "failed"]
    /\ pods' = pods \ {TaskOf(n)}
    /\ ended' = ended \cup {TaskOf(n)}
    /\ results' \in {results, results \cup {TaskOf(n)}}
    /\ UNCHANGED <<owner, held>>

\* ttlSecondsAfterFinished.
Expire(n) ==
    /\ status[n] \in {"complete", "failed"}
    /\ RemoveJobs({n})
    /\ UNCHANGED <<owner, pods, results, ended, held>>

JobStep(n) == Admit(n) \/ Preempt(n) \/ Complete(n) \/ Fail(n) \/ Expire(n)
=============================================================================
