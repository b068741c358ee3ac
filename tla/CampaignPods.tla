---------------------------- MODULE CampaignPods -----------------------------
(***************************************************************************)
(* The controller pods of several campaigns, seen from the hosts of their  *)
(* users: launch_controller with its reaping of finished pods, the monitor *)
(* with its Kubernetes-only fallback, and the stop and upload-to-share     *)
(* commands (cluster_execution/controller_launcher.py, control_client.py,  *)
(* execution_utils/cli.py).                                                *)
(*                                                                         *)
(* What happens inside a controller is the module Controller: here it is   *)
(* the order of the phases it reports.  A kubectl call takes effect and    *)
(* returns, or fails without effect.                                       *)
(***************************************************************************)
EXTENDS Naturals

CONSTANTS
    Campaigns,   \* campaigns launched, one pod each
    Sidecars,    \* those whose variations add an auxiliary container
    MaxOutages   \* bound: times the API server cannot be reached

ASSUME SidecarsAssumption == Sidecars \subseteq Campaigns
ASSUME OutagesAssumption == MaxOutages \in Nat

VARIABLES
    launcher,  \* where the launching process of each campaign is
    listed,    \* finished pods its reaping still has to delete
    pod,       \* the pod's phase in Kubernetes, "absent" without one, "Ended" for
               \* Succeeded and Failed, which nothing here tells apart
    staged,    \* what the launcher has copied into the pod
    stage,     \* what the controller process is doing
    served,    \* campaigns whose control server came up
    jobs,      \* "some" scenario job is unfinished, or "none"
    api,       \* the API server can be reached
    outages,   \* times it could not
    mon,       \* where the monitor is
    channels,  \* pods it has opened a port-forward to (`channels')
    tunnels,   \* port-forwards that still work
    seen,      \* pods its last listing showed neither ended nor missing
    todo,      \* pods it still has to ask in this tick
    done,      \* pods it counts as ended (`done')
    lastJobs   \* the same, at the fallback's last reading (`last_per_run')

launchVars == <<launcher, listed>>
podVars == <<pod, staged, stage, served, jobs>>
apiVars == <<api, outages>>
monitorVars == <<mon, channels, tunnels, seen, todo, done, lastJobs>>
vars == <<launchVars, podVars, apiVars, monitorVars>>

LauncherStates == {"new", "reap", "wait", "inputs", "script", "start", "started",
                   "deleting", "raised", "undeleted", "interrupted"}
Staged == {"inputs", "script", "sentinel"}
\* "sentinel": the entry point polls for the start file; "over": no process.
ControllerStages == {"sentinel", "starting", "running", "finished", "failed",
                     "uploading", "parked", "over"}
MonitorStates == {"off", "tick", "poll", "jobs", "reported", "finished", "jobsFinished"}

PodsTypeOK ==
    /\ launcher \in [Campaigns -> LauncherStates]
    /\ listed \in [Campaigns -> SUBSET Campaigns]
    /\ pod \in [Campaigns -> {"absent", "Pending", "Running", "Ended"}]
    /\ staged \in [Campaigns -> SUBSET Staged]
    /\ stage \in [Campaigns -> ControllerStages]
    /\ served \subseteq Campaigns
    /\ jobs \in {"some", "none"}
    /\ api \in BOOLEAN
    /\ outages \in 0 .. MaxOutages
    /\ mon \in MonitorStates
    /\ tunnels \subseteq channels /\ channels \subseteq Campaigns
    /\ seen \subseteq Campaigns
    /\ todo \subseteq channels
    /\ done \subseteq channels
    /\ lastJobs \in {"unread", "some", "none"}

Init ==
    /\ launcher = [c \in Campaigns |-> "new"]
    /\ listed = [c \in Campaigns |-> {}]
    /\ pod = [c \in Campaigns |-> "absent"]
    /\ staged = [c \in Campaigns |-> {}]
    /\ stage = [c \in Campaigns |-> "over"]
    /\ served = {}
    /\ jobs = "none"
    /\ api = TRUE /\ outages = 0
    /\ mon = "off"
    /\ channels = {} /\ tunnels = {} /\ seen = {} /\ todo = {} /\ done = {}
    /\ lastJobs = "unread"

Live(c) == pod[c] \in {"Pending", "Running"}

\* kubectl delete pod --grace-period=0: the process dies with the pod; its
\* scenario jobs stay.
RemovePod(c) ==
    /\ pod' = [pod EXCEPT ![c] = "absent"]
    /\ stage' = [stage EXCEPT ![c] = "over"]
    /\ staged' = [staged EXCEPT ![c] = {}]
    /\ served' = served \ {c}
    /\ UNCHANGED jobs

Others == <<apiVars, monitorVars>>

-----------------------------------------------------------------------------
(* launch_controller.                                                      *)

Proceed(c, from, to) ==
    /\ launcher[c] = from
    /\ launcher' = [launcher EXCEPT ![c] = to]

\* The run command finds the project, the cluster or its storage not ready.
Refuse(c) ==
    /\ Proceed(c, "new", "raised")
    /\ UNCHANGED <<listed, podVars, Others>>

\* The campaign id is generated and the wheels are built; then the listing of
\* reap_orphaned_runs, which may fail: without one nothing is reaped.
ListFinished(c) ==
    /\ Proceed(c, "new", "reap")
    /\ \E found \in {{}, {d \in Campaigns : api /\ pod[d] = "Ended"}} :
         listed' = [listed EXCEPT ![c] = found]
    /\ UNCHANGED <<podVars, Others>>

\* ... and one delete per listed pod, best-effort (--ignore-not-found).
Reap(c) ==
    \E d \in listed[c] :
      /\ launcher[c] = "reap"
      /\ listed' = [listed EXCEPT ![c] = @ \ {d}]
      /\ (api /\ RemovePod(d)) \/ UNCHANGED podVars
      /\ UNCHANGED <<launcher, Others>>

\* kubectl apply, before the try block.
Apply(c) ==
    /\ api
    /\ listed[c] = {}
    /\ Proceed(c, "reap", "wait")
    /\ pod' = [pod EXCEPT ![c] = "Pending"]
    /\ stage' = [stage EXCEPT ![c] = "sentinel"]
    /\ UNCHANGED <<listed, staged, served, jobs, Others>>

ApplyFails(c) ==
    /\ listed[c] = {}
    /\ Proceed(c, "reap", "raised")
    /\ UNCHANGED <<listed, podVars, Others>>

\* kubectl wait --for=condition=Ready.
WaitReady(c) ==
    /\ api
    /\ pod[c] = "Running"
    /\ Proceed(c, "wait", "inputs")
    /\ UNCHANGED <<listed, podVars, Others>>

Copy(c, from, file, to) ==
    /\ api
    /\ pod[c] = "Running"
    /\ Proceed(c, from, to)
    /\ staged' = [staged EXCEPT ![c] = @ \cup {file}]
    /\ UNCHANGED <<listed, pod, stage, served, jobs, Others>>

\* The dev wheels and the campaign directory.
CopyInputs(c) == Copy(c, "inputs", "inputs", "script")

\* Mutant: the start file is there before the script is.
StartFirst(c) == Copy(c, "script", "sentinel", "start")

\* Mutant: the share is looked at outside the try block.
RefuseShareEarly(c) ==
    /\ Proceed(c, "script", "raised")
    /\ UNCHANGED <<listed, podVars, Others>>

\* _share_env_exports finds no destination, an unknown one or not all that it
\* needs; by then there is a pod.
RefuseShare(c) ==
    /\ Proceed(c, "script", "deleting")
    /\ UNCHANGED <<listed, podVars, Others>>

\* The settings of the share are part of the script.
CopyScript(c) == Copy(c, "script", "script", "start")

TouchSentinel(c) == Copy(c, "start", "sentinel", "started")

\* A kubectl call fails or times out, a file cannot be written: any Exception
\* after the pod has been created.
LaunchFails(c) ==
    /\ launcher[c] \in {"wait", "inputs", "script", "start"}
    /\ launcher' = [launcher EXCEPT ![c] = "deleting"]
    /\ UNCHANGED <<listed, podVars, Others>>

\* The except clause: the delete may fail as well, which is not checked.
DeletePod(c) ==
    /\ \/ api /\ Proceed(c, "deleting", "raised") /\ RemovePod(c)
       \/ Proceed(c, "deleting", "undeleted") /\ UNCHANGED podVars
    /\ UNCHANGED <<listed, Others>>

\* Ctrl+C is no Exception: the pod, if there is one, keeps waiting for its
\* start file.
Interrupt(c) ==
    /\ launcher[c] \notin {"new", "started", "raised", "undeleted", "interrupted"}
    /\ launcher' = [launcher EXCEPT ![c] = "interrupted"]
    /\ UNCHANGED <<listed, podVars, Others>>

LaunchStep(c) ==
    \/ Refuse(c) \/ ListFinished(c) \/ Reap(c)
    \/ Apply(c) \/ ApplyFails(c) \/ WaitReady(c)
    \/ CopyInputs(c) \/ RefuseShare(c) \/ CopyScript(c) \/ TouchSentinel(c)
    \/ LaunchFails(c) \/ DeletePod(c) \/ Interrupt(c)
-----------------------------------------------------------------------------
(* The pods and the controllers in them.                                   *)

Enter(c, p, st) ==
    /\ pod' = [pod EXCEPT ![c] = p]
    /\ stage' = [stage EXCEPT ![c] = st]
    /\ UNCHANGED <<launchVars, apiVars, monitorVars>>

\* The process ends.  A sidecar sleeps on, and Kubernetes goes on to call the
\* pod Running.
End(c) ==
    /\ Enter(c, IF c \in Sidecars THEN "Running" ELSE "Ended", "over")
    /\ staged' = [staged EXCEPT ![c] = {}]
    /\ served' = served \ {c}
    /\ UNCHANGED jobs

\* The scheduler and the kubelet start the container.
Schedule(c) ==
    /\ pod[c] = "Pending"
    /\ Enter(c, "Running", stage[c])
    /\ UNCHANGED <<staged, served, jobs>>

\* The entry point finds the start file and runs the script; the control server
\* comes up or does not.
StartController(c) ==
    /\ pod[c] = "Running"
    /\ stage[c] = "sentinel"
    /\ "sentinel" \in staged[c]
    /\ Enter(c, "Running", "starting")
    /\ served' \in {served, served \cup {c}}
    /\ UNCHANGED <<staged, jobs>>

\* The phases of a controller, in the order it goes through them.
Advance(c) ==
    /\ \/ stage[c] = "starting" /\ Enter(c, "Running", "running")
       \/ stage[c] = "running" /\ \E st \in {"finished", "failed"} : Enter(c, "Running", st)
       \/ stage[c] = "finished" /\ Enter(c, "Running", "uploading")
       \/ stage[c] = "uploading" /\ c \in served /\ Enter(c, "Running", "parked")
    /\ UNCHANGED <<staged, served, jobs>>

\* The start-up, the campaign, or an upload without a control server to wait
\* for has failed; or the upload has succeeded.
Exit(c) ==
    /\ stage[c] \in {"starting", "failed", "uploading"}
    /\ End(c)

\* stop and upload-to-share look a pod up, the newest Running one unless the
\* command names a campaign, and send their request through a port-forward of
\* their own.  By then any pod that was once the newest may be the one asked, and
\* the request matters here only to a parked controller: it gives up ...
Stop(c) ==
    /\ api /\ c \in served
    /\ stage[c] = "parked"
    /\ End(c)

\* ... or tries again.
UploadToShare(c) ==
    /\ api /\ c \in served
    /\ stage[c] = "parked"
    /\ Enter(c, "Running", "uploading")
    /\ UNCHANGED <<staged, served, jobs>>

\* A running campaign creates jobs, batch after batch.
CreateJobs(c) ==
    /\ stage[c] = "running"
    /\ jobs' = "some"
    /\ UNCHANGED <<launchVars, pod, staged, stage, served, Others>>

\* The jobs end by themselves, with or without their controller.
JobsEnd ==
    /\ jobs = "some"
    /\ jobs' = "none"
    /\ UNCHANGED <<launchVars, pod, staged, stage, served, Others>>

\* Eviction, a node that goes away, or a cleanup command.
LosePod(c) ==
    /\ pod[c] # "absent"
    /\ RemovePod(c)
    /\ UNCHANGED <<launchVars, Others>>

\* An outage breaks every port-forward; kubectl does not open it again.
LoseApi ==
    /\ api
    /\ outages < MaxOutages
    /\ api' = FALSE
    /\ outages' = outages + 1
    /\ tunnels' = {}
    /\ UNCHANGED <<launchVars, podVars, mon, channels, seen, todo, done,
                   lastJobs>>

RegainApi ==
    /\ ~api
    /\ api' = TRUE
    /\ UNCHANGED <<launchVars, podVars, outages, monitorVars>>

PodStep ==
    \E c \in Campaigns :
      \/ Schedule(c) \/ StartController(c) \/ Advance(c) \/ Exit(c) \/ Stop(c) \/ UploadToShare(c)
      \/ CreateJobs(c) \/ LosePod(c)

-----------------------------------------------------------------------------
(* monitor and _monitor_via_controller.                                    *)

NotMonitor == <<launchVars, podVars, apiVars>>

Listed == IF api THEN {c \in Campaigns : pod[c] # "absent"} ELSE {}
ListedRunning == {c \in Listed : pod[c] = "Running"}

\* _ensure_channels: a port-forward to a Running pod may fail.
Connect(new) ==
    /\ new \subseteq ListedRunning \ channels
    /\ channels' = channels \cup new
    /\ tunnels' = tunnels \cup new

\* No controller pod, or none that could be reached: the view of the jobs.
FallBack ==
    /\ mon = "off"
    /\ Listed = {} \/ ListedRunning # {}
    /\ mon' = "jobs"
    /\ UNCHANGED <<channels, tunnels, seen, todo, done, lastJobs, NotMonitor>>

\* There are pods and none of them is Running.
ReportFinished ==
    /\ mon = "off"
    /\ Listed # {} /\ ListedRunning = {}
    /\ mon' = "reported"
    /\ UNCHANGED <<channels, tunnels, seen, todo, done, lastJobs, NotMonitor>>

StartMonitoring ==
    /\ mon = "off"
    /\ \E new \in SUBSET ListedRunning : new # {} /\ Connect(new)
    /\ mon' = "tick"
    /\ UNCHANGED <<seen, todo, done, lastJobs, NotMonitor>>

\* The listing at the start of a tick; an empty one if kubectl fails.
Tick ==
    /\ mon = "tick"
    /\ mon' = "poll"
    /\ seen' = {c \in Listed : Live(c)}
    /\ \E new \in SUBSET ListedRunning : Connect(new)
    /\ todo' = channels'
    /\ UNCHANGED <<done, lastJobs, NotMonitor>>

\* GET /status through the port-forward.
Answers(c) ==
    /\ api
    /\ c \in tunnels
    /\ pod[c] = "Running"
    /\ c \in served
    /\ stage[c] \notin {"sentinel", "over"}

Ask(c, isDone) ==
    /\ mon = "poll"
    /\ c \in todo
    /\ todo' = todo \ {c}
    /\ done' = IF isDone THEN done \cup {c} ELSE done
    /\ UNCHANGED <<mon, channels, tunnels, seen, lastJobs, NotMonitor>>

\* Mutant: a channel that does not answer belongs to a campaign that is over.
PollSilentIsOver(c) ==
    Ask(c, IF Answers(c) THEN stage[c] \in {"finished", "failed"} ELSE TRUE)

\* Mutant: a pod that is no longer listed is waited for.
PollWaitsForMissing(c) ==
    Ask(c, IF Answers(c) THEN stage[c] \in {"finished", "failed"} ELSE pod[c] = "Ended" /\ c \notin seen)

\* A controller that answers is done at phase finished or failed; one that does
\* not, when the listing showed its pod ended or did not show it.
Poll(c) ==
    Ask(c, IF Answers(c) THEN stage[c] \in {"finished", "failed"} ELSE c \notin seen)

\* A finished controller is never asked out of `done' again.
EndTick ==
    /\ mon = "poll"
    /\ todo = {}
    /\ mon' = IF channels \subseteq done THEN "finished" ELSE "tick"
    /\ tunnels' = IF channels \subseteq done THEN {} ELSE tunnels
    /\ seen' = {}
    /\ UNCHANGED <<channels, todo, done, lastJobs, NotMonitor>>

\* The unfinished jobs by campaign; without an answer the last reading stands.
Reading == IF api THEN jobs ELSE lastJobs

\* One refresh of the fallback.  Finished jobs and their counts are display.
WatchJobs ==
    /\ mon = "jobs"
    /\ lastJobs' = IF api THEN Reading ELSE lastJobs
    /\ mon' = IF Reading = "none" THEN "jobsFinished" ELSE "jobs"
    /\ UNCHANGED <<channels, tunnels, seen, todo, done, NotMonitor>>

MonitorStep ==
    \/ Tick \/ EndTick \/ WatchJobs
    \/ \E c \in Campaigns : Poll(c)

StartMonitor == FallBack \/ ReportFinished \/ StartMonitoring

-----------------------------------------------------------------------------
Next ==
    \/ \E c \in Campaigns : LaunchStep(c)
    \/ PodStep \/ JobsEnd
    \/ LoseApi \/ RegainApi
    \/ StartMonitor \/ MonitorStep

\* The monitor refreshes until it returns; the jobs end and an outage is over
\* at some time.  No launch, controller or user has to do anything.
Fairness ==
    /\ WF_vars(MonitorStep)
    /\ WF_vars(RegainApi)
    /\ WF_vars(JobsEnd)

SafetySpec == Init /\ [][Next]_vars

Spec == SafetySpec /\ Fairness

-----------------------------------------------------------------------------
(* Properties.                                                             *)

\* A launch that ends with an error leaves no pod behind that waits for its
\* start file, whichever call failed before the start file was there, unless
\* the delete of the except clause of launch_controller has failed as well.
\* For an interrupted one nothing is promised.
LaunchFailed(c) == launcher[c] \in {"raised", "undeleted"}
FailedLaunchLeavesNoPod ==
    \A c \in Campaigns :
      LaunchFailed(c) => pod[c] = "absent" \/ launcher[c] = "undeleted"

\* A campaign only runs from the script and the inputs of its own launch,
\* complete, whatever the host did meanwhile (the order of the copies and of
\* the start file).
RunsAsStaged ==
    \A c \in Campaigns :
      stage[c] \notin {"sentinel", "over"} => Staged \subseteq staged[c]

\* Launching a campaign takes down no live controller of another one, not even
\* one that only waits for an upload to be retried: a pod that had ended when
\* it was listed cannot be anything else when it is deleted
\* (reap_orphaned_runs).
LaunchSparesOthers ==
    [][\A c \in Campaigns :
         <<launcher[c], listed[c]>>' # <<launcher[c], listed[c]>>
           => \A d \in Campaigns \ {c} : Live(d) => pod'[d] = pod[d]]_vars

\* The campaigns the monitor counts as ended run no more batches, although the
\* listing, the port-forwards and the answers are of different moments; only
\* an outage, which shows no pod at all, can make it count a running one
\* (_monitor_via_controller).
DoneMeansEnded ==
    outages = 0 =>
      \A c \in done : stage[c] \notin {"sentinel", "starting", "running"}

\* The Kubernetes-only view announces the end of all jobs on a reading that
\* showed none, never because a cluster did not answer (monitor,
\* _print_status_lines).
JobsViewRemembers == mon = "jobsFinished" => lastJobs = "none"

\* Once no controller pod is left Running the monitor comes to its end: no
\* port-forward that broke, no pod that was reaped and no controller that never
\* answered keeps it waiting.  A pod that a sidecar keeps Running does.
MonitorReturns ==
    (<>[](\A c \in Campaigns : ~Live(c)) /\ <>(mon # "off"))
      => <>(mon \in {"reported", "finished", "jobsFinished"})

-----------------------------------------------------------------------------
(* What the words say and the code does not do: TLC finds it violated.     *)

\* "don't leave a pod hanging on the sentinel forever"
\* (controller_launcher.py:504): whatever fails.
NoPodLeftWaiting == \A c \in Campaigns : LaunchFailed(c) => pod[c] = "absent"
=============================================================================
