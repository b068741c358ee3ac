------------------------ MODULE ClusterCommands_proofs ------------------------
(***************************************************************************)
(* Proofs about the commands that a user types to work with a cluster.     *)
(*                                                                         *)
(* CampaignPods, for any number of launches, sidecars and outages.         *)
(*                                                                         *)
(* ClusterSetup, for any number of operators, flag files, namespaces and   *)
(* calls, and any of the providers: a flag file promises only what is      *)
(* there, a clean-up that reports success has left nothing behind, and one *)
(* that nothing disturbs gets through whatever it finds.                   *)
(***************************************************************************)
EXTENDS CampaignPods, ClusterSetup, TLAPS

-----------------------------------------------------------------------------
(* Launcher, pods and monitor.                                              *)

Copying == {"wait", "inputs", "script", "start"}

\* What is true of each campaign: which pod its launcher has left or made, and
\* what a pod in each state has been given.
Orderly(c) ==
    /\ launcher[c] \in {"new", "reap", "raised"} => pod[c] = "absent"
    /\ ~Live(c) => stage[c] = "over"
    /\ pod[c] = "absent" => staged[c] = {}
    /\ stage[c] \notin {"sentinel", "over"} => pod[c] = "Running" /\ "sentinel" \in staged[c]
    /\ "sentinel" \in staged[c] => launcher[c] = "started" /\ Staged \subseteq staged[c]
    /\ launcher[c] \in Copying /\ pod[c] # "absent" => stage[c] = "sentinel"
    /\ launcher[c] = "script" /\ pod[c] # "absent" => "inputs" \in staged[c]
    /\ launcher[c] = "start" /\ pod[c] # "absent" => {"inputs", "script"} \subseteq staged[c]

AllOrderly == \A c \in Campaigns : Orderly(c)

\* What a launch has listed stays ended: its name is not used again.
ListedEnded ==
    \A c, d \in Campaigns :
      d \in listed[c] => ~Live(d) /\ launcher[d] \notin {"new", "reap"}

ChannelsLaunched == \A c \in channels : launcher[c] \notin {"new", "reap"}

\* Without an outage, what the listing of this tick did not show is no longer
\* live when the monitor asks.
ListingHolds ==
    outages = 0 => /\ api
                   /\ mon = "poll" => \A c \in channels \ seen : ~Live(c)

Inv ==
    /\ PodsTypeOK
    /\ AllOrderly
    /\ ListedEnded
    /\ ChannelsLaunched
    /\ ListingHolds
    /\ DoneMeansEnded
    /\ JobsViewRemembers

-----------------------------------------------------------------------------
USE DEF vars, launchVars, podVars, apiVars, monitorVars, Others, NotMonitor,
        Live, Proceed, Listed, ListedRunning

LEMMA RefuseKeeps ==
  ASSUME Inv, NEW c \in Campaigns, Refuse(c)
  PROVE  Inv'
  <1>. USE DEF Refuse, Inv
  <1>1. PodsTypeOK'
    BY DEF PodsTypeOK, LauncherStates, Staged, ControllerStages, MonitorStates
  <1>2. AllOrderly'
    BY DEF PodsTypeOK, AllOrderly, Orderly, Copying, Staged
  <1>3. ListedEnded'
    BY DEF PodsTypeOK, ListedEnded, AllOrderly, Orderly
  <1>4. ChannelsLaunched'
    BY DEF PodsTypeOK, ChannelsLaunched, AllOrderly, Orderly
  <1>5. ListingHolds'
    BY DEF PodsTypeOK, ListingHolds, ChannelsLaunched, AllOrderly, Orderly
  <1>6. DoneMeansEnded'
    BY DEF PodsTypeOK, DoneMeansEnded, ListingHolds, ChannelsLaunched, AllOrderly, Orderly
  <1>7. JobsViewRemembers'
    BY DEF JobsViewRemembers
  <1>. QED
    BY <1>1, <1>2, <1>3, <1>4, <1>5, <1>6, <1>7

LEMMA ListFinishedKeeps ==
  ASSUME Inv, NEW c \in Campaigns, ListFinished(c)
  PROVE  Inv'
  <1>. USE DEF ListFinished, Inv
  <1>1. PodsTypeOK'
    BY DEF PodsTypeOK, LauncherStates, Staged, ControllerStages, MonitorStates
  <1>2. AllOrderly'
    BY DEF PodsTypeOK, AllOrderly, Orderly, Copying, Staged
  <1>3. ListedEnded'
    BY DEF PodsTypeOK, ListedEnded, AllOrderly, Orderly
  <1>4. ChannelsLaunched'
    BY DEF PodsTypeOK, ChannelsLaunched, AllOrderly, Orderly
  <1>5. ListingHolds'
    BY DEF PodsTypeOK, ListingHolds, ChannelsLaunched, AllOrderly, Orderly
  <1>6. DoneMeansEnded'
    BY DEF PodsTypeOK, DoneMeansEnded, ListingHolds, ChannelsLaunched, AllOrderly, Orderly
  <1>7. JobsViewRemembers'
    BY DEF JobsViewRemembers
  <1>. QED
    BY <1>1, <1>2, <1>3, <1>4, <1>5, <1>6, <1>7

LEMMA ReapKeeps ==
  ASSUME Inv, NEW c \in Campaigns, Reap(c)
  PROVE  Inv'
  <1>. USE DEF Reap, RemovePod, Inv
  <1>1. PodsTypeOK'
    BY DEF PodsTypeOK, LauncherStates, Staged, ControllerStages, MonitorStates
  <1>2. AllOrderly'
    BY DEF PodsTypeOK, AllOrderly, Orderly, Copying, Staged
  <1>3. ListedEnded'
    BY DEF PodsTypeOK, ListedEnded, AllOrderly, Orderly
  <1>4. ChannelsLaunched'
    BY DEF PodsTypeOK, ChannelsLaunched, AllOrderly, Orderly
  <1>5. ListingHolds'
    BY DEF PodsTypeOK, ListingHolds, ChannelsLaunched, AllOrderly, Orderly
  <1>6. DoneMeansEnded'
    BY DEF PodsTypeOK, DoneMeansEnded, ListingHolds, ChannelsLaunched, AllOrderly, Orderly
  <1>7. JobsViewRemembers'
    BY DEF JobsViewRemembers
  <1>. QED
    BY <1>1, <1>2, <1>3, <1>4, <1>5, <1>6, <1>7

LEMMA ApplyKeeps ==
  ASSUME Inv, NEW c \in Campaigns, Apply(c)
  PROVE  Inv'
  <1>. USE DEF Apply, Inv
  <1>1. PodsTypeOK'
    BY DEF PodsTypeOK, LauncherStates, Staged, ControllerStages, MonitorStates
  <1>2. AllOrderly'
    BY DEF PodsTypeOK, AllOrderly, Orderly, Copying, Staged
  <1>3. ListedEnded'
    BY DEF PodsTypeOK, ListedEnded, AllOrderly, Orderly
  <1>4. ChannelsLaunched'
    BY DEF PodsTypeOK, ChannelsLaunched, AllOrderly, Orderly
  <1>5. ListingHolds'
    BY DEF PodsTypeOK, ListingHolds, ChannelsLaunched, AllOrderly, Orderly
  <1>6. DoneMeansEnded'
    BY DEF PodsTypeOK, DoneMeansEnded, ListingHolds, ChannelsLaunched, AllOrderly, Orderly
  <1>7. JobsViewRemembers'
    BY DEF JobsViewRemembers
  <1>. QED
    BY <1>1, <1>2, <1>3, <1>4, <1>5, <1>6, <1>7

LEMMA ApplyFailsKeeps ==
  ASSUME Inv, NEW c \in Campaigns, ApplyFails(c)
  PROVE  Inv'
  <1>. USE DEF ApplyFails, Inv
  <1>1. PodsTypeOK'
    BY DEF PodsTypeOK, LauncherStates, Staged, ControllerStages, MonitorStates
  <1>2. AllOrderly'
    BY DEF PodsTypeOK, AllOrderly, Orderly, Copying, Staged
  <1>3. ListedEnded'
    BY DEF PodsTypeOK, ListedEnded, AllOrderly, Orderly
  <1>4. ChannelsLaunched'
    BY DEF PodsTypeOK, ChannelsLaunched, AllOrderly, Orderly
  <1>5. ListingHolds'
    BY DEF PodsTypeOK, ListingHolds, ChannelsLaunched, AllOrderly, Orderly
  <1>6. DoneMeansEnded'
    BY DEF PodsTypeOK, DoneMeansEnded, ListingHolds, ChannelsLaunched, AllOrderly, Orderly
  <1>7. JobsViewRemembers'
    BY DEF JobsViewRemembers
  <1>. QED
    BY <1>1, <1>2, <1>3, <1>4, <1>5, <1>6, <1>7

LEMMA WaitReadyKeeps ==
  ASSUME Inv, NEW c \in Campaigns, WaitReady(c)
  PROVE  Inv'
  <1>. USE DEF WaitReady, Inv
  <1>1. PodsTypeOK'
    BY DEF PodsTypeOK, LauncherStates, Staged, ControllerStages, MonitorStates
  <1>2. AllOrderly'
    BY DEF PodsTypeOK, AllOrderly, Orderly, Copying, Staged
  <1>3. ListedEnded'
    BY DEF PodsTypeOK, ListedEnded, AllOrderly, Orderly
  <1>4. ChannelsLaunched'
    BY DEF PodsTypeOK, ChannelsLaunched, AllOrderly, Orderly
  <1>5. ListingHolds'
    BY DEF PodsTypeOK, ListingHolds, ChannelsLaunched, AllOrderly, Orderly
  <1>6. DoneMeansEnded'
    BY DEF PodsTypeOK, DoneMeansEnded, ListingHolds, ChannelsLaunched, AllOrderly, Orderly
  <1>7. JobsViewRemembers'
    BY DEF JobsViewRemembers
  <1>. QED
    BY <1>1, <1>2, <1>3, <1>4, <1>5, <1>6, <1>7

LEMMA CopyInputsKeeps ==
  ASSUME Inv, NEW c \in Campaigns, CopyInputs(c)
  PROVE  Inv'
  <1>. USE DEF CopyInputs, Copy, Inv
  <1>1. PodsTypeOK'
    BY DEF PodsTypeOK, LauncherStates, Staged, ControllerStages, MonitorStates
  <1>2. AllOrderly'
    BY DEF PodsTypeOK, AllOrderly, Orderly, Copying, Staged
  <1>3. ListedEnded'
    BY DEF PodsTypeOK, ListedEnded, AllOrderly, Orderly
  <1>4. ChannelsLaunched'
    BY DEF PodsTypeOK, ChannelsLaunched, AllOrderly, Orderly
  <1>5. ListingHolds'
    BY DEF PodsTypeOK, ListingHolds, ChannelsLaunched, AllOrderly, Orderly
  <1>6. DoneMeansEnded'
    BY DEF PodsTypeOK, DoneMeansEnded, ListingHolds, ChannelsLaunched, AllOrderly, Orderly
  <1>7. JobsViewRemembers'
    BY DEF JobsViewRemembers
  <1>. QED
    BY <1>1, <1>2, <1>3, <1>4, <1>5, <1>6, <1>7

LEMMA RefuseShareKeeps ==
  ASSUME Inv, NEW c \in Campaigns, RefuseShare(c)
  PROVE  Inv'
  <1>. USE DEF RefuseShare, Inv
  <1>1. PodsTypeOK'
    BY DEF PodsTypeOK, LauncherStates, Staged, ControllerStages, MonitorStates
  <1>2. AllOrderly'
    BY DEF PodsTypeOK, AllOrderly, Orderly, Copying, Staged
  <1>3. ListedEnded'
    BY DEF PodsTypeOK, ListedEnded, AllOrderly, Orderly
  <1>4. ChannelsLaunched'
    BY DEF PodsTypeOK, ChannelsLaunched, AllOrderly, Orderly
  <1>5. ListingHolds'
    BY DEF PodsTypeOK, ListingHolds, ChannelsLaunched, AllOrderly, Orderly
  <1>6. DoneMeansEnded'
    BY DEF PodsTypeOK, DoneMeansEnded, ListingHolds, ChannelsLaunched, AllOrderly, Orderly
  <1>7. JobsViewRemembers'
    BY DEF JobsViewRemembers
  <1>. QED
    BY <1>1, <1>2, <1>3, <1>4, <1>5, <1>6, <1>7

LEMMA CopyScriptKeeps ==
  ASSUME Inv, NEW c \in Campaigns, CopyScript(c)
  PROVE  Inv'
  <1>. USE DEF CopyScript, Copy, Inv
  <1>1. PodsTypeOK'
    BY DEF PodsTypeOK, LauncherStates, Staged, ControllerStages, MonitorStates
  <1>2. AllOrderly'
    BY DEF PodsTypeOK, AllOrderly, Orderly, Copying, Staged
  <1>3. ListedEnded'
    BY DEF PodsTypeOK, ListedEnded, AllOrderly, Orderly
  <1>4. ChannelsLaunched'
    BY DEF PodsTypeOK, ChannelsLaunched, AllOrderly, Orderly
  <1>5. ListingHolds'
    BY DEF PodsTypeOK, ListingHolds, ChannelsLaunched, AllOrderly, Orderly
  <1>6. DoneMeansEnded'
    BY DEF PodsTypeOK, DoneMeansEnded, ListingHolds, ChannelsLaunched, AllOrderly, Orderly
  <1>7. JobsViewRemembers'
    BY DEF JobsViewRemembers
  <1>. QED
    BY <1>1, <1>2, <1>3, <1>4, <1>5, <1>6, <1>7

LEMMA TouchSentinelKeeps ==
  ASSUME Inv, NEW c \in Campaigns, TouchSentinel(c)
  PROVE  Inv'
  <1>. USE DEF TouchSentinel, Copy, Inv
  <1>1. PodsTypeOK'
    BY DEF PodsTypeOK, LauncherStates, Staged, ControllerStages, MonitorStates
  <1>2. AllOrderly'
    BY DEF PodsTypeOK, AllOrderly, Orderly, Copying, Staged
  <1>3. ListedEnded'
    BY DEF PodsTypeOK, ListedEnded, AllOrderly, Orderly
  <1>4. ChannelsLaunched'
    BY DEF PodsTypeOK, ChannelsLaunched, AllOrderly, Orderly
  <1>5. ListingHolds'
    BY DEF PodsTypeOK, ListingHolds, ChannelsLaunched, AllOrderly, Orderly
  <1>6. DoneMeansEnded'
    BY DEF PodsTypeOK, DoneMeansEnded, ListingHolds, ChannelsLaunched, AllOrderly, Orderly
  <1>7. JobsViewRemembers'
    BY DEF JobsViewRemembers
  <1>. QED
    BY <1>1, <1>2, <1>3, <1>4, <1>5, <1>6, <1>7

LEMMA LaunchFailsKeeps ==
  ASSUME Inv, NEW c \in Campaigns, LaunchFails(c)
  PROVE  Inv'
  <1>. USE DEF LaunchFails, Inv
  <1>1. PodsTypeOK'
    BY DEF PodsTypeOK, LauncherStates, Staged, ControllerStages, MonitorStates
  <1>2. AllOrderly'
    BY DEF PodsTypeOK, AllOrderly, Orderly, Copying, Staged
  <1>3. ListedEnded'
    BY DEF PodsTypeOK, ListedEnded, AllOrderly, Orderly
  <1>4. ChannelsLaunched'
    BY DEF PodsTypeOK, ChannelsLaunched, AllOrderly, Orderly
  <1>5. ListingHolds'
    BY DEF PodsTypeOK, ListingHolds, ChannelsLaunched, AllOrderly, Orderly
  <1>6. DoneMeansEnded'
    BY DEF PodsTypeOK, DoneMeansEnded, ListingHolds, ChannelsLaunched, AllOrderly, Orderly
  <1>7. JobsViewRemembers'
    BY DEF JobsViewRemembers
  <1>. QED
    BY <1>1, <1>2, <1>3, <1>4, <1>5, <1>6, <1>7

LEMMA DeletePodKeeps ==
  ASSUME Inv, NEW c \in Campaigns, DeletePod(c)
  PROVE  Inv'
  <1>. USE DEF DeletePod, RemovePod, Inv
  <1>1. PodsTypeOK'
    BY DEF PodsTypeOK, LauncherStates, Staged, ControllerStages, MonitorStates
  <1>2. AllOrderly'
    BY DEF PodsTypeOK, AllOrderly, Orderly, Copying, Staged
  <1>3. ListedEnded'
    BY DEF PodsTypeOK, ListedEnded, AllOrderly, Orderly
  <1>4. ChannelsLaunched'
    BY DEF PodsTypeOK, ChannelsLaunched, AllOrderly, Orderly
  <1>5. ListingHolds'
    BY DEF PodsTypeOK, ListingHolds, ChannelsLaunched, AllOrderly, Orderly
  <1>6. DoneMeansEnded'
    BY DEF PodsTypeOK, DoneMeansEnded, ListingHolds, ChannelsLaunched, AllOrderly, Orderly
  <1>7. JobsViewRemembers'
    BY DEF JobsViewRemembers
  <1>. QED
    BY <1>1, <1>2, <1>3, <1>4, <1>5, <1>6, <1>7

LEMMA InterruptKeeps ==
  ASSUME Inv, NEW c \in Campaigns, Interrupt(c)
  PROVE  Inv'
  <1>. USE DEF Interrupt, Inv
  <1>1. PodsTypeOK'
    BY DEF PodsTypeOK, LauncherStates, Staged, ControllerStages, MonitorStates
  <1>2. AllOrderly'
    BY DEF PodsTypeOK, AllOrderly, Orderly, Copying, Staged
  <1>3. ListedEnded'
    BY DEF PodsTypeOK, ListedEnded, AllOrderly, Orderly
  <1>4. ChannelsLaunched'
    BY DEF PodsTypeOK, ChannelsLaunched, AllOrderly, Orderly
  <1>5. ListingHolds'
    BY DEF PodsTypeOK, ListingHolds, ChannelsLaunched, AllOrderly, Orderly
  <1>6. DoneMeansEnded'
    BY DEF PodsTypeOK, DoneMeansEnded, ListingHolds, ChannelsLaunched, AllOrderly, Orderly
  <1>7. JobsViewRemembers'
    BY DEF JobsViewRemembers
  <1>. QED
    BY <1>1, <1>2, <1>3, <1>4, <1>5, <1>6, <1>7

LEMMA ScheduleKeeps ==
  ASSUME Inv, NEW c \in Campaigns, Schedule(c)
  PROVE  Inv'
  <1>. USE DEF Schedule, Enter, Inv
  <1>1. PodsTypeOK'
    BY DEF PodsTypeOK, LauncherStates, Staged, ControllerStages, MonitorStates
  <1>2. AllOrderly'
    BY DEF PodsTypeOK, AllOrderly, Orderly, Copying, Staged
  <1>3. ListedEnded'
    BY DEF PodsTypeOK, ListedEnded, AllOrderly, Orderly
  <1>4. ChannelsLaunched'
    BY DEF PodsTypeOK, ChannelsLaunched, AllOrderly, Orderly
  <1>5. ListingHolds'
    BY DEF PodsTypeOK, ListingHolds, ChannelsLaunched, AllOrderly, Orderly
  <1>6. DoneMeansEnded'
    BY DEF PodsTypeOK, DoneMeansEnded, ListingHolds, ChannelsLaunched, AllOrderly, Orderly
  <1>7. JobsViewRemembers'
    BY DEF JobsViewRemembers
  <1>. QED
    BY <1>1, <1>2, <1>3, <1>4, <1>5, <1>6, <1>7

LEMMA StartControllerKeeps ==
  ASSUME Inv, NEW c \in Campaigns, StartController(c)
  PROVE  Inv'
  <1>. USE DEF StartController, Enter, Inv
  <1>1. PodsTypeOK'
    BY DEF PodsTypeOK, LauncherStates, Staged, ControllerStages, MonitorStates
  <1>2. AllOrderly'
    BY DEF PodsTypeOK, AllOrderly, Orderly, Copying, Staged
  <1>3. ListedEnded'
    BY DEF PodsTypeOK, ListedEnded, AllOrderly, Orderly
  <1>4. ChannelsLaunched'
    BY DEF PodsTypeOK, ChannelsLaunched, AllOrderly, Orderly
  <1>5. ListingHolds'
    BY DEF PodsTypeOK, ListingHolds, ChannelsLaunched, AllOrderly, Orderly
  <1>6. DoneMeansEnded'
    BY DEF PodsTypeOK, DoneMeansEnded, ListingHolds, ChannelsLaunched, AllOrderly, Orderly
  <1>7. JobsViewRemembers'
    BY DEF JobsViewRemembers
  <1>. QED
    BY <1>1, <1>2, <1>3, <1>4, <1>5, <1>6, <1>7

LEMMA AdvanceKeeps ==
  ASSUME Inv, NEW c \in Campaigns, Advance(c)
  PROVE  Inv'
  <1>. USE DEF Advance, Enter, Inv
  <1>1. PodsTypeOK'
    BY DEF PodsTypeOK, LauncherStates, Staged, ControllerStages, MonitorStates
  <1>2. AllOrderly'
    BY DEF PodsTypeOK, AllOrderly, Orderly, Copying, Staged
  <1>3. ListedEnded'
    BY DEF PodsTypeOK, ListedEnded, AllOrderly, Orderly
  <1>4. ChannelsLaunched'
    BY DEF PodsTypeOK, ChannelsLaunched, AllOrderly, Orderly
  <1>5. ListingHolds'
    BY DEF PodsTypeOK, ListingHolds, ChannelsLaunched, AllOrderly, Orderly
  <1>6. DoneMeansEnded'
    BY DEF PodsTypeOK, DoneMeansEnded, ListingHolds, ChannelsLaunched, AllOrderly, Orderly
  <1>7. JobsViewRemembers'
    BY DEF JobsViewRemembers
  <1>. QED
    BY <1>1, <1>2, <1>3, <1>4, <1>5, <1>6, <1>7

LEMMA ExitKeeps ==
  ASSUME Inv, NEW c \in Campaigns, Exit(c)
  PROVE  Inv'
  <1>. USE DEF Exit, End, Enter, Inv
  <1>1. PodsTypeOK'
    BY DEF PodsTypeOK, LauncherStates, Staged, ControllerStages, MonitorStates
  <1>2. AllOrderly'
    BY DEF PodsTypeOK, AllOrderly, Orderly, Copying, Staged
  <1>3. ListedEnded'
    BY DEF PodsTypeOK, ListedEnded, AllOrderly, Orderly
  <1>4. ChannelsLaunched'
    BY DEF PodsTypeOK, ChannelsLaunched, AllOrderly, Orderly
  <1>5. ListingHolds'
    BY DEF PodsTypeOK, ListingHolds, ChannelsLaunched, AllOrderly, Orderly
  <1>6. DoneMeansEnded'
    BY DEF PodsTypeOK, DoneMeansEnded, ListingHolds, ChannelsLaunched, AllOrderly, Orderly
  <1>7. JobsViewRemembers'
    BY DEF JobsViewRemembers
  <1>. QED
    BY <1>1, <1>2, <1>3, <1>4, <1>5, <1>6, <1>7

LEMMA StopKeeps ==
  ASSUME Inv, NEW c \in Campaigns, Stop(c)
  PROVE  Inv'
  <1>. USE DEF Stop, End, Enter, Inv
  <1>1. PodsTypeOK'
    BY DEF PodsTypeOK, LauncherStates, Staged, ControllerStages, MonitorStates
  <1>2. AllOrderly'
    BY DEF PodsTypeOK, AllOrderly, Orderly, Copying, Staged
  <1>3. ListedEnded'
    BY DEF PodsTypeOK, ListedEnded, AllOrderly, Orderly
  <1>4. ChannelsLaunched'
    BY DEF PodsTypeOK, ChannelsLaunched, AllOrderly, Orderly
  <1>5. ListingHolds'
    BY DEF PodsTypeOK, ListingHolds, ChannelsLaunched, AllOrderly, Orderly
  <1>6. DoneMeansEnded'
    BY DEF PodsTypeOK, DoneMeansEnded, ListingHolds, ChannelsLaunched, AllOrderly, Orderly
  <1>7. JobsViewRemembers'
    BY DEF JobsViewRemembers
  <1>. QED
    BY <1>1, <1>2, <1>3, <1>4, <1>5, <1>6, <1>7

LEMMA UploadToShareKeeps ==
  ASSUME Inv, NEW c \in Campaigns, UploadToShare(c)
  PROVE  Inv'
  <1>. USE DEF UploadToShare, Enter, Inv
  <1>1. PodsTypeOK'
    BY DEF PodsTypeOK, LauncherStates, Staged, ControllerStages, MonitorStates
  <1>2. AllOrderly'
    BY DEF PodsTypeOK, AllOrderly, Orderly, Copying, Staged
  <1>3. ListedEnded'
    BY DEF PodsTypeOK, ListedEnded, AllOrderly, Orderly
  <1>4. ChannelsLaunched'
    BY DEF PodsTypeOK, ChannelsLaunched, AllOrderly, Orderly
  <1>5. ListingHolds'
    BY DEF PodsTypeOK, ListingHolds, ChannelsLaunched, AllOrderly, Orderly
  <1>6. DoneMeansEnded'
    BY DEF PodsTypeOK, DoneMeansEnded, ListingHolds, ChannelsLaunched, AllOrderly, Orderly
  <1>7. JobsViewRemembers'
    BY DEF JobsViewRemembers
  <1>. QED
    BY <1>1, <1>2, <1>3, <1>4, <1>5, <1>6, <1>7

LEMMA CreateJobsKeeps ==
  ASSUME Inv, NEW c \in Campaigns, CreateJobs(c)
  PROVE  Inv'
  <1>. USE DEF CreateJobs, Inv
  <1>1. PodsTypeOK'
    BY DEF PodsTypeOK, LauncherStates, Staged, ControllerStages, MonitorStates
  <1>2. AllOrderly'
    BY DEF PodsTypeOK, AllOrderly, Orderly, Copying, Staged
  <1>3. ListedEnded'
    BY DEF PodsTypeOK, ListedEnded, AllOrderly, Orderly
  <1>4. ChannelsLaunched'
    BY DEF PodsTypeOK, ChannelsLaunched, AllOrderly, Orderly
  <1>5. ListingHolds'
    BY DEF PodsTypeOK, ListingHolds, ChannelsLaunched, AllOrderly, Orderly
  <1>6. DoneMeansEnded'
    BY DEF PodsTypeOK, DoneMeansEnded, ListingHolds, ChannelsLaunched, AllOrderly, Orderly
  <1>7. JobsViewRemembers'
    BY DEF JobsViewRemembers
  <1>. QED
    BY <1>1, <1>2, <1>3, <1>4, <1>5, <1>6, <1>7

LEMMA LosePodKeeps ==
  ASSUME Inv, NEW c \in Campaigns, LosePod(c)
  PROVE  Inv'
  <1>. USE DEF LosePod, RemovePod, Inv
  <1>1. PodsTypeOK'
    BY DEF PodsTypeOK, LauncherStates, Staged, ControllerStages, MonitorStates
  <1>2. AllOrderly'
    BY DEF PodsTypeOK, AllOrderly, Orderly, Copying, Staged
  <1>3. ListedEnded'
    BY DEF PodsTypeOK, ListedEnded, AllOrderly, Orderly
  <1>4. ChannelsLaunched'
    BY DEF PodsTypeOK, ChannelsLaunched, AllOrderly, Orderly
  <1>5. ListingHolds'
    BY DEF PodsTypeOK, ListingHolds, ChannelsLaunched, AllOrderly, Orderly
  <1>6. DoneMeansEnded'
    BY DEF PodsTypeOK, DoneMeansEnded, ListingHolds, ChannelsLaunched, AllOrderly, Orderly
  <1>7. JobsViewRemembers'
    BY DEF JobsViewRemembers
  <1>. QED
    BY <1>1, <1>2, <1>3, <1>4, <1>5, <1>6, <1>7

LEMMA JobsEndKeeps ==
  ASSUME Inv, JobsEnd
  PROVE  Inv'
  <1>. USE DEF JobsEnd, Inv
  <1>1. PodsTypeOK'
    BY DEF PodsTypeOK, LauncherStates, Staged, ControllerStages, MonitorStates
  <1>2. AllOrderly'
    BY DEF PodsTypeOK, AllOrderly, Orderly, Copying, Staged
  <1>3. ListedEnded'
    BY DEF PodsTypeOK, ListedEnded, AllOrderly, Orderly
  <1>4. ChannelsLaunched'
    BY DEF PodsTypeOK, ChannelsLaunched, AllOrderly, Orderly
  <1>5. ListingHolds'
    BY DEF PodsTypeOK, ListingHolds, ChannelsLaunched, AllOrderly, Orderly
  <1>6. DoneMeansEnded'
    BY DEF PodsTypeOK, DoneMeansEnded, ListingHolds, ChannelsLaunched, AllOrderly, Orderly
  <1>7. JobsViewRemembers'
    BY DEF JobsViewRemembers
  <1>. QED
    BY <1>1, <1>2, <1>3, <1>4, <1>5, <1>6, <1>7

LEMMA LoseApiKeeps ==
  ASSUME Inv, LoseApi
  PROVE  Inv'
  <1>. USE DEF LoseApi, Inv
  <1>1. PodsTypeOK'
    <2>1. outages' \in 0 .. MaxOutages
      BY OutagesAssumption DEF PodsTypeOK
    <2>2. api' \in BOOLEAN
      BY Zenon
    <2>. QED
      BY <2>1, <2>2 DEF PodsTypeOK, LauncherStates, Staged, ControllerStages, MonitorStates
  <1>2. AllOrderly'
    BY DEF PodsTypeOK, AllOrderly, Orderly, Copying, Staged
  <1>3. ListedEnded'
    BY DEF PodsTypeOK, ListedEnded, AllOrderly, Orderly
  <1>4. ChannelsLaunched'
    BY DEF PodsTypeOK, ChannelsLaunched, AllOrderly, Orderly
  <1>5. ListingHolds'
    BY DEF PodsTypeOK, ListingHolds, ChannelsLaunched, AllOrderly, Orderly
  <1>6. DoneMeansEnded'
    BY DEF PodsTypeOK, DoneMeansEnded, ListingHolds, ChannelsLaunched, AllOrderly, Orderly
  <1>7. JobsViewRemembers'
    BY DEF JobsViewRemembers
  <1>. QED
    BY <1>1, <1>2, <1>3, <1>4, <1>5, <1>6, <1>7

LEMMA RegainApiKeeps ==
  ASSUME Inv, RegainApi
  PROVE  Inv'
  <1>. USE DEF RegainApi, Inv
  <1>1. PodsTypeOK'
    BY DEF PodsTypeOK, LauncherStates, Staged, ControllerStages, MonitorStates
  <1>2. AllOrderly'
    BY DEF PodsTypeOK, AllOrderly, Orderly, Copying, Staged
  <1>3. ListedEnded'
    BY DEF PodsTypeOK, ListedEnded, AllOrderly, Orderly
  <1>4. ChannelsLaunched'
    BY DEF PodsTypeOK, ChannelsLaunched, AllOrderly, Orderly
  <1>5. ListingHolds'
    BY DEF PodsTypeOK, ListingHolds, ChannelsLaunched, AllOrderly, Orderly
  <1>6. DoneMeansEnded'
    BY DEF PodsTypeOK, DoneMeansEnded, ListingHolds, ChannelsLaunched, AllOrderly, Orderly
  <1>7. JobsViewRemembers'
    BY DEF JobsViewRemembers
  <1>. QED
    BY <1>1, <1>2, <1>3, <1>4, <1>5, <1>6, <1>7

LEMMA FallBackKeeps ==
  ASSUME Inv, FallBack
  PROVE  Inv'
  <1>. USE DEF FallBack, Inv
  <1>1. PodsTypeOK'
    BY DEF PodsTypeOK, LauncherStates, Staged, ControllerStages, MonitorStates
  <1>2. AllOrderly'
    BY DEF PodsTypeOK, AllOrderly, Orderly, Copying, Staged
  <1>3. ListedEnded'
    BY DEF PodsTypeOK, ListedEnded, AllOrderly, Orderly
  <1>4. ChannelsLaunched'
    BY DEF PodsTypeOK, ChannelsLaunched, AllOrderly, Orderly
  <1>5. ListingHolds'
    BY DEF PodsTypeOK, ListingHolds, ChannelsLaunched, AllOrderly, Orderly
  <1>6. DoneMeansEnded'
    BY DEF PodsTypeOK, DoneMeansEnded, ListingHolds, ChannelsLaunched, AllOrderly, Orderly
  <1>7. JobsViewRemembers'
    BY DEF JobsViewRemembers
  <1>. QED
    BY <1>1, <1>2, <1>3, <1>4, <1>5, <1>6, <1>7

LEMMA ReportFinishedKeeps ==
  ASSUME Inv, ReportFinished
  PROVE  Inv'
  <1>. USE DEF ReportFinished, Inv
  <1>1. PodsTypeOK'
    BY DEF PodsTypeOK, LauncherStates, Staged, ControllerStages, MonitorStates
  <1>2. AllOrderly'
    BY DEF PodsTypeOK, AllOrderly, Orderly, Copying, Staged
  <1>3. ListedEnded'
    BY DEF PodsTypeOK, ListedEnded, AllOrderly, Orderly
  <1>4. ChannelsLaunched'
    BY DEF PodsTypeOK, ChannelsLaunched, AllOrderly, Orderly
  <1>5. ListingHolds'
    BY DEF PodsTypeOK, ListingHolds, ChannelsLaunched, AllOrderly, Orderly
  <1>6. DoneMeansEnded'
    BY DEF PodsTypeOK, DoneMeansEnded, ListingHolds, ChannelsLaunched, AllOrderly, Orderly
  <1>7. JobsViewRemembers'
    BY DEF JobsViewRemembers
  <1>. QED
    BY <1>1, <1>2, <1>3, <1>4, <1>5, <1>6, <1>7

LEMMA StartMonitoringKeeps ==
  ASSUME Inv, StartMonitoring
  PROVE  Inv'
  <1>. USE DEF StartMonitoring, Connect, Inv
  <1>1. PodsTypeOK'
    BY DEF PodsTypeOK, LauncherStates, Staged, ControllerStages, MonitorStates
  <1>2. AllOrderly'
    BY DEF PodsTypeOK, AllOrderly, Orderly, Copying, Staged
  <1>3. ListedEnded'
    BY DEF PodsTypeOK, ListedEnded, AllOrderly, Orderly
  <1>4. ChannelsLaunched'
    BY DEF PodsTypeOK, ChannelsLaunched, AllOrderly, Orderly
  <1>5. ListingHolds'
    BY DEF PodsTypeOK, ListingHolds, ChannelsLaunched, AllOrderly, Orderly
  <1>6. DoneMeansEnded'
    BY DEF PodsTypeOK, DoneMeansEnded, ListingHolds, ChannelsLaunched, AllOrderly, Orderly
  <1>7. JobsViewRemembers'
    BY DEF JobsViewRemembers
  <1>. QED
    BY <1>1, <1>2, <1>3, <1>4, <1>5, <1>6, <1>7

LEMMA TickKeeps ==
  ASSUME Inv, Tick
  PROVE  Inv'
  <1>. USE DEF Tick, Connect, Inv
  <1>1. PodsTypeOK'
    BY DEF PodsTypeOK, LauncherStates, Staged, ControllerStages, MonitorStates
  <1>2. AllOrderly'
    BY DEF PodsTypeOK, AllOrderly, Orderly, Copying, Staged
  <1>3. ListedEnded'
    BY DEF PodsTypeOK, ListedEnded, AllOrderly, Orderly
  <1>4. ChannelsLaunched'
    BY DEF PodsTypeOK, ChannelsLaunched, AllOrderly, Orderly
  <1>5. ListingHolds'
    BY DEF PodsTypeOK, ListingHolds, ChannelsLaunched, AllOrderly, Orderly
  <1>6. DoneMeansEnded'
    BY DEF PodsTypeOK, DoneMeansEnded, ListingHolds, ChannelsLaunched, AllOrderly, Orderly
  <1>7. JobsViewRemembers'
    BY DEF JobsViewRemembers
  <1>. QED
    BY <1>1, <1>2, <1>3, <1>4, <1>5, <1>6, <1>7

LEMMA PollKeeps ==
  ASSUME Inv, NEW c \in Campaigns, Poll(c)
  PROVE  Inv'
  <1>. USE DEF Poll, Ask, Answers, Inv
  <1>1. PodsTypeOK'
    BY DEF PodsTypeOK, LauncherStates, Staged, ControllerStages, MonitorStates
  <1>2. AllOrderly'
    BY DEF PodsTypeOK, AllOrderly, Orderly, Copying, Staged
  <1>3. ListedEnded'
    BY DEF PodsTypeOK, ListedEnded, AllOrderly, Orderly
  <1>4. ChannelsLaunched'
    BY DEF PodsTypeOK, ChannelsLaunched, AllOrderly, Orderly
  <1>5. ListingHolds'
    BY DEF PodsTypeOK, ListingHolds, ChannelsLaunched, AllOrderly, Orderly
  <1>6. DoneMeansEnded'
    BY DEF PodsTypeOK, DoneMeansEnded, ListingHolds, ChannelsLaunched, AllOrderly, Orderly
  <1>7. JobsViewRemembers'
    BY DEF JobsViewRemembers
  <1>. QED
    BY <1>1, <1>2, <1>3, <1>4, <1>5, <1>6, <1>7

LEMMA EndTickKeeps ==
  ASSUME Inv, EndTick
  PROVE  Inv'
  <1>. USE DEF EndTick, Inv
  <1>1. PodsTypeOK'
    BY DEF PodsTypeOK, LauncherStates, Staged, ControllerStages, MonitorStates
  <1>2. AllOrderly'
    BY DEF PodsTypeOK, AllOrderly, Orderly, Copying, Staged
  <1>3. ListedEnded'
    BY DEF PodsTypeOK, ListedEnded, AllOrderly, Orderly
  <1>4. ChannelsLaunched'
    BY DEF PodsTypeOK, ChannelsLaunched, AllOrderly, Orderly
  <1>5. ListingHolds'
    BY DEF PodsTypeOK, ListingHolds, ChannelsLaunched, AllOrderly, Orderly
  <1>6. DoneMeansEnded'
    BY DEF PodsTypeOK, DoneMeansEnded, ListingHolds, ChannelsLaunched, AllOrderly, Orderly
  <1>7. JobsViewRemembers'
    BY DEF JobsViewRemembers
  <1>. QED
    BY <1>1, <1>2, <1>3, <1>4, <1>5, <1>6, <1>7

LEMMA WatchJobsKeeps ==
  ASSUME Inv, WatchJobs
  PROVE  Inv'
  <1>. USE DEF WatchJobs, Reading, Inv
  <1>1. PodsTypeOK'
    BY DEF PodsTypeOK, LauncherStates, Staged, ControllerStages, MonitorStates
  <1>2. AllOrderly'
    BY DEF PodsTypeOK, AllOrderly, Orderly, Copying, Staged
  <1>3. ListedEnded'
    BY DEF PodsTypeOK, ListedEnded, AllOrderly, Orderly
  <1>4. ChannelsLaunched'
    BY DEF PodsTypeOK, ChannelsLaunched, AllOrderly, Orderly
  <1>5. ListingHolds'
    BY DEF PodsTypeOK, ListingHolds, ChannelsLaunched, AllOrderly, Orderly
  <1>6. DoneMeansEnded'
    BY DEF PodsTypeOK, DoneMeansEnded, ListingHolds, ChannelsLaunched, AllOrderly, Orderly
  <1>7. JobsViewRemembers'
    BY DEF JobsViewRemembers
  <1>. QED
    BY <1>1, <1>2, <1>3, <1>4, <1>5, <1>6, <1>7

LEMMA InitOrderly == Init => Inv
  BY OutagesAssumption
     DEF Init, Inv, PodsTypeOK, LauncherStates, Staged, ControllerStages,
         MonitorStates, AllOrderly, Orderly, Copying, ListedEnded,
         ChannelsLaunched, ListingHolds, DoneMeansEnded, JobsViewRemembers

LEMMA StutterKeeps ==
  ASSUME Inv, UNCHANGED vars
  PROVE  Inv'
  BY DEF Inv, PodsTypeOK, AllOrderly, Orderly, ListedEnded, ChannelsLaunched,
         ListingHolds, DoneMeansEnded, JobsViewRemembers

LEMMA NextKeeps ==
  ASSUME Inv, [Next]_vars
  PROVE  Inv'
  <1>1. CASE \E c \in Campaigns : LaunchStep(c)
    BY <1>1, RefuseKeeps, ListFinishedKeeps, ReapKeeps, ApplyKeeps,
       ApplyFailsKeeps, WaitReadyKeeps, CopyInputsKeeps, RefuseShareKeeps,
       CopyScriptKeeps, TouchSentinelKeeps, LaunchFailsKeeps,
       DeletePodKeeps, InterruptKeeps DEF LaunchStep
  <1>2. CASE PodStep
    BY <1>2, ScheduleKeeps, StartControllerKeeps, AdvanceKeeps, ExitKeeps,
       StopKeeps, UploadToShareKeeps, CreateJobsKeeps, LosePodKeeps DEF PodStep
  <1>3. CASE JobsEnd \/ LoseApi \/ RegainApi
    BY <1>3, JobsEndKeeps, LoseApiKeeps, RegainApiKeeps
  <1>4. CASE StartMonitor \/ MonitorStep
    BY <1>4, FallBackKeeps, ReportFinishedKeeps, StartMonitoringKeeps, TickKeeps,
       PollKeeps, EndTickKeeps, WatchJobsKeeps DEF StartMonitor, MonitorStep
  <1>5. CASE UNCHANGED vars
    BY <1>5, StutterKeeps
  <1>. QED
    BY <1>1, <1>2, <1>3, <1>4, <1>5 DEF Next

-----------------------------------------------------------------------------
\* The inductive invariant of launches, pods and monitor.
THEOREM PodsInvariant == SafetySpec => []Inv
  BY InitOrderly, NextKeeps, PTL DEF SafetySpec

\* The variables keep their types, for any campaigns and any number of outages.
THEOREM PodsTypeCorrect == SafetySpec => []PodsTypeOK
  <1>1. Inv => PodsTypeOK
    BY DEF Inv
  <1>. QED
    BY <1>1, PodsInvariant, PTL

\* A launch that ended with an error has left no pod, whichever call failed
\* before its start file was there and whatever other launches reaped meanwhile,
\* unless the delete of its except clause failed as well.
THEOREM PodsFailedLaunch == SafetySpec => []FailedLaunchLeavesNoPod
  <1>1. Inv => FailedLaunchLeavesNoPod
    BY DEF Inv, AllOrderly, Orderly, FailedLaunchLeavesNoPod, LaunchFailed
  <1>. QED
    BY <1>1, PodsInvariant, PTL

\* A controller runs only from the complete inputs of its own launch.
THEOREM PodsRunAsStaged == SafetySpec => []RunsAsStaged
  <1>1. Inv => RunsAsStaged
    BY DEF Inv, AllOrderly, Orderly, RunsAsStaged
  <1>. QED
    BY <1>1, PodsInvariant, PTL

\* Without an outage the monitor counts no campaign as ended that still runs.
THEOREM PodsDoneMeansEnded == SafetySpec => []DoneMeansEnded
  <1>1. Inv => DoneMeansEnded
    BY DEF Inv
  <1>. QED
    BY <1>1, PodsInvariant, PTL

\* A step of one launch takes down no live pod of another campaign.
LEMMA StepSparesOthers ==
  ASSUME Inv, [Next]_vars, NEW c \in Campaigns, NEW d \in Campaigns \ {c}, Live(d),
         <<launcher[c], listed[c]>>' # <<launcher[c], listed[c]>>
  PROVE  pod'[d] = pod[d]
  <1>. USE DEF Inv, PodsTypeOK, ListedEnded
  <1>1. PICK e \in Campaigns : LaunchStep(e)
    <2>1. ASSUME UNCHANGED launchVars PROVE FALSE
      BY <2>1
    <2>. QED
      BY <2>1 DEF Next, PodStep, StartMonitor, MonitorStep, Schedule, StartController,
           Advance, Exit, Stop, UploadToShare, CreateJobs, LosePod, End, Enter,
           JobsEnd, LoseApi, RegainApi, FallBack, ReportFinished, StartMonitoring,
           Tick, Poll, Ask, EndTick, WatchJobs
  <1>2. e = c
    BY <1>1 DEF LaunchStep, Refuse, ListFinished, Reap, Apply, ApplyFails, WaitReady,
           CopyInputs, RefuseShare, CopyScript, TouchSentinel, LaunchFails,
           DeletePod, Interrupt, Copy
  <1>. QED
    BY <1>1, <1>2 DEF LaunchStep, Refuse, ListFinished, Reap, Apply, ApplyFails, WaitReady,
           CopyInputs, RefuseShare, CopyScript, TouchSentinel, LaunchFails,
           DeletePod, Interrupt, Copy, RemovePod

\* Launching a campaign takes down no live controller of another one, however
\* many launch, park and end at once.
THEOREM PodsSpareOthers == SafetySpec => LaunchSparesOthers
  <1>1. Inv /\ [Next]_vars
          => [\A c \in Campaigns :
                <<launcher[c], listed[c]>>' # <<launcher[c], listed[c]>>
                  => \A d \in Campaigns \ {c} : Live(d) => pod'[d] = pod[d]]_vars
    BY StepSparesOthers
  <1>. QED
    BY <1>1, PodsInvariant, PTL DEF SafetySpec, LaunchSparesOthers

-----------------------------------------------------------------------------
(* Set-up and clean-up of a cluster.                                        *)

SetupSteps == {"helm", "queues", "rights", "storage"}
CleanupSteps == {"revoke", "uninstall", "delete"}

RightKinds == {"serviceAccount", "role", "roleBinding", "clusterRole", "clusterRoleBinding"}
StorageKinds == {"pvc", "pod", "service"}
Kinds == RightKinds \cup StorageKinds

Commands ==
    [at : {"idle"} \cup SetupSteps \cup CleanupSteps, kind : {"none", "setup", "cleanup"},
     slot : Slots \cup {NoFlag}, config : Configs \cup {"none"}, ns : Namespaces,
     opts : BOOLEAN, forced : BOOLEAN, todo : Seq(Kinds), refused : SUBSET (Kinds \X Namespaces),
     calm : BOOLEAN, crossed : BOOLEAN, end : {"none", "done", "failed"}]

\* What a running command is about.
Purposeful(c) ==
    /\ \/ c.kind = "setup" /\ c.at \in SetupSteps
       \/ c.kind = "cleanup" /\ c.at \in CleanupSteps
    /\ c.slot \in Slots /\ c.config \in Configs /\ c.end = "none"
    /\ c.at \in {"rights", "revoke"} => ToSet(c.todo) \subseteq ToSet(Rights)
    /\ c.at \in {"storage", "delete"} => ToSet(c.todo) \subseteq ToSet(Manifest(c.config))

SetupTypes ==
    /\ TypeOK
    /\ cmd \in [Operators -> Commands]
    /\ \A o \in Operators : Running(o) => Purposeful(cmd[o])

\* Commands that run side by side know of each other.
AwareInv ==
    \A o, p \in Operators :
      o # p /\ Running(o) /\ Running(p)
        => ~cmd[o].calm /\ (Opposed(cmd[o], cmd[p]) => cmd[o].crossed)

\* No cleanup is aimed at the namespace of a flag file that counts.
AimedInv ==
    \A s \in Slots, p \in Operators :
      flag[s] # NoFlag /\ s \notin spoiled /\ Running(p) /\ cmd[p].kind = "cleanup"
        => cmd[p].ns # flag[s].ns

\* What an undisturbed set-up has created so far is there.
Built(o) ==
    LET c == cmd[o]
    IN  /\ c.at = "rights" =>
             \A k \in ToSet(Rights) : k \in ToSet(c.todo) \/ Named(k, c.ns) \in there
        /\ c.at = "storage" =>
             /\ RightsOf(c.ns) \subseteq there
             /\ \A k \in ToSet(Manifest(c.config)) :
                  k \in ToSet(c.todo) \/ <<k, c.ns>> \in there

\* What an undisturbed cleanup has dealt with so far is gone, or was refused.
Cleared(o) ==
    LET c == cmd[o]
    IN  /\ c.at = "revoke" =>
             \A k \in ToSet(Rights) :
               k \in ToSet(c.todo) \/ Named(k, c.ns) \notin there \ c.refused
        /\ c.at \in {"uninstall", "delete"} => RightsOf(c.ns) \cap there \subseteq c.refused
        /\ c.at = "delete" =>
             /\ \A k \in ToSet(Manifest(c.config)) :
                  k \in ToSet(c.todo) \/ <<k, c.ns>> \notin there
             /\ c.calm => Release \notin there

ProgressInv ==
    \A o \in Operators : ~cmd[o].crossed => Built(o) /\ Cleared(o)

SetupInv ==
    /\ SetupTypes /\ AwareInv /\ AimedInv /\ ProgressInv
    /\ FlagMeansSetUp /\ CleanupRecovers

-----------------------------------------------------------------------------
(* Sequences of objects.                                                    *)

LEMMA TailFacts ==
  ASSUME NEW S, NEW s \in Seq(S), s # <<>>
  PROVE  /\ Head(s) \in S /\ Tail(s) \in Seq(S)
         /\ Head(s) \in ToSet(s)
         /\ \A k \in ToSet(s) : k = Head(s) \/ k \in ToSet(Tail(s))
         /\ ToSet(Tail(s)) \subseteq ToSet(s)
<1>1. Len(s) \in Nat \ {0} /\ Head(s) = s[1] /\ DOMAIN s = 1 .. Len(s)
  OBVIOUS
<1>2. /\ Tail(s) \in Seq(S) /\ Len(Tail(s)) = Len(s) - 1
      /\ \A i \in 1 .. Len(s) - 1 : Tail(s)[i] = s[i + 1]
  OBVIOUS
<1>3. DOMAIN Tail(s) = 1 .. Len(s) - 1
  BY <1>1, <1>2
<1>4. ASSUME NEW k \in ToSet(s), k # Head(s)
      PROVE  k \in ToSet(Tail(s))
  <2>1. PICK i \in 1 .. Len(s) : k = s[i]
    BY <1>1 DEF ToSet
  <2>2. i - 1 \in 1 .. Len(s) - 1 /\ Tail(s)[i - 1] = s[i]
    BY <2>1, <1>1, <1>2, <1>4
  <2> QED
    BY <2>1, <2>2, <1>3 DEF ToSet
<1>5. ASSUME NEW k \in ToSet(Tail(s))
      PROVE  k \in ToSet(s)
  <2>1. PICK i \in 1 .. Len(s) - 1 : k = Tail(s)[i]
    BY <1>3 DEF ToSet
  <2>2. i + 1 \in 1 .. Len(s) /\ k = s[i + 1]
    BY <2>1, <1>1, <1>2
  <2> QED
    BY <2>2, <1>1 DEF ToSet
<1>6. Head(s) \in S /\ Head(s) \in ToSet(s)
  BY <1>1 DEF ToSet
<1> QED
  BY <1>2, <1>4, <1>5, <1>6

LEMMA ReverseFacts ==
  ASSUME NEW S, NEW s \in Seq(S)
  PROVE  Reverse(s) \in Seq(S) /\ ToSet(Reverse(s)) = ToSet(s)
<1>1. Len(s) \in Nat /\ DOMAIN s = 1 .. Len(s)
  OBVIOUS
<1>2. \A i \in 1 .. Len(s) : Len(s) - i + 1 \in 1 .. Len(s) /\ s[Len(s) - i + 1] \in S
  BY <1>1
<1>3. Reverse(s) \in [1 .. Len(s) -> S] /\ DOMAIN Reverse(s) = 1 .. Len(s)
  BY <1>1, <1>2 DEF Reverse
<1>4. Reverse(s) \in Seq(S)
  BY <1>1, <1>3
<1>5. ASSUME NEW k \in ToSet(s)
      PROVE  k \in ToSet(Reverse(s))
  <2>1. PICK i \in 1 .. Len(s) : k = s[i]
    BY <1>1 DEF ToSet
  <2>2. Len(s) - i + 1 \in 1 .. Len(s) /\ Len(s) - (Len(s) - i + 1) + 1 = i
    BY <1>1
  <2>3. Reverse(s)[Len(s) - i + 1] = s[i]
    BY <2>2 DEF Reverse
  <2> QED
    BY <2>1, <2>2, <2>3, <1>3 DEF ToSet
<1>6. ASSUME NEW k \in ToSet(Reverse(s))
      PROVE  k \in ToSet(s)
  <2>1. PICK i \in 1 .. Len(s) : k = Reverse(s)[i]
    BY <1>3 DEF ToSet
  <2> QED
    BY <2>1, <1>1, <1>2 DEF ToSet, Reverse
<1> QED
  BY <1>4, <1>5, <1>6

LEMMA ListFacts ==
  /\ Rights \in Seq(Kinds) /\ ToSet(Rights) \subseteq RightKinds
  /\ Reverse(Rights) \in Seq(Kinds) /\ ToSet(Reverse(Rights)) = ToSet(Rights)
  /\ \A config : /\ Manifest(config) \in Seq(Kinds) /\ ToSet(Manifest(config)) \subseteq StorageKinds
                 /\ Reverse(Manifest(config)) \in Seq(Kinds)
                 /\ ToSet(Reverse(Manifest(config))) = ToSet(Manifest(config))
<1>1. Rights \in Seq(RightKinds)
  BY RightsAssumption DEF RightKinds
<1>2. Rights \in Seq(Kinds) /\ ToSet(Rights) \subseteq RightKinds
  <2>1. RightKinds \subseteq Kinds
    BY DEF Kinds
  <2>2. DOMAIN Rights = 1 .. Len(Rights) /\ \A i \in 1 .. Len(Rights) : Rights[i] \in RightKinds
    BY <1>1
  <2>3. Rights \in [1 .. Len(Rights) -> Kinds] /\ Len(Rights) \in Nat
    BY <1>1, <2>1, <2>2
  <2> QED
    BY <2>2, <2>3 DEF ToSet
<1>3. ASSUME NEW config
      PROVE  Manifest(config) \in Seq(Kinds) /\ ToSet(Manifest(config)) \subseteq StorageKinds
  <2>1. /\ <<"pvc", "pod", "service">> \in Seq(Kinds) /\ <<"pod", "service">> \in Seq(Kinds)
        /\ <<>> \in Seq(Kinds)
    BY DEF Kinds, StorageKinds
  <2>2. /\ \A i \in DOMAIN <<"pvc", "pod", "service">> : <<"pvc", "pod", "service">>[i] \in StorageKinds
        /\ \A i \in DOMAIN <<"pod", "service">> : <<"pod", "service">>[i] \in StorageKinds
        /\ DOMAIN <<>> = {}
    BY DEF StorageKinds
  <2>3. Manifest(config) \in {<<"pvc", "pod", "service">>, <<"pod", "service">>, <<>>}
    BY DEF Manifest
  <2> QED
    BY <2>1, <2>2, <2>3 DEF ToSet
<1> QED
  BY <1>2, <1>3, ReverseFacts

\* The objects of one namespace are none of another's, and none of Kueue's.
LEMMA ObjectsDiffer ==
  ASSUME NEW k \in Kinds, NEW ns, NEW j, NEW ms
  PROVE  /\ <<k, ns>> = <<j, ms>> <=> k = j /\ ns = ms
         /\ <<k, ns>> # Release /\ <<k, ns>> \notin QueueObjects
BY DEF Release, QueueObjects, Flavor, ClusterQueue, LocalQueue, Kinds, RightKinds, StorageKinds

-----------------------------------------------------------------------------
(* What a step does to the commands.                                        *)

\* The same command: whose, where, and what it has met.
SamePurpose(c, d) ==
    /\ d.kind = c.kind /\ d.slot = c.slot /\ d.config = c.config /\ d.ns = c.ns
    /\ d.opts = c.opts /\ d.end = c.end

OthersStay(o) == \A p \in Operators \ {o} : cmd'[p] = cmd[p]

GoesOn(o) ==
    /\ Running(o) /\ cmd' \in [Operators -> Commands] /\ OthersStay(o)
    /\ Purposeful(cmd'[o]) /\ SamePurpose(cmd[o], cmd'[o])
    /\ cmd'[o].crossed => cmd[o].crossed
    /\ cmd[o].crossed => cmd'[o].crossed
    /\ cmd'[o].calm => cmd[o].calm

Stops(o) ==
    /\ Running(o) /\ cmd' \in [Operators -> Commands] /\ OthersStay(o)
    /\ cmd'[o].at = "idle"
    /\ cmd'[o].kind = "cleanup" /\ cmd'[o].end = "failed" /\ cmd'[o].calm => LacksOptions(o)'

Starts(o) ==
    /\ ~Running(o) /\ cmd' \in [Operators -> Commands] /\ Purposeful(cmd'[o])
    /\ \A p \in Operators \ {o} :
         /\ SamePurpose(cmd[p], cmd'[p]) /\ cmd'[p].at = cmd[p].at
         /\ cmd'[p].todo = cmd[p].todo /\ cmd'[p].refused = cmd[p].refused
         /\ ~Running(p) => cmd'[p] = cmd[p]
         /\ Running(p) => ~cmd'[p].calm /\ ~cmd'[o].calm
         /\ cmd[p].crossed => cmd'[p].crossed
         /\ Running(p) /\ Opposed(cmd[p], cmd'[o]) => cmd'[p].crossed /\ cmd'[o].crossed

LEMMA GotoIs ==
  ASSUME SetupTypes, NEW o \in Operators, Running(o), NEW step, Goto(o, step),
         \/ cmd[o].kind = "setup" /\ step = "queues"
         \/ cmd[o].kind = "cleanup" /\ step = "uninstall"
  PROVE  /\ GoesOn(o) /\ cmd'[o].at = step
         /\ cmd'[o].todo = cmd[o].todo /\ cmd'[o].refused = cmd[o].refused
<1>1. cmd[o] \in Commands /\ Purposeful(cmd[o])
  BY DEF SetupTypes
<1>2. cmd' = [cmd EXCEPT ![o] = [cmd[o] EXCEPT !.at = step]]
  BY DEF Goto
<1>3. [cmd[o] EXCEPT !.at = step] \in Commands
  BY <1>1 DEF Commands, SetupSteps, CleanupSteps
<1>4. cmd' \in [Operators -> Commands] /\ cmd'[o] = [cmd[o] EXCEPT !.at = step] /\ OthersStay(o)
  BY <1>2, <1>3 DEF SetupTypes, OthersStay
<1> QED
  BY <1>1, <1>4 DEF GoesOn, SamePurpose, Purposeful, Commands, SetupSteps, CleanupSteps

LEMMA BeginIs ==
  ASSUME SetupTypes, NEW o \in Operators, Running(o), NEW step, NEW list \in Seq(Kinds),
         Begin(o, step, list),
         \/ cmd[o].kind = "setup" /\ step \in {"rights", "storage"}
         \/ cmd[o].kind = "cleanup" /\ step = "delete",
         step = "rights" => ToSet(list) \subseteq ToSet(Rights),
         step \in {"storage", "delete"} => ToSet(list) \subseteq ToSet(Manifest(cmd[o].config))
  PROVE  /\ GoesOn(o) /\ cmd'[o].at = step
         /\ cmd'[o].todo = list /\ cmd'[o].refused = cmd[o].refused
<1>1. cmd[o] \in Commands /\ Purposeful(cmd[o])
  BY DEF SetupTypes
<1>2. cmd' = [cmd EXCEPT ![o] = [cmd[o] EXCEPT !.at = step, !.todo = list]]
  BY DEF Begin
<1>3. [cmd[o] EXCEPT !.at = step, !.todo = list] \in Commands
  BY <1>1 DEF Commands, SetupSteps, CleanupSteps
<1>4. /\ cmd' \in [Operators -> Commands] /\ OthersStay(o)
      /\ cmd'[o] = [cmd[o] EXCEPT !.at = step, !.todo = list]
  BY <1>2, <1>3 DEF SetupTypes, OthersStay
<1> QED
  BY <1>1, <1>4 DEF GoesOn, SamePurpose, Purposeful, Commands, SetupSteps, CleanupSteps

LEMMA ShortenIs ==
  ASSUME SetupTypes, NEW o \in Operators, Running(o), cmd[o].todo # <<>>, Shorten(o)
  PROVE  /\ GoesOn(o) /\ cmd'[o].at = cmd[o].at
         /\ cmd'[o].todo = Tail(cmd[o].todo) /\ cmd'[o].refused = cmd[o].refused
<1>1. cmd[o] \in Commands /\ Purposeful(cmd[o])
  BY DEF SetupTypes
<1>2. cmd' = [cmd EXCEPT ![o] = [cmd[o] EXCEPT !.todo = Tail(cmd[o].todo)]]
  BY DEF Shorten
<1>3. Tail(cmd[o].todo) \in Seq(Kinds) /\ ToSet(Tail(cmd[o].todo)) \subseteq ToSet(cmd[o].todo)
  BY <1>1, TailFacts DEF Commands
<1>4. [cmd[o] EXCEPT !.todo = Tail(cmd[o].todo)] \in Commands
  BY <1>1, <1>3 DEF Commands
<1>5. /\ cmd' \in [Operators -> Commands] /\ OthersStay(o)
      /\ cmd'[o] = [cmd[o] EXCEPT !.todo = Tail(cmd[o].todo)]
  BY <1>2, <1>4 DEF SetupTypes, OthersStay
<1> QED
  BY <1>1, <1>3, <1>5 DEF GoesOn, SamePurpose, Purposeful, Commands

LEMMA NoCommandIs ==
  NoCommand \in Commands /\ NoCommand.at = "idle" /\ NoCommand.kind = "none"
<1>1. <<>> \in Seq(Kinds)
  OBVIOUS
<1> QED
  BY <1>1, DefaultNsAssumption DEF NoCommand, Commands

LEMMA EndedIs ==
  ASSUME NEW c \in Commands, NEW how \in {"done", "failed"}
  PROVE  /\ Ended(c, how) \in Commands
         /\ Ended(c, how).at = "idle" /\ Ended(c, how).end = how
<1>1. CASE how = "failed" /\ c.calm
  <2>1. Ended(c, how) = [NoCommand EXCEPT !.kind = c.kind, !.config = c.config, !.opts = c.opts,
                           !.forced = c.forced, !.calm = TRUE, !.end = how]
    BY <1>1 DEF Ended
  <2>2. /\ c.kind \in {"none", "setup", "cleanup"} /\ c.config \in Configs \cup {"none"}
        /\ c.opts \in BOOLEAN /\ c.forced \in BOOLEAN
    BY DEF Commands
  <2> QED
    BY <2>1, <2>2, NoCommandIs DEF Commands
<1>2. CASE ~(how = "failed" /\ c.calm)
  <2>1. Ended(c, how) = [NoCommand EXCEPT !.end = how]
    BY <1>2 DEF Ended
  <2> QED
    BY <2>1, NoCommandIs DEF Commands
<1> QED
  BY <1>1, <1>2

\* Only a failure that nothing explains is remembered.
LEMMA RememberedIs ==
  ASSUME NEW c \in Commands, NEW how \in {"done", "failed"}, Ended(c, how).kind # "none"
  PROVE  /\ how = "failed" /\ c.calm = TRUE /\ Ended(c, how).kind = c.kind
         /\ Ended(c, how).config = c.config /\ Ended(c, how).opts = c.opts
<1>1. how = "failed" /\ c.calm
  <2> SUFFICES ASSUME ~(how = "failed" /\ c.calm)
               PROVE  FALSE
    OBVIOUS
  <2>1. Ended(c, how) = [NoCommand EXCEPT !.end = how]
    BY DEF Ended
  <2> QED
    BY <2>1, NoCommandIs DEF Commands
<1>2. c.calm = TRUE
  BY <1>1 DEF Commands
<1>3. Ended(c, how) = [NoCommand EXCEPT !.kind = c.kind, !.config = c.config, !.opts = c.opts,
                         !.forced = c.forced, !.calm = TRUE, !.end = how]
  BY <1>1 DEF Ended
<1> QED
  BY <1>1, <1>2, <1>3, NoCommandIs DEF Commands

LEMMA FinishIs ==
  ASSUME SetupTypes, NEW o \in Operators, Running(o), NEW how \in {"done", "failed"},
         Finish(o, how), cmd[o].kind = "cleanup" /\ how = "failed" => LacksOptions(o)
  PROVE  Stops(o) /\ cmd'[o].end = how
<1>1. cmd[o] \in Commands
  BY DEF SetupTypes
<1>2. cmd' = [cmd EXCEPT ![o] = Ended(cmd[o], how)]
  BY DEF Finish
<1>3. cmd' \in [Operators -> Commands] /\ OthersStay(o) /\ cmd'[o] = Ended(cmd[o], how)
  BY <1>1, <1>2, EndedIs DEF SetupTypes, OthersStay
<1>4. cmd'[o].at = "idle" /\ cmd'[o].end = how
  BY <1>1, <1>3, EndedIs
<1>5. ASSUME cmd'[o].kind = "cleanup", how = "failed"
      PROVE  LacksOptions(o)'
  <2>1. /\ cmd[o].kind = "cleanup" /\ cmd'[o].config = cmd[o].config /\ cmd'[o].opts = cmd[o].opts
    BY <1>1, <1>3, <1>5, RememberedIs
  <2> QED
    BY <1>5, <2>1 DEF LacksOptions
<1> QED
  BY <1>3, <1>4, <1>5 DEF Stops

LEMMA FailsAtIs ==
  ASSUME SetupTypes, NEW o \in Operators, FailsAt(o)
  PROVE  Stops(o) /\ cmd'[o].end = "failed"
<1> DEFINE c == [cmd[o] EXCEPT !.calm = FALSE]
<1>1. cmd[o] \in Commands
  BY DEF SetupTypes
<1>2. cmd' = [cmd EXCEPT ![o] = Ended(c, "failed")] /\ Running(o)
  BY DEF FailsAt
<1>3. c \in Commands /\ ~c.calm
  BY <1>1 DEF Commands
<1> HIDE DEF c
<1>4. cmd' \in [Operators -> Commands] /\ OthersStay(o) /\ cmd'[o] = Ended(c, "failed")
  BY <1>2, <1>3, EndedIs DEF SetupTypes, OthersStay
<1>5. cmd'[o].at = "idle" /\ cmd'[o].end = "failed" /\ cmd'[o].kind = "none"
  <2>1. Ended(c, "failed").at = "idle" /\ Ended(c, "failed").end = "failed"
    BY <1>3, EndedIs
  <2>2. c.calm = FALSE
    BY <1>3
  <2>3. Ended(c, "failed").kind = "none"
    BY <1>3, <2>2, RememberedIs
  <2> QED
    BY <1>4, <2>1, <2>3
<1> QED
  BY <1>2, <1>4, <1>5 DEF Stops

LEMMA FlagFields ==
  ASSUME NEW c \in Commands, NEW calm \in BOOLEAN, NEW crossed \in BOOLEAN
  PROVE  LET d == [c EXCEPT !.calm = calm, !.crossed = crossed]
         IN  /\ d \in Commands /\ SamePurpose(c, d) /\ d.at = c.at
             /\ d.todo = c.todo /\ d.refused = c.refused
             /\ d.calm = calm /\ d.crossed = crossed
BY DEF Commands, SamePurpose

LEMMA StartIs ==
  ASSUME SetupTypes, NEW o \in Operators, NEW c \in Commands, Purposeful(c), ~c.crossed, Start(o, c)
  PROVE  /\ Starts(o) /\ SamePurpose(c, cmd'[o])
         /\ cmd'[o].at = c.at /\ cmd'[o].todo = c.todo /\ cmd'[o].refused = c.refused
<1> DEFINE others == {p \in Operators \ {o} : Running(p)}
           mine == [c EXCEPT !.calm = others = {}, !.crossed = \E q \in others : Opposed(cmd[q], c)]
           theirs(p) == [cmd[p] EXCEPT !.calm = FALSE, !.crossed = @ \/ Opposed(cmd[p], c)]
<1>1. cmd \in [Operators -> Commands]
  BY DEF SetupTypes
<1>2. mine \in Commands /\ \A p \in Operators : theirs(p) \in Commands
  <2>1. (others = {}) \in BOOLEAN /\ (\E q \in others : Opposed(cmd[q], c)) \in BOOLEAN
    OBVIOUS
  <2>2. mine \in Commands
    BY <2>1, FlagFields, Zenon
  <2>3. ASSUME NEW p \in Operators
        PROVE  theirs(p) \in Commands
    <3>1. cmd[p] \in Commands /\ FALSE \in BOOLEAN /\ (cmd[p].crossed \/ Opposed(cmd[p], c)) \in BOOLEAN
      BY <1>1
    <3> QED
      BY <3>1, FlagFields, Zenon
  <2> QED
    BY <2>2, <2>3
<1>3. cmd' = [p \in Operators |-> CASE p = o -> mine [] p \in others -> theirs(p) [] OTHER -> cmd[p]]
  BY DEF Start
<1>4. /\ cmd'[o] = mine
      /\ \A p \in others : cmd'[p] = theirs(p)
      /\ \A p \in Operators \ {o} : ~Running(p) => cmd'[p] = cmd[p]
  BY <1>3
<1>5. cmd' \in [Operators -> Commands]
  BY <1>1, <1>2, <1>3
<1>6. /\ SamePurpose(c, mine) /\ mine.at = c.at /\ mine.todo = c.todo /\ mine.refused = c.refused
      /\ Purposeful(mine)
      /\ mine.crossed = (\E q \in others : Opposed(cmd[q], c)) /\ mine.calm = (others = {})
  BY DEF SamePurpose, Purposeful, Commands
<1>7. ASSUME NEW p \in others
      PROVE  /\ SamePurpose(cmd[p], theirs(p)) /\ theirs(p).at = cmd[p].at
             /\ theirs(p).todo = cmd[p].todo /\ theirs(p).refused = cmd[p].refused
             /\ theirs(p).calm = FALSE /\ theirs(p).crossed = (cmd[p].crossed \/ Opposed(cmd[p], c))
  BY <1>1 DEF SamePurpose, Commands
<1>8. ~Running(o)
  BY DEF Start
<1> HIDE DEF mine, theirs
<1>9. ASSUME NEW p \in Operators \ {o}
      PROVE  /\ SamePurpose(cmd[p], cmd'[p]) /\ cmd'[p].at = cmd[p].at
             /\ cmd'[p].todo = cmd[p].todo /\ cmd'[p].refused = cmd[p].refused
             /\ ~Running(p) => cmd'[p] = cmd[p]
             /\ Running(p) => ~cmd'[p].calm /\ ~cmd'[o].calm
             /\ cmd[p].crossed => cmd'[p].crossed
             /\ Running(p) /\ Opposed(cmd[p], cmd'[o]) => cmd'[p].crossed /\ cmd'[o].crossed
  <2>1. CASE ~Running(p)
    BY <2>1, <1>4 DEF SamePurpose
  <2>2. CASE Running(p)
    <3>1. p \in others /\ cmd'[p] = theirs(p)
      BY <2>2, <1>4
    <3>2. ~cmd'[p].calm /\ ~cmd'[o].calm
      BY <3>1, <1>4, <1>6, <1>7, Zenon
    <3>3. cmd'[p].crossed <=> cmd[p].crossed \/ Opposed(cmd[p], c)
      BY <3>1, <1>4, <1>7, Zenon
    <3>4. Opposed(cmd[p], cmd'[o]) <=> Opposed(cmd[p], c)
      BY <1>4, <1>6 DEF Opposed, SamePurpose
    <3>5. Opposed(cmd[p], c) => cmd'[o].crossed
      BY <3>1, <1>4, <1>6, Zenon
    <3> QED
      BY <2>2, <3>1, <3>2, <3>3, <3>4, <3>5, <1>7
  <2> QED
    BY <2>1, <2>2
<1> QED
  BY <1>4, <1>5, <1>6, <1>8, <1>9 DEF Starts

-----------------------------------------------------------------------------
(* The actions, one by one.                                                 *)

LEMMA StartSetupIs ==
  ASSUME SetupTypes, NEW o \in Operators, NEW s \in Slots, StartSetup(o, s)
  PROVE  /\ Starts(o) /\ cmd'[o].kind = "setup" /\ cmd'[o].at = "helm"
         /\ UNCHANGED <<there, crds, finalizers, flag, spoiled>>
<1>1. PICK config \in Configs, ns \in Namespaces, opts \in BOOLEAN, forced \in BOOLEAN :
        /\ Start(o, [NoCommand EXCEPT !.at = "helm", !.kind = "setup", !.slot = s,
                       !.config = config, !.ns = ns, !.opts = opts,
                       !.forced = forced /\ flag[s] # NoFlag])
        /\ UNCHANGED spoiled
  BY DEF StartSetup
<1>2. PICK again \in BOOLEAN : again = (forced /\ flag[s] # NoFlag)
  OBVIOUS
<1> DEFINE c == [NoCommand EXCEPT !.at = "helm", !.kind = "setup", !.slot = s,
                   !.config = config, !.ns = ns, !.opts = opts, !.forced = again]
<1>3. Start(o, c)
  BY <1>1, <1>2
<1>4. c \in Commands /\ c.kind = "setup" /\ c.at = "helm" /\ Purposeful(c) /\ ~c.crossed
  BY NoCommandIs, ZenonT(30) DEF Commands, Purposeful, SetupSteps, NoCommand
<1> HIDE DEF c
<1>5. /\ Starts(o) /\ SamePurpose(c, cmd'[o]) /\ cmd'[o].at = c.at
  BY <1>3, <1>4, StartIs
<1> QED
  BY <1>1, <1>3, <1>4, <1>5 DEF Start, SamePurpose

LEMMA StartCleanupIs ==
  ASSUME SetupTypes, NEW o \in Operators, NEW s \in Slots, StartCleanup(o, s)
  PROVE  /\ Starts(o) /\ cmd'[o].kind = "cleanup" /\ cmd'[o].at = "revoke"
         /\ cmd'[o].todo = Reverse(Rights)
         /\ spoiled' = spoiled \cup {t \in Slots : flag[t] # NoFlag /\ flag[t].ns = cmd'[o].ns}
         /\ UNCHANGED <<there, crds, finalizers, flag>>
<1>1. PICK config \in Configs \cup {NoFlag}, given \in Namespaces \cup {NoFlag}, opts \in BOOLEAN :
        /\ config = NoFlag => flag[s] # NoFlag
        /\ LET ns == NamespaceFor(s, config, given)
           IN  /\ Start(o, [NoCommand EXCEPT
                    !.at = "revoke", !.todo = Reverse(Rights), !.kind = "cleanup",
                    !.slot = s, !.ns = ns,
                    !.config = IF config = NoFlag THEN flag[s].config ELSE config,
                    !.opts = IF config = NoFlag THEN flag[s].opts ELSE opts])
               /\ spoiled' = spoiled \cup {t \in Slots : flag[t] # NoFlag /\ flag[t].ns = ns}
  BY DEF StartCleanup
<1>2. flag[s] # NoFlag => /\ flag[s].ns \in Namespaces /\ flag[s].config \in Configs
                          /\ flag[s].opts \in BOOLEAN
  BY DEF SetupTypes, TypeOK, Flags
<1>3. PICK ns \in Namespaces : ns = NamespaceFor(s, config, given)
  BY <1>1, <1>2, DefaultNsAssumption DEF NamespaceFor
<1>4. PICK conf \in Configs : conf = IF config = NoFlag THEN flag[s].config ELSE config
  BY <1>1, <1>2
<1>5. PICK o2 \in BOOLEAN : o2 = IF config = NoFlag THEN flag[s].opts ELSE opts
  BY <1>1, <1>2, Zenon
<1> DEFINE c == [NoCommand EXCEPT !.at = "revoke", !.todo = Reverse(Rights), !.kind = "cleanup",
                    !.slot = s, !.ns = ns, !.config = conf, !.opts = o2]
<1>6. Start(o, c)
  BY <1>1, <1>3, <1>4, <1>5, Zenon
<1>7. spoiled' = spoiled \cup {t \in Slots : flag[t] # NoFlag /\ flag[t].ns = ns}
  BY <1>1, <1>3
<1>8. /\ c \in Commands /\ c.kind = "cleanup" /\ c.at = "revoke" /\ c.todo = Reverse(Rights)
      /\ c.ns = ns /\ c.slot = s /\ c.config = conf /\ c.end = "none" /\ ~c.crossed
  BY NoCommandIs, ListFacts DEF Commands, CleanupSteps, NoCommand
<1> HIDE DEF c
<1>9. Purposeful(c)
  BY <1>8, ListFacts DEF Purposeful, CleanupSteps
<1>10. /\ Starts(o) /\ SamePurpose(c, cmd'[o]) /\ cmd'[o].at = c.at /\ cmd'[o].todo = c.todo
  BY <1>6, <1>8, <1>9, StartIs
<1> QED
  BY <1>6, <1>7, <1>8, <1>10 DEF Start, SamePurpose

\* A set-up only adds objects of its namespace, a cleanup only takes away some.
Touches(o) ==
    \A k \in Kinds, ns \in Namespaces :
      /\ <<k, ns>> \in there' /\ <<k, ns>> \notin there
           => cmd[o].kind = "setup" /\ ns = cmd[o].ns
      /\ <<k, ns>> \in there /\ <<k, ns>> \notin there'
           => cmd[o].kind = "cleanup" /\ ns = cmd[o].ns

Acts(o) == (GoesOn(o) \/ Stops(o)) /\ Touches(o)

SetupWork(o) ==
    \/ InstallKueue(o) \/ InstallFails(o)
    \/ ApplyQueues(o) \/ ApplyGivesUp(o) \/ ApplyQueuesFails(o)
    \/ GrantRight(o) \/ BeginStorage(o)
    \/ CreateObject(o) \/ StorageRefused(o) \/ SaveFlag(o)

CleanupWork(o) ==
    \/ RevokeRight(o) \/ RevokeRefused(o)
    \/ FreeQueues(o) \/ FreeRefused(o) \/ Uninstall(o)
    \/ DeleteObject(o) \/ DeleteRefused(o) \/ DeleteFlag(o)

\* The step of a command tells which command it is.
LEMMA StepTells ==
  ASSUME SetupTypes, NEW o \in Operators
  PROVE  /\ cmd[o].at \in SetupSteps => Running(o) /\ cmd[o].kind = "setup"
         /\ cmd[o].at \in CleanupSteps => Running(o) /\ cmd[o].kind = "cleanup"
         /\ Running(o) => cmd[o].todo \in Seq(Kinds) /\ cmd[o].ns \in Namespaces
         /\ cmd[o].at \in {"rights", "revoke"} => ToSet(cmd[o].todo) \subseteq ToSet(Rights)
         /\ cmd[o].at \in {"storage", "delete"}
              => ToSet(cmd[o].todo) \subseteq ToSet(Manifest(cmd[o].config))
<1>1. cmd[o] \in Commands /\ (Running(o) => Purposeful(cmd[o]))
  BY DEF SetupTypes
<1> QED
  BY <1>1 DEF Running, Purposeful, Commands, SetupSteps, CleanupSteps

LEMMA HeadIs ==
  ASSUME SetupTypes, NEW o \in Operators, Running(o), cmd[o].todo # <<>>
  PROVE  Head1(o) \in Kinds /\ Head1(o) \in ToSet(cmd[o].todo)
<1>1. cmd[o].todo \in Seq(Kinds)
  BY DEF SetupTypes, Commands
<1> QED
  BY <1>1, TailFacts DEF Head1

LEMMA SetupWorks ==
  ASSUME SetupTypes, NEW o \in Operators, SetupWork(o)
  PROVE  Acts(o) /\ Running(o) /\ cmd[o].kind = "setup"
<1> USE StepTells DEF At, Touches, Acts
<1>1. CASE InstallKueue(o)
  <2>1. cmd[o].at \in SetupSteps /\ Goto(o, "queues") /\ there' = there \cup {Release}
    BY <1>1 DEF InstallKueue, SetupSteps
  <2>2. GoesOn(o)
    BY <2>1, GotoIs
  <2> QED
    BY <2>1, <2>2, ObjectsDiffer
<1>2. CASE InstallFails(o)
  <2>1. cmd[o].at \in SetupSteps /\ FailsAt(o) /\ there' = there \cup {Release}
    BY <1>2 DEF InstallFails, SetupSteps
  <2> QED
    BY <2>1, FailsAtIs, ObjectsDiffer
<1>3. CASE ApplyQueues(o)
  <2>1. /\ cmd[o].at \in SetupSteps /\ Begin(o, "rights", Rights)
        /\ there' = there \cup {Flavor, ClusterQueue, LocalQueue(cmd[o].ns)}
    BY <1>3 DEF ApplyQueues, SetupSteps
  <2>2. GoesOn(o)
    BY <2>1, BeginIs, ListFacts
  <2>3. there' \ there \subseteq QueueObjects /\ there \subseteq there'
    BY <2>1 DEF QueueObjects
  <2> QED
    BY <2>1, <2>2, <2>3, ObjectsDiffer
<1>4. CASE ApplyGivesUp(o)
  <2>1. cmd[o].at \in SetupSteps /\ Finish(o, "failed") /\ there' = there
    BY <1>4 DEF ApplyGivesUp, SetupSteps
  <2> QED
    BY <2>1, FinishIs
<1>5. CASE ApplyQueuesFails(o)
  <2>1. PICK made \in SUBSET {Flavor, ClusterQueue} :
          cmd[o].at \in SetupSteps /\ FailsAt(o) /\ there' = there \cup made
    BY <1>5 DEF ApplyQueuesFails, SetupSteps
  <2>2. made \subseteq QueueObjects
    BY DEF QueueObjects
  <2> QED
    BY <2>1, <2>2, FailsAtIs, ObjectsDiffer
<1>6. CASE GrantRight(o)
  <2>1. /\ cmd[o].at \in SetupSteps /\ Shorten(o) /\ cmd[o].todo # <<>>
        /\ there' = there \cup {<<Head1(o), cmd[o].ns>>}
    BY <1>6 DEF GrantRight, SetupSteps, Named
  <2> QED
    BY <2>1, ShortenIs, HeadIs, ObjectsDiffer
<1>7. CASE BeginStorage(o)
  <2>1. /\ cmd[o].at \in SetupSteps /\ Begin(o, "storage", Manifest(cmd[o].config))
        /\ there' = there
    BY <1>7 DEF BeginStorage, SetupSteps
  <2> QED
    BY <2>1, BeginIs, ListFacts
<1>8. CASE CreateObject(o)
  <2>1. /\ cmd[o].at \in SetupSteps /\ Shorten(o) /\ cmd[o].todo # <<>>
        /\ there' = there \cup {<<Head1(o), cmd[o].ns>>}
    BY <1>8 DEF CreateObject, SetupSteps
  <2> QED
    BY <2>1, ShortenIs, HeadIs, ObjectsDiffer
<1>9. CASE StorageRefused(o)
  <2>1. cmd[o].at \in SetupSteps /\ Finish(o, "failed") /\ there' = there
    BY <1>9 DEF StorageRefused, SetupSteps
  <2> QED
    BY <2>1, FinishIs
<1>10. CASE SaveFlag(o)
  <2>1. cmd[o].at \in SetupSteps /\ Finish(o, "done") /\ there' = there
    BY <1>10 DEF SaveFlag, SetupSteps
  <2> QED
    BY <2>1, FinishIs
<1> QED
  BY <1>1, <1>2, <1>3, <1>4, <1>5, <1>6, <1>7, <1>8, <1>9, <1>10 DEF SetupWork

LEMMA RefusedIs ==
  ASSUME SetupTypes, NEW o \in Operators, RevokeRefused(o)
  PROVE  /\ GoesOn(o) /\ cmd'[o].at = "revoke" /\ cmd'[o].todo = Tail(cmd[o].todo)
         /\ cmd'[o].refused = cmd[o].refused \cup {Named(Head1(o), cmd[o].ns)}
<1> DEFINE d == [cmd[o] EXCEPT !.todo = Tail(cmd[o].todo), !.calm = FALSE,
                   !.refused = cmd[o].refused \cup {Named(Head1(o), cmd[o].ns)}]
<1>1. /\ cmd[o].at = "revoke" /\ cmd[o].todo # <<>> /\ cmd' = [cmd EXCEPT ![o] = d]
  BY DEF RevokeRefused, At
<1>2. Running(o) /\ cmd[o].kind = "cleanup" /\ cmd[o] \in Commands /\ Purposeful(cmd[o])
  BY <1>1, StepTells DEF CleanupSteps, SetupTypes
<1>3. /\ Head1(o) \in Kinds /\ Tail(cmd[o].todo) \in Seq(Kinds)
      /\ ToSet(Tail(cmd[o].todo)) \subseteq ToSet(cmd[o].todo)
  BY <1>1, <1>2, TailFacts DEF Head1, Commands
<1>4. d \in Commands
  <2>1. cmd[o].refused \cup {Named(Head1(o), cmd[o].ns)} \in SUBSET (Kinds \X Namespaces)
    BY <1>2, <1>3 DEF Commands, Named
  <2> QED
    BY <1>2, <1>3, <2>1 DEF Commands
<1>5. cmd' \in [Operators -> Commands] /\ OthersStay(o) /\ cmd'[o] = d
  BY <1>1, <1>4 DEF SetupTypes, OthersStay
<1> QED
  BY <1>1, <1>2, <1>3, <1>5 DEF GoesOn, SamePurpose, Purposeful, Commands

LEMMA FreeRefusedIs ==
  ASSUME SetupTypes, NEW o \in Operators, FreeRefused(o)
  PROVE  /\ GoesOn(o) /\ cmd'[o].at = "uninstall" /\ cmd'[o].refused = cmd[o].refused
<1> DEFINE d == [cmd[o] EXCEPT !.at = "uninstall", !.calm = FALSE]
<1>1. /\ cmd[o].at = "revoke" /\ cmd' = [cmd EXCEPT ![o] = d]
  BY DEF FreeRefused, At
<1>2. Running(o) /\ cmd[o].kind = "cleanup" /\ cmd[o] \in Commands /\ Purposeful(cmd[o])
  BY <1>1, StepTells DEF CleanupSteps, SetupTypes
<1>3. d \in Commands
  BY <1>2 DEF Commands, CleanupSteps
<1>4. cmd' \in [Operators -> Commands] /\ OthersStay(o) /\ cmd'[o] = d
  BY <1>1, <1>3 DEF SetupTypes, OthersStay
<1> QED
  BY <1>1, <1>2, <1>4 DEF GoesOn, SamePurpose, Purposeful, Commands, CleanupSteps

LEMMA CleanupWorks ==
  ASSUME SetupTypes, NEW o \in Operators, CleanupWork(o)
  PROVE  Acts(o) /\ Running(o) /\ cmd[o].kind = "cleanup"
<1> USE StepTells DEF At, Touches, Acts
<1>1. CASE RevokeRight(o)
  <2>1. /\ cmd[o].at \in CleanupSteps /\ Shorten(o) /\ cmd[o].todo # <<>>
        /\ there' = there \ {<<Head1(o), cmd[o].ns>>}
    BY <1>1 DEF RevokeRight, CleanupSteps, Named
  <2> QED
    BY <2>1, ShortenIs, ObjectsDiffer
<1>2. CASE RevokeRefused(o)
  <2>1. cmd[o].at \in CleanupSteps /\ there' = there
    BY <1>2 DEF RevokeRefused, CleanupSteps
  <2> QED
    BY <1>2, <2>1, RefusedIs
<1>3. CASE FreeQueues(o)
  <2>1. cmd[o].at \in CleanupSteps /\ Goto(o, "uninstall") /\ there' = there
    BY <1>3 DEF FreeQueues, CleanupSteps
  <2> QED
    BY <2>1, GotoIs
<1>4. CASE FreeRefused(o)
  <2>1. cmd[o].at \in CleanupSteps /\ there' = there
    BY <1>4 DEF FreeRefused, CleanupSteps
  <2> QED
    BY <1>4, <2>1, FreeRefusedIs
<1>5. CASE Uninstall(o)
  <2>1. /\ cmd[o].at \in CleanupSteps /\ there' = there \ {Release}
        /\ Begin(o, "delete", Reverse(Manifest(cmd[o].config)))
    BY <1>5 DEF Uninstall, CleanupSteps
  <2>2. GoesOn(o)
    BY <2>1, BeginIs, ListFacts
  <2> QED
    BY <2>1, <2>2, ObjectsDiffer
<1>6. CASE DeleteObject(o)
  <2>1. /\ cmd[o].at \in CleanupSteps /\ Shorten(o) /\ cmd[o].todo # <<>>
        /\ there' = there \ {<<Head1(o), cmd[o].ns>>}
    BY <1>6 DEF DeleteObject, CleanupSteps
  <2> QED
    BY <2>1, ShortenIs, ObjectsDiffer
<1>7. CASE DeleteRefused(o)
  <2>1. cmd[o].at \in CleanupSteps /\ Finish(o, "failed") /\ there' = there /\ LacksOptions(o)
    BY <1>7 DEF DeleteRefused, CleanupSteps
  <2> QED
    BY <2>1, FinishIs
<1>8. CASE DeleteFlag(o)
  <2>1. cmd[o].at \in CleanupSteps /\ Finish(o, "done") /\ there' = there
    BY <1>8 DEF DeleteFlag, CleanupSteps
  <2> QED
    BY <2>1, FinishIs
<1> QED
  BY <1>1, <1>2, <1>3, <1>4, <1>5, <1>6, <1>7, <1>8 DEF CleanupWork

-----------------------------------------------------------------------------
(* The parts of the invariant.                                              *)

Objects == {Release} \cup QueueObjects
             \cup UNION {RightsOf(ns) \cup StorageOf("azure", ns) : ns \in Namespaces}

LEMMA ObjectsHas ==
  ASSUME NEW ns \in Namespaces
  PROVE  /\ \A k \in ToSet(Rights) : Named(k, ns) \in Objects
         /\ \A config \in Configs : \A k \in ToSet(Manifest(config)) : <<k, ns>> \in Objects
         /\ Release \in Objects /\ QueueObjects \subseteq Objects
<1>1. RightsOf(ns) \cup StorageOf("azure", ns) \subseteq Objects
  BY DEF Objects
<1>2. ASSUME NEW config \in Configs, NEW k \in ToSet(Manifest(config))
      PROVE  k \in ToSet(Manifest("azure"))
  <2>1. k \in {"pvc", "pod", "service"}
    BY ListFacts DEF StorageKinds
  <2>2. /\ Manifest("azure") = <<"pvc", "pod", "service">>
        /\ DOMAIN <<"pvc", "pod", "service">> = 1 .. 3
    BY DEF Manifest
  <2> QED
    BY <2>1, <2>2 DEF ToSet
<1> QED
  BY <1>1, <1>2 DEF Objects, RightsOf, StorageOf

LEMMA SetupWorkTyped ==
  ASSUME SetupTypes, NEW o \in Operators, SetupWork(o)
  PROVE  /\ there' \subseteq Objects /\ crds' \in {"absent", "established", "terminating"}
         /\ finalizers' \in BOOLEAN
         /\ flag' \in [Slots -> Flags \cup {NoFlag}] /\ spoiled' \subseteq Slots
<1>1. /\ there \subseteq Objects /\ crds \in {"absent", "established", "terminating"}
      /\ flag \in [Slots -> Flags \cup {NoFlag}] /\ spoiled \subseteq Slots
  BY DEF SetupTypes, TypeOK, Objects
<1>2. finalizers' \in BOOLEAN
  <2>1. finalizers \in BOOLEAN
    BY DEF SetupTypes, TypeOK
  <2>2. CASE ApplyQueuesFails(o)
    BY <2>2 DEF ApplyQueuesFails
  <2>3. CASE ApplyQueues(o)
    BY <2>3 DEF ApplyQueues
  <2>4. CASE UNCHANGED finalizers
    BY <2>1, <2>4
  <2> QED
    BY <2>2, <2>3, <2>4 DEF SetupWork, InstallKueue, InstallFails, ApplyGivesUp, GrantRight,
       BeginStorage, CreateObject, StorageRefused, SaveFlag
<1>3. Running(o) /\ cmd[o].ns \in Namespaces /\ cmd[o] \in Commands /\ Purposeful(cmd[o])
  BY SetupWorks, StepTells DEF SetupTypes
<1>4. there' \subseteq Objects
  <2>1. CASE GrantRight(o) \/ CreateObject(o)
    <3>1. Head1(o) \in ToSet(cmd[o].todo) /\ cmd[o].config \in Configs
      BY <2>1, <1>3, HeadIs DEF GrantRight, CreateObject, Purposeful
    <3> QED
      BY <2>1, <1>1, <1>3, <3>1, ObjectsHas, StepTells DEF GrantRight, CreateObject, At
  <2>2. CASE InstallKueue(o) \/ InstallFails(o)
    BY <2>2, <1>1, <1>3, ObjectsHas DEF InstallKueue, InstallFails
  <2>3. CASE ApplyQueues(o) \/ ApplyQueuesFails(o)
    BY <2>3, <1>1, <1>3, ObjectsHas DEF ApplyQueues, ApplyQueuesFails, QueueObjects
  <2>4. CASE UNCHANGED there
    BY <2>4, <1>1
  <2> QED
    BY <2>1, <2>2, <2>3, <2>4 DEF SetupWork, ApplyGivesUp, BeginStorage, StorageRefused, SaveFlag
<1>5. crds' \in {"absent", "established", "terminating"}
  BY <1>1 DEF SetupWork, InstallKueue, InstallFails, ApplyQueues, ApplyGivesUp, ApplyQueuesFails,
     GrantRight, BeginStorage, CreateObject, StorageRefused, SaveFlag
<1>6. flag' \in [Slots -> Flags \cup {NoFlag}] /\ spoiled' \subseteq Slots
  <2>1. CASE SaveFlag(o)
    <3>1. [config |-> cmd[o].config, ns |-> cmd[o].ns, opts |-> cmd[o].opts] \in Flags
      BY <1>3 DEF Flags, Purposeful, Commands
    <3>2. flag' = [flag EXCEPT ![cmd[o].slot] =
                     [config |-> cmd[o].config, ns |-> cmd[o].ns, opts |-> cmd[o].opts]]
      BY <2>1 DEF SaveFlag
    <3>3. spoiled' \subseteq spoiled \cup {cmd[o].slot} /\ cmd[o].slot \in Slots
      BY <2>1, <1>3 DEF SaveFlag, Purposeful
    <3> QED
      BY <1>1, <3>1, <3>2, <3>3
  <2>2. CASE UNCHANGED <<flag, spoiled>>
    BY <2>2, <1>1
  <2> QED
    BY <2>1, <2>2 DEF SetupWork, InstallKueue, InstallFails, ApplyQueues, ApplyGivesUp,
       ApplyQueuesFails, GrantRight, BeginStorage, CreateObject, StorageRefused, FailsAt
<1> QED
  BY <1>2, <1>4, <1>5, <1>6

LEMMA CleanupWorkTyped ==
  ASSUME SetupTypes, NEW o \in Operators, CleanupWork(o)
  PROVE  /\ there' \subseteq Objects /\ crds' \in {"absent", "established", "terminating"}
         /\ finalizers' \in BOOLEAN
         /\ flag' \in [Slots -> Flags \cup {NoFlag}] /\ spoiled' \subseteq Slots
<1>1. /\ there \subseteq Objects /\ crds \in {"absent", "established", "terminating"}
      /\ flag \in [Slots -> Flags \cup {NoFlag}] /\ spoiled \subseteq Slots
  BY DEF SetupTypes, TypeOK, Objects
<1>2. finalizers' \in BOOLEAN
  <2>1. finalizers \in BOOLEAN
    BY DEF SetupTypes, TypeOK
  <2>2. CASE FreeQueues(o)
    BY <2>2 DEF FreeQueues
  <2>3. CASE UNCHANGED finalizers
    BY <2>1, <2>3
  <2> QED
    BY <2>2, <2>3 DEF CleanupWork, RevokeRight, RevokeRefused, FreeRefused, Uninstall,
       DeleteObject, DeleteRefused, DeleteFlag
<1>3. there' \subseteq there
  BY DEF CleanupWork, RevokeRight, RevokeRefused, FreeQueues, FreeRefused, Uninstall,
     DeleteObject, DeleteRefused, DeleteFlag
<1>4. crds' \in {"absent", "established", "terminating"}
  BY <1>1 DEF CleanupWork, RevokeRight, RevokeRefused, FreeQueues, FreeRefused, Uninstall,
     DeleteObject, DeleteRefused, DeleteFlag
<1>5. flag' \in [Slots -> Flags \cup {NoFlag}] /\ spoiled' \subseteq Slots
  <2>1. CASE DeleteFlag(o)
    BY <2>1, <1>1 DEF DeleteFlag
  <2>2. CASE UNCHANGED <<flag, spoiled>>
    BY <2>2, <1>1
  <2> QED
    BY <2>1, <2>2 DEF CleanupWork, RevokeRight, RevokeRefused, FreeQueues, FreeRefused,
       Uninstall, DeleteObject, DeleteRefused
<1> QED
  BY <1>1, <1>2, <1>3, <1>4, <1>5

\* What kind of step a step is.
LEMMA StepKinds ==
  ASSUME SetupTypes, SetupNext
  PROVE  \/ \E o \in Operators : SetupWork(o) \/ CleanupWork(o) \/ Fails(o)
         \/ \E o \in Operators, s \in Slots : StartSetup(o, s) \/ StartCleanup(o, s)
         \/ CrdsSettle
BY DEF SetupNext, SetupStep, CleanupStep, SetupWork, CleanupWork

LEMMA FailsIs ==
  ASSUME SetupTypes, NEW o \in Operators, Fails(o)
  PROVE  /\ Acts(o) /\ Stops(o) /\ Running(o)
         /\ UNCHANGED <<there, crds, finalizers, flag, spoiled>>
BY FailsAtIs DEF Fails, FailsAt, Acts, Touches

LEMMA TypesPreserved ==
  ASSUME SetupTypes, SetupNext
  PROVE  SetupTypes'
<1>1. /\ there' \subseteq Objects /\ crds' \in {"absent", "established", "terminating"}
      /\ finalizers' \in BOOLEAN
      /\ flag' \in [Slots -> Flags \cup {NoFlag}] /\ spoiled' \subseteq Slots
  <2>1. /\ there \subseteq Objects /\ crds \in {"absent", "established", "terminating"}
        /\ flag \in [Slots -> Flags \cup {NoFlag}] /\ spoiled \subseteq Slots
    BY DEF SetupTypes, TypeOK, Objects
  <2>2. finalizers \in BOOLEAN
    BY DEF SetupTypes, TypeOK
  <2>3. CASE \E o \in Operators : SetupWork(o)
    BY <2>3, SetupWorkTyped
  <2>4. CASE \E o \in Operators : CleanupWork(o)
    BY <2>4, CleanupWorkTyped
  <2>5. ASSUME NEW o \in Operators, Fails(o)
        PROVE  UNCHANGED <<there, crds, finalizers, flag, spoiled>>
    BY <2>5, FailsIs
  <2>6. ASSUME NEW o \in Operators, NEW s \in Slots, StartSetup(o, s)
        PROVE  UNCHANGED <<there, crds, finalizers, flag, spoiled>>
    BY <2>6, StartSetupIs
  <2>7. ASSUME NEW o \in Operators, NEW s \in Slots, StartCleanup(o, s)
        PROVE  UNCHANGED <<there, crds, finalizers, flag>> /\ spoiled' \subseteq Slots
    BY <2>1, <2>7, StartCleanupIs
  <2>8. CASE CrdsSettle
    <3>1. there' \subseteq there /\ crds' \in {"absent", "established"} /\ UNCHANGED <<flag, spoiled>>
      BY <2>8 DEF CrdsSettle
    <3>2. UNCHANGED finalizers
      BY <2>8 DEF CrdsSettle
    <3> QED
      BY <3>1, <3>2, <2>1, <2>2
  <2>9. ASSUME UNCHANGED <<there, crds, finalizers, flag>>, spoiled' \subseteq Slots
        PROVE  /\ there' \subseteq Objects /\ crds' \in {"absent", "established", "terminating"}
               /\ finalizers' \in BOOLEAN
               /\ flag' \in [Slots -> Flags \cup {NoFlag}] /\ spoiled' \subseteq Slots
    <3>1. there' = there /\ crds' = crds /\ flag' = flag
      BY <2>9
    <3>2. finalizers' = finalizers
      BY <2>9
    <3> QED
      BY <3>1, <3>2, <2>1, <2>2, <2>9
  <2> QED
    BY <2>1, <2>3, <2>4, <2>5, <2>6, <2>7, <2>8, <2>9, StepKinds
<1>2. /\ cmd' \in [Operators -> Commands]
      /\ \A p \in Operators : Running(p)' => Purposeful(cmd'[p])
  <2>1. ASSUME NEW o \in Operators, Acts(o)
        PROVE  /\ cmd' \in [Operators -> Commands]
               /\ \A p \in Operators : Running(p)' => Purposeful(cmd'[p])
    BY <2>1 DEF Acts, GoesOn, Stops, OthersStay, Running, SetupTypes
  <2>2. ASSUME NEW o \in Operators, Starts(o)
        PROVE  /\ cmd' \in [Operators -> Commands]
               /\ \A p \in Operators : Running(p)' => Purposeful(cmd'[p])
    <3>1. cmd' \in [Operators -> Commands] /\ Purposeful(cmd'[o])
      BY <2>2 DEF Starts
    <3>2. ASSUME NEW p \in Operators \ {o}, Running(p)'
          PROVE  Purposeful(cmd'[p])
      <4>1. cmd'[p].at = cmd[p].at /\ Running(p) /\ Purposeful(cmd[p])
        BY <2>2, <3>2 DEF Starts, Running, SetupTypes
      <4>2. /\ cmd'[p].kind = cmd[p].kind /\ cmd'[p].slot = cmd[p].slot /\ cmd'[p].end = cmd[p].end
            /\ cmd'[p].config = cmd[p].config /\ cmd'[p].todo = cmd[p].todo
        BY <2>2 DEF Starts, SamePurpose
      <4> QED
        BY <4>1, <4>2 DEF Purposeful
    <3> QED
      BY <3>1, <3>2 DEF Running
  <2>3. CASE CrdsSettle
    BY <2>3 DEF CrdsSettle, SetupTypes, Running
  <2> QED
    BY <2>1, <2>2, <2>3, StepKinds, SetupWorks, CleanupWorks, FailsIs, StartSetupIs, StartCleanupIs
<1>3. \A p \in Operators : cmd'[p].end \in {"none", "done", "failed"}
  BY <1>2 DEF Commands
<1> QED
  BY <1>1, <1>2, <1>3 DEF SetupTypes, TypeOK, Objects, Running

LEMMA AwarePreserved ==
  ASSUME SetupTypes, AwareInv, SetupNext
  PROVE  AwareInv'
<1> DEFINE Pair(p, q) ==
      p # q /\ Running(p) /\ Running(q)
        => ~cmd[p].calm /\ (Opposed(cmd[p], cmd[q]) => cmd[p].crossed)
<1>1. ASSUME NEW o \in Operators, GoesOn(o) \/ Stops(o), NEW p \in Operators, NEW q \in Operators
      PROVE  Pair(p, q)'
  <2>1. Pair(p, q)
    BY DEF AwareInv
  <2>2. SUFFICES ASSUME p # q, Running(p)', Running(q)'
                 PROVE  (~cmd[p].calm /\ (Opposed(cmd[p], cmd[q]) => cmd[p].crossed))'
    OBVIOUS
  <2>3. Running(p) /\ Running(q)
    BY <1>1, <2>2 DEF GoesOn, Stops, OthersStay, Running
  <2>4. CASE p # o /\ q # o
    BY <1>1, <2>1, <2>2, <2>3, <2>4 DEF GoesOn, Stops, OthersStay
  <2>5. CASE p = o
    <3>1. GoesOn(o) /\ cmd'[q] = cmd[q]
      BY <1>1, <2>2, <2>5 DEF GoesOn, Stops, OthersStay, Running
    <3>2. Opposed(cmd'[p], cmd'[q]) <=> Opposed(cmd[p], cmd[q])
      BY <3>1, <2>5 DEF Opposed, GoesOn, SamePurpose
    <3> QED
      BY <2>1, <2>2, <2>3, <2>5, <3>1, <3>2 DEF GoesOn
  <2>6. CASE q = o
    <3>1. GoesOn(o) /\ cmd'[p] = cmd[p]
      BY <1>1, <2>2, <2>6 DEF GoesOn, Stops, OthersStay, Running
    <3>2. Opposed(cmd'[p], cmd'[q]) <=> Opposed(cmd[p], cmd[q])
      BY <3>1, <2>6 DEF Opposed, GoesOn, SamePurpose
    <3> QED
      BY <2>1, <2>2, <2>3, <3>1, <3>2
  <2> QED
    BY <2>4, <2>5, <2>6
<1>2. ASSUME NEW o \in Operators, Starts(o), NEW p \in Operators, NEW q \in Operators
      PROVE  Pair(p, q)'
  <2>1. Pair(p, q)
    BY DEF AwareInv
  <2>2. SUFFICES ASSUME p # q, Running(p)', Running(q)'
                 PROVE  (~cmd[p].calm /\ (Opposed(cmd[p], cmd[q]) => cmd[p].crossed))'
    OBVIOUS
  <2>3. \A r \in Operators \ {o} : Running(r)' => Running(r)
    BY <1>2 DEF Starts, Running
  <2>4. \A r \in Operators \ {o} : cmd'[r].kind = cmd[r].kind /\ cmd'[r].ns = cmd[r].ns
    BY <1>2 DEF Starts, SamePurpose
  <2>5. CASE p # o /\ q # o
    <3>1. Opposed(cmd'[p], cmd'[q]) <=> Opposed(cmd[p], cmd[q])
      BY <2>4, <2>5 DEF Opposed
    <3> QED
      BY <1>2, <2>1, <2>2, <2>3, <2>5, <3>1 DEF Starts
  <2>6. CASE p = o
    <3>1. Opposed(cmd'[p], cmd'[q]) <=> Opposed(cmd[q], cmd'[o])
      BY <2>2, <2>4, <2>6 DEF Opposed
    <3> QED
      BY <1>2, <2>2, <2>3, <2>6, <3>1 DEF Starts
  <2>7. CASE q = o
    <3>1. Opposed(cmd'[p], cmd'[q]) <=> Opposed(cmd[p], cmd'[o])
      BY <2>2, <2>4, <2>7 DEF Opposed
    <3> QED
      BY <1>2, <2>2, <2>3, <2>7, <3>1 DEF Starts
  <2> QED
    BY <2>5, <2>6, <2>7
<1>3. ASSUME CrdsSettle, NEW p \in Operators, NEW q \in Operators
      PROVE  Pair(p, q)'
  BY <1>3 DEF CrdsSettle, AwareInv, Running
<1>4. \A p, q \in Operators : Pair(p, q)'
  BY <1>1, <1>2, <1>3, StepKinds, SetupWorks, CleanupWorks, FailsIs, StartSetupIs, StartCleanupIs
     DEF Acts
<1> QED
  BY <1>4 DEF AwareInv

LEMMA RecoversPreserved ==
  ASSUME SetupTypes, CleanupRecovers, SetupNext
  PROVE  CleanupRecovers'
<1> DEFINE Fine(p) ==
      cmd[p].kind = "cleanup" /\ cmd[p].end = "failed" /\ cmd[p].calm => LacksOptions(p)
<1>1. ASSUME NEW p \in Operators, cmd'[p] = cmd[p]
      PROVE  Fine(p)'
  BY <1>1 DEF CleanupRecovers, LacksOptions
<1>2. ASSUME NEW p \in Operators, Purposeful(cmd'[p])
      PROVE  Fine(p)'
  BY <1>2 DEF Purposeful
<1>3. ASSUME NEW o \in Operators, GoesOn(o) \/ Stops(o), NEW p \in Operators
      PROVE  Fine(p)'
  <2>1. CASE p = o
    BY <1>2, <1>3, <2>1 DEF GoesOn, Stops
  <2>2. CASE p # o
    BY <1>1, <1>3, <2>2 DEF GoesOn, Stops, OthersStay
  <2> QED
    BY <2>1, <2>2
<1>4. ASSUME NEW o \in Operators, Starts(o), NEW p \in Operators
      PROVE  Fine(p)'
  <2>1. CASE p # o /\ ~Running(p)
    BY <1>1, <1>4, <2>1 DEF Starts
  <2>2. CASE p # o /\ Running(p)
    <3>1. cmd'[p].end = "none"
      BY <1>4, <2>2 DEF Starts, SamePurpose, SetupTypes, Purposeful
    <3> QED
      BY <3>1
  <2>3. CASE p = o
    BY <1>2, <1>4, <2>3 DEF Starts
  <2> QED
    BY <2>1, <2>2, <2>3
<1>5. ASSUME CrdsSettle, NEW p \in Operators
      PROVE  Fine(p)'
  BY <1>1, <1>5 DEF CrdsSettle
<1>6. \A p \in Operators : Fine(p)'
  BY <1>3, <1>4, <1>5, StepKinds, SetupWorks, CleanupWorks, FailsIs, StartSetupIs, StartCleanupIs
     DEF Acts
<1> QED
  BY <1>6 DEF CleanupRecovers

\* The flag files change with the last step of a command only.
LEMMA FlagsChange ==
  ASSUME SetupTypes, NEW o \in Operators, SetupWork(o) \/ CleanupWork(o)
  PROVE  \/ UNCHANGED <<flag, spoiled>>
         \/ SaveFlag(o) /\ Stops(o)
         \/ DeleteFlag(o) /\ Stops(o)
<1>1. SaveFlag(o) \/ DeleteFlag(o) => Stops(o)
  <2>1. SaveFlag(o) \/ DeleteFlag(o) => cmd[o].at \in SetupSteps \cup CleanupSteps /\ Finish(o, "done")
    BY DEF SaveFlag, DeleteFlag, At, SetupSteps, CleanupSteps
  <2>2. SaveFlag(o) \/ DeleteFlag(o) => Running(o)
    BY <2>1, StepTells
  <2> QED
    BY <2>1, <2>2, FinishIs
<1> QED
  BY <1>1 DEF SetupWork, CleanupWork, InstallKueue, InstallFails, ApplyQueues, ApplyGivesUp,
     ApplyQueuesFails, GrantRight, BeginStorage, CreateObject, StorageRefused, FailsAt,
     RevokeRight, RevokeRefused, FreeQueues, FreeRefused, Uninstall, DeleteObject, DeleteRefused

LEMMA AimedPreserved ==
  ASSUME SetupTypes, AwareInv, AimedInv, SetupNext
  PROVE  AimedInv'
<1> DEFINE Clear(s, p) ==
      flag[s] # NoFlag /\ s \notin spoiled /\ Running(p) /\ cmd[p].kind = "cleanup"
        => cmd[p].ns # flag[s].ns
<1>1. ASSUME NEW o \in Operators, GoesOn(o) \/ Stops(o), UNCHANGED <<flag, spoiled>>,
             NEW s \in Slots, NEW p \in Operators
      PROVE  Clear(s, p)'
  <2>1. Clear(s, p)
    BY DEF AimedInv
  <2>2. Running(p)' => Running(p) /\ cmd'[p].kind = cmd[p].kind /\ cmd'[p].ns = cmd[p].ns
    BY <1>1 DEF GoesOn, Stops, OthersStay, SamePurpose, Running
  <2> QED
    BY <1>1, <2>1, <2>2
<1>2. ASSUME NEW o \in Operators, SaveFlag(o), Stops(o), NEW s \in Slots, NEW p \in Operators
      PROVE  Clear(s, p)'
  <2>1. Clear(s, p)
    BY DEF AimedInv
  <2>2. Running(p)' => p # o /\ Running(p) /\ cmd'[p] = cmd[p]
    BY <1>2 DEF Stops, OthersStay, Running
  <2>3. /\ cmd[o].kind = "setup" /\ Running(o)
        /\ flag' = [flag EXCEPT ![cmd[o].slot] =
                      [config |-> cmd[o].config, ns |-> cmd[o].ns, opts |-> cmd[o].opts]]
        /\ spoiled' = IF cmd[o].crossed THEN spoiled \cup {cmd[o].slot} ELSE spoiled \ {cmd[o].slot}
    BY <1>2, StepTells DEF SaveFlag, At, SetupSteps
  <2>4. CASE s = cmd[o].slot
    <3>1. flag'[s].ns = cmd[o].ns /\ (s \notin spoiled' => ~cmd[o].crossed)
      BY <2>3, <2>4 DEF SetupTypes, TypeOK
    <3>2. ASSUME Running(p)', cmd'[p].kind = "cleanup", s \notin spoiled', cmd[p].ns = cmd[o].ns
          PROVE  FALSE
      BY <2>2, <2>3, <3>1, <3>2 DEF AwareInv, Opposed
    <3> QED
      BY <2>2, <3>1, <3>2
  <2>5. CASE s # cmd[o].slot
    <3>1. flag'[s] = flag[s] /\ (s \in spoiled' <=> s \in spoiled)
      BY <2>3, <2>5 DEF SetupTypes, TypeOK
    <3> QED
      BY <2>1, <2>2, <3>1
  <2> QED
    BY <2>4, <2>5
<1>3. ASSUME NEW o \in Operators, DeleteFlag(o), Stops(o), NEW s \in Slots, NEW p \in Operators
      PROVE  Clear(s, p)'
  <2>1. Clear(s, p)
    BY DEF AimedInv
  <2>2. Running(p)' => p # o /\ Running(p) /\ cmd'[p] = cmd[p]
    BY <1>3 DEF Stops, OthersStay, Running
  <2>3. /\ flag' = [flag EXCEPT ![cmd[o].slot] = NoFlag] /\ spoiled' = spoiled \ {cmd[o].slot}
    BY <1>3 DEF DeleteFlag
  <2>4. \/ flag'[s] = NoFlag
        \/ flag'[s] = flag[s] /\ (s \in spoiled' <=> s \in spoiled)
    <3>1. CASE s = cmd[o].slot
      BY <2>3, <3>1 DEF SetupTypes, TypeOK
    <3>2. CASE s # cmd[o].slot
      BY <2>3, <3>2 DEF SetupTypes, TypeOK
    <3> QED
      BY <3>1, <3>2
  <2> QED
    BY <2>1, <2>2, <2>4
<1>4. ASSUME NEW o \in Operators, Starts(o), flag' = flag, spoiled \subseteq spoiled',
             cmd'[o].kind = "cleanup" =>
               spoiled' = spoiled \cup {t \in Slots : flag[t] # NoFlag /\ flag[t].ns = cmd'[o].ns},
             NEW s \in Slots, NEW p \in Operators
      PROVE  Clear(s, p)'
  <2>1. Clear(s, p)
    BY DEF AimedInv
  <2>2. p # o => cmd'[p].at = cmd[p].at /\ cmd'[p].kind = cmd[p].kind /\ cmd'[p].ns = cmd[p].ns
    BY <1>4 DEF Starts, SamePurpose
  <2>3. CASE p # o
    BY <1>4, <2>1, <2>2, <2>3 DEF Running
  <2>4. CASE p = o
    BY <1>4, <2>4
  <2> QED
    BY <2>3, <2>4
<1>5. ASSUME CrdsSettle, NEW s \in Slots, NEW p \in Operators
      PROVE  Clear(s, p)'
  BY <1>5 DEF CrdsSettle, AimedInv, Running
<1>6. ASSUME NEW o \in Operators, SetupWork(o) \/ CleanupWork(o), NEW s \in Slots, NEW p \in Operators
      PROVE  Clear(s, p)'
  <2>1. GoesOn(o) \/ Stops(o)
    BY <1>6, SetupWorks, CleanupWorks DEF Acts
  <2>2. CASE UNCHANGED <<flag, spoiled>>
    BY <1>1, <2>1, <2>2
  <2> QED
    BY <1>2, <1>3, <1>6, <2>2, FlagsChange
<1>7. ASSUME NEW o \in Operators, Fails(o), NEW s \in Slots, NEW p \in Operators
      PROVE  Clear(s, p)'
  BY <1>1, <1>7, FailsIs
<1>8. ASSUME NEW o \in Operators, NEW t \in Slots, StartSetup(o, t) \/ StartCleanup(o, t),
             NEW s \in Slots, NEW p \in Operators
      PROVE  Clear(s, p)'
  <2>1. CASE StartSetup(o, t)
    BY <1>4, <2>1, StartSetupIs
  <2>2. CASE StartCleanup(o, t)
    BY <1>4, <2>2, StartCleanupIs
  <2> QED
    BY <1>8, <2>1, <2>2
<1>9. \A s \in Slots, p \in Operators : Clear(s, p)'
  BY <1>5, <1>6, <1>7, <1>8, StepKinds
<1> QED
  BY <1>9 DEF AimedInv

\* A command's own progress does not suffer while nobody touches its objects.
LEMMA BuiltKept ==
  ASSUME SetupTypes, NEW q \in Operators, Built(q),
         cmd'[q].at = cmd[q].at, cmd'[q].ns = cmd[q].ns, cmd'[q].config = cmd[q].config,
         cmd'[q].todo = cmd[q].todo,
         cmd[q].at \in SetupSteps =>
           \A k \in Kinds : <<k, cmd[q].ns>> \in there => <<k, cmd[q].ns>> \in there'
  PROVE  Built(q)'
<1>1. ToSet(Rights) \subseteq Kinds /\ ToSet(Manifest(cmd[q].config)) \subseteq Kinds
  BY ListFacts DEF Kinds
<1>2. CASE cmd[q].at = "rights"
  BY <1>1, <1>2 DEF Built, Named, SetupSteps
<1>3. CASE cmd[q].at = "storage"
  BY <1>1, <1>3 DEF Built, Named, SetupSteps, RightsOf
<1>4. CASE cmd[q].at \notin {"rights", "storage"}
  BY <1>4 DEF Built
<1> QED
  BY <1>2, <1>3, <1>4

LEMMA ClearedKept ==
  ASSUME SetupTypes, NEW q \in Operators, Cleared(q),
         cmd'[q].at = cmd[q].at, cmd'[q].ns = cmd[q].ns, cmd'[q].config = cmd[q].config,
         cmd'[q].todo = cmd[q].todo, cmd'[q].refused = cmd[q].refused,
         cmd[q].at \in CleanupSteps =>
           /\ \A k \in Kinds : <<k, cmd[q].ns>> \in there' => <<k, cmd[q].ns>> \in there
           /\ cmd'[q].calm => cmd[q].calm /\ (Release \in there' => Release \in there)
  PROVE  Cleared(q)'
<1>1. ToSet(Rights) \subseteq Kinds /\ ToSet(Manifest(cmd[q].config)) \subseteq Kinds
  BY ListFacts DEF Kinds
<1>2. CASE cmd[q].at = "revoke"
  BY <1>1, <1>2 DEF Cleared, Named, CleanupSteps
<1>3. CASE cmd[q].at \in {"uninstall", "delete"}
  <2>1. RightsOf(cmd[q].ns) \cap there \subseteq cmd[q].refused
    BY <1>3 DEF Cleared
  <2>2. RightsOf(cmd[q].ns) \cap there' \subseteq cmd[q].refused
    BY <1>1, <1>3, <2>1 DEF Named, CleanupSteps, RightsOf
  <2>3. CASE cmd[q].at = "delete"
    BY <1>1, <2>2, <2>3 DEF Cleared, CleanupSteps
  <2>4. CASE cmd[q].at = "uninstall"
    BY <2>2, <2>4 DEF Cleared
  <2> QED
    BY <1>3, <2>3, <2>4
<1>4. CASE cmd[q].at \notin CleanupSteps
  BY <1>4 DEF Cleared, CleanupSteps
<1> QED
  BY <1>2, <1>3, <1>4 DEF CleanupSteps

LEMMA IdleProgress ==
  ASSUME NEW q \in Operators, cmd'[q].at \in {"idle", "helm", "queues"}
  PROVE  Built(q)' /\ Cleared(q)'
BY DEF Built, Cleared

\* The step of one command spares the progress of another.
LEMMA BystanderProgress ==
  ASSUME SetupTypes, AwareInv, ProgressInv, NEW o \in Operators, Running(o), Acts(o),
         NEW q \in Operators \ {o}, ~cmd'[q].crossed
  PROVE  Built(q)' /\ Cleared(q)'
<1>1. cmd'[q] = cmd[q]
  BY DEF Acts, GoesOn, Stops, OthersStay
<1>2. Built(q) /\ Cleared(q)
  BY <1>1 DEF ProgressInv
<1>3. cmd[q].at \in SetupSteps =>
        \A k \in Kinds : <<k, cmd[q].ns>> \in there => <<k, cmd[q].ns>> \in there'
  BY <1>1, StepTells DEF Acts, Touches, AwareInv, Opposed
<1>4. cmd[q].at \in CleanupSteps =>
        \A k \in Kinds : <<k, cmd[q].ns>> \in there' => <<k, cmd[q].ns>> \in there
  BY <1>1, StepTells DEF Acts, Touches, AwareInv, Opposed
<1>5. cmd[q].at \in CleanupSteps => ~cmd'[q].calm
  BY <1>1, StepTells DEF AwareInv
<1> QED
  BY <1>1, <1>2, <1>3, <1>4, <1>5, BuiltKept, ClearedKept

LEMMA StartProgress ==
  ASSUME SetupTypes, ProgressInv, NEW o \in Operators, Starts(o), there' = there,
         \/ cmd'[o].at = "helm"
         \/ cmd'[o].at = "revoke" /\ cmd'[o].todo = Reverse(Rights),
         NEW q \in Operators, ~cmd'[q].crossed
  PROVE  Built(q)' /\ Cleared(q)'
<1>1. CASE q = o
  <2>1. CASE cmd'[o].at = "helm"
    BY <1>1, <2>1, IdleProgress
  <2>2. CASE cmd'[o].at = "revoke" /\ cmd'[o].todo = Reverse(Rights)
    BY <1>1, <2>2, ListFacts DEF Built, Cleared
  <2> QED
    BY <2>1, <2>2
<1>2. CASE q # o
  <2>1. Built(q) /\ Cleared(q)
    BY <1>2 DEF ProgressInv, Starts
  <2>2. /\ cmd'[q].at = cmd[q].at /\ cmd'[q].ns = cmd[q].ns /\ cmd'[q].config = cmd[q].config
        /\ cmd'[q].todo = cmd[q].todo /\ cmd'[q].refused = cmd[q].refused
    BY <1>2 DEF Starts, SamePurpose
  <2>3. cmd[q].at \in CleanupSteps => ~cmd'[q].calm
    BY <1>2, StepTells DEF Starts
  <2> QED
    BY <2>1, <2>2, <2>3, BuiltKept, ClearedKept
<1> QED
  BY <1>1, <1>2

\* Each step brings the command itself on.
LEMMA OwnProgressSetup ==
  ASSUME SetupTypes, NEW o \in Operators, SetupWork(o), cmd[o].crossed \/ Built(o), ~cmd'[o].crossed
  PROVE  Built(o)' /\ Cleared(o)'
<1> USE StepTells DEF At
<1>1. CASE InstallKueue(o)
  <2>1. cmd[o].at \in SetupSteps /\ Goto(o, "queues")
    BY <1>1 DEF InstallKueue, SetupSteps
  <2> QED
    BY <2>1, GotoIs, IdleProgress
<1>2. CASE Stops(o)
  BY <1>2, IdleProgress DEF Stops
<1>3. CASE ApplyQueues(o)
  <2>1. cmd[o].at \in SetupSteps /\ Begin(o, "rights", Rights)
    BY <1>3 DEF ApplyQueues, SetupSteps
  <2>2. cmd'[o].at = "rights" /\ cmd'[o].todo = Rights
    <3>1. Rights \in Seq(Kinds) /\ Running(o) /\ cmd[o].kind = "setup"
      BY <2>1, ListFacts
    <3> QED
      BY <2>1, <3>1, BeginIs
  <2> QED
    BY <2>2 DEF Built, Cleared
<1>4. CASE GrantRight(o)
  <2>1. /\ cmd[o].at = "rights" /\ cmd[o].at \in SetupSteps /\ Shorten(o) /\ cmd[o].todo # <<>>
        /\ there' = there \cup {Named(Head1(o), cmd[o].ns)}
    BY <1>4 DEF GrantRight, SetupSteps
  <2>2. GoesOn(o) /\ cmd'[o].at = "rights" /\ cmd'[o].todo = Tail(cmd[o].todo)
    BY <2>1, ShortenIs
  <2>3. Built(o) /\ cmd'[o].ns = cmd[o].ns
    BY <2>2 DEF GoesOn, SamePurpose
  <2>4. \A k \in ToSet(cmd[o].todo) : k = Head1(o) \/ k \in ToSet(Tail(cmd[o].todo))
    BY <2>1, TailFacts DEF Head1
  <2> QED
    BY <2>1, <2>2, <2>3, <2>4 DEF Built, Cleared
<1>5. CASE BeginStorage(o)
  <2>1. /\ cmd[o].at = "rights" /\ cmd[o].at \in SetupSteps /\ cmd[o].todo = <<>> /\ there' = there
        /\ Begin(o, "storage", Manifest(cmd[o].config))
    BY <1>5 DEF BeginStorage, SetupSteps
  <2>2. /\ GoesOn(o) /\ cmd'[o].at = "storage" /\ cmd'[o].todo = Manifest(cmd[o].config)
    BY <2>1, BeginIs, ListFacts
  <2>3. Built(o) /\ cmd'[o].ns = cmd[o].ns /\ cmd'[o].config = cmd[o].config
    BY <2>2 DEF GoesOn, SamePurpose
  <2>4. ToSet(cmd[o].todo) = {}
    BY <2>1 DEF ToSet
  <2>5. RightsOf(cmd[o].ns) \subseteq there
    BY <2>1, <2>3, <2>4 DEF Built, RightsOf
  <2> QED
    BY <2>1, <2>2, <2>3, <2>5 DEF Built, Cleared
<1>6. CASE CreateObject(o)
  <2>1. /\ cmd[o].at = "storage" /\ cmd[o].at \in SetupSteps /\ Shorten(o) /\ cmd[o].todo # <<>>
        /\ there' = there \cup {<<Head1(o), cmd[o].ns>>}
    BY <1>6 DEF CreateObject, SetupSteps
  <2>2. GoesOn(o) /\ cmd'[o].at = "storage" /\ cmd'[o].todo = Tail(cmd[o].todo)
    BY <2>1, ShortenIs
  <2>3. Built(o) /\ cmd'[o].ns = cmd[o].ns /\ cmd'[o].config = cmd[o].config
    BY <2>2 DEF GoesOn, SamePurpose
  <2>4. \A k \in ToSet(cmd[o].todo) : k = Head1(o) \/ k \in ToSet(Tail(cmd[o].todo))
    BY <2>1, TailFacts DEF Head1
  <2> QED
    BY <2>1, <2>2, <2>3, <2>4 DEF Built, Cleared
<1>7. ASSUME InstallFails(o) \/ ApplyGivesUp(o) \/ ApplyQueuesFails(o) \/ StorageRefused(o) \/ SaveFlag(o)
      PROVE  Stops(o)
  <2>1. /\ cmd[o].at \in SetupSteps
        /\ FailsAt(o) \/ Finish(o, "failed") \/ Finish(o, "done")
    BY <1>7 DEF InstallFails, ApplyGivesUp, ApplyQueuesFails, StorageRefused, SaveFlag, SetupSteps
  <2> QED
    BY <2>1, FailsAtIs, FinishIs
<1> QED
  BY <1>1, <1>2, <1>3, <1>4, <1>5, <1>6, <1>7 DEF SetupWork

LEMMA OwnProgressCleanup ==
  ASSUME SetupTypes, NEW o \in Operators, CleanupWork(o), cmd[o].crossed \/ Cleared(o),
         ~cmd'[o].crossed
  PROVE  Built(o)' /\ Cleared(o)'
<1> USE StepTells DEF At
<1>1. CASE RevokeRight(o)
  <2>1. /\ cmd[o].at = "revoke" /\ cmd[o].at \in CleanupSteps /\ Shorten(o) /\ cmd[o].todo # <<>>
        /\ there' = there \ {Named(Head1(o), cmd[o].ns)}
    BY <1>1 DEF RevokeRight, CleanupSteps
  <2>2. /\ GoesOn(o) /\ cmd'[o].at = "revoke" /\ cmd'[o].todo = Tail(cmd[o].todo)
        /\ cmd'[o].refused = cmd[o].refused
    BY <2>1, ShortenIs
  <2>3. Cleared(o) /\ cmd'[o].ns = cmd[o].ns
    BY <2>2 DEF GoesOn, SamePurpose
  <2>4. \A k \in ToSet(cmd[o].todo) : k = Head1(o) \/ k \in ToSet(Tail(cmd[o].todo))
    BY <2>1, TailFacts DEF Head1
  <2> QED
    BY <2>1, <2>2, <2>3, <2>4 DEF Built, Cleared
<1>2. CASE RevokeRefused(o)
  <2>1. /\ cmd[o].at = "revoke" /\ cmd[o].at \in CleanupSteps /\ cmd[o].todo # <<>>
        /\ there' = there
    BY <1>2 DEF RevokeRefused, CleanupSteps
  <2>2. /\ GoesOn(o) /\ cmd'[o].at = "revoke" /\ cmd'[o].todo = Tail(cmd[o].todo)
        /\ cmd'[o].refused = cmd[o].refused \cup {Named(Head1(o), cmd[o].ns)}
    BY <1>2, RefusedIs
  <2>3. Cleared(o) /\ cmd'[o].ns = cmd[o].ns
    BY <2>2 DEF GoesOn, SamePurpose
  <2>4. \A k \in ToSet(cmd[o].todo) : k = Head1(o) \/ k \in ToSet(Tail(cmd[o].todo))
    BY <2>1, TailFacts DEF Head1
  <2> QED
    BY <2>1, <2>2, <2>3, <2>4 DEF Built, Cleared
<1>3. CASE FreeQueues(o) \/ FreeRefused(o)
  <2>1. /\ cmd[o].at = "revoke" /\ cmd[o].at \in CleanupSteps /\ cmd[o].todo = <<>>
        /\ there' = there
    BY <1>3 DEF FreeQueues, FreeRefused, CleanupSteps
  <2>2. GoesOn(o) /\ cmd'[o].at = "uninstall" /\ cmd'[o].refused = cmd[o].refused
    <3>1. CASE FreeQueues(o)
      BY <2>1, <3>1, GotoIs DEF FreeQueues
    <3>2. CASE FreeRefused(o)
      BY <3>2, FreeRefusedIs
    <3> QED
      BY <1>3, <3>1, <3>2
  <2>3. Cleared(o) /\ cmd'[o].ns = cmd[o].ns
    BY <2>2 DEF GoesOn, SamePurpose
  <2>4. ToSet(cmd[o].todo) = {}
    BY <2>1 DEF ToSet
  <2>5. RightsOf(cmd[o].ns) \cap there \subseteq cmd[o].refused
    BY <2>1, <2>3, <2>4 DEF Cleared, RightsOf
  <2> QED
    BY <2>1, <2>2, <2>3, <2>5 DEF Built, Cleared
<1>4. CASE Uninstall(o)
  <2>1. /\ cmd[o].at = "uninstall" /\ cmd[o].at \in CleanupSteps /\ there' = there \ {Release}
        /\ Begin(o, "delete", Reverse(Manifest(cmd[o].config)))
    BY <1>4 DEF Uninstall, CleanupSteps
  <2> DEFINE list == Reverse(Manifest(cmd[o].config))
  <2>a. /\ list \in Seq(Kinds) /\ ToSet(list) \subseteq ToSet(Manifest(cmd[o].config))
        /\ Running(o) /\ cmd[o].kind = "cleanup"
    BY <2>1, ListFacts
  <2> HIDE DEF list
  <2>b. GoesOn(o) /\ cmd'[o].at = "delete" /\ cmd'[o].refused = cmd[o].refused /\ cmd'[o].todo = list
    <3>1. Begin(o, "delete", list)
      BY <2>1 DEF list
    <3> QED
      BY <3>1, <2>a, BeginIs
  <2>2. /\ GoesOn(o) /\ cmd'[o].at = "delete" /\ cmd'[o].refused = cmd[o].refused
        /\ cmd'[o].todo = Reverse(Manifest(cmd[o].config))
    BY <2>b DEF list
  <2>3. Cleared(o) /\ cmd'[o].ns = cmd[o].ns /\ cmd'[o].config = cmd[o].config
    BY <2>2 DEF GoesOn, SamePurpose
  <2> QED
    BY <2>1, <2>2, <2>3, ListFacts DEF Built, Cleared
<1>5. CASE DeleteObject(o)
  <2>1. /\ cmd[o].at = "delete" /\ cmd[o].at \in CleanupSteps /\ Shorten(o) /\ cmd[o].todo # <<>>
        /\ there' = there \ {<<Head1(o), cmd[o].ns>>}
    BY <1>5 DEF DeleteObject, CleanupSteps
  <2>2. /\ GoesOn(o) /\ cmd'[o].at = "delete" /\ cmd'[o].todo = Tail(cmd[o].todo)
        /\ cmd'[o].refused = cmd[o].refused
    BY <2>1, ShortenIs
  <2>3. /\ Cleared(o) /\ cmd'[o].ns = cmd[o].ns /\ cmd'[o].config = cmd[o].config
        /\ cmd'[o].calm => cmd[o].calm
    BY <2>2 DEF GoesOn, SamePurpose
  <2>4. \A k \in ToSet(cmd[o].todo) : k = Head1(o) \/ k \in ToSet(Tail(cmd[o].todo))
    BY <2>1, TailFacts DEF Head1
  <2> QED
    BY <2>1, <2>2, <2>3, <2>4 DEF Built, Cleared
<1>6. CASE DeleteRefused(o) \/ DeleteFlag(o)
  <2>1. /\ cmd[o].at \in CleanupSteps
        /\ DeleteRefused(o) => Finish(o, "failed") /\ LacksOptions(o)
        /\ DeleteFlag(o) => Finish(o, "done")
    BY <1>6 DEF DeleteRefused, DeleteFlag, CleanupSteps
  <2>2. Stops(o)
    BY <1>6, <2>1, FinishIs
  <2> QED
    BY <2>2, IdleProgress DEF Stops
<1> QED
  BY <1>1, <1>2, <1>3, <1>4, <1>5, <1>6 DEF CleanupWork

LEMMA ProgressPreserved ==
  ASSUME SetupTypes, AwareInv, ProgressInv, SetupNext
  PROVE  ProgressInv'
<1> SUFFICES ASSUME NEW q \in Operators, ~cmd'[q].crossed
             PROVE  Built(q)' /\ Cleared(q)'
  BY DEF ProgressInv
<1>1. ASSUME NEW o \in Operators, SetupWork(o)
      PROVE  Built(q)' /\ Cleared(q)'
  <2>1. Acts(o) /\ Running(o)
    BY <1>1, SetupWorks
  <2>2. CASE q = o
    BY <1>1, <2>2, OwnProgressSetup DEF ProgressInv
  <2>3. CASE q # o
    BY <2>1, <2>3, BystanderProgress
  <2> QED
    BY <2>2, <2>3
<1>2. ASSUME NEW o \in Operators, CleanupWork(o)
      PROVE  Built(q)' /\ Cleared(q)'
  <2>1. Acts(o) /\ Running(o)
    BY <1>2, CleanupWorks
  <2>2. CASE q = o
    BY <1>2, <2>2, OwnProgressCleanup DEF ProgressInv
  <2>3. CASE q # o
    BY <2>1, <2>3, BystanderProgress
  <2> QED
    BY <2>2, <2>3
<1>3. ASSUME NEW o \in Operators, Fails(o)
      PROVE  Built(q)' /\ Cleared(q)'
  <2>1. Acts(o) /\ Running(o) /\ Stops(o)
    BY <1>3, FailsIs
  <2>2. CASE q = o
    BY <2>1, <2>2, IdleProgress DEF Stops
  <2>3. CASE q # o
    BY <2>1, <2>3, BystanderProgress
  <2> QED
    BY <2>2, <2>3
<1>4. ASSUME NEW o \in Operators, NEW s \in Slots, StartSetup(o, s) \/ StartCleanup(o, s)
      PROVE  Built(q)' /\ Cleared(q)'
  <2>1. CASE StartSetup(o, s)
    BY <2>1, StartSetupIs, StartProgress
  <2>2. CASE StartCleanup(o, s)
    BY <2>2, StartCleanupIs, StartProgress
  <2> QED
    BY <1>4, <2>1, <2>2
<1>5. CASE CrdsSettle
  <2>1. cmd' = cmd /\ there' = there \ QueueObjects
    BY <1>5 DEF CrdsSettle
  <2>2. Built(q) /\ Cleared(q)
    BY <2>1 DEF ProgressInv
  <2>3. Release \in there' => Release \in there
    BY <2>1
  <2>4. \A k \in Kinds : <<k, cmd[q].ns>> \in there <=> <<k, cmd[q].ns>> \in there'
    BY <2>1, ObjectsDiffer
  <2>5. cmd'[q].calm => cmd[q].calm
    BY <2>1
  <2> QED
    BY <2>1, <2>2, <2>3, <2>4, <2>5, BuiltKept, ClearedKept
<1> QED
  BY <1>1, <1>2, <1>3, <1>4, <1>5, StepKinds

LEMMA FlagMeansPreserved ==
  ASSUME SetupTypes, AwareInv, AimedInv, ProgressInv, FlagMeansSetUp, SetupNext
  PROVE  FlagMeansSetUp'
<1> DEFINE Promised(f) == RightsOf(f.ns) \cup StorageOf(f.config, f.ns)
           Kept(s) == flag[s] # NoFlag /\ s \notin spoiled => Promised(flag[s]) \subseteq there
<1>1. ASSUME NEW s \in Slots, flag'[s] = flag[s], flag'[s] # NoFlag, s \notin spoiled', s \notin spoiled,
             \A k \in Kinds : <<k, flag[s].ns>> \in there => <<k, flag[s].ns>> \in there'
      PROVE  Kept(s)'
  <2>1. Promised(flag[s]) \subseteq there
    BY <1>1 DEF FlagMeansSetUp
  <2>2. \A x \in Promised(flag[s]) : \E k \in Kinds : x = <<k, flag[s].ns>>
    BY ListFacts DEF RightsOf, StorageOf, Named, Kinds
  <2> HIDE DEF Promised
  <2>3. Promised(flag[s]) \subseteq there'
    BY <1>1, <2>1, <2>2
  <2> QED
    BY <1>1, <2>3 DEF Promised
<1>2. ASSUME NEW o \in Operators, Acts(o), Running(o), NEW s \in Slots,
             flag'[s] = flag[s], s \in spoiled' <=> s \in spoiled
      PROVE  Kept(s)'
  <2>1. CASE flag'[s] # NoFlag /\ s \notin spoiled'
    <3>1. flag[s].ns \in Namespaces
      BY <1>2, <2>1 DEF SetupTypes, TypeOK, Flags
    <3>2. cmd[o].kind = "cleanup" => cmd[o].ns # flag[s].ns
      BY <1>2, <2>1 DEF AimedInv
    <3>3. \A k \in Kinds : <<k, flag[s].ns>> \in there => <<k, flag[s].ns>> \in there'
      BY <1>2, <3>1, <3>2 DEF Acts, Touches
    <3> QED
      BY <1>1, <1>2, <2>1, <3>3
  <2> QED
    BY <2>1
<1>3. ASSUME NEW o \in Operators, SaveFlag(o), NEW s \in Slots
      PROVE  Kept(s)'
  <2>1. /\ cmd[o].at = "storage" /\ cmd[o].todo = <<>> /\ there' = there
        /\ flag' = [flag EXCEPT ![cmd[o].slot] =
                      [config |-> cmd[o].config, ns |-> cmd[o].ns, opts |-> cmd[o].opts]]
        /\ spoiled' = IF cmd[o].crossed THEN spoiled \cup {cmd[o].slot} ELSE spoiled \ {cmd[o].slot}
    BY <1>3 DEF SaveFlag, At
  <2>2. CASE s = cmd[o].slot
    <3>1. flag'[s].ns = cmd[o].ns /\ flag'[s].config = cmd[o].config
      BY <2>1, <2>2 DEF SetupTypes, TypeOK
    <3>2. SUFFICES ASSUME ~cmd[o].crossed
                   PROVE  Promised(flag'[s]) \subseteq there'
      BY <2>1, <2>2
    <3>3. Built(o) /\ ToSet(cmd[o].todo) = {}
      BY <2>1, <3>2 DEF ProgressInv, ToSet
    <3> QED
      BY <2>1, <3>1, <3>3 DEF Built, StorageOf
  <2>3. CASE s # cmd[o].slot
    <3>1. flag'[s] = flag[s] /\ (s \in spoiled' <=> s \in spoiled)
      BY <2>1, <2>3 DEF SetupTypes, TypeOK
    <3> QED
      BY <1>1, <2>1, <3>1
  <2> QED
    BY <2>2, <2>3
<1>4. ASSUME NEW o \in Operators, DeleteFlag(o), NEW s \in Slots
      PROVE  Kept(s)'
  <2>1. /\ flag' = [flag EXCEPT ![cmd[o].slot] = NoFlag] /\ spoiled' = spoiled \ {cmd[o].slot}
        /\ there' = there
    BY <1>4 DEF DeleteFlag
  <2>2. CASE s = cmd[o].slot
    <3>1. flag'[s] = NoFlag
      BY <2>1, <2>2 DEF SetupTypes, TypeOK
    <3> QED
      BY <3>1
  <2>3. CASE s # cmd[o].slot
    <3>1. flag'[s] = flag[s] /\ (s \in spoiled' <=> s \in spoiled)
      BY <2>1, <2>3 DEF SetupTypes, TypeOK
    <3> QED
      BY <1>1, <2>1, <3>1
  <2> QED
    BY <2>2, <2>3
<1>5. ASSUME NEW o \in Operators, SetupWork(o) \/ CleanupWork(o), NEW s \in Slots
      PROVE  Kept(s)'
  <2>1. Acts(o) /\ Running(o)
    BY <1>5, SetupWorks, CleanupWorks
  <2>2. CASE UNCHANGED <<flag, spoiled>>
    BY <1>2, <2>1, <2>2
  <2> QED
    BY <1>3, <1>4, <1>5, <2>2, FlagsChange
<1>6. ASSUME NEW o \in Operators, Fails(o), NEW s \in Slots
      PROVE  Kept(s)'
  BY <1>2, <1>6, FailsIs
<1>7. ASSUME NEW o \in Operators, NEW t \in Slots, StartSetup(o, t) \/ StartCleanup(o, t),
             NEW s \in Slots
      PROVE  Kept(s)'
  <2>1. flag' = flag /\ there' = there /\ spoiled \subseteq spoiled'
    BY <1>7, StartSetupIs, StartCleanupIs
  <2> QED
    BY <1>1, <2>1
<1>8. ASSUME CrdsSettle, NEW s \in Slots
      PROVE  Kept(s)'
  <2>1. flag' = flag /\ spoiled' = spoiled /\ there' = there \ QueueObjects
    BY <1>8 DEF CrdsSettle
  <2>2. \A k \in Kinds : <<k, flag[s].ns>> \in there => <<k, flag[s].ns>> \in there'
    BY <2>1, ObjectsDiffer
  <2> QED
    BY <1>1, <2>1, <2>2
<1>9. \A s \in Slots : Kept(s)'
  BY <1>5, <1>6, <1>7, <1>8, StepKinds
<1> QED
  BY <1>9 DEF FlagMeansSetUp

LEMMA SetupStarts ==
  ASSUME SetupInit
  PROVE  SetupInv
<1> USE DEF SetupInit
<1>1. \A o \in Operators : cmd[o] = NoCommand /\ ~Running(o)
  BY NoCommandIs DEF Running
<1>2. SetupTypes
  <2>1. flag \in [Slots -> Flags \cup {NoFlag}] /\ cmd \in [Operators -> Commands]
    BY NoCommandIs
  <2>2. finalizers \in BOOLEAN
    OBVIOUS
  <2>3. \A o \in Operators : cmd[o].end \in {"none", "done", "failed"}
    BY <2>1 DEF Commands
  <2> QED
    BY <1>1, <2>1, <2>2, <2>3 DEF SetupTypes, TypeOK
<1>3. AwareInv /\ AimedInv /\ CleanupRecovers /\ FlagMeansSetUp
  BY <1>1, NoCommandIs DEF AwareInv, AimedInv, CleanupRecovers, FlagMeansSetUp
<1>4. ProgressInv
  BY <1>1, NoCommandIs DEF ProgressInv, Built, Cleared
<1> QED
  BY <1>2, <1>3, <1>4 DEF SetupInv

LEMMA SetupStutters ==
  ASSUME SetupInv, UNCHANGED setupVars
  PROVE  SetupInv'
<1> USE DEF setupVars
<1>1. SetupTypes'
  BY DEF SetupInv, SetupTypes, TypeOK, Running
<1>2. AwareInv' /\ AimedInv'
  BY DEF SetupInv, AwareInv, AimedInv, Running
<1>3. CleanupRecovers' /\ FlagMeansSetUp'
  BY DEF SetupInv, CleanupRecovers, FlagMeansSetUp, LacksOptions
<1>4. ProgressInv'
  BY DEF SetupInv, ProgressInv, Built, Cleared
<1> QED
  BY <1>1, <1>2, <1>3, <1>4 DEF SetupInv

(* The inductive invariant of the commands that set up and clean up a      *)
(* cluster: which of them know of one another, which flag files no clean-up *)
(* is aimed at, and how far each command has come with its objects.         *)
THEOREM SetupInvariant == SetupSpec => []SetupInv
<1>1. SetupInit => SetupInv
  BY SetupStarts
<1>2. SetupInv /\ [SetupNext]_setupVars => SetupInv'
  <2>1. CASE SetupInv /\ SetupNext
    BY <2>1, TypesPreserved, AwarePreserved, AimedPreserved, ProgressPreserved,
       RecoversPreserved, FlagMeansPreserved DEF SetupInv
  <2>2. CASE SetupInv /\ UNCHANGED setupVars
    BY <2>2, SetupStutters
  <2> QED
    BY <2>1, <2>2
<1> QED
  BY <1>1, <1>2, PTL DEF SetupSpec

(* Cluster, flag files and commands keep their types.                       *)
THEOREM SetupTypeCorrect == SetupSpec => []TypeOK
<1>1. SetupInv => TypeOK
  BY DEF SetupInv, SetupTypes
<1> QED
  BY <1>1, SetupInvariant, PTL

(* What a flag file stands for is on the cluster, whichever calls of whose  *)
(* set-ups and clean-ups failed in which order, for any number of operators,*)
(* flag files and namespaces.                                               *)
THEOREM SetupFlagMeansSetUp == SetupSpec => []FlagMeansSetUp
<1>1. SetupInv => FlagMeansSetUp
  BY DEF SetupInv
<1> QED
  BY <1>1, SetupInvariant, PTL

(* A clean-up that nothing disturbs goes through, whatever it finds.        *)
THEOREM SetupCleanupRecovers == SetupSpec => []CleanupRecovers
<1>1. SetupInv => CleanupRecovers
  BY DEF SetupInv
<1> QED
  BY <1>1, SetupInvariant, PTL

\* The one step that ends a clean-up with success.
LEMMA SuccessIsLast ==
  ASSUME SetupTypes, SetupNext, NEW o \in Operators, cmd[o].kind = "cleanup",
         At(o, "delete"), cmd'[o].end = "done"
  PROVE  DeleteFlag(o)
<1>1. Running(o) /\ cmd[o].end = "none"
  BY DEF At, Running, SetupTypes, Purposeful
<1>2. ASSUME NEW p \in Operators, SetupWork(p) \/ CleanupWork(p) \/ Fails(p)
      PROVE  p = o
  BY <1>1, <1>2, SetupWorks, CleanupWorks, FailsIs DEF Acts, GoesOn, Stops, OthersStay
<1>3. ASSUME NEW p \in Operators, NEW s \in Slots, StartSetup(p, s) \/ StartCleanup(p, s)
      PROVE  FALSE
  <2>1. Starts(p)
    BY <1>3, StartSetupIs, StartCleanupIs
  <2> QED
    BY <1>1, <2>1 DEF Starts, SamePurpose
<1>4. ~CrdsSettle
  BY <1>1 DEF CrdsSettle
<1>5. SetupWork(o) \/ CleanupWork(o) \/ Fails(o)
  BY <1>2, <1>3, <1>4, StepKinds
<1>6. ~SetupWork(o)
  BY SetupWorks
<1>7. ~Fails(o)
  BY FailsAtIs DEF Fails
<1>8. ~GoesOn(o)
  BY <1>1 DEF GoesOn, SamePurpose
<1>9. CleanupWork(o) /\ Stops(o)
  BY <1>5, <1>6, <1>7, <1>8, CleanupWorks DEF Acts
<1>10. ~DeleteRefused(o)
  BY <1>1, FinishIs DEF DeleteRefused
<1>11. DeleteObject(o) => FALSE
  <2>1. DeleteObject(o) => Shorten(o) /\ cmd[o].todo # <<>>
    BY DEF DeleteObject
  <2> QED
    BY <1>1, <1>8, <2>1, ShortenIs
<1> QED
  BY <1>9, <1>10, <1>11 DEF CleanupWork, RevokeRight, RevokeRefused, FreeQueues, FreeRefused,
     Uninstall, At

(* A clean-up that reports success has removed what its flag file stands    *)
(* for, but for what it was refused, and Kueue where nobody else was at     *)
(* work.                                                                    *)
THEOREM SetupCleanupLeavesNothing == SetupSpec => CleanupLeavesNothing
<1> DEFINE Gone(o) ==
      LET mine == flag[cmd[o].slot]
          aim  == IF mine = NoFlag THEN cmd[o] ELSE mine
      IN  cmd[o].ns = aim.ns /\ cmd[o].config = aim.config
            => /\ (RightsOf(aim.ns) \cup StorageOf(aim.config, aim.ns)) \cap there'
                    \subseteq cmd[o].refused
               /\ cmd[o].calm => Release \notin there'
<1>1. ASSUME SetupInv, SetupNext, NEW o \in Operators, cmd[o].kind = "cleanup", At(o, "delete"),
             cmd'[o].end = "done", ~cmd[o].crossed
      PROVE  Gone(o)
  <2>1. DeleteFlag(o) /\ Cleared(o)
    BY <1>1, SuccessIsLast DEF SetupInv, ProgressInv
  <2>2. cmd[o].at = "delete" /\ ToSet(cmd[o].todo) = {} /\ there' = there
    BY <2>1 DEF DeleteFlag, At, ToSet
  <2>3. /\ RightsOf(cmd[o].ns) \cap there' \subseteq cmd[o].refused
        /\ StorageOf(cmd[o].config, cmd[o].ns) \cap there' = {}
        /\ cmd[o].calm => Release \notin there'
    BY <2>1, <2>2 DEF Cleared, StorageOf
  <2> QED
    BY <2>3
<1>2. ASSUME SetupInv, UNCHANGED setupVars, NEW o \in Operators, At(o, "delete"),
             cmd'[o].end = "done"
      PROVE  FALSE
  <2>1. cmd[o].end = "none"
    BY <1>2 DEF SetupInv, SetupTypes, Purposeful, At, Running
  <2> QED
    BY <1>2, <2>1 DEF setupVars
<1>3. SetupInv /\ [SetupNext]_setupVars
        => [\A o \in Operators :
              /\ cmd[o].kind = "cleanup" /\ At(o, "delete")
              /\ cmd'[o].end = "done"
              /\ ~cmd[o].crossed
              => LET mine == flag[cmd[o].slot]
                     aim  == IF mine = NoFlag THEN cmd[o] ELSE mine
                 IN  cmd[o].ns = aim.ns /\ cmd[o].config = aim.config
                       => /\ (RightsOf(aim.ns) \cup StorageOf(aim.config, aim.ns)) \cap there'
                               \subseteq cmd[o].refused
                          /\ cmd[o].calm => Release \notin there']_setupVars
  BY <1>1, <1>2
<1> QED
  BY <1>3, SetupInvariant, PTL DEF SetupSpec, CleanupLeavesNothing
=============================================================================
