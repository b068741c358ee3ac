----------------------------- MODULE Controller -----------------------------
(***************************************************************************)
(* The main thread of the in-pod campaign controller                       *)
(* (execution/controller.py: main, CampaignController.run, the search and  *)
(* batch loops, _finalize, _upload_to_share_with_retrigger) together with  *)
(* the command handlers of ControlChannel that run beside it.              *)
(*                                                                         *)
(* A campaign is a sequence of batches whose contents play no role here;   *)
(* Kubernetes, the storage and the share are the environment: every call   *)
(* that reaches them may fail.                                             *)
(***************************************************************************)
EXTENDS ControlChannel, Integers

CONSTANTS
    NoTarget,      \* the value of an unset ROBOVAST_SHARE_TYPE
    Environments,  \* the states of the share variables that name a target
    Overlay,       \* per environment and payload: the two combined
    Sessions       \* the environments of providers that resume saved sessions

\* What a retry can send along.  A payload leaves out the optional variables
\* its sender has unset, so that those of the pod survive it: two payloads of
\* one share may name different targets, by what was there before.
Targets == Payloads \ {NoArgs}

ASSUME TargetAssumption ==
    /\ NoTarget \notin Environments
    /\ Overlay \in [Environments -> [Targets -> Environments]]
    /\ Sessions \subseteq Environments

VARIABLES
    pc,           \* what the main thread does next
    mode,         \* "search" or "batch"
    channel,      \* state is not None
    server,       \* the control server thread serves requests
    phase,        \* Status.phase
    stage,        \* Status.stage
    bar,          \* Status.extra holds an upload progress sample
    published,    \* finalize_campaign has put the campaign into the storage
    shareEnv,     \* the share variables of os.environ, and so a target
    provider,     \* the target of the share provider object in use
    session,      \* the target of the saved upload session, if there is one
    deliveredTo,  \* the target the archive has been uploaded to
    exitCode,     \* of the process, -1 while it runs
    notices,      \* kinds of ntfy notification sent
    lateBatches,  \* history: batches opened after a stop request (up to 2)
    lateStop,     \* history: a stop was requested after the campaign loop
    tried         \* history: the targets of the attempts that failed

statusVars == <<phase, stage, bar>>
shareVars == <<shareEnv, provider, session, deliveredTo, tried>>
processVars == <<mode, channel, server, exitCode>>
historyVars == <<lateBatches, lateStop>>
mainVars == <<pc, statusVars, shareVars, processVars, historyVars, published, notices>>
vars == <<channelVars, mainVars>>

CampaignPcs == {"channel", "provider", "verify", "build", "create", "loop",
                "batch", "decide", "ended", "raised"}
ClosingPcs == {"finalize", "finalizeRaised", "announce"}
UploadPcs == {"upload", "uploaded", "uploadFailed", "parked", "waiting",
              "rebuild", "reverify"}

Phases == {"starting", "running", "finishing", "finished", "failed", "uploading"}
Stages == {"none", "share-config-error", "share-verify-failed",
           "upload-to-share", "upload-failed", "uploaded"}
Notices == {"started", "finished", "uploaded", "failed"}

\* -1 while the process runs, 137 for a pod that was killed.
ExitCodes == {-1, 0, 1, 2, 3, 137}

TypeOK ==
    /\ ChannelTypeOK
    /\ pc \in CampaignPcs \cup ClosingPcs \cup UploadPcs \cup {"exited"}
    /\ mode \in {"search", "batch"}
    /\ channel \in BOOLEAN
    /\ server \in BOOLEAN
    /\ phase \in Phases
    /\ stage \in Stages
    /\ bar \in BOOLEAN
    /\ published \in BOOLEAN
    /\ {shareEnv, provider, session, deliveredTo} \subseteq Environments \cup {NoTarget}
    /\ tried \subseteq Environments
    /\ exitCode \in ExitCodes
    /\ notices \subseteq Notices
    /\ lateBatches \in 0..2
    /\ lateStop \in BOOLEAN

Init ==
    /\ ChannelInit
    /\ pc = "channel"
    /\ mode \in {"search", "batch"}
    /\ channel = FALSE
    /\ server = FALSE
    /\ phase = "starting"
    /\ stage = "none"
    /\ bar = FALSE
    /\ published = FALSE
    /\ shareEnv \in Environments \cup {NoTarget}
    /\ provider = NoTarget
    /\ session = NoTarget
    /\ deliveredTo = NoTarget
    /\ tried = {}
    /\ exitCode = -1
    /\ notices = {}
    /\ lateBatches = 0
    /\ lateStop = FALSE

-----------------------------------------------------------------------------
Goto(from, to) == pc = from /\ pc' = to

Exit(from, code) ==
    /\ Goto(from, "exited")
    /\ exitCode' = code
    /\ UNCHANGED <<mode, channel, server>>

\* ControllerState.set_phase with and without a stage; a stage is never reset.
SetPhase(p) == phase' = (IF channel THEN p ELSE phase) /\ UNCHANGED <<stage, bar>>

SetPhaseStage(p, s) ==
    /\ phase' = IF channel THEN p ELSE phase
    /\ stage' = IF channel THEN s ELSE stage
    /\ UNCHANGED bar

Notify(kinds) == notices' = notices \cup kinds

(* main, up to the builders.                                               *)

\* The control channel is best-effort: no state at all when its import fails,
\* and a state without a server when the server thread dies at start-up.
StartChannel ==
    /\ Goto("channel", "provider")
    /\ channel' \in BOOLEAN
    /\ server' \in {FALSE, channel'}
    /\ UNCHANGED <<channelVars, statusVars, shareVars, mode, exitCode,
                   historyVars, published, notices>>

\* load_provider_from_env raises, or there is no share destination.
RefuseShareConfig ==
    /\ Exit("provider", 2)
    /\ SetPhaseStage("failed", "share-config-error")
    /\ Notify({"failed"})
    /\ UNCHANGED <<channelVars, shareVars, historyVars, published>>

LoadProvider ==
    /\ Goto("provider", "verify")
    /\ shareEnv # NoTarget
    /\ provider' = shareEnv
    /\ UNCHANGED <<channelVars, statusVars, shareEnv, session, deliveredTo, tried,
                   processVars, historyVars, published, notices>>

RefuseShareAccess ==
    /\ Exit("verify", 3)
    /\ SetPhaseStage("failed", "share-verify-failed")
    /\ Notify({"failed"})
    /\ UNCHANGED <<channelVars, shareVars, historyVars, published>>

VerifyShare ==
    /\ Goto("verify", "build")
    /\ Notify({"started"})
    /\ UNCHANGED <<channelVars, statusVars, shareVars, processVars,
                   historyVars, published>>

\* The builders compose the configurations, import the strategy and open the
\* store; what they raise ends the process with a traceback and nothing else.
BuildFails ==
    /\ Exit("build", 1)
    /\ UNCHANGED <<channelVars, statusVars, shareVars, historyVars, published,
                   notices>>

Build ==
    /\ Goto("build", "create")
    /\ UNCHANGED <<channelVars, statusVars, shareVars, processVars,
                   historyVars, published, notices>>
-----------------------------------------------------------------------------
(* CampaignController.run and the two loops.                               *)

CreateCampaign ==
    /\ Goto("create", "loop")
    /\ SetPhase("running")
    /\ UNCHANGED <<channelVars, shareVars, processVars, historyVars, published,
                   notices>>

\* create_campaign is outside the try block: only the builder's finally runs.
CreateCampaignFails ==
    /\ Goto("create", "finalizeRaised")
    /\ UNCHANGED <<channelVars, statusVars, shareVars, processVars,
                   historyVars, published, notices>>

\* strategy.ask and store.open_batch (search), store.open_batch (batch).
OpenBatch ==
    /\ Goto("loop", "batch")
    /\ lateBatches' = IF stopEvent /\ lateBatches < 2
                      THEN lateBatches + 1 ELSE lateBatches
    /\ UNCHANGED <<channelVars, statusVars, shareVars, processVars, lateStop,
                   published, notices>>

\* The batch has run and its results are told and recorded; batch mode has just
\* the one and looks at no stop request.
RunBatch ==
    /\ Goto("batch", IF mode = "search" THEN "decide" ELSE "ended")
    /\ UNCHANGED <<channelVars, statusVars, shareVars, processVars,
                   historyVars, published, notices>>

\* Mutant: the control channel is not consulted at the batch boundary.
NextBatchRegardless ==
    /\ Goto("decide", "loop")
    /\ UNCHANGED <<channelVars, statusVars, shareVars, processVars,
                   historyVars, published, notices>>

\* No budget or stopping criterion has fired, no stop was requested.
NextBatch ==
    /\ Goto("decide", "loop")
    /\ ~stopEvent
    /\ UNCHANGED <<channelVars, statusVars, shareVars, processVars,
                   historyVars, published, notices>>

\* A criterion may fire after any batch, a stop request always ends the search;
\* record_outcome follows.
StopSearch ==
    /\ Goto("decide", "ended")
    /\ SetPhase("finishing")
    /\ UNCHANGED <<channelVars, shareVars, processVars, historyVars, published,
                   notices>>

\* Any call of the loop may raise: the strategy, the store, the backend, the
\* postprocessing, the evaluator.
LoopFails ==
    /\ pc \in {"loop", "batch", "decide", "ended"}
    /\ pc' = "raised"
    /\ UNCHANGED <<channelVars, statusVars, shareVars, processVars,
                   historyVars, published, notices>>

EndRun ==
    /\ Goto("ended", "finalize")
    /\ SetPhase("finished")
    /\ UNCHANGED <<channelVars, shareVars, processVars, historyVars, published,
                   notices>>

ReportFailure ==
    /\ Goto("raised", "finalizeRaised")
    /\ SetPhase("failed")
    /\ Notify({"failed"})
    /\ UNCHANGED <<channelVars, shareVars, processVars, historyVars, published>>

\* _finalize publishes the campaign to the storage; a failure is only logged.
Finalize ==
    /\ Goto("finalize", "announce")
    /\ published' \in BOOLEAN
    /\ UNCHANGED <<channelVars, statusVars, shareVars, processVars,
                   historyVars, notices>>

\* The same in the finally clause of a run that raised: the process ends with
\* the exception.
FinalizeAndRaise ==
    /\ Exit("finalizeRaised", 1)
    /\ published' \in BOOLEAN
    /\ UNCHANGED <<channelVars, statusVars, shareVars, historyVars, notices>>

-----------------------------------------------------------------------------
(* _upload_to_share_with_retrigger.                                        *)

BeginUpload ==
    /\ Goto("announce", "upload")
    /\ SetPhaseStage("uploading", "upload-to-share")
    /\ Notify({"finished"})
    /\ UNCHANGED <<channelVars, shareVars, processVars, historyVars, published>>

\* The progress callback; without a channel there is none.
UploadProgress ==
    /\ pc = "upload"
    /\ channel
    /\ bar' = TRUE
    /\ UNCHANGED <<channelVars, pc, phase, stage, shareVars, processVars,
                   historyVars, published, notices>>

\* A saved session is looked up by the path of the archive alone: if it is
\* still alive the rest of the archive goes where it was opened, whatever bucket
\* the provider was built for.  Only an expired one is replaced.
UploadTargets ==
    IF provider \in Sessions /\ session # NoTarget
    THEN {session, provider} ELSE {provider}

\* An attempt that fails leaves the session it found or opened, or none when
\* the old one had expired and no new one could be opened.
SessionsLeft ==
    IF provider \in Sessions THEN {session, provider, NoTarget} ELSE {session}

\* upload_campaign returns True: compressed from the storage and uploaded.
UploadSucceeds ==
    /\ Goto("upload", "uploaded")
    /\ deliveredTo' \in UploadTargets
    /\ session' = IF provider \in Sessions THEN NoTarget ELSE session
    /\ bar' = FALSE
    /\ UNCHANGED <<channelVars, phase, stage, shareEnv, provider, tried,
                   processVars, historyVars, published, notices>>

\* upload_campaign returns False, whether the compression or the upload failed;
\* the bar is dropped first.
UploadFails ==
    /\ Goto("upload", "uploadFailed")
    /\ session' \in SessionsLeft
    /\ tried' = tried \cup {provider}
    /\ bar' = FALSE
    /\ UNCHANGED <<channelVars, phase, stage, shareEnv, provider, deliveredTo,
                   processVars, historyVars, published, notices>>

ReportUploaded ==
    /\ Exit("uploaded", 0)
    /\ SetPhaseStage("finished", "uploaded")
    /\ Notify({"uploaded"})
    /\ UNCHANGED <<channelVars, shareVars, historyVars, published>>

\* Without a channel nothing could retrigger: give up.
GiveUpWithoutChannel ==
    /\ ~channel
    /\ Exit("uploadFailed", 1)
    /\ Notify({"failed"})
    /\ UNCHANGED <<channelVars, statusVars, shareVars, historyVars, published>>

ReportUploadFailed ==
    /\ channel
    /\ Goto("uploadFailed", "parked")
    /\ SetPhaseStage("uploading", "upload-failed")
    /\ UNCHANGED <<channelVars, shareVars, processVars, historyVars, published,
                   notices>>

ParkMain ==
    /\ Goto("parked", "waiting")
    /\ EnterWait
    /\ UNCHANGED <<statusVars, shareVars, processVars, historyVars, published,
                   notices>>

WaitOn ==
    /\ pc = "waiting"
    /\ WakeUp \/ ClearEvent \/ GoOn
    /\ UNCHANGED mainVars

AbandonUpload ==
    /\ Exit("waiting", 1)
    /\ Abandon
    /\ Notify({"failed"})
    /\ UNCHANGED <<statusVars, shareVars, historyVars, published>>

StartRetry ==
    /\ Goto("waiting", "rebuild")
    /\ TakeOverrides
    /\ UNCHANGED <<statusVars, shareVars, processVars, historyVars, published,
                   notices>>

\* load_provider_from_env applies the overrides to os.environ for good.
ApplyOverrides ==
    shareEnv' = IF handed = NoArgs THEN shareEnv ELSE Overlay[shareEnv][handed]

\* The constructor raises, or the share type is unknown or gone.
RebuildFails ==
    /\ Goto("rebuild", "parked")
    /\ ApplyOverrides
    /\ SetPhaseStage("uploading", "upload-failed")
    /\ UNCHANGED <<channelVars, provider, session, deliveredTo, tried,
                   processVars, historyVars, published, notices>>

\* Mutant: the retry goes on with the provider of the first attempt.
RebuildKeepsProvider ==
    /\ Goto("rebuild", "reverify")
    /\ ApplyOverrides
    /\ SetPhaseStage("uploading", "upload-to-share")
    /\ UNCHANGED <<channelVars, provider, session, deliveredTo, tried,
                   processVars, historyVars, published, notices>>

Rebuild ==
    /\ Goto("rebuild", "reverify")
    /\ ApplyOverrides
    /\ provider' = shareEnv'
    /\ SetPhaseStage("uploading", "upload-to-share")
    /\ UNCHANGED <<channelVars, session, deliveredTo, tried, processVars,
                   historyVars, published, notices>>

\* Mutant: the status is not corrected before waiting again.
ReverifyFailsQuietly ==
    /\ Goto("reverify", "parked")
    /\ UNCHANGED <<channelVars, statusVars, shareVars, processVars,
                   historyVars, published, notices>>

ReverifyFails ==
    /\ Goto("reverify", "parked")
    /\ SetPhaseStage("uploading", "upload-failed")
    /\ UNCHANGED <<channelVars, shareVars, processVars, historyVars, published,
                   notices>>

Reverify ==
    /\ Goto("reverify", "upload")
    /\ UNCHANGED <<channelVars, statusVars, shareVars, processVars,
                   historyVars, published, notices>>

-----------------------------------------------------------------------------
(* The environment of the main thread.                                     *)

\* A handler runs on a thread of the server, as long as there is a process.
ServeIssueStop(s) ==
    /\ server /\ pc # "exited"
    /\ IssueStop(s)
    /\ lateStop' = (lateStop \/ pc \in UploadPcs)
    /\ UNCHANGED <<pc, statusVars, shareVars, processVars, lateBatches,
                   published, notices>>

ServeOther ==
    /\ server /\ pc # "exited"
    /\ \/ \E s \in Stops : SignalStop(s)
       \/ \E u \in Uploads, args \in Payloads : StoreOverrides(u, args)
       \/ \E u \in Uploads : SignalUpload(u)
    /\ UNCHANGED mainVars

\* The pod is evicted or deleted; restartPolicy is Never.
Kill ==
    /\ pc # "exited"
    /\ pc' = "exited"
    /\ exitCode' = 137
    /\ UNCHANGED <<channelVars, statusVars, shareVars, mode, channel, server,
                   historyVars, published, notices>>

StartUpStep ==
    \/ StartChannel
    \/ RefuseShareConfig \/ LoadProvider
    \/ RefuseShareAccess \/ VerifyShare
    \/ BuildFails \/ Build

RunStep ==
    \/ CreateCampaign \/ CreateCampaignFails
    \/ OpenBatch \/ RunBatch \/ NextBatch \/ StopSearch \/ LoopFails
    \/ EndRun \/ ReportFailure
    \/ Finalize \/ FinalizeAndRaise

UploadStep ==
    \/ BeginUpload
    \/ UploadSucceeds \/ UploadFails
    \/ ReportUploaded \/ GiveUpWithoutChannel \/ ReportUploadFailed
    \/ ParkMain \/ WaitOn \/ AbandonUpload \/ StartRetry
    \/ RebuildFails \/ Rebuild \/ ReverifyFails \/ Reverify

MainStep == StartUpStep \/ RunStep \/ UploadStep

Next ==
    \/ MainStep
    \/ UploadProgress
    \/ \E s \in Stops : ServeIssueStop(s)
    \/ ServeOther
    \/ Kill

\* The main thread never blocks for good outside wait_for_retrigger, provided
\* batches end and every call of a share or storage client returns; a handler
\* that has begun finishes.  Nothing is assumed of the clients, of the outcome
\* of an upload, or of the search criteria.
Fairness ==
    /\ WF_vars(MainStep)
    /\ \A s \in Stops : WF_vars(ServeOther /\ SignalStop(s))
    /\ \A u \in Uploads : WF_vars(ServeOther /\ SignalUpload(u))

SafetySpec == Init /\ [][Next]_vars

Spec == SafetySpec /\ Fairness
-----------------------------------------------------------------------------
(* Properties.                                                             *)

\* Exit code 0 (the pod turns Succeeded, and cleanup treats the campaign as
\* done) means that the archive is at a share target: the one the share
\* variables name with every accepted correction applied, however many
\* attempts, failed rebuilds and rejected credentials came before
\* (controller.py:476-539), or, where the provider resumes saved sessions, the
\* target of an earlier attempt that failed and whose session is taken up again
\* (gcs.py:239-258).
ExitZeroMeansDelivered ==
    exitCode = 0 =>
        /\ deliveredTo # NoTarget
        /\ deliveredTo # shareEnv =>
              {deliveredTo, shareEnv} \subseteq Sessions /\ deliveredTo \in tried

\* A controller that waits for a retrigger says so: monitor and the user can
\* tell a parked controller from one that uploads, on each of the four ways
\* back into the wait (controller.py:497-539).
ParkedIsReported ==
    pc = "waiting" => channel /\ phase = "uploading" /\ stage = "upload-failed"

\* The upload progress of /status belongs to an attempt that is under way: no
\* bar survives it, and none is shown for a later attempt before its first
\* sample (controller.py:482, 496, 530, 538).
BarOnlyWhileUploading ==
    bar /\ pc # "exited" => pc = "upload" /\ stage = "upload-to-share"

\* "stop" ends the search after the current batch: at most the one batch that
\* the main thread was about to open when the flag was set is run after it
\* (controller.py:301-304).
StopEndsSearch == lateBatches <= 1

\* Once stop is requested the controller comes to an end, whether it finds the
\* main thread in a batch, uploading, parked or on its way into the wait.
StopEndsController == stopEvent ~> pc = "exited"

\* The pod implements the mailbox of RetriggerMailbox from start to end, the
\* liveness of it included: a controller that waits with an upload request or a
\* stop before it retries or gives up, with the newest arguments and without a
\* retry nobody asked for, unless the pod is killed.
PodMailbox == INSTANCE RetriggerMailbox WITH
    caller   <- IF exitCode = 137 THEN "dead"
                ELSE CASE waiter = "out" -> "busy"
                       [] waiter = "abandoned" -> "gone"
                       [] OTHER -> "parked",
    newest   <- overrides,
    stopping <- stopEvent,
    mayRetry <- ~stopEvent \/ waiter = "take"

PodImplementsMailbox == PodMailbox!Spec

\* The safety half of it.
PodImplementsMailboxSafety == PodMailbox!SafetySpec

(* What the documentation says and the code does not do: TLC finds these   *)
(* violated.                                                               *)

\* developer_guide.rst:967-968 gives phase "uploading" as "Campaign published
\* to storage; compressing/uploading to the share".
UploadingMeansPublished == phase = "uploading" => published

\* cluster_execution.rst:474-477: on failure of the upload "the controller pod
\* stays alive", until a retry succeeds or the user, facing that failure, gives
\* up with stop.
FailedUploadWaitsForUser == waiter = "abandoned" => lateStop

\* controller.py:490-493: the user can "pass corrected ones - even a different
\* share type" and the archive goes there.  A saved GCS session keeps it going to
\* the bucket of the attempt that failed.
DeliveredWhereAsked == exitCode = 0 => deliveredTo = shareEnv
=============================================================================
