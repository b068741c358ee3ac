-------------------------- MODULE Controller_proofs --------------------------
(***************************************************************************)
(* The command channel for any sets of requests and any payloads: its type *)
(* invariant, the absence of lost wake-ups, and the step simulation of     *)
(* RetriggerMailbox.  Then the controller, for any number of requests and  *)
(* any share targets: it drives the channel only through the channel's own *)
(* statements, so the channel's theorems carry over, and its main safety   *)
(* properties.                                                             *)
(***************************************************************************)
EXTENDS Controller, FiniteSetTheorems, TLAPS

(* NoLostWakeUp is not inductive: it speaks of a thread in wait(), and the *)
(* event may have been consumed on the way there.  The strengthening says  *)
(* where an acknowledged command still is: in the event, or in the hands   *)
(* of a thread that cleared the event and has not yet read what the        *)
(* command left behind.                                                    *)

\* A handler past its first statement has left its mark.
MarksLeft ==
    /\ \A s \in Stops : handler[s] # "new" => stopEvent
    /\ \A u \in unserved : handler[u] # "new"

\* An acknowledged stop: the thread that cleared its signal is about to check
\* the flag.  A thread past that check read the flag before the stop was issued,
\* so the signal still stands.
StopInFlight ==
    \A s \in Stops : handler[s] = "done" =>
        retriggerEvent \/ waiter \in {"check", "abandoned"}

\* An acknowledged upload request that is unserved: the thread that cleared its
\* signal has not taken the overrides yet.
UploadInFlight ==
    \A u \in unserved : handler[u] = "done" =>
        retriggerEvent \/ waiter \in {"check", "take", "abandoned"}

ChannelInv ==
    /\ ChannelTypeOK
    /\ MarksLeft
    /\ StopInFlight
    /\ UploadInFlight
    /\ waiter = "abandoned" => stopEvent

\* The channel starts in the invariant.
LEMMA ChannelInvInit == ChannelInit => ChannelInv
<1> SUFFICES ASSUME ChannelInit PROVE ChannelInv
  OBVIOUS
<1>1. \A r \in Requests : handler[r] = "new"
  BY DEF ChannelInit
<1>2. ChannelTypeOK
  BY PayloadsAssumption DEF ChannelInit, ChannelTypeOK, WaiterStates
<1>3. MarksLeft /\ StopInFlight /\ UploadInFlight
  BY <1>1 DEF ChannelInit, MarksLeft, StopInFlight, UploadInFlight, Requests
<1> QED
  BY <1>2, <1>3 DEF ChannelInit, ChannelInv

\* Every statement of the handlers and of the waiting thread preserves it.
LEMMA ChannelInvNext == ChannelInv /\ [ChannelNext]_channelVars => ChannelInv'
<1> SUFFICES ASSUME ChannelInv, [ChannelNext]_channelVars
             PROVE  ChannelInv'
  OBVIOUS
<1> USE RequestsAssumption, PayloadsAssumption
    DEF ChannelInv, ChannelTypeOK, MarksLeft, StopInFlight, UploadInFlight,
        Requests, WaiterStates
<1>1. ASSUME NEW s \in Stops, IssueStop(s) PROVE ChannelInv'
  BY <1>1 DEF IssueStop, Progress
<1>2. ASSUME NEW s \in Stops, SignalStop(s) PROVE ChannelInv'
  BY <1>2 DEF SignalStop, Progress
<1>3. ASSUME NEW u \in Uploads, NEW args \in Payloads, StoreOverrides(u, args)
      PROVE  ChannelInv'
  BY <1>3 DEF StoreOverrides, Progress
<1>4. ASSUME NEW u \in Uploads, SignalUpload(u) PROVE ChannelInv'
  BY <1>4 DEF SignalUpload, Progress
<1>5. CASE EnterWait
  BY <1>5 DEF EnterWait
<1>6. CASE WakeUp
  BY <1>6 DEF WakeUp
<1>7. CASE ClearEvent
  BY <1>7 DEF ClearEvent
<1>8. CASE Abandon
  BY <1>8 DEF Abandon
<1>9. CASE GoOn
  BY <1>9 DEF GoOn
<1>10. CASE TakeOverrides
  BY <1>10 DEF TakeOverrides
<1>11. CASE UNCHANGED channelVars
  BY <1>11 DEF channelVars
<1> QED
  BY <1>1, <1>2, <1>3, <1>4, <1>5, <1>6, <1>7, <1>8, <1>9, <1>10, <1>11
  DEF ChannelNext, HandlerStep, WaiterStep

\* The inductive invariant holds of every behaviour of the channel.
THEOREM ChannelInvariant == ChannelSafetySpec => []ChannelInv
  BY ChannelInvInit, ChannelInvNext, PTL DEF ChannelSafetySpec

\* The variables keep their types, for any requests and payloads.
THEOREM ChannelTypeCorrect == ChannelSafetySpec => []ChannelTypeOK
<1>1. ChannelInv => ChannelTypeOK
  BY DEF ChannelInv
<1> QED
  BY <1>1, ChannelInvariant, PTL

\* A parked controller never sleeps through an acknowledged stop or an
\* acknowledged upload request that no retry has picked up.
THEOREM ChannelNoLostWakeUp == ChannelSafetySpec => []NoLostWakeUp
<1>1. ChannelInv => NoLostWakeUp
  BY DEF ChannelInv, StopInFlight, UploadInFlight, NoLostWakeUp, Signalled
<1> QED
  BY <1>1, ChannelInvariant, PTL

-----------------------------------------------------------------------------
(* Every retry is paid for by an acknowledged upload request.  A set event *)
(* is one that is still to be spent, unless a stop may have set it; so is  *)
(* the decision to retry.                                                  *)

Owed(b) == IF b THEN 1 ELSE 0
Decided == waiter = "take" \/ (waiter = "check" /\ ~stopEvent)
Asked == retriggerEvent /\ ~stopEvent

\* The second conjunct is that of a thread that woke up and finds the event as
\* it left it: no other thread clears it.
RetriesPaid ==
    /\ IsFiniteSet(Signalled(Uploads))
    /\ waiter = "clear" => retriggerEvent
    /\ retries + Owed(Decided) + Owed(Asked) <= Cardinality(Signalled(Uploads))

\* A statement that acknowledges no upload request.
LEMMA NothingSignalled ==
    ASSUME ChannelInv, RetriesPaid, Signalled(Uploads)' = Signalled(Uploads),
           \/ /\ retries' = retries
              /\ Decided' => Decided \/ (Asked /\ ~Asked')
              /\ Asked' => Asked
           \/ /\ retries' = retries + 1 /\ Decided /\ ~Decided'
              /\ Asked' => Asked,
           waiter' = "clear" => retriggerEvent'
    PROVE  RetriesPaid'
<1>1. Cardinality(Signalled(Uploads)) \in Nat /\ retries \in Nat
  BY FS_CardinalityType DEF RetriesPaid, ChannelInv, ChannelTypeOK
<1> QED
  BY <1>1 DEF RetriesPaid, Owed

\* Every statement of the handlers and of the waiting thread keeps it.
LEMMA RetriesPaidNext ==
    ASSUME ChannelInv, RetriesPaid, [ChannelNext]_channelVars
    PROVE  RetriesPaid'
<1> USE DEF Decided, Asked, Signalled
<1>1. ASSUME NEW r \in Requests, Progress(r, "new", "half")
      PROVE  Signalled(Uploads)' = Signalled(Uploads)
  BY <1>1 DEF Progress, ChannelInv, ChannelTypeOK, Requests
<1>2. ASSUME NEW s \in Stops, IssueStop(s) PROVE RetriesPaid'
  BY <1>1, <1>2, NothingSignalled DEF IssueStop, Requests, RetriesPaid
<1>3. ASSUME NEW s \in Stops, SignalStop(s) PROVE RetriesPaid'
  <2>1. Signalled(Uploads)' = Signalled(Uploads)
    BY <1>3, RequestsAssumption DEF SignalStop, Progress, ChannelInv, ChannelTypeOK, Requests
  <2>2. stopEvent
    BY <1>3 DEF SignalStop, Progress, ChannelInv, MarksLeft
  <2> QED
    BY <1>3, <2>1, <2>2, NothingSignalled DEF SignalStop
<1>4. ASSUME NEW u \in Uploads, NEW args \in Payloads, StoreOverrides(u, args)
      PROVE  RetriesPaid'
  BY <1>1, <1>4, NothingSignalled DEF StoreOverrides, Requests, RetriesPaid
<1>5. ASSUME NEW u \in Uploads, SignalUpload(u) PROVE RetriesPaid'
  <2>1. Signalled(Uploads)' = Signalled(Uploads) \cup {u} /\ u \notin Signalled(Uploads)
    BY <1>5 DEF SignalUpload, Progress, ChannelInv, ChannelTypeOK, Requests
  <2>2. IsFiniteSet(Signalled(Uploads))
    BY DEF RetriesPaid
  <2> HIDE DEF Signalled
  <2>3. /\ IsFiniteSet(Signalled(Uploads)')
        /\ Cardinality(Signalled(Uploads)') = Cardinality(Signalled(Uploads)) + 1
        /\ Cardinality(Signalled(Uploads)) \in Nat
    BY <2>1, <2>2, FS_AddElement, FS_CardinalityType
  <2>4. retries' = retries /\ (Decided' <=> Decided) /\ retries \in Nat /\ retriggerEvent'
    BY <1>5 DEF SignalUpload, ChannelInv, ChannelTypeOK
  <2> HIDE DEF Decided, Asked
  <2> QED
    BY <2>3, <2>4 DEF RetriesPaid, Owed
<1>6. CASE EnterWait
  BY <1>6, NothingSignalled DEF EnterWait
<1>7. CASE WakeUp
  BY <1>7, NothingSignalled DEF WakeUp
<1>8. CASE ClearEvent
  <2>1. UNCHANGED <<handler, retries, stopEvent>> /\ ~Asked' /\ (Decided' => ~stopEvent)
    BY <1>8 DEF ClearEvent
  <2>2. Asked \/ stopEvent
    BY <1>8 DEF ClearEvent, RetriesPaid
  <2>3. waiter' = "check"
    BY <1>8 DEF ClearEvent
  <2> QED
    BY <2>1, <2>2, <2>3, NothingSignalled
<1>9. CASE Abandon
  BY <1>9, NothingSignalled DEF Abandon
<1>10. CASE GoOn
  BY <1>10, NothingSignalled DEF GoOn
<1>11. CASE TakeOverrides
  BY <1>11, NothingSignalled DEF TakeOverrides
<1>12. CASE UNCHANGED channelVars
  BY <1>12, NothingSignalled DEF channelVars, RetriesPaid
<1> QED
  BY <1>2, <1>3, <1>4, <1>5, <1>6, <1>7, <1>8, <1>9, <1>10, <1>11, <1>12
  DEF ChannelNext, HandlerStep, WaiterStep

\* The controller never re-compresses and re-uploads a campaign more often than
\* it was asked to, for any number of requests (wait_for_retrigger).
THEOREM ChannelRetriesAreRequested == ChannelSafetySpec => []RetriesAreRequested
<1>1. ChannelInit => RetriesPaid
  <2> SUFFICES ASSUME ChannelInit PROVE RetriesPaid
    OBVIOUS
  <2>1. Signalled(Uploads) = {}
    BY DEF ChannelInit, Signalled, Requests
  <2>2. IsFiniteSet({}) /\ Cardinality({}) = 0
    BY FS_EmptySet
  <2> QED
    BY <2>1, <2>2 DEF ChannelInit, RetriesPaid, Owed, Decided, Asked
<1>2. ChannelInv /\ RetriesPaid /\ [ChannelNext]_channelVars => RetriesPaid'
  BY RetriesPaidNext
<1>3. ChannelInv /\ RetriesPaid => RetriesAreRequested
  <2> SUFFICES ASSUME ChannelInv, RetriesPaid PROVE RetriesAreRequested
    OBVIOUS
  <2>1. Cardinality(Signalled(Uploads)) \in Nat /\ retries \in Nat
    BY FS_CardinalityType DEF RetriesPaid, ChannelInv, ChannelTypeOK
  <2> QED
    BY <2>1 DEF RetriesPaid, RetriesAreRequested, Owed
<1> QED
  BY <1>1, <1>2, <1>3, ChannelInvariant, PTL DEF ChannelSafetySpec

-----------------------------------------------------------------------------
\* The channel starts as an empty mailbox with a busy caller.
LEMMA MailboxInit == ChannelInit => Mailbox!Init
  BY DEF ChannelInit, Mailbox!Init

\* Under the refinement mapping every step is a step of the mailbox or leaves
\* it as it is.
LEMMA MailboxNext ==
    ChannelInv /\ [ChannelNext]_channelVars
        => [Mailbox!Next]_(Mailbox!mailboxVars)
<1> SUFFICES ASSUME ChannelInv, [ChannelNext]_channelVars
             PROVE  [Mailbox!Next]_(Mailbox!mailboxVars)
  OBVIOUS
<1> USE DEF ChannelInv, ChannelTypeOK, WaiterStates, Mailbox!mailboxVars
<1>1. ASSUME NEW s \in Stops, IssueStop(s) PROVE Mailbox!RequestStop
  BY <1>1 DEF IssueStop, Mailbox!RequestStop
<1>2. ASSUME NEW s \in Stops, SignalStop(s) PROVE UNCHANGED Mailbox!mailboxVars
  BY <1>2 DEF SignalStop
<1>3. ASSUME NEW u \in Uploads, NEW args \in Payloads, StoreOverrides(u, args)
      PROVE  Mailbox!Accept(u, args)
  BY <1>3 DEF StoreOverrides, Mailbox!Accept
<1>4. ASSUME NEW u \in Uploads, SignalUpload(u)
      PROVE  UNCHANGED Mailbox!mailboxVars
  BY <1>4 DEF SignalUpload
<1>5. ASSUME EnterWait PROVE Mailbox!Park
  BY <1>5 DEF EnterWait, Mailbox!Park
<1>6. ASSUME WakeUp \/ ClearEvent \/ GoOn PROVE UNCHANGED Mailbox!mailboxVars
  BY <1>6 DEF WakeUp, ClearEvent, GoOn
<1>7. ASSUME Abandon PROVE Mailbox!GiveUp
  BY <1>7 DEF Abandon, Mailbox!GiveUp
<1>8. ASSUME TakeOverrides PROVE Mailbox!Retry
  BY <1>8 DEF TakeOverrides, Mailbox!Retry
<1>9. CASE UNCHANGED channelVars
  BY <1>9 DEF channelVars
<1> QED
  BY <1>1, <1>2, <1>3, <1>4, <1>5, <1>6, <1>7, <1>8, <1>9
  DEF ChannelNext, HandlerStep, WaiterStep, Mailbox!Next

\* The safety part of the refinement: the channel implements the mailbox.
THEOREM ChannelImplementsMailbox == ChannelSafetySpec => ImplementsMailboxSafety
<1>1. ChannelInit => Mailbox!Init
  BY MailboxInit
<1> QED
  BY <1>1, MailboxNext, ChannelInvariant, PTL
  DEF ChannelSafetySpec, ImplementsMailboxSafety, Mailbox!SafetySpec

-----------------------------------------------------------------------------
(* The controller.                                                         *)

(* The main thread is inside wait_for_retrigger exactly while it waits (a  *)
(* killed one stays wherever it was).                                      *)
WaiterMatchesMain ==
    /\ pc = "waiting" => waiter \in {"wait", "clear", "check", "take"}
    /\ pc \notin {"waiting", "exited"} => waiter = "out"

\* The provider in use was built from the share environment as it is now,
\* except between a failed attempt and the next rebuild.
ProviderIsCurrent ==
    /\ pc \notin {"channel", "provider", "exited"} => shareEnv # NoTarget
    /\ pc \notin {"channel", "provider", "parked", "waiting", "rebuild", "exited"}
          => provider = shareEnv

\* A saved session is that of an attempt that failed.
SessionOfAttempt ==
    session # NoTarget => session \in Sessions /\ session \in tried

\* Where an upload meant for the target t may have gone.
WentTo(t) ==
    /\ deliveredTo # NoTarget
    /\ deliveredTo # t =>
          {deliveredTo, t} \subseteq Sessions /\ deliveredTo \in tried

DeliveryRecorded ==
    /\ pc # "exited" => exitCode = -1
    /\ pc = "uploaded" => WentTo(provider)
    /\ exitCode = 0 => WentTo(shareEnv)

ParkingReported ==
    /\ pc \in {"parked", "waiting"}
          => channel /\ phase = "uploading" /\ stage = "upload-failed"
    /\ pc \in {"rebuild", "reverify"} => channel

\* A batch opened after a stop request is the last one.
LateBatchIsLast ==
    /\ pc \in {"channel", "provider", "verify", "build", "create", "loop"}
          => lateBatches = 0
    /\ lateBatches > 0 => stopEvent
    /\ lateBatches <= 1

BarBelongsToAttempt ==
    /\ bar /\ pc # "exited" => pc = "upload"
    /\ pc = "upload" /\ channel => stage = "upload-to-share"
    /\ bar => channel
    /\ pc = "reverify" => stage = "upload-to-share"

ControllerInv ==
    /\ ChannelInv
    /\ TypeOK
    /\ WaiterMatchesMain
    /\ ProviderIsCurrent
    /\ SessionOfAttempt
    /\ DeliveryRecorded
    /\ ParkingReported
    /\ LateBatchIsLast
    /\ BarBelongsToAttempt

-----------------------------------------------------------------------------
(* The controller as a user of the channel.                                *)

\* Every step of the controller is a step of the channel or leaves it alone.
LEMMA ControllerChannelStep == [Next]_vars => [ChannelNext]_channelVars
<1> SUFFICES ASSUME [Next]_vars PROVE [ChannelNext]_channelVars
  OBVIOUS
<1> USE DEF ChannelNext, WaiterStep, HandlerStep
<1>1. CASE StartUpStep
  BY <1>1 DEF StartUpStep, StartChannel, RefuseShareConfig, LoadProvider,
     RefuseShareAccess, VerifyShare, BuildFails, Build
<1>2. CASE RunStep
  BY <1>2 DEF RunStep, CreateCampaign, CreateCampaignFails, OpenBatch, RunBatch,
     NextBatch, StopSearch, LoopFails, EndRun, ReportFailure, Finalize,
     FinalizeAndRaise
<1>3. CASE UploadStep
  BY <1>3 DEF UploadStep, BeginUpload, UploadSucceeds, UploadFails,
     ReportUploaded, GiveUpWithoutChannel, ReportUploadFailed, ParkMain, WaitOn,
     AbandonUpload, StartRetry, RebuildFails, Rebuild, ReverifyFails, Reverify
<1>4. CASE UploadProgress
  BY <1>4 DEF UploadProgress
<1>5. ASSUME NEW s \in Stops, ServeIssueStop(s) PROVE ChannelNext
  BY <1>5 DEF ServeIssueStop
<1>6. CASE ServeOther
  BY <1>6 DEF ServeOther
<1>7. CASE Kill
  BY <1>7 DEF Kill
<1>8. CASE UNCHANGED vars
  BY <1>8 DEF vars
<1> QED
  BY <1>1, <1>2, <1>3, <1>4, <1>5, <1>6, <1>7, <1>8 DEF Next, MainStep

\* The controller composed with its handlers is a command channel, and so
\* implements the mailbox.
THEOREM ControllerIsChannel == SafetySpec => ChannelSafetySpec
<1>1. Init => ChannelInit
  BY DEF Init
<1> QED
  BY <1>1, ControllerChannelStep, PTL DEF SafetySpec, ChannelSafetySpec

\* The main thread of the controller never sleeps through an acknowledged
\* command.
THEOREM ControllerNoLostWakeUp == SafetySpec => []NoLostWakeUp
  BY ControllerIsChannel, ChannelNoLostWakeUp, PTL

-----------------------------------------------------------------------------
(* The controller's own invariant.                                         *)

\* The controller starts in its invariant.
LEMMA ControllerInvInit == Init => ControllerInv
<1> SUFFICES ASSUME Init PROVE ControllerInv
  OBVIOUS
<1>1. ChannelInv
  BY ChannelInvInit DEF Init
<1>2. exitCode \in ExitCodes /\ lateBatches \in 0..2
  BY DEF Init, ExitCodes
<1>3. TypeOK
  BY <1>1, <1>2
  DEF Init, ChannelInv, TypeOK, CampaignPcs, Phases, Stages, Notices
<1> QED
  BY <1>1, <1>3 DEF Init, ChannelInit, ControllerInv, WaiterMatchesMain,
     ProviderIsCurrent, SessionOfAttempt, DeliveryRecorded, ParkingReported,
     LateBatchIsLast, BarBelongsToAttempt

\* The share variables name a target after every correction, if they did before.
LEMMA OverridesNameTarget ==
    ASSUME TypeOK, shareEnv # NoTarget, ApplyOverrides
    PROVE  shareEnv' \in Environments /\ shareEnv' # NoTarget
<1>1. handed # NoArgs => handed \in Targets
  BY DEF TypeOK, ChannelTypeOK, Targets
<1>2. shareEnv \in Environments
  BY DEF TypeOK
<1>3. handed # NoArgs => Overlay[shareEnv][handed] \in Environments
  BY <1>1, <1>2, TargetAssumption
<1> QED
  BY <1>2, <1>3, TargetAssumption DEF ApplyOverrides

\* Every step keeps the types.
LEMMA ControllerTypeStep ==
    TypeOK /\ ProviderIsCurrent /\ ChannelTypeOK' /\ [Next]_vars => TypeOK'
<1> SUFFICES ASSUME TypeOK, ProviderIsCurrent, ChannelTypeOK', [Next]_vars
             PROVE  TypeOK'
  OBVIOUS
<1> USE DEF TypeOK, CampaignPcs, ClosingPcs, UploadPcs, Phases, Stages, Notices,
    ExitCodes, Goto, Exit, SetPhase, SetPhaseStage, Notify, statusVars,
    shareVars, processVars, historyVars
<1>1. CASE StartChannel
  <2>1. channel' \in BOOLEAN /\ server' \in {FALSE, channel'}
    BY <1>1 DEF StartChannel
  <2>2. server' \in BOOLEAN
    BY <2>1
  <2> QED
    BY <1>1, <2>1, <2>2 DEF StartChannel
<1>2. CASE RefuseShareConfig
  BY <1>2 DEF RefuseShareConfig
<1>3. CASE LoadProvider
  BY <1>3 DEF LoadProvider
<1>4. CASE RefuseShareAccess
  BY <1>4 DEF RefuseShareAccess
<1>5. CASE VerifyShare
  BY <1>5 DEF VerifyShare
<1>6. CASE BuildFails
  BY <1>6 DEF BuildFails
<1>7. CASE Build
  BY <1>7 DEF Build
<1>8. CASE CreateCampaign
  BY <1>8 DEF CreateCampaign
<1>9. CASE CreateCampaignFails
  BY <1>9 DEF CreateCampaignFails
<1>10. CASE OpenBatch
  BY <1>10 DEF OpenBatch
<1>11. CASE RunBatch
  BY <1>11 DEF RunBatch
<1>12. CASE NextBatch
  BY <1>12 DEF NextBatch
<1>13. CASE StopSearch
  BY <1>13 DEF StopSearch
<1>14. CASE LoopFails
  BY <1>14 DEF LoopFails
<1>15. CASE EndRun
  BY <1>15 DEF EndRun
<1>16. CASE ReportFailure
  BY <1>16 DEF ReportFailure
<1>17. CASE Finalize
  BY <1>17 DEF Finalize
<1>18. CASE FinalizeAndRaise
  BY <1>18 DEF FinalizeAndRaise
<1>19. CASE BeginUpload
  BY <1>19 DEF BeginUpload
<1>20. CASE UploadSucceeds
  <2>1. bar' \in BOOLEAN
    BY <1>20, Zenon DEF UploadSucceeds
  <2>2. {session', deliveredTo'} \subseteq Environments \cup {NoTarget}
    BY <1>20 DEF UploadSucceeds, UploadTargets
  <2> QED
    BY <1>20, <2>1, <2>2 DEF UploadSucceeds
<1>21. CASE UploadFails
  <2>1. bar' \in BOOLEAN
    BY <1>21, Zenon DEF UploadFails
  <2>2. session' \in Environments \cup {NoTarget}
    BY <1>21 DEF UploadFails, SessionsLeft
  <2>3. provider \in Environments
    BY <1>21 DEF UploadFails, ProviderIsCurrent
  <2>4. tried' \subseteq Environments
    BY <1>21, <2>3 DEF UploadFails
  <2> QED
    BY <1>21, <2>1, <2>2, <2>4 DEF UploadFails
<1>22. CASE ReportUploaded
  BY <1>22 DEF ReportUploaded
<1>23. CASE GiveUpWithoutChannel
  BY <1>23 DEF GiveUpWithoutChannel
<1>24. CASE ReportUploadFailed
  BY <1>24 DEF ReportUploadFailed
<1>25. CASE ParkMain
  BY <1>25 DEF ParkMain
<1>26. CASE WaitOn
  BY <1>26 DEF WaitOn, mainVars
<1>27. CASE AbandonUpload
  BY <1>27 DEF AbandonUpload
<1>28. CASE StartRetry
  BY <1>28 DEF StartRetry
<1>29. CASE RebuildFails
  <2>1. shareEnv' \in Environments
    BY <1>29, OverridesNameTarget DEF RebuildFails, ProviderIsCurrent
  <2> QED
    BY <1>29, <2>1 DEF RebuildFails
<1>30. CASE Rebuild
  <2>1. shareEnv' \in Environments
    BY <1>30, OverridesNameTarget DEF Rebuild, ProviderIsCurrent
  <2> QED
    BY <1>30, <2>1 DEF Rebuild
<1>31. CASE ReverifyFails
  BY <1>31 DEF ReverifyFails
<1>32. CASE Reverify
  BY <1>32 DEF Reverify
<1>33. CASE UploadProgress
  BY <1>33 DEF UploadProgress
<1>34. CASE ServeOther
  BY <1>34 DEF ServeOther, mainVars
<1>35. CASE Kill
  BY <1>35 DEF Kill
<1>36. ASSUME NEW s \in Stops, ServeIssueStop(s) PROVE TypeOK'
  BY <1>36 DEF ServeIssueStop
<1>37. CASE UNCHANGED vars
  BY <1>37 DEF vars, mainVars
<1> QED
  BY <1>1, <1>2, <1>3, <1>4, <1>5, <1>6, <1>7, <1>8, <1>9, <1>10, <1>11,
     <1>12, <1>13, <1>14, <1>15, <1>16, <1>17, <1>18, <1>19, <1>20, <1>21,
     <1>22, <1>23, <1>24, <1>25, <1>26, <1>27, <1>28, <1>29, <1>30, <1>31,
     <1>32, <1>33, <1>34, <1>35, <1>36, <1>37
  DEF Next, MainStep, StartUpStep, RunStep, UploadStep

\* The conjuncts of the invariant beyond the types and the channel's own.
ControllerControl ==
    /\ WaiterMatchesMain
    /\ ProviderIsCurrent
    /\ SessionOfAttempt
    /\ DeliveryRecorded
    /\ ParkingReported
    /\ LateBatchIsLast
    /\ BarBelongsToAttempt

\* Every step keeps them.
LEMMA ControllerControlStep ==
    ControllerInv /\ TypeOK' /\ [Next]_vars => ControllerControl'
<1> SUFFICES ASSUME ControllerInv, TypeOK', [Next]_vars
             PROVE  ControllerControl'
  OBVIOUS
<1> USE TargetAssumption
    DEF ControllerControl, ControllerInv, WaiterMatchesMain, ProviderIsCurrent,
        SessionOfAttempt, DeliveryRecorded, WentTo, ParkingReported, LateBatchIsLast, BarBelongsToAttempt,
        TypeOK, Goto, Exit, SetPhase, SetPhaseStage, Notify, channelVars,
        statusVars, shareVars, processVars, historyVars
<1>1. CASE StartChannel
  BY <1>1 DEF StartChannel
<1>2. CASE RefuseShareConfig
  BY <1>2 DEF RefuseShareConfig
<1>3. CASE LoadProvider
  BY <1>3 DEF LoadProvider
<1>4. CASE RefuseShareAccess
  BY <1>4 DEF RefuseShareAccess
<1>5. CASE VerifyShare
  BY <1>5 DEF VerifyShare
<1>6. CASE BuildFails
  BY <1>6 DEF BuildFails
<1>7. CASE Build
  BY <1>7 DEF Build
<1>8. CASE CreateCampaign
  BY <1>8 DEF CreateCampaign
<1>9. CASE CreateCampaignFails
  BY <1>9 DEF CreateCampaignFails
<1>10. CASE OpenBatch
  BY <1>10 DEF OpenBatch
<1>11. CASE RunBatch
  BY <1>11 DEF RunBatch
<1>12. CASE NextBatch
  BY <1>12 DEF NextBatch
<1>13. CASE StopSearch
  BY <1>13 DEF StopSearch
<1>14. CASE LoopFails
  BY <1>14 DEF LoopFails
<1>15. CASE EndRun
  BY <1>15 DEF EndRun
<1>16. CASE ReportFailure
  BY <1>16 DEF ReportFailure
<1>17. CASE Finalize
  BY <1>17 DEF Finalize
<1>18. CASE FinalizeAndRaise
  BY <1>18 DEF FinalizeAndRaise
<1>19. CASE BeginUpload
  BY <1>19 DEF BeginUpload
<1>20. CASE UploadSucceeds
  BY <1>20 DEF UploadSucceeds, UploadTargets
<1>21. CASE UploadFails
  BY <1>21 DEF UploadFails, SessionsLeft
<1>22. CASE ReportUploaded
  BY <1>22 DEF ReportUploaded
<1>23. CASE GiveUpWithoutChannel
  BY <1>23 DEF GiveUpWithoutChannel
<1>24. CASE ReportUploadFailed
  BY <1>24 DEF ReportUploadFailed
<1>25. CASE ParkMain
  BY <1>25 DEF ParkMain, EnterWait
<1>26. CASE WaitOn
  BY <1>26 DEF WaitOn, WakeUp, ClearEvent, GoOn, mainVars
<1>27. CASE AbandonUpload
  BY <1>27 DEF AbandonUpload, Abandon
<1>28. CASE StartRetry
  BY <1>28 DEF StartRetry, TakeOverrides
<1>29. CASE RebuildFails
  <2>1. shareEnv' # NoTarget
    BY <1>29, OverridesNameTarget DEF RebuildFails
  <2> QED
    BY <1>29, <2>1 DEF RebuildFails
<1>30. CASE Rebuild
  <2>1. shareEnv' # NoTarget
    BY <1>30, OverridesNameTarget DEF Rebuild
  <2> QED
    BY <1>30, <2>1 DEF Rebuild
<1>31. CASE ReverifyFails
  BY <1>31 DEF ReverifyFails
<1>32. CASE Reverify
  BY <1>32 DEF Reverify
<1>33. CASE UploadProgress
  BY <1>33 DEF UploadProgress
<1>34. CASE ServeOther
  BY <1>34 DEF ServeOther, mainVars, SignalStop, StoreOverrides, SignalUpload
<1>35. CASE Kill
  BY <1>35 DEF Kill
<1>36. ASSUME NEW s \in Stops, ServeIssueStop(s) PROVE ControllerControl'
  BY <1>36 DEF ServeIssueStop, IssueStop
<1>37. CASE UNCHANGED vars
  BY <1>37 DEF vars, mainVars
<1> QED
  BY <1>1, <1>2, <1>3, <1>4, <1>5, <1>6, <1>7, <1>8, <1>9, <1>10, <1>11,
     <1>12, <1>13, <1>14, <1>15, <1>16, <1>17, <1>18, <1>19, <1>20, <1>21,
     <1>22, <1>23, <1>24, <1>25, <1>26, <1>27, <1>28, <1>29, <1>30, <1>31,
     <1>32, <1>33, <1>34, <1>35, <1>36, <1>37
  DEF Next, MainStep, StartUpStep, RunStep, UploadStep

\* The inductive invariant holds of every behaviour of the controller.
THEOREM ControllerInvariant == SafetySpec => []ControllerInv
<1>1. ControllerInv /\ [Next]_vars => ControllerInv'
  <2> SUFFICES ASSUME ControllerInv, [Next]_vars
               PROVE  ControllerInv'
    OBVIOUS
  <2>1. ChannelInv'
    BY ControllerChannelStep, ChannelInvNext DEF ControllerInv
  <2>2. TypeOK'
    BY <2>1, ControllerTypeStep DEF ControllerInv, ChannelInv
  <2>3. ControllerControl'
    BY <2>2, ControllerControlStep
  <2> QED
    BY <2>1, <2>2, <2>3 DEF ControllerInv, ControllerControl
<1> QED
  BY ControllerInvInit, <1>1, PTL DEF SafetySpec

\* The controller's variables keep their types.
THEOREM ControllerTypeCorrect == SafetySpec => []TypeOK
<1>1. ControllerInv => TypeOK
  BY DEF ControllerInv
<1> QED
  BY <1>1, ControllerInvariant, PTL

\* Exit code 0 means a delivered archive, at the target of the share variables
\* with every accepted correction applied or, between providers that resume
\* saved sessions, at that of an earlier attempt that failed.
THEOREM ControllerDelivers == SafetySpec => []ExitZeroMeansDelivered
<1>1. ControllerInv => ExitZeroMeansDelivered
  BY DEF ControllerInv, DeliveryRecorded, WentTo, ExitZeroMeansDelivered
<1> QED
  BY <1>1, ControllerInvariant, PTL

\* A controller that waits for a retrigger shows the status of one.
THEOREM ControllerParkingReported == SafetySpec => []ParkedIsReported
<1>1. ControllerInv => ParkedIsReported
  BY DEF ControllerInv, ParkingReported, ParkedIsReported
<1> QED
  BY <1>1, ControllerInvariant, PTL

\* No upload bar without a running attempt.
THEOREM ControllerBar == SafetySpec => []BarOnlyWhileUploading
<1>1. ControllerInv => BarOnlyWhileUploading
  BY DEF ControllerInv, BarBelongsToAttempt, BarOnlyWhileUploading
<1> QED
  BY <1>1, ControllerInvariant, PTL

\* At most one batch is opened after a stop request.
THEOREM ControllerStopEndsSearch == SafetySpec => []StopEndsSearch
<1>1. ControllerInv => StopEndsSearch
  BY DEF ControllerInv, LateBatchIsLast, StopEndsSearch
<1> QED
  BY <1>1, ControllerInvariant, PTL

\* The composed controller neither: its main thread does not retry unasked.
THEOREM ControllerRetriesAreRequested == SafetySpec => []RetriesAreRequested
  BY ControllerIsChannel, ChannelRetriesAreRequested, PTL

-----------------------------------------------------------------------------
(* The pod as a mailbox.                                                   *)

\* A killed pod stays as it is; only the kill makes the exit code 137.
LEMMA PodEnds ==
    ASSUME ControllerInv, [Next]_vars
    PROVE  \/ Kill /\ exitCode = -1
           \/ exitCode = 137 /\ UNCHANGED vars
           \/ exitCode # 137 /\ exitCode' # 137
<1> USE DEF ControllerInv, DeliveryRecorded, processVars
<1>1. CASE StartUpStep
  <2>1. CASE StartChannel
    <3>1. pc # "exited" /\ exitCode' = exitCode
      BY <2>1 DEF StartChannel, Goto
    <3> QED
      BY <3>1
  <2> QED
    BY <1>1, <2>1 DEF StartUpStep, RefuseShareConfig, LoadProvider,
       RefuseShareAccess, VerifyShare, BuildFails, Build, Exit, Goto
<1>2. CASE RunStep
  BY <1>2 DEF RunStep, CreateCampaign, CreateCampaignFails, OpenBatch, RunBatch,
     NextBatch, StopSearch, LoopFails, EndRun, ReportFailure, Finalize,
     FinalizeAndRaise, Exit, Goto
<1>3. CASE UploadStep
  BY <1>3 DEF UploadStep, BeginUpload, UploadSucceeds, UploadFails,
     ReportUploaded, GiveUpWithoutChannel, ReportUploadFailed, ParkMain, WaitOn,
     AbandonUpload, StartRetry, RebuildFails, Rebuild, ReverifyFails, Reverify,
     Exit, Goto, mainVars
<1>4. CASE UploadProgress
  BY <1>4 DEF UploadProgress
<1>5. ASSUME NEW s \in Stops, ServeIssueStop(s) PROVE exitCode # 137 /\ exitCode' # 137
  BY <1>5 DEF ServeIssueStop
<1>6. CASE ServeOther
  BY <1>6 DEF ServeOther, mainVars
<1>7. CASE Kill
  BY <1>7 DEF Kill
<1>8. CASE UNCHANGED vars
  BY <1>8 DEF vars, mainVars
<1> QED
  BY <1>1, <1>2, <1>3, <1>4, <1>5, <1>6, <1>7, <1>8 DEF Next, MainStep

\* While the pod has not been killed its mailbox is that of the channel.
LEMMA PodMailboxNext ==
    ControllerInv /\ [Next]_vars => [PodMailbox!Next]_(PodMailbox!mailboxVars)
<1> SUFFICES ASSUME ControllerInv, [Next]_vars
             PROVE  [PodMailbox!Next]_(PodMailbox!mailboxVars)
  OBVIOUS
<1>1. CASE Kill /\ exitCode = -1
  <2>1. pc # "exited" /\ exitCode' = 137 /\ UNCHANGED channelVars
    BY <1>1 DEF Kill
  <2>2. waiter \in {"out", "wait", "clear", "check", "take"}
    BY <2>1 DEF ControllerInv, WaiterMatchesMain
  <2>3. PodMailbox!Die
    BY <1>1, <2>1, <2>2 DEF PodMailbox!Die, channelVars
  <2> QED
    BY <2>3 DEF PodMailbox!Next
<1>2. CASE UNCHANGED vars
  BY <1>2 DEF vars, channelVars, mainVars, processVars, PodMailbox!mailboxVars
<1>3. CASE exitCode # 137 /\ exitCode' # 137
  <2>1. [Mailbox!Next]_(Mailbox!mailboxVars)
    BY ControllerChannelStep, MailboxNext DEF ControllerInv
  <2>2. CASE UNCHANGED Mailbox!mailboxVars
    BY <1>3, <2>2 DEF Mailbox!mailboxVars, PodMailbox!mailboxVars
  <2>3. ASSUME NEW u \in Uploads, NEW args \in Payloads, Mailbox!Accept(u, args)
        PROVE  PodMailbox!Accept(u, args)
    BY <1>3, <2>3 DEF Mailbox!Accept, PodMailbox!Accept
  <2>4. ASSUME Mailbox!RequestStop PROVE PodMailbox!RequestStop
    BY <1>3, <2>4 DEF Mailbox!RequestStop, PodMailbox!RequestStop
  <2>5. ASSUME Mailbox!Park PROVE PodMailbox!Park
    BY <1>3, <2>5 DEF Mailbox!Park, PodMailbox!Park
  <2>6. ASSUME Mailbox!Retry PROVE PodMailbox!Retry
    BY <1>3, <2>6 DEF Mailbox!Retry, PodMailbox!Retry
  <2>7. ASSUME Mailbox!GiveUp PROVE PodMailbox!GiveUp
    BY <1>3, <2>7 DEF Mailbox!GiveUp, PodMailbox!GiveUp
  <2>8. ASSUME Mailbox!Die PROVE PodMailbox!Die
    BY <1>3, <2>8 DEF Mailbox!Die, PodMailbox!Die
  <2> QED
    BY <2>1, <2>2, <2>3, <2>4, <2>5, <2>6, <2>7, <2>8 DEF Mailbox!Next, PodMailbox!Next
<1> QED
  BY <1>1, <1>2, <1>3, PodEnds

\* The safety half of the refinement: the pod hands out the newest arguments,
\* each once, and after a stop no retry but one already decided on, from start to
\* end, whether it gives up, delivers or is killed.
THEOREM ControllerImplementsMailbox == SafetySpec => PodImplementsMailboxSafety
<1>1. Init => PodMailbox!Init
  BY DEF Init, ChannelInit, PodMailbox!Init
<1> QED
  BY <1>1, PodMailboxNext, ControllerInvariant, PTL
  DEF SafetySpec, PodImplementsMailboxSafety, PodMailbox!SafetySpec
=============================================================================
