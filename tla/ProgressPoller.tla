---------------------------- MODULE ProgressPoller -----------------------------
(***************************************************************************)
(* The run-level progress of a batch (execution/controller.py, "run-level  *)
(* progress poller"): a daemon thread counts the finished runs in the      *)
(* storage and publishes how many of the current batch they are, while the *)
(* main thread begins and ends batches.  The two share plain attributes    *)
(* without a lock, so their statements interleave one by one.              *)
(***************************************************************************)
EXTENDS Integers, FiniteSets

VARIABLES
    polling,   \* a poller thread was started: there is a channel to publish to
    active,    \* _batch_active
    baseline,  \* _batch_baseline
    total,     \* _batch_total
    runs,      \* Status.runs
    stopPoll,  \* _poller_stop
    poll,      \* where the poller thread is
    counted,   \* its locals: `done', and `completed' once it is computed
    fresh,     \* history: the poller's round began after the baseline was taken
    trusted    \* history: the baseline of this batch was counted, not defaulted

sharedVars == <<active, baseline, total, runs, stopPoll>>
threadVars == <<poll, counted, fresh>>
progressVars == <<polling, sharedVars, threadVars, trusted>>

PollStates == {"check", "count", "subtract", "cap", "publish", "gone"}

ProgressTypeOK ==
    /\ polling \in BOOLEAN
    /\ active \in BOOLEAN
    /\ baseline \in Nat
    /\ total \in Nat
    /\ runs \in [completed : Nat, total : Nat]
    /\ stopPoll \in BOOLEAN
    /\ poll \in PollStates
    /\ counted \in Nat
    /\ fresh \in BOOLEAN
    /\ trusted \in BOOLEAN

\* The local backend counts nothing, and then no thread is started.
ProgressInit ==
    /\ polling \in BOOLEAN
    /\ active = FALSE
    /\ baseline = 0
    /\ total = 0
    /\ runs = [completed |-> 0, total |-> 0]
    /\ stopPoll = FALSE
    /\ poll = IF polling THEN "check" ELSE "gone"
    /\ counted = 0
    /\ fresh = FALSE
    /\ trusted = TRUE

-----------------------------------------------------------------------------
(* _begin_batch_progress and _end_batch_progress, for a batch of n runs     *)
(* with `stored' results in the storage.  Without a poller they do nothing. *)

\* The count may raise: the baseline is then 0.
TakeBaseline(stored) ==
    /\ \/ baseline' = stored /\ trusted' = TRUE
       \/ baseline' = 0 /\ trusted' = FALSE
    /\ fresh' = FALSE
    /\ UNCHANGED <<polling, active, total, runs, stopPoll, poll, counted>>

SetTotal(n) ==
    /\ total' = n
    /\ UNCHANGED <<polling, active, baseline, runs, stopPoll, threadVars, trusted>>

PublishNone ==
    /\ runs' = [completed |-> 0, total |-> total]
    /\ UNCHANGED <<polling, active, baseline, total, stopPoll, threadVars, trusted>>

Activate ==
    /\ active' = TRUE
    /\ UNCHANGED <<polling, baseline, total, runs, stopPoll, threadVars, trusted>>

Deactivate ==
    /\ active' = FALSE
    /\ UNCHANGED <<polling, baseline, total, runs, stopPoll, threadVars, trusted>>

PublishAll ==
    /\ runs' = [completed |-> total, total |-> total]
    /\ UNCHANGED <<polling, active, baseline, total, stopPoll, threadVars, trusted>>

\* Mutant: the thread is not told.
StopPollingUntold == UNCHANGED progressVars

\* _stop_progress_poller, at the end of the campaign; nobody joins the thread.
StopPolling ==
    /\ stopPoll' = polling
    /\ UNCHANGED <<polling, active, baseline, total, runs, threadVars, trusted>>

-----------------------------------------------------------------------------
(* The poller thread.                                                      *)

\* The loop condition, then _batch_active; an idle round waits out the
\* interval and comes back here.
BeginRound ==
    /\ poll = "check"
    /\ ~stopPoll
    /\ active
    /\ poll' = "count"
    /\ fresh' = TRUE
    /\ UNCHANGED <<polling, sharedVars, counted, trusted>>

LeaveLoop ==
    /\ poll = "check"
    /\ stopPoll
    /\ poll' = "gone"
    /\ UNCHANGED <<polling, sharedVars, counted, fresh, trusted>>

CountRuns(stored) ==
    /\ poll = "count"
    /\ poll' = "subtract"
    /\ counted' = stored
    /\ UNCHANGED <<polling, sharedVars, fresh, trusted>>

\* The storage call raises: the round is over.
CountFails ==
    /\ poll = "count"
    /\ poll' = "check"
    /\ fresh' = FALSE
    /\ UNCHANGED <<polling, sharedVars, counted, trusted>>

\* Mutant: the count of the whole campaign is published.
SubtractNothing ==
    /\ poll = "subtract"
    /\ poll' = "cap"
    /\ UNCHANGED <<polling, sharedVars, counted, fresh, trusted>>

\* max(0, done - self._batch_baseline)
SubtractBaseline ==
    /\ poll = "subtract"
    /\ poll' = "cap"
    /\ counted' = IF counted > baseline THEN counted - baseline ELSE 0
    /\ UNCHANGED <<polling, sharedVars, fresh, trusted>>

\* min(..., self._batch_total)
CapAtTotal ==
    /\ poll = "cap"
    /\ poll' = "publish"
    /\ counted' = IF counted < total THEN counted ELSE total
    /\ UNCHANGED <<polling, sharedVars, fresh, trusted>>

\* The total is read once more for the dictionary that is published.
Publish ==
    /\ poll = "publish"
    /\ poll' = "check"
    /\ runs' = [completed |-> counted, total |-> total]
    /\ counted' = 0
    /\ fresh' = FALSE
    /\ UNCHANGED <<polling, active, baseline, total, stopPoll, trusted>>

PollStep(stored) ==
    \/ BeginRound \/ LeaveLoop \/ CountRuns(stored) \/ CountFails
    \/ SubtractBaseline \/ CapAtTotal \/ Publish
=============================================================================
