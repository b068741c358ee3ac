--------------------------- MODULE ControlChannel ---------------------------
(***************************************************************************)
(* The command half of ControllerState (execution/control_server.py): the  *)
(* handlers of POST /command signal, the controller's main thread waits in *)
(* wait_for_retrigger.  The handlers are synchronous functions of a        *)
(* FastAPI app, so each request runs on a worker thread of its own and any *)
(* number of them interleave with the main thread and with one another,    *)
(* one Python statement that touches shared state at a time.               *)
(*                                                                         *)
(* Every request of Stops and Uploads is received at most once; a client   *)
(* that repeats a command sends another request.                           *)
(***************************************************************************)
EXTENDS Naturals, FiniteSets

CONSTANTS
    Stops,     \* `stop' requests a client may send
    Uploads,   \* `upload-to-share' requests a client may send
    Payloads,  \* the arguments an upload request may carry
    NoArgs     \* the empty argument dictionary

ASSUME RequestsAssumption == Stops \cap Uploads = {}
ASSUME PayloadsAssumption == NoArgs \in Payloads

VARIABLES
    stopEvent,       \* _stop_event.is_set()
    retriggerEvent,  \* _retrigger_event.is_set()
    overrides,       \* _retrigger_overrides
    handler,         \* how far the handler of each request is
    waiter,          \* where the main thread is in wait_for_retrigger
    handed,          \* the overrides of the last "retrigger" returned
    unserved,        \* history: uploads stored since the last "retrigger"
    retries          \* history: number of "retrigger" results

channelVars == <<stopEvent, retriggerEvent, overrides, handler, waiter,
                 handed, unserved, retries>>

Requests == Stops \cup Uploads

\* "out": not in the call; "wait", "clear", "check", "take": about to run the
\* statement of that name; "abandoned": the call returned "abandon".
WaiterStates == {"out", "wait", "clear", "check", "take", "abandoned"}

ChannelTypeOK ==
    /\ stopEvent \in BOOLEAN
    /\ retriggerEvent \in BOOLEAN
    /\ overrides \in Payloads
    /\ handler \in [Requests -> {"new", "half", "done"}]
    /\ waiter \in WaiterStates
    /\ handed \in Payloads
    /\ unserved \subseteq Uploads
    /\ retries \in Nat

ChannelInit ==
    /\ stopEvent = FALSE
    /\ retriggerEvent = FALSE
    /\ overrides = NoArgs
    /\ handler = [r \in Requests |-> "new"]
    /\ waiter = "out"
    /\ handed = NoArgs
    /\ unserved = {}
    /\ retries = 0

-----------------------------------------------------------------------------
(* The handlers.                                                           *)

Progress(r, from, to) ==
    /\ handler[r] = from
    /\ handler' = [handler EXCEPT ![r] = to]

\* request_stop, first statement: the flag the campaign loop polls.
IssueStop(s) ==
    /\ Progress(s, "new", "half")
    /\ stopEvent' = TRUE
    /\ UNCHANGED <<retriggerEvent, overrides, waiter, handed, unserved, retries>>

\* request_stop, second statement: wake a thread blocked in the wait.
SignalStop(s) ==
    /\ Progress(s, "half", "done")
    /\ retriggerEvent' = TRUE
    /\ UNCHANGED <<stopEvent, overrides, waiter, handed, unserved, retries>>

\* request_upload, the locked block: the newest arguments replace the pending
\* ones, whatever those were.
StoreOverrides(u, args) ==
    /\ Progress(u, "new", "half")
    /\ overrides' = args
    /\ unserved' = unserved \cup {u}
    /\ UNCHANGED <<stopEvent, retriggerEvent, waiter, handed, retries>>

\* request_upload, last statement.
SignalUpload(u) ==
    /\ Progress(u, "half", "done")
    /\ retriggerEvent' = TRUE
    /\ UNCHANGED <<stopEvent, overrides, waiter, handed, unserved, retries>>

-----------------------------------------------------------------------------
(* wait_for_retrigger, on the main thread.                                 *)

\* Mutant: forget a trigger that came before the call.
EnterWaitFresh ==
    /\ waiter = "out"
    /\ waiter' = "wait"
    /\ retriggerEvent' = FALSE
    /\ UNCHANGED <<stopEvent, overrides, handler, handed, unserved, retries>>

\* The caller parks itself.
EnterWait ==
    /\ waiter = "out"
    /\ waiter' = "wait"
    /\ UNCHANGED <<stopEvent, retriggerEvent, overrides, handler, handed,
                   unserved, retries>>

\* _retrigger_event.wait() returns.
WakeUp ==
    /\ waiter = "wait"
    /\ retriggerEvent
    /\ waiter' = "clear"
    /\ UNCHANGED <<stopEvent, retriggerEvent, overrides, handler, handed,
                   unserved, retries>>

\* _retrigger_event.clear(), before anything else is read.
ClearEvent ==
    /\ waiter = "clear"
    /\ waiter' = "check"
    /\ retriggerEvent' = FALSE
    /\ UNCHANGED <<stopEvent, overrides, handler, handed, unserved, retries>>

\* A stop was requested: return ("abandon", {}).
Abandon ==
    /\ waiter = "check"
    /\ stopEvent
    /\ waiter' = "abandoned"
    /\ UNCHANGED <<stopEvent, retriggerEvent, overrides, handler, handed,
                   unserved, retries>>

\* Mutant: the stop flag is not looked at.
GoOnRegardless ==
    /\ waiter = "check"
    /\ waiter' = "take"
    /\ UNCHANGED <<stopEvent, retriggerEvent, overrides, handler, handed,
                   unserved, retries>>

\* No stop so far: go on to the overrides.
GoOn ==
    /\ waiter = "check"
    /\ ~stopEvent
    /\ waiter' = "take"
    /\ UNCHANGED <<stopEvent, retriggerEvent, overrides, handler, handed,
                   unserved, retries>>

\* Mutant: the event is cleared once the overrides are read.
TakeThenClear ==
    /\ waiter = "take"
    /\ waiter' = "out"
    /\ handed' = overrides
    /\ overrides' = NoArgs
    /\ unserved' = {}
    /\ retries' = retries + 1
    /\ retriggerEvent' = FALSE
    /\ UNCHANGED <<stopEvent, handler>>

\* Read and reset the overrides under the lock, return ("retrigger", them).
TakeOverrides ==
    /\ waiter = "take"
    /\ waiter' = "out"
    /\ handed' = overrides
    /\ overrides' = NoArgs
    /\ unserved' = {}
    /\ retries' = retries + 1
    /\ UNCHANGED <<stopEvent, retriggerEvent, handler>>

-----------------------------------------------------------------------------
HandlerStep ==
    \/ \E s \in Stops : IssueStop(s) \/ SignalStop(s)
    \/ \E u \in Uploads :
          (\E args \in Payloads : StoreOverrides(u, args)) \/ SignalUpload(u)

WaiterStep == WakeUp \/ ClearEvent \/ Abandon \/ GoOn \/ TakeOverrides

ChannelNext == HandlerStep \/ EnterWait \/ WaiterStep

ChannelSafetySpec == ChannelInit /\ [][ChannelNext]_channelVars

-----------------------------------------------------------------------------
(* Properties.                                                             *)

Signalled(S) == {r \in S : handler[r] = "done"}

\* A controller that sits in wait() has no answered command in front of it: an
\* acknowledged stop, and an acknowledged upload request no retry has picked up
\* since, leave the event set, whatever was signalled, cleared and read in
\* between (control_server.py:155-191).
NoLostWakeUp ==
    waiter = "wait" /\ (Signalled(Stops) # {} \/ Signalled(unserved) # {})
        => retriggerEvent

\* The controller never re-compresses and re-uploads a campaign without having
\* been asked: there are no more retries than acknowledged upload requests
\* (a retry that takes the overrides between a handler's two statements is paid
\* back by the signal that comes late, control_server.py:174-188).
RetriesAreRequested == retries <= Cardinality(Signalled(Uploads))

\* The mailbox this channel implements.  A thread that is past the check of the
\* stop flag has decided to retry.
Mailbox == INSTANCE RetriggerMailbox WITH
    caller   <- CASE waiter = "out" -> "busy"
                  [] waiter = "abandoned" -> "gone"
                  [] OTHER -> "parked",
    newest   <- overrides,
    stopping <- stopEvent,
    mayRetry <- ~stopEvent \/ waiter = "take"

\* Every step of the handlers and of wait_for_retrigger is a step of the mailbox
\* or invisible there: the newest arguments win, they are handed out once, and
\* after a stop at most the retry already decided on goes ahead.
ImplementsMailboxSafety == Mailbox!SafetySpec
=============================================================================
