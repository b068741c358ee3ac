-------------------------- MODULE RetriggerMailbox --------------------------
(***************************************************************************)
(* What the command channel of a robovast controller promises, without its *)
(* events, locks and flags: a mailbox that holds the newest credential     *)
(* corrections, a controller that parks itself in front of it, and a stop  *)
(* request that ends the parking for good.                                 *)
(*                                                                         *)
(* A stop may find a retry under way that was decided before it; that      *)
(* retry is still handed out, and none after it (mayRetry).                *)
(* The process may be killed at any time; nothing is promised after that.  *)
(***************************************************************************)
CONSTANTS Uploads, Payloads, NoArgs

VARIABLES
    caller,     \* the main thread: "busy", "parked", "gone" or "dead"
    newest,     \* the arguments in the mailbox
    unserved,   \* upload requests no retry has picked up
    handed,     \* what the last retry was given
    stopping,   \* a stop was requested
    mayRetry    \* a retry may still be handed out

mailboxVars == <<caller, newest, unserved, handed, stopping, mayRetry>>

Init ==
    /\ caller = "busy"
    /\ newest = NoArgs
    /\ unserved = {}
    /\ handed = NoArgs
    /\ stopping = FALSE
    /\ mayRetry = TRUE

Accept(u, args) ==
    /\ newest' = args
    /\ unserved' = unserved \cup {u}
    /\ UNCHANGED <<caller, handed, stopping, mayRetry>>

RequestStop ==
    /\ stopping' = TRUE
    /\ mayRetry' \in {FALSE, mayRetry}
    /\ UNCHANGED <<caller, newest, unserved, handed>>

Park ==
    /\ caller = "busy"
    /\ caller' = "parked"
    /\ UNCHANGED <<newest, unserved, handed, stopping, mayRetry>>

\* A retry gets the newest arguments and serves every request so far.
Retry ==
    /\ caller = "parked"
    /\ mayRetry
    /\ caller' = "busy"
    /\ handed' = newest
    /\ newest' = NoArgs
    /\ unserved' = {}
    /\ mayRetry' = ~stopping
    /\ UNCHANGED stopping

GiveUp ==
    /\ caller = "parked"
    /\ stopping
    /\ ~mayRetry
    /\ caller' = "gone"
    /\ UNCHANGED <<newest, unserved, handed, stopping, mayRetry>>

Die ==
    /\ caller \in {"busy", "parked"}
    /\ caller' = "dead"
    /\ UNCHANGED <<newest, unserved, handed, stopping, mayRetry>>

Next ==
    \/ \E u \in Uploads, args \in Payloads : Accept(u, args)
    \/ RequestStop
    \/ Park
    \/ Retry
    \/ GiveUp
    \/ Die

SafetySpec == Init /\ [][Next]_mailboxVars

\* A parked controller with something in front of it does not stay parked.
Answer == (unserved # {} \/ stopping) /\ (Retry \/ GiveUp)

Spec == SafetySpec /\ WF_mailboxVars(Answer)
=============================================================================
