---------------------------- MODULE AnalyzerWorker -----------------------------
(***************************************************************************)
(* The results analyzer's background worker (LatestOnlyWorker of           *)
(* evaluation/result_analyzer/widgets/worker_thread.py) and the window     *)
(* that drives it (result_analyzer.py).  The GUI thread asks for an        *)
(* analysis with every selection, cancelling what runs; the worker thread  *)
(* executes the notebooks of the campaign one after the other and hands    *)
(* results back through queued signals.  The threads share a task queue,   *)
(* the list of workloads and a cancel flag for each workload, no lock.     *)
(***************************************************************************)
EXTENDS Integers, Sequences, FiniteSets

CONSTANTS
    Campaigns,  \* the campaigns under the results directory
    Views,      \* number of notebooks (workloads, tabs) of each campaign
    MaxTasks    \* bound: selections the user makes

ASSUME AnalyzerAssumption ==
    /\ MaxTasks \in Nat
    /\ Views \in [Campaigns -> Nat \ {0}]
    /\ \E c \in Campaigns : \A d \in Campaigns : Views[d] <= Views[c]

\* Campaigns name their workloads alike: the tabs are keyed by the name.
Names == 1 .. CHOOSE n \in {Views[c] : c \in Campaigns} :
                \A c \in Campaigns : Views[c] <= n
Workloads == {w \in Campaigns \X Names : w[2] <= Views[w[1]]}
Tasks == [id : 1 .. MaxTasks, campaign : Campaigns]

VARIABLES
    (* shared by the threads *)
    queue,      \* task_queue
    running,    \* worker.running
    installed,  \* the campaign whose list _workloads is
    cancelled,  \* workloads whose cancel_event is set
    events,     \* signals on their way to the GUI thread
    (* GUI thread *)
    gui,        \* what it does next
    wanted,     \* the selection being handled: a task, with its id to come
    at,         \* index of the next workload to cancel
    current,    \* _current_campaign: whose tabs are shown
    counter,    \* _task_counter
    shown,      \* task whose result each tab shows, 0: waiting
    reported,   \* <<task, name>> whose error reached the status bar
    (* worker thread *)
    wpc,        \* what it does next
    task,       \* latest_task
    list,       \* the campaign whose list the current for loop goes through
    index,      \* its position there
    outcome     \* what the workload's run returned, or that it raised

shared == <<queue, running, installed, cancelled, events>>
guiVars == <<gui, wanted, at, current, counter, shown, reported>>
workerVars == <<wpc, task, list, index, outcome>>
vars == <<shared, guiVars, workerVars>>

GuiStates == {"idle", "cancelOld", "drainOld", "replace", "cancel", "drain",
              "put", "cancelAll", "drainAll", "join", "closed"}
WorkerStates == {"get", "latest", "reset", "next", "run", "check", "emit",
                 "ended"}

NoTask == [id |-> 0, campaign |-> CHOOSE c \in Campaigns : TRUE]

TypeOK ==
    /\ queue \in Seq(Tasks) /\ Len(queue) <= 1
    /\ running \in BOOLEAN
    /\ installed \in Campaigns
    /\ cancelled \subseteq Workloads
    /\ events \in Seq([kind : {"finished", "error"}, id : 1 .. MaxTasks, name : Names])
    /\ gui \in GuiStates
    /\ wanted \in Tasks \cup {NoTask}
    /\ at \in 1 .. Cardinality(Names) + 1
    /\ current \in Campaigns
    /\ counter \in 0 .. MaxTasks
    /\ shown \in [Names -> 0 .. MaxTasks]
    /\ reported \subseteq (1 .. MaxTasks) \X Names
    /\ wpc \in WorkerStates
    /\ task \in Tasks \cup {NoTask}
    /\ list \in Campaigns
    /\ index \in 1 .. Cardinality(Names) + 1
    /\ outcome \in {"none", "finished", "error"}

Init ==
    /\ queue = <<>> /\ running = TRUE
    /\ installed \in Campaigns
    /\ cancelled = {} /\ events = <<>>
    /\ gui = "idle" /\ wanted = NoTask /\ at = 1
    /\ current = installed
    /\ counter = 0
    /\ shown = [n \in Names |-> 0]
    /\ reported = {}
    /\ wpc = "get" /\ task = NoTask /\ list = installed /\ index = 1
    /\ outcome = "none"

Gui(from, to) == gui = from /\ gui' = to
Worker(from, to) == wpc = from /\ wpc' = to

-----------------------------------------------------------------------------
(* The GUI thread.                                                         *)

\* on_tree_selection_changed: another campaign's workloads are installed
\* first; then the tabs wait for data.
Select(c) ==
    /\ counter < MaxTasks
    /\ Gui("idle", IF c = current THEN "cancel" ELSE "cancelOld")
    /\ wanted' = [id |-> counter + 1, campaign |-> c]
    /\ shown' = IF c = current THEN [n \in Names |-> 0] ELSE shown
    /\ at' = 1
    /\ UNCHANGED <<shared, current, counter, reported, workerVars>>

\* for workload in self._workloads: workload.cancel()
CancelEach(from, to) ==
    /\ gui = from
    /\ IF at <= Views[installed]
         THEN /\ cancelled' = cancelled \cup {<<installed, at>>}
              /\ at' = at + 1
              /\ UNCHANGED gui
         ELSE /\ gui' = to
              /\ UNCHANGED <<cancelled, at>>
    /\ UNCHANGED <<queue, running, installed, events, wanted, current, counter,
                   shown, reported, workerVars>>

\* get_nowait until the queue is empty.
Drain(from, to) ==
    /\ Gui(from, to)
    /\ queue' = <<>>
    /\ UNCHANGED <<running, installed, cancelled, events, wanted, at, current,
                   counter, shown, reported, workerVars>>

\* set_workloads assigns the new list; the tabs are rebuilt and wait.
ReplaceWorkloads ==
    /\ Gui("replace", "cancel")
    /\ installed' = wanted.campaign
    /\ current' = wanted.campaign
    /\ shown' = [n \in Names |-> 0]
    /\ at' = 1
    /\ UNCHANGED <<queue, running, cancelled, events, wanted, counter, reported,
                   workerVars>>

SetWorkloads ==
    CancelEach("cancelOld", "drainOld") \/ Drain("drainOld", "replace") \/ ReplaceWorkloads

PutTask ==
    /\ Gui("put", "idle")
    /\ counter' = counter + 1
    /\ queue' = Append(queue, wanted)
    /\ wanted' = NoTask /\ at' = 1
    /\ UNCHANGED <<running, installed, cancelled, events, current, shown, reported,
                   workerVars>>

AddTask == CancelEach("cancel", "drain") \/ Drain("drain", "put") \/ PutTask

\* The slots of the queued signals.  A result is shown in the tab of its
\* name whatever task it is of; an error only reaches the status bar.
HandleEvent ==
    /\ gui = "idle"
    /\ events # <<>>
    /\ LET e == Head(events) IN
         /\ shown' = IF e.kind = "finished" /\ e.name <= Views[current]
                       THEN [shown EXCEPT ![e.name] = e.id] ELSE shown
         /\ reported' = IF e.kind = "error" THEN reported \cup {<<e.id, e.name>>}
                                            ELSE reported
    /\ events' = Tail(events)
    /\ UNCHANGED <<queue, running, installed, cancelled, gui, wanted, at, current,
                   counter, workerVars>>

\* Mutant: only the notebooks are cancelled.
CloseRunning ==
    /\ Gui("idle", "cancelAll")
    /\ at' = 1
    /\ UNCHANGED <<shared, wanted, current, counter, shown, reported, workerVars>>

\* closeEvent tears the widgets down and calls worker.stop(); this is its first
\* statement, cancelling and draining follow.
Close ==
    /\ Gui("idle", "cancelAll")
    /\ running' = FALSE
    /\ at' = 1
    /\ UNCHANGED <<queue, installed, cancelled, events, wanted, current, counter,
                   shown, reported, workerVars>>

\* worker_thread.wait(3000)
JoinWorker ==
    /\ Gui("join", "closed")
    /\ wpc = "ended"
    /\ UNCHANGED <<shared, wanted, at, current, counter, shown, reported, workerVars>>

\* The thread is terminated if its notebook is still being executed.
TerminateWorker ==
    /\ Gui("join", "closed")
    /\ Worker("run", "ended")
    /\ UNCHANGED <<shared, wanted, at, current, counter, shown, reported,
                   task, list, index, outcome>>

StopWorker ==
    CancelEach("cancelAll", "drainAll") \/ Drain("drainAll", "join")
    \/ JoinWorker \/ TerminateWorker

GuiStep == SetWorkloads \/ AddTask \/ HandleEvent \/ StopWorker

-----------------------------------------------------------------------------
(* The worker thread: run_worker_loop.                                     *)

\* task_queue.get: with a time-out, so that a stop is seen as well.
GetTask ==
    /\ wpc = "get"
    /\ queue # <<>>
    /\ queue' = Tail(queue)
    /\ wpc' = IF running THEN "latest" ELSE "ended"
    /\ task' = Head(queue)
    /\ UNCHANGED <<running, installed, cancelled, events, guiVars, list, index, outcome>>

LeaveLoop ==
    /\ Worker("get", "ended")
    /\ ~running
    /\ UNCHANGED <<shared, guiVars, task, list, index, outcome>>

\* get_nowait until the queue is empty; the first for loop takes its list.
TakeLatest ==
    /\ Worker("latest", "reset")
    /\ task' = IF queue = <<>> THEN task ELSE queue[Len(queue)]
    /\ queue' = <<>>
    /\ list' = installed
    /\ index' = 1
    /\ UNCHANGED <<running, installed, cancelled, events, guiVars, outcome>>

\* Mutant: the cancellation of the previous task is kept.
ResetNothing ==
    /\ wpc = "reset"
    /\ wpc' = "next"
    /\ list' = installed
    /\ index' = 1
    /\ UNCHANGED <<shared, guiVars, task, outcome>>

\* reset_cancellation of every workload; then the second for loop takes its
\* list, which may be another one.
ResetCancellation ==
    /\ wpc = "reset"
    /\ IF index <= Views[list]
         THEN /\ cancelled' = cancelled \ {<<list, index>>}
              /\ index' = index + 1
              /\ UNCHANGED <<wpc, list>>
         ELSE /\ wpc' = "next"
              /\ list' = installed
              /\ index' = 1
              /\ UNCHANGED cancelled
    /\ UNCHANGED <<queue, running, installed, events, guiVars, task, outcome>>

StartWorkload ==
    /\ Worker("next", "run")
    /\ index <= Views[list]
    /\ running
    /\ <<list, index>> \notin cancelled
    /\ UNCHANGED <<shared, guiVars, task, list, index, outcome>>

\* All workloads have run, or the loop breaks.
EndTask ==
    /\ Worker("next", "get")
    /\ \/ index > Views[list]
       \/ ~running
       \/ <<list, index>> \in cancelled
    /\ task' = NoTask /\ index' = 1
    /\ UNCHANGED <<shared, guiVars, list, outcome>>

\* workload.run returns (a page with results, or with the error of a cell) or
\* raises; a notebook looks at its cancel flag before every cell.
EndWorkload ==
    /\ Worker("run", "check")
    /\ outcome' \in {"finished", "error"}
    /\ UNCHANGED <<shared, guiVars, task, list, index>>

\* Emit only if the task was not cancelled and the worker still runs.
CheckResult ==
    /\ wpc = "check"
    /\ IF running /\ <<list, index>> \notin cancelled
         THEN wpc' = "emit" /\ UNCHANGED <<index, outcome>>
         ELSE wpc' = "next" /\ index' = index + 1 /\ outcome' = "none"
    /\ UNCHANGED <<shared, guiVars, task, list>>

\* Mutant: the newest result overtakes those on their way.
EmitFirst ==
    /\ Worker("emit", "next")
    /\ events' = <<[kind |-> outcome, id |-> task.id, name |-> index]>> \o events
    /\ index' = index + 1 /\ outcome' = "none"
    /\ UNCHANGED <<queue, running, installed, cancelled, guiVars, task, list>>

EmitResult ==
    /\ Worker("emit", "next")
    /\ events' = Append(events, [kind |-> outcome, id |-> task.id, name |-> index])
    /\ index' = index + 1 /\ outcome' = "none"
    /\ UNCHANGED <<queue, running, installed, cancelled, guiVars, task, list>>

WorkerStep ==
    \/ GetTask \/ LeaveLoop \/ TakeLatest \/ ResetCancellation \/ StartWorkload
    \/ EndTask \/ EndWorkload \/ CheckResult \/ EmitResult

-----------------------------------------------------------------------------
Next ==
    \/ \E c \in Campaigns : Select(c)
    \/ Close
    \/ GuiStep
    \/ WorkerStep

\* Both threads run on, and a notebook comes to an end (each cell has a
\* time-out).  The user need not select or close anything.
Spec == Init /\ [][Next]_vars /\ WF_vars(GuiStep) /\ WF_vars(WorkerStep)

-----------------------------------------------------------------------------
(* Properties.                                                             *)

Settled(id, n) == shown[n] = id \/ <<id, n>> \in reported

\* When everything has come to rest every tab shows the last selection, or its
\* error was reported: no cancellation meant for an older task, no reset meant
\* for it, no replaced list and no late result of it is left in the way
\* (worker_thread.py:81-190, result_analyzer.py:733-870).
LastSelectionShown ==
    gui = "idle" /\ wpc = "get" /\ queue = <<>> /\ events = <<>> /\ counter > 0
        => \A n \in 1 .. Views[current] : Settled(counter, n)

\* A tab never goes back from a newer selection to an older one, although the
\* window does not compare the task ids of the results it gets.
NeverBackwards ==
    [][\A n \in Names : shown'[n] = 0 \/ shown'[n] >= shown[n]]_vars

\* The last selection is answered in every tab unless the user selects or
\* closes again, and a close comes to its end.
SelectionAnswered ==
    /\ \A k \in 1 .. MaxTasks :
         counter = k ~> \/ gui # "idle" \/ counter > k
                        \/ \A n \in 1 .. Views[current] : Settled(k, n)
    /\ gui = "cancelAll" ~> gui = "closed"

-----------------------------------------------------------------------------
(* What the words say and the code does not do: TLC finds these violated.  *)

\* set_workloads calls itself "Safe to call from the UI thread while the worker
\* loop is running" (worker_thread.py:221): a task runs the notebooks of the
\* campaign it was added for.
OwnNotebooks == wpc \in {"run", "check", "emit"} => list = task.campaign
=============================================================================
