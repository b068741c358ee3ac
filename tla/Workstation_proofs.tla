------------------------- MODULE Workstation_proofs -------------------------
(***************************************************************************)
(* What runs on the user's own machine.                                    *)
(*                                                                         *)
(* The results analyzer, for any campaigns, notebooks and selections: no   *)
(* tab goes back to an older selection, and the last selection is not lost *)
(* between the two threads.                                                *)
(*                                                                         *)
(* The generated run script of a local execution, for any jobs, packing,   *)
(* presses of Ctrl+C and signals: a script that ends by itself leaves no   *)
(* container running, and exit code 0 means that all runs passed.          *)
(*                                                                         *)
(* The post-processing of the results, for any bags, directories, handlers *)
(* and workers, whatever grows, fails or is interrupted: what a cache file *)
(* vouches for is whole, and what a call made is recorded.                 *)
(***************************************************************************)
EXTENDS AnalyzerWorker, LocalRun, Postprocessing, FiniteSetTheorems, TLAPS

-----------------------------------------------------------------------------
(* The results analyzer. *)

\* The worker has taken a task and is not done with it.
Working == wpc \in {"latest", "reset", "next", "run", "check", "emit"}

\* A selection is being handled; the window is open.
Selecting == gui \in {"cancelOld", "drainOld", "replace", "cancel", "drain", "put"}
WindowOpen == gui = "idle" \/ Selecting

ControlInv ==
    /\ installed = current
    /\ Selecting => wanted \in Tasks /\ wanted.id = counter + 1
    /\ gui = "put" => queue = <<>>
    /\ WindowOpen => running /\ wpc # "ended"
    /\ Working => task \in Tasks
    /\ wpc \in {"run", "check", "emit"} => index <= Views[list]
    /\ wpc \in {"check", "emit"} => outcome \in {"finished", "error"}

\* No result on its way or shown is of a task after the m-th.
UpTo(m) ==
    /\ \A i \in DOMAIN events : events[i].id <= m
    /\ \A n \in Names : shown[n] <= m

\* Results arrive in the order of their tasks.
OrderInv ==
    /\ \A i, j \in DOMAIN events : i < j => events[i].id <= events[j].id
    /\ \A i \in DOMAIN events, n \in Names : shown[n] <= events[i].id
    /\ UpTo(counter)
    /\ \A i \in DOMAIN queue : queue[i].id = counter
    /\ Working => task.id <= counter /\ UpTo(task.id)

\* The last selection has an answer for the tab, shown or on its way.
Answered(n) ==
    \/ Settled(counter, n)
    \/ \E i \in DOMAIN events : events[i].id = counter /\ events[i].name = n

\* The last selection is in the worker's hands, and no cancellation is left.
InHand ==
    /\ Working /\ task.id = counter
    /\ wpc # "latest" => list = current
    /\ wpc = "reset" => \A n \in 1 .. index - 1 : <<current, n>> \notin cancelled
    /\ wpc \in {"next", "run", "check", "emit"} =>
         /\ \A n \in 1 .. Views[current] : <<current, n>> \notin cancelled
         /\ \A n \in 1 .. Views[current] : n < index => Answered(n)

\* Nobody has to do anything about the last selection but the one who has it.
AnswerInv ==
    gui = "idle" /\ counter > 0 =>
      \/ queue # <<>>
      \/ InHand
      \/ wpc = "get" /\ \A n \in 1 .. Views[current] : Answered(n)

AnalyzerInv == TypeOK /\ ControlInv /\ OrderInv /\ AnswerInv

-----------------------------------------------------------------------------
(* Names and sequences.                                                    *)

LEMMA NamesAre ==
  /\ Cardinality(Names) \in Nat \ {0} /\ Names = 1 .. Cardinality(Names)
  /\ \A c \in Campaigns : Views[c] \in 1 .. Cardinality(Names)
<1> DEFINE Counts == {Views[c] : c \in Campaigns}
<1>1. PICK c \in Campaigns : \A d \in Campaigns : Views[d] <= Views[c]
  BY AnalyzerAssumption
<1>2. \E n \in Counts : \A d \in Campaigns : Views[d] <= n
  BY <1>1
<1> DEFINE m == CHOOSE n \in Counts : \A d \in Campaigns : Views[d] <= n
<1>3. m \in Counts /\ \A d \in Campaigns : Views[d] <= m
  BY <1>2
<1>4. Names = 1 .. m
  BY DEF Names
<1> HIDE DEF m
<1>5. m \in Nat \ {0} /\ \A d \in Campaigns : Views[d] \in 1 .. m
  BY <1>3, AnalyzerAssumption
<1>6. Cardinality(1 .. m) = m
  BY <1>5, FS_Interval
<1> QED
  BY <1>4, <1>5, <1>6

LEMMA TailFacts ==
  ASSUME NEW S, NEW s \in Seq(S), s # <<>>
  PROVE  /\ Head(s) \in S /\ Head(s) = s[1] /\ 1 \in DOMAIN s
         /\ Tail(s) \in Seq(S) /\ Len(Tail(s)) = Len(s) - 1
         /\ \A i \in DOMAIN Tail(s) : i + 1 \in DOMAIN s /\ Tail(s)[i] = s[i + 1]
         /\ \A i \in DOMAIN s : i # 1 => i - 1 \in DOMAIN Tail(s) /\ Tail(s)[i - 1] = s[i]
OBVIOUS

LEMMA AppendFacts ==
  ASSUME NEW S, NEW s \in Seq(S), NEW e \in S
  PROVE  /\ Append(s, e) \in Seq(S) /\ Len(Append(s, e)) = Len(s) + 1
         /\ \A i \in DOMAIN s : /\ i \in DOMAIN Append(s, e) /\ Append(s, e)[i] = s[i]
                                /\ i < Len(s) + 1
         /\ Len(s) + 1 \in DOMAIN Append(s, e) /\ Append(s, e)[Len(s) + 1] = e
         /\ \A i \in DOMAIN Append(s, e) : i \in DOMAIN s \/ i = Len(s) + 1
OBVIOUS

-----------------------------------------------------------------------------
(* Types and control.                                                      *)

Events == [kind : {"finished", "error"}, id : 1 .. MaxTasks, name : Names]

LEMMA HandleTyped ==
  ASSUME TypeOK, HandleEvent
  PROVE  TypeOK'
<1>1. events \in Seq(Events)
  BY DEF TypeOK, Events
<1>2. Head(events) \in Events /\ events' \in Seq(Events)
  BY <1>1, TailFacts DEF HandleEvent
<1>3. PICK e \in Events : e = Head(events)
  BY <1>2
<1>4. e.id \in 1 .. MaxTasks /\ e.id \in 0 .. MaxTasks /\ e.name \in Names
  BY <1>3, AnalyzerAssumption DEF Events
<1>5. shown' \in [Names -> 0 .. MaxTasks]
  BY <1>3, <1>4 DEF HandleEvent, TypeOK
<1>6. reported' \subseteq (1 .. MaxTasks) \X Names
  BY <1>3, <1>4, SMTT(30) DEF HandleEvent, TypeOK
<1> QED
  BY <1>2, <1>5, <1>6 DEF HandleEvent, TypeOK, Events, workerVars

\* The statements of the two threads, each with what it changes.
LEMMA GuiTyped ==
  ASSUME TypeOK, ControlInv, (\E c \in Campaigns : Select(c)) \/ Close \/ GuiStep
  PROVE  TypeOK'
<1> USE AnalyzerAssumption, NamesAre DEF Gui, GuiStates, WorkerStates, shared, workerVars
<1>1. ASSUME NEW c \in Campaigns, Select(c) PROVE TypeOK'
  <2>1. counter + 1 \in 1 .. MaxTasks /\ wanted' \in Tasks
    BY <1>1 DEF Select, TypeOK, Tasks
  <2>2. shown' \in [Names -> 0 .. MaxTasks] /\ at' \in 1 .. Cardinality(Names) + 1
    BY <1>1 DEF Select, TypeOK
  <2> QED
    BY <1>1, <2>1, <2>2 DEF Select, TypeOK
<1>2. ASSUME NEW from, NEW to \in GuiStates, CancelEach(from, to) PROVE TypeOK'
  <2>1. Views[installed] \in 1 .. Cardinality(Names)
    BY DEF TypeOK
  <2>2. at' \in 1 .. Cardinality(Names) + 1 /\ cancelled' \subseteq Workloads
    BY <1>2, <2>1, SMTT(30) DEF CancelEach, TypeOK, Workloads
  <2> QED
    BY <1>2, <2>2, SMTT(30) DEF CancelEach, TypeOK
<1>3. ASSUME NEW from, NEW to \in GuiStates, Drain(from, to) PROVE TypeOK'
  BY <1>3 DEF Drain, TypeOK
<1>4. CASE ReplaceWorkloads
  <2>1. wanted.campaign \in Campaigns
    BY <1>4 DEF ReplaceWorkloads, ControlInv, Selecting, Tasks
  <2> QED
    BY <1>4, <2>1 DEF ReplaceWorkloads, TypeOK
<1>5. CASE PutTask
  <2>1. wanted \in Tasks /\ wanted.id = counter + 1 /\ queue = <<>>
    BY <1>5 DEF PutTask, ControlInv, Selecting
  <2>2. queue' \in Seq(Tasks) /\ Len(queue') = 1
    BY <1>5, <2>1 DEF PutTask
  <2>3. counter' \in 0 .. MaxTasks
    BY <1>5, <2>1 DEF PutTask, Tasks
  <2> QED
    BY <1>5, <2>2, <2>3, SMTT(30) DEF PutTask, TypeOK
<1>6. CASE HandleEvent
  BY <1>6, HandleTyped
<1>7. CASE Close
  <2>1. running' \in BOOLEAN
    BY <1>7, Zenon DEF Close
  <2>2. gui' \in GuiStates /\ at' \in 1 .. Cardinality(Names) + 1
    BY <1>7 DEF Close
  <2> QED
    BY <1>7, <2>1, <2>2 DEF Close, TypeOK
<1>8. CASE JoinWorker \/ TerminateWorker
  BY <1>8 DEF JoinWorker, TerminateWorker, Worker, TypeOK
<1> QED
  BY <1>1, <1>2, <1>3, <1>4, <1>5, <1>6, <1>7, <1>8
  DEF GuiStep, SetWorkloads, AddTask, StopWorker

LEMMA WorkerTyped ==
  ASSUME TypeOK, ControlInv, WorkerStep
  PROVE  TypeOK'
<1> USE AnalyzerAssumption, NamesAre DEF Worker, WorkerStates, shared, guiVars
<1>1. CASE GetTask
  <2>1. queue' \in Seq(Tasks) /\ Len(queue') <= 1 /\ task' \in Tasks
    BY <1>1, TailFacts DEF GetTask, TypeOK
  <2> QED
    BY <1>1, <2>1 DEF GetTask, TypeOK
<1>2. CASE TakeLatest
  <2>1. queue # <<>> => queue[Len(queue)] \in Tasks
    BY DEF TypeOK
  <2> QED
    BY <1>2, <2>1, SMTT(30) DEF TakeLatest, TypeOK
<1>3. CASE ResetCancellation
  <2>1. Views[list] \in 1 .. Cardinality(Names)
    BY DEF TypeOK
  <2>2. index' \in 1 .. Cardinality(Names) + 1 /\ list' \in Campaigns /\ wpc' \in WorkerStates
    BY <1>3, <2>1 DEF ResetCancellation, TypeOK
  <2>3. cancelled' \subseteq Workloads
    BY <1>3 DEF ResetCancellation, TypeOK
  <2> QED
    BY <1>3, <2>2, <2>3 DEF ResetCancellation, TypeOK
<1>4. CASE LeaveLoop \/ StartWorkload \/ EndTask \/ EndWorkload
  <2>1. CASE LeaveLoop
    BY <2>1 DEF LeaveLoop, TypeOK
  <2>2. CASE StartWorkload
    BY <2>2 DEF StartWorkload, TypeOK
  <2>3. CASE EndTask
    BY <2>3 DEF EndTask, TypeOK
  <2>4. CASE EndWorkload
    BY <2>4 DEF EndWorkload, TypeOK
  <2> QED
    BY <1>4, <2>1, <2>2, <2>3, <2>4
<1>5. CASE CheckResult \/ EmitResult
  <2>1. index + 1 \in 1 .. Cardinality(Names) + 1
    BY <1>5 DEF CheckResult, EmitResult, ControlInv, TypeOK
  <2>2. events' \in Seq([kind : {"finished", "error"}, id : 1 .. MaxTasks, name : Names])
    <3>1. CASE CheckResult
      BY <3>1 DEF CheckResult, TypeOK
    <3>2. CASE EmitResult
      <4> DEFINE e == [kind |-> outcome, id |-> task.id, name |-> index]
      <4>1. task \in Tasks /\ outcome \in {"finished", "error"} /\ index \in Names
        BY <3>2 DEF EmitResult, ControlInv, Working, TypeOK
      <4>2. e \in Events
        BY <4>1 DEF Events, Tasks
      <4>3. events \in Seq(Events) /\ events' = Append(events, e)
        BY <3>2 DEF EmitResult, TypeOK, Events
      <4> HIDE DEF e
      <4> QED
        BY <4>2, <4>3 DEF Events
    <3> QED
      BY <1>5, <3>1, <3>2
  <2>3. CASE CheckResult
    BY <2>1, <2>3 DEF CheckResult, TypeOK
  <2>4. CASE EmitResult
    BY <2>1, <2>2, <2>4 DEF EmitResult, TypeOK
  <2> QED
    BY <1>5, <2>3, <2>4
<1> QED
  BY <1>1, <1>2, <1>3, <1>4, <1>5 DEF WorkerStep

LEMMA TypedStep ==
  ASSUME TypeOK, ControlInv, [Next]_vars
  PROVE  TypeOK'
<1>1. CASE UNCHANGED vars
  BY <1>1 DEF vars, shared, guiVars, workerVars, TypeOK
<1> QED
  BY <1>1, GuiTyped, WorkerTyped DEF Next

LEMMA ControlStep ==
  ASSUME TypeOK, ControlInv, [Next]_vars
  PROVE  ControlInv'
<1> USE DEF Selecting, WindowOpen, Working
<1>1. ASSUME NEW c \in Campaigns, Select(c) PROVE ControlInv'
  <2>1. wanted' \in Tasks /\ wanted'.id = counter + 1 /\ counter' = counter
    BY <1>1, AnalyzerAssumption DEF Select, TypeOK, Tasks
  <2>2. gui = "idle" /\ gui' \in {"cancel", "cancelOld"} /\ UNCHANGED <<shared, workerVars, current>>
    BY <1>1 DEF Select, Gui
  <2> QED
    BY <2>1, <2>2 DEF ControlInv, shared, workerVars
<1>2. CASE CancelEach("cancelOld", "drainOld") \/ CancelEach("cancel", "drain")
            \/ CancelEach("cancelAll", "drainAll")
  <2>1. /\ \/ gui' = gui /\ gui \in {"cancelOld", "cancel", "cancelAll"}
           \/ gui \in {"cancelOld", "cancel"} /\ gui' \in {"drainOld", "drain"}
           \/ gui = "cancelAll" /\ gui' = "drainAll"
        /\ UNCHANGED <<queue, running, installed, events, wanted, current, counter, shown,
                       reported, workerVars>>
    BY <1>2 DEF CancelEach
  <2> QED
    BY <2>1 DEF ControlInv, workerVars
<1>3. CASE Drain("drainOld", "replace") \/ Drain("drain", "put") \/ Drain("drainAll", "join")
  <2>1. /\ \/ gui = "drainOld" /\ gui' = "replace"
           \/ gui = "drain" /\ gui' = "put"
           \/ gui = "drainAll" /\ gui' = "join"
        /\ queue' = <<>>
        /\ UNCHANGED <<running, installed, wanted, current, counter, workerVars>>
    BY <1>3 DEF Drain, Gui
  <2> QED
    BY <2>1 DEF ControlInv, workerVars
<1>4. CASE ReplaceWorkloads
  BY <1>4 DEF ReplaceWorkloads, Gui, ControlInv, workerVars
<1>5. CASE PutTask
  BY <1>5 DEF PutTask, Gui, ControlInv, workerVars
<1>6. CASE HandleEvent
  BY <1>6 DEF HandleEvent, ControlInv, workerVars
<1>7. CASE Close
  BY <1>7 DEF Close, Gui, ControlInv, workerVars
<1>8. CASE JoinWorker
  BY <1>8 DEF JoinWorker, Gui, ControlInv, workerVars, shared
<1>9. CASE TerminateWorker
  BY <1>9 DEF TerminateWorker, Gui, Worker, ControlInv, shared
<1>10. ASSUME WorkerStep PROVE ControlInv'
  <2>1. UNCHANGED <<gui, wanted, counter, running, installed, current>>
    BY <1>10 DEF WorkerStep, GetTask, LeaveLoop, TakeLatest, ResetCancellation, StartWorkload,
       EndTask, EndWorkload, CheckResult, EmitResult, guiVars, shared
  <2>2. queue = <<>> => queue' = <<>>
    BY <1>10 DEF WorkerStep, GetTask, LeaveLoop, TakeLatest, ResetCancellation, StartWorkload,
       EndTask, EndWorkload, CheckResult, EmitResult, shared
  <2>3. /\ wpc' = "ended" => ~running \/ wpc = "ended"
        /\ wpc' \in {"run", "check", "emit"} => index' <= Views[list']
        /\ wpc' \in {"check", "emit"} => outcome' \in {"finished", "error"}
    BY <1>10 DEF WorkerStep, GetTask, LeaveLoop, TakeLatest, ResetCancellation, StartWorkload,
       EndTask, EndWorkload, CheckResult, EmitResult, Worker, ControlInv
  <2>4. Working' => task' \in Tasks
    <3>1. CASE GetTask
      BY <3>1, TailFacts DEF GetTask, TypeOK
    <3>2. CASE TakeLatest
      <4>1. queue # <<>> => queue[Len(queue)] \in Tasks
        BY DEF TypeOK
      <4> QED
        BY <3>2, <4>1 DEF TakeLatest, ControlInv, Worker
    <3>3. CASE ~GetTask /\ ~TakeLatest
      <4>1. Working' => Working /\ task' = task
        BY <1>10, <3>3 DEF WorkerStep, LeaveLoop, ResetCancellation, StartWorkload,
           EndTask, EndWorkload, CheckResult, EmitResult, Worker
      <4> QED
        BY <4>1 DEF ControlInv
    <3> QED
      BY <3>1, <3>2, <3>3
  <2>5. WindowOpen' = WindowOpen /\ Selecting' = Selecting
    BY <2>1
  <2> HIDE DEF Working
  <2> QED
    BY <2>1, <2>2, <2>3, <2>4, <2>5 DEF ControlInv
<1>11. CASE UNCHANGED vars
  BY <1>11 DEF vars, shared, guiVars, workerVars, ControlInv
<1> QED
  BY <1>1, <1>2, <1>3, <1>4, <1>5, <1>6, <1>7, <1>8, <1>9, <1>10, <1>11
  DEF Next, GuiStep, SetWorkloads, AddTask, StopWorker

-----------------------------------------------------------------------------
(* The order of the results.                                               *)

LEMMA Numbers ==
  ASSUME TypeOK
  PROVE  /\ counter \in Nat
         /\ \A i \in DOMAIN events : events[i].id \in Nat /\ events[i].name \in Names
         /\ \A n \in Names : shown[n] \in Nat
         /\ task.id \in Nat
         /\ events \in Seq(Events) /\ queue \in Seq(Tasks)
<1>1. events \in Seq(Events) /\ queue \in Seq(Tasks) /\ counter \in Nat
  BY AnalyzerAssumption DEF TypeOK, Events
<1>2. \A i \in DOMAIN events : events[i] \in Events
  BY <1>1
<1>3. \A i \in DOMAIN events : events[i].id \in Nat /\ events[i].name \in Names
  BY <1>2, AnalyzerAssumption DEF Events
<1>4. \A n \in Names : shown[n] \in Nat
  BY AnalyzerAssumption DEF TypeOK
<1>5. task.id \in Nat
  BY AnalyzerAssumption DEF TypeOK, Tasks, NoTask
<1> QED
  BY <1>1, <1>3, <1>4, <1>5

\* No new result; the worker keeps its task or takes the newest.
LEMMA OrderFrame ==
  ASSUME TypeOK, OrderInv, events' = events,
         shown' = shown \/ shown' = [n \in Names |-> 0],
         counter' \in Nat, counter' >= counter,
         \A i \in DOMAIN queue' : queue'[i].id = counter',
         Working' => \/ task'.id = counter /\ counter' = counter
                     \/ Working /\ task' = task
  PROVE  OrderInv'
<1>1. /\ counter \in Nat /\ task.id \in Nat
      /\ \A i \in DOMAIN events : events[i].id \in Nat
      /\ \A n \in Names : shown[n] \in Nat
  BY Numbers
<1>2. \A n \in Names : shown'[n] \in Nat /\ shown'[n] <= shown[n]
  BY <1>1
<1>3. ASSUME NEW m \in Nat, UpTo(m) PROVE UpTo(m)'
  BY <1>1, <1>2, <1>3 DEF UpTo
<1>4. UpTo(counter)'
  BY <1>1, <1>2 DEF OrderInv, UpTo
<1>5. \A i \in DOMAIN events', n \in Names : shown'[n] <= events'[i].id
  BY <1>1, <1>2 DEF OrderInv
<1>6. ASSUME Working' PROVE task'.id <= counter' /\ UpTo(task.id)'
  <2>1. CASE task'.id = counter /\ counter' = counter
    <3>1. task'.id = counter'
      BY <2>1
    <3> QED
      BY <1>1, <1>4, <3>1 DEF UpTo
  <2>2. CASE Working /\ task' = task
    <3>1. task.id <= counter /\ UpTo(task.id)
      BY <2>2 DEF OrderInv
    <3> QED
      BY <1>1, <1>2, <2>2, <3>1 DEF UpTo
  <2> QED
    BY <1>6, <2>1, <2>2
<1> QED
  BY <1>4, <1>5, <1>6 DEF OrderInv

\* The oldest result is not older than any that is shown.
LEMMA HandleOrdered ==
  ASSUME TypeOK, OrderInv, HandleEvent
  PROVE  /\ OrderInv'
         /\ \A n \in Names : shown[n] <= shown'[n]
         /\ \A n \in Names : shown'[n] \in {shown[n], events[1].id}
<1>1. /\ counter \in Nat /\ task.id \in Nat
      /\ \A i \in DOMAIN events : events[i].id \in Nat
      /\ \A n \in Names : shown[n] \in Nat
      /\ events \in Seq(Events)
  BY Numbers
<1>2. /\ events # <<>> /\ Head(events) = events[1] /\ 1 \in DOMAIN events
      /\ \A i \in DOMAIN events' : i + 1 \in DOMAIN events /\ events'[i] = events[i + 1]
      /\ DOMAIN events \subseteq Nat \ {0} /\ DOMAIN events' \subseteq Nat \ {0}
  <2>1. events # <<>> /\ events' = Tail(events)
    BY DEF HandleEvent
  <2>2. events' \in Seq(Events)
    BY <1>1, <2>1, TailFacts
  <2> QED
    BY <1>1, <2>1, <2>2, TailFacts
<1>3. UNCHANGED <<queue, counter, workerVars>>
  BY DEF HandleEvent
<1>4. shown' \in {shown, [shown EXCEPT ![events[1].name] = events[1].id]}
  BY <1>2 DEF HandleEvent
<1>5. \A n \in Names : shown'[n] \in {shown[n], events[1].id}
  BY <1>4 DEF TypeOK
<1>6. \A n \in Names : shown[n] <= events[1].id
  BY <1>2 DEF OrderInv
<1>7. \A i \in DOMAIN events' : events[1].id <= events'[i].id
  <2> SUFFICES ASSUME NEW i \in DOMAIN events' PROVE events[1].id <= events'[i].id
    OBVIOUS
  <2>1. i + 1 \in DOMAIN events /\ 1 < i + 1 /\ events'[i] = events[i + 1]
    BY <1>2
  <2> QED
    BY <1>2, <2>1 DEF OrderInv
<1>8. ASSUME NEW m \in Nat, UpTo(m) PROVE UpTo(m)'
  BY <1>2, <1>5, <1>8 DEF UpTo
<1>9. \A i, j \in DOMAIN events' : i < j => events'[i].id <= events'[j].id
  <2> SUFFICES ASSUME NEW i \in DOMAIN events', NEW j \in DOMAIN events', i < j
               PROVE  events'[i].id <= events'[j].id
    OBVIOUS
  <2>1. /\ i + 1 \in DOMAIN events /\ j + 1 \in DOMAIN events /\ i + 1 < j + 1
        /\ events'[i] = events[i + 1] /\ events'[j] = events[j + 1]
    BY <1>2
  <2> QED
    BY <2>1 DEF OrderInv
<1>10. \A i \in DOMAIN events', n \in Names : shown'[n] <= events'[i].id
  <2> SUFFICES ASSUME NEW i \in DOMAIN events', NEW n \in Names PROVE shown'[n] <= events'[i].id
    OBVIOUS
  <2>1. shown[n] <= events[1].id /\ events[1].id <= events'[i].id /\ shown'[n] \in {shown[n], events[1].id}
    BY <1>5, <1>6, <1>7
  <2>2. shown[n] \in Nat /\ events[1].id \in Nat /\ events'[i].id \in Nat
    BY <1>1, <1>2
  <2> QED
    BY <2>1, <2>2
<1>11. UpTo(counter)' /\ (Working' => task'.id <= counter' /\ UpTo(task.id)')
  <2>1. UpTo(counter)'
    BY <1>1, <1>2, <1>3, <1>5 DEF OrderInv, UpTo
  <2>2. Working' => Working /\ task' = task
    BY <1>3 DEF Working, workerVars
  <2>3. Working => UpTo(task.id)'
    BY <1>2, <1>3, <1>5 DEF OrderInv, UpTo, workerVars
  <2> QED
    BY <1>3, <2>1, <2>2, <2>3 DEF OrderInv
<1>12. \A n \in Names : shown[n] <= shown'[n]
  BY <1>1, <1>2, <1>5, <1>6
<1> QED
  BY <1>3, <1>5, <1>9, <1>10, <1>11, <1>12 DEF OrderInv

\* A new result is of the newest task that any is of.
LEMMA EmitOrdered ==
  ASSUME TypeOK, ControlInv, OrderInv, EmitResult
  PROVE  OrderInv'
<1> DEFINE e == [kind |-> outcome, id |-> task.id, name |-> index]
<1>1. /\ counter \in Nat /\ task.id \in Nat
      /\ \A i \in DOMAIN events : events[i].id \in Nat
      /\ \A n \in Names : shown[n] \in Nat
      /\ events \in Seq(Events)
  BY Numbers
<1>2. /\ wpc = "emit" /\ wpc' = "next" /\ events' = Append(events, e)
      /\ UNCHANGED <<queue, guiVars, task>>
  BY DEF EmitResult, Worker
<1>3. e \in Events /\ e.id = task.id
  BY <1>2, NamesAre DEF ControlInv, Working, Tasks, Events, TypeOK
<1>4. task.id <= counter /\ UpTo(task.id) /\ Working
  BY <1>2 DEF Working, OrderInv
<1> HIDE DEF e
<1>5. /\ \A i \in DOMAIN events : i \in DOMAIN events' /\ events'[i] = events[i] /\ i < Len(events) + 1
      /\ Len(events) + 1 \in DOMAIN events' /\ events'[Len(events) + 1] = e
      /\ \A i \in DOMAIN events' : i \in DOMAIN events \/ i = Len(events) + 1
      /\ Len(events) \in Nat /\ DOMAIN events \subseteq Nat
  BY <1>1, <1>2, <1>3, AppendFacts
<1>6. \A i \in DOMAIN events' : events'[i].id \in Nat /\ events'[i].id <= task.id
  BY <1>1, <1>3, <1>4, <1>5 DEF UpTo
<1>7. ASSUME NEW i \in DOMAIN events', NEW j \in DOMAIN events', i < j
      PROVE  events'[i].id <= events'[j].id
  <2>1. CASE j = Len(events) + 1
    BY <1>3, <1>5, <1>6, <2>1
  <2>2. CASE j \in DOMAIN events /\ i \in DOMAIN events
    BY <1>5, <1>7, <2>2 DEF OrderInv
  <2>3. CASE j \in DOMAIN events /\ i = Len(events) + 1
    BY <1>5, <1>7, <2>3
  <2> QED
    BY <1>5, <2>1, <2>2, <2>3
<1>8. ASSUME NEW i \in DOMAIN events', NEW n \in Names
      PROVE  shown'[n] <= events'[i].id
  <2>1. shown' = shown
    BY <1>2 DEF guiVars
  <2> QED
    BY <1>3, <1>4, <1>5, <2>1 DEF UpTo, OrderInv
<1>9. UpTo(task.id)' /\ UpTo(counter)'
  <2>1. shown' = shown /\ counter' = counter /\ task' = task
    BY <1>2 DEF guiVars
  <2>2. UpTo(task.id)'
    BY <1>4, <1>6, <2>1 DEF UpTo
  <2> QED
    BY <1>1, <1>4, <1>6, <2>1, <2>2 DEF UpTo
<1> QED
  BY <1>2, <1>4, <1>7, <1>8, <1>9 DEF OrderInv, guiVars

LEMMA OrderStep ==
  ASSUME TypeOK, ControlInv, OrderInv, [Next]_vars
  PROVE  OrderInv'
<1>0. /\ counter \in Nat /\ queue \in Seq(Tasks)
      /\ \A i \in DOMAIN queue : queue[i].id = counter
  BY Numbers DEF OrderInv
<1> USE DEF Working
<1>1. CASE (\E c \in Campaigns : Select(c)) \/ Close \/ SetWorkloads
            \/ CancelEach("cancel", "drain") \/ Drain("drain", "put")
            \/ StopWorker
  <2>1. /\ events' = events /\ counter' = counter /\ queue' \in {queue, <<>>}
        /\ shown' = shown \/ shown' = [n \in Names |-> 0]
        /\ task' = task /\ (Working' => Working)
    BY <1>1 DEF Select, Close, SetWorkloads, StopWorker, CancelEach, Drain, ReplaceWorkloads,
       JoinWorker, TerminateWorker, Worker, shared, workerVars
  <2>2. \A i \in DOMAIN queue' : queue'[i].id = counter'
    BY <1>0, <2>1
  <2> QED
    BY <1>0, <2>1, <2>2, OrderFrame
<1>2. CASE PutTask
  <2>1. /\ queue = <<>> /\ wanted.id = counter + 1 /\ queue' = Append(queue, wanted)
        /\ counter' = counter + 1 /\ UNCHANGED <<events, shown, workerVars>>
    BY <1>2 DEF PutTask, Gui, ControlInv, Selecting
  <2>2. \A i \in DOMAIN queue' : queue'[i].id = counter'
    BY <2>1
  <2> QED
    BY <1>0, <2>1, <2>2, OrderFrame DEF workerVars
<1>3. CASE GetTask
  <2>1. /\ queue # <<>> /\ queue' = Tail(queue) /\ task' = Head(queue)
        /\ UNCHANGED <<events, shown, counter>>
    BY <1>3 DEF GetTask, guiVars
  <2>2. \A i \in DOMAIN queue' : queue'[i].id = counter'
    BY <1>0, <2>1, TailFacts
  <2>3. task'.id = counter
    BY <1>0, <2>1, TailFacts
  <2> QED
    BY <1>0, <2>1, <2>2, <2>3, OrderFrame
<1>4. CASE TakeLatest
  <2>1. /\ wpc = "latest" /\ queue' = <<>> /\ task' = IF queue = <<>> THEN task ELSE queue[Len(queue)]
        /\ UNCHANGED <<events, shown, counter>>
    BY <1>4 DEF TakeLatest, Worker, guiVars
  <2>2. queue # <<>> => Len(queue) \in DOMAIN queue
    BY <1>0
  <2>3. task' = task \/ task'.id = counter
    BY <1>0, <2>1, <2>2
  <2>4. \A i \in DOMAIN queue' : queue'[i].id = counter'
    BY <2>1
  <2> QED
    BY <1>0, <2>1, <2>3, <2>4, OrderFrame
<1>5. CASE LeaveLoop \/ ResetCancellation \/ StartWorkload \/ EndTask \/ EndWorkload \/ CheckResult
            \/ UNCHANGED vars
  <2>1. /\ UNCHANGED <<events, shown, counter, queue>>
        /\ Working' => Working /\ task' = task
    BY <1>5 DEF LeaveLoop, ResetCancellation, StartWorkload, EndTask, EndWorkload, CheckResult,
       Worker, shared, guiVars, vars, workerVars
  <2> QED
    BY <1>0, <2>1, OrderFrame
<1> QED
  BY <1>1, <1>2, <1>3, <1>4, <1>5, HandleOrdered, EmitOrdered
  DEF Next, GuiStep, AddTask, WorkerStep

-----------------------------------------------------------------------------
(* The last selection.                                                     *)

\* A result or an error that is on its way arrives, and nothing older follows.
LEMMA HandleAnswers ==
  ASSUME TypeOK, OrderInv, HandleEvent, NEW n \in 1 .. Views[current], n \in Names, Answered(n)
  PROVE  Answered(n)'
<1>1. /\ counter \in Nat /\ events \in Seq(Events)
      /\ \A i \in DOMAIN events : events[i].id \in Nat
      /\ \A k \in Names : shown[k] \in Nat
  BY Numbers
<1>2. /\ events # <<>> /\ events' = Tail(events) /\ Head(events) = events[1]
      /\ 1 \in DOMAIN events /\ UNCHANGED <<counter, current>>
  BY <1>1, TailFacts DEF HandleEvent
<1>3. reported \subseteq reported'
  BY DEF HandleEvent
<1>4. CASE shown[n] = counter
  <2>1. shown'[n] \in {shown[n], events[1].id} /\ shown[n] <= shown'[n]
    BY HandleOrdered
  <2>2. events[1].id <= counter
    BY <1>2 DEF OrderInv, UpTo
  <2>3. shown'[n] = counter
    BY <1>1, <1>2, <1>4, <2>1, <2>2
  <2> QED
    BY <1>2, <2>3 DEF Answered, Settled
<1>5. CASE <<counter, n>> \in reported
  BY <1>2, <1>3, <1>5 DEF Answered, Settled
<1>6. ASSUME NEW i \in DOMAIN events, events[i].id = counter, events[i].name = n
      PROVE  Answered(n)'
  <2>1. CASE i = 1
    <3>1. events[1] \in Events
      BY <1>1, <1>2
    <3>2. CASE events[1].kind = "finished"
      <4>1. n <= Views[current]
        BY AnalyzerAssumption DEF TypeOK
      <4>2. shown' = [shown EXCEPT ![n] = counter]
        BY <1>2, <1>6, <2>1, <3>2, <4>1 DEF HandleEvent
      <4>3. shown'[n] = counter
        BY <4>2 DEF TypeOK
      <4> QED
        BY <1>2, <4>3 DEF Answered, Settled
    <3>3. CASE events[1].kind = "error"
      <4>1. <<counter, n>> \in reported'
        BY <1>2, <1>6, <2>1, <3>3 DEF HandleEvent
      <4> QED
        BY <1>2, <4>1 DEF Answered, Settled
    <3> QED
      BY <3>1, <3>2, <3>3 DEF Events
  <2>2. CASE i # 1
    <3>1. i - 1 \in DOMAIN events' /\ events'[i - 1] = events[i]
      BY <1>1, <1>2, <2>2, TailFacts
    <3> QED
      BY <1>2, <1>6, <3>1 DEF Answered
  <2> QED
    BY <2>1, <2>2
<1> QED
  BY <1>4, <1>5, <1>6 DEF Answered, Settled

\* Emitting answers for the notebook, and takes back no answer.
LEMMA EmitAnswers ==
  ASSUME TypeOK, ControlInv, EmitResult, task.id = counter
  PROVE  \A n : n = index \/ Answered(n) => Answered(n)'
<1> DEFINE e == [kind |-> outcome, id |-> task.id, name |-> index]
<1>1. /\ wpc = "emit" /\ events' = Append(events, e)
      /\ UNCHANGED <<shown, reported, counter>>
  BY DEF EmitResult, Worker, guiVars
<1>2. e \in Events /\ e.id = counter /\ e.name = index
  BY <1>1, NamesAre DEF ControlInv, Working, Tasks, Events, TypeOK
<1> HIDE DEF e
<1>3. /\ \A i \in DOMAIN events : i \in DOMAIN events' /\ events'[i] = events[i]
      /\ Len(events) + 1 \in DOMAIN events' /\ events'[Len(events) + 1] = e
  BY <1>1, <1>2, Numbers, AppendFacts
<1>4. \A n : n = index => \E i \in DOMAIN events' : events'[i].id = counter' /\ events'[i].name = n
  BY <1>1, <1>2, <1>3
<1>5. \A n : Answered(n) => Answered(n)'
  BY <1>1, <1>3 DEF Answered, Settled
<1> QED
  BY <1>4, <1>5 DEF Answered

LEMMA AnswerStep ==
  ASSUME TypeOK, ControlInv, OrderInv, AnswerInv, [Next]_vars
  PROVE  AnswerInv'
<1> SUFFICES ASSUME gui' = "idle", counter' > 0
             PROVE  \/ queue' # <<>>
                    \/ InHand'
                    \/ wpc' = "get" /\ \A n \in 1 .. Views[current'] : Answered(n)'
  BY DEF AnswerInv
<1>0. /\ counter \in Nat /\ queue \in Seq(Tasks) /\ current \in Campaigns
      /\ Views[current] \in Nat \ {0} /\ Views[list] \in Nat \ {0} /\ index \in Nat \ {0}
      /\ \A n \in 1 .. Views[current] : n \in Names
  BY Numbers, NamesAre, AnalyzerAssumption DEF TypeOK
<1>1. CASE PutTask
  <2>1. wanted \in Tasks /\ queue' = Append(queue, wanted)
    BY <1>1 DEF PutTask, ControlInv, Selecting, Gui
  <2>2. Len(queue') = Len(queue) + 1 /\ Len(queue) \in Nat
    BY <1>0, <2>1, AppendFacts
  <2>3. queue' # <<>>
    BY <2>2
  <2> QED
    BY <2>3
<1>2. CASE HandleEvent
  <2>1. gui = "idle" /\ UNCHANGED <<queue, running, installed, cancelled, current, counter, workerVars>>
    BY <1>2 DEF HandleEvent
  <2>2. \A n \in 1 .. Views[current] : Answered(n) => Answered(n)'
    BY <1>0, <1>2, HandleAnswers
  <2>3. \/ queue # <<>>
        \/ InHand
        \/ wpc = "get" /\ \A n \in 1 .. Views[current] : Answered(n)
    BY <2>1 DEF AnswerInv
  <2>4. ASSUME InHand PROVE InHand'
    BY <2>1, <2>2, <2>4 DEF InHand, Working, workerVars
  <2> QED
    BY <2>1, <2>2, <2>3, <2>4 DEF workerVars
<1>3. ASSUME gui = "idle", WorkerStep
      PROVE  \/ queue' # <<>>
             \/ InHand'
             \/ wpc' = "get" /\ \A n \in 1 .. Views[current'] : Answered(n)'
  <2>1. /\ UNCHANGED <<counter, current, shown, reported, running, installed>>
        /\ running /\ installed = current
    BY <1>3 DEF WorkerStep, GetTask, LeaveLoop, TakeLatest, ResetCancellation, StartWorkload,
       EndTask, EndWorkload, CheckResult, EmitResult, shared, guiVars, ControlInv, WindowOpen
  <2>2. \/ queue # <<>>
        \/ InHand
        \/ wpc = "get" /\ \A n \in 1 .. Views[current] : Answered(n)
    BY <1>3, <2>1 DEF AnswerInv
  <2>3. events' = events => \A n : Answered(n) => Answered(n)'
    BY <2>1 DEF Answered, Settled
  <2>4. CASE GetTask
    <3>1. task'.id = counter /\ wpc' = "latest"
      BY <1>0, <2>1, <2>4, TailFacts DEF GetTask, OrderInv
    <3> QED
      BY <2>1, <3>1 DEF InHand, Working
  <2>5. CASE TakeLatest
    <3>1. /\ wpc = "latest" /\ wpc' = "reset" /\ list' = current /\ index' = 1
          /\ task' = IF queue = <<>> THEN task ELSE queue[Len(queue)]
      BY <2>1, <2>5 DEF TakeLatest, Worker
    <3>2. task'.id = counter
      <4>1. queue # <<>> => Len(queue) \in DOMAIN queue
        BY <1>0
      <4> QED
        BY <2>2, <3>1, <4>1 DEF InHand, OrderInv
    <3> QED
      BY <2>1, <3>1, <3>2 DEF InHand, Working
  <2>6. CASE ~GetTask /\ ~TakeLatest /\ queue # <<>>
    <3>1. queue' = queue
      BY <1>3, <2>6 DEF WorkerStep, LeaveLoop, ResetCancellation, StartWorkload,
         EndTask, EndWorkload, CheckResult, EmitResult, shared
    <3> QED
      BY <2>6, <3>1
  <2>7. CASE LeaveLoop
    BY <2>1, <2>7 DEF LeaveLoop
  <2>8. CASE InHand /\ ResetCancellation
    <3>1. /\ wpc = "reset" /\ list = current /\ task.id = counter /\ task' = task
          /\ \A n \in 1 .. index - 1 : <<current, n>> \notin cancelled
      BY <2>8 DEF ResetCancellation, InHand
    <3>2. CASE index <= Views[list]
      <4>1. /\ cancelled' = cancelled \ {<<current, index>>} /\ index' = index + 1
            /\ UNCHANGED <<wpc, list>>
        BY <2>8, <3>1, <3>2 DEF ResetCancellation
      <4>2. \A n \in 1 .. index' - 1 : <<current, n>> \notin cancelled'
        BY <1>0, <3>1, <4>1
      <4> QED
        BY <2>1, <3>1, <4>1, <4>2 DEF InHand, Working
    <3>3. CASE ~(index <= Views[list])
      <4>1. /\ wpc' = "next" /\ list' = current /\ index' = 1 /\ cancelled' = cancelled
        BY <2>1, <2>8, <3>3 DEF ResetCancellation
      <4>2. \A n \in 1 .. Views[current] : <<current, n>> \notin cancelled'
        BY <1>0, <3>1, <3>3, <4>1
      <4> QED
        BY <2>1, <3>1, <4>1, <4>2 DEF InHand, Working
    <3> QED
      BY <3>2, <3>3
  <2>9. CASE InHand /\ (StartWorkload \/ EndWorkload)
    <3>1. /\ wpc \in {"next", "run"} /\ wpc' \in {"run", "check"}
          /\ UNCHANGED <<events, cancelled, task, list, index>>
      BY <2>9 DEF StartWorkload, EndWorkload, Worker, shared
    <3> QED
      BY <2>1, <2>3, <2>9, <3>1 DEF InHand, Working
  <2>10. CASE InHand /\ EndTask
    <3>1. /\ wpc = "next" /\ wpc' = "get" /\ events' = events /\ list = current
          /\ \A n \in 1 .. Views[current] : <<current, n>> \notin cancelled
          /\ \A n \in 1 .. Views[current] : n < index => Answered(n)
      BY <2>10 DEF EndTask, Worker, shared, InHand
    <3>2. index > Views[current]
      BY <1>0, <2>1, <2>10, <3>1 DEF EndTask
    <3>3. \A n \in 1 .. Views[current] : Answered(n)
      BY <1>0, <3>1, <3>2
    <3> QED
      BY <2>1, <2>3, <3>1, <3>3
  <2>11. CASE InHand /\ CheckResult
    <3>1. /\ wpc = "check" /\ list = current /\ index \in 1 .. Views[current]
          /\ \A n \in 1 .. Views[current] : <<current, n>> \notin cancelled
      BY <1>0, <2>11 DEF CheckResult, InHand, ControlInv
    <3>2. wpc' = "emit" /\ UNCHANGED <<events, cancelled, task, list, index>>
      BY <2>1, <2>11, <3>1 DEF CheckResult, shared
    <3> QED
      BY <2>1, <2>3, <2>11, <3>1, <3>2 DEF InHand, Working
  <2>12. CASE InHand /\ EmitResult
    <3>1. /\ wpc = "emit" /\ wpc' = "next" /\ list = current /\ task.id = counter
          /\ index' = index + 1 /\ UNCHANGED <<cancelled, task, list>>
          /\ \A n \in 1 .. Views[current] : <<current, n>> \notin cancelled
          /\ \A n \in 1 .. Views[current] : n < index => Answered(n)
      BY <2>12 DEF EmitResult, InHand, Worker
    <3>2. \A n : n = index \/ Answered(n) => Answered(n)'
      BY <2>12, <3>1, EmitAnswers
    <3>3. \A n \in 1 .. Views[current] : n < index' => Answered(n)'
      BY <1>0, <3>1, <3>2
    <3> QED
      BY <2>1, <3>1, <3>3 DEF InHand, Working
  <2> QED
    BY <1>3, <2>2, <2>4, <2>5, <2>6, <2>7, <2>8, <2>9, <2>10, <2>11, <2>12
    DEF WorkerStep, StartWorkload, EndTask, EndWorkload, CheckResult, EmitResult,
        ResetCancellation, Worker
<1>4. CASE UNCHANGED vars
  <2>1. gui = "idle" /\ counter > 0
    BY <1>4 DEF vars, guiVars
  <2>2. \A n : Answered(n) => Answered(n)'
    BY <1>4 DEF vars, shared, guiVars, Answered, Settled
  <2>3. InHand => InHand'
    BY <1>4, <2>2 DEF vars, shared, guiVars, workerVars, InHand, Working
  <2> QED
    BY <1>4, <2>1, <2>2, <2>3 DEF vars, shared, guiVars, workerVars, AnswerInv
<1>5. ~(\E c \in Campaigns : Select(c)) /\ ~Close /\ ~SetWorkloads /\ ~StopWorker
      /\ ~CancelEach("cancel", "drain") /\ ~Drain("drain", "put")
  BY DEF Select, Close, SetWorkloads, StopWorker, CancelEach, Drain, ReplaceWorkloads,
     JoinWorker, TerminateWorker, Gui
<1>6. WorkerStep => gui = "idle"
  BY DEF WorkerStep, GetTask, LeaveLoop, TakeLatest, ResetCancellation, StartWorkload,
     EndTask, EndWorkload, CheckResult, EmitResult, guiVars
<1> QED
  BY <1>1, <1>2, <1>3, <1>4, <1>5, <1>6 DEF Next, GuiStep, AddTask

-----------------------------------------------------------------------------
(* The theorems.                                                           *)

LEMMA AnalyzerStarts ==
  ASSUME Init
  PROVE  AnalyzerInv
<1> USE DEF Init
<1>1. Views[installed] \in Nat \ {0} /\ installed \in Campaigns /\ MaxTasks \in Nat
  BY AnalyzerAssumption
<1>2. TypeOK
  <2>1. 1 \in 1 .. Cardinality(Names) + 1
    BY NamesAre
  <2>2. queue \in Seq(Tasks) /\ Len(queue) <= 1
        /\ events \in Seq([kind : {"finished", "error"}, id : 1 .. MaxTasks, name : Names])
    OBVIOUS
  <2>3. running \in BOOLEAN
    BY Zenon
  <2>4. shown \in [Names -> 0 .. MaxTasks] /\ counter \in 0 .. MaxTasks
    BY <1>1
  <2>5. cancelled \subseteq Workloads /\ reported \subseteq (1 .. MaxTasks) \X Names
    OBVIOUS
  <2> QED
    BY <1>1, <2>1, <2>2, <2>3, <2>4, <2>5 DEF TypeOK, GuiStates, WorkerStates
<1>3. ControlInv
  BY DEF ControlInv, Selecting, WindowOpen, Working
<1>4. OrderInv
  BY <1>1 DEF OrderInv, UpTo, Working
<1>5. AnswerInv
  BY DEF AnswerInv
<1> QED
  BY <1>2, <1>3, <1>4, <1>5 DEF AnalyzerInv

\* In every reachable state, for any campaigns, notebooks and selections, the
\* threads agree on what is in whose hands: results come in the order of their
\* tasks, and the last selection is in the queue, with the worker or answered.
THEOREM AnalyzerInvariant == Spec => []AnalyzerInv
<1>1. Init => AnalyzerInv
  BY AnalyzerStarts
<1>2. AnalyzerInv /\ [Next]_vars => AnalyzerInv'
  BY TypedStep, ControlStep, OrderStep, AnswerStep DEF AnalyzerInv
<1> QED
  BY <1>1, <1>2, PTL DEF Spec

\* Every variable of the two threads keeps to its type.
THEOREM AnalyzerTypeCorrect == Spec => []TypeOK
<1>1. AnalyzerInv => TypeOK
  BY DEF AnalyzerInv
<1> QED
  BY <1>1, AnalyzerInvariant, PTL

\* When everything has come to rest each tab shows the last selection, or its
\* error was reported.
THEOREM AnalyzerLastSelectionShown == Spec => []LastSelectionShown
<1>1. ASSUME AnalyzerInv PROVE LastSelectionShown
  <2> SUFFICES ASSUME gui = "idle", wpc = "get", queue = <<>>, events = <<>>, counter > 0,
                      NEW n \in 1 .. Views[current]
               PROVE  Settled(counter, n)
    BY DEF LastSelectionShown
  <2>1. Answered(n)
    BY <1>1 DEF AnalyzerInv, AnswerInv, InHand, Working
  <2> QED
    BY <2>1 DEF Answered
<1> QED
  BY <1>1, AnalyzerInvariant, PTL

\* A tab goes back to waiting or on to a newer selection, never to an older one.
THEOREM AnalyzerNeverBackwards == Spec => NeverBackwards
<1>1. ASSUME AnalyzerInv, [Next]_vars
      PROVE  [\A n \in Names : shown'[n] = 0 \/ shown'[n] >= shown[n]]_vars
  <2>1. \A n \in Names : shown[n] \in Nat
    BY <1>1, Numbers DEF AnalyzerInv
  <2>2. CASE HandleEvent
    <3>1. \A n \in Names : shown[n] <= shown'[n]
      BY <1>1, <2>2, HandleOrdered DEF AnalyzerInv
    <3> QED
      BY <3>1
  <2>3. CASE ~HandleEvent
    <3>1. shown' = shown \/ shown' = [n \in Names |-> 0]
      BY <1>1, <2>3 DEF Next, GuiStep, SetWorkloads, AddTask, StopWorker, Select, Close, CancelEach,
         Drain, ReplaceWorkloads, PutTask, JoinWorker, TerminateWorker, WorkerStep, GetTask,
         LeaveLoop, TakeLatest, ResetCancellation, StartWorkload, EndTask, EndWorkload,
         CheckResult, EmitResult, guiVars, vars
    <3> QED
      BY <2>1, <3>1
  <2> QED
    BY <2>2, <2>3
<1> QED
  BY <1>1, AnalyzerInvariant, PTL DEF Spec, NeverBackwards

-----------------------------------------------------------------------------
(* The run script of a local execution. *)

Live == box \in {"running", "stopping"}

BeforeLaunch == {"stage", "parse", "check", "start", "compose", "launch"}
Ending == {"cleanup", "cleanupDown", "leave"}

\* The links of the first n jobs.
Linked(n) == UNION {ItemsOf(k) \X {k} : k \in 1 .. n}

\* A signal is sent, then pending, then counted.
SignalInv ==
    /\ sent["INT"] <= MaxPresses /\ sent["TERM"] <= MaxTerms
    /\ sigints + (IF "INT" \in pending THEN 1 ELSE 0) <= sent["INT"]
    /\ "TERM" \in pending => sent["TERM"] > 0
    /\ pc = "stage" => pending = {}

\* Where a container can be running.
LiveInv ==
    /\ pc \in {"stage", "parse", "check"} => ~Alive
    /\ pc \in {"link", "judge", "cleanup", "cleanupDown"} =>
         ~Alive \/ sigints > 0 \/ "INT" \in pending
    /\ pc = "leave" => ~Alive \/ (sigints > 0 /\ "INT" \in pending)
    /\ tidied => pc \in {"cleanupDown", "leave", "exited"}
    /\ NoContainerLeft

\* Where the main container can be.
BoxInv ==
    /\ pc \notin {"launched", "wait", "exited"} => compose = "none"
    /\ pc # "exited" /\ compose = "ended" /\ Live => sigints > 0 \/ "TERM" \in pending
    /\ pc \notin {"exited"} \cup Ending => code = "none"
    /\ pc = "interrupted" /\ Live => sigints > 0
    /\ pc \in Ending /\ Live => code = "130"
    /\ pc \in BeforeLaunch \cup {"down", "link", "judge"} => ~Live

\* What is known of the results and the links.
ResultInv ==
    /\ Live => results[job] # "passed"
    /\ pc \in BeforeLaunch => results[job] = "none"
    /\ \A k \in Jobs : k > job => results[k] = "none"
    /\ overall = "ok" => \A k \in Jobs : k < job => results[k] = "passed"
    /\ pc \notin {"judge", "exited"} \cup Ending => links = Linked(job - 1)
    /\ pc = "judge" => links = Linked(job)
    /\ code = "ok" => /\ pc \in Ending \cup {"exited"}
                      /\ \A k \in Jobs : results[k] = "passed"
                      /\ links = Linked(NJobs)

LocalInv == LocalTypeOK /\ SignalInv /\ LiveInv /\ BoxInv /\ ResultInv

-----------------------------------------------------------------------------
(* The packing of work items into jobs.                                    *)

LEMMA Product ==
  ASSUME NEW b \in Nat, NEW d \in Nat, NEW q \in Nat, d <= q
  PROVE  b * d \in Nat /\ b * q \in Nat /\ b * d <= b * q /\ b * (d + 1) = b * d + b
OBVIOUS

LEMMA Division ==
  ASSUME NEW x \in Nat, NEW b \in Nat \ {0}
  PROVE  \E q \in Nat, r \in 0 .. b - 1 : q = x \div b /\ r = x % b /\ x = b * q + r
<1>1. x \div b \in Nat
  OBVIOUS
<1>2. x % b \in 0 .. b - 1
  OBVIOUS
<1>3. x = b * (x \div b) + (x % b)
  OBVIOUS
<1>4. PICK q \in Nat, r \in 0 .. b - 1 : q = x \div b /\ r = x % b
  BY <1>1, <1>2
<1>5. x = b * q + r
  BY <1>3, <1>4
<1> QED
  BY <1>4, <1>5

\* A quotient is the only number it can be.
LEMMA QuotientIs ==
  ASSUME NEW b \in Nat \ {0}, NEW q \in Nat, NEW r \in 0 .. b - 1, NEW x \in Nat, x = b * q + r
  PROVE  x \div b = q /\ x % b = r
<1>1. PICK d \in Nat, m \in 0 .. b - 1 : d = x \div b /\ m = x % b /\ x = b * d + m
  BY Division
<1>2. b * d \in Nat /\ b * q \in Nat /\ b * (d + 1) = b * d + b /\ b * (q + 1) = b * q + b
  BY <1>1, Product
<1>3. ~(d < q)
  <2>1. ASSUME d < q PROVE FALSE
    <3>1. b * (d + 1) <= b * q
      BY <1>1, <2>1, Product
    <3> QED
      BY <1>1, <1>2, <3>1
  <2> QED
    BY <2>1
<1>4. ~(q < d)
  <2>1. ASSUME q < d PROVE FALSE
    <3>1. b * (q + 1) <= b * d
      BY <1>1, <2>1, Product
    <3> QED
      BY <1>1, <1>2, <3>1
  <2> QED
    BY <2>1
<1>5. d = q
  BY <1>1, <1>3, <1>4
<1>6. m = r
  BY <1>1, <1>2, <1>5
<1> QED
  BY <1>1, <1>5, <1>6

LEMMA SizesPositive ==
  /\ NConfigs \in Nat \ {0} /\ Runs \in Nat \ {0} /\ RunsPerJob \in Nat \ {0}
  /\ NItems \in Nat \ {0} /\ NJobs \in Nat \ {0}
<1>1. NConfigs \in Nat \ {0} /\ Runs \in Nat \ {0} /\ RunsPerJob \in Nat \ {0}
  BY PackingAssumption
<1>2. NItems \in Nat \ {0}
  BY <1>1 DEF NItems
<1>3. PICK n \in Nat, m \in 0 .. RunsPerJob - 1 : n = NJobs /\ NItems + RunsPerJob - 1 = RunsPerJob * n + m
  BY <1>1, <1>2, Division, NItems + RunsPerJob - 1 \in Nat DEF NJobs
<1>4. n # 0
  BY <1>1, <1>2, <1>3
<1> QED
  BY <1>1, <1>2, <1>3, <1>4

\* Each work item has its position.
LEMMA PositionOf ==
  ASSUME NEW w \in WorkItems
  PROVE  \E i \in 1 .. NItems : \A n \in 1 .. NItems : Item(n) = w <=> n = i
<1>0. Runs \in Nat \ {0} /\ NConfigs \in Nat \ {0}
  BY PackingAssumption
<1>1. PICK c \in Nat, r \in 0 .. Runs - 1 :
        /\ c + 1 \in 1 .. NConfigs /\ w = [config |-> c + 1, run |-> r]
  <2>1. w.config \in 1 .. NConfigs /\ w.run \in 0 .. Runs - 1 /\ w = [config |-> w.config, run |-> w.run]
    BY DEF WorkItems
  <2>2. w.config - 1 \in Nat /\ (w.config - 1) + 1 = w.config
    BY <2>1
  <2> QED
    BY <2>1, <2>2
<1>2. /\ Runs * c \in Nat /\ Runs * (c + 1) = Runs * c + Runs /\ Runs * (c + 1) <= Runs * NConfigs
  BY <1>0, <1>1, Product, c + 1 \in Nat, c + 1 <= NConfigs
<1>3. NItems = Runs * NConfigs
  BY <1>0 DEF NItems
<1>4. PICK x \in Nat : x = Runs * c + r /\ x + 1 \in 1 .. NItems
  BY <1>0, <1>1, <1>2, <1>3
<1>5. ASSUME NEW n \in 1 .. NItems
      PROVE  Item(n) = w <=> n = x + 1
  <2>1. PICK y \in Nat : y = n - 1
    BY <1>5, SizesPositive
  <2>2. PICK d \in Nat, m \in 0 .. Runs - 1 : d = y \div Runs /\ m = y % Runs /\ y = Runs * d + m
    BY <1>0, <2>1, Division
  <2>3. Item(n) = [config |-> d + 1, run |-> m]
    BY <2>1, <2>2 DEF Item
  <2>4. Item(n) = w <=> d = c /\ m = r
    <3>1. d = c /\ m = r => Item(n) = w
      BY <1>1, <2>3
    <3>2. Item(n) = w => d + 1 = c + 1 /\ m = r
      BY <1>1, <2>3
    <3>3. d + 1 = c + 1 => d = c
      BY <1>1, <2>2
    <3> QED
      BY <3>1, <3>2, <3>3
  <2>5. y = x => d = c /\ m = r
    <3>1. x \div Runs = c /\ x % Runs = r
      <4>1. \A z \in Nat : z = Runs * c + r => z \div Runs = c /\ z % Runs = r
        BY <1>0, <1>1, QuotientIs, SMTT(30)
      <4> QED
        BY <1>4, <4>1
    <3> QED
      BY <2>2, <3>1
  <2>6. d = c /\ m = r => y = x
    BY <1>4, <2>2
  <2> QED
    BY <1>4, <2>1, <2>4, <2>5, <2>6
<1> QED
  BY <1>4, <1>5

(* Packing puts every run of every configuration into exactly one job, for *)
(* any numbers of configurations and runs, and any number of runs to a job  *)
(* (FixedK.pack in execution/packer.py).                                    *)
THEOREM LocalPackedOnce ==
  ASSUME NEW w \in WorkItems
  PROVE  \E j \in Jobs : \A k \in Jobs : w \in ItemsOf(k) <=> k = j
<1>0. /\ RunsPerJob \in Nat \ {0} /\ NItems \in Nat \ {0} /\ NJobs \in Nat \ {0}
  BY SizesPositive
<1>1. PICK i \in 1 .. NItems : \A n \in 1 .. NItems : Item(n) = w <=> n = i
  BY PositionOf
<1>2. PICK q \in Nat, r \in 0 .. RunsPerJob - 1 : i - 1 = RunsPerJob * q + r
  BY <1>0, <1>1, Division, i - 1 \in Nat, ZenonT(30)
<1>3. RunsPerJob * q \in Nat
  BY <1>0, <1>2, Product
<1>4. q + 1 \in Jobs
  <2>1. PICK n \in Nat, m \in 0 .. RunsPerJob - 1 :
          n = NJobs /\ NItems + RunsPerJob - 1 = RunsPerJob * n + m
    BY <1>0, Division, NItems + RunsPerJob - 1 \in Nat DEF NJobs
  <2>2. ASSUME n <= q PROVE FALSE
    <3>1. RunsPerJob * n <= RunsPerJob * q /\ RunsPerJob * n \in Nat
      BY <1>0, <1>2, <2>2, Product
    <3> QED
      BY <1>0, <1>1, <1>2, <1>3, <2>1, <3>1
  <2> QED
    BY <1>0, <1>2, <2>1, <2>2 DEF Jobs
<1>5. ASSUME NEW k \in Jobs
      PROVE  w \in ItemsOf(k) <=> k = q + 1
  <2>1. k \in Nat \ {0}
    BY <1>0 DEF Jobs
  <2>2. PICK p \in Nat : k = p + 1 /\ RunsPerJob * p \in Nat
    <3>1. k - 1 \in Nat /\ k = (k - 1) + 1
      BY <2>1
    <3>2. RunsPerJob * (k - 1) \in Nat
      BY <1>0, <3>1, Product
    <3> QED
      BY <3>1, <3>2
  <2>3. (k - 1) * RunsPerJob = RunsPerJob * p /\ k * RunsPerJob = RunsPerJob * p + RunsPerJob
    BY <1>0, <2>2
  <2>4. w \in ItemsOf(k) <=> i \in Chunk(k)
    BY <1>1 DEF ItemsOf, Chunk
  <2>5. i \in Chunk(k) <=> RunsPerJob * p < i /\ i <= RunsPerJob * p + RunsPerJob
    BY <1>1, <2>3 DEF Chunk
  <2>6. p = q => RunsPerJob * p < i /\ i <= RunsPerJob * p + RunsPerJob
    BY <1>0, <1>1, <1>2, <1>3
  <2>7. ASSUME RunsPerJob * p < i, i <= RunsPerJob * p + RunsPerJob
        PROVE  p = q
    <3>1. PICK m \in 0 .. RunsPerJob - 1 : i - 1 = RunsPerJob * p + m
      <4>1. i - 1 - RunsPerJob * p \in 0 .. RunsPerJob - 1
        BY <1>0, <1>1, <2>2, <2>7
      <4> QED
        BY <1>1, <2>2, <4>1
    <3>2. (i - 1) \div RunsPerJob = p
      BY <1>0, <1>1, <2>2, <3>1, QuotientIs, i - 1 \in Nat
    <3>3. (i - 1) \div RunsPerJob = q
      BY <1>0, <1>1, <1>2, QuotientIs, i - 1 \in Nat
    <3> QED
      BY <3>2, <3>3
  <2> QED
    BY <1>2, <2>2, <2>4, <2>5, <2>6, <2>7
<1> QED
  BY <1>4, <1>5

\* What a job holds are work items.
LEMMA ItemsAre ==
  ASSUME NEW j \in Jobs
  PROVE  ItemsOf(j) \subseteq WorkItems
<1>0. Runs \in Nat \ {0} /\ NConfigs \in Nat \ {0}
  BY PackingAssumption
<1>1. ASSUME NEW i \in 1 .. NItems
      PROVE  Item(i) \in WorkItems
  <2>1. PICK y \in Nat : y = i - 1 /\ y + 1 <= NItems
    BY <1>1, SizesPositive
  <2>2. PICK d \in Nat, m \in 0 .. Runs - 1 : d = y \div Runs /\ m = y % Runs /\ y = Runs * d + m
    BY <1>0, <2>1, Division
  <2>3. Item(i) = [config |-> d + 1, run |-> m]
    BY <2>1, <2>2 DEF Item
  <2>4. ASSUME NConfigs <= d PROVE FALSE
    <3>1. Runs * NConfigs <= Runs * d /\ Runs * NConfigs = NItems /\ NItems \in Nat
      BY <1>0, <2>2, <2>4, Product, SizesPositive DEF NItems
    <3>2. Runs * d \in Nat
      BY <1>0, <2>2, Product
    <3> QED
      BY <2>1, <2>2, <3>1, <3>2
  <2>5. d + 1 \in 1 .. NConfigs
    BY <1>0, <2>2, <2>4
  <2>6. PICK c \in 1 .. NConfigs : c = d + 1
    BY <2>5
  <2> QED
    <3>1. Item(i) = [config |-> c, run |-> m]
      BY <2>3, <2>6
    <3>2. \A a \in 1 .. NConfigs, b \in 0 .. Runs - 1 : [config |-> a, run |-> b] \in WorkItems
      BY Zenon DEF WorkItems
    <3>3. [config |-> c, run |-> m] \in WorkItems
      BY <2>2, <2>6, <3>2, Zenon
    <3> QED
      BY <3>1, <3>3
<1> QED
  BY <1>1 DEF ItemsOf, Chunk

\* The links when one more job is done.
LEMMA LinkedNext ==
  ASSUME NEW n \in Nat \ {0}
  PROVE  Linked(n) = Linked(n - 1) \cup (ItemsOf(n) \X {n})
<1>1. 1 .. n = (1 .. n - 1) \cup {n}
  OBVIOUS
<1> QED
  BY <1>1 DEF Linked

-----------------------------------------------------------------------------
(* The steps.                                                              *)

LEMMA TakenDown ==
  ASSUME LocalTypeOK, TakeDown
  PROVE  /\ box' = "none" /\ secondary' = FALSE
         /\ results' \in [Jobs -> {"none", "passed", "failed", "lost"}]
         /\ ~Live => results' = results
         /\ \A k \in Jobs : k # job => results'[k] = results[k]
BY DEF TakeDown, LocalTypeOK, Live

LEMMA SignalInvKept ==
  ASSUME LocalTypeOK, SignalInv, LocalNext
  PROVE  SignalInv'
<1> USE DEF SignalInv, At, script, docker, rest
<1>0. /\ MaxPresses \in Nat /\ MaxTerms \in Nat /\ sigints \in Nat
      /\ sent["INT"] \in Nat /\ sent["TERM"] \in Nat
  BY LocalRunAssumption DEF LocalTypeOK
<1>1. CASE StageBatch \/ StageFails \/ ParseArguments \/ RefuseImage \/ AcceptImage \/ StartJob
           \/ WriteComposeFile
  BY <1>1, <1>0 DEF StageBatch, StageFails, ParseArguments, RefuseImage, AcceptImage, StartJob,
       WriteComposeFile, Exit
<1>2. CASE ComposeUp \/ ComposeUpDetached \/ ComposeUpFails \/ WaitForMain
  BY <1>2, <1>0 DEF ComposeUp, ComposeUpDetached, ComposeUpFails, WaitForMain
<1>3. CASE RecordPid \/ WaitReturns \/ CheckPresses
  BY <1>3, <1>0 DEF RecordPid, WaitReturns, CheckPresses
<1>4. ASSUME NEW o \in {"passed", "failed"}, RunShell(o)
      PROVE  SignalInv'
  BY <1>4, <1>0 DEF RunShell
<1>5. CASE ComposeDown \/ EndCleanup
  BY <1>5, <1>0 DEF ComposeDown, EndCleanup
<1>6. CASE BeginCleanup \/ Leave
  BY <1>6, <1>0 DEF BeginCleanup, Leave
<1>7. CASE LinkArtifacts
  BY <1>7, <1>0 DEF LinkArtifacts
<1>8. CASE JudgeJob
  BY <1>8, <1>0 DEF JudgeJob, Failed
<1>9. CASE HandleFirstPress
  BY <1>9, <1>0 DEF HandleFirstPress
<1>10. CASE HandleNextPress
  BY <1>10, <1>0 DEF HandleNextPress, Exit
<1>11. CASE HandleTerm
  BY <1>11, <1>0 DEF HandleTerm, Exit
<1>12. ASSUME NEW o \in {"passed", "failed", "lost"}, ScenarioEnds(o)
      PROVE  SignalInv'
  BY <1>12, <1>0 DEF ScenarioEnds
<1>13. CASE ComposeEnds \/ SecondaryEnds
  BY <1>13, <1>0 DEF ComposeEnds, SecondaryEnds
<1>14. CASE PressCtrlC
  <2>1. sent["INT"] < MaxPresses /\ sent' = [sent EXCEPT !["INT"] = @ + 1]
    BY <1>14 DEF PressCtrlC, CanSend
  <2>2. sent'["INT"] = sent["INT"] + 1 /\ sent'["TERM"] = sent["TERM"]
    BY <2>1 DEF LocalTypeOK
  <2>3. /\ "INT" \notin pending /\ pending' = pending \cup {"INT"}
        /\ sigints' = sigints /\ pc' # "stage"
    BY <1>14 DEF PressCtrlC, CanSend
  <2> QED
    BY <1>0, <2>1, <2>2, <2>3
<1>15. CASE InterruptDown
  <2>1. sent["INT"] < MaxPresses /\ sent' = [sent EXCEPT !["INT"] = @ + 1]
    BY <1>15 DEF InterruptDown, CanSend
  <2>2. sent'["INT"] = sent["INT"] + 1 /\ sent'["TERM"] = sent["TERM"]
    BY <2>1 DEF LocalTypeOK
  <2>3. /\ "INT" \notin pending /\ pending' = pending \cup {"INT"}
        /\ sigints' = sigints /\ pc' # "stage"
    BY <1>15 DEF InterruptDown, CanSend
  <2> QED
    BY <1>0, <2>1, <2>2, <2>3
<1>16. CASE SendTerm
  <2>1. sent["TERM"] < MaxTerms /\ sent' = [sent EXCEPT !["TERM"] = @ + 1]
    BY <1>16 DEF SendTerm, CanSend
  <2>2. sent'["TERM"] = sent["TERM"] + 1 /\ sent'["INT"] = sent["INT"]
    BY <2>1 DEF LocalTypeOK
  <2>3. /\ "TERM" \notin pending /\ pending' = pending \cup {"TERM"}
        /\ sigints' = sigints /\ pc' # "stage"
    BY <1>16 DEF SendTerm, CanSend
  <2> QED
    BY <1>0, <2>1, <2>2, <2>3
<1>17. CASE KillScript \/ ScriptReturns
  BY <1>17, <1>0 DEF KillScript, ScriptReturns, Exit
<1> QED
  BY <1>1, <1>2, <1>3, <1>4, <1>5, <1>6, <1>7, <1>8, <1>9, <1>10, <1>11, <1>12, <1>13,
     <1>14, <1>15, <1>16, <1>17
    DEF LocalNext, ScriptStep, Trap, DockerStep, PythonStep

\* The types, in parts: flags, the script, signals and the caller, docker.
FlagsOK ==
    abortOn \in BOOLEAN /\ composePid \in BOOLEAN /\ tidied \in BOOLEAN /\ secondary \in BOOLEAN
ScriptOK ==
    /\ conf \in [caller : {"shell", "python"}, secondaries : BOOLEAN, abort : BOOLEAN,
                 networkHost : BOOLEAN, startOnly : BOOLEAN]
    /\ pc \in Steps \cup {"exited"} /\ job \in Jobs
    /\ overall \in {"ok", "failed"} /\ code \in {"none", "ok", "failed", "130", "killed"}
SignalsOK ==
    /\ sigints \in 0 .. MaxPresses /\ pending \subseteq {"INT", "TERM"}
    /\ sent \in [{"INT", "TERM"} -> 0 .. MaxPresses + MaxTerms]
    /\ python \in {"none", "waiting", "interrupted", "gone"}
DockerOK ==
    /\ compose \in {"none", "up", "ended"} /\ box \in {"none", "running", "stopping", "exited"}
    /\ results \in [Jobs -> {"none", "passed", "failed", "lost"}]
    /\ links \subseteq WorkItems \X Jobs

LEMMA TypeParts ==
  /\ LocalTypeOK => FlagsOK /\ ScriptOK /\ SignalsOK /\ DockerOK
  /\ FlagsOK /\ ScriptOK /\ SignalsOK /\ DockerOK => LocalTypeOK
BY Zenon DEF LocalTypeOK, FlagsOK, ScriptOK, SignalsOK, DockerOK

LEMMA SendTyped ==
  ASSUME SignalsOK, SignalInv', NEW s \in {"INT", "TERM"},
         sent' = [sent EXCEPT ![s] = @ + 1]
  PROVE  sent' \in [{"INT", "TERM"} -> 0 .. MaxPresses + MaxTerms]
<1>1. MaxPresses \in Nat /\ MaxTerms \in Nat /\ sent["INT"] \in Nat /\ sent["TERM"] \in Nat
  BY LocalRunAssumption DEF SignalsOK
<1>2. sent'["INT"] \in Nat /\ sent'["TERM"] \in Nat
  BY <1>1 DEF SignalsOK
<1>3. sent'["INT"] <= MaxPresses /\ sent'["TERM"] <= MaxTerms
  BY DEF SignalInv
<1>4. \A x \in {"INT", "TERM"} : sent'[x] \in 0 .. MaxPresses + MaxTerms
  BY <1>1, <1>2, <1>3
<1>5. DOMAIN sent' = {"INT", "TERM"} /\ sent' = [x \in {"INT", "TERM"} |-> sent'[x]]
  BY DEF SignalsOK
<1> QED
  BY <1>4, <1>5

LEMMA FlagsTyped ==
  ASSUME FlagsOK, LocalNext
  PROVE  FlagsOK'
<1> USE DEF FlagsOK, At, script, docker, rest, TakeDown
<1>1. CASE StageBatch \/ StageFails \/ ParseArguments \/ RefuseImage \/ AcceptImage \/ StartJob
           \/ WriteComposeFile
  BY <1>1, Zenon DEF StageBatch, StageFails, ParseArguments, RefuseImage, AcceptImage,
       StartJob, WriteComposeFile, Exit
<1>2. CASE ComposeUp \/ ComposeUpDetached \/ ComposeUpFails \/ WaitForMain
  BY <1>2, Zenon DEF ComposeUp, ComposeUpDetached, ComposeUpFails, WaitForMain
<1>3. CASE RecordPid \/ WaitReturns \/ CheckPresses
  BY <1>3, Zenon DEF RecordPid, WaitReturns, CheckPresses
<1>4. ASSUME NEW o \in {"passed", "failed"}, RunShell(o)
      PROVE  FlagsOK'
  BY <1>4, Zenon DEF RunShell
<1>5. CASE ComposeDown \/ EndCleanup
  BY <1>5, Zenon DEF ComposeDown, EndCleanup
<1>6. CASE BeginCleanup \/ Leave
  BY <1>6, Zenon DEF BeginCleanup, Leave
<1>7. CASE LinkArtifacts
  BY <1>7, Zenon DEF LinkArtifacts
<1>8. CASE JudgeJob
  BY <1>8, Zenon DEF JudgeJob, Failed
<1>9. CASE HandleFirstPress
  BY <1>9, Zenon DEF HandleFirstPress
<1>10. CASE HandleNextPress
  BY <1>10, Zenon DEF HandleNextPress, Exit
<1>11. CASE HandleTerm
  BY <1>11, Zenon DEF HandleTerm, Exit
<1>12. ASSUME NEW o \in {"passed", "failed", "lost"}, ScenarioEnds(o)
      PROVE  FlagsOK'
  BY <1>12, Zenon DEF ScenarioEnds
<1>13. CASE ComposeEnds \/ SecondaryEnds
  BY <1>13, Zenon DEF ComposeEnds, SecondaryEnds
<1>14. CASE PressCtrlC
  BY <1>14, Zenon DEF PressCtrlC, CanSend
<1>15. CASE InterruptDown
  BY <1>15, Zenon DEF InterruptDown, CanSend
<1>16. CASE SendTerm
  BY <1>16, Zenon DEF SendTerm, CanSend
<1>17. CASE KillScript \/ ScriptReturns
  BY <1>17, Zenon DEF KillScript, ScriptReturns, Exit
<1> QED
  BY <1>1, <1>2, <1>3, <1>4, <1>5, <1>6, <1>7, <1>8, <1>9, <1>10, <1>11, <1>12, <1>13,
     <1>14, <1>15, <1>16, <1>17
    DEF LocalNext, ScriptStep, Trap, DockerStep, PythonStep

LEMMA ScriptTyped ==
  ASSUME ScriptOK, LocalNext
  PROVE  ScriptOK'
<1> USE DEF ScriptOK, Steps, At, script, docker, rest
<1>1. CASE StageBatch \/ StageFails \/ ParseArguments \/ RefuseImage \/ AcceptImage \/ StartJob
           \/ WriteComposeFile
  BY <1>1 DEF StageBatch, StageFails, ParseArguments, RefuseImage, AcceptImage, StartJob,
       WriteComposeFile, Exit
<1>2. CASE ComposeUp \/ ComposeUpDetached \/ ComposeUpFails \/ WaitForMain
  BY <1>2 DEF ComposeUp, ComposeUpDetached, ComposeUpFails, WaitForMain
<1>3. CASE RecordPid \/ WaitReturns \/ CheckPresses
  BY <1>3 DEF RecordPid, WaitReturns, CheckPresses
<1>4. ASSUME NEW o \in {"passed", "failed"}, RunShell(o)
      PROVE  ScriptOK'
  BY <1>4 DEF RunShell
<1>5. CASE ComposeDown \/ EndCleanup
  BY <1>5 DEF ComposeDown, EndCleanup
<1>6. CASE BeginCleanup \/ Leave
  BY <1>6 DEF BeginCleanup, Leave
<1>7. CASE LinkArtifacts
  BY <1>7 DEF LinkArtifacts
<1>8. CASE JudgeJob
  <2>1. overall' \in {"ok", "failed"}
    BY <1>8 DEF JudgeJob, Failed
  <2>2. job' \in Jobs
    <3>1. job = NJobs \/ job + 1 \in Jobs
      BY SizesPositive DEF Jobs
    <3> QED
      BY <1>8, <3>1 DEF JudgeJob, Failed
  <2> QED
    BY <1>8, <2>1, <2>2 DEF JudgeJob, Failed
<1>9. CASE HandleFirstPress
  BY <1>9 DEF HandleFirstPress
<1>10. CASE HandleNextPress
  BY <1>10 DEF HandleNextPress, Exit
<1>11. CASE HandleTerm
  BY <1>11 DEF HandleTerm, Exit
<1>12. ASSUME NEW o \in {"passed", "failed", "lost"}, ScenarioEnds(o)
      PROVE  ScriptOK'
  BY <1>12 DEF ScenarioEnds
<1>13. CASE ComposeEnds \/ SecondaryEnds
  BY <1>13 DEF ComposeEnds, SecondaryEnds
<1>14. CASE PressCtrlC
  BY <1>14 DEF PressCtrlC, CanSend
<1>15. CASE InterruptDown
  BY <1>15 DEF InterruptDown, CanSend
<1>16. CASE SendTerm
  BY <1>16 DEF SendTerm, CanSend
<1>17. CASE KillScript \/ ScriptReturns
  BY <1>17 DEF KillScript, ScriptReturns, Exit
<1> QED
  BY <1>1, <1>2, <1>3, <1>4, <1>5, <1>6, <1>7, <1>8, <1>9, <1>10, <1>11, <1>12, <1>13,
     <1>14, <1>15, <1>16, <1>17
    DEF LocalNext, ScriptStep, Trap, DockerStep, PythonStep

LEMMA SignalsTyped ==
  ASSUME SignalsOK, SignalInv, SignalInv', LocalNext
  PROVE  SignalsOK'
<1> USE DEF SignalsOK, At, script, docker, rest
<1>0. MaxPresses \in Nat /\ sigints \in Nat /\ sent["INT"] \in Nat
  BY LocalRunAssumption
<1>1. CASE StageBatch \/ StageFails \/ ParseArguments \/ RefuseImage \/ AcceptImage \/ StartJob
           \/ WriteComposeFile
  BY <1>1 DEF StageBatch, StageFails, ParseArguments, RefuseImage, AcceptImage, StartJob,
       WriteComposeFile, Exit
<1>2. CASE ComposeUp \/ ComposeUpDetached \/ ComposeUpFails \/ WaitForMain
  BY <1>2 DEF ComposeUp, ComposeUpDetached, ComposeUpFails, WaitForMain
<1>3. CASE RecordPid \/ WaitReturns \/ CheckPresses
  BY <1>3 DEF RecordPid, WaitReturns, CheckPresses
<1>4. ASSUME NEW o \in {"passed", "failed"}, RunShell(o)
      PROVE  SignalsOK'
  BY <1>4 DEF RunShell
<1>5. CASE ComposeDown \/ EndCleanup
  BY <1>5 DEF ComposeDown, EndCleanup
<1>6. CASE BeginCleanup \/ Leave
  BY <1>6 DEF BeginCleanup, Leave
<1>7. CASE LinkArtifacts
  BY <1>7 DEF LinkArtifacts
<1>8. CASE JudgeJob
  BY <1>8 DEF JudgeJob, Failed
<1>9. CASE HandleFirstPress
  <2>1. sigints' \in 0 .. MaxPresses
    BY <1>0, <1>9 DEF HandleFirstPress, SignalInv
  <2> QED
    BY <1>9, <2>1 DEF HandleFirstPress
<1>10. CASE HandleNextPress
  <2>1. sigints' \in 0 .. MaxPresses
    BY <1>0, <1>10 DEF HandleNextPress, Exit, SignalInv
  <2> QED
    BY <1>10, <2>1 DEF HandleNextPress, Exit
<1>11. CASE HandleTerm
  BY <1>11 DEF HandleTerm, Exit
<1>12. ASSUME NEW o \in {"passed", "failed", "lost"}, ScenarioEnds(o)
      PROVE  SignalsOK'
  BY <1>12 DEF ScenarioEnds
<1>13. CASE ComposeEnds \/ SecondaryEnds
  BY <1>13 DEF ComposeEnds, SecondaryEnds
<1>14. CASE PressCtrlC
  <2>1. sent' = [sent EXCEPT !["INT"] = @ + 1]
    BY <1>14 DEF PressCtrlC, CanSend
  <2>2. sent' \in [{"INT", "TERM"} -> 0 .. MaxPresses + MaxTerms]
    BY <2>1, SendTyped
  <2> QED
    BY <1>14, <2>2 DEF PressCtrlC, CanSend
<1>15. CASE InterruptDown
  <2>1. sent' = [sent EXCEPT !["INT"] = @ + 1]
    BY <1>15 DEF InterruptDown, CanSend
  <2>2. sent' \in [{"INT", "TERM"} -> 0 .. MaxPresses + MaxTerms]
    BY <2>1, SendTyped
  <2> QED
    BY <1>15, <2>2 DEF InterruptDown, CanSend
<1>16. CASE SendTerm
  <2>1. sent' = [sent EXCEPT !["TERM"] = @ + 1]
    BY <1>16 DEF SendTerm, CanSend
  <2>2. sent' \in [{"INT", "TERM"} -> 0 .. MaxPresses + MaxTerms]
    BY <2>1, SendTyped
  <2> QED
    BY <1>16, <2>2 DEF SendTerm, CanSend
<1>17. CASE KillScript \/ ScriptReturns
  BY <1>17 DEF KillScript, ScriptReturns, Exit
<1> QED
  BY <1>1, <1>2, <1>3, <1>4, <1>5, <1>6, <1>7, <1>8, <1>9, <1>10, <1>11, <1>12, <1>13,
     <1>14, <1>15, <1>16, <1>17
    DEF LocalNext, ScriptStep, Trap, DockerStep, PythonStep

LEMMA DockerTyped ==
  ASSUME LocalTypeOK, DockerOK, LocalNext
  PROVE  DockerOK'
<1> USE DEF DockerOK, At, script, docker, rest
<1>1. CASE StageBatch \/ StageFails \/ ParseArguments \/ RefuseImage \/ AcceptImage \/ StartJob
           \/ WriteComposeFile
  BY <1>1, TakenDown DEF StageBatch, StageFails, ParseArguments, RefuseImage, AcceptImage,
       StartJob, WriteComposeFile, Exit
<1>2. CASE ComposeUp \/ ComposeUpDetached \/ ComposeUpFails \/ WaitForMain
  BY <1>2, TakenDown DEF ComposeUp, ComposeUpDetached, ComposeUpFails, WaitForMain
<1>3. CASE RecordPid \/ WaitReturns \/ CheckPresses
  BY <1>3, TakenDown DEF RecordPid, WaitReturns, CheckPresses
<1>4. ASSUME NEW o \in {"passed", "failed"}, RunShell(o)
      PROVE  DockerOK'
  BY <1>4, TakenDown DEF RunShell
<1>5. CASE ComposeDown \/ EndCleanup
  BY <1>5, TakenDown DEF ComposeDown, EndCleanup
<1>6. CASE BeginCleanup \/ Leave
  BY <1>6, TakenDown DEF BeginCleanup, Leave
<1>7. CASE LinkArtifacts
  <2>1. ItemsOf(job) \subseteq WorkItems
    BY ItemsAre DEF LocalTypeOK
  <2>2. links' \subseteq WorkItems \X Jobs
    BY <1>7, <2>1 DEF LinkArtifacts, LocalTypeOK
  <2> QED
    BY <1>7, <2>2 DEF LinkArtifacts
<1>8. CASE JudgeJob
  BY <1>8, TakenDown DEF JudgeJob, Failed
<1>9. CASE HandleFirstPress
  BY <1>9, TakenDown DEF HandleFirstPress
<1>10. CASE HandleNextPress
  BY <1>10, TakenDown DEF HandleNextPress, Exit
<1>11. CASE HandleTerm
  BY <1>11, TakenDown DEF HandleTerm, Exit
<1>12. ASSUME NEW o \in {"passed", "failed", "lost"}, ScenarioEnds(o)
      PROVE  DockerOK'
  BY <1>12, TakenDown DEF ScenarioEnds
<1>13. CASE ComposeEnds \/ SecondaryEnds
  BY <1>13, TakenDown DEF ComposeEnds, SecondaryEnds
<1>14. CASE PressCtrlC
  BY <1>14, TakenDown DEF PressCtrlC, CanSend
<1>15. CASE InterruptDown
  BY <1>15, TakenDown DEF InterruptDown, CanSend
<1>16. CASE SendTerm
  BY <1>16, TakenDown DEF SendTerm, CanSend
<1>17. CASE KillScript \/ ScriptReturns
  BY <1>17, TakenDown DEF KillScript, ScriptReturns, Exit
<1> QED
  BY <1>1, <1>2, <1>3, <1>4, <1>5, <1>6, <1>7, <1>8, <1>9, <1>10, <1>11, <1>12, <1>13,
     <1>14, <1>15, <1>16, <1>17
    DEF LocalNext, ScriptStep, Trap, DockerStep, PythonStep

LEMMA LiveInvKept ==
  ASSUME LocalTypeOK, SignalInv, LiveInv, LocalNext
  PROVE  LiveInv'
<1> USE DEF LiveInv, NoContainerLeft, Alive, At, script, docker, rest
<1>1. CASE StageBatch \/ StageFails \/ ParseArguments \/ RefuseImage \/ AcceptImage \/ StartJob
           \/ WriteComposeFile
  BY <1>1, TakenDown DEF StageBatch, StageFails, ParseArguments, RefuseImage, AcceptImage,
       StartJob, WriteComposeFile, Exit
<1>2. CASE ComposeUp \/ ComposeUpDetached \/ ComposeUpFails \/ WaitForMain
  BY <1>2, TakenDown DEF ComposeUp, ComposeUpDetached, ComposeUpFails, WaitForMain
<1>3. CASE RecordPid \/ WaitReturns \/ CheckPresses
  BY <1>3, TakenDown DEF RecordPid, WaitReturns, CheckPresses
<1>4. ASSUME NEW o \in {"passed", "failed"}, RunShell(o)
      PROVE  LiveInv'
  BY <1>4, TakenDown DEF RunShell
<1>5. CASE ComposeDown \/ EndCleanup
  <2>1. TakeDown /\ pending' = pending /\ sigints' = sigints /\ tidied' = tidied
    BY <1>5 DEF ComposeDown, EndCleanup
  <2>2. CASE pc = "down" /\ pc' = "link"
    BY <2>1, <2>2, TakenDown
  <2>3. CASE pc = "cleanupDown" /\ pc' = "leave"
    BY <2>1, <2>3, TakenDown
  <2> QED
    BY <1>5, <2>2, <2>3 DEF ComposeDown, EndCleanup
<1>6. CASE BeginCleanup \/ Leave
  BY <1>6, TakenDown DEF BeginCleanup, Leave
<1>7. CASE LinkArtifacts
  BY <1>7, TakenDown DEF LinkArtifacts
<1>8. CASE JudgeJob
  BY <1>8, TakenDown DEF JudgeJob, Failed
<1>9. CASE HandleFirstPress
  BY <1>9, TakenDown DEF HandleFirstPress
<1>10. CASE HandleNextPress
  BY <1>10, TakenDown DEF HandleNextPress, Exit
<1>11. CASE HandleTerm
  <2>1. "TERM" \in pending /\ "INT" \notin pending /\ sent["TERM"] > 0 /\ sent' = sent
    BY <1>11 DEF HandleTerm, Exit, SignalInv
  <2> QED
    BY <1>11, <2>1, TakenDown DEF HandleTerm, Exit
<1>12. ASSUME NEW o \in {"passed", "failed", "lost"}, ScenarioEnds(o)
      PROVE  LiveInv'
  BY <1>12, TakenDown DEF ScenarioEnds
<1>13. CASE ComposeEnds \/ SecondaryEnds
  BY <1>13, TakenDown DEF ComposeEnds, SecondaryEnds
<1>14. CASE PressCtrlC
  BY <1>14, TakenDown DEF PressCtrlC, CanSend
<1>15. CASE InterruptDown
  BY <1>15, TakenDown DEF InterruptDown, CanSend
<1>16. CASE SendTerm
  BY <1>16, TakenDown DEF SendTerm, CanSend
<1>17. CASE KillScript \/ ScriptReturns
  BY <1>17, TakenDown DEF KillScript, ScriptReturns, Exit
<1> QED
  BY <1>1, <1>2, <1>3, <1>4, <1>5, <1>6, <1>7, <1>8, <1>9, <1>10, <1>11, <1>12, <1>13,
     <1>14, <1>15, <1>16, <1>17
    DEF LocalNext, ScriptStep, Trap, DockerStep, PythonStep

LEMMA BoxInvKept ==
  ASSUME LocalTypeOK, SignalInv, BoxInv, LocalNext
  PROVE  BoxInv'
<1> USE DEF BoxInv, BeforeLaunch, Ending, Live, At, script, docker, rest
<1>1. CASE StageBatch \/ StageFails \/ ParseArguments \/ RefuseImage \/ AcceptImage \/ StartJob
           \/ WriteComposeFile
  BY <1>1, TakenDown DEF StageBatch, StageFails, ParseArguments, RefuseImage, AcceptImage,
       StartJob, WriteComposeFile, Exit
<1>2. CASE ComposeUp \/ ComposeUpDetached \/ ComposeUpFails \/ WaitForMain
  BY <1>2, TakenDown DEF ComposeUp, ComposeUpDetached, ComposeUpFails, WaitForMain
<1>3. CASE RecordPid \/ WaitReturns \/ CheckPresses
  BY <1>3, TakenDown DEF RecordPid, WaitReturns, CheckPresses
<1>4. ASSUME NEW o \in {"passed", "failed"}, RunShell(o)
      PROVE  BoxInv'
  BY <1>4, TakenDown DEF RunShell
<1>5. CASE ComposeDown \/ EndCleanup
  BY <1>5, TakenDown DEF ComposeDown, EndCleanup
<1>6. CASE BeginCleanup \/ Leave
  BY <1>6, TakenDown DEF BeginCleanup, Leave
<1>7. CASE LinkArtifacts
  BY <1>7, TakenDown DEF LinkArtifacts
<1>8. CASE JudgeJob
  BY <1>8, TakenDown DEF JudgeJob, Failed
<1>9. CASE HandleFirstPress
  BY <1>9, TakenDown DEF HandleFirstPress
<1>10. CASE HandleNextPress
  BY <1>10, TakenDown DEF HandleNextPress, Exit
<1>11. CASE HandleTerm
  BY <1>11, TakenDown DEF HandleTerm, Exit
<1>12. ASSUME NEW o \in {"passed", "failed", "lost"}, ScenarioEnds(o)
      PROVE  BoxInv'
  BY <1>12, TakenDown DEF ScenarioEnds
<1>13. CASE ComposeEnds \/ SecondaryEnds
  BY <1>13, TakenDown DEF ComposeEnds, SecondaryEnds
<1>14. CASE PressCtrlC
  BY <1>14, TakenDown DEF PressCtrlC, CanSend
<1>15. CASE InterruptDown
  BY <1>15, TakenDown DEF InterruptDown, CanSend
<1>16. CASE SendTerm
  BY <1>16, TakenDown DEF SendTerm, CanSend
<1>17. CASE KillScript \/ ScriptReturns
  BY <1>17, TakenDown DEF KillScript, ScriptReturns, Exit
<1> QED
  BY <1>1, <1>2, <1>3, <1>4, <1>5, <1>6, <1>7, <1>8, <1>9, <1>10, <1>11, <1>12, <1>13,
     <1>14, <1>15, <1>16, <1>17
    DEF LocalNext, ScriptStep, Trap, DockerStep, PythonStep

LEMMA ResultInvKept ==
  ASSUME LocalTypeOK, SignalInv, BoxInv, ResultInv, LocalNext
  PROVE  ResultInv'
<1> USE DEF ResultInv, BeforeLaunch, Ending, Live, At, script, docker, rest
<1>0. /\ NJobs \in Nat \ {0} /\ job \in 1 .. NJobs /\ Jobs = 1 .. NJobs
      /\ results \in [Jobs -> {"none", "passed", "failed", "lost"}] /\ job \in Jobs
      /\ pc \in BeforeLaunch \cup {"down", "link", "judge"} => ~Live
      /\ pc \in Ending /\ Live => code = "130"
      /\ pc \notin Ending \cup {"exited"} => code = "none"
  BY SizesPositive DEF LocalTypeOK, Jobs, BoxInv
<1>1. CASE StageBatch \/ StageFails \/ ParseArguments \/ RefuseImage \/ AcceptImage \/ StartJob
           \/ WriteComposeFile
  BY <1>1, <1>0, TakenDown DEF StageBatch, StageFails, ParseArguments, RefuseImage,
       AcceptImage, StartJob, WriteComposeFile, Exit
<1>2. CASE ComposeUp \/ ComposeUpDetached \/ ComposeUpFails \/ WaitForMain
  BY <1>2, <1>0, TakenDown DEF ComposeUp, ComposeUpDetached, ComposeUpFails, WaitForMain
<1>3. CASE RecordPid \/ WaitReturns \/ CheckPresses
  BY <1>3, <1>0, TakenDown DEF RecordPid, WaitReturns, CheckPresses
<1>4. ASSUME NEW o \in {"passed", "failed"}, RunShell(o)
      PROVE  ResultInv'
  <2>1. /\ pc = "launch" /\ pc' = "down" /\ results' = [results EXCEPT ![job] = o]
        /\ box' = box /\ job' = job /\ overall' = overall /\ code' = code /\ links' = links
    BY <1>4 DEF RunShell
  <2> QED
    BY <1>0, <2>1
<1>5. CASE ComposeDown \/ EndCleanup
  <2>1. TakeDown /\ job' = job /\ overall' = overall /\ code' = code /\ links' = links
    BY <1>5 DEF ComposeDown, EndCleanup
  <2>2. CASE pc = "down" /\ pc' = "link"
    BY <1>0, <2>1, <2>2, TakenDown
  <2>3. CASE pc = "cleanupDown" /\ pc' = "leave"
    BY <1>0, <2>1, <2>3, TakenDown
  <2> QED
    BY <1>5, <2>2, <2>3 DEF ComposeDown, EndCleanup
<1>6. CASE BeginCleanup \/ Leave
  BY <1>6, <1>0, TakenDown DEF BeginCleanup, Leave
<1>7. CASE LinkArtifacts
  <2>1. /\ pc = "link" /\ pc' = "judge" /\ links' = links \cup (ItemsOf(job) \X {job})
        /\ job' = job /\ results' = results /\ box' = box /\ overall' = overall /\ code' = code
    BY <1>7 DEF LinkArtifacts
  <2>2. links' = Linked(job)
    BY <1>0, <2>1, LinkedNext
  <2> QED
    BY <1>0, <2>1, <2>2
<1>8. CASE JudgeJob
  BY <1>8, <1>0, TakenDown DEF JudgeJob, Failed
<1>9. CASE HandleFirstPress
  BY <1>9, <1>0, TakenDown DEF HandleFirstPress
<1>10. CASE HandleNextPress
  BY <1>10, <1>0, TakenDown DEF HandleNextPress, Exit
<1>11. CASE HandleTerm
  <2>1. pc' = "exited" /\ code' = "130" /\ job' = job /\ overall' = overall /\ links' = links
    BY <1>11 DEF HandleTerm, Exit
  <2>2. CASE tidied
    <3>1. box' = box /\ results' = results
      BY <1>11, <2>2 DEF HandleTerm
    <3> QED
      BY <1>0, <2>1, <3>1
  <2>3. CASE ~tidied
    <3>1. TakeDown
      BY <1>11, <2>3 DEF HandleTerm
    <3> QED
      BY <1>0, <2>1, <3>1, TakenDown
  <2> QED
    BY <2>2, <2>3
<1>12. ASSUME NEW o \in {"passed", "failed", "lost"}, ScenarioEnds(o)
      PROVE  ResultInv'
  <2>1. /\ Live /\ box' = "exited" /\ results' = [results EXCEPT ![job] = o]
        /\ pc' = pc /\ job' = job /\ overall' = overall /\ code' = code /\ links' = links
    BY <1>12 DEF ScenarioEnds
  <2>2. code # "ok" /\ pc \notin BeforeLaunch
    BY <1>0, <2>1
  <2> QED
    BY <1>0, <2>1, <2>2
<1>13. CASE ComposeEnds \/ SecondaryEnds
  BY <1>13, <1>0, TakenDown DEF ComposeEnds, SecondaryEnds
<1>14. CASE PressCtrlC
  BY <1>14, <1>0, TakenDown DEF PressCtrlC, CanSend
<1>15. CASE InterruptDown
  BY <1>15, <1>0, TakenDown DEF InterruptDown, CanSend
<1>16. CASE SendTerm
  BY <1>16, <1>0, TakenDown DEF SendTerm, CanSend
<1>17. CASE KillScript \/ ScriptReturns
  BY <1>17, <1>0, TakenDown DEF KillScript, ScriptReturns, Exit
<1> QED
  BY <1>1, <1>2, <1>3, <1>4, <1>5, <1>6, <1>7, <1>8, <1>9, <1>10, <1>11, <1>12, <1>13,
     <1>14, <1>15, <1>16, <1>17
    DEF LocalNext, ScriptStep, Trap, DockerStep, PythonStep

-----------------------------------------------------------------------------
(* The theorems.                                                           *)

LEMMA LocalInitGood ==
  ASSUME LocalInit
  PROVE  LocalInv
<1>0. /\ NJobs \in Nat \ {0} /\ 1 \in Jobs /\ MaxPresses \in Nat /\ MaxTerms \in Nat
      /\ \A k \in Jobs : k \in Nat \ {0}
  BY SizesPositive, LocalRunAssumption DEF Jobs
<1>1. FlagsOK
  BY Zenon DEF LocalInit, FlagsOK
<1>2. ScriptOK
  BY <1>0 DEF LocalInit, ScriptOK, Steps
<1>3. SignalsOK
  BY <1>0 DEF LocalInit, SignalsOK
<1>4. DockerOK
  BY DEF LocalInit, DockerOK
<1>5. SignalInv
  BY <1>0 DEF LocalInit, SignalInv
<1>6. LiveInv /\ BoxInv
  BY DEF LocalInit, LiveInv, NoContainerLeft, Alive, BoxInv, BeforeLaunch, Ending, Live
<1>7. ResultInv
  <2>1. Linked(0) = {}
    BY DEF Linked
  <2> QED
    BY <1>0, <2>1 DEF LocalInit, ResultInv, BeforeLaunch, Ending, Live
<1> QED
  BY <1>1, <1>2, <1>3, <1>4, <1>5, <1>6, <1>7, TypeParts DEF LocalInv

LEMMA LocalStepGood ==
  ASSUME LocalInv, [LocalNext]_localVars
  PROVE  LocalInv'
<1>1. CASE LocalNext
  <2>1. LocalTypeOK /\ SignalInv /\ LiveInv /\ BoxInv /\ ResultInv
    BY DEF LocalInv
  <2>2. FlagsOK /\ ScriptOK /\ SignalsOK /\ DockerOK
    BY <2>1, TypeParts
  <2>3. SignalInv'
    BY <1>1, <2>1, SignalInvKept
  <2>4. FlagsOK' /\ ScriptOK' /\ SignalsOK' /\ DockerOK'
    BY <1>1, <2>1, <2>2, <2>3, FlagsTyped, ScriptTyped, SignalsTyped, DockerTyped
  <2>5. LocalTypeOK'
    BY <2>4, Zenon DEF LocalTypeOK, FlagsOK, ScriptOK, SignalsOK, DockerOK
  <2> QED
    BY <1>1, <2>1, <2>3, <2>5, LiveInvKept, BoxInvKept, ResultInvKept DEF LocalInv
<1>2. CASE UNCHANGED localVars
  <2> USE DEF localVars, script, docker, rest
  <2>1. LocalTypeOK'
    <3>1. /\ conf' = conf /\ pc' = pc /\ job' = job /\ abortOn' = abortOn /\ sigints' = sigints
          /\ composePid' = composePid /\ tidied' = tidied /\ overall' = overall /\ code' = code
          /\ pending' = pending /\ sent' = sent /\ python' = python /\ compose' = compose
          /\ box' = box /\ secondary' = secondary /\ results' = results /\ links' = links
      BY <1>2
    <3>2. FlagsOK /\ ScriptOK /\ SignalsOK /\ DockerOK
      BY TypeParts DEF LocalInv
    <3>3. FlagsOK'
      BY <3>1, <3>2, Zenon DEF FlagsOK
    <3>4. ScriptOK' /\ SignalsOK' /\ DockerOK'
      BY <3>1, <3>2 DEF ScriptOK, SignalsOK, DockerOK
    <3> QED
      BY <3>3, <3>4, Zenon DEF LocalTypeOK, FlagsOK, ScriptOK, SignalsOK, DockerOK
  <2>2. SignalInv' /\ LiveInv'
    BY <1>2 DEF LocalInv, SignalInv, LiveInv, NoContainerLeft, Alive
  <2>3. BoxInv' /\ ResultInv'
    BY <1>2 DEF LocalInv, BoxInv, ResultInv, Live
  <2> QED
    BY <2>1, <2>2, <2>3 DEF LocalInv
<1> QED
  BY <1>1, <1>2

(* Where a container can be running, what is known of the results, and     *)
(* which links are there, at each step of the script.                      *)
THEOREM LocalInvariant == LocalSpec => []LocalInv
<1>1. LocalInit => LocalInv
  BY LocalInitGood
<1>2. LocalInv /\ [LocalNext]_localVars => LocalInv'
  BY LocalStepGood
<1> QED
  BY <1>1, <1>2, PTL DEF LocalSpec

(* The script's variables, the containers, results and links keep their    *)
(* types.                                                                  *)
THEOREM LocalTypeCorrect == LocalSpec => []LocalTypeOK
BY LocalInvariant, PTL DEF LocalInv

(* However the script is called and whenever signals arrive, a script that *)
(* ends by itself leaves no running container behind.                      *)
THEOREM LocalNoContainerLeft == LocalSpec => []NoContainerLeft
BY LocalInvariant, PTL DEF LocalInv, LiveInv

(* Exit status 0 means that every run was executed in exactly one job,      *)
(* which passed, and is linked to it, for any numbers of configurations,   *)
(* runs and runs per job.                                                  *)
THEOREM LocalZeroMeansAllPassed == LocalSpec => []ZeroMeansAllPassed
<1>1. ASSUME LocalInv
      PROVE  ZeroMeansAllPassed
  <2>1. ASSUME pc = "exited", code = "ok", NEW w \in WorkItems
        PROVE  \E j \in Jobs : results[j] = "passed" /\ {l \in links : l[1] = w} = {<<w, j>>}
    <3>1. links = Linked(NJobs) /\ \A k \in Jobs : results[k] = "passed"
      BY <1>1, <2>1 DEF LocalInv, ResultInv
    <3>2. PICK j \in Jobs : \A k \in Jobs : w \in ItemsOf(k) <=> k = j
      BY LocalPackedOnce
    <3>3. \A l : l \in links <=> \E k \in Jobs : \E v \in ItemsOf(k) : l = <<v, k>>
      BY <3>1 DEF Linked, Jobs
    <3>4. {l \in links : l[1] = w} = {<<w, j>>}
      BY <3>2, <3>3
    <3> QED
      BY <3>1, <3>4
  <2> QED
    BY <2>1 DEF ZeroMeansAllPassed
<1> QED
  BY <1>1, LocalInvariant, PTL
-----------------------------------------------------------------------------
(* Post-processing. *)

\* The fields of the command and of the task of a bag.
PostShapes ==
  /\ cmd = [pc |-> cmd.pc, force |-> cmd.force, steps |-> cmd.steps, at |-> cmd.at,
            written |-> cmd.written, entries |-> cmd.entries, ok |-> cmd.ok, todo |-> cmd.todo]
  /\ cmd.pc \in {"idle", "step", "pool", "db", "fill"} /\ cmd.at \in Nat \ {0}
  /\ DOMAIN pool = Bags
  /\ \A b \in Bags : pool[b] = [st |-> pool[b].st, key |-> pool[b].key, seen |-> pool[b].seen,
                                active |-> pool[b].active, good |-> pool[b].good]

\* The files and what the users of the results keep about them.
PostFiles ==
  /\ version \in [Bags -> Nat \ {0}] /\ out \in [Bags -> [Handlers -> Nat]]
  /\ db \in [Bags -> [Handlers -> Nat]]
  /\ DOMAIN cache = {Dir[b] : b \in Bags} /\ DOMAIN began = Bags
  /\ \A b \in Bags : began[b] \subseteq Handlers

\* A worker has the files of the bag open, or has ended them all.
Written(b) == pool[b].st \in {"open", "closed"}

\* What a worker knows of its bag: the fingerprint is not younger than what
\* it reads, and that is not younger than the bag.
TaskOf(b) ==
  /\ pool[b].st # "none" => cmd.pc = "pool"
  /\ Written(b) => pool[b].seen \in 1 .. version[b] /\ began[b] = pool[b].active
  /\ pool[b].st = "closed" => \A h \in began[b] : out[b][h] \in MadeOf(h, pool[b].seen)
  /\ pool[b].st \in {"keyed", "open", "closed"} /\ ~cmd.force =>
       pool[b].key.bag = b /\ pool[b].key.version \in 1 .. version[b]
  /\ Written(b) /\ ~cmd.force => pool[b].key.version <= pool[b].seen
  /\ pool[b].good \subseteq pool[b].active
  /\ pool[b].st \in {"queued", "keyed", "open"} => pool[b].good = {}
  /\ cmd.pc = "pool" => pool[b].active \subseteq ToSet(Step.handlers)

\* A cache file names no version that its bag has not had.
CacheOf(b) ==
  \A d \in DOMAIN cache : cache[d].bag = b => cache[d].version \in 0 .. version[b]

\* What it vouches for is whole, and no worker is changing it.
WholeOf(b) ==
  b \notin spoiled /\ Vouched(b) => ~Written(b) /\ \A h \in began[b] : out[b][h] \in MadeOf(h, version[b])

\* The files that the call has made: those of the steps that have ended are
\* among its entries, those of this step among what its workers will report.
RecordedIn(entries, m) == \E e \in entries : e[2].bag = m[2] /\ e[2].made = m[3]
ToReport(m) ==
  /\ cmd.pc = "pool" /\ m[1] = cmd.at /\ m[2] \in Bags
  /\ pool[m[2]].st \in {"closed", "done", "lost"} /\ m[3] \in pool[m[2]].good
MadeInv ==
  /\ cmd.pc \in {"step", "pool"} =>
       \A m \in made : ToReport(m) \/ (m[1] \in 1 .. cmd.at - 1 /\ RecordedIn(cmd.entries, m))
  /\ cmd.pc \in {"db", "fill"} => \A m \in made : RecordedIn(prov, m)
  /\ last.end \in {"ok", "failed"} => cmd.pc = "idle"
  /\ MadeIsRecorded

DbInv ==
  /\ last.db => cmd.pc = "idle"
  /\ cmd.pc = "fill" =>
       /\ cmd.todo \subseteq Newest
       /\ \A b \in Newest \ cmd.todo, h \in Handlers : db[b][h] \in {out[b][h], Absent}
  /\ DbRowsCurrent

PostInv ==
  /\ PostShapes /\ PostFiles /\ MadeInv /\ DbInv
  /\ \A b \in Bags : TaskOf(b) /\ CacheOf(b) /\ WholeOf(b)

\* Between two steps nobody works on a bag, and the files stay as they are.
LEMMA NoTasks ==
  ASSUME PostInv, UNCHANGED <<version, out, cache, began, spoiled>>, cmd'.pc # "pool",
         \A b \in Bags : pool'[b].st = "none" /\ pool'[b].good \subseteq pool'[b].active,
         NEW b \in Bags
  PROVE  TaskOf(b)' /\ CacheOf(b)' /\ WholeOf(b)'
<1>1. TaskOf(b)'
  BY DEF TaskOf, Written
<1>2. CacheOf(b)'
  BY DEF PostInv, CacheOf
<1>3. WholeOf(b)'
  BY DEF PostInv, WholeOf, Vouched, Written
<1> QED
  BY <1>1, <1>2, <1>3

LEMMA Unemployed ==
  ASSUME PostInv, cmd.pc # "pool", NEW b \in Bags
  PROVE  pool[b].st = "none" /\ pool[b].good \subseteq pool[b].active
BY DEF PostInv, TaskOf

\* The work on one bag leaves the other bags alone.
LEMMA OtherBag ==
  ASSUME PostInv, UNCHANGED <<cmd, version>>, NEW c \in Bags,
         pool'[c] = pool[c], out'[c] = out[c], began'[c] = began[c],
         c \notin spoiled' => c \notin spoiled,
         \/ cache'[Dir[c]] = cache[Dir[c]] \/ cache'[Dir[c]].bag # c
         \/ cache'[Dir[c]].version = 0
  PROVE  TaskOf(c)' /\ WholeOf(c)'
<1>1. TaskOf(c) /\ WholeOf(c) /\ version[c] \in Nat \ {0}
  BY DEF PostInv, PostFiles
<1>2. TaskOf(c)'
  BY <1>1 DEF TaskOf, Written, Step
<1>3. WholeOf(c)'
  BY <1>1 DEF WholeOf, Vouched, Written
<1> QED
  BY <1>2, <1>3

\* What a step of the pool makes is to be reported, and it forgets nothing.
LEMMA PoolStep ==
  ASSUME PostInv, UNCHANGED <<cmd, last, prov, db>>, cmd.pc = "pool",
         \A m \in made' : (m \in made => (ToReport(m) => ToReport(m)')) /\ (m \notin made => ToReport(m)')
  PROVE  MadeInv' /\ DbInv'
<1>1. MadeInv'
  BY DEF PostInv, MadeInv, MadeIsRecorded, RecordedIn
<1>2. DbInv'
  BY DEF PostInv, DbInv, DbRowsCurrent
<1> QED
  BY <1>1, <1>2

\* The task of a bag changes, and not its shape.
Shaped(t) == t = [st |-> t.st, key |-> t.key, seen |-> t.seen, active |-> t.active, good |-> t.good]

LEMMA TaskSet ==
  ASSUME PostInv, NEW b \in Bags, NEW t, Shaped(t), UNCHANGED cmd,
         pool' = [pool EXCEPT ![b] = t]
  PROVE  PostShapes' /\ pool'[b] = t /\ \A c \in Bags : c # b => pool'[c] = pool[c]
<1>1. /\ DOMAIN pool' = Bags /\ pool'[b] = t
      /\ \A c \in Bags : c # b => pool'[c] = pool[c]
  BY DEF PostInv, PostShapes
<1>2. \A c \in Bags : Shaped(pool'[c])
  BY <1>1 DEF PostInv, PostShapes, Shaped
<1> QED
  BY <1>1, <1>2 DEF PostInv, PostShapes, Shaped

LEMMA BagOf ==
  ASSUME PostInv, NEW b \in Bags
  PROVE  /\ PostShapes /\ PostFiles /\ TaskOf(b) /\ CacheOf(b) /\ WholeOf(b)
         /\ version[b] \in Nat \ {0} /\ began[b] \subseteq Handlers /\ Dir[b] \in DOMAIN cache
BY DEF PostInv, PostFiles

LEMMA RecordStep ==
  ASSUME PostInv, NEW b \in Bags, Record(b)
  PROVE  PostInv'
<1>1. /\ UNCHANGED <<files, cmd, pool, last, history>>
      /\ version' = [version EXCEPT ![b] = @ + 1]
  BY DEF Record
<1>2. version'[b] = version[b] + 1 /\ \A c \in Bags : c # b => version'[c] = version[c]
  BY <1>1, BagOf DEF PostFiles
<1>3. PostShapes' /\ MadeInv' /\ DbInv'
  BY <1>1 DEF PostInv, PostShapes, MadeInv, DbInv, MadeIsRecorded, RecordedIn, ToReport,
              DbRowsCurrent, files, history
<1>4. PostFiles'
  <2>1. version' \in [Bags -> Nat \ {0}]
    BY <1>1 DEF PostInv, PostFiles
  <2> QED
    BY <1>1, <2>1 DEF PostInv, PostFiles, files, history
<1>5. ASSUME NEW c \in Bags PROVE TaskOf(c)' /\ CacheOf(c)' /\ WholeOf(c)'
  <2>1. version'[c] \in {version[c], version[c] + 1} /\ (c # b => version'[c] = version[c])
    BY <1>2
  <2>2. CacheOf(c)'
    BY <1>1, <2>1, BagOf DEF CacheOf, files
  <2>3. TaskOf(c)'
    BY <1>1, <2>1, BagOf DEF TaskOf, Written, Step, files, history
  <2>4. WholeOf(c)'
    <3>1. CASE c = b
      <4>1. cache[Dir[b]].bag = b => cache[Dir[b]].version # version'[b]
        BY <1>2, BagOf DEF CacheOf
      <4> QED
        BY <1>1, <3>1, <4>1 DEF WholeOf, Vouched, files
    <3>2. CASE c # b
      BY <1>1, <2>1, <3>2, BagOf DEF WholeOf, Vouched, Written, files, history
    <3> QED
      BY <3>1, <3>2
  <2> QED
    BY <2>2, <2>3, <2>4
<1> QED
  BY <1>3, <1>4, <1>5 DEF PostInv

-----------------------------------------------------------------------------
(* The workers.                                                            *)

\* What a worker does without touching a file: take a bag, give it up, die.
LEMMA TaskOnly ==
  ASSUME PostInv, NEW b \in Bags, NEW t, Shaped(t),
         cmd.pc = "pool", UNCHANGED <<version, files, cmd, last, history>>,
         pool' = [pool EXCEPT ![b] = t],
         t.seen = pool[b].seen, t.active = pool[b].active, t.good = pool[b].good,
         t.st \in {"keyed", "done", "lost"},
         t.st = "keyed" /\ ~cmd.force => t.key.bag = b /\ t.key.version \in 1 .. version[b],
         pool[b].st \in {"closed", "done", "lost"} => t.st \in {"done", "lost"},
         t.st = "keyed" => pool[b].st = "queued"
  PROVE  PostInv'
<1>1. UNCHANGED <<out, cache, prov, db, began, spoiled, made>>
  BY DEF files, history
<1>2. PostShapes' /\ pool'[b] = t /\ \A c \in Bags : c # b => pool'[c] = pool[c]
  BY TaskSet
<1>3. PostFiles'
  BY <1>1 DEF PostInv, PostFiles
<1>4. \A m \in made : ToReport(m) => ToReport(m)'
  BY <1>2 DEF ToReport
<1>5. MadeInv' /\ DbInv'
  BY <1>1, <1>4, PoolStep
<1>6. TaskOf(b)'
  <2>1. TaskOf(b) /\ Step' = Step
    BY BagOf DEF Step
  <2> QED
    BY <1>1, <1>2, <2>1 DEF TaskOf, Written
<1>7. WholeOf(b)'
  BY <1>1, <1>2, BagOf DEF WholeOf, Vouched, Written
<1>8. \A c \in Bags : c # b => TaskOf(c)' /\ WholeOf(c)'
  BY <1>1, <1>2, OtherBag
<1>9. \A c \in Bags : CacheOf(c)'
  BY <1>1, BagOf DEF CacheOf
<1> QED
  BY <1>2, <1>3, <1>5, <1>6, <1>7, <1>8, <1>9 DEF PostInv

LEMMA ShapedTask ==
  ASSUME PostInv, NEW b \in Bags
  PROVE  Shaped(pool[b])
BY DEF PostInv, PostShapes, Shaped

LEMMA TakeStep ==
  ASSUME PostInv, NEW b \in Bags, Take(b)
  PROVE  PostInv'
<1> DEFINE hit == ~cmd.force /\ cache[Dir[b]] = TakeKey(b)
<1>1. PICK key : key = TakeKey(b)
  OBVIOUS
<1>2. PICK st \in {"done", "keyed"} : st = IF hit THEN "done" ELSE "keyed"
  OBVIOUS
<1>3. /\ cmd.pc = "pool" /\ pool[b].st = "queued"
      /\ UNCHANGED <<version, files, cmd, last, history>>
      /\ pool' = [pool EXCEPT ![b].st = st, ![b].key = key]
  BY <1>1, <1>2 DEF Take, Doing, CmdAt
<1>4. ~cmd.force => key.bag = b /\ key.version = version[b]
  BY <1>1 DEF TakeKey, Fingerprint
<1> HIDE DEF hit
<1>5. PICK t : t = [pool[b] EXCEPT !.st = st, !.key = key]
  OBVIOUS
<1>6. /\ Shaped(t) /\ t.st = st /\ t.key = key
      /\ t.seen = pool[b].seen /\ t.active = pool[b].active /\ t.good = pool[b].good
  <2>1. Shaped(pool[b])
    BY ShapedTask
  <2>2. [pool[b] EXCEPT !.st = st] = [st |-> st, key |-> pool[b].key, seen |-> pool[b].seen,
                                      active |-> pool[b].active, good |-> pool[b].good]
    BY <2>1 DEF Shaped
  <2>3. t = [[pool[b] EXCEPT !.st = st] EXCEPT !.key = key]
    BY <1>5
  <2>4. t = [st |-> st, key |-> key, seen |-> pool[b].seen,
             active |-> pool[b].active, good |-> pool[b].good]
    BY <2>2, <2>3
  <2> QED
    BY <2>4 DEF Shaped
<1>7. pool' = [pool EXCEPT ![b] = t]
  BY <1>3, <1>5
<1>8. key.bag = b /\ key.version = version[b] => key.version \in 1 .. version[b]
  BY BagOf
<1> QED
  BY <1>3, <1>4, <1>6, <1>7, <1>8, TaskOnly

LEMMA GiveUp ==
  ASSUME PostInv, NEW b \in Bags, NEW st \in {"done", "lost"},
         cmd.pc = "pool", UNCHANGED <<version, files, cmd, last, history>>,
         pool' = [pool EXCEPT ![b].st = st]
  PROVE  PostInv'
<1>1. PICK t : t = [pool[b] EXCEPT !.st = st]
  OBVIOUS
<1>2. /\ Shaped(t) /\ t.st = st
      /\ t.seen = pool[b].seen /\ t.active = pool[b].active /\ t.good = pool[b].good
  <2>1. Shaped(pool[b])
    BY ShapedTask
  <2>2. t = [st |-> st, key |-> pool[b].key, seen |-> pool[b].seen,
             active |-> pool[b].active, good |-> pool[b].good]
    BY <1>1, <2>1 DEF Shaped
  <2> QED
    BY <2>2 DEF Shaped
<1>3. pool' = [pool EXCEPT ![b] = t]
  BY <1>1
<1> QED
  BY <1>2, <1>3, TaskOnly

LEMMA OpenFailsStep ==
  ASSUME PostInv, NEW b \in Bags, OpenFails(b)
  PROVE  PostInv'
BY GiveUp DEF OpenFails, Doing, CmdAt

LEMMA WorkerDiesStep ==
  ASSUME PostInv, NEW b \in Bags, WorkerDies(b)
  PROVE  PostInv'
BY GiveUp DEF WorkerDies, Doing, CmdAt

LEMMA OpenStep ==
  ASSUME PostInv, NEW b \in Bags, NEW hs \in SUBSET Handlers, hs \subseteq ToSet(Step.handlers),
         Open(b, hs)
  PROVE  PostInv'
<1>1. /\ cmd.pc = "pool" /\ pool[b].st = "keyed"
      /\ pool' = [pool EXCEPT ![b].st = "open", ![b].seen = version[b], ![b].active = hs]
      /\ out' = [out EXCEPT ![b] = [h \in Handlers |-> IF h \in hs THEN Half ELSE @[h]]]
      /\ began' = [began EXCEPT ![b] = hs]
      /\ UNCHANGED <<version, cache, prov, db, cmd, last, made>>
  BY DEF Open, Doing, CmdAt
<1>2. spoiled' = IF Vouched(b) THEN spoiled \cup {b} ELSE spoiled
  BY DEF Open
<1>3. PICK t : t = [pool[b] EXCEPT !.st = "open", !.seen = version[b], !.active = hs]
  OBVIOUS
<1>4. /\ Shaped(t) /\ t.st = "open" /\ t.key = pool[b].key
      /\ t.seen = version[b] /\ t.active = hs /\ t.good = {}
  <2>1. Shaped(pool[b]) /\ pool[b].good = {}
    BY <1>1, ShapedTask, BagOf DEF TaskOf
  <2>2. [pool[b] EXCEPT !.st = "open"]
          = [st |-> "open", key |-> pool[b].key, seen |-> pool[b].seen,
             active |-> pool[b].active, good |-> pool[b].good]
    BY <2>1 DEF Shaped
  <2>3. t = [[[pool[b] EXCEPT !.st = "open"] EXCEPT !.seen = version[b]] EXCEPT !.active = hs]
    BY <1>3
  <2>4. t = [st |-> "open", key |-> pool[b].key, seen |-> version[b],
             active |-> hs, good |-> pool[b].good]
    BY <2>2, <2>3
  <2> QED
    BY <2>1, <2>4 DEF Shaped
<1>5. pool' = [pool EXCEPT ![b] = t]
  BY <1>1, <1>3
<1>6. PostShapes' /\ pool'[b] = t /\ \A c \in Bags : c # b => pool'[c] = pool[c]
  BY <1>1, <1>4, <1>5, TaskSet
<1>7. /\ DOMAIN began' = Bags /\ began'[b] = hs
      /\ \A c \in Bags : c # b => began'[c] = began[c] /\ out'[c] = out[c]
  BY <1>1 DEF PostInv, PostFiles
<1>8. PostFiles'
  <2>1. out \in [Bags -> [Handlers -> Nat]] /\ Half \in Nat
    BY PostprocessingAssumption DEF PostInv, PostFiles, Half
  <2>2. [h \in Handlers |-> IF h \in hs THEN Half ELSE out[b][h]] \in [Handlers -> Nat]
    BY <2>1
  <2>3. out' \in [Bags -> [Handlers -> Nat]]
    BY <1>1, <2>1, <2>2
  <2>4. \A c \in Bags : began'[c] \subseteq Handlers
    BY <1>7 DEF PostInv, PostFiles
  <2> QED
    BY <1>1, <1>7, <2>3, <2>4 DEF PostInv, PostFiles
<1>9. \A m \in made : ToReport(m) => ToReport(m)'
  BY <1>1, <1>6 DEF ToReport
<1>10. MadeInv' /\ DbInv'
  BY <1>1, <1>9, PoolStep
<1>11. TaskOf(b)'
  <2>1. version[b] \in 1 .. version[b]
    BY BagOf
  <2>2. ~cmd.force => /\ pool[b].key.bag = b /\ pool[b].key.version \in 1 .. version[b]
                      /\ pool[b].key.version <= version[b]
    BY <1>1, <2>1, BagOf DEF TaskOf
  <2>3. Step' = Step
    BY <1>1 DEF Step
  <2>4. /\ pool'[b].st = "open" /\ pool'[b].seen = version'[b]
        /\ pool'[b].key = pool[b].key /\ pool'[b].active = hs /\ pool'[b].good = {}
        /\ began'[b] = hs /\ cmd' = cmd /\ version' = version
    BY <1>1, <1>4, <1>6, <1>7
  <2>5. /\ cmd'.pc = "pool" /\ pool'[b].seen \in 1 .. version'[b] /\ began'[b] = pool'[b].active
        /\ pool'[b].good \subseteq pool'[b].active /\ pool'[b].st # "closed"
        /\ pool'[b].active \subseteq ToSet(Step.handlers)'
    BY <1>1, <2>1, <2>3, <2>4
  <2>6. ~cmd'.force => /\ pool'[b].key.bag = b /\ pool'[b].key.version \in 1 .. version'[b]
                       /\ pool'[b].key.version <= pool'[b].seen
    BY <2>2, <2>4
  <2> QED
    BY <2>4, <2>5, <2>6 DEF TaskOf, Written
<1>12. WholeOf(b)'
  <2>1. Vouched(b)' => b \in spoiled'
    BY <1>1, <1>2 DEF Vouched
  <2> QED
    BY <2>1 DEF WholeOf
<1>13. \A c \in Bags : c # b => TaskOf(c)' /\ WholeOf(c)'
  BY <1>1, <1>2, <1>6, <1>7, OtherBag
<1>14. \A c \in Bags : CacheOf(c)'
  BY <1>1, BagOf DEF CacheOf
<1> QED
  BY <1>6, <1>8, <1>10, <1>11, <1>12, <1>13, <1>14 DEF PostInv

LEMMA EndHandlersStep ==
  ASSUME PostInv, NEW b \in Bags, NEW hs \in SUBSET Handlers, EndHandlers(b, hs)
  PROVE  PostInv'
<1>1. /\ cmd.pc = "pool" /\ pool[b].st = "open" /\ hs \subseteq pool[b].active
      /\ \E gaps \in SUBSET (hs \cap Lossy) :
           out' = [out EXCEPT ![b] = [h \in Handlers |->
                     CASE h \in gaps -> Gappy(pool[b].seen)
                       [] h \in hs \ gaps -> pool[b].seen
                       [] OTHER -> @[h]]]
      /\ made' = made \cup {<<cmd.at, b, h>> : h \in hs}
      /\ UNCHANGED <<version, cache, prov, db, cmd, last, began, spoiled>>
  BY DEF EndHandlers, Doing, CmdAt
<1>0. PICK gaps \in SUBSET (hs \cap Lossy) :
        out' = [out EXCEPT ![b] = [h \in Handlers |->
                  CASE h \in gaps -> Gappy(pool[b].seen)
                    [] h \in hs \ gaps -> pool[b].seen
                    [] OTHER -> @[h]]]
  BY <1>1
<1>2. PICK st \in {"closed", "done"} : st = IF hs = pool[b].active THEN "closed" ELSE "done"
  OBVIOUS
<1>3. PICK t : t = [pool[b] EXCEPT !.good = hs, !.st = st]
  OBVIOUS
<1>4. pool' = [pool EXCEPT ![b] = t]
  BY <1>2, <1>3 DEF EndHandlers
<1>5. /\ Shaped(t) /\ t.st = st /\ t.key = pool[b].key
      /\ t.seen = pool[b].seen /\ t.active = pool[b].active /\ t.good = hs
  <2>1. Shaped(pool[b])
    BY ShapedTask
  <2>2. [pool[b] EXCEPT !.good = hs]
          = [st |-> pool[b].st, key |-> pool[b].key, seen |-> pool[b].seen,
             active |-> pool[b].active, good |-> hs]
    BY <2>1 DEF Shaped
  <2>3. t = [[pool[b] EXCEPT !.good = hs] EXCEPT !.st = st]
    BY <1>3
  <2>4. t = [st |-> st, key |-> pool[b].key, seen |-> pool[b].seen,
             active |-> pool[b].active, good |-> hs]
    BY <2>2, <2>3
  <2> QED
    BY <2>4 DEF Shaped
<1>6. PostShapes' /\ pool'[b] = t /\ \A c \in Bags : c # b => pool'[c] = pool[c]
  BY <1>1, <1>4, <1>5, TaskSet
<1>7. \A c \in Bags : c # b => out'[c] = out[c]
  BY <1>0 DEF PostInv, PostFiles
<1>8. /\ TaskOf(b) /\ WholeOf(b) /\ Written(b) /\ began[b] = pool[b].active
      /\ pool[b].seen \in 1 .. version[b]
  BY <1>1, BagOf DEF TaskOf, Written
<1>9. pool[b].seen \in Nat /\ Gappy(pool[b].seen) \in Nat /\ out \in [Bags -> [Handlers -> Nat]] /\ began[b] \subseteq Handlers
  <2>1. version[b] \in Nat \ {0}
    BY BagOf
  <2>2. MaxVersion \in Nat
    BY PostprocessingAssumption
  <2> QED
    BY <1>8, <2>1, <2>2 DEF PostInv, PostFiles, Gappy
<1>10. /\ out'[b] = [h \in Handlers |-> CASE h \in gaps -> Gappy(pool[b].seen)
                                          [] h \in hs \ gaps -> pool[b].seen
                                          [] OTHER -> out[b][h]]
       /\ out'[b] \in [Handlers -> Nat]
  BY <1>0, <1>9
<1>11. PostFiles'
  <2>1. out' \in [Bags -> [Handlers -> Nat]]
    BY <1>0, <1>7, <1>9, <1>10
  <2> QED
    BY <1>1, <2>1 DEF PostInv, PostFiles
<1>12. \A m \in made : ToReport(m) => ToReport(m)'
  BY <1>1, <1>6 DEF ToReport
<1>13. \A h \in hs : ToReport(<<cmd.at, b, h>>)'
  BY <1>1, <1>5, <1>6 DEF ToReport
<1>14. MadeInv' /\ DbInv'
  BY <1>1, <1>12, <1>13, PoolStep
<1>15. TaskOf(b)'
  <2>1. st = "closed" => \A h \in began'[b] : out'[b][h] \in MadeOf(h, pool[b].seen)
    BY <1>0, <1>1, <1>2, <1>8, <1>9, <1>10 DEF MadeOf
  <2> QED
    BY <1>1, <1>2, <1>5, <1>6, <1>8, <2>1 DEF TaskOf, Written, Step
<1>16. WholeOf(b)'
  BY <1>1, <1>8 DEF WholeOf, Vouched
<1>17. \A c \in Bags : c # b => TaskOf(c)' /\ WholeOf(c)'
  BY <1>1, <1>6, <1>7, OtherBag
<1>18. \A c \in Bags : CacheOf(c)'
  BY <1>1, BagOf DEF CacheOf
<1> QED
  BY <1>6, <1>11, <1>14, <1>15, <1>16, <1>17, <1>18 DEF PostInv

\* The last thing a worker does: the cache file of the bag's directory.
LEMMA CacheWritten ==
  ASSUME PostInv, NEW b \in Bags, NEW k, cmd.pc = "pool", pool[b].st = "closed",
         cache' = [cache EXCEPT ![Dir[b]] = k],
         pool' = [pool EXCEPT ![b].st = "done"],
         UNCHANGED <<version, out, prov, db, cmd, last, began, made>>,
         k.bag \in Bags => k.version \in 0 .. version[k.bag],
         \A c \in Bags : c # b => /\ c \in spoiled' <=> c \in spoiled
                                  /\ k = cache[Dir[b]] \/ k.bag # c \/ k.version = 0,
         b \notin spoiled' /\ k.bag = b /\ k.version = version[b] =>
           \A h \in began[b] : out[b][h] \in MadeOf(h, version[b])
  PROVE  PostInv'
<1>1. PICK t : t = [pool[b] EXCEPT !.st = "done"]
  OBVIOUS
<1>2. /\ Shaped(t) /\ t.st = "done"
      /\ t.seen = pool[b].seen /\ t.active = pool[b].active /\ t.good = pool[b].good
  <2>1. Shaped(pool[b])
    BY ShapedTask
  <2>2. t = [st |-> "done", key |-> pool[b].key, seen |-> pool[b].seen,
             active |-> pool[b].active, good |-> pool[b].good]
    BY <1>1, <2>1 DEF Shaped
  <2> QED
    BY <2>2 DEF Shaped
<1>3. pool' = [pool EXCEPT ![b] = t]
  BY <1>1
<1>4. PostShapes' /\ pool'[b] = t /\ \A c \in Bags : c # b => pool'[c] = pool[c]
  BY <1>2, <1>3, TaskSet
<1>5. /\ DOMAIN cache' = DOMAIN cache /\ cache'[Dir[b]] = k
      /\ \A d \in DOMAIN cache : d # Dir[b] => cache'[d] = cache[d]
  BY BagOf
<1>6. PostFiles'
  BY <1>5 DEF PostInv, PostFiles
<1>7. \A m \in made : ToReport(m) => ToReport(m)'
  BY <1>2, <1>4 DEF ToReport
<1>8. MadeInv' /\ DbInv'
  BY <1>7, PoolStep
<1>9. TaskOf(b)'
  <2>1. TaskOf(b) /\ Step' = Step
    BY BagOf DEF Step
  <2> QED
    BY <1>2, <1>4, <2>1 DEF TaskOf, Written
<1>10. WholeOf(b)'
  BY <1>2, <1>4, <1>5 DEF WholeOf, Vouched, Written
<1>11. ASSUME NEW c \in Bags PROVE CacheOf(c)'
  BY <1>5, BagOf DEF CacheOf
<1>12. ASSUME NEW c \in Bags, c # b PROVE TaskOf(c)' /\ WholeOf(c)'
  <2>1. \/ cache'[Dir[c]] = cache[Dir[c]] \/ cache'[Dir[c]].bag # c
        \/ cache'[Dir[c]].version = 0
    BY <1>5, <1>12, BagOf
  <2> QED
    BY <1>4, <1>12, <2>1, OtherBag
<1> QED
  BY <1>4, <1>6, <1>8, <1>9, <1>10, <1>11, <1>12 DEF PostInv

LEMMA WriteCacheStep ==
  ASSUME PostInv, NEW b \in Bags, WriteCache(b)
  PROVE  PostInv'
<1>1. PICK k : k = IF cmd.force THEN Fingerprint(b) ELSE pool[b].key
  OBVIOUS
<1>2. /\ cmd.pc = "pool" /\ pool[b].st = "closed"
      /\ cache' = [cache EXCEPT ![Dir[b]] = k] /\ pool' = [pool EXCEPT ![b].st = "done"]
      /\ UNCHANGED <<version, out, prov, db, cmd, last, began, made>>
  BY <1>1 DEF WriteCache, Doing, CmdAt
<1>3. spoiled' = IF cmd.force /\ pool[b].seen # version[b] THEN spoiled \cup {b} ELSE spoiled \ {b}
  BY DEF WriteCache
<1>4. /\ version[b] \in Nat \ {0} /\ pool[b].seen \in 1 .. version[b]
      /\ \A h \in began[b] : out[b][h] \in MadeOf(h, pool[b].seen)
      /\ ~cmd.force => /\ pool[b].key.bag = b /\ pool[b].key.version \in 1 .. version[b]
                       /\ pool[b].key.version <= pool[b].seen
  BY <1>2, BagOf DEF TaskOf, Written
<1>5. cmd.force => k.bag = b /\ k.version = version[b]
  BY <1>1 DEF Fingerprint
<1>6. ~cmd.force => k = pool[b].key
  BY <1>1
<1>7. k.bag = b /\ k.version \in 0 .. version[b]
  BY <1>4, <1>5, <1>6
<1>8. b \notin spoiled' /\ k.version = version[b] => pool[b].seen = version[b]
  BY <1>3, <1>4, <1>6
<1>9. b \notin spoiled' /\ k.bag = b /\ k.version = version[b] =>
        \A h \in began[b] : out[b][h] \in MadeOf(h, version[b])
  BY <1>4, <1>8
<1>10. \A c \in Bags : c # b => /\ c \in spoiled' <=> c \in spoiled
                                /\ k = cache[Dir[b]] \/ k.bag # c \/ k.version = 0
  BY <1>3, <1>7
<1>11. k.bag \in Bags => k.version \in 0 .. version[k.bag]
  BY <1>7
<1> QED
  BY <1>2, <1>9, <1>10, <1>11, CacheWritten

LEMMA WriteCacheFailsStep ==
  ASSUME PostInv, NEW b \in Bags, NEW left, WriteCacheFails(b, left)
  PROVE  PostInv'
<1>1. /\ cmd.pc = "pool" /\ pool[b].st = "closed"
      /\ cache' = [cache EXCEPT ![Dir[b]] = left] /\ pool' = [pool EXCEPT ![b].st = "done"]
      /\ UNCHANGED <<version, out, prov, db, cmd, last, began, made, spoiled>>
      /\ left = cache[Dir[b]] \/ left = NoKey
  BY DEF WriteCacheFails, Doing, CmdAt, history
<1>2. \A c \in Bags : version[c] \in Nat \ {0} /\ CacheOf(c) /\ Dir[b] \in DOMAIN cache
  BY BagOf
<1>3. left.bag \in Bags => left.version \in 0 .. version[left.bag]
  BY <1>1, <1>2 DEF CacheOf, NoKey
<1>4. left = cache[Dir[b]] \/ left.version = 0
  BY <1>1 DEF NoKey
<1>5. ASSUME b \notin spoiled, left.bag = b, left.version = version[b]
      PROVE  \A h \in began[b] : out[b][h] \in MadeOf(h, version[b])
  <2>1. left = cache[Dir[b]]
    BY <1>2, <1>4, <1>5
  <2> QED
    BY <1>5, <2>1, BagOf DEF WholeOf, Vouched
<1> QED
  BY <1>1, <1>3, <1>4, <1>5, CacheWritten

LEMMA ScanStep ==
  ASSUME PostInv, Scan
  PROVE  PostInv'
<1>1. /\ cmd.pc = "step" /\ cmd' = [cmd EXCEPT !.pc = "pool"]
      /\ pool' = [b \in Bags |-> IF BagDir[b] = Step.dir THEN [NoJob EXCEPT !.st = "queued"]
                                                         ELSE NoJob]
      /\ UNCHANGED <<version, out, cache, prov, db, last, began, spoiled, made>>
  BY DEF Scan, CmdAt, files, history
<1>2. PostShapes'
      /\ cmd'.pc = "pool" /\ cmd'.at = cmd.at /\ cmd'.entries = cmd.entries
  <2>1. /\ cmd' = [pc |-> "pool", force |-> cmd.force, steps |-> cmd.steps, at |-> cmd.at,
                   written |-> cmd.written, entries |-> cmd.entries, ok |-> cmd.ok,
                   todo |-> cmd.todo]
        /\ cmd.at \in Nat \ {0}
    BY <1>1 DEF PostInv, PostShapes
  <2>2. \A b \in Bags : Shaped(pool'[b])
    BY <1>1 DEF Shaped, NoJob
  <2> QED
    BY <1>1, <2>1, <2>2 DEF PostShapes, Shaped
<1>3. \A b \in Bags : /\ pool'[b].st \in {"none", "queued"}
                      /\ pool'[b].good = {} /\ pool'[b].active = {}
  BY <1>1 DEF NoJob
<1>4. PostFiles'
  BY <1>1 DEF PostInv, PostFiles
<1>5. MadeInv' /\ DbInv'
  BY <1>1, <1>2 DEF PostInv, MadeInv, MadeIsRecorded, RecordedIn, ToReport, DbInv, DbRowsCurrent
<1>6. ASSUME NEW b \in Bags PROVE TaskOf(b)' /\ CacheOf(b)' /\ WholeOf(b)'
  <2>1. TaskOf(b)'
    BY <1>2, <1>3 DEF TaskOf, Written
  <2>2. CacheOf(b)' /\ WholeOf(b)'
    BY <1>1, <1>3, BagOf DEF CacheOf, WholeOf, Vouched, Written
  <2> QED
    BY <2>1, <2>2
<1> QED
  BY <1>2, <1>4, <1>5, <1>6 DEF PostInv

-----------------------------------------------------------------------------
(* The command between its steps.                                          *)

\* The command goes on and nobody works on a bag.
LEMMA CommandStep ==
  ASSUME PostInv, UNCHANGED <<version, out, cache, began, spoiled>>,
         db' \in [Bags -> [Handlers -> Nat]],
         cmd' = [pc |-> cmd'.pc, force |-> cmd'.force, steps |-> cmd'.steps, at |-> cmd'.at,
                 written |-> cmd'.written, entries |-> cmd'.entries, ok |-> cmd'.ok,
                 todo |-> cmd'.todo],
         cmd'.pc \in {"idle", "step", "db", "fill"}, cmd'.at \in Nat \ {0},
         (cmd.pc # "pool" /\ pool' = pool) \/ pool' = [b \in Bags |-> NoJob],
         MadeInv', DbInv'
  PROVE  PostInv'
<1>1. \A b \in Bags : Shaped(pool'[b]) /\ pool'[b].st = "none"
                      /\ pool'[b].good \subseteq pool'[b].active
  <2>1. CASE cmd.pc # "pool" /\ pool' = pool
    BY <2>1, Unemployed, ShapedTask
  <2>2. CASE pool' = [b \in Bags |-> NoJob]
    BY <2>2 DEF Shaped, NoJob
  <2> QED
    BY <2>1, <2>2
<1>2. PostShapes'
  BY <1>1 DEF PostInv, PostShapes, Shaped
<1>3. PostFiles'
  BY DEF PostInv, PostFiles
<1>4. \A b \in Bags : TaskOf(b)' /\ CacheOf(b)' /\ WholeOf(b)'
  BY <1>1, NoTasks
<1> QED
  BY <1>2, <1>3, <1>4 DEF PostInv

CmdShaped(c) ==
  c = [pc |-> c.pc, force |-> c.force, steps |-> c.steps, at |-> c.at,
       written |-> c.written, entries |-> c.entries, ok |-> c.ok, todo |-> c.todo]

LEMMA ShapedCmd ==
  ASSUME PostInv
  PROVE  /\ CmdShaped(cmd) /\ CmdShaped(Idle) /\ Idle.pc = "idle" /\ Idle.at = 1
         /\ cmd.at \in Nat \ {0}
BY DEF PostInv, PostShapes, CmdShaped, Idle

LEMMA AdvanceIs ==
  ASSUME PostInv, NEW ok
  PROVE  /\ CmdShaped(Advance(ok)) /\ Advance(ok).pc = "step"
         /\ Advance(ok).at = cmd.at + 1 /\ Advance(ok).entries = cmd.entries
         /\ cmd.at + 1 \in Nat \ {0} /\ cmd.at = (cmd.at + 1) - 1
<1>1. PICK good : good = (cmd.ok /\ ok)
  OBVIOUS
<1>2. PICK n : n = cmd.at + 1
  OBVIOUS
<1>3. Advance(ok) = [[[cmd EXCEPT !.pc = "step"] EXCEPT !.at = n] EXCEPT !.ok = good]
  BY <1>1, <1>2, ShapedCmd DEF Advance, CmdShaped
<1>4. /\ CmdShaped([cmd EXCEPT !.pc = "step"]) /\ [cmd EXCEPT !.pc = "step"].pc = "step"
      /\ [cmd EXCEPT !.pc = "step"].entries = cmd.entries
  BY ShapedCmd DEF CmdShaped
<1>5. PICK c : c = [cmd EXCEPT !.pc = "step"]
  OBVIOUS
<1>6. PICK d : d = [c EXCEPT !.at = n]
  OBVIOUS
<1>7. CmdShaped(d) /\ d.pc = "step" /\ d.entries = cmd.entries /\ d.at = n
  BY <1>4, <1>5, <1>6 DEF CmdShaped
<1>8. Advance(ok) = [d EXCEPT !.ok = good]
  BY <1>3, <1>5, <1>6
<1>9. /\ CmdShaped([d EXCEPT !.ok = good]) /\ [d EXCEPT !.ok = good].pc = "step"
      /\ [d EXCEPT !.ok = good].entries = cmd.entries /\ [d EXCEPT !.ok = good].at = n
  BY <1>7 DEF CmdShaped
<1> QED
  BY <1>2, <1>8, <1>9, ShapedCmd

LEMMA CallStep ==
  ASSUME PostInv, NEW force, NEW skip, Call(force, skip)
  PROVE  PostInv'
<1>1. /\ cmd.pc = "idle" /\ last' = [end |-> "none", db |-> FALSE] /\ made' = {}
      /\ UNCHANGED <<version, out, cache, prov, db, pool, began, spoiled>>
      /\ cmd' = [Idle EXCEPT !.pc = "step", !.force = force, !.steps = Batch(skip)]
  BY DEF Call, CmdAt, files
<1>2. CmdShaped(cmd') /\ cmd'.pc = "step" /\ cmd'.at = 1
  BY <1>1 DEF CmdShaped, Idle
<1>3. MadeInv' /\ DbInv'
  BY <1>1, <1>2 DEF MadeInv, MadeIsRecorded, DbInv, DbRowsCurrent
<1> QED
  BY <1>1, <1>2, <1>3, CommandStep DEF CmdShaped, PostInv, PostFiles

\* A step ends: what it made is among the entries, or nobody counts it.
LEMMA NextStep ==
  ASSUME PostInv, UNCHANGED <<version, out, cache, prov, db, last, began, spoiled>>,
         cmd.pc \in {"step", "pool"}, CmdShaped(cmd'), cmd'.pc = "step", cmd'.at = cmd.at + 1,
         (cmd.pc # "pool" /\ pool' = pool) \/ pool' = [b \in Bags |-> NoJob],
         \A m \in made' : /\ m \in made /\ (ToReport(m) => RecordedIn(cmd'.entries, m))
                          /\ RecordedIn(cmd.entries, m) => RecordedIn(cmd'.entries, m)
  PROVE  PostInv'
<1>1. cmd.at \in Nat \ {0} /\ cmd.at + 1 \in Nat \ {0}
  BY ShapedCmd
<1>2. ASSUME NEW m \in made'
      PROVE  m[1] \in 1 .. cmd.at /\ RecordedIn(cmd'.entries, m)
  <2>1. CASE ToReport(m)
    BY <1>1, <1>2, <2>1 DEF ToReport
  <2>2. CASE ~ToReport(m)
    <3>1. m[1] \in 1 .. cmd.at - 1 /\ RecordedIn(cmd.entries, m)
      BY <1>2, <2>2 DEF PostInv, MadeInv
    <3> QED
      BY <1>1, <1>2, <3>1
  <2> QED
    BY <2>1, <2>2
<1>3. cmd'.at - 1 = cmd.at
  BY <1>1
<1>4. MadeInv'
  BY <1>2, <1>3 DEF PostInv, MadeInv, MadeIsRecorded, RecordedIn
<1>5. DbInv'
  BY DEF PostInv, DbInv, DbRowsCurrent
<1> QED
  BY <1>1, <1>4, <1>5, CommandStep DEF CmdShaped, PostInv, PostFiles

LEMMA OtherStepKeeps ==
  ASSUME PostInv, NEW ok, OtherStep(ok)
  PROVE  PostInv'
<1>1. /\ cmd.pc = "step" /\ cmd' = Advance(ok)
      /\ UNCHANGED <<version, out, cache, prov, db, pool, last, began, spoiled, made>>
  BY DEF OtherStep, CmdAt, files, history
<1> QED
  BY <1>1, AdvanceIs, NextStep DEF ToReport

LEMMA RaiseStep ==
  ASSUME PostInv, NEW b, Raise(b)
  PROVE  PostInv'
<1>1. /\ cmd.pc = "pool" /\ cmd' = Advance(FALSE) /\ pool' = [c \in Bags |-> NoJob]
      /\ made' = {m \in made : m[1] # cmd.at}
      /\ UNCHANGED <<version, out, cache, prov, db, last, began, spoiled>>
  BY DEF Raise, Doing, CmdAt, files
<1> QED
  BY <1>1, AdvanceIs, NextStep DEF ToReport

\* Every file that the workers of a step made is reported.
LEMMA ReportedAll ==
  ASSUME PostInv, NEW m, ToReport(m)
  PROVE  \E e \in Reported : e.bag = m[2] /\ e.made = m[3]
<1>1. m[2] \in Bags /\ m[3] \in pool[m[2]].good /\ m[3] \in ToSet(Step.handlers)
  BY DEF ToReport, PostInv, TaskOf
<1>2. PICK i \in DOMAIN Step.handlers : Step.handlers[i] = m[3]
  BY <1>1 DEF ToSet
<1> DEFINE e == [bag |-> m[2], made |-> Step.handlers[i], as |-> Step.handlers[ResultNo(m[2], i)]]
<1>3. e \in Reported
  BY <1>1, <1>2 DEF Reported
<1> QED
  BY <1>2, <1>3

LEMMA EndStepKeeps ==
  ASSUME PostInv, EndStep
  PROVE  PostInv'
<1>1. PICK written : written = cmd.written \cup Reported
  OBVIOUS
<1>2. /\ cmd.pc = "pool" /\ pool' = [b \in Bags |-> NoJob]
      /\ cmd' = [Advance(TRUE) EXCEPT !.written = written,
                   !.entries = @ \cup {<<cmd.at, e>> : e \in written}]
      /\ UNCHANGED <<version, out, cache, prov, db, last, began, spoiled, made>>
  BY <1>1 DEF EndStep, PoolDone, CmdAt, files, history
<1>3. PICK c : c = Advance(TRUE)
  OBVIOUS
<1>4. /\ CmdShaped(cmd') /\ cmd'.pc = "step" /\ cmd'.at = cmd.at + 1
      /\ cmd'.entries = cmd.entries \cup {<<cmd.at, e>> : e \in written}
  <2>1. CmdShaped(c) /\ c.pc = "step" /\ c.at = cmd.at + 1 /\ c.entries = cmd.entries
    BY <1>3, AdvanceIs
  <2>2. PICK more : more = cmd.entries \cup {<<cmd.at, e>> : e \in written}
    OBVIOUS
  <2>3. cmd' = [[c EXCEPT !.written = written] EXCEPT !.entries = more]
    BY <1>2, <1>3, <2>1, <2>2 DEF CmdShaped
  <2>4. PICK d : d = [c EXCEPT !.written = written]
    OBVIOUS
  <2>5. CmdShaped(d) /\ d.pc = "step" /\ d.at = cmd.at + 1
    BY <2>1, <2>4 DEF CmdShaped
  <2>6. cmd' = [d EXCEPT !.entries = more]
    BY <2>3, <2>4
  <2> QED
    BY <2>2, <2>5, <2>6 DEF CmdShaped
<1>5. ASSUME NEW m, ToReport(m) PROVE RecordedIn(cmd'.entries, m)
  <2>1. PICK e \in Reported : e.bag = m[2] /\ e.made = m[3]
    BY <1>5, ReportedAll
  <2>2. <<cmd.at, e>> \in cmd'.entries /\ <<cmd.at, e>>[2] = e
    BY <1>1, <1>4, <2>1
  <2> QED
    BY <2>1, <2>2 DEF RecordedIn
<1>6. \A m : RecordedIn(cmd.entries, m) => RecordedIn(cmd'.entries, m)
  BY <1>4 DEF RecordedIn
<1> QED
  BY <1>2, <1>4, <1>5, <1>6, NextStep

\* The files of the results stay, and so does what the command has made.
LEMMA Later ==
  ASSUME PostInv, UNCHANGED <<version, out, cache, began, spoiled, pool>>, cmd.pc # "pool",
         CmdShaped(cmd'), cmd'.pc \in {"idle", "db", "fill"}, cmd'.at \in Nat \ {0},
         db' \in [Bags -> [Handlers -> Nat]], MadeInv', DbInv'
  PROVE  PostInv'
BY CommandStep DEF CmdShaped

LEMMA ProvenanceStep ==
  ASSUME PostInv, WriteProvenance \/ ProvenanceFails
  PROVE  PostInv'
<1>1. /\ cmd.pc = "step" /\ cmd' = [cmd EXCEPT !.pc = "db"]
      /\ UNCHANGED <<version, out, cache, db, pool, last, began, spoiled>>
      /\ \/ prov' = cmd.entries /\ made' = made
         \/ prov' = prov /\ made' = {}
  BY DEF WriteProvenance, ProvenanceFails, CmdAt, files, history
<1>2. CmdShaped(cmd') /\ cmd'.pc = "db" /\ cmd'.at = cmd.at
  BY <1>1, ShapedCmd DEF CmdShaped
<1>3. \A m \in made : RecordedIn(cmd.entries, m)
  BY <1>1 DEF PostInv, MadeInv, ToReport
<1>4. MadeInv'
  BY <1>1, <1>2, <1>3 DEF PostInv, MadeInv, MadeIsRecorded, RecordedIn
<1>5. DbInv'
  BY <1>1, <1>2 DEF PostInv, DbInv, DbRowsCurrent
<1> QED
  BY <1>1, <1>2, <1>4, <1>5, ShapedCmd, Later DEF PostInv, PostFiles

LEMMA NewDbStep ==
  ASSUME PostInv, NewDb
  PROVE  PostInv'
<1>1. /\ cmd.pc = "db" /\ cmd' = [cmd EXCEPT !.pc = "fill", !.todo = Newest]
      /\ UNCHANGED <<version, out, cache, prov, pool, last, began, spoiled, made>>
      /\ db' = [b \in Bags |-> IF b \in Newest THEN NoRows ELSE db[b]]
  BY DEF NewDb, CmdAt, history
<1>2. CmdShaped(cmd') /\ cmd'.pc = "fill" /\ cmd'.at = cmd.at /\ cmd'.todo = Newest
  BY <1>1, ShapedCmd DEF CmdShaped
<1>3. db' \in [Bags -> [Handlers -> Nat]]
  BY <1>1 DEF PostInv, PostFiles, NoRows, Absent
<1>4. MadeInv'
  BY <1>1, <1>2 DEF PostInv, MadeInv, MadeIsRecorded, RecordedIn
<1>5. DbInv'
  BY <1>1, <1>2 DEF PostInv, DbInv, DbRowsCurrent
<1> QED
  BY <1>1, <1>2, <1>3, <1>4, <1>5, ShapedCmd, Later

LEMMA FillDbStep ==
  ASSUME PostInv, NEW b \in Bags, FillDb(b)
  PROVE  PostInv'
<1>1. PICK todo : todo = cmd.todo \ {b}
  OBVIOUS
<1>2. /\ cmd.pc = "fill" /\ cmd' = [cmd EXCEPT !.todo = todo]
      /\ UNCHANGED <<version, out, cache, prov, pool, last, began, spoiled, made>>
  BY <1>1 DEF FillDb, CmdAt, history
<1>3. PICK unread :
        db' = [db EXCEPT ![b] = [h \in Handlers |-> IF h \in unread THEN Absent ELSE out[b][h]]]
  BY DEF FillDb
<1>4. CmdShaped(cmd') /\ cmd'.pc = "fill" /\ cmd'.at = cmd.at /\ cmd'.todo = todo
  BY <1>2, ShapedCmd DEF CmdShaped
<1>5. db' \in [Bags -> [Handlers -> Nat]]
  BY <1>3 DEF PostInv, PostFiles, Absent
<1>6. MadeInv'
  BY <1>2, <1>4 DEF PostInv, MadeInv, MadeIsRecorded, RecordedIn
<1>7. DbInv'
  <2>1. /\ ~last.db /\ cmd.todo \subseteq Newest
        /\ \A c \in Newest \ cmd.todo, h \in Handlers : db[c][h] \in {out[c][h], Absent}
    BY <1>2 DEF PostInv, DbInv
  <2>2. /\ \A h \in Handlers : db'[b][h] \in {out[b][h], Absent}
        /\ \A c \in Bags : c # b => db'[c] = db[c]
    BY <1>3 DEF PostInv, PostFiles
  <2>3. \A c \in Newest \ todo, h \in Handlers : db'[c][h] \in {out[c][h], Absent}
    BY <1>1, <2>1, <2>2, PostprocessingAssumption
  <2> QED
    BY <1>1, <1>2, <1>4, <2>1, <2>3 DEF DbInv, DbRowsCurrent
<1> QED
  BY <1>2, <1>4, <1>5, <1>6, <1>7, ShapedCmd, Later

LEMMA EndsCall ==
  ASSUME PostInv, SkipDb \/ DbRaises \/ Finish \/ Interrupt
  PROVE  PostInv'
<1>1. /\ cmd.pc # "idle" /\ cmd' = Idle
      /\ UNCHANGED <<version, out, cache, prov, db, began, spoiled>>
      /\ \/ cmd.pc # "pool" /\ pool' = pool
         \/ pool' = [b \in Bags |-> NoJob]
  BY DEF SkipDb, DbRaises, Finish, Interrupt, CmdAt, files, history
<1>2. \/ cmd.pc \in {"db", "fill"} /\ made' = made
      \/ last'.end \notin {"ok", "failed"} /\ made' = {}
  BY DEF SkipDb, DbRaises, Finish, Interrupt, CmdAt, history
<1>3. \/ last'.db = FALSE
      \/ cmd.pc = "fill" /\ cmd.todo = {}
  BY DEF SkipDb, DbRaises, Finish, Interrupt, CmdAt
<1>4. MadeInv'
  BY <1>1, <1>2, ShapedCmd DEF PostInv, MadeInv, MadeIsRecorded, RecordedIn
<1>5. DbInv'
  BY <1>1, <1>3, ShapedCmd DEF PostInv, DbInv, DbRowsCurrent
<1> QED
  BY <1>1, <1>4, <1>5, ShapedCmd, CommandStep DEF CmdShaped, PostInv, PostFiles

-----------------------------------------------------------------------------
LEMMA PostFirst ==
  ASSUME PostInit
  PROVE  PostInv
<1>1. /\ \A b \in Bags : version[b] = 1 /\ pool[b] = NoJob /\ began[b] = {}
      /\ DOMAIN pool = Bags /\ cmd = Idle /\ made = {} /\ last = [end |-> "none", db |-> FALSE]
      /\ \A d \in DOMAIN cache : cache[d] = NoKey
  BY DEF PostInit
<1>2. PostShapes
  BY <1>1 DEF PostShapes, NoJob, Idle
<1>3. PostFiles
  BY DEF PostInit, PostFiles, NoRows, Absent
<1>4. MadeInv /\ DbInv
  BY <1>1 DEF MadeInv, MadeIsRecorded, DbInv, DbRowsCurrent, Idle
<1>5. ASSUME NEW b \in Bags PROVE TaskOf(b) /\ CacheOf(b) /\ WholeOf(b)
  <2>1. TaskOf(b)
    BY <1>1 DEF TaskOf, Written, NoJob, Idle
  <2>2. CacheOf(b)
    BY <1>1 DEF CacheOf, NoKey
  <2>3. WholeOf(b)
    BY <1>1 DEF WholeOf, Written, NoJob
  <2> QED
    BY <2>1, <2>2, <2>3
<1> QED
  BY <1>2, <1>3, <1>4, <1>5 DEF PostInv

LEMMA PostStep ==
  ASSUME PostInv, [PostNext]_postVars
  PROVE  PostInv'
<1>1. CASE \E ok \in BOOLEAN : OtherStep(ok)
  BY <1>1, OtherStepKeeps
<1>2. CASE \E b \in Bags : Take(b) \/ WriteCache(b) \/ FillDb(b)
  BY <1>2, TakeStep, WriteCacheStep, FillDbStep
<1>3. CASE \E b \in Bags, hs \in SUBSET Handlers :
             Doing(b, "keyed") /\ hs \subseteq ToSet(Step.handlers) /\ Open(b, hs)
  BY <1>3, OpenStep
<1>4. CASE \E b \in Bags, hs \in SUBSET Handlers : EndHandlers(b, hs)
  BY <1>4, EndHandlersStep
<1>5. CASE \E force \in BOOLEAN, skip \in Skips : Call(force, skip)
  BY <1>5, CallStep
<1>6. CASE \E b \in Bags : Record(b) \/ OpenFails(b) \/ Raise(b) \/ WorkerDies(b)
  BY <1>6, RecordStep, OpenFailsStep, RaiseStep, WorkerDiesStep
<1>7. CASE \E b \in Bags, left \in Range(cache) \cup {NoKey} : WriteCacheFails(b, left)
  BY <1>7, WriteCacheFailsStep
<1>8. CASE UNCHANGED postVars
  BY <1>8 DEF postVars, PostInv, PostShapes, PostFiles, MadeInv, MadeIsRecorded, RecordedIn,
              ToReport, DbInv, DbRowsCurrent, TaskOf, Written, Step, CacheOf, WholeOf, Vouched
<1> QED
  BY <1>1, <1>2, <1>3, <1>4, <1>5, <1>6, <1>7, <1>8, ScanStep, EndStepKeeps, ProvenanceStep,
     EndsCall, NewDbStep DEF PostNext, Program

\* The command, its workers, the files and what vouches for them fit together
\* after any calls, failures, interruptions and growth of the bags.
THEOREM PostInvariant == PostSpec => []PostInv
<1>1. PostInit => PostInv
  BY PostFirst
<1>2. PostInv /\ [PostNext]_postVars => PostInv'
  BY PostStep
<1> QED
  BY <1>1, <1>2, PTL DEF PostSpec

\* A cache file that later calls believe vouches for files that were ended and
\* made from the bag as it is now, messages that the handlers passed over apart
\* (process_rosbag_worker, _bag_fingerprint).
THEOREM PostCachedIsCurrent == PostSpec => []CachedIsCurrent
<1>1. PostInv => CachedIsCurrent
  BY DEF PostInv, WholeOf, CachedIsCurrent
<1> QED
  BY <1>1, PostInvariant, PTL

\* What a call made, in the steps that did not raise, is in the provenance that
\* it leaves (run_postprocessing, main of rosbags_process).
THEOREM PostMadeIsRecorded == PostSpec => []MadeIsRecorded
<1>1. PostInv => MadeIsRecorded
  BY DEF PostInv, MadeInv
<1> QED
  BY <1>1, PostInvariant, PTL

\* After a call that filled it to the end, what data.db has of the newest
\* campaign it has from the files as they are: a file that could not be read is
\* missing, none is shown as it was before (generate_data_db).
THEOREM PostDbRowsCurrent == PostSpec => []DbRowsCurrent
<1>1. PostInv => DbRowsCurrent
  BY DEF PostInv, DbInv
<1> QED
  BY <1>1, PostInvariant, PTL
=============================================================================
