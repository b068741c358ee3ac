------------------------------ MODULE SearchLoop -------------------------------
(***************************************************************************)
(* The closed loop of a search campaign (execution/controller.py,          *)
(* _run_search and _run_search_batch) with the stop conditions of          *)
(* search/stopping.py and the scoring of search/evaluator.py: ask the      *)
(* strategy, run the parameter sets in groups of equal repetition count,   *)
(* score each from its result directory, tell the strategy, decide.        *)
(*                                                                         *)
(* A parameter set is an assignment and a repetition count.  The result    *)
(* directory of a run is <campaign>/<config>/<run> for all batches of the  *)
(* campaign, the config named by a short hash of the assignment: a set     *)
(* that is proposed again finds the results of its earlier evaluation      *)
(* there, and so does another set whose hash begins with the same twelve   *)
(* digits.  The campaign root and the storage hold the same results        *)
(* whenever the loop reads one of them.                                    *)
(***************************************************************************)
EXTENDS ProgressPoller, Sequences, FiniteSetsExt

CONSTANTS
    Ids,         \* the parameter assignments of the search space
    Names,       \* names of configurations
    Digest,      \* the name made from an assignment, cut from its hash
    PerBatch,    \* search.per_batch
    RepCounts,   \* the repetition counts a strategy or execution.runs gives
    ParamSets,   \* the parameter sets a strategy may propose
    Values,      \* the objective's values; the direction is maximize
    BatchLimits, \* the `batches' budgets there may be; 0 stands for none
    MaxBatches,  \* bound: batches of a search without a budget
    Patience,    \* no_improvement: patience
    MinDelta,    \* no_improvement: min_delta
    Target,      \* target_objective
    NoFile       \* model value: a run without a test.xml

ASSUME SearchAssumption ==
    /\ ParamSets \subseteq [id : Ids, reps : RepCounts]
    /\ ParamSets # {}
    /\ Digest \in [Ids -> Names]
    /\ PerBatch \in Nat \ {0}
    /\ BatchLimits \subseteq Nat
    /\ MaxBatches \in Nat
    /\ Patience \in Nat \ {0}
    /\ MinDelta \in Nat
    /\ Values \subseteq Nat
    /\ RepCounts \subseteq Nat \ {0}
    /\ NoFile \notin Nat
    /\ \E n \in RepCounts : \A m \in RepCounts : n >= m

\* No objective yet.
None == -1

\* Stands for the slots of the batches before.
Earlier == 0

Slots == 1 .. PerBatch
RunNumbers == 0 .. Max(RepCounts) - 1
Runs == Slots \X RunNumbers

\* An evaluation is for a slot's parameter set; its samples are the runs with a
\* test.xml in the directory that was scored, and who wrote them.
Evaluations ==
    [slot : Slots, id : Ids, samples : SUBSET (RunNumbers \X (Slots \cup {Earlier}))]
Kinds == {"none", "batches", "target_objective", "no_improvement", "other", "external"}

VARIABLES
    pc,        \* where the main thread is
    backend,   \* "docker" or "kubernetes"
    limit,     \* the `batches' budget of this search
    batch,     \* batches completed
    asked,     \* the parameter sets of the current batch
    todo,      \* repetition counts of the groups still to run
    pending,   \* slots and runs of the current group that have not ended
    delivered, \* history: slots and runs of this batch that wrote test.xml
    disk,      \* the slot whose run wrote test.xml, per configuration and run
    evals,     \* the evaluations of the current batch so far
    best,      \* best objective so far
    history,   \* _best_history of the stop conditions
    failed,    \* an exception is on its way
    ended,     \* kind of the criterion that ended the search
    scores     \* history: the best objective each batch reached by itself

loopVars == <<pc, backend, limit, batch, asked, todo, pending, delivered, disk, evals>>
stopVars == <<best, history, failed, ended>>
vars == <<progressVars, loopVars, stopVars, scores>>

LoopStates == {"ask", "baseline", "total", "none", "activate", "group", "run",
               "score", "deactivate", "all", "tell", "decide", "stopping", "done"}

TypeOK ==
    /\ ProgressTypeOK
    /\ pc \in LoopStates
    /\ backend \in {"docker", "kubernetes"}
    /\ batch \in Nat
    /\ asked \in [Slots -> ParamSets]
    /\ todo \subseteq RepCounts
    /\ limit \in BatchLimits
    /\ pending \subseteq Runs
    /\ delivered \subseteq Runs
    /\ disk \in [Names -> [RunNumbers -> Slots \cup {Earlier, NoFile}]]
    /\ evals \in Seq(Evaluations)
    /\ best \in Values \cup {None}
    /\ history \in Seq(Values)
    /\ failed \in BOOLEAN
    /\ ended \in Kinds
    /\ scores \in Seq(Values \cup {None})

Init ==
    /\ ProgressInit
    /\ backend \in {"docker", "kubernetes"}
    /\ polling => backend = "kubernetes"
    /\ pc = "ask"
    /\ batch = 0
    /\ asked = [s \in Slots |-> CHOOSE p \in ParamSets : TRUE]
    /\ todo = {}
    /\ limit \in BatchLimits
    /\ pending = {}
    /\ delivered = {}
    /\ disk = [c \in Names |-> [r \in RunNumbers |-> NoFile]]
    /\ evals = <<>>
    /\ best = None
    /\ history = <<>>
    /\ failed = FALSE
    /\ ended = "none"
    /\ scores = <<>>

Goto(from, to) == pc = from /\ pc' = to

\* The configuration, and so the result directory, of a slot's parameter set:
\* config_name_for.
ConfigName(s) == Digest[asked[s].id]

Reps == {asked[s].reps : s \in Slots}
Group(n) == {s \in Slots : asked[s].reps = n}

\* The runs of all sets of the batch: the sum of their repetition counts.
BatchRuns == Cardinality({x \in Runs : x[2] < asked[x[1]].reps})

\* The test.xml files of the campaign.
Stored == Cardinality({x \in Names \X RunNumbers : disk[x[1]][x[2]] # NoFile})

-----------------------------------------------------------------------------
(* One batch.                                                              *)

\* The strategy proposes; nothing keeps it from proposing a set twice.
Ask ==
    /\ Goto("ask", IF polling THEN "baseline" ELSE "group")
    /\ asked' \in [Slots -> ParamSets]
    /\ todo' = {asked'[s].reps : s \in Slots}
    /\ UNCHANGED <<progressVars, backend, limit, batch, pending, delivered, disk, evals, stopVars, scores>>

\* _begin_batch_progress, statement by statement.
BeginProgress ==
    /\ \/ Goto("baseline", "total") /\ TakeBaseline(Stored)
       \/ Goto("total", "none") /\ SetTotal(BatchRuns)
       \/ Goto("none", "activate") /\ PublishNone
       \/ Goto("activate", "group") /\ Activate
    /\ UNCHANGED <<backend, limit, batch, asked, todo, pending, delivered, disk, evals, stopVars, scores>>

\* Mutant: two sets of one name in a group are staged as one.
ComposesAny(n) == backend = "kubernetes" => Cardinality(Reps) = 1

\* Compose gives each set of the group one configuration; two sets of one name
\* are two configurations of one block, which it refuses.  Staging a batch with
\* several groups for Kubernetes fails on the slash in the job tag.
Composes(n) ==
    /\ \A s, t \in Group(n) : ConfigName(s) = ConfigName(t) => s = t
    /\ backend = "kubernetes" => Cardinality(Reps) = 1

\* backend.run_batch starts the smallest group.
RunGroup ==
    LET n == Min(todo) IN
    /\ todo # {}
    /\ Composes(n)
    /\ Goto("group", "run")
    /\ pending' = Group(n) \X (0 .. n - 1)
    /\ UNCHANGED <<progressVars, backend, limit, batch, asked, todo, delivered, disk, evals, stopVars, scores>>

\* A run ends and has written test.xml, or has not.
EndOfRun(x) ==
    /\ pc = "run"
    /\ x \in pending
    /\ pending' = pending \ {x}
    /\ \/ /\ disk' = [disk EXCEPT ![ConfigName(x[1])][x[2]] = x[1]]
          /\ delivered' = delivered \cup {x}
       \/ UNCHANGED <<disk, delivered>>
    /\ UNCHANGED <<progressVars, pc, backend, limit, batch, asked, todo, evals, stopVars, scores>>

EndGroup ==
    /\ Goto("run", "score")
    /\ pending = {}
    /\ UNCHANGED <<progressVars, backend, limit, batch, asked, todo, pending, delivered, disk, evals, stopVars, scores>>

\* completed_run_dirs of the result directory: every run there that has a
\* test.xml, whichever set and batch it is of.
Samples(c) == {<<r, disk[c][r]>> : r \in {q \in RunNumbers : disk[c][q] # NoFile}}

Evaluation(s) == [slot |-> s, id |-> asked[s].id, samples |-> Samples(ConfigName(s))]

\* The i-th slot of a group: the order is that of the proposals.
Nth(slots, i) == CHOOSE s \in slots : Cardinality({t \in slots : t <= s}) = i
EvaluationsOf(n) ==
    [i \in 1 .. Cardinality(Group(n)) |-> Evaluation(Nth(Group(n), i))]

\* Mutant: the list of evaluations starts anew with every group.
ScoreAnew ==
    /\ Goto("score", "group")
    /\ evals' = EvaluationsOf(Min(todo))
    /\ todo' = todo \ {Min(todo)}
    /\ UNCHANGED <<progressVars, backend, limit, batch, asked, pending, delivered, disk, stopVars, scores>>

\* Postprocessing, then the extractor for each set of the group, in their order.
Score ==
    /\ Goto("score", "group")
    /\ evals' = evals \o EvaluationsOf(Min(todo))
    /\ todo' = todo \ {Min(todo)}
    /\ UNCHANGED <<progressVars, backend, limit, batch, asked, pending, delivered, disk, stopVars, scores>>

\* What lies in the directories is of an earlier batch once no evaluation of
\* this one is left to make.
Aged(d) ==
    [c \in Names |->
        [r \in RunNumbers |-> IF d[c][r] = NoFile THEN NoFile ELSE Earlier]]

AfterGroups(raised) ==
    IF polling THEN "deactivate" ELSE IF raised THEN "stopping" ELSE "tell"

EndGroups ==
    /\ Goto("group", AfterGroups(failed))
    /\ todo = {}
    /\ UNCHANGED <<progressVars, backend, limit, batch, asked, todo, pending, delivered, disk, evals, stopVars, scores>>

\* Composing, running, postprocessing or scoring raises.
RaiseInBatch ==
    /\ pc \in {"group", "run", "score"}
    /\ todo # {}
    /\ failed' = TRUE
    /\ pc' = AfterGroups(TRUE)
    /\ pending' = {}
    /\ todo' = {}
    /\ evals' = <<>>
    /\ delivered' = {}
    /\ disk' = Aged(disk)
    /\ UNCHANGED <<progressVars, backend, limit, batch, asked, best, history, ended, scores>>

\* _end_batch_progress, in the finally clause.
EndProgress ==
    /\ \/ Goto("deactivate", "all") /\ Deactivate
       \/ Goto("all", IF failed THEN "stopping" ELSE "tell") /\ PublishAll
    /\ UNCHANGED <<backend, limit, batch, asked, todo, pending, delivered, disk, evals, stopVars, scores>>

-----------------------------------------------------------------------------
(* The stop conditions.                                                    *)

Improved(recent, past) == recent > past + MinDelta

\* Mutant: the criterion compares with the batch after the window.
NoImprovementShort(h) ==
    /\ Len(h) >= Patience
    /\ ~Improved(h[Len(h)], h[Len(h) + 1 - Patience])

\* _fired: the best value against the one `patience' batches ago.
NoImprovement(h) ==
    /\ Len(h) > Patience
    /\ ~Improved(h[Len(h)], h[Len(h) - Patience])

BatchesSpent(n) == limit # 0 /\ n >= limit

\* _record: the best so far, once there is one.
Record(h) == IF best = None THEN h ELSE Append(h, best)

\* The first criterion that fires; time and metric criteria may fire anywhere
\* in the list.
FirstFired(h) ==
    CASE BatchesSpent(batch) -> "batches"
      [] ~BatchesSpent(batch) /\ best # None /\ best >= Target -> "target_objective"
      [] ~BatchesSpent(batch) /\ ~(best # None /\ best >= Target) /\ NoImprovement(h) -> "no_improvement"
      [] OTHER -> "none"

\* strategy.tell and _update_best.
Tell ==
    /\ Goto("tell", "decide")
    /\ batch' = batch + 1
    /\ \E v \in Values \cup {None} :
         /\ best' = Max({best, v})
         /\ scores' = Append(scores, v)
    /\ evals' = <<>>
    /\ delivered' = {}
    /\ disk' = Aged(disk)
    /\ UNCHANGED <<progressVars, backend, limit, asked, todo, pending,
                   history, failed, ended>>

\* A search without a `batches' budget goes on for as long as nothing else ends
\* it; here it is followed for MaxBatches batches.
AtBound == limit = 0 /\ batch = MaxBatches

\* A `stop' command may have arrived at any time; it is only read here.
Stoppable == backend = "kubernetes"

StopSearch ==
    LET h == Record(history) IN
    /\ Goto("decide", "stopping")
    /\ history' = h
    /\ \/ ended' = "other"
       \/ FirstFired(h) # "none" /\ ended' = FirstFired(h)
       \/ FirstFired(h) = "none" /\ Stoppable /\ ended' = "external"
    /\ UNCHANGED <<progressVars, backend, limit, batch, asked, todo, pending, delivered, disk, evals,
                   best, failed, scores>>

NextBatch ==
    LET h == Record(history) IN
    /\ Goto("decide", "ask")
    /\ ~AtBound
    /\ FirstFired(h) = "none"
    /\ history' = h
    /\ UNCHANGED <<progressVars, backend, limit, batch, asked, todo, pending, delivered, disk, evals,
                   best, failed, ended, scores>>

\* The strategy or the store raises.
RaiseInLoop ==
    /\ pc \in {"ask", "tell"}
    /\ pc' = "stopping"
    /\ failed' = TRUE
    /\ UNCHANGED <<progressVars, backend, limit, batch, asked, todo, pending, delivered, disk, evals,
                   best, history, ended, scores>>

\* The finally clause of run().
EndRun ==
    /\ Goto("stopping", "done")
    /\ StopPolling
    /\ UNCHANGED <<backend, limit, batch, asked, todo, pending, delivered, disk, evals, stopVars, scores>>

RunSearchBatch ==
    \/ BeginProgress \/ RunGroup \/ EndGroup \/ Score \/ EndGroups
    \/ RaiseInBatch \/ EndProgress

MainStep ==
    \/ Ask \/ RunSearchBatch \/ Tell \/ StopSearch \/ NextBatch \/ RaiseInLoop \/ EndRun

Poller == PollStep(Stored) /\ UNCHANGED <<loopVars, stopVars, scores>>

Next ==
    \/ MainStep
    \/ \E x \in Runs : EndOfRun(x)
    \/ Poller

\* The main thread and the poller thread run on, and every run ends.  At the bound
\* nothing is assumed: no criterion need ever fire.
Fairness ==
    /\ WF_vars(MainStep /\ ~(pc = "decide" /\ AtBound))
    /\ WF_vars(\E x \in Runs : EndOfRun(x))
    /\ WF_vars(Poller)

Spec == Init /\ [][Next]_vars /\ Fairness

-----------------------------------------------------------------------------
(* Properties.                                                             *)

\* The strategy is told one evaluation for each set it asked for, across all
\* the groups of the batch: QD looks every one of them up by its id, a
\* TPE trial that is not told stays pending (controller.py:347-398).
ToldWhatWasAsked ==
    pc = "tell" =>
      \A i \in Ids : Quantify(DOMAIN evals, LAMBDA k : evals[k].id = i)
                   = Quantify(Slots, LAMBDA s : asked[s].id = i)

\* What a run of this batch has delivered counts in the evaluation of its own
\* parameter set, under its run number: no other run has written over it before
\* the set is scored, although all groups and batches write to one campaign
\* root, the same set may be proposed twice and two sets may share a directory
\* (compose.py:197-206, controller.py:370-390).
OwnResultsCounted ==
    \A k \in DOMAIN evals : \A x \in delivered :
      x[1] = evals[k].slot => <<x[2], x[1]>> \in evals[k].samples

BestUpTo(n) == Max({scores[k] : k \in 1 .. n} \cup {None})

Stagnant ==
    /\ batch > Patience
    /\ BestUpTo(batch - Patience) # None
    /\ BestUpTo(batch) <= BestUpTo(batch - Patience) + MinDelta

\* no_improvement fires exactly when the best objective of all batches is not
\* more than min_delta above the best of the batches before the last `patience'
\* ones, batches without an objective included (stopping.py:109-143).
NoImprovementExact ==
    /\ ended = "no_improvement" => Stagnant
    /\ pc = "ask" => ~Stagnant

\* A progress sample whose round began within the current batch is right: it
\* never shows more runs than the batch has, nor more than have finished since
\* the batch began (controller.py:163-226).  A sample of a round that began
\* earlier may show anything; there is at most one for each batch.
FreshSamplesRight ==
    [][poll = "publish" /\ poll' = "check" /\ fresh /\ active =>
         /\ runs'.total = BatchRuns
         /\ runs'.completed <= runs'.total
         /\ trusted => runs'.completed <= Stored - baseline]_vars

\* A search with a `batches' budget, and any search that something has stopped,
\* comes to its end and the poller thread with it: neither duplicates, nor lost
\* runs, nor exceptions, nor a thread that misses its end keep it going.  Without
\* such a budget nothing need ever stop it (_run_search, _stop_progress_poller).
SearchEnds ==
    (limit # 0 \/ pc = "stopping") ~> (pc = "done" /\ poll = "gone")

(* What the words say and the code does not do: TLC finds this violated,   *)
(* where two assignments have one name.                                    *)

\* types.py:41-42: the id is the name of the result directory, "so results stay
\* addressable per param set".
ResultsAddressable ==
    \A k \in DOMAIN evals : \A y \in evals[k].samples :
      y[2] \in Slots => asked[y[2]].id = evals[k].id
=============================================================================
