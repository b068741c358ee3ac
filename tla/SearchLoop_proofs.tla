-------------------------- MODULE SearchLoop_proofs --------------------------
(***************************************************************************)
(* The search loop for any search space, batch size, repetition counts,    *)
(* objective values, patience and budget: the strategy is told what it     *)
(* asked for, from its own results; no_improvement fires when it should;   *)
(* a progress sample of the current batch is right.                        *)
(***************************************************************************)
EXTENDS SearchLoop, FiniteSetTheorems, WellFoundedInduction, TLAPS

\* The result files of the campaign.
StoredFiles == {x \in Names \X RunNumbers : disk[x[1]][x[2]] # NoFile}

\* There are finitely many: there may be any number of names.
DiskInv == IsFiniteSet(StoredFiles)

\* The slots whose groups have been scored.
Scored == {s \in Slots : asked[s].reps \notin todo}

\* The evaluations stand for the slots that have been scored, one for one.
OneEach(g) ==
    /\ g \in Bijection(DOMAIN evals, Scored)
    /\ \A k \in DOMAIN evals : evals[k].id = asked[g[k]].id

Batching == {"baseline", "total", "none", "activate", "group", "run", "score",
             "deactivate", "all", "tell"}

ToldInv ==
    /\ pc \in Batching /\ ~failed => \E g \in [DOMAIN evals -> Slots] : OneEach(g)
    /\ pc \in {"ask", "decide", "baseline", "total", "none", "activate"} => evals = <<>>
    /\ pc \in {"baseline", "total", "none", "activate"} => Scored = {}
    /\ pc \in {"run", "score"} => todo # {}
    /\ pc \in {"deactivate", "all", "tell"} => todo = {}
    /\ failed => pc \in {"deactivate", "all", "stopping", "done"}

\* The current group: its sets have names of their own, and the results of its
\* runs lie where they wrote them.
GroupInv ==
    LET G == Group(Min(todo)) IN
    pc \in {"run", "score"} =>
      /\ \A s, t \in G : ConfigName(s) = ConfigName(t) => s = t
      /\ \A x \in pending : x[1] \in G
      /\ \A x \in delivered : x[1] \in G => disk[ConfigName(x[1])][x[2]] = x[1]

\* Runs have delivered for slots that are scored and for the current group;
\* evaluations are of slots that are scored.
ResultsInv ==
    /\ OwnResultsCounted
    /\ GroupInv
    /\ \A x \in delivered :
         x[1] \in Scored \/ (pc \in {"run", "score"} /\ x[1] \in Group(Min(todo)))
    /\ \A k \in DOMAIN evals : evals[k].slot \in Scored
    /\ pc \in {"ask", "decide"} => delivered = {}

\* The objectives reached by the first n batches, and none.
ReachedBy(n) == {scores[k] : k \in 1 .. n} \cup {None}

\* b is the best of the first n batches.
IsBest(n, b) == b \in ReachedBy(n) /\ \A v \in ReachedBy(n) : b >= v

\* The batches the stop conditions have recorded.
Recorded == IF pc = "decide" THEN batch - 1 ELSE batch

\* The history h holds the best objective after each of the last batches up to
\* the n-th; before them there was none.
Follows(h, n) ==
    /\ Len(h) <= n
    /\ \A j \in 1 .. Len(h) : h[j] = BestUpTo(n - Len(h) + j)
    /\ \A m \in 0 .. n - Len(h) : BestUpTo(m) = None

StopInv ==
    /\ batch = Len(scores)
    /\ pc = "decide" => batch > 0
    /\ \A n \in 0 .. batch : IsBest(n, BestUpTo(n))
    /\ best = BestUpTo(batch)
    /\ Follows(history, Recorded)
    /\ ended # "none" => pc \in {"stopping", "done"}
    /\ NoImprovementExact

\* The poller's numbers belong to the batch that is running.
PollInv ==
    /\ trusted => baseline <= Stored
    /\ active \/ pc \in {"baseline", "total", "none", "activate", "deactivate", "all"} => polling
    /\ active => pc \in {"group", "run", "score", "deactivate"}
    /\ active \/ pc \in {"none", "activate"} => total = BatchRuns
    /\ pc \in {"total", "none", "activate"} => ~fresh
    /\ fresh =>
         /\ poll = "subtract" => counted <= Stored
         /\ poll \in {"cap", "publish"} /\ trusted => counted <= Stored - baseline
         /\ poll = "publish" => counted <= total

SearchInv == TypeOK /\ DiskInv /\ ToldInv /\ ResultsInv /\ StopInv /\ PollInv

-----------------------------------------------------------------------------
(* Numbers and slots.                                                      *)

LEMMA MinIn ==
  ASSUME NEW S \in SUBSET Nat, S # {}
  PROVE  Min(S) \in S
<1>1. PICK x \in S : \A y \in S : ~ (<<y, x>> \in OpToRel(<, Nat))
  BY NatLessThanWellFounded, WFMin
<1>2. \A y \in S : ~(y < x)
  BY <1>1 DEF OpToRel
<1>3. \A y \in S : x =< y
  BY <1>2
<1> QED
  BY <1>3 DEF Min

LEMMA MaxIs ==
  ASSUME NEW S \in SUBSET Int, NEW b \in S, \A y \in S : b >= y
  PROVE  Max(S) = b
<1>1. Max(S) \in S /\ \A y \in S : Max(S) >= y
  BY DEF Max
<1>2. Max(S) \in Int /\ b \in Int
  BY <1>1
<1>3. Max(S) >= b /\ b >= Max(S)
  BY <1>1
<1> HIDE DEF Max
<1> QED
  BY <1>2, <1>3

LEMMA MostReps ==
  /\ Max(RepCounts) \in RepCounts
  /\ \A n \in RepCounts : n \in Nat \ {0} /\ n <= Max(RepCounts)
  /\ \A n \in RepCounts : 0 .. n - 1 \subseteq RunNumbers
  /\ IsFiniteSet(RunNumbers)
<1>1. PICK n \in RepCounts : \A m \in RepCounts : n >= m
  BY SearchAssumption
<1>2. RepCounts \in SUBSET Int /\ RepCounts \subseteq Nat \ {0}
  BY SearchAssumption
<1>3. Max(RepCounts) = n
  BY <1>1, <1>2, MaxIs
<1>4. IsFiniteSet(RunNumbers)
  BY <1>2, <1>3, FS_Interval DEF RunNumbers
<1> QED
  BY <1>1, <1>2, <1>3, <1>4 DEF RunNumbers

\* The i-th element of a finite set of numbers, for i from 1 to its size, goes
\* through the set once.
LEMMA NthOnce ==
  ASSUME NEW S \in SUBSET Nat, IsFiniteSet(S)
  PROVE  [i \in 1 .. Cardinality(S) |-> Nth(S, i)] \in Bijection(1 .. Cardinality(S), S)
<1> DEFINE Below(s) == {t \in S : t <= s}
           rank == [s \in S |-> Cardinality(Below(s))]
           n == Cardinality(S)
<1>1. n \in Nat
  BY FS_CardinalityType
<1>2. ASSUME NEW s \in S
      PROVE  IsFiniteSet(Below(s)) /\ rank[s] \in 1 .. n
  <2>1. IsFiniteSet(Below(s)) /\ Cardinality(Below(s)) <= n
    BY FS_Subset, Below(s) \in SUBSET S
  <2>2. Cardinality(Below(s)) \in Nat /\ Cardinality(Below(s)) # 0
    <3>1. s \in Below(s)
      OBVIOUS
    <3> QED
      BY <2>1, <3>1, FS_CardinalityType, FS_EmptySet
  <2> QED
    BY <1>1, <2>1, <2>2
<1>3. ASSUME NEW s \in S, NEW t \in S, s < t
      PROVE  rank[s] # rank[t]
  <2>1. Below(s) \in SUBSET Below(t) /\ t \in Below(t) /\ t \notin Below(s)
    <3>1. s \in Nat /\ t \in Nat /\ \A u \in S : u \in Nat
      OBVIOUS
    <3>2. s <= t /\ ~(t <= s) /\ t <= t
      BY <1>3, <3>1
    <3>3. \A u \in S : u <= s => u <= t
      BY <3>1, <3>2
    <3> QED
      BY <3>2, <3>3
  <2>2. Below(s) # Below(t)
    BY <2>1
  <2>3. Cardinality(Below(t)) # Cardinality(Below(s))
    BY <1>2, <2>1, <2>2, FS_Subset
  <2> QED
    BY <2>3
<1>4. rank \in Injection(S, 1 .. n)
  <2>1. \A s, t \in S : rank[s] = rank[t] => s = t
    BY <1>3
  <2>2. rank \in [S -> 1 .. n]
    BY <1>2
  <2> QED
    BY <2>1, <2>2 DEF Injection, IsInjective
<1>5. rank \in Surjection(S, 1 .. n)
  <2>1. IsFiniteSet(1 .. n) /\ Cardinality(1 .. n) = n
    BY <1>1, FS_Interval
  <2> QED
    BY <1>4, <2>1, FS_Injection
<1>6. ASSUME NEW i \in 1 .. n
      PROVE  Nth(S, i) \in S /\ rank[Nth(S, i)] = i
  <2>1. \E s \in S : rank[s] = i
    BY <1>5 DEF Surjection
  <2> QED
    BY <2>1 DEF Nth
<1>7. ASSUME NEW s \in S
      PROVE  \E i \in 1 .. n : Nth(S, i) = s
  <2>1. rank[s] \in 1 .. n
    BY <1>2
  <2>2. rank[Nth(S, rank[s])] = rank[s] /\ Nth(S, rank[s]) \in S
    BY <1>6, <2>1
  <2> QED
    BY <1>4, <2>1, <2>2 DEF Injection, IsInjective
<1> HIDE DEF rank, n
<1> DEFINE f == [i \in 1 .. n |-> Nth(S, i)]
<1>8. f \in [1 .. n -> S]
  BY <1>6
<1>9. \A i, j \in 1 .. n : f[i] = f[j] => i = j
  BY <1>6
<1>10. \A s \in S : \E i \in 1 .. n : f[i] = s
  BY <1>7
<1> HIDE DEF f
<1>11. f \in Bijection(1 .. n, S)
  BY <1>8, <1>9, <1>10 DEF Bijection, Injection, Surjection, IsInjective
<1> QED
  BY <1>11 DEF f, n

LEMMA SlotsFinite ==
  IsFiniteSet(Slots) /\ Slots \subseteq Nat
<1>1. PerBatch \in Int /\ 1 \in Int /\ 1 .. PerBatch \subseteq Nat
  BY SearchAssumption
<1>2. IsFiniteSet(1 .. PerBatch)
  BY <1>1, FS_Interval
<1> QED
  BY <1>1, <1>2 DEF Slots

LEMMA AskedTyped ==
  ASSUME TypeOK, NEW s \in Slots
  PROVE  asked[s].id \in Ids /\ asked[s].reps \in RepCounts /\ ConfigName(s) \in Names
<1>1. asked[s] \in [id : Ids, reps : RepCounts]
  BY SearchAssumption DEF TypeOK
<1>2. asked[s].id \in Ids /\ asked[s].reps \in RepCounts
  BY <1>1
<1> QED
  BY <1>2, SearchAssumption DEF ConfigName

\* What scoring a group appends: one evaluation for each of its slots.
LEMMA GroupScored ==
  ASSUME TypeOK, NEW n
  PROVE  LET m == Cardinality(Group(n))
         IN  /\ m \in Nat
             /\ EvaluationsOf(n) \in Seq(Evaluations)
             /\ DOMAIN EvaluationsOf(n) = 1 .. m
             /\ Len(EvaluationsOf(n)) = m
             /\ [i \in 1 .. m |-> Nth(Group(n), i)] \in Bijection(1 .. m, Group(n))
             /\ \A i \in 1 .. m : /\ Nth(Group(n), i) \in Group(n)
                                  /\ EvaluationsOf(n)[i] = Evaluation(Nth(Group(n), i))
<1> DEFINE m == Cardinality(Group(n))
<1>1. Group(n) \in SUBSET Nat /\ Group(n) \subseteq Slots /\ IsFiniteSet(Group(n))
  <2>1. IsFiniteSet(Slots) /\ Slots \subseteq Nat
    BY SlotsFinite
  <2>2. Group(n) \in SUBSET Slots
    BY DEF Group
  <2>3. IsFiniteSet(Group(n))
    BY <2>1, <2>2, FS_Subset
  <2> QED
    BY <2>1, <2>2, <2>3
<1>2. m \in Nat
  BY <1>1, FS_CardinalityType
<1>3. [i \in 1 .. m |-> Nth(Group(n), i)] \in Bijection(1 .. m, Group(n))
  BY <1>1, NthOnce
<1>4. ASSUME NEW i \in 1 .. m PROVE Nth(Group(n), i) \in Group(n)
  <2> DEFINE f == [k \in 1 .. m |-> Nth(Group(n), k)]
  <2>1. f \in [1 .. m -> Group(n)]
    BY <1>3 DEF Bijection, Injection
  <2>2. f[i] = Nth(Group(n), i)
    OBVIOUS
  <2> HIDE DEF f
  <2> QED
    BY <2>1, <2>2
<1>5. ASSUME NEW s \in Slots PROVE Evaluation(s) \in Evaluations
  <2>1. asked[s].id \in Ids /\ ConfigName(s) \in Names
    BY AskedTyped
  <2>2. Samples(ConfigName(s)) \subseteq RunNumbers \X (Slots \cup {Earlier})
    BY <2>1 DEF Samples, TypeOK
  <2> QED
    BY <2>1, <2>2 DEF Evaluation, Evaluations
<1>6. \A i \in 1 .. m : Evaluation(Nth(Group(n), i)) \in Evaluations
  BY <1>1, <1>4, <1>5
<1>7. EvaluationsOf(n) = [i \in 1 .. m |-> Evaluation(Nth(Group(n), i))]
  BY DEF EvaluationsOf
<1> HIDE DEF m
<1> DEFINE e == [i \in 1 .. m |-> Evaluation(Nth(Group(n), i))]
<1>8. e \in [1 .. m -> Evaluations]
  BY <1>6
<1>9. e \in Seq(Evaluations) /\ DOMAIN e = 1 .. m /\ Len(e) = m
  BY <1>2, <1>8
<1>10. \A i \in 1 .. m : e[i] = Evaluation(Nth(Group(n), i))
  OBVIOUS
<1> HIDE DEF e
<1> QED
  BY <1>2, <1>3, <1>4, <1>7, <1>9, <1>10 DEF e, m

LEMMA RunsCounted ==
  ASSUME TypeOK
  PROVE  BatchRuns \in Nat
<1>1. IsFiniteSet(Slots \X RunNumbers)
  BY MostReps, SlotsFinite, FS_Product
<1>2. IsFiniteSet({x \in Slots \X RunNumbers : x[2] < asked[x[1]].reps})
  BY <1>1, FS_Subset
<1> QED
  BY <1>2, FS_CardinalityType DEF BatchRuns, Runs

LEMMA StoredCounted ==
  ASSUME DiskInv
  PROVE  Stored \in Nat /\ Stored = Cardinality(StoredFiles)
BY FS_CardinalityType DEF DiskInv, Stored, StoredFiles

-----------------------------------------------------------------------------
(* The result files.                                                       *)

LEMMA EndOfRunWrites ==
  ASSUME TypeOK, DiskInv, NEW x \in Runs, EndOfRun(x)
  PROVE  DiskInv' /\ Stored <= Stored'
<1> DEFINE y == <<ConfigName(x[1]), x[2]>>
<1>1. x[1] \in Slots /\ x[2] \in RunNumbers /\ ConfigName(x[1]) \in Names
  BY AskedTyped DEF Runs
<1>2. CASE disk' = disk
  BY <1>2, StoredCounted DEF DiskInv, StoredFiles, Stored
<1>3. CASE disk' = [disk EXCEPT ![ConfigName(x[1])][x[2]] = x[1]]
  <2>1. \A c \in Names, r \in RunNumbers :
          disk'[c][r] = IF c = y[1] /\ r = y[2] THEN x[1] ELSE disk[c][r]
    BY <1>1, <1>3 DEF TypeOK
  <2>2. x[1] # NoFile /\ y \in Names \X RunNumbers
    BY <1>1, SearchAssumption DEF Slots
  <2>3. ASSUME NEW z \in Names \X RunNumbers
        PROVE  z \in StoredFiles' <=> z \in StoredFiles \/ z = y
    <3>1. z[1] \in Names /\ z[2] \in RunNumbers /\ z = <<z[1], z[2]>>
      OBVIOUS
    <3>2. CASE z[1] = y[1] /\ z[2] = y[2]
      BY <2>1, <2>2, <3>1, <3>2 DEF StoredFiles
    <3>3. CASE ~(z[1] = y[1] /\ z[2] = y[2])
      BY <2>1, <3>1, <3>3 DEF StoredFiles
    <3> QED
      BY <3>2, <3>3
  <2>4. StoredFiles' = StoredFiles \cup {y}
    BY <2>2, <2>3 DEF StoredFiles
  <2>5. IsFiniteSet(StoredFiles')
    BY <2>4, FS_AddElement DEF DiskInv
  <2>6. Cardinality(StoredFiles) <= Cardinality(StoredFiles')
    BY <2>4, <2>5, FS_Subset
  <2> QED
    BY <2>5, <2>6 DEF DiskInv, Stored, StoredFiles
<1> QED
  BY <1>2, <1>3 DEF EndOfRun

\* Growing older makes no difference to how many result files there are.
LEMMA AgedStored ==
  ASSUME TypeOK, DiskInv, disk' = Aged(disk)
  PROVE  DiskInv' /\ Stored = Stored'
<1>1. ASSUME NEW z \in Names \X RunNumbers
      PROVE  z \in StoredFiles' <=> z \in StoredFiles
  <2>1. z[1] \in Names /\ z[2] \in RunNumbers /\ Earlier # NoFile
    BY SearchAssumption DEF Earlier
  <2>2. disk'[z[1]][z[2]] = IF disk[z[1]][z[2]] = NoFile THEN NoFile ELSE Earlier
    BY <2>1 DEF Aged
  <2> QED
    BY <2>1, <2>2 DEF StoredFiles
<1>2. StoredFiles' = StoredFiles
  BY <1>1 DEF StoredFiles
<1> QED
  BY <1>2 DEF DiskInv, Stored, StoredFiles

\* No step loses a result file.
LEMMA DiskStep ==
  ASSUME TypeOK, DiskInv, [Next]_vars
  PROVE  DiskInv' /\ Stored <= Stored'
<1>1. Stored \in Nat
  BY StoredCounted
<1>2. ASSUME disk' = disk \/ disk' = Aged(disk) PROVE DiskInv' /\ Stored <= Stored'
  BY <1>1, <1>2, AgedStored DEF DiskInv, StoredFiles, Stored
<1>3. ASSUME MainStep PROVE disk' = disk \/ disk' = Aged(disk)
  BY <1>3 DEF MainStep, RunSearchBatch, BeginProgress, RunGroup, EndGroup, Score, EndGroups,
     RaiseInBatch, EndProgress, Ask, Tell, StopSearch, NextBatch, RaiseInLoop, EndRun
<1>4. ASSUME Poller \/ UNCHANGED vars PROVE disk' = disk
  BY <1>4 DEF Poller, vars, loopVars
<1> QED
  BY <1>2, <1>3, <1>4, EndOfRunWrites DEF Next

-----------------------------------------------------------------------------
(* Types.                                                                  *)

\* The parts of TypeOK that most actions leave alone.
LEMMA LoopTyped ==
  ASSUME TypeOK, ProgressTypeOK', pc' \in LoopStates, todo' \subseteq RepCounts,
         UNCHANGED <<backend, limit>>, batch' \in Nat,
         disk' \in [Names -> [RunNumbers -> Slots \cup {Earlier, NoFile}]],
         delivered' \subseteq Runs,
         asked' \in [Slots -> ParamSets],
         pending' \subseteq Runs,
         evals' \in Seq(Evaluations),
         best' \in Values \cup {None}, history' \in Seq(Values), failed' \in BOOLEAN,
         ended' \in Kinds, scores' \in Seq(Values \cup {None})
  PROVE  TypeOK'
BY DEF TypeOK

LEMMA PollerTyped ==
  ASSUME TypeOK, DiskInv, Poller
  PROVE  TypeOK'
<1>1. Stored \in Nat
  BY StoredCounted
<1>2. /\ counted' \in Nat /\ runs' \in [completed : Nat, total : Nat]
      /\ baseline' \in Nat /\ total' \in Nat /\ poll' \in PollStates
  BY <1>1 DEF Poller, PollStep, BeginRound, LeaveLoop, CountRuns, CountFails, SubtractBaseline,
     CapAtTotal, Publish, sharedVars, TypeOK, ProgressTypeOK, PollStates
<1>3. /\ fresh' \in {fresh, TRUE, FALSE}
      /\ UNCHANGED <<polling, active, stopPoll, trusted>>
  BY DEF Poller, PollStep, BeginRound, LeaveLoop, CountRuns, CountFails, SubtractBaseline,
     CapAtTotal, Publish, sharedVars
<1>4. /\ polling' \in BOOLEAN /\ active' \in BOOLEAN /\ stopPoll' \in BOOLEAN
      /\ fresh' \in BOOLEAN /\ trusted' \in BOOLEAN
  BY <1>3 DEF TypeOK, ProgressTypeOK
<1>5. ProgressTypeOK'
  BY <1>2, <1>4 DEF ProgressTypeOK
<1> QED
  BY <1>5 DEF Poller, TypeOK, loopVars, stopVars

LEMMA BeginProgressTyped ==
  ASSUME TypeOK, DiskInv, BeginProgress \/ EndProgress \/ EndRun
  PROVE  TypeOK'
<1>1. Stored \in Nat /\ BatchRuns \in Nat
  BY StoredCounted, RunsCounted
<1> USE DEF BeginProgress, EndProgress, EndRun, TakeBaseline, SetTotal, PublishNone, Activate,
            Deactivate, PublishAll, StopPolling, threadVars
<1>2. ProgressTypeOK'
  <2>1. /\ counted' = counted /\ poll' = poll /\ baseline' \in Nat /\ total' \in Nat
        /\ runs' \in [completed : Nat, total : Nat]
    BY <1>1 DEF TypeOK, ProgressTypeOK
  <2>2. /\ polling' = polling /\ active' \in {active, TRUE, FALSE}
        /\ stopPoll' \in {stopPoll, polling} /\ fresh' \in {fresh, FALSE}
        /\ trusted' \in {trusted, TRUE, FALSE}
    OBVIOUS
  <2>3. /\ polling' \in BOOLEAN /\ active' \in BOOLEAN /\ stopPoll' \in BOOLEAN
        /\ fresh' \in BOOLEAN /\ trusted' \in BOOLEAN
    BY <2>2 DEF TypeOK, ProgressTypeOK
  <2> QED
    BY <2>1, <2>3 DEF TypeOK, ProgressTypeOK
<1>3. pc' \in LoopStates
  BY DEF BeginProgress, EndProgress, EndRun, Goto, LoopStates
<1> QED
  BY <1>2, <1>3 DEF BeginProgress, EndProgress, EndRun, TypeOK, stopVars

LEMMA RunTyped ==
  ASSUME TypeOK, NEW x \in Runs, EndOfRun(x)
  PROVE  TypeOK'
<1>1. x[1] \in Slots /\ x[2] \in RunNumbers
  BY DEF Runs
<1>2. disk' \in [Names -> [RunNumbers -> Slots \cup {Earlier, NoFile}]]
  <2>1. CASE disk' = disk
    BY <2>1 DEF TypeOK
  <2>2. CASE disk' = [disk EXCEPT ![ConfigName(x[1])][x[2]] = x[1]]
    <3>1. ConfigName(x[1]) \in Names
      BY <1>1, AskedTyped
    <3> QED
      BY <1>1, <2>2, <3>1 DEF TypeOK
  <2> QED
    BY <2>1, <2>2 DEF EndOfRun
<1>3. pending' \subseteq Runs /\ delivered' \subseteq Runs
  BY DEF EndOfRun, TypeOK
<1> QED
  BY <1>2, <1>3 DEF EndOfRun, TypeOK, progressVars, sharedVars, threadVars, stopVars, ProgressTypeOK

LEMMA AgedTyped ==
  ASSUME TypeOK
  PROVE  Aged(disk) \in [Names -> [RunNumbers -> Slots \cup {Earlier, NoFile}]]
BY DEF Aged

\* Recording and folding in a new best keep to the objective's values.
LEMMA BestTyped ==
  ASSUME TypeOK
  PROVE  /\ Record(history) \in Seq(Values)
         /\ \A v \in Values \cup {None} : /\ Max({best, v}) \in {best, v}
                                          /\ Max({best, v}) >= best
                                          /\ Max({best, v}) >= v
<1>1. Record(history) \in Seq(Values)
  BY DEF Record, TypeOK
<1>2. ASSUME NEW v \in Values \cup {None}
      PROVE  /\ Max({best, v}) \in {best, v}
             /\ Max({best, v}) >= best
             /\ Max({best, v}) >= v
  <2>1. v \in Int /\ best \in Int
    BY SearchAssumption DEF TypeOK, None
  <2>2. CASE v >= best
    <3>1. Max({best, v}) = v
      BY <2>1, <2>2, MaxIs
    <3> QED
      BY <2>1, <2>2, <3>1
  <2>3. CASE best >= v
    <3>1. Max({best, v}) = best
      BY <2>1, <2>3, MaxIs
    <3> QED
      BY <2>1, <2>3, <3>1
  <2> QED
    BY <2>1, <2>2, <2>3
<1> QED
  BY <1>1, <1>2

LEMMA MainTyped ==
  ASSUME TypeOK, DiskInv, MainStep
  PROVE  TypeOK'
<1> USE DEF Goto, LoopStates
<1>1. UNCHANGED progressVars => ProgressTypeOK'
  BY DEF TypeOK, ProgressTypeOK, progressVars, sharedVars, threadVars
<1>2. CASE Ask
  <2>1. asked' \in [Slots -> ParamSets] /\ todo' = {asked'[s].reps : s \in Slots}
    BY <1>2 DEF Ask
  <2>2. todo' \subseteq RepCounts
    <3>1. \A p \in ParamSets : p.reps \in RepCounts
      BY SearchAssumption
    <3> QED
      BY <2>1, <3>1
  <2> QED
    BY <1>1, <1>2, <2>1, <2>2 DEF Ask, TypeOK, stopVars
<1>3. CASE RunGroup
  <2> DEFINE n == Min(todo)
  <2>1. n \in RepCounts
    BY <1>3, MinIn, MostReps, SearchAssumption DEF RunGroup, TypeOK
  <2>2. pending' = Group(n) \X (0 .. n - 1)
    BY <1>3 DEF RunGroup
  <2> HIDE DEF n
  <2>3. pending' \subseteq Runs
    BY <2>1, <2>2, MostReps DEF Group, Runs
  <2> QED
    BY <1>1, <1>3, <2>3 DEF RunGroup, TypeOK, stopVars
<1>4. CASE EndGroup
  BY <1>1, <1>4 DEF EndGroup, TypeOK, stopVars
<1>5. CASE Score
  <2> DEFINE e == EvaluationsOf(Min(todo))
  <2>1. e \in Seq(Evaluations)
    BY GroupScored
  <2>2. evals' = evals \o e /\ todo' \subseteq todo /\ pc' = "group"
        /\ UNCHANGED <<progressVars, backend, limit, batch, asked, pending, delivered, disk, stopVars,
                       scores>>
    BY <1>5 DEF Score
  <2> HIDE DEF e
  <2>3. evals' \in Seq(Evaluations)
    BY <2>1, <2>2 DEF TypeOK
  <2> QED
    BY <1>1, <2>2, <2>3 DEF TypeOK, stopVars
<1>6. CASE EndGroups
  BY <1>1, <1>6 DEF EndGroups, AfterGroups, TypeOK, stopVars
<1>7. CASE RaiseInBatch
  BY <1>1, <1>7, AgedTyped DEF RaiseInBatch, AfterGroups, TypeOK
<1>8. CASE BeginProgress \/ EndProgress \/ EndRun
  BY <1>8, BeginProgressTyped
<1>9. CASE Tell
  <2>1. PICK v \in Values \cup {None} : best' = Max({best, v}) /\ scores' = Append(scores, v)
    BY <1>9 DEF Tell
  <2>2. best' \in Values \cup {None} /\ scores' \in Seq(Values \cup {None})
    <3>1. best' \in {best, v}
      BY <2>1, BestTyped
    <3>2. best \in Values \cup {None} /\ scores \in Seq(Values \cup {None})
      BY DEF TypeOK
    <3>3. Append(scores, v) \in Seq(Values \cup {None})
      BY <3>2
    <3> QED
      BY <2>1, <3>1, <3>2, <3>3
  <2>3. evals' \in Seq(Evaluations) /\ batch' \in Nat
    BY <1>9 DEF Tell, TypeOK
  <2> QED
    BY <1>1, <1>9, <2>2, <2>3, AgedTyped DEF Tell, TypeOK
<1>10. CASE StopSearch
  <2>1. FirstFired(Record(history)) \in Kinds
    BY DEF FirstFired, Kinds
  <2> QED
    BY <1>1, <1>10, <2>1, BestTyped DEF StopSearch, TypeOK, Kinds
<1>11. CASE NextBatch
  BY <1>1, <1>11, BestTyped DEF NextBatch, TypeOK
<1>12. CASE RaiseInLoop
  BY <1>1, <1>12 DEF RaiseInLoop, TypeOK
<1> QED
  BY <1>2, <1>3, <1>4, <1>5, <1>6, <1>7, <1>8, <1>9, <1>10, <1>11, <1>12
  DEF MainStep, RunSearchBatch

LEMMA TypedStep ==
  ASSUME TypeOK, DiskInv, [Next]_vars
  PROVE  TypeOK'
<1>1. CASE UNCHANGED vars
  BY <1>1 DEF vars, progressVars, sharedVars, threadVars, loopVars, stopVars, TypeOK, ProgressTypeOK
<1> QED
  BY <1>1, MainTyped, RunTyped, PollerTyped DEF Next

-----------------------------------------------------------------------------
(* What the strategy is told.                                              *)

LEMMA ScoreAppends ==
  ASSUME TypeOK, Score
  PROVE  LET n == Min(todo)
             m == Cardinality(Group(n))
         IN  /\ DOMAIN evals = 1 .. Len(evals) /\ Len(evals) \in Nat /\ m \in Nat
             /\ DOMAIN evals' = 1 .. Len(evals) + m
             /\ \A k \in 1 .. Len(evals) : evals'[k] = evals[k]
             /\ \A i \in 1 .. m : evals'[Len(evals) + i] = Evaluation(Nth(Group(n), i))
<1> DEFINE n == Min(todo)
           m == Cardinality(Group(n))
           e == EvaluationsOf(n)
<1>1. /\ m \in Nat /\ e \in Seq(Evaluations) /\ Len(e) = m
      /\ \A i \in 1 .. m : e[i] = Evaluation(Nth(Group(n), i))
  BY GroupScored
<1>2. evals' = evals \o e
  BY DEF Score
<1>3. evals \in Seq(Evaluations)
  BY DEF TypeOK
<1> HIDE DEF e, m, n
<1>4. /\ Len(evals') = Len(evals) + m /\ DOMAIN evals' = 1 .. Len(evals')
      /\ Len(evals) \in Nat /\ DOMAIN evals = 1 .. Len(evals)
      /\ \A k \in 1 .. Len(evals) : evals'[k] = evals[k]
  <2>1. Len(evals) \in Nat /\ DOMAIN evals = 1 .. Len(evals)
    BY <1>3
  <2>2. evals' \in Seq(Evaluations)
    BY <1>1, <1>2, <1>3
  <2>3. Len(evals') = Len(evals) + m
    <3>1. evals \in Seq(Evaluations)
          /\ e \in Seq(Evaluations)
      BY <1>1, <1>3
    <3>2. Len(evals \o e) = Len(evals) + Len(e)
      BY <3>1
    <3> QED
      BY <1>1, <1>2, <3>2
  <2>4. ASSUME NEW k \in 1 .. Len(evals) PROVE evals'[k] = evals[k]
    BY <1>1, <1>2, <1>3
  <2> QED
    BY <2>1, <2>2, <2>3, <2>4
<1>5. ASSUME NEW i \in 1 .. m PROVE evals'[Len(evals) + i] = e[i]
  BY <1>1, <1>2, <1>3
<1> QED
  BY <1>1, <1>4, <1>5 DEF n, m

\* Scoring the smallest group scores its slots, and no slot a second time.
LEMMA ScoreTells ==
  ASSUME TypeOK, ToldInv, Score, ~failed
  PROVE  \E g \in [DOMAIN evals' -> Slots] : OneEach(g)'
<1> DEFINE n == Min(todo)
           m == Cardinality(Group(n))
           l == Len(evals)
           f == [i \in 1 .. m |-> Nth(Group(n), i)]
<1>1. /\ DOMAIN evals = 1 .. l /\ l \in Nat /\ m \in Nat
      /\ DOMAIN evals' = 1 .. l + m
      /\ \A k \in 1 .. l : evals'[k] = evals[k]
      /\ \A i \in 1 .. m : evals'[l + i] = Evaluation(Nth(Group(n), i))
  BY ScoreAppends
<1>2. f \in Bijection(1 .. m, Group(n))
  BY GroupScored
<1>3. PICK g \in [DOMAIN evals -> Slots] : OneEach(g)
  BY DEF ToldInv, Score, Goto, Batching
<1>4. n \in todo /\ todo' = todo \ {n} /\ asked' = asked
  BY MinIn, SearchAssumption DEF ToldInv, Score, Goto, TypeOK
<1>5. \A i \in 1 .. m : evals'[l + i] = Evaluation(f[i])
  BY <1>1
<1> HIDE DEF n, m, l, f
<1>6. /\ Scored' = Scored \cup Group(n) /\ Scored \cap Group(n) = {}
      /\ Scored' \subseteq Slots
  BY <1>4 DEF Scored, Group
<1> DEFINE h == [k \in 1 .. l + m |-> IF k <= l THEN g[k] ELSE f[k - l]]
<1>7. /\ g \in [1 .. l -> Scored] /\ f \in [1 .. m -> Group(n)]
      /\ \A j, k \in 1 .. l : g[j] = g[k] => j = k
      /\ \A j, k \in 1 .. m : f[j] = f[k] => j = k
      /\ \A s \in Scored : \E k \in 1 .. l : g[k] = s
      /\ \A s \in Group(n) : \E k \in 1 .. m : f[k] = s
  BY <1>1, <1>2, <1>3 DEF OneEach, Bijection, Injection, Surjection, IsInjective
<1>8. /\ \A k \in 1 .. l : k \in 1 .. l + m /\ h[k] = g[k]
      /\ \A k \in 1 .. m : l + k \in 1 .. l + m /\ h[l + k] = f[k]
      /\ \A k \in 1 .. l + m : k \in 1 .. l \/ (k - l \in 1 .. m /\ k = l + (k - l))
  BY <1>1
<1>9. h \in [1 .. l + m -> Scored']
  <2> SUFFICES ASSUME NEW k \in 1 .. l + m PROVE h[k] \in Scored'
    OBVIOUS
  <2> HIDE DEF h
  <2> QED
    BY <1>6, <1>7, <1>8
<1> HIDE DEF h
<1>10. ASSUME NEW j \in 1 .. l + m, NEW k \in 1 .. l + m, h[j] = h[k]
       PROVE  j = k
  <2>1. CASE j \in 1 .. l /\ k \in 1 .. l
    BY <1>7, <1>8, <1>10, <2>1
  <2>2. CASE j \notin 1 .. l /\ k \notin 1 .. l
    <3>1. j - l \in 1 .. m /\ k - l \in 1 .. m /\ h[j] = f[j - l] /\ h[k] = f[k - l]
      BY <1>8, <2>2
    <3>2. j - l = k - l
      BY <1>7, <1>10, <3>1
    <3> QED
      BY <1>1, <3>2
  <2>3. CASE j \in 1 .. l /\ k \notin 1 .. l
    BY <1>6, <1>7, <1>8, <1>10, <2>3
  <2>4. CASE j \notin 1 .. l /\ k \in 1 .. l
    BY <1>6, <1>7, <1>8, <1>10, <2>4
  <2> QED
    BY <2>1, <2>2, <2>3, <2>4
<1>11. ASSUME NEW s \in Scored' PROVE \E k \in 1 .. l + m : h[k] = s
  BY <1>6, <1>7, <1>8
<1>12. h \in Bijection(DOMAIN evals', Scored')
  BY <1>1, <1>9, <1>10, <1>11 DEF Bijection, Injection, Surjection, IsInjective
<1>13. ASSUME NEW k \in 1 .. l + m PROVE evals'[k].id = asked[h[k]].id
  <2>1. CASE k \in 1 .. l
    BY <1>1, <1>3, <1>8, <2>1 DEF OneEach
  <2>2. CASE k \notin 1 .. l
    <3>1. k - l \in 1 .. m /\ h[k] = f[k - l] /\ k = l + (k - l)
      BY <1>8, <2>2
    <3>2. evals'[k] = Evaluation(f[k - l])
      BY <1>5, <3>1
    <3> QED
      BY <3>1, <3>2 DEF Evaluation
  <2> QED
    BY <2>1, <2>2
<1>14. PICK q : q = h
  OBVIOUS
<1>15. q \in [DOMAIN evals' -> Slots]
  BY <1>1, <1>6, <1>9, <1>14
<1>16. OneEach(q)'
  BY <1>1, <1>4, <1>12, <1>13, <1>14 DEF OneEach
<1> QED
  BY <1>15, <1>16

\* A step that leaves the evaluations, the proposals and the groups alone.
LEMMA ToldFrame ==
  ASSUME ToldInv, UNCHANGED <<asked, todo, evals, failed>>,
         pc' \in Batching => pc \in Batching,
         pc' \in {"ask", "decide", "baseline", "total", "none", "activate"} => evals = <<>>,
         pc' \in {"baseline", "total", "none", "activate"} => Scored = {},
         pc' \in {"run", "score"} => todo # {},
         pc' \in {"deactivate", "all", "tell"} => todo = {},
         failed => pc' \in {"deactivate", "all", "stopping", "done"}
  PROVE  ToldInv'
<1>1. Scored' = Scored
  BY DEF Scored
<1>2. \A g : OneEach(g) => OneEach(g)'
  BY <1>1 DEF OneEach
<1> QED
  BY <1>1, <1>2 DEF ToldInv

LEMMA ToldStep ==
  ASSUME TypeOK, ToldInv, [Next]_vars
  PROVE  ToldInv'
<1> USE DEF Goto
<1>1. CASE Ask
  <2>1. /\ pc = "ask" /\ pc' \in {"baseline", "group"} /\ todo' = {asked'[s].reps : s \in Slots}
        /\ UNCHANGED <<evals, failed>>
    BY <1>1 DEF Ask, stopVars
  <2>2. evals' = <<>> /\ ~failed' /\ Scored' = {}
    BY <2>1 DEF ToldInv, Scored
  <2>3. PICK g : g = [k \in {} |-> 0]
    OBVIOUS
  <2>4. OneEach(g)' /\ g \in [DOMAIN evals' -> Slots]
    <3>1. DOMAIN evals' = {}
      BY <2>2
    <3> QED
      BY <2>2, <2>3, <3>1 DEF OneEach, Bijection, Injection, Surjection, IsInjective
  <2> QED
    BY <2>1, <2>2, <2>4 DEF ToldInv
<1>2. CASE Score
  <2>1. ~failed
    BY <1>2 DEF Score, ToldInv
  <2>2. pc' = "group" /\ failed' = failed
    BY <1>2 DEF Score, stopVars
  <2> QED
    BY <1>2, <2>1, <2>2, ScoreTells DEF ToldInv
<1>3. CASE RaiseInBatch
  <2>1. /\ pc' \in {"deactivate", "stopping"} /\ failed' = TRUE /\ todo' = {}
    BY <1>3 DEF RaiseInBatch, AfterGroups
  <2> QED
    BY <2>1 DEF ToldInv
<1>4. CASE Tell
  <2>1. pc = "tell" /\ pc' = "decide" /\ evals' = <<>> /\ failed' = failed
    BY <1>4 DEF Tell
  <2> QED
    BY <2>1 DEF ToldInv, Batching
<1>5. CASE RaiseInLoop
  BY <1>5 DEF RaiseInLoop, ToldInv, Batching
<1>6. CASE BeginProgress \/ RunGroup \/ EndGroup \/ EndGroups \/ EndProgress
  <2>1. UNCHANGED <<asked, todo, evals, failed>>
    BY <1>6 DEF BeginProgress, RunGroup, EndGroup, EndGroups, EndProgress, stopVars
  <2>2. \/ pc \in {"baseline", "total", "none"} /\ pc' \in {"total", "none", "activate"}
        \/ pc = "activate" /\ pc' = "group"
        \/ pc = "group" /\ pc' = "run" /\ todo # {}
        \/ pc = "run" /\ pc' = "score"
        \/ pc = "group" /\ pc' \in {"deactivate", "tell"} /\ todo = {} /\ ~failed
        \/ pc = "deactivate" /\ pc' = "all"
        \/ pc = "all" /\ pc' \in {"stopping", "tell"} /\ (failed => pc' = "stopping")
    BY <1>6 DEF BeginProgress, RunGroup, EndGroup, EndGroups, EndProgress, AfterGroups, ToldInv
  <2> QED
    BY <2>1, <2>2, ToldFrame DEF ToldInv, Batching
<1>7. CASE StopSearch \/ NextBatch \/ EndRun
  <2>1. UNCHANGED <<asked, todo, evals, failed>>
    BY <1>7 DEF StopSearch, NextBatch, EndRun, stopVars
  <2>2. \/ pc = "decide" /\ pc' \in {"stopping", "ask"}
        \/ pc = "stopping" /\ pc' = "done"
    BY <1>7 DEF StopSearch, NextBatch, EndRun
  <2> QED
    BY <2>1, <2>2, ToldFrame DEF ToldInv, Batching
<1>8. ASSUME UNCHANGED <<pc, asked, todo, evals, failed>> PROVE ToldInv'
  BY <1>8, ToldFrame DEF ToldInv
<1>9. CASE (\E x \in Runs : EndOfRun(x)) \/ Poller \/ UNCHANGED vars
  BY <1>8, <1>9 DEF EndOfRun, Poller, vars, loopVars, stopVars
<1> QED
  BY <1>1, <1>2, <1>3, <1>4, <1>5, <1>6, <1>7, <1>9 DEF Next, MainStep, RunSearchBatch

\* A step that leaves the results, the evaluations and the groups alone.
LEMMA ResultsFrame ==
  ASSUME ResultsInv, UNCHANGED <<asked, todo, evals, delivered, disk>>,
         pc' \in {"run", "score"} =>
           /\ \A s, t \in Group(Min(todo)) : ConfigName(s) = ConfigName(t) => s = t
           /\ \A x \in pending' : x[1] \in Group(Min(todo))
           /\ \A x \in delivered :
                x[1] \in Group(Min(todo)) => disk[ConfigName(x[1])][x[2]] = x[1],
         \A x \in delivered :
           x[1] \in Scored \/ (pc' \in {"run", "score"} /\ x[1] \in Group(Min(todo))),
         pc' \in {"ask", "decide"} => delivered = {}
  PROVE  ResultsInv'
<1>1. Scored' = Scored /\ \A n : Group(n)' = Group(n)
  BY DEF Scored, Group
<1>2. \A s : ConfigName(s)' = ConfigName(s)
  BY DEF ConfigName
<1>3. OwnResultsCounted'
  BY DEF ResultsInv, OwnResultsCounted
<1>4. GroupInv'
  <2> SUFFICES ASSUME pc' \in {"run", "score"}
               PROVE  LET G == Group(Min(todo)) IN
                      /\ \A s, t \in G : ConfigName(s) = ConfigName(t) => s = t
                      /\ \A x \in pending' : x[1] \in G
                      /\ \A x \in delivered :
                           x[1] \in G => disk[ConfigName(x[1])][x[2]] = x[1]
    BY <1>1, <1>2 DEF GroupInv
  <2> QED
    OBVIOUS
<1> QED
  BY <1>1, <1>3, <1>4 DEF ResultsInv

\* With nothing told and nothing delivered there is nothing to show.
LEMMA ResultsEmpty ==
  ASSUME evals' = <<>>, delivered' = {}, pc' \notin {"run", "score"}
  PROVE  ResultsInv'
<1>1. DOMAIN evals' = {}
  OBVIOUS
<1> QED
  BY <1>1 DEF ResultsInv, OwnResultsCounted, GroupInv

\* A run writes under its own name and number, which no other set of its group
\* shares; what was scored before is not looked at again.
LEMMA RunDelivers ==
  ASSUME TypeOK, ToldInv, ResultsInv, NEW x \in Runs, EndOfRun(x)
  PROVE  ResultsInv'
<1> DEFINE n == Min(todo)
           G == Group(n)
<1>1. /\ pc = "run" /\ pc' = "run" /\ x \in pending /\ pending' = pending \ {x}
      /\ UNCHANGED <<asked, todo, evals>>
      /\ \/ /\ disk' = [disk EXCEPT ![ConfigName(x[1])][x[2]] = x[1]]
            /\ delivered' = delivered \cup {x}
         \/ UNCHANGED <<disk, delivered>>
  BY DEF EndOfRun
<1>2. n \in todo
  BY <1>1, MinIn, SearchAssumption DEF ToldInv, TypeOK
<1>3. G \subseteq Slots /\ G \cap Scored = {} /\ G' = G /\ Scored' = Scored
  BY <1>1, <1>2 DEF Group, Scored
<1>4. \A s : ConfigName(s)' = ConfigName(s)
  BY <1>1 DEF ConfigName
<1>5. /\ \A s, t \in G : ConfigName(s) = ConfigName(t) => s = t
      /\ \A y \in pending : y[1] \in G
      /\ \A y \in delivered : y[1] \in G => disk[ConfigName(y[1])][y[2]] = y[1]
  BY <1>1 DEF ResultsInv, GroupInv
<1>6. x[1] \in G
  BY <1>1, <1>5
<1> HIDE DEF n, G
<1>7. ASSUME NEW y \in delivered', y[1] \in G
      PROVE  disk'[ConfigName(y[1])][y[2]] = y[1]
  <2>1. CASE UNCHANGED <<disk, delivered>>
    BY <1>5, <1>7, <2>1
  <2>2. CASE /\ disk' = [disk EXCEPT ![ConfigName(x[1])][x[2]] = x[1]]
             /\ delivered' = delivered \cup {x}
    <3>1. /\ y \in Runs /\ y[1] \in Slots /\ y[2] \in RunNumbers /\ x[2] \in RunNumbers
          /\ x[1] \in Slots
      BY <2>2 DEF Runs, TypeOK
    <3>2. ConfigName(y[1]) \in Names /\ ConfigName(x[1]) \in Names
      BY <3>1, AskedTyped
    <3>3. CASE ConfigName(y[1]) = ConfigName(x[1]) /\ y[2] = x[2]
      <4>1. y[1] = x[1]
        BY <1>5, <1>6, <1>7, <3>3
      <4> QED
        BY <2>2, <3>1, <3>2, <3>3, <4>1 DEF TypeOK
    <3>4. CASE ~(ConfigName(y[1]) = ConfigName(x[1]) /\ y[2] = x[2])
      <4>1. disk'[ConfigName(y[1])][y[2]] = disk[ConfigName(y[1])][y[2]]
        BY <2>2, <3>1, <3>2, <3>4 DEF TypeOK
      <4>2. y \in delivered
        BY <2>2, <3>4
      <4> QED
        BY <1>5, <1>7, <4>1, <4>2
    <3> QED
      BY <3>3, <3>4
  <2> QED
    BY <1>1, <2>1, <2>2
<1>8. GroupInv'
  BY <1>1, <1>3, <1>4, <1>5, <1>7 DEF GroupInv, n, G
<1>9. OwnResultsCounted'
  <2> SUFFICES ASSUME NEW k \in DOMAIN evals, NEW y \in delivered', y[1] = evals[k].slot
               PROVE  <<y[2], y[1]>> \in evals[k].samples
    BY <1>1 DEF OwnResultsCounted
  <2>1. evals[k].slot \in Scored
    BY DEF ResultsInv
  <2>2. y \in delivered
    BY <1>1, <1>3, <1>6, <2>1
  <2> QED
    BY <2>2 DEF ResultsInv, OwnResultsCounted
<1>10. \A y \in delivered' : y[1] \in Scored \/ y[1] \in G
  BY <1>1, <1>6 DEF ResultsInv, n, G
<1> QED
  BY <1>1, <1>3, <1>8, <1>9, <1>10 DEF ResultsInv, n, G

\* Scoring reads the directories of the group as its runs left them.
LEMMA ScoreCounts ==
  ASSUME TypeOK, ToldInv, ResultsInv, Score
  PROVE  ResultsInv'
<1> DEFINE n == Min(todo)
           m == Cardinality(Group(n))
<1>1. /\ pc = "score" /\ pc' = "group" /\ todo' = todo \ {n}
      /\ UNCHANGED <<asked, delivered, disk>>
  BY DEF Score, Goto
<1>2. n \in todo
  BY <1>1, MinIn, SearchAssumption DEF ToldInv, TypeOK
<1>3. /\ DOMAIN evals = 1 .. Len(evals) /\ Len(evals) \in Nat /\ m \in Nat
      /\ DOMAIN evals' = 1 .. Len(evals) + m
      /\ \A k \in 1 .. Len(evals) : evals'[k] = evals[k]
      /\ \A i \in 1 .. m : evals'[Len(evals) + i] = Evaluation(Nth(Group(n), i))
  BY ScoreAppends
<1>4. \A i \in 1 .. m : Nth(Group(n), i) \in Group(n)
  BY GroupScored
<1>5. Scored' = Scored \cup Group(n) /\ Group(n) \subseteq Slots
  BY <1>1, <1>2 DEF Scored, Group
<1>6. \A x \in delivered :
        x[1] \in Group(n) => disk[ConfigName(x[1])][x[2]] = x[1]
  BY <1>1 DEF ResultsInv, GroupInv
<1> HIDE DEF n, m
<1>7. ASSUME NEW k \in DOMAIN evals'
      PROVE  \/ k \in DOMAIN evals /\ evals'[k] = evals[k]
             \/ \E s \in Group(n) : evals'[k] = Evaluation(s)
  <2>1. CASE k \in 1 .. Len(evals)
    BY <1>3, <2>1
  <2>2. CASE k \notin 1 .. Len(evals)
    <3>1. k - Len(evals) \in 1 .. m /\ k = Len(evals) + (k - Len(evals))
      BY <1>3, <2>2
    <3> QED
      BY <1>3, <1>4, <3>1
  <2> QED
    BY <2>1, <2>2
<1>8. ASSUME NEW s \in Group(n), NEW x \in delivered, x[1] = s
      PROVE  <<x[2], x[1]>> \in Evaluation(s).samples
  <2>1. x[2] \in RunNumbers /\ x[1] \in Slots /\ x[1] # NoFile
    BY SearchAssumption DEF TypeOK, Runs, Slots
  <2>2. disk[ConfigName(s)][x[2]] = x[1]
    BY <1>6, <1>8
  <2> QED
    BY <2>1, <2>2 DEF Evaluation, Samples
<1>9. OwnResultsCounted'
  <2> SUFFICES ASSUME NEW k \in DOMAIN evals', NEW x \in delivered, x[1] = evals'[k].slot
               PROVE  <<x[2], x[1]>> \in evals'[k].samples
    BY <1>1 DEF OwnResultsCounted
  <2>1. CASE k \in DOMAIN evals /\ evals'[k] = evals[k]
    BY <2>1 DEF ResultsInv, OwnResultsCounted
  <2>2. CASE \E s \in Group(n) : evals'[k] = Evaluation(s)
    <3>1. PICK s \in Group(n) : evals'[k] = Evaluation(s)
      BY <2>2
    <3>2. x[1] = s
      BY <3>1 DEF Evaluation
    <3> QED
      BY <1>8, <3>1, <3>2
  <2> QED
    BY <1>7, <2>1, <2>2
<1>10. \A k \in DOMAIN evals' : evals'[k].slot \in Scored'
  <2> TAKE k \in DOMAIN evals'
  <2>1. CASE k \in DOMAIN evals /\ evals'[k] = evals[k]
    BY <1>5, <2>1 DEF ResultsInv
  <2>2. CASE \E s \in Group(n) : evals'[k] = Evaluation(s)
    BY <1>5, <2>2 DEF Evaluation
  <2> QED
    BY <1>7, <2>1, <2>2
<1>11. \A x \in delivered : x[1] \in Scored'
  BY <1>5 DEF ResultsInv, n
<1> QED
  BY <1>1, <1>9, <1>10, <1>11 DEF ResultsInv, GroupInv

LEMMA ResultsStep ==
  ASSUME TypeOK, ToldInv, ResultsInv, [Next]_vars
  PROVE  ResultsInv'
<1> USE DEF Goto
<1>1. CASE RaiseInBatch \/ Tell
  <2>1. evals' = <<>> /\ delivered' = {} /\ pc' \in {"deactivate", "stopping", "decide"}
    BY <1>1 DEF RaiseInBatch, Tell, AfterGroups
  <2> QED
    BY <2>1, ResultsEmpty
<1>2. CASE Ask
  <2>1. pc = "ask" /\ pc' \in {"baseline", "group"} /\ UNCHANGED <<evals, delivered>>
    BY <1>2 DEF Ask
  <2>2. evals = <<>> /\ delivered = {}
    BY <2>1 DEF ToldInv, ResultsInv
  <2> QED
    BY <2>1, <2>2, ResultsEmpty
<1>3. CASE RunGroup
  <2>1. /\ pc = "group" /\ pc' = "run" /\ UNCHANGED <<asked, todo, evals, delivered, disk>>
        /\ todo # {} /\ pending' = Group(Min(todo)) \X (0 .. Min(todo) - 1)
        /\ Composes(Min(todo))
    BY <1>3 DEF RunGroup
  <2>2. Min(todo) \in todo
    BY <2>1, MinIn, SearchAssumption DEF TypeOK
  <2>3. \A x \in delivered : x[1] \in Scored /\ x[1] \notin Group(Min(todo))
    BY <2>1, <2>2 DEF ResultsInv, Scored, Group
  <2>4. \A x \in pending' : x[1] \in Group(Min(todo))
    BY <2>1
  <2>5. \A s, t \in Group(Min(todo)) : ConfigName(s) = ConfigName(t) => s = t
    BY <2>1 DEF Composes
  <2> QED
    BY <2>1, <2>3, <2>4, <2>5, ResultsFrame
<1>4. CASE Score
  BY <1>4, ScoreCounts
<1>5. CASE EndGroup
  <2>1. /\ pc = "run" /\ pc' = "score"
        /\ UNCHANGED <<asked, todo, evals, delivered, disk, pending>>
    BY <1>5 DEF EndGroup
  <2> QED
    BY <2>1, ResultsFrame DEF ResultsInv, GroupInv
<1>6. CASE BeginProgress \/ EndGroups \/ EndProgress \/ StopSearch \/ NextBatch \/ RaiseInLoop \/ EndRun
  <2>1. /\ pc \notin {"run", "score"} /\ pc' \notin {"run", "score"}
        /\ pc' \in {"ask", "decide"} => pc \in {"ask", "decide"}
        /\ UNCHANGED <<asked, todo, evals, delivered, disk>>
    BY <1>6 DEF BeginProgress, EndGroups, EndProgress, StopSearch, NextBatch, RaiseInLoop, EndRun,
       AfterGroups
  <2> QED
    BY <2>1, ResultsFrame DEF ResultsInv
<1>7. CASE Poller \/ UNCHANGED vars
  <2>1. UNCHANGED <<pc, asked, todo, evals, delivered, disk, pending>>
    BY <1>7 DEF Poller, vars, loopVars
  <2> QED
    BY <2>1, ResultsFrame DEF ResultsInv, GroupInv
<1>8. CASE \E x \in Runs : EndOfRun(x)
  BY <1>8, RunDelivers
<1> QED
  BY <1>1, <1>2, <1>3, <1>4, <1>5, <1>6, <1>7, <1>8 DEF Next, MainStep, RunSearchBatch

\* One for one, so as many for each parameter set.
LEMMA ToldRight ==
  ASSUME TypeOK, ToldInv
  PROVE  ToldWhatWasAsked
<1> SUFFICES ASSUME pc = "tell", NEW i \in Ids
             PROVE  Quantify(DOMAIN evals, LAMBDA k : evals[k].id = i)
                      = Quantify(Slots, LAMBDA s : asked[s].id = i)
  BY DEF ToldWhatWasAsked
<1> DEFINE A == {k \in DOMAIN evals : evals[k].id = i}
           B == {s \in Slots : asked[s].id = i}
<1>1. PICK g \in [DOMAIN evals -> Slots] : OneEach(g)
  BY DEF ToldInv, Batching
<1>2. Scored = Slots
  BY DEF ToldInv, Scored
<1>3. /\ \A j, k \in DOMAIN evals : g[j] = g[k] => j = k
      /\ \A s \in Slots : \E k \in DOMAIN evals : g[k] = s
      /\ \A k \in DOMAIN evals : evals[k].id = asked[g[k]].id
  BY <1>1, <1>2 DEF OneEach, Bijection, Injection, Surjection, IsInjective
<1> DEFINE h == [k \in A |-> g[k]]
<1>4. h \in Bijection(A, B)
  <2>1. h \in [A -> B]
    BY <1>1, <1>3
  <2>2. \A j, k \in A : h[j] = h[k] => j = k
    BY <1>3
  <2>3. \A s \in B : \E k \in A : h[k] = s
    BY <1>3
  <2> HIDE DEF A, B, h
  <2> QED
    BY <2>1, <2>2, <2>3 DEF Bijection, Injection, Surjection, IsInjective
<1>5. IsFiniteSet(A)
  <2>1. DOMAIN evals = 1 .. Len(evals) /\ Len(evals) \in Nat
    BY DEF TypeOK
  <2>2. IsFiniteSet(DOMAIN evals)
    BY <2>1, FS_Interval
  <2> QED
    BY <2>2, FS_Subset, A \in SUBSET DOMAIN evals
<1>6. Cardinality(A) = Cardinality(B)
  <2> HIDE DEF A, B, h
  <2>1. ExistsBijection(A, B)
    BY <1>4 DEF ExistsBijection
  <2> QED
    BY <1>5, <2>1, FS_Bijection
<1> QED
  BY <1>6 DEF Quantify

-----------------------------------------------------------------------------
(* The stop conditions.                                                    *)

LEMMA ReachedTyped ==
  ASSUME TypeOK, batch = Len(scores), NEW n \in 0 .. batch
  PROVE  /\ ReachedBy(n) \in SUBSET (Values \cup {None})
         /\ ReachedBy(n) \in SUBSET Int
         /\ BestUpTo(n) = Max(ReachedBy(n))
<1>1. scores \in Seq(Values \cup {None}) /\ batch \in Nat
  BY DEF TypeOK
<1>2. \A k \in 1 .. n : k \in 1 .. Len(scores) /\ scores[k] \in Values \cup {None}
  BY <1>1
<1>3. Values \cup {None} \subseteq Int
  BY SearchAssumption DEF None
<1> QED
  BY <1>2, <1>3 DEF ReachedBy, BestUpTo

\* The best so far never falls.
LEMMA BestGrows ==
  ASSUME TypeOK, StopInv, NEW n \in 0 .. batch, NEW m \in 0 .. n
  PROVE  /\ BestUpTo(m) \in Values \cup {None} /\ BestUpTo(m) \in Int
         /\ BestUpTo(m) <= BestUpTo(n) /\ BestUpTo(m) >= None
<1>1. m \in 0 .. batch /\ batch \in Nat
  BY DEF TypeOK
<1>2. IsBest(m, BestUpTo(m)) /\ IsBest(n, BestUpTo(n))
  BY <1>1 DEF StopInv
<1>3. ReachedBy(m) \subseteq ReachedBy(n) /\ None \in ReachedBy(m)
  BY DEF ReachedBy
<1>4. /\ ReachedBy(m) \in SUBSET (Values \cup {None}) /\ ReachedBy(m) \in SUBSET Int
      /\ ReachedBy(n) \in SUBSET Int
  BY <1>1, ReachedTyped DEF StopInv
<1>5. /\ BestUpTo(m) \in ReachedBy(m) /\ BestUpTo(n) \in ReachedBy(n)
      /\ BestUpTo(m) >= None
      /\ BestUpTo(n) >= BestUpTo(m)
  BY <1>2, <1>3 DEF IsBest
<1>6. BestUpTo(m) \in Int /\ BestUpTo(n) \in Int /\ BestUpTo(m) \in Values \cup {None}
  BY <1>4, <1>5
<1> HIDE DEF BestUpTo
<1> QED
  BY <1>5, <1>6

\* _record appends the best after the batch that has just ended.
LEMMA RecordFollows ==
  ASSUME TypeOK, StopInv, pc = "decide"
  PROVE  Follows(Record(history), batch)
<1> DEFINE n == batch - 1
           l == Len(history)
<1>1. /\ history \in Seq(Values) /\ l \in Nat /\ batch \in Nat /\ batch > 0 /\ n \in 0 .. batch
      /\ batch \in 0 .. batch
  BY DEF TypeOK, StopInv
<1>2. /\ l <= n
      /\ \A j \in 1 .. l : history[j] = BestUpTo(n - l + j)
      /\ \A m \in 0 .. n - l : BestUpTo(m) = None
      /\ best = BestUpTo(batch)
  BY DEF StopInv, Follows, Recorded
<1>3. CASE best = None
  <2>1. Record(history) = history
    BY <1>3 DEF Record
  <2>2. \A m \in 0 .. batch : BestUpTo(m) = None
    <3> SUFFICES ASSUME NEW m \in 0 .. batch PROVE BestUpTo(m) = None
      OBVIOUS
    <3>1. BestUpTo(m) <= BestUpTo(batch) /\ BestUpTo(m) >= None /\ BestUpTo(m) \in Int
      BY <1>1, BestGrows
    <3> HIDE DEF BestUpTo
    <3> QED
      BY <1>2, <1>3, <3>1 DEF None
  <2>3. l = 0
    <3>1. CASE l > 0
      <4>1. l \in 1 .. l /\ n - l + l = n
        BY <1>1, <3>1
      <4>2. history[l] = None /\ history[l] \in Values
        BY <1>1, <1>2, <2>2, <4>1
      <4> QED
        BY <4>2, SearchAssumption DEF None
    <3> QED
      BY <1>1, <3>1
  <2> QED
    BY <1>1, <2>1, <2>2, <2>3 DEF Follows
<1>4. CASE best # None
  <2> DEFINE h == Append(history, best)
  <2>1. Record(history) = h
    BY <1>4 DEF Record
  <2>2. Len(h) = l + 1 /\ (\A j \in 1 .. l : h[j] = history[j]) /\ h[l + 1] = best
    BY <1>1
  <2> HIDE DEF h
  <2>3. Len(h) <= batch /\ batch - Len(h) = n - l
    BY <1>1, <1>2, <2>2
  <2>4. ASSUME NEW j \in 1 .. Len(h) PROVE h[j] = BestUpTo(batch - Len(h) + j)
    <3>1. CASE j \in 1 .. l
      BY <1>1, <1>2, <2>2, <2>3, <3>1
    <3>2. CASE j \notin 1 .. l
      <4>1. j = l + 1
        BY <1>1, <2>2, <3>2
      <4>2. batch - Len(h) + j = batch
        BY <1>1, <2>2, <4>1
      <4> QED
        BY <1>2, <2>2, <4>1, <4>2
    <3> QED
      BY <3>1, <3>2
  <2> QED
    BY <1>2, <2>1, <2>3, <2>4 DEF Follows
<1> QED
  BY <1>3, <1>4

\* Then the criterion looks at the right two entries.
LEMMA FiresRight ==
  ASSUME TypeOK, StopInv, pc = "decide"
  PROVE  NoImprovement(Record(history)) <=> Stagnant
<1> DEFINE h == Record(history)
           l == Len(h)
<1>1. /\ h \in Seq(Values) /\ l \in Nat /\ batch \in Nat
      /\ Patience \in Nat \ {0} /\ MinDelta \in Nat
  BY BestTyped, SearchAssumption DEF TypeOK
<1>2. /\ l <= batch
      /\ \A j \in 1 .. l : h[j] = BestUpTo(batch - l + j)
      /\ \A m \in 0 .. batch - l : BestUpTo(m) = None
  BY RecordFollows DEF Follows
<1>3. CASE l > Patience
  <2>1. l \in 1 .. l /\ l - Patience \in 1 .. l /\ batch - l + l = batch
        /\ batch - l + (l - Patience) = batch - Patience /\ batch > Patience
    BY <1>1, <1>2, <1>3
  <2>2. h[l] = BestUpTo(batch) /\ h[l - Patience] = BestUpTo(batch - Patience)
    BY <1>2, <2>1
  <2>3. h[l] \in Nat /\ h[l - Patience] \in Nat
    <3>1. h[l] \in Values /\ h[l - Patience] \in Values
      <4> HIDE DEF h
      <4> QED
        BY <1>1, <2>1
    <3> QED
      BY <3>1, SearchAssumption
  <2>4. BestUpTo(batch - Patience) # None
    BY <2>2, <2>3 DEF None
  <2> HIDE DEF h, l, BestUpTo
  <2>5. ~Improved(h[l], h[l - Patience])
          <=> BestUpTo(batch) <= BestUpTo(batch - Patience) + MinDelta
    BY <1>1, <2>2, <2>3 DEF Improved
  <2> QED
    BY <1>3, <2>1, <2>4, <2>5 DEF NoImprovement, Stagnant, h, l
<1>4. CASE ~(l > Patience)
  <2>1. ~NoImprovement(h)
    BY <1>4 DEF NoImprovement
  <2>2. ASSUME batch > Patience PROVE BestUpTo(batch - Patience) = None
    <3>1. batch - Patience \in 0 .. batch - l
      BY <1>1, <1>4, <2>2
    <3> QED
      BY <1>2, <3>1
  <2> QED
    BY <2>1, <2>2 DEF Stagnant
<1> QED
  BY <1>3, <1>4

LEMMA TellStops ==
  ASSUME TypeOK, StopInv, Tell
  PROVE  StopInv'
<1>1. PICK v \in Values \cup {None} : best' = Max({best, v}) /\ scores' = Append(scores, v)
  BY DEF Tell
<1>2. /\ pc = "tell" /\ pc' = "decide" /\ batch' = batch + 1
      /\ UNCHANGED <<history, ended>> /\ ended = "none"
  BY DEF Tell, Goto, StopInv
<1>3. /\ scores \in Seq(Values \cup {None}) /\ batch \in Nat /\ batch = Len(scores)
      /\ best \in Values \cup {None} /\ history \in Seq(Values)
  BY DEF TypeOK, StopInv
<1>4. /\ Len(scores') = batch + 1 /\ scores'[batch + 1] = v
      /\ \A k \in 1 .. batch : scores'[k] = scores[k]
  BY <1>1, <1>3
<1>5. ASSUME NEW n \in 0 .. batch
      PROVE  ReachedBy(n)' = ReachedBy(n) /\ BestUpTo(n)' = BestUpTo(n)
  <2>1. \A k \in 1 .. n : scores'[k] = scores[k]
    BY <1>3, <1>4
  <2>2. {scores'[k] : k \in 1 .. n} = {scores[k] : k \in 1 .. n}
    BY <2>1
  <2> QED
    BY <2>2 DEF ReachedBy, BestUpTo
<1>0. PICK l \in Nat : l = batch + 1
  BY <1>3
<1>6. ReachedBy(l)' = ReachedBy(batch) \cup {v}
  <2>1. \A k \in 1 .. l : k \in 1 .. batch \/ k = l
    BY <1>3, <1>0
  <2>2. \A k \in 1 .. batch : k \in 1 .. l
    BY <1>3, <1>0
  <2>3. l \in 1 .. l
    BY <1>3, <1>0
  <2>4. {scores'[k] : k \in 1 .. l} = {scores[k] : k \in 1 .. batch} \cup {v}
    BY <1>4, <1>0, <2>1, <2>2, <2>3
  <2> QED
    BY <2>4 DEF ReachedBy
<1>7. IsBest(batch, best)
  BY <1>3 DEF StopInv
<1>8. best' \in {best, v} /\ best' >= best /\ best' >= v
  BY <1>1, BestTyped
<1>9. ReachedBy(l)' \in SUBSET Int /\ best' \in ReachedBy(l)'
  <2>1. ReachedBy(batch) \in SUBSET Int /\ best \in ReachedBy(batch)
    BY <1>3, <1>7, ReachedTyped DEF IsBest
  <2>2. v \in Int
    BY SearchAssumption DEF None
  <2> QED
    BY <1>6, <1>8, <2>1, <2>2
<1>10. \A y \in ReachedBy(l)' : best' >= y
  <2>1. ASSUME NEW y \in ReachedBy(batch) PROVE best' >= y
    <3>1. best >= y
      BY <1>7 DEF IsBest
    <3>2. y \in Int /\ best \in Int /\ best' \in Int
      BY <1>3, <1>6, <1>7, <1>9 DEF IsBest
    <3> QED
      BY <1>8, <3>1, <3>2
  <2> QED
    BY <1>6, <1>8, <2>1
<1>11. BestUpTo(l)' = best'
  <2>1. \A S \in SUBSET Int : \A b \in S : (\A y \in S : b >= y) => Max(S) = b
    BY MaxIs
  <2>2. Max(ReachedBy(l)') = best'
    BY <1>9, <1>10, <2>1
  <2> QED
    BY <2>2 DEF BestUpTo, ReachedBy
<1>12. \A n \in 0 .. l : IsBest(n, BestUpTo(n))'
  <2> SUFFICES ASSUME NEW n \in 0 .. l PROVE IsBest(n, BestUpTo(n))'
    OBVIOUS
  <2>1. CASE n \in 0 .. batch
    <3>1. IsBest(n, BestUpTo(n))
      BY <2>1 DEF StopInv
    <3>2. ReachedBy(n)' = ReachedBy(n) /\ BestUpTo(n)' = BestUpTo(n)
      BY <1>5, <2>1
    <3> QED
      BY <3>1, <3>2 DEF IsBest
  <2>2. CASE n = l
    <3>1. IsBest(l, BestUpTo(l))'
      BY <1>9, <1>10, <1>11 DEF IsBest
    <3> QED
      BY <2>2, <3>1
  <2> QED
    BY <1>3, <1>0, <2>1, <2>2
<1>13. Follows(history, Recorded)'
  <2>1. /\ Len(history) <= batch
        /\ \A j \in 1 .. Len(history) : history[j] = BestUpTo(batch - Len(history) + j)
        /\ \A m \in 0 .. batch - Len(history) : BestUpTo(m) = None
    BY <1>2 DEF StopInv, Follows, Recorded
  <2>2. Recorded' = batch /\ history' = history
    BY <1>2, <1>3 DEF Recorded
  <2>3. Len(history) \in Nat
    BY <1>3
  <2>4. ASSUME NEW j \in 1 .. Len(history)
        PROVE  (history[j] = BestUpTo(Recorded - Len(history) + j))'
    <3>1. PICK i \in 0 .. batch : i = batch - Len(history) + j
      BY <1>3, <2>1, <2>3
    <3>2. BestUpTo(i)' = BestUpTo(i)
      BY <1>5
    <3>3. (Recorded - Len(history) + j)' = i
      BY <2>2, <3>1
    <3>4. history[j] = BestUpTo(i)
      BY <2>1, <3>1
    <3>5. BestUpTo(Recorded - Len(history) + j)' = BestUpTo(i)'
      BY <3>3 DEF BestUpTo
    <3> QED
      BY <2>2, <3>2, <3>4, <3>5
  <2>5. ASSUME NEW m \in 0 .. batch - Len(history) PROVE BestUpTo(m)' = None
    BY <1>3, <1>5, <2>1, <2>3
  <2>6. (Len(history) <= Recorded)'
    BY <2>1, <2>2
  <2>7. (\A j \in 1 .. Len(history) : history[j] = BestUpTo(Recorded - Len(history) + j))'
    BY <2>2, <2>4
  <2>8. (\A m \in 0 .. Recorded - Len(history) : BestUpTo(m) = None)'
    BY <2>2, <2>5
  <2> QED
    BY <2>6, <2>7, <2>8 DEF Follows
<1>14. NoImprovementExact'
  BY <1>2 DEF NoImprovementExact
<1>15. batch' = l
  BY <1>2, <1>0
<1>16. (best = BestUpTo(batch))'
  <2>1. BestUpTo(batch)' = BestUpTo(l)'
    BY <1>15 DEF BestUpTo
  <2> QED
    BY <1>11, <2>1
<1> QED
  BY <1>2, <1>3, <1>4, <1>0, <1>12, <1>13, <1>14, <1>15, <1>16 DEF StopInv

\* The batches and their objectives stay; the history is that of batch n.
LEMMA StopFrame ==
  ASSUME TypeOK, StopInv, UNCHANGED <<batch, scores, best>>,
         NEW n \in {batch - 1, batch}, Recorded' = n, Follows(history', n),
         pc' = "decide" => pc = "decide",
         ended' # "none" => pc' \in {"stopping", "done"},
         ended' = "no_improvement" => Stagnant,
         pc' = "ask" => ~Stagnant
  PROVE  StopInv'
<1>1. \A m : BestUpTo(m)' = BestUpTo(m) /\ ReachedBy(m)' = ReachedBy(m)
  BY DEF BestUpTo, ReachedBy
<1>2. \A m : IsBest(m, BestUpTo(m)) => IsBest(m, BestUpTo(m))'
  BY <1>1 DEF IsBest
<1>3. Stagnant' = Stagnant
  BY DEF Stagnant, BestUpTo
<1>4. BestUpTo(batch)' = BestUpTo(batch)
  BY DEF BestUpTo
<1>5. Follows(history, Recorded)'
  <2>1. Len(history') <= n
        /\ (\A j \in 1 .. Len(history') : history'[j] = BestUpTo(n - Len(history') + j))
        /\ (\A m \in 0 .. n - Len(history') : BestUpTo(m) = None)
    BY DEF Follows
  <2>2. (\A j \in 1 .. Len(history) : history[j] = BestUpTo(Recorded - Len(history) + j))'
    BY <2>1 DEF BestUpTo
  <2>3. (\A m \in 0 .. Recorded - Len(history) : BestUpTo(m) = None)'
    BY <1>1, <2>1
  <2> QED
    BY <2>1, <2>2, <2>3 DEF Follows
<1> QED
  BY <1>2, <1>3, <1>4, <1>5 DEF StopInv, NoImprovementExact

LEMMA StopStep ==
  ASSUME TypeOK, StopInv, [Next]_vars
  PROVE  StopInv'
<1>1. batch \in Nat /\ Follows(history, Recorded)
  BY DEF TypeOK, StopInv
<1>2. ASSUME UNCHANGED <<batch, scores, best, history, ended>>, pc # "decide", pc' # "decide",
             pc' # "ask", pc \in {"stopping", "done"} => pc' \in {"stopping", "done"}
      PROVE  StopInv'
  <2>1. Recorded = batch /\ Recorded' = batch
    BY <1>2 DEF Recorded
  <2> QED
    BY <1>1, <1>2, <2>1, StopFrame DEF StopInv, NoImprovementExact
<1>3. ASSUME UNCHANGED <<batch, scores, best, history, ended, pc>>
      PROVE  StopInv'
  <2>1. Recorded' = Recorded /\ Recorded \in {batch - 1, batch}
    BY <1>3 DEF Recorded
  <2> QED
    BY <1>1, <1>3, <2>1, StopFrame DEF StopInv, NoImprovementExact
<1>4. CASE StopSearch \/ NextBatch
  <2> DEFINE h == Record(history)
  <2>1. /\ pc = "decide" /\ pc' \in {"stopping", "ask"} /\ history' = h
        /\ UNCHANGED <<batch, scores, best>>
    BY <1>4 DEF StopSearch, NextBatch, Goto
  <2>2. Follows(history', batch) /\ Recorded' = batch
    BY <2>1, RecordFollows DEF Recorded
  <2>3. NoImprovement(h) <=> Stagnant
    BY <2>1, FiresRight
  <2>4. FirstFired(h) = "no_improvement" => NoImprovement(h)
    BY DEF FirstFired
  <2>5. FirstFired(h) = "none" => ~NoImprovement(h)
    BY DEF FirstFired
  <2> HIDE DEF h
  <2>6. ended = "none"
    BY <2>1 DEF StopInv
  <2>7. /\ ended' # "none" => pc' \in {"stopping", "done"}
        /\ ended' = "no_improvement" => FirstFired(h) = "no_improvement"
        /\ pc' = "ask" => FirstFired(h) = "none"
    BY <1>4, <2>6 DEF StopSearch, NextBatch, Goto, h
  <2> QED
    BY <2>1, <2>2, <2>3, <2>4, <2>5, <2>7, StopFrame
<1>5. CASE Ask \/ RaiseInLoop \/ EndRun
  <2>1. UNCHANGED <<batch, scores, best, history, ended>>
    BY <1>5 DEF Ask, RaiseInLoop, EndRun, stopVars
  <2>2. \/ pc \in {"ask", "tell"} /\ pc' \in {"baseline", "group", "stopping"}
        \/ pc = "stopping" /\ pc' = "done"
    BY <1>5 DEF Ask, RaiseInLoop, EndRun, Goto
  <2> QED
    BY <1>2, <2>1, <2>2
<1>6. CASE RunSearchBatch
  <2>1. UNCHANGED <<batch, scores, best, history, ended>>
    BY <1>6 DEF RunSearchBatch, BeginProgress, RunGroup, EndGroup, Score, EndGroups,
       RaiseInBatch, EndProgress, stopVars
  <2>2. /\ pc \in {"baseline", "total", "none", "activate", "group", "run", "score",
                   "deactivate", "all"}
        /\ pc' \in {"total", "none", "activate", "group", "run", "score", "deactivate",
                    "all", "tell", "stopping"}
    BY <1>6 DEF RunSearchBatch, BeginProgress, RunGroup, EndGroup, Score, EndGroups,
       RaiseInBatch, EndProgress, AfterGroups, Goto
  <2> QED
    BY <1>2, <2>1, <2>2
<1>7. CASE (\E x \in Runs : EndOfRun(x)) \/ Poller \/ UNCHANGED vars
  BY <1>3, <1>7 DEF EndOfRun, Poller, vars, loopVars, stopVars
<1> QED
  BY <1>4, <1>5, <1>6, <1>7, TellStops DEF Next, MainStep

-----------------------------------------------------------------------------
(* The poller.                                                             *)

\* A step of the loop that leaves the poller's numbers alone.
LEMMA PollFrame ==
  ASSUME TypeOK, DiskInv, PollInv, UNCHANGED <<polling, baseline, total, trusted, counted, poll>>,
         Stored \in Nat, Stored' \in Nat, Stored <= Stored',
         BatchRuns' = BatchRuns \/ (~active' /\ pc' \notin {"none", "activate"}),
         fresh' => fresh,
         active' => pc' \in {"group", "run", "score", "deactivate"},
         active' => active \/ pc = "activate",
         pc' \in {"none", "activate"} => pc \in {"none", "activate"},
         pc' \in {"total", "none", "activate"} => pc \in {"total", "none", "activate"},
         pc' \in {"baseline", "total", "none", "activate", "deactivate", "all"} => polling
  PROVE  PollInv'
<1>1. /\ baseline \in Nat /\ counted \in Nat /\ total \in Nat
  BY DEF TypeOK, ProgressTypeOK
<1>2. trusted => baseline <= Stored'
  BY <1>1 DEF PollInv
<1>3. active' \/ pc' \in {"baseline", "total", "none", "activate", "deactivate", "all"} => polling
  BY DEF PollInv
<1>4. active' \/ pc' \in {"none", "activate"} => total = BatchRuns'
  BY DEF PollInv
<1>5. pc' \in {"total", "none", "activate"} => ~fresh'
  BY DEF PollInv
<1>6. fresh' =>
         /\ poll = "subtract" => counted <= Stored'
         /\ poll \in {"cap", "publish"} /\ trusted => counted <= Stored' - baseline
         /\ poll = "publish" => counted <= total
  <2> SUFFICES ASSUME fresh'
               PROVE  /\ poll = "subtract" => counted <= Stored'
                      /\ poll \in {"cap", "publish"} /\ trusted => counted <= Stored' - baseline
                      /\ poll = "publish" => counted <= total
    OBVIOUS
  <2>1. /\ poll = "subtract" => counted <= Stored
        /\ poll \in {"cap", "publish"} /\ trusted => counted <= Stored - baseline
        /\ poll = "publish" => counted <= total
    BY DEF PollInv
  <2>2. counted <= Stored => counted <= Stored'
    BY <1>1
  <2>3. counted <= Stored - baseline => counted <= Stored' - baseline
    <3>1. \A a, b, c, d \in Nat : a <= b /\ c <= a - d => c <= b - d
      OBVIOUS
    <3> QED
      BY <1>1, <3>1
  <2> QED
    BY <2>1, <2>2, <2>3
<1> QED
  BY <1>2, <1>3, <1>4, <1>5, <1>6 DEF PollInv

\* Each statement of the poller's round.
LEMMA PollerPolls ==
  ASSUME TypeOK, DiskInv, PollInv, Poller
  PROVE  PollInv'
<1>1. /\ UNCHANGED <<pc, asked, disk>> /\ Stored' = Stored /\ BatchRuns' = BatchRuns
      /\ UNCHANGED <<polling, active, baseline, total, trusted>>
  BY DEF Poller, loopVars, Stored, BatchRuns, PollStep, BeginRound, LeaveLoop, CountRuns,
     CountFails, SubtractBaseline, CapAtTotal, Publish, sharedVars
<1>2. baseline \in Nat /\ counted \in Nat /\ total \in Nat /\ Stored \in Nat
  BY StoredCounted DEF TypeOK, ProgressTypeOK
<1>3. fresh' => fresh \/ active
  BY DEF Poller, PollStep, BeginRound, LeaveLoop, CountRuns, CountFails, SubtractBaseline,
     CapAtTotal, Publish
<1>4. fresh' =>
         /\ poll' = "subtract" => counted' <= Stored
         /\ poll' \in {"cap", "publish"} /\ trusted => counted' <= Stored - baseline
         /\ poll' = "publish" => counted' <= total
  <2> SUFFICES ASSUME fresh'
               PROVE  /\ poll' = "subtract" => counted' <= Stored
                      /\ poll' \in {"cap", "publish"} /\ trusted => counted' <= Stored - baseline
                      /\ poll' = "publish" => counted' <= total
    OBVIOUS
  <2>1. CASE BeginRound \/ LeaveLoop \/ CountFails \/ Publish
    <3>1. poll' \in {"count", "gone", "check"}
      BY <2>1 DEF BeginRound, LeaveLoop, CountFails, Publish
    <3> QED
      BY <3>1
  <2>2. CASE CountRuns(Stored)
    <3>1. poll' = "subtract" /\ counted' = Stored
      BY <2>2 DEF CountRuns
    <3> QED
      BY <1>2, <3>1
  <2>3. CASE SubtractBaseline
    <3>1. /\ poll = "subtract" /\ poll' = "cap" /\ fresh
          /\ counted' = IF counted > baseline THEN counted - baseline ELSE 0
      BY <2>3 DEF SubtractBaseline
    <3>2. counted <= Stored /\ (trusted => baseline <= Stored)
      BY <3>1 DEF PollInv
    <3>3. \A a, b, c \in Nat : a <= c => a - b <= c - b
      OBVIOUS
    <3>4. \A a, b \in Nat : a <= b => 0 <= b - a
      OBVIOUS
    <3> QED
      BY <1>2, <3>1, <3>2, <3>3, <3>4
  <2>4. CASE CapAtTotal
    <3>1. /\ poll = "cap" /\ poll' = "publish" /\ fresh
          /\ counted' = IF counted < total THEN counted ELSE total
      BY <2>4 DEF CapAtTotal
    <3>2. trusted => counted <= Stored - baseline
      BY <3>1 DEF PollInv
    <3>3. counted' <= counted /\ counted' <= total
      BY <1>2, <3>1
    <3>4. \A a, b, c, d \in Nat : a <= b /\ b <= c - d => a <= c - d
      OBVIOUS
    <3>5. counted' \in Nat
      BY <1>2, <3>1
    <3>6. trusted => counted' <= Stored - baseline
      BY <1>2, <3>2, <3>3, <3>4, <3>5
    <3> QED
      BY <3>1, <3>3, <3>6
  <2> QED
    BY <2>1, <2>2, <2>3, <2>4 DEF Poller, PollStep
<1>5. trusted => baseline <= Stored
  BY DEF PollInv
<1>6. /\ active \/ pc \in {"baseline", "total", "none", "activate", "deactivate", "all"} => polling
      /\ active => pc \in {"group", "run", "score", "deactivate"}
      /\ active \/ pc \in {"none", "activate"} => total = BatchRuns
      /\ pc \in {"total", "none", "activate"} => ~fresh'
  BY <1>3 DEF PollInv
<1> QED
  BY <1>1, <1>4, <1>5, <1>6 DEF PollInv

LEMMA PollStepped ==
  ASSUME TypeOK, DiskInv, PollInv, [Next]_vars
  PROVE  PollInv'
<1>1. Stored \in Nat /\ Stored' \in Nat /\ Stored <= Stored'
  <2>1. DiskInv' /\ Stored <= Stored' /\ Stored \in Nat
    BY DiskStep, StoredCounted
  <2>2. Stored' \in Nat
    BY <2>1, FS_CardinalityType DEF DiskInv, Stored, StoredFiles
  <2> QED
    BY <2>1, <2>2
<1>2. ASSUME UNCHANGED asked PROVE BatchRuns' = BatchRuns
  BY <1>2 DEF BatchRuns
<1>3. CASE Ask
  <2>1. UNCHANGED <<polling, baseline, total, trusted, counted, poll, fresh, active>>
    BY <1>3 DEF Ask, progressVars, sharedVars, threadVars
  <2>2. pc = "ask" /\ pc' = IF polling THEN "baseline" ELSE "group"
    BY <1>3 DEF Ask, Goto
  <2>3. ~active
    BY <2>2 DEF PollInv
  <2> QED
    BY <1>1, <2>1, <2>2, <2>3, PollFrame
<1>4. CASE Goto("baseline", "total") /\ TakeBaseline(Stored) /\ BeginProgress
  <2>1. /\ pc = "baseline" /\ pc' = "total" /\ fresh' = FALSE
        /\ trusted' => baseline' = Stored
        /\ UNCHANGED <<polling, active, disk>>
    BY <1>4 DEF Goto, TakeBaseline, BeginProgress
  <2>2. Stored' = Stored /\ polling /\ ~active
    BY <2>1 DEF Stored, PollInv
  <2>3. trusted' => baseline' <= Stored'
    BY <1>1, <2>1, <2>2
  <2> QED
    BY <2>1, <2>2, <2>3 DEF PollInv
<1>5. CASE Goto("total", "none") /\ SetTotal(BatchRuns) /\ BeginProgress
  <2>1. /\ pc = "total" /\ pc' = "none" /\ total' = BatchRuns
        /\ UNCHANGED <<polling, active, baseline, fresh, trusted, asked, disk>>
    BY <1>5 DEF Goto, SetTotal, BeginProgress, threadVars
  <2>2. Stored' = Stored /\ polling /\ ~active /\ ~fresh /\ BatchRuns' = BatchRuns
    BY <1>2, <2>1 DEF Stored, PollInv
  <2>3. trusted => baseline <= Stored
    BY DEF PollInv
  <2> QED
    BY <2>1, <2>2, <2>3 DEF PollInv
<1>6. CASE BeginProgress /\ pc \in {"none", "activate"}
  <2>1. /\ UNCHANGED <<polling, baseline, total, trusted, counted, poll, fresh, asked>>
        /\ \/ pc = "none" /\ pc' = "activate" /\ active' = active
           \/ pc = "activate" /\ pc' = "group" /\ active' = TRUE
    BY <1>6 DEF BeginProgress, Goto, PublishNone, Activate, threadVars
  <2>2. polling /\ ~active
    BY <1>6 DEF PollInv
  <2> QED
    BY <1>1, <1>2, <2>1, <2>2, PollFrame
<1>7. CASE EndProgress
  <2>1. /\ UNCHANGED <<polling, baseline, total, trusted, counted, poll, fresh, asked>>
        /\ \/ pc = "deactivate" /\ pc' = "all" /\ active' = FALSE
           \/ pc = "all" /\ pc' \in {"stopping", "tell"} /\ active' = active
    BY <1>7 DEF EndProgress, Goto, Deactivate, PublishAll, threadVars
  <2>2. polling /\ (pc = "all" => ~active)
    BY <1>7, <2>1 DEF PollInv
  <2> QED
    BY <1>1, <1>2, <2>1, <2>2, PollFrame
<1>8. CASE RunGroup \/ EndGroup \/ Score \/ EndGroups \/ RaiseInBatch
  <2>1. UNCHANGED <<polling, baseline, total, trusted, counted, poll, fresh, active, asked>>
    BY <1>8 DEF RunGroup, EndGroup, Score, EndGroups, RaiseInBatch, progressVars, sharedVars, threadVars
  <2>2. /\ pc \in {"group", "run", "score"}
        /\ IF polling THEN pc' \in {"group", "run", "score", "deactivate"}
                      ELSE pc' \in {"group", "run", "score", "stopping", "tell"}
    BY <1>8 DEF RunGroup, EndGroup, Score, EndGroups, RaiseInBatch, AfterGroups, Goto
  <2>3. active => polling
    BY DEF PollInv
  <2> QED
    BY <1>1, <1>2, <2>1, <2>2, <2>3, PollFrame
<1>9. CASE Tell \/ StopSearch \/ NextBatch \/ RaiseInLoop \/ EndRun
  <2>1. UNCHANGED <<polling, baseline, total, trusted, counted, poll, fresh, active, asked>>
    BY <1>9 DEF Tell, StopSearch, NextBatch, RaiseInLoop, EndRun, StopPolling, progressVars,
       sharedVars, threadVars
  <2>2. /\ pc \in {"tell", "decide", "ask", "stopping"}
        /\ pc' \in {"decide", "stopping", "ask", "done"}
    BY <1>9 DEF Tell, StopSearch, NextBatch, RaiseInLoop, EndRun, Goto
  <2>3. ~active
    BY <2>2 DEF PollInv
  <2> QED
    BY <1>1, <1>2, <2>1, <2>2, <2>3, PollFrame
<1>10. CASE (\E x \in Runs : EndOfRun(x)) \/ UNCHANGED vars
  <2>1. UNCHANGED <<polling, baseline, total, trusted, counted, poll, fresh, active, asked, pc>>
    BY <1>10 DEF EndOfRun, vars, loopVars, progressVars, sharedVars, threadVars
  <2> QED
    BY <1>1, <1>2, <2>1, PollFrame DEF PollInv
<1>11. BeginProgress => \/ Goto("baseline", "total") /\ TakeBaseline(Stored)
                        \/ Goto("total", "none") /\ SetTotal(BatchRuns)
                        \/ pc \in {"none", "activate"}
  BY DEF BeginProgress, Goto
<1> QED
  BY <1>3, <1>4, <1>5, <1>6, <1>7, <1>8, <1>9, <1>10, <1>11, PollerPolls
  DEF Next, MainStep, RunSearchBatch

\* What a step that publishes shows.
LEMMA PublishedRight ==
  ASSUME TypeOK, PollInv, [Next]_vars, poll = "publish", poll' = "check", fresh, active
  PROVE  /\ runs'.total = BatchRuns
         /\ runs'.completed <= runs'.total
         /\ trusted => runs'.completed <= Stored - baseline
<1>1. ASSUME ~Publish PROVE FALSE
  <2>1. MainStep \/ (\E x \in Runs : EndOfRun(x)) \/ UNCHANGED vars => poll' = poll
    BY DEF MainStep, RunSearchBatch, BeginProgress, RunGroup, EndGroup, Score, EndGroups,
       RaiseInBatch, EndProgress, Ask, Tell, StopSearch, NextBatch, RaiseInLoop, EndRun,
       EndOfRun, TakeBaseline, SetTotal, PublishNone, Activate, Deactivate, PublishAll,
       StopPolling, vars, progressVars, sharedVars, threadVars
  <2>2. Poller => poll # "publish" \/ poll' # "check"
    BY <1>1 DEF Poller, PollStep, BeginRound, LeaveLoop, CountRuns, CountFails,
       SubtractBaseline, CapAtTotal
  <2> QED
    BY <2>1, <2>2 DEF Next
<1>2. runs' = [completed |-> counted, total |-> total]
  BY <1>1 DEF Publish
<1>3. total = BatchRuns /\ counted <= total /\ (trusted => counted <= Stored - baseline)
  BY DEF PollInv
<1> QED
  BY <1>2, <1>3

-----------------------------------------------------------------------------
(* The theorems.                                                           *)

LEMMA SearchStarts ==
  ASSUME Init
  PROVE  SearchInv
<1> USE DEF Init, ProgressInit
<1>1. /\ scores = <<>> /\ history = <<>> /\ evals = <<>> /\ batch = 0 /\ pc = "ask"
      /\ todo = {} /\ pending = {} /\ best = None /\ failed = FALSE /\ ended = "none"
      /\ delivered = {} /\ limit \in BatchLimits
      /\ disk = [c \in Names |-> [r \in RunNumbers |-> NoFile]]
  OBVIOUS
<1>2. asked \in [Slots -> ParamSets]
  <2>1. \E p \in ParamSets : TRUE
    BY SearchAssumption
  <2> QED
    BY <2>1
<1>3. TypeOK
  <2>1. ProgressTypeOK
    <3>1. /\ polling \in BOOLEAN /\ active \in BOOLEAN /\ stopPoll \in BOOLEAN
          /\ fresh \in BOOLEAN /\ trusted \in BOOLEAN
      BY Zenon
    <3>2. /\ baseline \in Nat /\ total \in Nat /\ counted \in Nat
          /\ runs \in [completed : Nat, total : Nat] /\ poll \in PollStates
      BY DEF PollStates
    <3> QED
      BY <3>1, <3>2 DEF ProgressTypeOK
  <2>2. disk \in [Names -> [RunNumbers -> Slots \cup {Earlier, NoFile}]]
    BY <1>1
  <2>3. /\ failed \in BOOLEAN /\ ended \in Kinds /\ pc \in LoopStates /\ batch \in Nat
        /\ scores \in Seq(Values \cup {None}) /\ history \in Seq(Values)
        /\ evals \in Seq(Evaluations)
    <3>1. failed \in BOOLEAN
      BY Zenon
    <3>2. \A S : <<>> \in Seq(S)
      OBVIOUS
    <3>3. ended \in Kinds /\ pc \in LoopStates /\ batch \in Nat
      BY <1>1 DEF Kinds, LoopStates
    <3> QED
      BY <1>1, <3>1, <3>2, <3>3
  <2> QED
    BY <1>1, <1>2, <2>1, <2>2, <2>3 DEF TypeOK
<1>4. DiskInv
  <2>1. StoredFiles = {}
    BY <1>1 DEF StoredFiles
  <2> QED
    BY <1>1, <2>1, FS_EmptySet DEF DiskInv
<1>5. ToldInv /\ ResultsInv
  BY <1>1 DEF ToldInv, Batching, ResultsInv, OwnResultsCounted, GroupInv
<1>6. BestUpTo(0) = None /\ ReachedBy(0) = {None}
  <2>1. {scores[k] : k \in 1 .. 0} = {}
    OBVIOUS
  <2>2. Max({None}) = None
    <3>1. {None} \in SUBSET Int /\ None \in Int
      BY DEF None
    <3>2. \A y \in {None} : None >= y
      BY DEF None
    <3> HIDE DEF None
    <3> QED
      BY <3>1, <3>2, MaxIs
  <2> QED
    BY <2>1, <2>2 DEF BestUpTo, ReachedBy
<1>7. StopInv
  <2>1. \A n \in 0 .. batch : n = 0
    BY <1>1
  <2>2. IsBest(0, BestUpTo(0))
    BY <1>6 DEF IsBest, None
  <2>3. Follows(history, Recorded)
    BY <1>1, <1>6 DEF Follows, Recorded
  <2>4. ~Stagnant
    BY <1>1, SearchAssumption DEF Stagnant
  <2> QED
    BY <1>1, <1>6, <2>1, <2>2, <2>3, <2>4 DEF StopInv, NoImprovementExact
<1>8. PollInv
  <2>1. Stored \in Nat
    BY <1>4, StoredCounted
  <2> QED
    BY <1>1, <2>1 DEF PollInv
<1> QED
  BY <1>3, <1>4, <1>5, <1>7, <1>8 DEF SearchInv

LEMMA SearchKeeps ==
  ASSUME SearchInv, [Next]_vars
  PROVE  SearchInv'
BY TypedStep, DiskStep, ToldStep, ResultsStep, StopStep, PollStepped DEF SearchInv

\* In every reachable state of the search loop, for every size of search, the
\* results that a run delivers reach its evaluation, the evaluations stand for the groups
\* that ran, the history follows the best objective and the poller's numbers
\* belong to the batch that is running.
THEOREM SearchInvariant == Spec => []SearchInv
<1>1. Init => SearchInv
  BY SearchStarts
<1>2. SearchInv /\ [Next]_vars => SearchInv'
  BY SearchKeeps
<1> QED
  BY <1>1, <1>2, PTL DEF Spec

\* Every variable of the loop and of the poller keeps to its type.
THEOREM SearchTypeCorrect == Spec => []TypeOK
<1>1. SearchInv => TypeOK
  BY DEF SearchInv
<1> QED
  BY <1>1, SearchInvariant, PTL

\* When the strategy is told a batch, there are as many evaluations of each
\* parameter set as it proposed in this batch, in however many groups they ran.
THEOREM SearchToldWhatWasAsked == Spec => []ToldWhatWasAsked
<1>1. SearchInv => ToldWhatWasAsked
  BY ToldRight DEF SearchInv
<1> QED
  BY <1>1, SearchInvariant, PTL

\* What a run of this batch has delivered is in the evaluation of its parameter
\* set, whatever the other groups wrote and whichever sets share a directory.
THEOREM SearchOwnResultsCounted == Spec => []OwnResultsCounted
<1>1. SearchInv => OwnResultsCounted
  BY DEF SearchInv, ResultsInv
<1> QED
  BY <1>1, SearchInvariant, PTL

\* The search ends for no improvement only if the best objective has stagnated
\* for `patience' batches, and no batch is asked for once it has.
THEOREM SearchNoImprovementExact == Spec => []NoImprovementExact
<1>1. SearchInv => NoImprovementExact
  BY DEF SearchInv, StopInv
<1> QED
  BY <1>1, SearchInvariant, PTL

\* A sample whose round began within the current batch shows the batch's own
\* total, and no more finished runs than there are since the batch began.
THEOREM SearchFreshSamplesRight == Spec => FreshSamplesRight
<1>1. SearchInv /\ [Next]_vars =>
        [poll = "publish" /\ poll' = "check" /\ fresh /\ active =>
           /\ runs'.total = BatchRuns
           /\ runs'.completed <= runs'.total
           /\ trusted => runs'.completed <= Stored - baseline]_vars
  BY PublishedRight DEF SearchInv
<1> QED
  BY <1>1, SearchInvariant, PTL DEF Spec, FreshSamplesRight
=============================================================================
