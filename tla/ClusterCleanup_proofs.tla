------------------------ MODULE ClusterCleanup_proofs ------------------------
(***************************************************************************)
(* The batch runners for any number of campaigns, batches and jobs, as     *)
(* long as no two campaigns share the key of their job names or their      *)
(* label: what a batch collects is complete, and no clean-up reaches into  *)
(* a job that has not finished.  Then the clean-up commands beside them:   *)
(* what a command leaves alone and what a dead controller left needs no    *)
(* condition on names; that the campaigns nobody cleans collect complete   *)
(* batches needs names and labels of their own again.                      *)
(***************************************************************************)
EXTENDS ClusterCleanup, TLAPS

\* A job's name and the campaign that created it agree.
KeysMatch == \A n \in JobNames : NameKey[owner[n]] = n[1]

\* The task has been handed to Kubernetes by its runner.
Submitted(t) ==
    \/ t[2] < batch[t[1]]
    \/ /\ t[2] = batch[t[1]]
       /\ \/ pc[t[1]] = "create" /\ t[3] < next[t[1]]
          \/ pc[t[1]] \in {"poll", "collect", "cleanJobs", "cleanPods", "done"}

\* A submitted task that has not ended still has its job.
NoneLost ==
    \A t \in Tasks :
      Submitted(t) => t \in ended \/ status[JobName(t)] \in {"suspended", "active"}

\* A finished job belongs to a task that has ended, an unfinished one to a
\* task that has not; no job is ever terminating.
StatusTellsEnd ==
    \A t \in Tasks :
      /\ status[JobName(t)] # "terminating"
      /\ status[JobName(t)] \in {"complete", "failed"} => t \in ended
      /\ status[JobName(t)] \in {"suspended", "active"} => t \notin ended

PodsHaveJobs == \A t \in pods : status[JobName(t)] = "active"

\* The part of the poll that is done has missed nobody.
PollSound ==
    \A c \in Campaigns : pc[c] = "poll" =>
      \A i \in Indices : i < next[c] => i \in remaining[c] \/ Task(c, i) \in ended

Fetched(t) ==
    \/ t[2] < batch[t[1]]
    \/ t[2] = batch[t[1]] /\ pc[t[1]] \in {"cleanJobs", "cleanPods", "done"}

\* What is fetched, or about to be, has ended.
FetchedHasEnded ==
    \A t \in Tasks :
      (Fetched(t) \/ (t[2] = batch[t[1]] /\ pc[t[1]] = "collect")) => t \in ended

\* Only a task that its runner has reached has a job or has ended.
Reached(t) ==
    \/ t[2] < batch[t[1]]
    \/ /\ t[2] = batch[t[1]]
       /\ pc[t[1]] # "stage"
       /\ pc[t[1]] # "create" \/ t[3] < next[t[1]]

OnlyReached ==
    \A t \in Tasks : (t \in ended \/ Present(JobName(t))) => Reached(t)

\* Results come from ended tasks, and those of a fetched batch are there.
ResultsFetched ==
    \A t \in results : t \in ended /\ (Fetched(t) => t \in root)

RunnerInv ==
    /\ TypeOK
    /\ KeysMatch
    /\ NoneLost
    /\ StatusTellsEnd
    /\ PodsHaveJobs
    /\ PollSound
    /\ FetchedHasEnded
    /\ OnlyReached
    /\ ResultsFetched

-----------------------------------------------------------------------------
(* Names and tasks stand for each other.                                   *)

LEMMA TaskParts ==
  ASSUME NEW t \in Tasks
  PROVE  /\ t[1] \in Campaigns /\ t[2] \in Batches /\ t[3] \in Indices
         /\ t = <<t[1], t[2], t[3]>>
         /\ JobName(t) \in JobNames
  BY DEF Tasks, JobNames

LEMMA TaskMade ==
  ASSUME TypeOK, NEW c \in Campaigns, NEW i \in Indices
  PROVE  /\ Task(c, i) \in Tasks
         /\ Task(c, i)[1] = c /\ Task(c, i)[2] = batch[c] /\ Task(c, i)[3] = i
  BY DEF TypeOK, RunnerTypeOK, Task, Tasks

LEMMA Naming ==
  ASSUME NamesDistinct, TypeOK, KeysMatch, NEW n \in JobNames
  PROVE  /\ TaskOf(n) \in Tasks
         /\ JobName(TaskOf(n)) = n
         /\ \A t \in Tasks : JobName(t) = n => t = TaskOf(n)
<1>1. PICK t \in Tasks : n = JobName(t)
  BY DEF JobNames
<1>2. /\ owner[n] \in Campaigns
      /\ NameKey[owner[n]] = n[1]
  BY DEF TypeOK, ClusterTypeOK, KeysMatch
<1>3. n[1] = NameKey[t[1]] /\ n[2] = t[2] /\ n[3] = t[3]
  BY <1>1 DEF JobName
<1>4. owner[n] = t[1]
  BY <1>2, <1>3, TaskParts DEF NamesDistinct
<1>5. TaskOf(n) = t
  BY <1>3, <1>4, TaskParts DEF TaskOf
<1>6. ASSUME NEW u \in Tasks, JobName(u) = n
      PROVE  u = t
  <2>1. NameKey[u[1]] = NameKey[t[1]] /\ u[2] = t[2] /\ u[3] = t[3]
    BY <1>3, <1>6 DEF JobName
  <2>2. u[1] = t[1]
    BY <2>1, TaskParts DEF NamesDistinct
  <2> QED
    BY <2>1, <2>2, TaskParts
<1> QED
  BY <1>1, <1>5, <1>6
-----------------------------------------------------------------------------
(* Every step preserves the invariant.                                     *)

LEMMA AdmitStep ==
  ASSUME NamesDistinct, RunnerInv, NEW n \in JobNames, Admit(n), UNCHANGED runnerVars
  PROVE  RunnerInv'
<1> DEFINE t == TaskOf(n)
<1> USE DEF RunnerInv, Admit, runnerVars
<1>1. t \in Tasks /\ JobName(t) = n
  BY Naming
<1>2. ASSUME NEW u \in Tasks, u # t
      PROVE  status'[JobName(u)] = status[JobName(u)]
  <2>1. JobName(u) # n /\ JobName(u) \in JobNames
    BY <1>1, Naming, TaskParts, u # t
  <2> QED
    BY <2>1 DEF TypeOK, ClusterTypeOK
<1>3. status'[JobName(t)] = "active"
  BY <1>1 DEF TypeOK, ClusterTypeOK
<1>4. TypeOK'
  BY <1>1 DEF TypeOK, ClusterTypeOK, RunnerTypeOK, JobStatus
<1>5. KeysMatch'
  BY DEF KeysMatch
<1> HIDE DEF t
<1>6. NoneLost'
  BY <1>1, <1>2, <1>3 DEF NoneLost, Submitted, StatusTellsEnd, t
<1>7. StatusTellsEnd'
  BY <1>1, <1>2, <1>3 DEF StatusTellsEnd, t
<1>8. PodsHaveJobs'
  BY <1>1, <1>2, <1>3 DEF PodsHaveJobs, TypeOK, ClusterTypeOK, t
<1>9. PollSound'
  BY DEF PollSound, Task
<1>10. FetchedHasEnded'
  BY DEF FetchedHasEnded, Fetched
<1>11. OnlyReached'
  BY <1>1, <1>2, <1>3 DEF OnlyReached, Reached, Present, t
<1>12. ResultsFetched'
  BY <1>1 DEF ResultsFetched, FetchedHasEnded, Fetched, StatusTellsEnd, t
<1> QED
  BY <1>4, <1>5, <1>6, <1>7, <1>8, <1>9, <1>10, <1>11, <1>12

LEMMA PreemptStep ==
  ASSUME NamesDistinct, RunnerInv, NEW n \in JobNames, Preempt(n), UNCHANGED runnerVars
  PROVE  RunnerInv'
<1> DEFINE t == TaskOf(n)
<1> USE DEF RunnerInv, Preempt, runnerVars
<1>1. t \in Tasks /\ JobName(t) = n
  BY Naming
<1>2. ASSUME NEW u \in Tasks, u # t
      PROVE  status'[JobName(u)] = status[JobName(u)]
  <2>1. JobName(u) # n /\ JobName(u) \in JobNames
    BY <1>1, Naming, TaskParts, u # t
  <2> QED
    BY <2>1 DEF TypeOK, ClusterTypeOK
<1>3. status'[JobName(t)] = "suspended"
  BY <1>1 DEF TypeOK, ClusterTypeOK
<1>4. TypeOK'
  BY <1>1 DEF TypeOK, ClusterTypeOK, RunnerTypeOK, JobStatus
<1>5. KeysMatch'
  BY DEF KeysMatch
<1> HIDE DEF t
<1>6. NoneLost'
  BY <1>1, <1>2, <1>3 DEF NoneLost, Submitted, StatusTellsEnd, t
<1>7. StatusTellsEnd'
  BY <1>1, <1>2, <1>3 DEF StatusTellsEnd, t
<1>8. PodsHaveJobs'
  BY <1>1, <1>2, <1>3 DEF PodsHaveJobs, TypeOK, ClusterTypeOK, t
<1>9. PollSound'
  BY DEF PollSound, Task
<1>10. FetchedHasEnded'
  BY DEF FetchedHasEnded, Fetched
<1>11. OnlyReached'
  BY <1>1, <1>2, <1>3 DEF OnlyReached, Reached, Present, t
<1>12. ResultsFetched'
  BY <1>1 DEF ResultsFetched, FetchedHasEnded, Fetched, StatusTellsEnd, t
<1> QED
  BY <1>4, <1>5, <1>6, <1>7, <1>8, <1>9, <1>10, <1>11, <1>12

LEMMA CompleteStep ==
  ASSUME NamesDistinct, RunnerInv, NEW n \in JobNames, Complete(n), UNCHANGED runnerVars
  PROVE  RunnerInv'
<1> DEFINE t == TaskOf(n)
<1> USE DEF RunnerInv, Complete, runnerVars
<1>1. t \in Tasks /\ JobName(t) = n
  BY Naming
<1>2. ASSUME NEW u \in Tasks, u # t
      PROVE  status'[JobName(u)] = status[JobName(u)]
  <2>1. JobName(u) # n /\ JobName(u) \in JobNames
    BY <1>1, Naming, TaskParts, u # t
  <2> QED
    BY <2>1 DEF TypeOK, ClusterTypeOK
<1>3. status'[JobName(t)] = "complete"
  BY <1>1 DEF TypeOK, ClusterTypeOK
<1>4. TypeOK'
  BY <1>1 DEF TypeOK, ClusterTypeOK, RunnerTypeOK, JobStatus
<1>5. KeysMatch'
  BY DEF KeysMatch
<1> HIDE DEF t
<1>6. NoneLost'
  BY <1>1, <1>2, <1>3 DEF NoneLost, Submitted, StatusTellsEnd, t
<1>7. StatusTellsEnd'
  BY <1>1, <1>2, <1>3 DEF StatusTellsEnd, t
<1>8. PodsHaveJobs'
  BY <1>1, <1>2, <1>3 DEF PodsHaveJobs, TypeOK, ClusterTypeOK, t
<1>9. PollSound'
  BY DEF PollSound, Task
<1>10. FetchedHasEnded'
  BY DEF FetchedHasEnded, Fetched
<1>11. OnlyReached'
  BY <1>1, <1>2, <1>3 DEF OnlyReached, Reached, Present, t
<1>12. ResultsFetched'
  BY <1>1 DEF ResultsFetched, FetchedHasEnded, Fetched, StatusTellsEnd, t
<1> QED
  BY <1>4, <1>5, <1>6, <1>7, <1>8, <1>9, <1>10, <1>11, <1>12

LEMMA FailStep ==
  ASSUME NamesDistinct, RunnerInv, NEW n \in JobNames, Fail(n), UNCHANGED runnerVars
  PROVE  RunnerInv'
<1> DEFINE t == TaskOf(n)
<1> USE DEF RunnerInv, Fail, runnerVars
<1>1. t \in Tasks /\ JobName(t) = n
  BY Naming
<1>2. ASSUME NEW u \in Tasks, u # t
      PROVE  status'[JobName(u)] = status[JobName(u)]
  <2>1. JobName(u) # n /\ JobName(u) \in JobNames
    BY <1>1, Naming, TaskParts, u # t
  <2> QED
    BY <2>1 DEF TypeOK, ClusterTypeOK
<1>3. status'[JobName(t)] = "failed"
  BY <1>1 DEF TypeOK, ClusterTypeOK
<1>4. TypeOK'
  BY <1>1 DEF TypeOK, ClusterTypeOK, RunnerTypeOK, JobStatus
<1>5. KeysMatch'
  BY DEF KeysMatch
<1> HIDE DEF t
<1>6. NoneLost'
  BY <1>1, <1>2, <1>3 DEF NoneLost, Submitted, StatusTellsEnd, t
<1>7. StatusTellsEnd'
  BY <1>1, <1>2, <1>3 DEF StatusTellsEnd, t
<1>8. PodsHaveJobs'
  BY <1>1, <1>2, <1>3 DEF PodsHaveJobs, TypeOK, ClusterTypeOK, t
<1>9. PollSound'
  BY DEF PollSound, Task
<1>10. FetchedHasEnded'
  BY DEF FetchedHasEnded, Fetched
<1>11. OnlyReached'
  BY <1>1, <1>2, <1>3 DEF OnlyReached, Reached, Present, t
<1>12. ResultsFetched'
  BY <1>1 DEF ResultsFetched, FetchedHasEnded, Fetched, StatusTellsEnd, t
<1> QED
  BY <1>4, <1>5, <1>6, <1>7, <1>8, <1>9, <1>10, <1>11, <1>12

LEMMA ExpireStep ==
  ASSUME NamesDistinct, RunnerInv, NEW n \in JobNames, Expire(n), UNCHANGED runnerVars
  PROVE  RunnerInv'
<1> DEFINE t == TaskOf(n)
<1> USE DEF RunnerInv, Expire, runnerVars
<1>1. t \in Tasks /\ JobName(t) = n
  BY Naming
<1>2. ASSUME NEW u \in Tasks, u # t
      PROVE  status'[JobName(u)] = status[JobName(u)]
  <2>1. JobName(u) # n /\ JobName(u) \in JobNames
    BY <1>1, Naming, TaskParts, u # t
  <2> QED
    BY <2>1 DEF TypeOK, ClusterTypeOK, RemoveJobs
<1>3. status'[JobName(t)] = "absent"
  BY <1>1 DEF TypeOK, ClusterTypeOK, RemoveJobs
<1>4. TypeOK'
  BY <1>1 DEF TypeOK, ClusterTypeOK, RunnerTypeOK, JobStatus, RemoveJobs
<1>5. KeysMatch'
  BY DEF KeysMatch
<1> HIDE DEF t
<1>6. NoneLost'
  BY <1>1, <1>2, <1>3 DEF NoneLost, Submitted, StatusTellsEnd, t
<1>7. StatusTellsEnd'
  BY <1>1, <1>2, <1>3 DEF StatusTellsEnd, t
<1>8. PodsHaveJobs'
  BY <1>1, <1>2, <1>3 DEF PodsHaveJobs, TypeOK, ClusterTypeOK, t
<1>9. PollSound'
  BY DEF PollSound, Task
<1>10. FetchedHasEnded'
  BY DEF FetchedHasEnded, Fetched
<1>11. OnlyReached'
  BY <1>1, <1>2, <1>3 DEF OnlyReached, Reached, Present, t
<1>12. ResultsFetched'
  BY <1>1 DEF ResultsFetched, FetchedHasEnded, Fetched, StatusTellsEnd, t
<1> QED
  BY <1>4, <1>5, <1>6, <1>7, <1>8, <1>9, <1>10, <1>11, <1>12

LEMMA StageBatchStep ==
  ASSUME RunnerInv, NEW c \in Campaigns, StageBatch(c)
  PROVE  RunnerInv'
<1> USE DEF RunnerInv, StageBatch, Go, clusterVars
<1>1. \A t \in Tasks : t[1] \in Campaigns /\ t[2] \in Batches /\ t[3] \in Indices
  BY TaskParts
<1>2. TypeOK'
  BY BatchesAssumption, WidthAssumption DEF TypeOK, ClusterTypeOK, RunnerTypeOK, RunnerStates, Batches, Indices
<1>3. KeysMatch'
  BY DEF KeysMatch
<1>4. NoneLost'
  BY <1>1 DEF NoneLost, Submitted, TypeOK, RunnerTypeOK, Batches, Indices
<1>5. StatusTellsEnd'
  BY DEF StatusTellsEnd
<1>6. PodsHaveJobs'
  BY DEF PodsHaveJobs
<1>7. PollSound'
  BY <1>1, TaskMade DEF PollSound, Task, TypeOK, RunnerTypeOK, Indices
<1>8. FetchedHasEnded'
  BY <1>1 DEF FetchedHasEnded, Fetched, TypeOK, RunnerTypeOK
<1>9. OnlyReached'
  BY <1>1 DEF OnlyReached, Reached, Present, TypeOK, RunnerTypeOK, Indices
<1>10. ResultsFetched'
  BY <1>1 DEF ResultsFetched, Fetched, TypeOK, ClusterTypeOK, RunnerTypeOK
<1> QED
  BY <1>2, <1>3, <1>4, <1>5, <1>6, <1>7, <1>8, <1>9, <1>10

LEMMA BeginPollStep ==
  ASSUME RunnerInv, NEW c \in Campaigns, BeginPoll(c)
  PROVE  RunnerInv'
<1> USE DEF RunnerInv, BeginPoll, clusterVars
<1>1. \A t \in Tasks : t[1] \in Campaigns /\ t[2] \in Batches /\ t[3] \in Indices
  BY TaskParts
<1>2. TypeOK'
  BY BatchesAssumption, WidthAssumption DEF TypeOK, ClusterTypeOK, RunnerTypeOK, RunnerStates, Batches, Indices
<1>3. KeysMatch'
  BY DEF KeysMatch
<1>4. NoneLost'
  BY <1>1 DEF NoneLost, Submitted, TypeOK, RunnerTypeOK, Batches, Indices
<1>5. StatusTellsEnd'
  BY DEF StatusTellsEnd
<1>6. PodsHaveJobs'
  BY DEF PodsHaveJobs
<1>7. PollSound'
  BY <1>1, TaskMade DEF PollSound, Task, TypeOK, RunnerTypeOK, Indices
<1>8. FetchedHasEnded'
  BY <1>1 DEF FetchedHasEnded, Fetched, TypeOK, RunnerTypeOK
<1>9. OnlyReached'
  BY <1>1 DEF OnlyReached, Reached, Present, TypeOK, RunnerTypeOK, Indices
<1>10. ResultsFetched'
  BY <1>1 DEF ResultsFetched, Fetched, TypeOK, ClusterTypeOK, RunnerTypeOK
<1> QED
  BY <1>2, <1>3, <1>4, <1>5, <1>6, <1>7, <1>8, <1>9, <1>10

LEMMA ReadStatusStep ==
  ASSUME RunnerInv, NEW c \in Campaigns, ReadStatus(c)
  PROVE  RunnerInv'
<1> USE DEF RunnerInv, ReadStatus, clusterVars
<1>1. \A t \in Tasks : t[1] \in Campaigns /\ t[2] \in Batches /\ t[3] \in Indices
  BY TaskParts
<1>2. TypeOK'
  BY BatchesAssumption, WidthAssumption DEF TypeOK, ClusterTypeOK, RunnerTypeOK, RunnerStates, Batches, Indices
<1>3. KeysMatch'
  BY DEF KeysMatch
<1>4. NoneLost'
  BY <1>1 DEF NoneLost, Submitted, TypeOK, RunnerTypeOK, Batches, Indices
<1>5. StatusTellsEnd'
  BY DEF StatusTellsEnd
<1>6. PodsHaveJobs'
  BY DEF PodsHaveJobs
<1>7. PollSound'
  <2>1. next[c] \in Indices
    BY WidthAssumption DEF TypeOK, RunnerTypeOK, Indices
  <2>2. StillRunning(JobName(Task(c, next[c]))) \/ Task(c, next[c]) \in ended
    BY <2>1, TaskMade DEF NoneLost, Submitted, StillRunning
  <2> SUFFICES ASSUME NEW d \in Campaigns, pc'[d] = "poll",
                      NEW i \in Indices, i < next'[d]
             PROVE  i \in remaining'[d] \/ Task(d, i)' \in ended'
    BY DEF PollSound
  <2>3. Task(d, i)' = Task(d, i) /\ ended' = ended /\ pc' = pc
    BY DEF Task
  <2>4. CASE d = c /\ i = next[c]
    BY <2>2, <2>3, <2>4 DEF TypeOK, RunnerTypeOK
  <2>5. CASE ~(d = c /\ i = next[c])
    <3>1. i < next[d]
      BY <2>5 DEF TypeOK, RunnerTypeOK, Indices
    <3>2. remaining[d] \subseteq remaining'[d]
      BY DEF TypeOK, RunnerTypeOK
    <3> QED
      BY <2>3, <3>1, <3>2 DEF PollSound
  <2> QED
    BY <2>4, <2>5
<1>8. FetchedHasEnded'
  BY <1>1 DEF FetchedHasEnded, Fetched, TypeOK, RunnerTypeOK
<1>9. OnlyReached'
  BY <1>1 DEF OnlyReached, Reached, Present, TypeOK, RunnerTypeOK, Indices
<1>10. ResultsFetched'
  BY <1>1 DEF ResultsFetched, Fetched, TypeOK, ClusterTypeOK, RunnerTypeOK
<1> QED
  BY <1>2, <1>3, <1>4, <1>5, <1>6, <1>7, <1>8, <1>9, <1>10

LEMMA PollAgainStep ==
  ASSUME RunnerInv, NEW c \in Campaigns, PollAgain(c)
  PROVE  RunnerInv'
<1> USE DEF RunnerInv, PollAgain, clusterVars
<1>1. \A t \in Tasks : t[1] \in Campaigns /\ t[2] \in Batches /\ t[3] \in Indices
  BY TaskParts
<1>2. TypeOK'
  BY BatchesAssumption, WidthAssumption DEF TypeOK, ClusterTypeOK, RunnerTypeOK, RunnerStates, Batches, Indices
<1>3. KeysMatch'
  BY DEF KeysMatch
<1>4. NoneLost'
  BY <1>1 DEF NoneLost, Submitted, TypeOK, RunnerTypeOK, Batches, Indices
<1>5. StatusTellsEnd'
  BY DEF StatusTellsEnd
<1>6. PodsHaveJobs'
  BY DEF PodsHaveJobs
<1>7. PollSound'
  BY <1>1, TaskMade DEF PollSound, Task, TypeOK, RunnerTypeOK, Indices
<1>8. FetchedHasEnded'
  BY <1>1 DEF FetchedHasEnded, Fetched, TypeOK, RunnerTypeOK
<1>9. OnlyReached'
  BY <1>1 DEF OnlyReached, Reached, Present, TypeOK, RunnerTypeOK, Indices
<1>10. ResultsFetched'
  BY <1>1 DEF ResultsFetched, Fetched, TypeOK, ClusterTypeOK, RunnerTypeOK
<1> QED
  BY <1>2, <1>3, <1>4, <1>5, <1>6, <1>7, <1>8, <1>9, <1>10

LEMMA AllFinishedStep ==
  ASSUME RunnerInv, NEW c \in Campaigns, AllFinished(c)
  PROVE  RunnerInv'
<1> USE DEF RunnerInv, AllFinished, Go, clusterVars
<1>1. \A t \in Tasks : t[1] \in Campaigns /\ t[2] \in Batches /\ t[3] \in Indices
  BY TaskParts
<1>2. TypeOK'
  BY BatchesAssumption, WidthAssumption DEF TypeOK, ClusterTypeOK, RunnerTypeOK, RunnerStates, Batches, Indices
<1>3. KeysMatch'
  BY DEF KeysMatch
<1>4. NoneLost'
  BY <1>1 DEF NoneLost, Submitted, TypeOK, RunnerTypeOK, Batches, Indices
<1>5. StatusTellsEnd'
  BY DEF StatusTellsEnd
<1>6. PodsHaveJobs'
  BY DEF PodsHaveJobs
<1>7. PollSound'
  BY <1>1, TaskMade DEF PollSound, Task, TypeOK, RunnerTypeOK, Indices
<1>8. FetchedHasEnded'
  <2> SUFFICES ASSUME NEW t \in Tasks,
                      (Fetched(t) \/ (t[2] = batch[t[1]] /\ pc[t[1]] = "collect"))'
             PROVE  t \in ended
    BY DEF FetchedHasEnded
  <2>1. CASE t[1] = c /\ t[2] = batch[c]
    <3>1. t = Task(c, t[3])
      BY <2>1, TaskParts DEF Task
    <3>2. t[3] < next[c] /\ t[3] \notin remaining[c]
      BY <1>1, WidthAssumption DEF Indices
    <3> QED
      BY <1>1, <3>1, <3>2 DEF PollSound
  <2>2. CASE ~(t[1] = c /\ t[2] = batch[c])
    BY <1>1, <2>2 DEF FetchedHasEnded, Fetched, TypeOK, RunnerTypeOK
  <2> QED
    BY <2>1, <2>2
<1>9. OnlyReached'
  BY <1>1 DEF OnlyReached, Reached, Present, TypeOK, RunnerTypeOK, Indices
<1>10. ResultsFetched'
  BY <1>1 DEF ResultsFetched, Fetched, TypeOK, ClusterTypeOK, RunnerTypeOK
<1> QED
  BY <1>2, <1>3, <1>4, <1>5, <1>6, <1>7, <1>8, <1>9, <1>10

LEMMA CollectStep ==
  ASSUME RunnerInv, NEW c \in Campaigns, Collect(c)
  PROVE  RunnerInv'
<1> USE DEF RunnerInv, Collect, Go, clusterVars
<1>1. \A t \in Tasks : t[1] \in Campaigns /\ t[2] \in Batches /\ t[3] \in Indices
  BY TaskParts
<1>2. TypeOK'
  BY BatchesAssumption, WidthAssumption DEF TypeOK, ClusterTypeOK, RunnerTypeOK, RunnerStates, Batches, Indices
<1>3. KeysMatch'
  BY DEF KeysMatch
<1>4. NoneLost'
  BY <1>1 DEF NoneLost, Submitted, TypeOK, RunnerTypeOK, Batches, Indices
<1>5. StatusTellsEnd'
  BY DEF StatusTellsEnd
<1>6. PodsHaveJobs'
  BY DEF PodsHaveJobs
<1>7. PollSound'
  BY <1>1, TaskMade DEF PollSound, Task, TypeOK, RunnerTypeOK, Indices
<1>8. FetchedHasEnded'
  BY <1>1 DEF FetchedHasEnded, Fetched, TypeOK, RunnerTypeOK
<1>9. OnlyReached'
  BY <1>1 DEF OnlyReached, Reached, Present, TypeOK, RunnerTypeOK, Indices
<1>10. ResultsFetched'
  <2> SUFFICES ASSUME NEW t \in results, Fetched(t)'
             PROVE  t \in root'
    BY DEF ResultsFetched
  <2>1. t \in Tasks
    BY DEF TypeOK, ClusterTypeOK
  <2>2. CASE t[1] = c /\ t[2] = batch[c]
    <3>1. t = Task(c, t[3])
      BY <2>1, <2>2, TaskParts DEF Task
    <3> QED
      BY <1>1, <2>1, <3>1 DEF BatchTasks
  <2>3. CASE ~(t[1] = c /\ t[2] = batch[c])
    BY <1>1, <2>1, <2>3 DEF ResultsFetched, Fetched, TypeOK, RunnerTypeOK
  <2> QED
    BY <2>2, <2>3
<1> QED
  BY <1>2, <1>3, <1>4, <1>5, <1>6, <1>7, <1>8, <1>9, <1>10

LEMMA CleanJobsFailsStep ==
  ASSUME RunnerInv, NEW c \in Campaigns, CleanJobsFails(c)
  PROVE  RunnerInv'
<1> USE DEF RunnerInv, CleanJobsFails, Go, clusterVars
<1>1. \A t \in Tasks : t[1] \in Campaigns /\ t[2] \in Batches /\ t[3] \in Indices
  BY TaskParts
<1>2. TypeOK'
  BY BatchesAssumption, WidthAssumption DEF TypeOK, ClusterTypeOK, RunnerTypeOK, RunnerStates, Batches, Indices
<1>3. KeysMatch'
  BY DEF KeysMatch
<1>4. NoneLost'
  BY <1>1 DEF NoneLost, Submitted, TypeOK, RunnerTypeOK, Batches, Indices
<1>5. StatusTellsEnd'
  BY DEF StatusTellsEnd
<1>6. PodsHaveJobs'
  BY DEF PodsHaveJobs
<1>7. PollSound'
  BY <1>1, TaskMade DEF PollSound, Task, TypeOK, RunnerTypeOK, Indices
<1>8. FetchedHasEnded'
  BY <1>1 DEF FetchedHasEnded, Fetched, TypeOK, RunnerTypeOK
<1>9. OnlyReached'
  BY <1>1 DEF OnlyReached, Reached, Present, TypeOK, RunnerTypeOK, Indices
<1>10. ResultsFetched'
  BY <1>1 DEF ResultsFetched, Fetched, TypeOK, ClusterTypeOK, RunnerTypeOK
<1> QED
  BY <1>2, <1>3, <1>4, <1>5, <1>6, <1>7, <1>8, <1>9, <1>10

LEMMA RaiseStep ==
  ASSUME RunnerInv, NEW c \in Campaigns, Raise(c)
  PROVE  RunnerInv'
<1> USE DEF RunnerInv, Raise, clusterVars
<1>1. \A t \in Tasks : t[1] \in Campaigns /\ t[2] \in Batches /\ t[3] \in Indices
  BY TaskParts
<1>2. TypeOK'
  BY BatchesAssumption, WidthAssumption DEF TypeOK, ClusterTypeOK, RunnerTypeOK, RunnerStates, Batches, Indices
<1>3. KeysMatch'
  BY DEF KeysMatch
<1>4. NoneLost'
  BY <1>1 DEF NoneLost, Submitted, TypeOK, RunnerTypeOK, Batches, Indices
<1>5. StatusTellsEnd'
  BY DEF StatusTellsEnd
<1>6. PodsHaveJobs'
  BY DEF PodsHaveJobs
<1>7. PollSound'
  BY <1>1, TaskMade DEF PollSound, Task, TypeOK, RunnerTypeOK, Indices
<1>8. FetchedHasEnded'
  BY <1>1 DEF FetchedHasEnded, Fetched, TypeOK, RunnerTypeOK
<1>9. OnlyReached'
  BY <1>1 DEF OnlyReached, Reached, Present, TypeOK, RunnerTypeOK, Indices
<1>10. ResultsFetched'
  BY <1>1 DEF ResultsFetched, Fetched, TypeOK, ClusterTypeOK, RunnerTypeOK
<1> QED
  BY <1>2, <1>3, <1>4, <1>5, <1>6, <1>7, <1>8, <1>9, <1>10

LEMMA CreateJobStep ==
  ASSUME NamesDistinct, RunnerInv, NEW c \in Campaigns, CreateJob(c)
  PROVE  RunnerInv'
<1> DEFINE t == Task(c, next[c])
<1> USE DEF RunnerInv
<1>1. \A u \in Tasks : u[1] \in Campaigns /\ u[2] \in Batches /\ u[3] \in Indices
                       /\ JobName(u) \in JobNames
  BY TaskParts
<1>2. next[c] \in Indices
  BY WidthAssumption DEF CreateJob, TypeOK, RunnerTypeOK, Indices
<1>3. /\ t \in Tasks /\ t[1] = c /\ t[2] = batch[c] /\ t[3] = next[c]
  BY <1>2, TaskMade
<1>4. \A u \in Tasks : u[1] = c /\ u[2] = batch[c] /\ u[3] = next[c] => u = t
  BY <1>3, TaskParts
<1>5. \A u \in Tasks : u # t => JobName(u) # JobName(t)
  BY <1>1, <1>3, Naming
<1>6. status[JobName(t)] = "absent" /\ t \notin ended
  <2>1. ~(t[2] < batch[c]) /\ ~(t[3] < next[c])
    BY <1>2, <1>3, BatchesAssumption DEF TypeOK, RunnerTypeOK, Batches, Indices
  <2>2. ~Reached(t)
    BY <1>3, <2>1 DEF Reached, CreateJob
  <2> QED
    BY <1>3, <2>2 DEF OnlyReached, Present
<1>7. /\ status' = [status EXCEPT ![JobName(t)] = "suspended"]
      /\ owner' = [owner EXCEPT ![JobName(t)] = c]
  BY <1>6 DEF CreateJob, Present
<1>8. /\ pc[c] = "create" /\ next' = [next EXCEPT ![c] = @ + 1]
      /\ UNCHANGED <<pods, results, ended, held, pc, batch, remaining, root>>
  BY DEF CreateJob
<1>9. /\ status'[JobName(t)] = "suspended"
      /\ \A u \in Tasks : u # t => status'[JobName(u)] = status[JobName(u)]
  BY <1>1, <1>3, <1>5, <1>7 DEF TypeOK, ClusterTypeOK
<1> HIDE DEF t
<1>10. TypeOK'
  BY <1>1, <1>2, <1>3, <1>7, <1>8, WidthAssumption
  DEF TypeOK, ClusterTypeOK, RunnerTypeOK, JobStatus, Indices
<1>11. KeysMatch'
  <2>1. NameKey[c] = JobName(t)[1]
    BY <1>3 DEF JobName
  <2> QED
    BY <1>7, <2>1 DEF KeysMatch, TypeOK, ClusterTypeOK
<1>12. NoneLost'
  BY <1>1, <1>2, <1>3, <1>4, <1>8, <1>9
  DEF NoneLost, Submitted, TypeOK, RunnerTypeOK, Indices
<1>13. StatusTellsEnd'
  BY <1>6, <1>8, <1>9 DEF StatusTellsEnd
<1>14. PodsHaveJobs'
  BY <1>6, <1>8, <1>9 DEF PodsHaveJobs, TypeOK, ClusterTypeOK
<1>15. PollSound'
  BY <1>1, <1>8 DEF PollSound, Task, TypeOK, RunnerTypeOK
<1>16. FetchedHasEnded'
  BY <1>8 DEF FetchedHasEnded, Fetched
<1>17. OnlyReached'
  BY <1>1, <1>2, <1>3, <1>8, <1>9
  DEF OnlyReached, Reached, Present, TypeOK, RunnerTypeOK, Indices
<1>18. ResultsFetched'
  BY <1>8 DEF ResultsFetched, Fetched
<1> QED
  BY <1>10, <1>11, <1>12, <1>13, <1>14, <1>15, <1>16, <1>17, <1>18

\* The clean-up of a batch finds no unfinished job under its label.
LEMMA NothingRunsUnderLabel ==
  ASSUME NamesDistinct, LabelsDistinct, RunnerInv, NEW c \in Campaigns,
         pc[c] \in {"cleanJobs", "cleanPods"}
  PROVE  /\ \A n \in Labelled(Label[c]) : status[n] \in {"complete", "failed"}
         /\ PodsLabelled(Label[c]) = {}
<1> USE DEF RunnerInv
<1>1. \A t \in Tasks : t[1] = c /\ Present(JobName(t)) => t \in ended
  <2> SUFFICES ASSUME NEW t \in Tasks, t[1] = c, Present(JobName(t))
               PROVE  t \in ended
    OBVIOUS
  <2>1. t[2] < batch[c] \/ t[2] = batch[c]
    BY DEF OnlyReached, Reached
  <2> QED
    BY <2>1 DEF FetchedHasEnded, Fetched
<1>2. ASSUME NEW n \in Labelled(Label[c])
      PROVE  status[n] \in {"complete", "failed"}
  <2>1. n \in JobNames /\ Present(n) /\ owner[n] \in Campaigns /\ Label[owner[n]] = Label[c]
    BY DEF Labelled, TypeOK, ClusterTypeOK
  <2>2. owner[n] = c
    BY <2>1 DEF LabelsDistinct
  <2>3. TaskOf(n) \in Tasks /\ JobName(TaskOf(n)) = n /\ TaskOf(n)[1] = c
    BY <2>1, <2>2, Naming DEF TaskOf
  <2>4. TaskOf(n) \in ended
    BY <1>1, <2>1, <2>3
  <2> QED
    BY <2>1, <2>3, <2>4 DEF StatusTellsEnd, Present, TypeOK, ClusterTypeOK, JobStatus
<1>3. ASSUME NEW t \in PodsLabelled(Label[c])
      PROVE  FALSE
  <2>1. t \in Tasks /\ t \in pods /\ Label[t[1]] = Label[c]
    BY DEF PodsLabelled, TypeOK, ClusterTypeOK
  <2>2. t[1] = c
    BY <2>1, TaskParts DEF LabelsDistinct
  <2>3. status[JobName(t)] = "active"
    BY <2>1 DEF PodsHaveJobs
  <2> QED
    BY <1>1, <2>1, <2>2, <2>3 DEF StatusTellsEnd, Present
<1> QED
  BY <1>2, <1>3

LEMMA CleanJobsStep ==
  ASSUME NamesDistinct, LabelsDistinct, RunnerInv, NEW c \in Campaigns, CleanJobs(c)
  PROVE  RunnerInv'
<1> USE DEF RunnerInv
<1>1. \A t \in Tasks : t[1] \in Campaigns /\ t[2] \in Batches /\ t[3] \in Indices
                       /\ JobName(t) \in JobNames
  BY TaskParts
<1>2. /\ pc[c] = "cleanJobs" /\ pc' = [pc EXCEPT ![c] = "cleanPods"]
      /\ UNCHANGED <<owner, pods, results, ended, held, batch, next, remaining, root>>
  BY DEF CleanJobs, Go
<1>3. /\ status' \in [JobNames -> JobStatus]
      /\ \A n \in JobNames :
           \/ status'[n] = status[n]
           \/ status[n] \in {"complete", "failed"} /\ status'[n] = "absent"
  BY <1>2, NothingRunsUnderLabel DEF CleanJobs, RemoveJobs, TypeOK, ClusterTypeOK, JobStatus
<1>4. TypeOK'
  BY <1>2, <1>3 DEF TypeOK, ClusterTypeOK, RunnerTypeOK, RunnerStates
<1>5. KeysMatch'
  BY <1>2 DEF KeysMatch
<1>6. NoneLost'
  BY <1>1, <1>2, <1>3 DEF NoneLost, Submitted, TypeOK, RunnerTypeOK
<1>7. StatusTellsEnd'
  BY <1>1, <1>2, <1>3 DEF StatusTellsEnd
<1>8. PodsHaveJobs'
  BY <1>1, <1>2, <1>3 DEF PodsHaveJobs, TypeOK, ClusterTypeOK
<1>9. PollSound'
  BY <1>2 DEF PollSound, Task, TypeOK, RunnerTypeOK
<1>10. FetchedHasEnded'
  BY <1>1, <1>2 DEF FetchedHasEnded, Fetched, TypeOK, RunnerTypeOK
<1>11. OnlyReached'
  BY <1>1, <1>2, <1>3 DEF OnlyReached, Reached, Present, TypeOK, RunnerTypeOK
<1>12. ResultsFetched'
  BY <1>1, <1>2 DEF ResultsFetched, Fetched, TypeOK, ClusterTypeOK, RunnerTypeOK
<1> QED
  BY <1>4, <1>5, <1>6, <1>7, <1>8, <1>9, <1>10, <1>11, <1>12

LEMMA CleanPodsStep ==
  ASSUME NamesDistinct, LabelsDistinct, RunnerInv, NEW c \in Campaigns, CleanPods(c)
  PROVE  RunnerInv'
<1> USE DEF RunnerInv
<1>1. \A t \in Tasks : t[1] \in Campaigns /\ t[2] \in Batches /\ t[3] \in Indices
  BY TaskParts
<1>2. /\ pc[c] = "cleanPods" /\ AfterBatch(c)
      /\ UNCHANGED <<status, owner, results, ended, held, next, remaining, root>>
  BY DEF CleanPods
<1>3. pods' = pods
  BY <1>2, NothingRunsUnderLabel DEF CleanPods
<1>4. \A d \in Campaigns : d # c => pc'[d] = pc[d] /\ batch'[d] = batch[d]
  BY <1>2 DEF AfterBatch, TypeOK, RunnerTypeOK
<1>5. \/ pc'[c] = "done" /\ batch'[c] = batch[c]
      \/ pc'[c] = "stage" /\ batch'[c] = batch[c] + 1
  BY <1>2 DEF AfterBatch, TypeOK, RunnerTypeOK
<1>6. TypeOK'
  <2>1. pc' \in [Campaigns -> RunnerStates]
    BY <1>2 DEF AfterBatch, TypeOK, RunnerTypeOK, RunnerStates
  <2>2. batch' \in [Campaigns -> Batches]
    BY <1>2, BatchesAssumption DEF AfterBatch, TypeOK, RunnerTypeOK, Batches
  <2> QED
    BY <1>2, <1>3, <2>1, <2>2 DEF TypeOK, ClusterTypeOK, RunnerTypeOK
<1>7. \A t \in Tasks : t[1] = c /\ t[2] < batch'[c] => t[2] < batch[c] \/ t[2] = batch[c]
  BY <1>1, <1>5, BatchesAssumption DEF TypeOK, RunnerTypeOK, Batches
<1>8. KeysMatch'
  BY <1>2 DEF KeysMatch
<1>9. FetchedHasEnded'
  BY <1>1, <1>2, <1>4, <1>5, <1>7 DEF FetchedHasEnded, Fetched
<1>10. NoneLost'
  BY <1>1, <1>2, <1>4, <1>5, <1>7 DEF NoneLost, Submitted, FetchedHasEnded, Fetched
<1>11. StatusTellsEnd'
  BY <1>2 DEF StatusTellsEnd
<1>12. PodsHaveJobs'
  BY <1>2, <1>3 DEF PodsHaveJobs
<1>13. PollSound'
  BY <1>2, <1>4, <1>5 DEF PollSound, Task
<1>14. OnlyReached'
  <2>1. \A t \in Tasks : Reached(t) => Reached(t)'
    BY <1>1, <1>2, <1>4, <1>5 DEF Reached, TypeOK, RunnerTypeOK, Batches
  <2> QED
    BY <1>2, <2>1 DEF OnlyReached, Present
<1>15. ResultsFetched'
  BY <1>1, <1>2, <1>4, <1>5, <1>7 DEF ResultsFetched, Fetched, TypeOK, ClusterTypeOK
<1> QED
  BY <1>6, <1>8, <1>9, <1>10, <1>11, <1>12, <1>13, <1>14, <1>15

-----------------------------------------------------------------------------
(* The theorems.                                                           *)

\* A run of the batch runners keeps RunnerInv, whatever the number of
\* campaigns, batches and jobs (run_batch_in_pod).
THEOREM RunnerInvariant ==
  ASSUME NamesDistinct, LabelsDistinct
  PROVE  SafetySpec => []RunnerInv
<1>1. Init => RunnerInv
  <2> SUFFICES ASSUME Init PROVE RunnerInv
    OBVIOUS
  <2> USE DEF Init, ClusterInit, RunnerInit
  <2>1. \A t \in Tasks : t[1] \in Campaigns /\ t[2] \in Batches /\ t[3] \in Indices
                         /\ JobName(t) \in JobNames
    BY TaskParts
  <2>2. TypeOK
    <3>1. 0 \in Batches /\ 0 \in 0 .. Width
      BY BatchesAssumption, WidthAssumption DEF Batches
    <3>2. ClusterTypeOK
      <4>1. held \in BOOLEAN
        BY Zenon
      <4> QED
        BY <4>1 DEF ClusterTypeOK, JobStatus
    <3>3. RunnerTypeOK
      BY <3>1 DEF RunnerTypeOK, RunnerStates
    <3> QED
      BY <3>2, <3>3 DEF TypeOK
  <2>3. KeysMatch
    BY DEF KeysMatch
  <2>4. NoneLost
    BY <2>1 DEF NoneLost, Submitted, Batches, Indices
  <2>5. StatusTellsEnd /\ PodsHaveJobs
    BY <2>1 DEF StatusTellsEnd, PodsHaveJobs
  <2>6. PollSound
    BY DEF PollSound
  <2>7. FetchedHasEnded
    BY <2>1 DEF FetchedHasEnded, Fetched, Batches
  <2>8. OnlyReached /\ ResultsFetched
    BY <2>1 DEF OnlyReached, Present, ResultsFetched
  <2> QED
    BY <2>2, <2>3, <2>4, <2>5, <2>6, <2>7, <2>8 DEF RunnerInv
<1>2. RunnerInv /\ [Next]_vars => RunnerInv'
  <2> SUFFICES ASSUME RunnerInv, [Next]_vars PROVE RunnerInv'
    OBVIOUS
  <2>1. ASSUME NEW c \in Campaigns, RunBatchInPod(c) PROVE RunnerInv'
    BY <2>1, StageBatchStep, CreateJobStep, BeginPollStep, ReadStatusStep,
       PollAgainStep, AllFinishedStep, CollectStep, CleanJobsStep,
       CleanJobsFailsStep, CleanPodsStep DEF RunBatchInPod
  <2>2. ASSUME NEW c \in Campaigns, Raise(c) PROVE RunnerInv'
    BY <2>2, RaiseStep
  <2>3. ASSUME NEW n \in JobNames, JobStep(n), UNCHANGED runnerVars PROVE RunnerInv'
    BY <2>3, AdmitStep, PreemptStep, CompleteStep, FailStep, ExpireStep DEF JobStep
  <2>4. CASE UNCHANGED vars
    BY <2>4 DEF vars, clusterVars, runnerVars, RunnerInv, TypeOK, ClusterTypeOK,
       RunnerTypeOK, KeysMatch, NoneLost, Submitted, StatusTellsEnd, PodsHaveJobs,
       PollSound, Task, FetchedHasEnded, Fetched, OnlyReached, Reached, Present,
       ResultsFetched
  <2> QED
    BY <2>1, <2>2, <2>3, <2>4 DEF Next, EnvironmentStep
<1> QED
  BY <1>1, <1>2, PTL DEF SafetySpec

\* The batch runners keep their variables in their types.
THEOREM RunnerTypeCorrect ==
  ASSUME NamesDistinct, LabelsDistinct
  PROVE  SafetySpec => []TypeOK
<1>1. RunnerInv => TypeOK
  BY DEF RunnerInv
<1> QED
  BY <1>1, RunnerInvariant, PTL

\* No batch is fetched before each of its jobs has run to its end.
THEOREM RunnerCollectsAfterEnd ==
  ASSUME NamesDistinct, LabelsDistinct
  PROVE  SafetySpec => []CollectsAfterEnd
<1>1. RunnerInv => CollectsAfterEnd
  <2> SUFFICES ASSUME RunnerInv, NEW c \in Campaigns, Collecting(c), NEW i \in Indices
               PROVE  Task(c, i) \in ended
    BY DEF CollectsAfterEnd, BatchTasks
  <2> QED
    BY TaskMade DEF RunnerInv, Collecting, FetchedHasEnded, Fetched
<1> QED
  BY <1>1, RunnerInvariant, PTL

\* Whatever the batches before the current one delivered is under the campaign
\* root.
THEOREM RunnerCollectsEverything ==
  ASSUME NamesDistinct, LabelsDistinct
  PROVE  SafetySpec => []EarlierBatchesCollected
<1>1. RunnerInv => EarlierBatchesCollected
  BY DEF RunnerInv, EarlierBatchesCollected, FetchedHasEnded, Fetched, ResultsFetched
<1> QED
  BY <1>1, RunnerInvariant, PTL

\* The clean-up of a batch removes no pod and no job that has not finished,
\* of its own campaign or of another (cleanup_jobs, cleanup_pods).
THEOREM RunnerCleanupSparesRunning ==
  ASSUME NamesDistinct, LabelsDistinct
  PROVE  SafetySpec => CleanupSparesRunning
<1> DEFINE Spares ==
      \A c \in Campaigns :
         (pc[c] \in {"cleanJobs", "cleanPods"} /\ pc'[c] # pc[c])
           => /\ pods \subseteq pods'
              /\ \A n \in JobNames :
                   status[n] \in {"suspended", "active"} => status'[n] = status[n]
<1>1. RunnerInv /\ RunnerInv' /\ [Next]_vars => [Spares]_vars
  <2> SUFFICES ASSUME RunnerInv, [Next]_vars, NEW c \in Campaigns,
                      pc[c] \in {"cleanJobs", "cleanPods"}, pc'[c] # pc[c]
               PROVE  /\ pods \subseteq pods'
                      /\ \A n \in JobNames :
                           status[n] \in {"suspended", "active"} => status'[n] = status[n]
    BY DEF Spares
  <2>1. CleanJobs(c) \/ CleanJobsFails(c) \/ CleanPods(c)
    <3>1. pc' # pc
      OBVIOUS
    <3>2. PICK d \in Campaigns : RunBatchInPod(d) \/ Raise(d)
      BY <3>1 DEF Next, vars, runnerVars, EnvironmentStep
    <3>3. d = c
      BY <3>2 DEF RunBatchInPod, Raise, StageBatch, CreateJob, BeginPoll, ReadStatus,
         PollAgain, AllFinished, Collect, CleanJobs, CleanJobsFails, CleanPods,
         AfterBatch, Go, RunnerInv, TypeOK, RunnerTypeOK
    <3> QED
      BY <3>2, <3>3 DEF RunBatchInPod, Raise, StageBatch, CreateJob, BeginPoll,
         ReadStatus, PollAgain, AllFinished, Collect, Go
  <2>2. CASE CleanJobs(c)
    BY <2>2, NothingRunsUnderLabel
    DEF CleanJobs, RemoveJobs, RunnerInv, TypeOK, ClusterTypeOK
  <2>3. CASE CleanJobsFails(c)
    BY <2>3 DEF CleanJobsFails, clusterVars
  <2>4. CASE CleanPods(c)
    BY <2>4, NothingRunsUnderLabel DEF CleanPods
  <2> QED
    BY <2>1, <2>2, <2>3, <2>4
<1> QED
  BY <1>1, RunnerInvariant, PTL DEF SafetySpec, CleanupSparesRunning, Spares

-----------------------------------------------------------------------------
(* The clean-up commands.                                                  *)

\* What a dead controller left is on its way out, and the controller stays dead.
DeadInv ==
    \A o \in Operators : \A c \in dead[o] :
      /\ ~Live(c)
      /\ \A n \in JobNames : owner[n] = c => status[n] \in {"absent", "terminating"}

AloneInv == CleanupTypeOK /\ DeadInv

\* The task, its job and its runner agree: RunnerInv, said of one task.  A task
\* of a campaign that is cleaned may lose its job, or keep a pod without one.
TaskInv(t) ==
    LET c == t[1]
        s == status[JobName(t)]
    IN  /\ s # "terminating"
        /\ s \in {"complete", "failed"} => t \in ended
        /\ s \in {"suspended", "active"} => t \notin ended
        /\ t \in pods => s = "active"
        /\ Submitted(t) => t \in ended \/ s \in {"suspended", "active"}
        /\ Fetched(t) \/ (t[2] = batch[c] /\ pc[c] = "collect") => t \in ended
        /\ t \in ended \/ s # "absent" => Reached(t)
        /\ pc[c] = "poll" /\ t[2] = batch[c] /\ t[3] < next[c]
             => t[3] \in remaining[c] \/ t \in ended

OthersInv ==
    /\ AloneInv
    /\ KeysMatch
    /\ \A t \in Tasks : Untouched(t[1]) => TaskInv(t)

-----------------------------------------------------------------------------
(* Types.                                                                  *)

LEMMA JobParts ==
  ASSUME TypeOK, NEW n \in JobNames
  PROVE  TaskOf(n) \in Tasks /\ owner[n] \in Campaigns /\ TaskOf(n)[1] = owner[n]
<1>1. PICK t \in Tasks : n = JobName(t)
  BY DEF JobNames
<1>2. n[2] \in Batches /\ n[3] \in Indices
  BY <1>1, TaskParts DEF JobName
<1> QED
  BY <1>2 DEF TaskOf, Tasks, TypeOK, ClusterTypeOK

LEMMA JobStepTyped ==
  ASSUME TypeOK, NEW n \in JobNames, JobStep(n), UNCHANGED runnerVars
  PROVE  TypeOK'
<1>1. TaskOf(n) \in Tasks
  BY JobParts
<1>2. RunnerTypeOK'
  BY DEF TypeOK, RunnerTypeOK, runnerVars
<1>3. ClusterTypeOK'
  BY <1>1 DEF TypeOK, ClusterTypeOK, JobStatus, JobStep, Admit, Preempt, Complete,
     Fail, Expire, RemoveJobs
<1> QED
  BY <1>2, <1>3 DEF TypeOK

LEMMA RunnerStepTyped ==
  ASSUME TypeOK, NEW c \in Campaigns, RunBatchInPod(c) \/ Raise(c)
  PROVE  TypeOK'
<1> USE DEF TypeOK, RunnerTypeOK, ClusterTypeOK, RunnerStates, JobStatus
<1>1. CASE StageBatch(c)
  BY <1>1, WidthAssumption DEF StageBatch, Go, clusterVars
<1>2. CASE CreateJob(c)
  <2>1. next[c] \in Indices
    BY <1>2, WidthAssumption DEF CreateJob, Indices
  <2>2. JobName(Task(c, next[c])) \in JobNames
    BY <2>1, TaskMade, TaskParts
  <2>3. next[c] + 1 \in 0 .. Width
    BY <2>1, WidthAssumption DEF Indices
  <2> QED
    BY <1>2, <2>2, <2>3 DEF CreateJob
<1>3. CASE BeginPoll(c)
  BY <1>3, WidthAssumption DEF BeginPoll, clusterVars
<1>4. CASE ReadStatus(c)
  <2>1. next[c] \in Indices /\ next[c] + 1 \in 0 .. Width
    BY <1>4, WidthAssumption DEF ReadStatus, Indices
  <2> QED
    BY <1>4, <2>1 DEF ReadStatus, clusterVars
<1>5. CASE PollAgain(c)
  BY <1>5, WidthAssumption DEF PollAgain, clusterVars
<1>6. CASE AllFinished(c)
  BY <1>6 DEF AllFinished, Go, clusterVars
<1>7. CASE Collect(c)
  BY <1>7 DEF Collect, Go, clusterVars
<1>8. CASE CleanJobs(c)
  BY <1>8 DEF CleanJobs, Go, RemoveJobs
<1>9. CASE CleanJobsFails(c)
  BY <1>9 DEF CleanJobsFails, Go, clusterVars
<1>10. CASE CleanPods(c)
  BY <1>10, BatchesAssumption DEF CleanPods, AfterBatch, PodsLabelled, Batches
<1>11. CASE Raise(c)
  BY <1>11 DEF Raise, clusterVars
<1> QED
  BY <1>1, <1>2, <1>3, <1>4, <1>5, <1>6, <1>7, <1>8, <1>9, <1>10, <1>11
  DEF RunBatchInPod

LEMMA LeftoverTyped ==
  ASSUME TypeOK, LeftoverStep
  PROVE  TypeOK'
<1>1. RunnerTypeOK'
  BY DEF LeftoverStep, TypeOK, RunnerTypeOK, runnerVars
<1>2. ASSUME NEW n \in JobNames, TerminationEnds(n) PROVE ClusterTypeOK'
  BY <1>2 DEF TerminationEnds, RemoveJobs, TypeOK, ClusterTypeOK, JobStatus
<1>3. ASSUME NEW t \in Tasks, OrphanEnds(t) PROVE ClusterTypeOK'
  BY <1>3 DEF OrphanEnds, TypeOK, ClusterTypeOK
<1> QED
  BY <1>1, <1>2, <1>3 DEF LeftoverStep, TypeOK

\* What no step of a command changes, and what it moves.
LEMMA OperatorStepMoves ==
  ASSUME CleanupTypeOK, NEW o \in Operators, OperatorStep(o)
  PROVE  /\ OperatorTypeOK'
         /\ UNCHANGED <<target, data, owner, batch, next, remaining, root>>
         /\ \A p \in Operators : p # o => op'[p] = op[p]
<1> USE DEF CleanupTypeOK, OperatorTypeOK, OperatorStates, Command, Step, vars,
            clusterVars, runnerVars
<1>1. CASE StartRunCleanup(o)
  BY <1>1 DEF StartRunCleanup
<1>2. CASE HoldQueue(o)
  BY <1>2 DEF HoldQueue
<1>3. CASE DeleteWorkloads(o)
  BY <1>3 DEF DeleteWorkloads
<1>4. CASE DeleteJobs(o)
  BY <1>4 DEF DeleteJobs
<1>5. CASE ClearFinalizers(o)
  BY <1>5 DEF ClearFinalizers
<1>6. CASE DeletePods(o)
  BY <1>6 DEF DeletePods
<1>7. CASE CallFails(o)
  BY <1>7 DEF CallFails
<1>8. CASE ResumeQueue(o)
  BY <1>8 DEF ResumeQueue
<1>9. CASE DeleteControllers(o)
  BY <1>9 DEF DeleteControllers
<1>10. CASE StartDownloadCleanup(o)
  BY <1>10 DEF StartDownloadCleanup
<1>11. CASE CountJobs(o)
  <2> DEFINE busy == {Label[owner[n]] : n \in {m \in JobNames :
                       status[m] \in {"suspended", "active", "terminating"}}}
  <2>1. PICK found \in {busy, {}} : running' = [running EXCEPT ![o] = found]
    BY <1>11 DEF CountJobs
  <2>2. busy \subseteq {Label[c] : c \in Campaigns}
    BY DEF TypeOK, ClusterTypeOK
  <2>3. running' \in [Operators -> SUBSET {Label[c] : c \in Campaigns}]
    BY <2>1, <2>2
  <2> HIDE DEF busy
  <2>4. /\ op' = [op EXCEPT ![o] = "delete"]
        /\ UNCHANGED <<target, data, stripped, dead, owner, batch, next, remaining, root>>
    BY <1>11 DEF CountJobs
  <2> QED
    BY <2>3, <2>4
<1>12. CASE DeleteData(o)
  BY <1>12 DEF DeleteData
<1> QED
  BY <1>1, <1>2, <1>3, <1>4, <1>5, <1>6, <1>7, <1>8, <1>9, <1>10, <1>11, <1>12
  DEF OperatorStep

\* What a step of a command makes of the cluster: nothing outside the campaigns
\* it chose, no job that was not there, no controller back to life.
LEMMA OperatorStepReach ==
  ASSUME CleanupTypeOK, NEW o \in Operators, OperatorStep(o)
  PROVE  /\ TypeOK'
         /\ \A n \in JobNames : ~Chosen(o, owner[n]) => status'[n] = status[n]
         /\ \A n \in JobNames : status[n] \in {"absent", "terminating"}
                                  => status'[n] \in {"absent", "terminating"}
         /\ \A t \in Tasks : ~Chosen(o, t[1]) => /\ t \in pods <=> t \in pods'
                                                 /\ t \in results <=> t \in results'
         /\ \A c \in Campaigns : /\ ~Chosen(o, c) => pc'[c] = pc[c]
                                 /\ ~Live(c) => pc'[c] = pc[c]
         /\ ended' = ended
<1> DEFINE Reach ==
      /\ status' \in [JobNames -> JobStatus]
      /\ \A n \in JobNames : ~Chosen(o, owner[n]) => status'[n] = status[n]
      /\ \A n \in JobNames : status[n] \in {"absent", "terminating"}
                               => status'[n] \in {"absent", "terminating"}
      /\ pods' \subseteq pods /\ results' \subseteq results
      /\ \A t \in Tasks : ~Chosen(o, t[1]) => /\ t \in pods <=> t \in pods'
                                              /\ t \in results <=> t \in results'
      /\ pc' \in [Campaigns -> RunnerStates]
      /\ \A c \in Campaigns : /\ ~Chosen(o, c) => pc'[c] = pc[c]
                              /\ ~Live(c) => pc'[c] = pc[c]
      /\ ended' = ended /\ held' \in BOOLEAN
<1> SUFFICES Reach
  BY OperatorStepMoves DEF Reach, CleanupTypeOK, TypeOK, ClusterTypeOK, RunnerTypeOK
<1>1. /\ status \in [JobNames -> JobStatus] /\ pc \in [Campaigns -> RunnerStates]
      /\ held \in BOOLEAN
  BY DEF CleanupTypeOK, TypeOK, ClusterTypeOK, RunnerTypeOK
<1> USE <1>1
<1>2. CASE UNCHANGED vars
  BY <1>2 DEF vars, clusterVars, runnerVars
<1>3. CASE HoldQueue(o) \/ ResumeQueue(o)
  BY <1>3 DEF HoldQueue, ResumeQueue, runnerVars
<1>4. CASE DeleteWorkloads(o)
  <2>1. PICK taken \in SUBSET {n \in ChosenJobs(o) : status[n] = "active"} :
          /\ status' = [n \in JobNames |-> IF n \in taken THEN "suspended" ELSE status[n]]
          /\ pods' = pods \ {TaskOf(n) : n \in taken}
    BY <1>4 DEF DeleteWorkloads
  <2>2. UNCHANGED <<owner, results, ended, held, pc>>
    BY <1>4 DEF DeleteWorkloads, runnerVars
  <2>3. \A n \in taken : n \in JobNames /\ Chosen(o, owner[n]) /\ status[n] = "active"
    BY DEF ChosenJobs
  <2>4. \A t \in Tasks : ~Chosen(o, t[1]) => (t \in pods <=> t \in pods')
    BY <2>1, <2>3 DEF TaskOf
  <2>5. /\ status' \in [JobNames -> JobStatus]
        /\ \A n \in JobNames : ~Chosen(o, owner[n]) => status'[n] = status[n]
        /\ \A n \in JobNames : status[n] \in {"absent", "terminating"} => status'[n] = status[n]
    BY <2>1, <2>3 DEF JobStatus
  <2> QED
    BY <2>1, <2>2, <2>4, <2>5
<1>5. CASE DeleteJobs(o)
  <2>1. /\ status' = [n \in JobNames |->
                        IF n \notin ChosenJobs(o) THEN status[n]
                        ELSE IF TaskOf(n) \in pods THEN "terminating" ELSE "absent"]
        /\ UNCHANGED <<owner, pods, results, ended, held, pc>>
    BY <1>5 DEF DeleteJobs, runnerVars
  <2> QED
    BY <2>1 DEF ChosenJobs, JobStatus
<1>6. CASE ClearFinalizers(o)
  BY <1>6 DEF ClearFinalizers, RemoveJobs, ChosenJobs, JobStatus, runnerVars
<1>7. CASE DeletePods(o)
  <2>1. /\ pods' = pods \ ChosenPods(o)
        /\ status' = [n \in JobNames |->
                       IF n \in ChosenJobs(o) /\ TaskOf(n) \in pods /\ status[n] = "active"
                         THEN "failed" ELSE status[n]]
        /\ UNCHANGED <<owner, results, ended, held, pc>>
    BY <1>7 DEF DeletePods, runnerVars
  <2> QED
    BY <2>1 DEF ChosenJobs, ChosenPods, JobStatus
<1>8. CASE DeleteControllers(o)
  BY <1>8 DEF DeleteControllers, clusterVars, RunnerStates
<1>9. CASE DeleteData(o)
  <2>1. PICK gone \in SUBSET {t \in results : Bucket[t[1]] \in Doomed(o)} :
          results' = results \ gone
    BY <1>9 DEF DeleteData
  <2>2. ASSUME NEW t \in gone PROVE Chosen(o, t[1])
    <3>1. t[1] \in Campaigns /\ Bucket[t[1]] \in Doomed(o)
      BY DEF Tasks, CleanupTypeOK, TypeOK, ClusterTypeOK
    <3>2. CASE target[o] = All
      BY <3>2 DEF Chosen
    <3>3. CASE target[o] # All
      <4>1. target[o] \in Campaigns
        BY <3>3 DEF CleanupTypeOK, OperatorTypeOK
      <4>2. Bucket[t[1]] \in StorageNames(target[o])
        BY <3>1, <3>3 DEF Doomed
      <4> QED
        BY <3>1, <4>1, <4>2, StorageAssumption DEF Chosen
    <3> QED
      BY <3>2, <3>3
  <2>3. UNCHANGED <<status, owner, pods, ended, held, pc>>
    BY <1>9 DEF DeleteData, runnerVars
  <2> QED
    BY <2>1, <2>2, <2>3
<1> QED
  BY <1>2, <1>3, <1>4, <1>5, <1>6, <1>7, <1>8, <1>9
  DEF OperatorStep, StartRunCleanup, CallFails, StartDownloadCleanup, CountJobs

-----------------------------------------------------------------------------
(* What holds whatever the campaigns are called.                           *)

LEMMA TypedStep ==
  ASSUME CleanupTypeOK, [CleanupNext]_allVars
  PROVE  CleanupTypeOK'
<1>1. ASSUME Next, UNCHANGED operatorVars PROVE CleanupTypeOK'
  <2>1. TypeOK'
    BY <1>1, RunnerStepTyped, JobStepTyped DEF Next, EnvironmentStep, CleanupTypeOK
  <2> QED
    BY <1>1, <2>1 DEF CleanupTypeOK, OperatorTypeOK, operatorVars
<1>2. ASSUME NEW o \in Operators, OperatorStep(o) PROVE CleanupTypeOK'
  BY <1>2, OperatorStepMoves, OperatorStepReach DEF CleanupTypeOK
<1>3. ASSUME LeftoverStep PROVE CleanupTypeOK'
  BY <1>3, LeftoverTyped DEF LeftoverStep, CleanupTypeOK, OperatorTypeOK, operatorVars
<1>4. CASE UNCHANGED allVars
  BY <1>4 DEF allVars, vars, clusterVars, runnerVars, operatorVars, CleanupTypeOK,
     OperatorTypeOK, TypeOK, ClusterTypeOK, RunnerTypeOK
<1> QED
  BY <1>1, <1>2, <1>3, <1>4 DEF CleanupNext

\* A step of the runners or of Kubernetes brings no controller back, and
\* starts no job that was absent or terminating but those the live ones create.
LEMMA DeadStays ==
  ASSUME TypeOK, Next \/ LeftoverStep
  PROVE  /\ \A c \in Campaigns : ~Live(c) => ~Live(c)'
         /\ \A n \in JobNames :
              \/ Live(owner'[n])
              \/ /\ owner'[n] = owner[n]
                 /\ status[n] \in {"absent", "terminating"}
                      => status'[n] \in {"absent", "terminating"}
<1> USE DEF TypeOK, ClusterTypeOK, RunnerTypeOK
<1>1. ASSUME NEW d \in Campaigns, RunBatchInPod(d) \/ Raise(d)
      PROVE  \A c \in Campaigns : ~Live(c) => ~Live(c)'
  BY <1>1 DEF RunBatchInPod, Raise, StageBatch, CreateJob, BeginPoll, ReadStatus,
     PollAgain, AllFinished, Collect, CleanJobs, CleanJobsFails, CleanPods,
     AfterBatch, Go, Live
<1>2. ASSUME NEW d \in Campaigns, CreateJob(d)
      PROVE  \A n \in JobNames :
               \/ Live(owner'[n])
               \/ owner'[n] = owner[n] /\ status'[n] = status[n]
  BY <1>2 DEF CreateJob, Live
<1>3. ASSUME NEW d \in Campaigns, RunBatchInPod(d) \/ Raise(d), ~CreateJob(d)
      PROVE  /\ owner' = owner
             /\ \A n \in JobNames : status'[n] = status[n] \/ status'[n] = "absent"
  BY <1>3 DEF RunBatchInPod, Raise, StageBatch, BeginPoll, ReadStatus, PollAgain,
     AllFinished, Collect, CleanJobs, CleanJobsFails, CleanPods, RemoveJobs, Go, clusterVars
<1>4. ASSUME NEW n \in JobNames, JobStep(n), UNCHANGED runnerVars
      PROVE  /\ pc' = pc /\ owner' = owner
             /\ \A m \in JobNames : status[m] \in {"absent", "terminating"}
                                      => status'[m] \in {"absent", "terminating"}
  BY <1>4 DEF JobStep, Admit, Preempt, Complete, Fail, Expire, RemoveJobs, runnerVars
<1>5. ASSUME LeftoverStep
      PROVE  /\ pc' = pc /\ owner' = owner
             /\ \A m \in JobNames : status[m] \in {"absent", "terminating"}
                                      => status'[m] \in {"absent", "terminating"}
  BY <1>5 DEF LeftoverStep, TerminationEnds, OrphanEnds, RemoveJobs, runnerVars
<1>6. ASSUME NEW d \in Campaigns, RunBatchInPod(d) \/ Raise(d)
      PROVE  \A n \in JobNames :
               \/ Live(owner'[n])
               \/ /\ owner'[n] = owner[n]
                  /\ status[n] \in {"absent", "terminating"}
                       => status'[n] \in {"absent", "terminating"}
  BY <1>2, <1>3, <1>6
<1> QED
  BY <1>1, <1>4, <1>5, <1>6 DEF Next, EnvironmentStep, Live

LEMMA DeadStep ==
  ASSUME AloneInv, [CleanupNext]_allVars
  PROVE  DeadInv'
<1> USE DEF AloneInv
<1>1. ASSUME Next \/ LeftoverStep, UNCHANGED operatorVars PROVE DeadInv'
  <2> SUFFICES ASSUME NEW o \in Operators, NEW c \in dead[o]
               PROVE  /\ ~Live(c)'
                      /\ \A n \in JobNames :
                           owner'[n] = c => status'[n] \in {"absent", "terminating"}
    BY <1>1 DEF DeadInv, operatorVars
  <2>1. c \in Campaigns /\ ~Live(c)
    BY DEF DeadInv, CleanupTypeOK, OperatorTypeOK
  <2> QED
    BY <1>1, <2>1, DeadStays DEF DeadInv, CleanupTypeOK
<1>2. ASSUME NEW o \in Operators, OperatorStep(o) PROVE DeadInv'
  <2>1. /\ \A c \in Campaigns : ~Live(c) => ~Live(c)'
        /\ owner' = owner
        /\ \A n \in JobNames : status[n] \in {"absent", "terminating"}
                                 => status'[n] \in {"absent", "terminating"}
    BY <1>2, OperatorStepReach, OperatorStepMoves DEF Live
  <2>2. \A p \in Operators : dead[p] \subseteq Campaigns
    BY DEF CleanupTypeOK, OperatorTypeOK
  <2>3. CASE dead' = dead
    BY <2>1, <2>2, <2>3 DEF DeadInv
  <2>4. CASE DeleteJobs(o)
    <3>1. /\ dead' = [dead EXCEPT ![o] = {c \in Campaigns : Chosen(o, c) /\ ~Live(c)}]
          /\ status' = [n \in JobNames |->
                          IF n \notin ChosenJobs(o) THEN status[n]
                          ELSE IF TaskOf(n) \in pods THEN "terminating" ELSE "absent"]
      BY <2>4 DEF DeleteJobs
    <3>2. \A n \in JobNames : Chosen(o, owner[n]) => status'[n] \in {"absent", "terminating"}
      BY <3>1 DEF ChosenJobs, Present
    <3>3. /\ dead'[o] = {c \in Campaigns : Chosen(o, c) /\ ~Live(c)}
          /\ \A p \in Operators : p # o => dead'[p] = dead[p]
      BY <3>1 DEF CleanupTypeOK, OperatorTypeOK
    <3> QED
      BY <2>1, <2>2, <3>2, <3>3 DEF DeadInv
  <2> QED
    BY <1>2, <2>3, <2>4 DEF OperatorStep, StartRunCleanup, HoldQueue, DeleteWorkloads,
       ClearFinalizers, DeletePods, CallFails, ResumeQueue, DeleteControllers,
       StartDownloadCleanup, CountJobs, DeleteData, Command
<1>3. CASE UNCHANGED allVars
  BY <1>3 DEF allVars, vars, clusterVars, runnerVars, operatorVars, DeadInv, Live
<1> QED
  BY <1>1, <1>2, <1>3 DEF CleanupNext, LeftoverStep

LEMMA CleanupStarts ==
  ASSUME CleanupInit
  PROVE  AloneInv
<1> USE DEF CleanupInit, Init, ClusterInit, RunnerInit
<1>1. TypeOK
  <2>1. 0 \in Batches /\ 0 \in 0 .. Width
    BY BatchesAssumption, WidthAssumption DEF Batches
  <2>2. held \in BOOLEAN
    BY Zenon
  <2>3. ClusterTypeOK
    BY <2>2 DEF ClusterTypeOK, JobStatus
  <2> QED
    BY <2>1, <2>3 DEF TypeOK, RunnerTypeOK, RunnerStates
<1>2. OperatorTypeOK
  BY DEF OperatorTypeOK, OperatorStates
<1>3. DeadInv
  BY DEF DeadInv
<1> QED
  BY <1>1, <1>2, <1>3 DEF AloneInv, CleanupTypeOK

\* The clean-up commands and the runners keep AloneInv.
THEOREM CleanupAlone == CleanupSpec => []AloneInv
<1>1. AloneInv /\ [CleanupNext]_allVars => AloneInv'
  BY TypedStep, DeadStep DEF AloneInv
<1> QED
  BY CleanupStarts, <1>1, PTL DEF CleanupSpec

\* The commands keep every variable in its type, whatever the campaigns are
\* called.
THEOREM CleanupTypeCorrect == CleanupSpec => []CleanupTypeOK
<1>1. AloneInv => CleanupTypeOK
  BY DEF AloneInv
<1> QED
  BY <1>1, CleanupAlone, PTL

\* What a dead controller left behind and run-cleanup deleted never comes back
\* (cleanup_cluster_campaign), even for campaigns that share a name or a label.
THEOREM CleanupDeadStaysClean == CleanupSpec => []DeadStaysClean
<1>1. AloneInv => DeadStaysClean
  BY DEF AloneInv, DeadInv, DeadStaysClean
<1> QED
  BY <1>1, CleanupAlone, PTL

\* A command with --campaign leaves every campaign alone whose label is another
\* one: its jobs, pods, controller and results, those under a storage name the
\* command deletes as a whole included (label selectors, delete_campaign).  What
\* it does not leave alone are the finalizers of that campaign's workloads.
THEOREM CleanupSparesOthers == CleanupSpec => SparesOthers
<1> DEFINE Spares ==
      \A o \in Operators, c \in Campaigns :
         op'[o] # op[o] /\ ~Chosen(o, c) =>
           /\ pc'[c] = pc[c]
           /\ \A n \in JobNames : owner[n] = c => status'[n] = status[n]
           /\ \A t \in Tasks : t[1] = c => (t \in pods <=> t \in pods')
                                        /\ (t \in results <=> t \in results')
<1>1. AloneInv /\ [CleanupNext]_allVars => [Spares]_allVars
  <2> SUFFICES ASSUME AloneInv, [CleanupNext]_allVars, NEW o \in Operators,
                      NEW c \in Campaigns, op'[o] # op[o], ~Chosen(o, c)
               PROVE  /\ pc'[c] = pc[c]
                      /\ \A n \in JobNames : owner[n] = c => status'[n] = status[n]
                      /\ \A t \in Tasks : t[1] = c => (t \in pods <=> t \in pods')
                                                   /\ (t \in results <=> t \in results')
    BY DEF Spares
  <2>1. op' # op
    OBVIOUS
  <2>2. PICK p \in Operators : OperatorStep(p)
    BY <2>1 DEF CleanupNext, LeftoverStep, allVars, operatorVars
  <2>3. p = o
    BY <2>2, OperatorStepMoves DEF AloneInv
  <2> QED
    BY <2>2, <2>3, OperatorStepReach DEF AloneInv
<1> QED
  BY <1>1, CleanupAlone, PTL DEF CleanupSpec, SparesOthers, Spares

-----------------------------------------------------------------------------
(* The campaigns nobody cleans.                                            *)

\* A step that touches neither the task, its job nor its runner.
LEMMA TaskFrame ==
  ASSUME NEW t \in Tasks, TaskInv(t),
         status'[JobName(t)] = status[JobName(t)],
         t \in pods' => t \in pods, t \in ended' <=> t \in ended,
         pc'[t[1]] = pc[t[1]], batch'[t[1]] = batch[t[1]],
         next'[t[1]] = next[t[1]], remaining'[t[1]] = remaining[t[1]]
  PROVE  TaskInv(t)'
BY DEF TaskInv, Submitted, Fetched, Reached

LEMMA JobOfTask ==
  ASSUME NamesDistinct, TypeOK, KeysMatch, NEW t \in Tasks
  PROVE  /\ JobName(t) \in JobNames
         /\ TaskOf(JobName(t)) = t
         /\ owner[JobName(t)] = t[1]
<1>1. JobName(t) \in JobNames
  BY TaskParts
<1>2. TaskOf(JobName(t)) = t
  BY <1>1, Naming
<1> QED
  BY <1>1, <1>2, JobParts

LEMMA JobStepTask ==
  ASSUME NamesDistinct, TypeOK, KeysMatch, NEW n \in JobNames, JobStep(n),
         UNCHANGED runnerVars, NEW t \in Tasks, TaskInv(t)
  PROVE  TaskInv(t)'
<1>1. JobName(t) \in JobNames /\ TaskOf(JobName(t)) = t /\ TaskOf(n) \in Tasks
      /\ JobName(TaskOf(n)) = n
  BY JobOfTask, Naming
<1>2. UNCHANGED <<pc, batch, next, remaining>>
  BY DEF runnerVars
<1> USE DEF JobStep, Admit, Preempt, Complete, Fail, Expire, RemoveJobs
<1>3. CASE JobName(t) # n
  <2>1. t # TaskOf(n)
    BY <1>1, <1>3
  <2>2. status'[JobName(t)] = status[JobName(t)]
    BY <1>1, <1>3 DEF TypeOK, ClusterTypeOK
  <2>3. (t \in pods' => t \in pods) /\ (t \in ended' <=> t \in ended)
    BY <2>1
  <2> HIDE DEF JobStep
  <2> QED
    BY <1>2, <2>2, <2>3, TaskFrame
<1>4. CASE JobName(t) = n
  <2>1. TaskOf(n) = t
    BY <1>1, <1>4
  <2>2. \/ /\ status[n] = "suspended" /\ status'[n] = "active"
           /\ ended' = ended
        \/ /\ status[n] = "active" /\ status'[n] = "suspended"
           /\ pods' = pods \ {t} /\ ended' = ended
        \/ /\ status[n] = "active" /\ status'[n] \in {"complete", "failed"}
           /\ pods' = pods \ {t} /\ ended' = ended \cup {t}
        \/ /\ status[n] \in {"complete", "failed"} /\ status'[n] = "absent"
           /\ pods' = pods /\ ended' = ended
    BY <2>1 DEF TypeOK, ClusterTypeOK
  <2> HIDE DEF JobStep
  <2> QED
    BY <1>2, <1>4, <2>2 DEF TaskInv, Submitted, Fetched, Reached
<1> QED
  BY <1>3, <1>4

LEMMA LeftoverTask ==
  ASSUME NamesDistinct, TypeOK, KeysMatch, LeftoverStep, NEW t \in Tasks, TaskInv(t)
  PROVE  TaskInv(t)'
<1>1. JobName(t) \in JobNames /\ TaskOf(JobName(t)) = t
  BY JobOfTask
<1>2. UNCHANGED <<pc, batch, next, remaining>>
  BY DEF LeftoverStep, runnerVars
<1>3. ASSUME NEW n \in JobNames, TerminationEnds(n)
      PROVE  status'[JobName(t)] = status[JobName(t)] /\ pods' \subseteq pods /\ ended' = ended
  <2>1. JobName(t) # n
    BY <1>3 DEF TerminationEnds, TaskInv
  <2> QED
    BY <1>1, <1>3, <2>1 DEF TerminationEnds, RemoveJobs
<1>4. ASSUME NEW u \in Tasks, OrphanEnds(u)
      PROVE  /\ status' = status /\ pods' \subseteq pods /\ (t \in ended' <=> t \in ended)
  <2>1. t # u
    BY <1>4 DEF OrphanEnds, TaskInv, Present
  <2> QED
    BY <1>4, <2>1 DEF OrphanEnds
<1> QED
  BY <1>2, <1>3, <1>4, TaskFrame DEF LeftoverStep

LEMMA OperatorTask ==
  ASSUME NamesDistinct, CleanupTypeOK, KeysMatch, NEW o \in Operators, OperatorStep(o),
         NEW t \in Tasks, Untouched(t[1]), TaskInv(t)
  PROVE  TaskInv(t)'
<1>1. t[1] \in Campaigns /\ ~Chosen(o, t[1])
  BY TaskParts DEF Untouched
<1>2. JobName(t) \in JobNames /\ owner[JobName(t)] = t[1]
  BY JobOfTask DEF CleanupTypeOK
<1>3. UNCHANGED <<batch, next, remaining>>
  BY OperatorStepMoves
<1>4. /\ status'[JobName(t)] = status[JobName(t)] /\ (t \in pods <=> t \in pods')
      /\ pc'[t[1]] = pc[t[1]] /\ ended' = ended
  BY <1>1, <1>2, OperatorStepReach
<1> QED
  BY <1>3, <1>4, TaskFrame

\* A runner does not reach the tasks of another campaign.
LEMMA OtherRunnerTask ==
  ASSUME NamesDistinct, LabelsDistinct, TypeOK, KeysMatch,
         NEW c \in Campaigns, RunBatchInPod(c) \/ Raise(c),
         NEW t \in Tasks, t[1] # c, TaskInv(t)
  PROVE  TaskInv(t)'
<1>1. JobName(t) \in JobNames /\ owner[JobName(t)] = t[1] /\ t[1] \in Campaigns
  BY JobOfTask, TaskParts
<1>2. /\ pc'[t[1]] = pc[t[1]] /\ batch'[t[1]] = batch[t[1]]
      /\ next'[t[1]] = next[t[1]] /\ remaining'[t[1]] = remaining[t[1]]
      /\ ended' = ended
  BY <1>1 DEF RunBatchInPod, Raise, StageBatch, CreateJob, BeginPoll, ReadStatus,
     PollAgain, AllFinished, Collect, CleanJobs, CleanJobsFails, CleanPods,
     AfterBatch, Go, clusterVars, TypeOK, RunnerTypeOK
<1>3. Label[t[1]] # Label[c] /\ NameKey[t[1]] # NameKey[c]
  BY <1>1 DEF LabelsDistinct, NamesDistinct
<1>4. CASE CreateJob(c)
  <2>1. JobName(t) # JobName(Task(c, next[c]))
    BY <1>3 DEF JobName, Task
  <2> QED
    BY <1>1, <1>2, <1>4, <2>1, TaskFrame DEF CreateJob, TypeOK, ClusterTypeOK
<1>5. CASE CleanJobs(c)
  <2>1. JobName(t) \notin Labelled(Label[c])
    BY <1>1, <1>3 DEF Labelled
  <2>2. status'[JobName(t)] = status[JobName(t)] /\ pods' = pods
    BY <1>1, <1>5, <2>1 DEF CleanJobs, RemoveJobs
  <2> QED
    BY <1>2, <2>2, TaskFrame
<1>6. CASE CleanPods(c)
  BY <1>2, <1>6, TaskFrame DEF CleanPods
<1>7. CASE ~CreateJob(c) /\ ~CleanJobs(c) /\ ~CleanPods(c)
  <2>1. UNCHANGED <<status, pods>>
    BY <1>7 DEF RunBatchInPod, Raise, StageBatch, BeginPoll, ReadStatus,
       PollAgain, AllFinished, Collect, CleanJobsFails, clusterVars
  <2> QED
    BY <1>2, <2>1, TaskFrame
<1> QED
  BY <1>4, <1>5, <1>6, <1>7

\* A campaign's own runner keeps its tasks in order.
LEMMA OwnRunnerTask ==
  ASSUME NamesDistinct, LabelsDistinct, TypeOK, KeysMatch,
         NEW c \in Campaigns, RunBatchInPod(c) \/ Raise(c),
         NEW t \in Tasks, t[1] = c, TaskInv(t)
  PROVE  TaskInv(t)'
<1>1. /\ t[2] \in Nat /\ t[3] \in Indices /\ t[3] \in 0 .. Width - 1
      /\ batch[c] \in Nat /\ next[c] \in 0 .. Width
      /\ JobName(t) \in JobNames /\ owner[JobName(t)] = c
      /\ Width \in Nat \ {0}
  BY JobOfTask, TaskParts, BatchesAssumption, WidthAssumption
  DEF TypeOK, RunnerTypeOK, Batches, Indices
<1> USE DEF TaskInv, Submitted, Fetched, Reached
<1>2. CASE StageBatch(c)
  <2>1. /\ pc[c] = "stage" /\ pc'[c] = "create" /\ next'[c] = 0
        /\ UNCHANGED <<status, pods, ended, batch, remaining>>
    BY <1>2 DEF StageBatch, Go, clusterVars, TypeOK, RunnerTypeOK
  <2> QED
    BY <1>1, <2>1
<1>3. CASE CreateJob(c)
  <2>1. /\ pc[c] = "create" /\ next[c] < Width /\ next'[c] = next[c] + 1
        /\ UNCHANGED <<pods, ended, pc, batch, remaining>>
    BY <1>3 DEF CreateJob, TypeOK, RunnerTypeOK
  <2>2. Task(c, next[c]) \in Tasks
    BY <1>1, <2>1, TaskMade DEF Indices
  <2>3. CASE t = Task(c, next[c])
    <3>1. t[2] = batch[c] /\ t[3] = next[c]
      BY <2>3 DEF Task
    <3>2. ~Reached(t)
      BY <1>1, <2>1, <3>1
    <3>3. status[JobName(t)] = "absent" /\ t \notin ended
      BY <3>2
    <3>4. status'[JobName(t)] = "suspended"
      BY <1>1, <1>3, <2>3, <3>3 DEF CreateJob, Present, TypeOK, ClusterTypeOK
    <3> QED
      BY <1>1, <2>1, <3>1, <3>3, <3>4
  <2>4. CASE t # Task(c, next[c])
    <3>1. JobName(t) # JobName(Task(c, next[c]))
      BY <2>2, <2>4, JobOfTask
    <3>2. status'[JobName(t)] = status[JobName(t)]
      BY <1>1, <1>3, <3>1 DEF CreateJob, TypeOK, ClusterTypeOK
    <3>3. ~(t[2] = batch[c] /\ t[3] = next[c])
      BY <2>4, TaskParts DEF Task
    <3> QED
      BY <1>1, <2>1, <3>2, <3>3
  <2> QED
    BY <2>3, <2>4
<1>4. CASE BeginPoll(c)
  <2>1. /\ pc[c] = "create" /\ pc'[c] = "poll" /\ next[c] = Width /\ next'[c] = 0
        /\ UNCHANGED <<status, pods, ended, batch>>
    BY <1>4 DEF BeginPoll, clusterVars, TypeOK, RunnerTypeOK
  <2> QED
    BY <1>1, <2>1
<1>5. CASE ReadStatus(c)
  <2>1. /\ pc[c] = "poll" /\ next[c] < Width /\ next'[c] = next[c] + 1
        /\ remaining[c] \subseteq remaining'[c]
        /\ StillRunning(JobName(Task(c, next[c]))) => next[c] \in remaining'[c]
        /\ UNCHANGED <<status, pods, ended, pc, batch>>
    BY <1>5 DEF ReadStatus, clusterVars, TypeOK, RunnerTypeOK
  <2>2. CASE t[2] = batch[c] /\ t[3] = next[c]
    <3>1. t = Task(c, next[c])
      BY <2>2, TaskParts DEF Task
    <3>2. t \in ended \/ t[3] \in remaining'[c]
      BY <2>1, <2>2, <3>1 DEF StillRunning
    <3> QED
      BY <1>1, <2>1, <2>2, <3>2
  <2>3. CASE ~(t[2] = batch[c] /\ t[3] = next[c])
    BY <1>1, <2>1, <2>3
  <2> QED
    BY <2>2, <2>3
<1>6. CASE PollAgain(c)
  <2>1. /\ pc[c] = "poll" /\ next'[c] = 0
        /\ UNCHANGED <<status, pods, ended, pc, batch>>
    BY <1>6 DEF PollAgain, clusterVars, TypeOK, RunnerTypeOK
  <2> QED
    BY <1>1, <2>1
<1>7. CASE AllFinished(c)
  <2>1. /\ pc[c] = "poll" /\ pc'[c] = "collect" /\ next[c] = Width /\ remaining[c] = {}
        /\ UNCHANGED <<status, pods, ended, batch, next, remaining>>
    BY <1>7 DEF AllFinished, Go, clusterVars, TypeOK, RunnerTypeOK
  <2> QED
    BY <1>1, <2>1
<1>8. CASE Collect(c)
  <2>1. /\ pc[c] = "collect" /\ pc'[c] = "cleanJobs"
        /\ UNCHANGED <<status, pods, ended, batch, next, remaining>>
    BY <1>8 DEF Collect, Go, clusterVars, TypeOK, RunnerTypeOK
  <2> QED
    BY <1>1, <2>1
<1>9. CASE CleanJobs(c) \/ CleanJobsFails(c)
  <2>1. /\ pc[c] = "cleanJobs" /\ pc'[c] = "cleanPods"
        /\ status'[JobName(t)] = status[JobName(t)] \/ status'[JobName(t)] = "absent"
        /\ UNCHANGED <<pods, ended, batch, next, remaining>>
    BY <1>1, <1>9 DEF CleanJobs, CleanJobsFails, Go, RemoveJobs, clusterVars, TypeOK,
       ClusterTypeOK, RunnerTypeOK
  <2>2. t \in ended \/ status[JobName(t)] = "absent"
    BY <1>1, <2>1
  <2>3. t \notin pods
    BY <2>2
  <2> QED
    BY <1>1, <2>1, <2>2, <2>3
<1>10. CASE CleanPods(c)
  <2>1. /\ pc[c] = "cleanPods" /\ pods' \subseteq pods
        /\ \/ pc'[c] = "done" /\ batch'[c] = batch[c]
           \/ pc'[c] = "stage" /\ batch'[c] = batch[c] + 1
        /\ UNCHANGED <<status, ended, next, remaining>>
    BY <1>10 DEF CleanPods, AfterBatch, PodsLabelled, TypeOK, RunnerTypeOK
  <2>2. t[2] < batch[c] + 1 => t[2] < batch[c] \/ t[2] = batch[c]
    BY <1>1
  <2> QED
    BY <1>1, <2>1, <2>2
<1>11. CASE Raise(c)
  <2>1. /\ pc[c] \in {"stage", "create", "poll", "collect"} /\ pc'[c] = "raised"
        /\ UNCHANGED <<status, pods, ended, batch, next, remaining>>
    BY <1>11 DEF Raise, clusterVars, TypeOK, RunnerTypeOK
  <2> QED
    BY <1>1, <2>1
<1> QED
  BY <1>2, <1>3, <1>4, <1>5, <1>6, <1>7, <1>8, <1>9, <1>10, <1>11 DEF RunBatchInPod

LEMMA KeysStay ==
  ASSUME TypeOK, KeysMatch, Next \/ LeftoverStep
  PROVE  KeysMatch'
<1>1. ASSUME NEW c \in Campaigns, CreateJob(c) PROVE KeysMatch'
  <2>1. NameKey[c] = JobName(Task(c, next[c]))[1]
    BY DEF JobName, Task
  <2> QED
    BY <1>1, <2>1 DEF CreateJob, KeysMatch, TypeOK, ClusterTypeOK
<1>2. ASSUME NEW c \in Campaigns, RunBatchInPod(c) \/ Raise(c), ~CreateJob(c)
      PROVE  owner' = owner
  BY <1>2 DEF RunBatchInPod, Raise, StageBatch, BeginPoll, ReadStatus, PollAgain,
     AllFinished, Collect, CleanJobs, CleanJobsFails, CleanPods, clusterVars
<1>3. ASSUME NEW n \in JobNames, JobStep(n) PROVE owner' = owner
  BY <1>3 DEF JobStep, Admit, Preempt, Complete, Fail, Expire
<1>4. ASSUME LeftoverStep PROVE owner' = owner
  BY <1>4 DEF LeftoverStep, TerminationEnds, OrphanEnds
<1>5. owner' = owner => KeysMatch'
  BY DEF KeysMatch
<1> QED
  BY <1>1, <1>2, <1>3, <1>4, <1>5 DEF Next, EnvironmentStep

LEMMA OthersStep ==
  ASSUME NamesDistinct, LabelsDistinct, OthersInv, [CleanupNext]_allVars
  PROVE  OthersInv'
<1> USE DEF OthersInv
<1>1. AloneInv' /\ CleanupTypeOK /\ TypeOK
  BY TypedStep, DeadStep DEF AloneInv, CleanupTypeOK
<1>2. ASSUME Next, UNCHANGED operatorVars
      PROVE  KeysMatch' /\ \A t \in Tasks : Untouched(t[1])' => TaskInv(t)'
  <2>1. ASSUME NEW t \in Tasks, TaskInv(t) PROVE TaskInv(t)'
    BY <1>1, <1>2, <2>1, OwnRunnerTask, OtherRunnerTask, JobStepTask DEF Next, EnvironmentStep
  <2>2. \A t \in Tasks : Untouched(t[1])' => Untouched(t[1])
    BY <1>2 DEF Untouched, Chosen, operatorVars
  <2> QED
    BY <1>1, <1>2, <2>1, <2>2, KeysStay
<1>3. ASSUME LeftoverStep
      PROVE  KeysMatch' /\ \A t \in Tasks : Untouched(t[1])' => TaskInv(t)'
  <2>1. \A t \in Tasks : Untouched(t[1])' => Untouched(t[1])
    BY <1>3 DEF LeftoverStep, Untouched, Chosen, operatorVars
  <2> QED
    BY <1>1, <1>3, <2>1, KeysStay, LeftoverTask
<1>4. ASSUME NEW o \in Operators, OperatorStep(o)
      PROVE  KeysMatch' /\ \A t \in Tasks : Untouched(t[1])' => TaskInv(t)'
  <2>1. UNCHANGED <<target, owner>>
    BY <1>1, <1>4, OperatorStepMoves
  <2>2. \A t \in Tasks : Untouched(t[1])' => Untouched(t[1])
    BY <2>1 DEF Untouched, Chosen
  <2> QED
    BY <1>1, <1>4, <2>1, <2>2, OperatorTask DEF KeysMatch
<1>5. CASE UNCHANGED allVars
  <2>1. KeysMatch' /\ \A t \in Tasks : TaskInv(t) => TaskInv(t)'
    BY <1>5, TaskFrame DEF allVars, vars, clusterVars, runnerVars, KeysMatch
  <2>2. \A t \in Tasks : Untouched(t[1])' => Untouched(t[1])
    BY <1>5 DEF allVars, operatorVars, Untouched, Chosen
  <2> QED
    BY <1>1, <2>1, <2>2
<1> QED
  BY <1>1, <1>2, <1>3, <1>4, <1>5 DEF CleanupNext

\* The commands keep OthersInv, as long as no two campaigns share the key of
\* their job names or their label.
THEOREM CleanupOthers ==
  ASSUME NamesDistinct, LabelsDistinct
  PROVE  CleanupSpec => []OthersInv
<1>1. CleanupInit => OthersInv
  <2> SUFFICES ASSUME CleanupInit PROVE OthersInv
    OBVIOUS
  <2>1. AloneInv /\ KeysMatch
    BY CleanupStarts DEF CleanupInit, Init, ClusterInit, KeysMatch
  <2>2. ASSUME NEW t \in Tasks PROVE TaskInv(t)
    <3>1. t[1] \in Campaigns /\ t[2] \in Nat /\ JobName(t) \in JobNames
      BY TaskParts, BatchesAssumption DEF Batches
    <3> QED
      BY <3>1 DEF CleanupInit, Init, ClusterInit, RunnerInit, TaskInv, Submitted, Fetched
  <2> QED
    BY <2>1, <2>2 DEF OthersInv
<1>2. OthersInv /\ [CleanupNext]_allVars => OthersInv'
  BY OthersStep
<1> QED
  BY <1>1, <1>2, PTL DEF CleanupSpec

\* A campaign nobody cleans fetches its batches only after their jobs have
\* ended, whatever the commands do to the queue and to the other campaigns.
THEOREM CleanupOthersCollectAfterEnd ==
  ASSUME NamesDistinct, LabelsDistinct
  PROVE  CleanupSpec => []OthersCollectAfterEnd
<1>1. OthersInv => OthersCollectAfterEnd
  <2> SUFFICES ASSUME OthersInv, NEW c \in Campaigns, Untouched(c), Collecting(c),
                      NEW i \in Indices
               PROVE  Task(c, i) \in ended
    BY DEF OthersCollectAfterEnd, BatchTasks
  <2>1. /\ Task(c, i) \in Tasks /\ Task(c, i)[1] = c /\ Task(c, i)[2] = batch[c]
    BY TaskMade DEF OthersInv, AloneInv, CleanupTypeOK
  <2> QED
    BY <2>1 DEF OthersInv, TaskInv, Collecting, Fetched
<1> QED
  BY <1>1, CleanupOthers, PTL
=============================================================================
