--------------------------- MODULE Postprocessing ---------------------------
(***************************************************************************)
(* `vast results postprocess' (run_postprocessing): the commands of the    *)
(* .vast file are batched, so that every rosbag is read once for all its   *)
(* handlers (rosbags_process); a pool of workers processes the bags, each  *)
(* bag with a cache file next to it that lets later calls skip it; then    *)
(* the provenance of the produced files is written, and the tables of the  *)
(* newest campaign are gathered in data.db.  Bags still grow while they    *)
(* are processed (the campaign is running), handlers, bags and workers     *)
(* fail, and the user interrupts the command.                              *)
(***************************************************************************)
EXTENDS Naturals, FiniteSets, Sequences, SequencesExt

CONSTANTS
  Bags,         \* the rosbags of the results directory
  Dir,          \* the directory that a bag, and its cache file, is in
  BagDir,       \* the name of the bag's own directory (`rosbag2', ...)
  Newest,       \* the bags of the newest campaign
  Growing,      \* those of its runs that are still recording
  Commands,     \* postprocessing: of the .vast file, handlers and Other
  Handlers, Rosout,   \* rosbags_* commands, and the one that is always added
  BagDirOf,     \* the bag directory that a handler reads
  Other,        \* any other command
  Lossy,        \* handlers whose messages, or files, may be unreadable
  Skips,        \* bound: the sets of handlers that a call may be told to skip
  Workers,      \* size of the pool
  MaxVersion,   \* bound: times a bag is seen to have grown
  MaxCommands,  \* bound: times the command is called
  MaxFaults     \* bound: failures and interruptions

ASSUME PostprocessingAssumption ==
  /\ Growing \subseteq Newest /\ Newest \subseteq Bags
  /\ Skips \subseteq SUBSET Handlers /\ Rosout \in Handlers /\ Other \notin Handlers
  /\ Lossy \subseteq Handlers
  /\ Commands \in Seq(Handlers \cup {Other})
  /\ DOMAIN Dir = Bags /\ DOMAIN BagDir = Bags /\ DOMAIN BagDirOf = Handlers
  /\ Workers \in Nat \ {0}
  /\ {MaxVersion, MaxCommands, MaxFaults} \subseteq Nat

VARIABLES
  version,   \* of a bag: 1, and one more each time it has grown
  out,       \* the files a handler made of a bag: Absent, Half, or the version,
             \* of which messages may be missing
  cache,     \* .robovast_rosbags_process_cache of a directory
  prov,      \* _transient/postprocessing.yaml
  db,        \* rows of data.db, by bag
  cmd,       \* the command
  pool,       \* its tasks in the pool
  last,      \* how the last command ended
  commands, faults,
  began,     \* handlers that last began to write files of a bag (history)
  spoiled,   \* bags whose files changed under a cache file that vouches for
             \* them (history)
  made       \* files the last command made, by step (history)

postVars == <<version, out, cache, prov, db, cmd, pool, last, commands, faults, began, spoiled, made>>
history == <<began, spoiled, made>>
files == <<out, cache, prov, db>>

Absent == 0
Half   == MaxVersion + 1
Gappy(v) == v + MaxVersion + 1   \* made from version v, with messages missing
MadeOf(h, v) == IF h \in Lossy THEN {v, Gappy(v)} ELSE {v}
NoKey  == [bag |-> "none", version |-> 0, handlers |-> <<>>]
NoRows == [h \in Handlers |-> Absent]

Idle   == [pc |-> "idle", force |-> FALSE, steps |-> <<>>, at |-> 1,
           written |-> {}, entries |-> {}, ok |-> TRUE, todo |-> {}]
NoJob  == [st |-> "none", key |-> NoKey, seen |-> 0, active |-> {}, good |-> {}]

PostInit ==
  /\ version = [b \in Bags |-> 1]
  /\ out = [b \in Bags |-> NoRows]
  /\ cache = [d \in {Dir[b] : b \in Bags} |-> NoKey]
  /\ prov = {} /\ db = [b \in Bags |-> NoRows]
  /\ cmd = Idle /\ pool = [b \in Bags |-> NoJob]
  /\ last = [end |-> "none", db |-> FALSE]
  /\ commands = 0 /\ faults = 0
  /\ began = [b \in Bags |-> {}] /\ spoiled = {} /\ made = {}

Fault == faults < MaxFaults /\ faults' = faults + 1
CmdAt(pc) == cmd.pc = pc

-----------------------------------------------------------------------------
(* The steps of a call: skipped commands are left out, the handlers of one  *)
(* bag directory become one step at the place of the first of them, rosout  *)
(* is added unless it is skipped, and comes last in its step.               *)
Batch(skip) ==
  LET kept == SelectSeq(Commands, LAMBDA c : c \notin skip)
      all  == kept \o IF Rosout \in skip \cup ToSet(kept) THEN <<>> ELSE <<Rosout>>
      dir(c) == IF c = Other THEN "other" ELSE BagDirOf[c]
      place == SelectSeq([i \in DOMAIN all |-> i], LAMBDA i :
                 all[i] = Other \/ \A j \in 1 .. i - 1 : dir(all[j]) # dir(all[i]))
      of(d) == SelectSeq(all, LAMBDA c : dir(c) = d /\ c # Rosout)
                 \o SelectSeq(all, LAMBDA c : dir(c) = d /\ c = Rosout)
  IN  [k \in DOMAIN place |->
         LET d == dir(all[place[k]])
         IN [dir |-> d, handlers |-> IF d = "other" THEN <<>> ELSE of(d)]]

StepsLeft == cmd.at \in DOMAIN cmd.steps
Step == cmd.steps[cmd.at]
Advance(ok) == [cmd EXCEPT !.pc = "step", !.at = @ + 1, !.ok = @ /\ ok]

(* The bag's files by name, time and size, and the handlers' configuration. *)
Fingerprint(b) == [bag |-> b, version |-> version[b], handlers |-> Step.handlers]

(* A campaign that still runs adds to a bag.                                *)
Record(b) ==
  /\ b \in Growing /\ version[b] < MaxVersion
  /\ version' = [version EXCEPT ![b] = @ + 1]
  /\ UNCHANGED <<files, cmd, pool, last, commands, faults, history>>

Call(force, skip) ==
  /\ CmdAt("idle") /\ commands < MaxCommands
  /\ commands' = commands + 1
  /\ cmd' = [Idle EXCEPT !.pc = "step", !.force = force, !.steps = Batch(skip)]
  /\ last' = [end |-> "none", db |-> FALSE] /\ made' = {}
  /\ UNCHANGED <<version, files, pool, faults, began, spoiled>>

OtherStep(ok) ==
  /\ CmdAt("step") /\ StepsLeft /\ Step.dir = "other"
  /\ IF ok THEN UNCHANGED faults ELSE Fault
  /\ cmd' = Advance(ok)
  /\ UNCHANGED <<version, files, pool, last, commands, history>>

(* rosbags_process scans for the bags of its directory, and fills the pool. *)
Scan ==
  /\ CmdAt("step") /\ StepsLeft /\ Step.dir # "other"
  /\ pool' = [b \in Bags |-> IF BagDir[b] = Step.dir THEN [NoJob EXCEPT !.st = "queued"]
                                                   ELSE NoJob]
  /\ cmd' = [cmd EXCEPT !.pc = "pool"]
  /\ UNCHANGED <<version, files, last, commands, faults, history>>

Doing(b, st) == CmdAt("pool") /\ pool[b].st = st
Busy == {b \in Bags : pool[b].st \in {"keyed", "open", "closed", "lost"}}

(* --force computes no fingerprint before it reads the bag.                 *)
TakeKey(b) == IF cmd.force THEN NoKey ELSE Fingerprint(b)
Take(b) ==
  /\ Doing(b, "queued") /\ Cardinality(Busy) < Workers
  /\ LET key == TakeKey(b)
         hit == ~cmd.force /\ cache[Dir[b]] = key
     IN pool' = [pool EXCEPT ![b].st = IF hit THEN "done" ELSE "keyed", ![b].key = key]
  /\ UNCHANGED <<version, files, cmd, last, commands, faults, history>>

Vouched(b) == cache[Dir[b]].bag = b /\ cache[Dir[b]].version = version[b]

(* The bag opens, and those handlers that can begin start to write.         *)
Open(b, active) ==
  /\ Doing(b, "keyed") /\ active # {}
  /\ IF active = ToSet(Step.handlers) THEN UNCHANGED faults ELSE Fault
  /\ pool' = [pool EXCEPT ![b].st = "open", ![b].seen = version[b], ![b].active = active]
  /\ out' = [out EXCEPT ![b] = [h \in Handlers |-> IF h \in active THEN Half ELSE @[h]]]
  /\ began' = [began EXCEPT ![b] = active]
  /\ spoiled' = IF Vouched(b) THEN spoiled \cup {b} ELSE spoiled
  /\ UNCHANGED <<version, cache, prov, db, cmd, last, commands, made>>

(* The bag cannot be opened, or no handler begins: nothing is touched.      *)
OpenFails(b) ==
  /\ Doing(b, "keyed") /\ Fault
  /\ pool' = [pool EXCEPT ![b].st = "done"]
  /\ UNCHANGED <<version, files, cmd, last, commands, history>>

(* The place of the i-th configured handler among those that began.         *)
ResultNo(b, i) == Cardinality({j \in 1 .. i : Step.handlers[j] \in pool[b].active})

(* Every handler ends its files, or reports -2 and leaves what it has.  A   *)
(* topic whose type cannot be loaded, a message that cannot be decoded or   *)
(* that a handler cannot take in are passed over: only a printed line tells *)
(* of it.                                                                   *)
EndHandlers(b, good) ==
  /\ Doing(b, "open") /\ good \subseteq pool[b].active
  /\ IF good = pool[b].active THEN UNCHANGED faults ELSE Fault
  /\ pool' = [pool EXCEPT ![b].good = good,
               ![b].st = IF good = pool[b].active THEN "closed" ELSE "done"]
  /\ \E gaps \in SUBSET (good \cap Lossy) :
       out' = [out EXCEPT ![b] = [h \in Handlers |->
                 CASE h \in gaps -> Gappy(pool[b].seen)
                   [] h \in good \ gaps -> pool[b].seen
                   [] OTHER -> @[h]]]
  /\ made' = made \cup {<<cmd.at, b, h>> : h \in good}
  /\ UNCHANGED <<version, cache, prov, db, cmd, last, commands, began, spoiled>>

WriteCacheAfresh(b) ==   \* mutant: always the fingerprint of the bag as it is now
  /\ Doing(b, "closed")
  /\ cache' = [cache EXCEPT ![Dir[b]] = Fingerprint(b)]
  /\ pool' = [pool EXCEPT ![b].st = "done"]
  /\ spoiled' = spoiled \ {b}
  /\ UNCHANGED <<version, out, prov, db, cmd, last, commands, faults, began, made>>
WriteCache(b) ==
  /\ Doing(b, "closed")
  /\ cache' = [cache EXCEPT ![Dir[b]] = IF cmd.force THEN Fingerprint(b) ELSE pool[b].key]
  /\ pool' = [pool EXCEPT ![b].st = "done"]
  /\ spoiled' = IF cmd.force /\ pool[b].seen # version[b] THEN spoiled \cup {b} ELSE spoiled \ {b}
  /\ UNCHANGED <<version, out, prov, db, cmd, last, commands, faults, began, made>>

(* The cache file cannot be opened, or is left empty: nobody is told.       *)
WriteCacheFails(b, left) ==
  /\ Doing(b, "closed") /\ Fault
  /\ left \in {cache[Dir[b]], NoKey}
  /\ cache' = [cache EXCEPT ![Dir[b]] = left]
  /\ pool' = [pool EXCEPT ![b].st = "done"]
  /\ UNCHANGED <<version, out, prov, db, cmd, last, commands, history>>

(* Reading raises: the pool is torn down, no bag of the step is reported.   *)
Raise(b) ==
  /\ Doing(b, "open") /\ Fault
  /\ pool' = [c \in Bags |-> NoJob] /\ cmd' = Advance(FALSE)
  /\ made' = {m \in made : m[1] # cmd.at}
  /\ UNCHANGED <<version, files, last, commands, began, spoiled>>

(* The system kills a worker: the pool waits for its answer for ever.       *)
WorkerDies(b) ==
  /\ \E st \in {"keyed", "open", "closed"} : Doing(b, st)
  /\ Fault
  /\ pool' = [pool EXCEPT ![b].st = "lost"]
  /\ UNCHANGED <<version, files, cmd, last, commands, history>>

(* The n-th result of a bag is recorded with the n-th configured handler,   *)
(* in a file that all steps of one plugin append to.                        *)
Reported ==
  UNION {{[bag |-> b, made |-> Step.handlers[i], as |-> Step.handlers[ResultNo(b, i)]] :
            i \in {j \in DOMAIN Step.handlers : Step.handlers[j] \in pool[b].good}} : b \in Bags}

PoolDoneWithAll == CmdAt("pool") /\ \A b \in Bags : pool[b].st = "done"   \* mutant
PoolDone == CmdAt("pool") /\ \A b \in Bags : pool[b].st \in {"none", "done"}
EndStepForgets ==   \* mutant: the entries of the last step only
  /\ PoolDone
  /\ cmd' = [Advance(TRUE) EXCEPT !.entries = {<<cmd.at, e>> : e \in Reported}]
  /\ pool' = [b \in Bags |-> NoJob]
  /\ UNCHANGED <<version, files, last, commands, faults, history>>
EndStep ==
  /\ PoolDone
  /\ LET written == cmd.written \cup Reported
     IN cmd' = [Advance(TRUE) EXCEPT !.written = written,
                  !.entries = @ \cup {<<cmd.at, e>> : e \in written}]
  /\ pool' = [b \in Bags |-> NoJob]
  /\ UNCHANGED <<version, files, last, commands, faults, history>>

-----------------------------------------------------------------------------
(* After the last step.  The provenance replaces that of earlier calls.     *)
WriteProvenance ==
  /\ CmdAt("step") /\ ~StepsLeft
  /\ prov' = cmd.entries
  /\ cmd' = [cmd EXCEPT !.pc = "db"]
  /\ UNCHANGED <<version, out, cache, db, pool, last, commands, faults, history>>

ProvenanceFails ==
  /\ CmdAt("step") /\ ~StepsLeft /\ Fault
  /\ cmd' = [cmd EXCEPT !.pc = "db"] /\ made' = {}
  /\ UNCHANGED <<version, files, pool, last, commands, began, spoiled>>

SkipDb ==
  /\ CmdAt("db")
  /\ cmd' = Idle /\ last' = [end |-> IF cmd.ok THEN "ok" ELSE "failed", db |-> FALSE]
  /\ UNCHANGED <<version, files, pool, commands, faults, history>>

(* data.db is removed, and filled run by run.                               *)
NewDb ==
  /\ CmdAt("db")
  /\ db' = [b \in Bags |-> IF b \in Newest THEN NoRows ELSE db[b]]
  /\ cmd' = [cmd EXCEPT !.pc = "fill", !.todo = Newest]
  /\ UNCHANGED <<version, out, cache, prov, pool, last, commands, faults, history>>

(* A file that cannot be read is passed over, and nothing tells of it.      *)
FillDb(b) ==
  /\ CmdAt("fill") /\ b \in cmd.todo
  /\ \E unread \in SUBSET Lossy :
       db' = [db EXCEPT ![b] = [h \in Handlers |-> IF h \in unread THEN Absent ELSE out[b][h]]]
  /\ cmd' = [cmd EXCEPT !.todo = @ \ {b}]
  /\ UNCHANGED <<version, out, cache, prov, pool, last, commands, faults, history>>

(* Two files of a run give one table, or SQLite fails.                      *)
DbRaises ==
  /\ CmdAt("fill") /\ Fault
  /\ cmd' = Idle /\ last' = [end |-> "raised", db |-> FALSE]
  /\ UNCHANGED <<version, files, pool, commands, history>>

Finish ==
  /\ CmdAt("fill") /\ cmd.todo = {}
  /\ cmd' = Idle /\ last' = [end |-> IF cmd.ok THEN "ok" ELSE "failed", db |-> TRUE]
  /\ UNCHANGED <<version, files, pool, commands, faults, history>>

(* Ctrl+C reaches the command, docker_exec.sh and the container.            *)
Interrupt ==
  /\ ~CmdAt("idle") /\ Fault
  /\ cmd' = Idle /\ pool' = [b \in Bags |-> NoJob]
  /\ last' = [end |-> "killed", db |-> FALSE] /\ made' = {}
  /\ UNCHANGED <<version, files, commands, began, spoiled>>

-----------------------------------------------------------------------------
Program ==
  \/ \E ok \in BOOLEAN : OtherStep(ok)
  \/ Scan \/ EndStep \/ WriteProvenance \/ SkipDb \/ NewDb \/ Finish
  \/ \E b \in Bags : Take(b) \/ WriteCache(b) \/ FillDb(b)
  \/ \E b \in Bags, hs \in SUBSET Handlers :
       \/ Doing(b, "keyed") /\ hs \subseteq ToSet(Step.handlers) /\ Open(b, hs)
       \/ EndHandlers(b, hs)

PostNext ==
  \/ Program
  \/ \E force \in BOOLEAN, skip \in Skips : Call(force, skip)
  \/ \E b \in Bags : Record(b) \/ OpenFails(b) \/ Raise(b) \/ WorkerDies(b)
  \/ \E b \in Bags, left \in Range(cache) \cup {NoKey} : WriteCacheFails(b, left)
  \/ ProvenanceFails \/ DbRaises \/ Interrupt

(* The command and its workers run; nothing else has to happen.             *)
PostSpec == PostInit /\ [][PostNext]_postVars /\ WF_postVars(Program)

-----------------------------------------------------------------------------
Made == 0 .. 2 * MaxVersion + 1
Keys == [bag : Bags, version : 1 .. MaxVersion, handlers : Seq(Handlers)]

(* Type correctness of the command, its pool and the files it keeps.        *)
PostTypeOK ==
  /\ version \in [Bags -> 1 .. MaxVersion]
  /\ out \in [Bags -> [Handlers -> Made]] /\ db \in [Bags -> [Handlers -> Made]]
  /\ cache \in [{Dir[b] : b \in Bags} -> Keys \cup {NoKey}]
  /\ prov \subseteq (1 .. Len(Commands) + 1) \X [bag : Bags, made : Handlers, as : Handlers]
  /\ pool \in [Bags -> [st : {"none", "queued", "keyed", "open", "closed", "done", "lost"},
                       key : Keys \cup {NoKey}, seen : 0 .. MaxVersion,
                       active : SUBSET Handlers, good : SUBSET Handlers]]
  /\ cmd.pc \in {"idle", "step", "pool", "db", "fill"} /\ cmd.todo \subseteq Newest
  /\ last \in [end : {"none", "ok", "failed", "raised", "killed"}, db : BOOLEAN]
  /\ Cardinality(Busy) <= Workers

(* A cache file that later calls believe vouches for files that were ended, *)
(* and made from the bag as it is now, by every handler that could begin:   *)
(* whatever grew, failed or was interrupted, and whichever bags share the   *)
(* directory.  Messages that were passed over may be missing from them.     *)
(* Not for a bag that was written again (--force, or other handlers) under  *)
(* a cache file that already vouched for it (process_rosbag_worker does not *)
(* remove that file first), nor for one that grew during a --force.         *)
CachedIsCurrent ==
  \A b \in Bags \ spoiled :
    Vouched(b) /\ pool[b].st \notin {"open", "closed"}
      => \A h \in began[b] : out[b][h] \in MadeOf(h, version[b])

(* What a call made in a step that did not raise is in the provenance it    *)
(* leaves if it can write that file at all (run_postprocessing, main of     *)
(* rosbags_process), in whichever order bags finished and steps failed.     *)
MadeIsRecorded ==
  last.end \in {"ok", "failed"} =>
    \A m \in made : \E e \in prov : e[2].bag = m[2] /\ e[2].made = m[3]

(* What data.db has of the newest campaign it has from the files as they    *)
(* are, all of a file or nothing, unless the last call was told to skip it, *)
(* was interrupted, or failed on it (generate_data_db always builds it      *)
(* anew).  A file that could not be read is missing from it.                *)
DbRowsCurrent ==
  last.db => \A b \in Newest, h \in Handlers : db[b][h] \in {out[b][h], Absent}

(* Every call comes to its end, unless the system has killed one of its     *)
(* workers (run by Pool.imap_unordered in rosbags_process).                 *)
CallEnds == []<>(CmdAt("idle") \/ \E b \in Bags : pool[b].st = "lost")

-----------------------------------------------------------------------------
(* What the words say and the code does not do: TLC finds these violated.   *)

(* "cache hit -- already processed" (rosbags_process.py:740): with all the  *)
(* messages of the bag.                                                     *)
CachedIsComplete ==
  \A b \in Bags \ spoiled :
    Vouched(b) /\ pool[b].st \notin {"open", "closed"}
      => \A h \in began[b] : out[b][h] = version[b]

(* "Each CSV filename becomes a separate table containing data from all     *)
(* configs and all runs" (postprocessing_plugins.py:455).                   *)
DbShowsFiles == last.db => \A b \in Newest : db[b] = out[b]
=============================================================================
