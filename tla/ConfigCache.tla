----------------------------- MODULE ConfigCache -----------------------------
(***************************************************************************)
(* The generation of the concrete configurations of a project              *)
(* (generate_scenario_variations), its on-disk cache and the campaign      *)
(* directories prepared from its result.                                   *)
(*                                                                         *)
(* Every process that needs the configurations (a local run, the           *)
(* pre-flight check of a cluster run, the configuration commands, the      *)
(* editor) makes the same call in the same project directory and uses the  *)
(* same two cache entries: the metadata and an archive of the output       *)
(* directory, each a file and a marker next to it.  Nothing locks them.    *)
(*                                                                         *)
(* The project's files are a version number: an edit changes a parameter   *)
(* of a configuration block (not its name, the scenario or the run files)  *)
(* and gives the files a new time stamp.  A version stands for what was    *)
(* generated from it, too.                                                 *)
(***************************************************************************)
EXTENDS Naturals, FiniteSets

CONSTANTS
  Procs,         \* the processes that call generate_scenario_variations
  MaxVersion,    \* bound: versions of the project's files
  MaxFaults,     \* bound: calls that are killed and writes to the cache that fail
  MaxCampaigns   \* bound: campaign directories that are prepared

ASSUME ConfigCacheAssumption ==
  /\ MaxVersion \in Nat \ {0}
  /\ {MaxFaults, MaxCampaigns} \subseteq Nat

VARIABLES
  project,    \* the version of the project's files
  meta,       \* the metadata entries, by key
  archive,    \* the archives of the output directory, by key
  call,       \* the call each process is in
  campaigns,  \* the campaign directories prepared so far
  raced,      \* keys taken after an edit of what had been loaded (history)
  faults

vars == <<project, meta, archive, call, campaigns, raced, faults>>

Versions == 1 .. MaxVersion
Nothing  == 0                \* no file, no archive extracted
CutOff   == MaxVersion + 1   \* a file that does not parse: half written or mixed
Files    == Versions \cup {Nothing, CutOff}
NoBlock  == 0                \* the empty configuration block

Entry == [file : Files, marked : BOOLEAN]

Steps == {"idle", "load", "lookup", "read", "restore", "extract", "generate",
          "store", "write", "mark", "pack", "fill", "commit", "prepare"}

(* dir: the caller gave an output directory; config: the configurations     *)
(* returned, and block their block in the .vast file; outdir: what is in    *)
(* the output directory; linked: the metadata file it is writing is still   *)
(* in the directory; shared: another process has had the file open since.   *)
Call == [pc : Steps, dir : BOOLEAN, loaded : Versions \cup {Nothing},
         key : Versions \cup {Nothing}, config : Versions \cup {Nothing},
         block : Versions \cup {NoBlock}, outdir : Versions \cup {Nothing},
         linked : BOOLEAN, shared : BOOLEAN]

NoCall == [pc |-> "idle", dir |-> FALSE, loaded |-> Nothing, key |-> Nothing,
           config |-> Nothing, block |-> NoBlock, outdir |-> Nothing,
           linked |-> FALSE, shared |-> FALSE]

Campaign == [id : 1 .. MaxCampaigns, config : Versions, loaded : Versions, key : Versions,
             artifacts : Versions, identifier : Versions \cup {NoBlock}]

Absent == [file |-> Nothing, marked |-> FALSE]

Init ==
  /\ project = 1
  /\ meta    = [k \in Versions |-> Absent]
  /\ archive = [k \in Versions |-> Absent]
  /\ call    = [p \in Procs |-> NoCall]
  /\ campaigns = {} /\ raced = {}
  /\ faults = 0

At(p, step) == call[p].pc = step
Key(p)      == call[p].key

(* Lookups are by file name, and the name holds the fingerprint: a marker   *)
(* that is there always matches.                                            *)
Found(entry) == entry.marked /\ entry.file # Nothing

-----------------------------------------------------------------------------
(* The call.                                                               *)

Load(p) ==
  /\ At(p, "idle")
  /\ \E d \in BOOLEAN :
       call' = [call EXCEPT ![p] = [NoCall EXCEPT !.pc = "load", !.dir = d, !.loaded = project]]
  /\ UNCHANGED <<project, meta, archive, campaigns, raced, faults>>

\* Mutant: the key does not depend on the contents of the files.
BuildKeyFromNames(p) ==
  /\ At(p, "load")
  /\ call' = [call EXCEPT ![p].pc = "lookup", ![p].key = 1]
  /\ UNCHANGED <<project, meta, archive, campaigns, raced, faults>>

(* The key takes time stamp and size of the files as they are now: not as   *)
(* they were when the .vast file was loaded.                                *)
BuildKey(p) ==
  /\ At(p, "load")
  /\ call' = [call EXCEPT ![p].pc = "lookup", ![p].key = project]
  /\ raced' = IF call[p].loaded = project THEN raced ELSE raced \cup {project}
  /\ UNCHANGED <<project, meta, archive, campaigns, faults>>

LookUp(p) ==
  /\ At(p, "lookup")
  /\ call' = [call EXCEPT ![p].pc = IF Found(meta[Key(p)]) THEN "read" ELSE "generate"]
  /\ UNCHANGED <<project, meta, archive, campaigns, raced, faults>>

(* Content that does not parse, and a file that went away since it was      *)
(* looked up, are a miss that removes the entry; whoever is writing that    *)
(* file writes into nothing.                                                *)
ReadHit(p) ==
  /\ At(p, "read")
  /\ meta[Key(p)].file \in Versions
  /\ call' = [call EXCEPT ![p].pc = IF call[p].dir THEN "restore" ELSE "idle",
                          ![p].config = meta[Key(p)].file]
  /\ UNCHANGED <<project, meta, archive, campaigns, raced, faults>>

ReadMiss(p) ==
  /\ At(p, "read")
  /\ meta[Key(p)].file \notin Versions
  /\ meta' = [meta EXCEPT ![Key(p)] = Absent]
  /\ call' = [q \in Procs |->
                IF q = p THEN [call[q] EXCEPT !.pc = "generate"]
                ELSE IF Key(q) = Key(p) THEN [call[q] EXCEPT !.linked = FALSE]
                ELSE call[q]]
  /\ UNCHANGED <<project, archive, campaigns, raced, faults>>

(* A hit without its archive is returned all the same.                      *)
Restore(p) ==
  /\ At(p, "restore")
  /\ call' = [call EXCEPT ![p].pc = IF Found(archive[Key(p)]) THEN "extract" ELSE "prepare"]
  /\ UNCHANGED <<project, meta, archive, campaigns, raced, faults>>

\* Mutant: an archive is extracted whatever state it is in.
ExtractWhatIsThere(p) ==
  /\ At(p, "extract")
  /\ LET content == archive[Key(p)].file
     IN  call' = [call EXCEPT ![p].pc = "prepare", ![p].outdir = content]
  /\ UNCHANGED <<project, meta, archive, campaigns, raced, faults>>

(* An archive that cannot be read to its end raises.                        *)
Extract(p) ==
  /\ At(p, "extract")
  /\ LET content == archive[Key(p)].file
     IN  call' = [call EXCEPT ![p] = IF content \in Versions
                                     THEN [@ EXCEPT !.pc = "prepare", !.outdir = content]
                                     ELSE NoCall]
  /\ UNCHANGED <<project, meta, archive, campaigns, raced, faults>>

(* The variations run one after the other; one that raises ends the call    *)
(* with nothing stored.                                                     *)
Generate(p) ==
  /\ At(p, "generate")
  /\ \/ call' = [call EXCEPT ![p].pc = "store", ![p].config = call[p].loaded,
                             ![p].block = call[p].loaded, ![p].outdir = call[p].loaded]
     \/ call' = [call EXCEPT ![p] = NoCall]
  /\ UNCHANGED <<project, meta, archive, campaigns, raced, faults>>

-----------------------------------------------------------------------------
(* Storing the result: first the metadata, then the archive.               *)

Returned(c) == IF c.dir THEN [c EXCEPT !.pc = "prepare", !.linked = FALSE, !.shared = FALSE]
               ELSE NoCall

Writing(q, step, key) == At(q, step) /\ Key(q) = key

(* Opening the file cuts off what is there, whoever is writing it.          *)
OpenFile(p, step) ==
  LET others == {q \in Procs \ {p} : Writing(q, step, Key(p)) /\ call[q].linked}
  IN  call' = [q \in Procs |->
                 IF q = p THEN [call[q] EXCEPT !.pc = step, !.linked = TRUE, !.shared = (others # {})]
                 ELSE IF q \in others THEN [call[q] EXCEPT !.shared = TRUE]
                 ELSE call[q]]

(* Two processes that had the file open at once may leave a mixture.        *)
Written(p) == {call[p].outdir} \cup IF call[p].shared THEN {CutOff} ELSE {}

StoreMeta(p) ==
  /\ At(p, "store")
  /\ OpenFile(p, "write")
  /\ meta' = [meta EXCEPT ![Key(p)].file = CutOff]
  /\ UNCHANGED <<project, archive, campaigns, raced, faults>>

WriteMeta(p) ==
  /\ At(p, "write")
  /\ IF call[p].linked
     THEN \E content \in Written(p) : meta' = [meta EXCEPT ![Key(p)].file = content]
     ELSE UNCHANGED meta
  /\ call' = [call EXCEPT ![p].pc = "mark", ![p].linked = FALSE, ![p].shared = FALSE]
  /\ UNCHANGED <<project, archive, campaigns, raced, faults>>

MarkMeta(p) ==
  /\ At(p, "mark")
  /\ meta' = [meta EXCEPT ![Key(p)].marked = TRUE]
  /\ call' = [call EXCEPT ![p].pc = "pack"]
  /\ UNCHANGED <<project, archive, campaigns, raced, faults>>

Pack(p) ==
  /\ At(p, "pack")
  /\ OpenFile(p, "fill")
  /\ archive' = [archive EXCEPT ![Key(p)].file = CutOff]
  /\ UNCHANGED <<project, meta, campaigns, raced, faults>>

Fill(p) ==
  /\ At(p, "fill")
  /\ \E content \in Written(p) : archive' = [archive EXCEPT ![Key(p)].file = content]
  /\ call' = [call EXCEPT ![p].pc = "commit", ![p].linked = FALSE, ![p].shared = FALSE]
  /\ UNCHANGED <<project, meta, campaigns, raced, faults>>

Commit(p) ==
  /\ At(p, "commit")
  /\ archive' = [archive EXCEPT ![Key(p)].marked = TRUE]
  /\ call' = [call EXCEPT ![p] = Returned(@)]
  /\ UNCHANGED <<project, meta, campaigns, raced, faults>>

(* A failure to store is only warned about.  The metadata entry cleans up   *)
(* after itself, the archive does not.                                      *)
StoreFails(p) ==
  /\ faults < MaxFaults
  /\ faults' = faults + 1
  /\ call[p].pc \in {"write", "mark", "fill", "commit"}
  /\ meta' = IF call[p].pc \in {"write", "mark"}
             THEN [meta EXCEPT ![Key(p)] = Absent] ELSE meta
  /\ call' = [q \in Procs |->
                IF q = p THEN Returned(call[q])
                ELSE IF meta'[Key(p)] = Absent /\ Key(q) = Key(p) /\ call[q].pc = "write"
                     THEN [call[q] EXCEPT !.linked = FALSE]
                ELSE call[q]]
  /\ UNCHANGED <<project, archive, campaigns, raced>>

-----------------------------------------------------------------------------
(* What the result is used for.                                            *)

Identifier(c) == c.block

(* A configuration whose files are not in the output directory raises.  The *)
(* identifier is taken from the configuration block, which a result from    *)
(* the cache does not have.                                                 *)
Prepare(p) ==
  /\ At(p, "prepare")
  /\ Cardinality(campaigns) < MaxCampaigns
  /\ campaigns' =
       IF call[p].outdir = Nothing THEN campaigns
       ELSE campaigns \cup
              {[id |-> Cardinality(campaigns) + 1, config |-> call[p].config,
                loaded |-> call[p].loaded, key |-> Key(p), artifacts |-> call[p].outdir,
                identifier |-> Identifier(call[p])]}
  /\ call' = [call EXCEPT ![p] = NoCall]
  /\ UNCHANGED <<project, meta, archive, raced, faults>>

-----------------------------------------------------------------------------
(* The user.                                                               *)

Edit ==
  /\ project < MaxVersion
  /\ project' = project + 1
  /\ UNCHANGED <<meta, archive, call, campaigns, raced, faults>>

Kill(p) ==
  /\ faults < MaxFaults
  /\ ~At(p, "idle")
  /\ call' = [call EXCEPT ![p] = NoCall]
  /\ faults' = faults + 1
  /\ UNCHANGED <<project, meta, archive, campaigns, raced>>

Next ==
  \/ Edit
  \/ \E p \in Procs :
       \/ Load(p) \/ BuildKey(p) \/ LookUp(p) \/ ReadHit(p) \/ ReadMiss(p)
       \/ Restore(p) \/ Extract(p) \/ Generate(p)
       \/ StoreMeta(p) \/ WriteMeta(p) \/ MarkMeta(p)
       \/ Pack(p) \/ Fill(p) \/ Commit(p) \/ StoreFails(p)
       \/ Prepare(p) \/ Kill(p)

Spec == Init /\ [][Next]_vars

-----------------------------------------------------------------------------
(* Properties.                                                             *)

(* The range of every variable; a file that does not parse never becomes    *)
(* somebody's configurations.                                               *)
ConfigCacheTypeOK ==
  /\ project \in Versions
  /\ meta \in [Versions -> Entry] /\ archive \in [Versions -> Entry]
  /\ call \in [Procs -> Call]
  /\ campaigns \subseteq Campaign
  /\ raced \subseteq Versions
  /\ faults \in 0 .. MaxFaults

(* A campaign is prepared from the configurations of the project as its     *)
(* call loaded it, whatever other calls, kills and failures left in the     *)
(* cache, unless an edit fell between some call's load and its key: the     *)
(* entry that call stored is wrong for as long as the files stay as they    *)
(* are.                                                                     *)
UpToDate == \A c \in campaigns : c.key \in raced \/ c.config = c.loaded

(* A campaign directory has the files its configurations name, although an  *)
(* entry may be found with its archive missing, half written or mixed from  *)
(* two writers.                                                             *)
ArtifactsMatch == \A c \in campaigns : c.key \in raced \/ c.artifacts = c.config

(* What the code breaks: "to produce a unique identifier"                   *)
(* (config_identifier.py:19).  Generation pops `_config_block' before it     *)
(* stores its result (config_generation.py:812), so a campaign prepared from *)
(* a stored result gets an identifier without its parameters, and different *)
(* configurations the same.                                                 *)
IdentifiersUnique == \A c, d \in campaigns : c.identifier = d.identifier => c.config = d.config
=============================================================================
