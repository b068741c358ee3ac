------------------------- MODULE ConfigCache_proofs -------------------------
(***************************************************************************)
(* The configuration cache for any number of processes, edits, failures    *)
(* and campaigns: what is prepared from it is up to date and of one piece, *)
(* although nothing locks its files.                                       *)
(***************************************************************************)
EXTENDS ConfigCache, FiniteSetTheorems, TLAPS

(* The two properties are about campaigns; they hold because of what the   *)
(* files of the cache are, whoever wrote them: under a key that no edit    *)
(* has raced, a file is missing, does not parse, or is of that version.    *)
(* A call, in turn, has read or generated only such files.                 *)

\* The key of a call is the version it has loaded, or it is raced.
KeyInv(p) ==
  /\ call[p].pc # "idle" => call[p].loaded \in Versions
  /\ call[p].pc \notin {"idle", "load"} =>
       /\ Key(p) \in Versions
       /\ Key(p) \in raced \/ call[p].loaded = Key(p)

Storing == {"store", "write", "mark", "pack", "fill", "commit"}

\* What a call is about to store it has generated; what it has taken from the
\* cache is of its key.
ResultInv(p) ==
  /\ call[p].pc \in Storing =>
       call[p].config = call[p].loaded /\ call[p].outdir = call[p].loaded
  /\ call[p].pc \in {"load", "lookup", "read", "restore", "extract"} => call[p].outdir = Nothing
  /\ call[p].pc \in {"restore", "extract", "prepare"} =>
       /\ call[p].config \in Versions
       /\ Key(p) \in raced \/ (call[p].config = Key(p) /\ call[p].outdir \in {Nothing, Key(p)})

EntriesInv ==
  \A k \in Versions : k \notin raced =>
    meta[k].file \in {Nothing, CutOff, k} /\ archive[k].file \in {Nothing, CutOff, k}

CacheInv ==
  /\ ConfigCacheTypeOK /\ IsFiniteSet(campaigns)
  /\ \A p \in Procs : KeyInv(p) /\ ResultInv(p)
  /\ EntriesInv
  /\ UpToDate
  /\ ArtifactsMatch

-----------------------------------------------------------------------------
USE DEF vars, CacheInv

LEMMA VersionNumbers ==
  /\ MaxVersion \in Nat /\ MaxVersion > 0 /\ MaxFaults \in Nat /\ MaxCampaigns \in Nat
  /\ 1 \in Versions /\ Nothing \notin Versions /\ CutOff \notin Versions
  /\ CutOff # Nothing /\ NoBlock \notin Versions
  /\ \A v \in Versions : v \in Nat
BY ConfigCacheAssumption DEF Versions, Nothing, CutOff, NoBlock

LEMMA NoCallTypes == NoCall \in Call /\ NoCall.pc = "idle"
BY DEF NoCall, Call, Steps, Nothing, NoBlock, Versions

LEMMA CallTypes ==
  ASSUME CacheInv, NEW p \in Procs
  PROVE  call[p] \in Call /\ call[p].loaded \in Versions \cup {Nothing}
BY DEF ConfigCacheTypeOK, Call

\* What another process may change of a call: whose file it writes, not what.
SameResult(q) ==
  /\ call'[q].pc = call[q].pc /\ call'[q].loaded = call[q].loaded
  /\ call'[q].key = call[q].key /\ call'[q].config = call[q].config
  /\ call'[q].outdir = call[q].outdir

\* A step of one call keeps the other calls and the campaigns.
LEMMA CallStep ==
  ASSUME CacheInv, NEW p \in Procs, call' \in [Procs -> Call],
         \A q \in Procs \ {p} : SameResult(q), KeyInv(p)', ResultInv(p)',
         meta' \in [Versions -> Entry], archive' \in [Versions -> Entry],
         raced' \subseteq Versions, raced \subseteq raced', faults' \in 0 .. MaxFaults,
         EntriesInv', UNCHANGED <<project, campaigns>>
  PROVE  CacheInv'
<1>1. ASSUME NEW q \in Procs PROVE KeyInv(q)' /\ ResultInv(q)'
  <2>1. CASE q = p
    BY <2>1
  <2>2. CASE q # p
    BY <2>2 DEF SameResult, KeyInv, ResultInv, Key
  <2> QED
    BY <2>1, <2>2
<1>2. ConfigCacheTypeOK' /\ IsFiniteSet(campaigns)'
  BY DEF ConfigCacheTypeOK
<1>3. UpToDate' /\ ArtifactsMatch'
  BY DEF UpToDate, ArtifactsMatch
<1> QED
  BY <1>1, <1>2, <1>3

\* The same when the files of the cache stay as they are.
LEMMA ReadingStep ==
  ASSUME CacheInv, NEW p \in Procs, NEW c \in Call, call' = [call EXCEPT ![p] = c],
         KeyInv(p)', ResultInv(p)',
         raced' \subseteq Versions, raced \subseteq raced', faults' \in 0 .. MaxFaults,
         UNCHANGED <<project, meta, archive, campaigns>>
  PROVE  CacheInv'
<1>1. call' \in [Procs -> Call] /\ \A q \in Procs \ {p} : SameResult(q)
  BY DEF ConfigCacheTypeOK, SameResult
<1>2. EntriesInv'
  BY DEF EntriesInv
<1>3. meta' \in [Versions -> Entry] /\ archive' \in [Versions -> Entry]
  BY DEF ConfigCacheTypeOK
<1> QED
  BY <1>1, <1>2, <1>3, CallStep

\* A call that ends, by itself or not.
LEMMA EndedCall ==
  ASSUME CacheInv, NEW p \in Procs, call' = [call EXCEPT ![p] = NoCall],
         faults' \in 0 .. MaxFaults,
         UNCHANGED <<project, meta, archive, campaigns, raced>>
  PROVE  CacheInv'
<1>1. call'[p] = NoCall
  BY DEF ConfigCacheTypeOK
<1>2. KeyInv(p)' /\ ResultInv(p)'
  BY <1>1, NoCallTypes DEF KeyInv, ResultInv, Storing
<1> QED
  BY <1>2, NoCallTypes, ReadingStep DEF ConfigCacheTypeOK

LEMMA LoadKeeps ==
  ASSUME CacheInv, NEW p \in Procs, Load(p)
  PROVE  CacheInv'
<1>1. PICK d \in BOOLEAN :
        call' = [call EXCEPT ![p] = [NoCall EXCEPT !.pc = "load", !.dir = d, !.loaded = project]]
  BY DEF Load
<1> DEFINE c == [NoCall EXCEPT !.pc = "load", !.dir = d, !.loaded = project]
<1>2. c \in Call /\ c.pc = "load" /\ c.loaded = project /\ c.outdir = Nothing /\ project \in Versions
  BY DEF NoCall, Call, Steps, Nothing, NoBlock, ConfigCacheTypeOK
<1> HIDE DEF c
<1>3. call' = [call EXCEPT ![p] = c]
  BY <1>1 DEF c
<1>4. call'[p] = c
  BY <1>3 DEF ConfigCacheTypeOK
<1>5. KeyInv(p)' /\ ResultInv(p)'
  BY <1>2, <1>4 DEF KeyInv, ResultInv, Storing
<1> QED
  BY <1>2, <1>3, <1>5, ReadingStep DEF Load, ConfigCacheTypeOK

LEMMA BuildKeyKeeps ==
  ASSUME CacheInv, NEW p \in Procs, BuildKey(p)
  PROVE  CacheInv'
<1> DEFINE c == [call[p] EXCEPT !.pc = "lookup", !.key = project]
<1>1. /\ c \in Call /\ c.pc = "lookup" /\ c.key = project /\ c.loaded = call[p].loaded
      /\ c.outdir = Nothing
      /\ project \in Versions /\ call[p].loaded \in Versions
  BY CallTypes DEF BuildKey, At, Call, Steps, ConfigCacheTypeOK, KeyInv, ResultInv
<1>2. call' = [call EXCEPT ![p] = c] /\ call'[p] = c
  BY DEF BuildKey, ConfigCacheTypeOK
<1> HIDE DEF c
<1>3. raced' \subseteq Versions /\ raced \subseteq raced'
      /\ (project \in raced' \/ c.loaded = project)
  BY <1>1 DEF BuildKey, ConfigCacheTypeOK
<1>4. KeyInv(p)' /\ ResultInv(p)'
  BY <1>1, <1>2, <1>3 DEF KeyInv, ResultInv, Storing, Key
<1> QED
  BY <1>1, <1>2, <1>3, <1>4, ReadingStep DEF BuildKey, ConfigCacheTypeOK

LEMMA LookUpKeeps ==
  ASSUME CacheInv, NEW p \in Procs, LookUp(p)
  PROVE  CacheInv'
<1> DEFINE c == [call[p] EXCEPT !.pc = IF Found(meta[Key(p)]) THEN "read" ELSE "generate"]
<1>1. /\ c \in Call /\ c.pc \in {"read", "generate"} /\ c.key = call[p].key
      /\ c.loaded = call[p].loaded /\ c.outdir = call[p].outdir
  BY CallTypes DEF Call, Steps
<1>2. call' = [call EXCEPT ![p] = c] /\ call'[p] = c
  BY DEF LookUp, ConfigCacheTypeOK
<1> HIDE DEF c
<1>3. KeyInv(p)' /\ ResultInv(p)'
  BY <1>1, <1>2 DEF LookUp, At, KeyInv, ResultInv, Storing, Key
<1> QED
  BY <1>1, <1>2, <1>3, ReadingStep DEF LookUp, ConfigCacheTypeOK

LEMMA ReadHitKeeps ==
  ASSUME CacheInv, NEW p \in Procs, ReadHit(p)
  PROVE  CacheInv'
<1> DEFINE c == [call[p] EXCEPT !.pc = IF call[p].dir THEN "restore" ELSE "idle",
                                !.config = meta[Key(p)].file]
<1>1. meta[Key(p)].file \in Versions /\ call[p].pc = "read"
  BY DEF ReadHit, At
<1>2. /\ c \in Call /\ c.pc \in {"restore", "idle"} /\ c.key = call[p].key
      /\ c.loaded = call[p].loaded /\ c.config = meta[Key(p)].file /\ c.outdir = call[p].outdir
  BY <1>1, CallTypes DEF Call, Steps
<1>3. call' = [call EXCEPT ![p] = c] /\ call'[p] = c
  BY DEF ReadHit, ConfigCacheTypeOK
<1> HIDE DEF c
<1>4. Key(p) \in Versions /\ (Key(p) \in raced \/ meta[Key(p)].file = Key(p))
  BY <1>1, VersionNumbers DEF KeyInv, EntriesInv
<1>5. KeyInv(p)' /\ ResultInv(p)'
  BY <1>1, <1>2, <1>3, <1>4 DEF KeyInv, ResultInv, Storing, Key, ReadHit
<1> QED
  BY <1>2, <1>3, <1>5, ReadingStep DEF ReadHit, ConfigCacheTypeOK

LEMMA ReadMissKeeps ==
  ASSUME CacheInv, NEW p \in Procs, ReadMiss(p)
  PROVE  CacheInv'
<1>1. /\ call[p].pc = "read" /\ meta' = [meta EXCEPT ![Key(p)] = Absent]
      /\ call' = [q \in Procs |->
                    IF q = p THEN [call[q] EXCEPT !.pc = "generate"]
                    ELSE IF Key(q) = Key(p) THEN [call[q] EXCEPT !.linked = FALSE]
                    ELSE call[q]]
      /\ UNCHANGED <<project, archive, campaigns, raced, faults>>
  BY DEF ReadMiss, At
<1>2. Key(p) \in Versions
  BY <1>1 DEF KeyInv
<1>3. Absent \in Entry /\ Absent.file = Nothing
  BY DEF Absent, Entry, Files
<1>4. ASSUME NEW q \in Procs PROVE call'[q] \in Call /\ (q # p => SameResult(q))
  BY <1>1, CallTypes DEF SameResult, Call, Steps
<1>5. call' \in [Procs -> Call]
  BY <1>1, <1>4
<1>6. call'[p].pc = "generate" /\ call'[p].key = call[p].key /\ call'[p].loaded = call[p].loaded
  BY <1>1, CallTypes DEF Call
<1>7. KeyInv(p)' /\ ResultInv(p)'
  BY <1>1, <1>6 DEF KeyInv, ResultInv, Storing, Key
<1>8. meta' \in [Versions -> Entry] /\ EntriesInv'
  BY <1>1, <1>2, <1>3 DEF EntriesInv, ConfigCacheTypeOK
<1> QED
  BY <1>1, <1>4, <1>5, <1>7, <1>8, CallStep DEF ConfigCacheTypeOK

LEMMA RestoreKeeps ==
  ASSUME CacheInv, NEW p \in Procs, Restore(p)
  PROVE  CacheInv'
<1> DEFINE c == [call[p] EXCEPT !.pc = IF Found(archive[Key(p)]) THEN "extract" ELSE "prepare"]
<1>1. /\ c \in Call /\ c.pc \in {"extract", "prepare"} /\ c.key = call[p].key
      /\ c.loaded = call[p].loaded /\ c.config = call[p].config /\ c.outdir = call[p].outdir
  BY CallTypes DEF Call, Steps
<1>2. call' = [call EXCEPT ![p] = c] /\ call'[p] = c
  BY DEF Restore, ConfigCacheTypeOK
<1> HIDE DEF c
<1>3. KeyInv(p)' /\ ResultInv(p)'
  BY <1>1, <1>2 DEF Restore, At, KeyInv, ResultInv, Storing, Key
<1> QED
  BY <1>1, <1>2, <1>3, ReadingStep DEF Restore, ConfigCacheTypeOK

LEMMA ExtractKeeps ==
  ASSUME CacheInv, NEW p \in Procs, Extract(p)
  PROVE  CacheInv'
<1> DEFINE content == archive[Key(p)].file
           c == [call[p] EXCEPT !.pc = "prepare", !.outdir = content]
<1>1. /\ call[p].pc = "extract"
      /\ call' = [call EXCEPT ![p] = IF content \in Versions THEN c ELSE NoCall]
      /\ UNCHANGED <<project, meta, archive, campaigns, raced, faults>>
  BY DEF Extract, At
<1>2. CASE content \notin Versions
  BY <1>1, <1>2, EndedCall DEF ConfigCacheTypeOK
<1>3. CASE content \in Versions
  <2>1. /\ c \in Call /\ c.pc = "prepare" /\ c.key = call[p].key
        /\ c.loaded = call[p].loaded /\ c.config = call[p].config /\ c.outdir = content
    BY <1>3, CallTypes DEF Call, Steps
  <2>2. call' = [call EXCEPT ![p] = c] /\ call'[p] = c
    BY <1>1, <1>3 DEF ConfigCacheTypeOK
  <2>3. Key(p) \in Versions /\ (Key(p) \in raced \/ content = Key(p))
    BY <1>1, <1>3, VersionNumbers DEF KeyInv, EntriesInv
  <2> HIDE DEF c, content
  <2>4. KeyInv(p)' /\ ResultInv(p)'
    BY <1>1, <2>1, <2>2, <2>3 DEF KeyInv, ResultInv, Storing, Key
  <2> QED
    BY <1>1, <2>1, <2>2, <2>4, ReadingStep DEF ConfigCacheTypeOK
<1> QED
  BY <1>2, <1>3

LEMMA GenerateKeeps ==
  ASSUME CacheInv, NEW p \in Procs, Generate(p)
  PROVE  CacheInv'
<1> DEFINE v == call[p].loaded
           c == [call[p] EXCEPT !.pc = "store", !.config = v, !.block = v, !.outdir = v]
<1>1. /\ call[p].pc = "generate"
      /\ UNCHANGED <<project, meta, archive, campaigns, raced, faults>>
      /\ call' = [call EXCEPT ![p] = c] \/ call' = [call EXCEPT ![p] = NoCall]
  BY DEF Generate, At
<1>2. CASE call' = [call EXCEPT ![p] = NoCall]
  BY <1>1, <1>2, EndedCall DEF ConfigCacheTypeOK
<1>3. CASE call' = [call EXCEPT ![p] = c]
  <2>1. v \in Versions
    BY <1>1 DEF KeyInv
  <2>2. /\ c \in Call /\ c.pc = "store" /\ c.key = call[p].key
        /\ c.loaded = v /\ c.config = v /\ c.outdir = v
    BY <2>1, CallTypes DEF Call, Steps
  <2> HIDE DEF c, v
  <2>3. call'[p] = c
    BY <1>3 DEF ConfigCacheTypeOK
  <2>4. v = call[p].loaded
    BY DEF v
  <2>5. KeyInv(p)' /\ ResultInv(p)'
    BY <1>1, <2>1, <2>2, <2>3, <2>4 DEF KeyInv, ResultInv, Storing, Key
  <2> QED
    BY <1>1, <1>3, <2>2, <2>5, ReadingStep DEF ConfigCacheTypeOK
<1> QED
  BY <1>1, <1>2, <1>3

-----------------------------------------------------------------------------
(* Storing.                                                                *)

\* Opening a file changes nobody's result.
LEMMA OpenFileProperties ==
  ASSUME CacheInv, NEW p \in Procs, call[p].pc \in Storing,
         NEW step \in Storing, OpenFile(p, step), UNCHANGED raced
  PROVE  /\ call' \in [Procs -> Call] /\ \A q \in Procs \ {p} : SameResult(q)
         /\ KeyInv(p)' /\ ResultInv(p)'
<1> DEFINE others == {q \in Procs \ {p} : Writing(q, step, Key(p)) /\ call[q].linked}
<1>1. call' = [q \in Procs |->
                 IF q = p THEN [call[q] EXCEPT !.pc = step, !.linked = TRUE, !.shared = (others # {})]
                 ELSE IF q \in others THEN [call[q] EXCEPT !.shared = TRUE]
                 ELSE call[q]]
  BY DEF OpenFile
<1> HIDE DEF others
<1>2. (others # {}) \in BOOLEAN
  OBVIOUS
<1>3. ASSUME NEW q \in Procs PROVE call'[q] \in Call /\ (q # p => SameResult(q))
  <2>1. CASE q = p
    <3>1. call'[p] = [call[p] EXCEPT !.pc = step, !.linked = TRUE, !.shared = (others # {})]
      BY <1>1
    <3> QED
      BY <1>2, <2>1, <3>1, CallTypes DEF Call, Steps, Storing
  <2>2. CASE q # p /\ q \in others
    <3>1. call'[q] = [call[q] EXCEPT !.shared = TRUE]
      BY <1>1, <2>2
    <3> QED
      BY <2>2, <3>1, CallTypes DEF SameResult, Call
  <2>3. CASE q # p /\ q \notin others
    BY <1>1, <2>3, CallTypes DEF SameResult
  <2> QED
    BY <2>1, <2>2, <2>3
<1>4. call' \in [Procs -> Call]
  BY <1>1, <1>3
<1>5. /\ call'[p].pc = step /\ call'[p].key = call[p].key /\ call'[p].loaded = call[p].loaded
      /\ call'[p].config = call[p].config /\ call'[p].outdir = call[p].outdir
  BY <1>1, CallTypes DEF Call
<1>6. KeyInv(p)' /\ ResultInv(p)'
  BY <1>5 DEF KeyInv, ResultInv, Storing, Key
<1> QED
  BY <1>3, <1>4, <1>6

\* The call goes on to another step of storing, or it is over.
LEMMA StoringStep ==
  ASSUME CacheInv, NEW p \in Procs, call[p].pc \in Storing,
         NEW step \in Storing \cup {"prepare"}, NEW linked \in BOOLEAN, NEW shared \in BOOLEAN,
         call' = [call EXCEPT ![p] = [@ EXCEPT !.pc = step, !.linked = linked, !.shared = shared]],
         UNCHANGED raced
  PROVE  /\ call' \in [Procs -> Call] /\ \A q \in Procs \ {p} : SameResult(q)
         /\ KeyInv(p)' /\ ResultInv(p)'
<1> DEFINE c == [call[p] EXCEPT !.pc = step, !.linked = linked, !.shared = shared]
<1>1. /\ c \in Call /\ c.pc = step /\ c.key = call[p].key /\ c.loaded = call[p].loaded
      /\ c.config = call[p].config /\ c.outdir = call[p].outdir
  BY CallTypes DEF Call, Steps, Storing
<1>2. call' = [call EXCEPT ![p] = c]
  OBVIOUS
<1> HIDE DEF c
<1>3. call' \in [Procs -> Call] /\ call'[p] = c /\ \A q \in Procs \ {p} : SameResult(q)
  BY <1>1, <1>2 DEF ConfigCacheTypeOK, SameResult
<1>4. KeyInv(p)' /\ ResultInv(p)'
  BY <1>1, <1>3 DEF KeyInv, ResultInv, Storing, Key
<1> QED
  BY <1>3, <1>4

\* What may be written into a file of the call's key.
LEMMA WritableContent ==
  ASSUME CacheInv, NEW p \in Procs, call[p].pc \in Storing,
         NEW content \in {Nothing, CutOff, call[p].outdir}
  PROVE  /\ Key(p) \in Versions /\ content \in Files
         /\ Key(p) \in raced \/ content \in {Nothing, CutOff, Key(p)}
<1>1. call[p].pc \notin {"idle", "load"}
  BY DEF Storing
<1>2. Key(p) \in Versions /\ call[p].outdir = call[p].loaded /\ call[p].loaded \in Versions
      /\ (Key(p) \in raced \/ call[p].loaded = Key(p))
  BY <1>1 DEF KeyInv, ResultInv
<1> QED
  BY <1>2 DEF Files

LEMMA MetaStep ==
  ASSUME CacheInv, NEW k \in Versions, NEW e \in Entry,
         k \in raced \/ e.file \in {Nothing, CutOff, k},
         meta' = [meta EXCEPT ![k] = e], UNCHANGED <<archive, raced>>
  PROVE  meta' \in [Versions -> Entry] /\ archive' \in [Versions -> Entry] /\ EntriesInv'
BY DEF EntriesInv, ConfigCacheTypeOK

LEMMA ArchiveStep ==
  ASSUME CacheInv, NEW k \in Versions, NEW e \in Entry,
         k \in raced \/ e.file \in {Nothing, CutOff, k},
         archive' = [archive EXCEPT ![k] = e], UNCHANGED <<meta, raced>>
  PROVE  meta' \in [Versions -> Entry] /\ archive' \in [Versions -> Entry] /\ EntriesInv'
BY DEF EntriesInv, ConfigCacheTypeOK

\* The entries of a call's key after its file was written or marked.
LEMMA NewEntries ==
  ASSUME CacheInv, NEW p \in Procs, call[p].pc \in Storing,
         NEW content \in {Nothing, CutOff, call[p].outdir}
  PROVE  /\ [meta[Key(p)] EXCEPT !.file = content] \in Entry
         /\ [meta[Key(p)] EXCEPT !.file = content].file = content
         /\ [archive[Key(p)] EXCEPT !.file = content] \in Entry
         /\ [archive[Key(p)] EXCEPT !.file = content].file = content
         /\ [meta[Key(p)] EXCEPT !.marked = TRUE] \in Entry
         /\ [meta[Key(p)] EXCEPT !.marked = TRUE].file = meta[Key(p)].file
         /\ [archive[Key(p)] EXCEPT !.marked = TRUE] \in Entry
         /\ [archive[Key(p)] EXCEPT !.marked = TRUE].file = archive[Key(p)].file
<1>1. Key(p) \in Versions /\ content \in Files
  BY WritableContent
<1>2. meta[Key(p)] \in Entry /\ archive[Key(p)] \in Entry
  BY <1>1 DEF ConfigCacheTypeOK
<1> QED
  BY <1>1, <1>2 DEF Entry

LEMMA StoreMetaKeeps ==
  ASSUME CacheInv, NEW p \in Procs, StoreMeta(p)
  PROVE  CacheInv'
<1>1. call[p].pc \in Storing /\ "write" \in Storing
  BY DEF StoreMeta, At, Storing
<1>2. /\ OpenFile(p, "write") /\ UNCHANGED <<project, archive, campaigns, raced, faults>>
      /\ meta' = [meta EXCEPT ![Key(p)] = [meta[Key(p)] EXCEPT !.file = CutOff]]
  BY DEF StoreMeta
<1>3. meta' \in [Versions -> Entry] /\ archive' \in [Versions -> Entry] /\ EntriesInv'
  BY <1>1, <1>2, WritableContent, NewEntries, MetaStep
<1> QED
  BY <1>1, <1>2, <1>3, OpenFileProperties, CallStep DEF ConfigCacheTypeOK

LEMMA PackKeeps ==
  ASSUME CacheInv, NEW p \in Procs, Pack(p)
  PROVE  CacheInv'
<1>1. call[p].pc \in Storing /\ "fill" \in Storing
  BY DEF Pack, At, Storing
<1>2. /\ OpenFile(p, "fill") /\ UNCHANGED <<project, meta, campaigns, raced, faults>>
      /\ archive' = [archive EXCEPT ![Key(p)] = [archive[Key(p)] EXCEPT !.file = CutOff]]
  BY DEF Pack
<1>3. meta' \in [Versions -> Entry] /\ archive' \in [Versions -> Entry] /\ EntriesInv'
  BY <1>1, <1>2, WritableContent, NewEntries, ArchiveStep
<1> QED
  BY <1>1, <1>2, <1>3, OpenFileProperties, CallStep DEF ConfigCacheTypeOK

LEMMA WriteMetaKeeps ==
  ASSUME CacheInv, NEW p \in Procs, WriteMeta(p)
  PROVE  CacheInv'
<1>1. call[p].pc \in Storing /\ "mark" \in Storing
  BY DEF WriteMeta, At, Storing
<1>2. /\ call' = [call EXCEPT ![p] = [@ EXCEPT !.pc = "mark", !.linked = FALSE, !.shared = FALSE]]
      /\ UNCHANGED <<project, archive, campaigns, raced, faults>>
  BY DEF WriteMeta
<1>3. \/ UNCHANGED meta
      \/ \E content \in {Nothing, CutOff, call[p].outdir} :
           meta' = [meta EXCEPT ![Key(p)] = [meta[Key(p)] EXCEPT !.file = content]]
  BY DEF WriteMeta, Written
<1>4. meta' \in [Versions -> Entry] /\ archive' \in [Versions -> Entry] /\ EntriesInv'
  <2>1. CASE UNCHANGED meta
    BY <1>2, <2>1 DEF EntriesInv, ConfigCacheTypeOK
  <2>2. ASSUME NEW content \in {Nothing, CutOff, call[p].outdir},
               meta' = [meta EXCEPT ![Key(p)] = [meta[Key(p)] EXCEPT !.file = content]]
        PROVE  meta' \in [Versions -> Entry] /\ archive' \in [Versions -> Entry] /\ EntriesInv'
    BY <1>1, <1>2, <2>2, WritableContent, NewEntries, MetaStep
  <2> QED
    BY <1>3, <2>1, <2>2
<1> QED
  BY <1>1, <1>2, <1>4, StoringStep, CallStep DEF ConfigCacheTypeOK

LEMMA FillKeeps ==
  ASSUME CacheInv, NEW p \in Procs, Fill(p)
  PROVE  CacheInv'
<1>1. call[p].pc \in Storing /\ "commit" \in Storing
  BY DEF Fill, At, Storing
<1>2. /\ call' = [call EXCEPT ![p] = [@ EXCEPT !.pc = "commit", !.linked = FALSE, !.shared = FALSE]]
      /\ UNCHANGED <<project, meta, campaigns, raced, faults>>
  BY DEF Fill
<1>3. PICK content \in {Nothing, CutOff, call[p].outdir} :
        archive' = [archive EXCEPT ![Key(p)] = [archive[Key(p)] EXCEPT !.file = content]]
  BY DEF Fill, Written
<1>4. meta' \in [Versions -> Entry] /\ archive' \in [Versions -> Entry] /\ EntriesInv'
  BY <1>1, <1>2, <1>3, WritableContent, NewEntries, ArchiveStep
<1> QED
  BY <1>1, <1>2, <1>4, StoringStep, CallStep DEF ConfigCacheTypeOK

LEMMA MarkMetaKeeps ==
  ASSUME CacheInv, NEW p \in Procs, MarkMeta(p)
  PROVE  CacheInv'
<1>1. call[p].pc \in Storing /\ "pack" \in Storing
  BY DEF MarkMeta, At, Storing
<1>2. /\ call' = [call EXCEPT ![p].pc = "pack"]
      /\ UNCHANGED <<project, archive, campaigns, raced, faults>>
      /\ meta' = [meta EXCEPT ![Key(p)] = [meta[Key(p)] EXCEPT !.marked = TRUE]]
  BY DEF MarkMeta
<1>3. call' = [call EXCEPT ![p] = [@ EXCEPT !.pc = "pack", !.linked = call[p].linked,
                                            !.shared = call[p].shared]]
      /\ call[p].linked \in BOOLEAN /\ call[p].shared \in BOOLEAN
  BY <1>2, CallTypes DEF Call, ConfigCacheTypeOK
<1>4. meta' \in [Versions -> Entry] /\ archive' \in [Versions -> Entry] /\ EntriesInv'
  BY <1>1, <1>2, WritableContent, NewEntries, MetaStep DEF EntriesInv
<1> QED
  BY <1>1, <1>2, <1>3, <1>4, StoringStep, CallStep DEF ConfigCacheTypeOK

LEMMA CommitKeeps ==
  ASSUME CacheInv, NEW p \in Procs, Commit(p)
  PROVE  CacheInv'
<1>1. call[p].pc \in Storing
  BY DEF Commit, At, Storing
<1>2. /\ call' = [call EXCEPT ![p] = Returned(call[p])]
      /\ UNCHANGED <<project, meta, campaigns, raced, faults>>
      /\ archive' = [archive EXCEPT ![Key(p)] = [archive[Key(p)] EXCEPT !.marked = TRUE]]
  BY DEF Commit
<1>3. meta' \in [Versions -> Entry] /\ archive' \in [Versions -> Entry] /\ EntriesInv'
  BY <1>1, <1>2, WritableContent, NewEntries, ArchiveStep DEF EntriesInv
<1>4. CASE Returned(call[p]) = NoCall
  <2>1. call' = [call EXCEPT ![p] = NoCall]
    BY <1>2, <1>4
  <2>2. /\ call' \in [Procs -> Call] /\ \A q \in Procs \ {p} : SameResult(q)
        /\ KeyInv(p)' /\ ResultInv(p)'
    BY <2>1, NoCallTypes DEF ConfigCacheTypeOK, SameResult, KeyInv, ResultInv, Storing
  <2> QED
    BY <1>2, <1>3, <2>2, CallStep DEF ConfigCacheTypeOK
<1>5. CASE Returned(call[p]) = [call[p] EXCEPT !.pc = "prepare", !.linked = FALSE, !.shared = FALSE]
  <2>1. call' = [call EXCEPT ![p] = [@ EXCEPT !.pc = "prepare", !.linked = FALSE, !.shared = FALSE]]
    BY <1>2, <1>5
  <2> QED
    BY <1>1, <1>2, <1>3, <2>1, StoringStep, CallStep DEF ConfigCacheTypeOK
<1> QED
  BY <1>4, <1>5 DEF Returned

LEMMA StoreFailsKeeps ==
  ASSUME CacheInv, NEW p \in Procs, StoreFails(p)
  PROVE  CacheInv'
<1>1. call[p].pc \in {"write", "mark", "fill", "commit"} /\ call[p].pc \in Storing
  BY DEF StoreFails, Storing
<1>2. /\ faults < MaxFaults /\ faults' = faults + 1
      /\ UNCHANGED <<project, archive, campaigns, raced>>
      /\ meta' = IF call[p].pc \in {"write", "mark"}
                 THEN [meta EXCEPT ![Key(p)] = Absent] ELSE meta
  BY DEF StoreFails
<1>3. /\ call' = [q \in Procs |-> IF q = p THEN Returned(call[q]) ELSE call'[q]]
      /\ \A q \in Procs \ {p} : call'[q] = [call[q] EXCEPT !.linked = FALSE] \/ call'[q] = call[q]
  BY DEF StoreFails
<1>4. Key(p) \in Versions /\ Absent \in Entry /\ Absent.file = Nothing
  BY <1>1 DEF KeyInv, Absent, Entry, Files
<1>5. meta' \in [Versions -> Entry] /\ archive' \in [Versions -> Entry] /\ EntriesInv'
  BY <1>2, <1>4 DEF EntriesInv, ConfigCacheTypeOK
<1>6. call'[p] = Returned(call[p])
  BY <1>3
<1>7. call'[p] \in Call /\ KeyInv(p)' /\ ResultInv(p)'
  <2>1. CASE call'[p] = NoCall
    BY <2>1, NoCallTypes DEF KeyInv, ResultInv, Storing
  <2>2. CASE call'[p] = [call[p] EXCEPT !.pc = "prepare", !.linked = FALSE, !.shared = FALSE]
    <3>1. /\ call'[p] \in Call /\ call'[p].pc = "prepare" /\ call'[p].key = call[p].key
          /\ call'[p].loaded = call[p].loaded /\ call'[p].config = call[p].config
          /\ call'[p].outdir = call[p].outdir
      BY <2>2, CallTypes DEF Call, Steps
    <3> QED
      BY <1>1, <1>2, <3>1 DEF KeyInv, ResultInv, Storing, Key
  <2> QED
    BY <1>6, <2>1, <2>2 DEF Returned
<1>8. ASSUME NEW q \in Procs \ {p} PROVE call'[q] \in Call /\ SameResult(q)
  BY <1>3, CallTypes DEF SameResult, Call
<1>9. call' \in [Procs -> Call]
  BY <1>3, <1>7, <1>8
<1>10. faults' \in 0 .. MaxFaults
  BY <1>2, VersionNumbers DEF ConfigCacheTypeOK
<1> QED
  BY <1>2, <1>5, <1>7, <1>8, <1>9, <1>10, CallStep DEF ConfigCacheTypeOK

-----------------------------------------------------------------------------
(* The campaigns, and the user.                                            *)

LEMMA PrepareKeeps ==
  ASSUME CacheInv, NEW p \in Procs, Prepare(p)
  PROVE  CacheInv'
<1> DEFINE new == [id |-> Cardinality(campaigns) + 1, config |-> call[p].config,
                   loaded |-> call[p].loaded, key |-> Key(p), artifacts |-> call[p].outdir,
                   identifier |-> Identifier(call[p])]
<1>1. /\ call[p].pc = "prepare" /\ Cardinality(campaigns) < MaxCampaigns
      /\ campaigns' = IF call[p].outdir = Nothing THEN campaigns ELSE campaigns \cup {new}
      /\ call' = [call EXCEPT ![p] = NoCall]
      /\ UNCHANGED <<project, meta, archive, raced, faults>>
  BY DEF Prepare, At
<1>2. CASE call[p].outdir = Nothing
  BY <1>1, <1>2, EndedCall DEF ConfigCacheTypeOK
<1>3. CASE call[p].outdir # Nothing
  <2>1. /\ call[p].config \in Versions /\ call[p].loaded \in Versions /\ Key(p) \in Versions
        /\ call[p].outdir \in Versions /\ call[p].block \in Versions \cup {NoBlock}
    BY <1>1, <1>3, CallTypes DEF KeyInv, ResultInv, Call
  <2>2. Key(p) \in raced \/ (call[p].config = call[p].loaded /\ call[p].outdir = call[p].config)
    BY <1>1, <1>3 DEF KeyInv, ResultInv
  <2>3. Cardinality(campaigns) + 1 \in 1 .. MaxCampaigns
    BY <1>1, FS_CardinalityType, VersionNumbers
  <2>4. /\ new \in Campaign /\ new.key = Key(p) /\ new.config = call[p].config
        /\ new.loaded = call[p].loaded /\ new.artifacts = call[p].outdir
    BY <2>1, <2>3 DEF Campaign, Identifier
  <2> HIDE DEF new
  <2>5. campaigns' = campaigns \cup {new}
    BY <1>1, <1>3
  <2>6. IsFiniteSet(campaigns')
    BY <2>5, FS_AddElement
  <2>7. call' \in [Procs -> Call] /\ call'[p] = NoCall /\ \A q \in Procs \ {p} : call'[q] = call[q]
    BY <1>1, NoCallTypes DEF ConfigCacheTypeOK
  <2>8. ConfigCacheTypeOK'
    BY <1>1, <2>4, <2>5, <2>7 DEF ConfigCacheTypeOK
  <2>9. ASSUME NEW q \in Procs PROVE KeyInv(q)' /\ ResultInv(q)'
    BY <1>1, <2>7, NoCallTypes DEF KeyInv, ResultInv, Storing, Key
  <2>10. EntriesInv'
    BY <1>1 DEF EntriesInv
  <2>11. UpToDate' /\ ArtifactsMatch'
    BY <1>1, <2>2, <2>4, <2>5 DEF UpToDate, ArtifactsMatch
  <2> QED
    BY <2>6, <2>8, <2>9, <2>10, <2>11
<1> QED
  BY <1>2, <1>3

LEMMA EditKeeps ==
  ASSUME CacheInv, Edit \/ UNCHANGED vars
  PROVE  CacheInv'
<1>1. UNCHANGED <<meta, archive, call, campaigns, raced, faults>>
  BY DEF Edit
<1>2. project' \in Versions
  BY VersionNumbers DEF Edit, ConfigCacheTypeOK, Versions
<1>3. ConfigCacheTypeOK'
  BY <1>1, <1>2 DEF ConfigCacheTypeOK
<1>4. \A p \in Procs : KeyInv(p)' /\ ResultInv(p)'
  BY <1>1 DEF KeyInv, ResultInv, Key
<1>5. EntriesInv' /\ UpToDate' /\ ArtifactsMatch'
  BY <1>1 DEF EntriesInv, UpToDate, ArtifactsMatch
<1> QED
  BY <1>1, <1>3, <1>4, <1>5

LEMMA KillKeeps ==
  ASSUME CacheInv, NEW p \in Procs, Kill(p)
  PROVE  CacheInv'
<1>1. faults' \in 0 .. MaxFaults
  BY VersionNumbers DEF Kill, ConfigCacheTypeOK
<1> QED
  BY <1>1, EndedCall DEF Kill

-----------------------------------------------------------------------------
(* The theorems.                                                           *)

LEMMA CacheInvInit == Init => CacheInv
<1> SUFFICES ASSUME Init PROVE CacheInv
  OBVIOUS
<1>1. Absent \in Entry /\ Absent.file = Nothing
  BY DEF Absent, Entry, Files
<1>2. ConfigCacheTypeOK /\ IsFiniteSet(campaigns)
  BY <1>1, NoCallTypes, VersionNumbers, FS_EmptySet DEF Init, ConfigCacheTypeOK
<1>3. ASSUME NEW p \in Procs PROVE KeyInv(p) /\ ResultInv(p)
  BY NoCallTypes DEF Init, KeyInv, ResultInv, Storing
<1>4. EntriesInv /\ UpToDate /\ ArtifactsMatch
  BY <1>1 DEF Init, EntriesInv, UpToDate, ArtifactsMatch
<1> QED
  BY <1>2, <1>3, <1>4

LEMMA CacheInvNext == CacheInv /\ [Next]_vars => CacheInv'
<1> SUFFICES ASSUME CacheInv, [Next]_vars PROVE CacheInv'
  OBVIOUS
<1>1. CASE Edit \/ UNCHANGED vars
  BY <1>1, EditKeeps
<1>2. ASSUME NEW p \in Procs,
             \/ Load(p) \/ BuildKey(p) \/ LookUp(p) \/ ReadHit(p) \/ ReadMiss(p)
             \/ Restore(p) \/ Extract(p) \/ Generate(p)
      PROVE  CacheInv'
  BY <1>2, LoadKeeps, BuildKeyKeeps, LookUpKeeps, ReadHitKeeps, ReadMissKeeps, RestoreKeeps,
     ExtractKeeps, GenerateKeeps
<1>3. ASSUME NEW p \in Procs,
             \/ StoreMeta(p) \/ WriteMeta(p) \/ MarkMeta(p) \/ Pack(p) \/ Fill(p)
             \/ Commit(p) \/ StoreFails(p) \/ Prepare(p) \/ Kill(p)
      PROVE  CacheInv'
  BY <1>3, StoreMetaKeeps, WriteMetaKeeps, MarkMetaKeeps, PackKeeps, FillKeeps, CommitKeeps,
     StoreFailsKeeps, PrepareKeeps, KillKeeps
<1> QED
  BY <1>1, <1>2, <1>3 DEF Next

\* Under a key no edit has raced, no process, kill or failure leaves a file that
\* parses and is of another version.
THEOREM CacheInvariant == Spec => []CacheInv
BY CacheInvInit, CacheInvNext, PTL DEF Spec

\* A file that does not parse never becomes somebody's configurations.
THEOREM CacheTypeCorrect == Spec => []ConfigCacheTypeOK
BY CacheInvariant, PTL

\* A campaign has the configurations its call has loaded, unless an edit fell
\* between some call's load and its key (generate_scenario_variations).
THEOREM CacheUpToDate == Spec => []UpToDate
BY CacheInvariant, PTL

\* A campaign has the files its configurations name, whatever state the archive
\* of the entry was in.
THEOREM CacheArtifactsMatch == Spec => []ArtifactsMatch
BY CacheInvariant, PTL
=============================================================================
