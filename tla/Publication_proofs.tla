------------------------- MODULE Publication_proofs --------------------------
(***************************************************************************)
(* `vast results publish' for any number of plugins, campaigns, calls and  *)
(* faults: no archive that was cut off reaches a record, a command that    *)
(* reports success has delivered what it made, and calling it again does   *)
(* not start another record.                                               *)
(***************************************************************************)
EXTENDS Publication, FiniteSetTheorems, WellFoundedInduction, TLAPS

Steps == {"idle", "process", "plan", "zip", "fill", "upload", "save", "fetch", "list",
          "next", "init", "send"}
Zipping == {"process", "plan", "zip", "fill"}
Uploading == {"next", "init", "send"}

RunType == [pc : Steps, only : Campaigns \cup {None}, home : Campaigns, force : BOOLEAN,
            upload : BOOLEAN, policy : Policies, zip : 1 .. NZips + 1,
            todo : SUBSET Archives, made : SUBSET Archives, artifacts : SUBSET Archives,
            id : Records \cup {None}, existing : SUBSET Archives, seen : [Fields -> Authors],
            kept : SUBSET Archives, ok : BOOLEAN]

\* What a record may hold under the name of an archive.
Entries == 0 .. Pending

RecordType == [state : {"none", "draft", "published"}, files : [Archives -> Entries],
               meta : [Fields -> Authors]]

TypeInv ==
  /\ layout \in Layouts
  /\ newest \in Campaigns /\ content \in [Campaigns -> 1 .. 2]
  /\ disk \in [Archives -> 0 .. CutOff]
  /\ recordOf \in [Campaigns -> Records \cup {None}]
  /\ record \in [Records -> RecordType]
  /\ run \in RunType
  /\ result \in {"none", "ok", "failed"} /\ unasked \in BOOLEAN
  /\ faults \in 0 .. MaxFaults /\ edits \in 0 .. MaxEdits /\ runs \in 0 .. MaxRuns

\* What the zip-th plugin packs.
ArchivesOf(zip) == {Archive(zip, c) : c \in Campaigns}

\* An archive is there, and whole unless another entry writes the same file.
OnDisk(a) == disk[Path(a)] # None /\ (disk[Path(a)] = CutOff => Shared(a))

\* What a plugin has made, and those before it, is on disk.
ZipInv ==
  /\ run.pc \in Zipping => run.zip <= NZips
  /\ run.pc \in {"process", "plan"} => run.made = {}
  /\ run.pc \in {"zip", "fill"} =>
       /\ run.todo \subseteq ArchivesOf(run.zip) /\ run.made \subseteq ArchivesOf(run.zip)
       /\ run.todo \cap run.made = {}
  /\ run.pc = "fill" => run.todo # {}
  /\ \A a \in run.artifacts : a <= (run.zip - 1) * MaxCampaigns
  /\ \A a \in run.artifacts \cup run.made : OnDisk(a)

\* Archives the upload has come to and not left as they were.
Passed == run.artifacts \ (run.kept \cup {c \in run.todo : run.pc = "next" \/ c # Min(run.todo)})

\* An archive is in the record, or has given way to a later one of its name.
There(a) == \/ record[run.id].files[Name(a)] = disk[Path(a)]
            \/ \E b \in Passed : b > a /\ Name(b) = Name(a)

\* A file that the record had is there, but while it is being replaced.
StillThere(n) == run.pc = "next" \/ n # Name(Min(run.todo)) => record[run.id].files[n] # None

UploadInv ==
  /\ run.pc \in Uploading \cup {"save", "fetch", "list"} => run.id \in Records
  /\ run.pc \in {"init", "send"} => run.todo # {}
  /\ run.pc \in Uploading =>
       /\ run.todo \subseteq run.artifacts
       /\ \A a \in run.artifacts \ run.todo, b \in run.todo : a < b
       /\ run.kept \subseteq run.artifacts \ run.todo
       /\ \A a \in run.kept : Name(a) \in run.existing
       /\ run.ok => \A a \in run.artifacts \ (run.todo \cup run.kept) : There(a)
       /\ run.ok => \A n \in run.existing : StillThere(n)

\* Records are created one after the other; for each there is a saved id, one
\* about to be saved, or a fault.
Saved == {c \in Campaigns : recordOf[c] # None}

RecordInv ==
  /\ \E n \in 0 .. MaxRecords : Created = 1 .. n
  /\ run.id # None => run.id \in Created
  /\ \A c \in Saved : c <= newest /\ recordOf[c] \in Created
  /\ run.home <= newest
  /\ run.pc = "save" => run.home \notin Saved
  /\ Cardinality(Created) <= Cardinality(Saved) + faults + (IF run.pc = "save" THEN 1 ELSE 0)

PublicationInv == TypeInv /\ ZipInv /\ UploadedAreWhole /\ UploadInv /\ RecordInv

-----------------------------------------------------------------------------
(* Numbers, archives and what a step leaves alone.                         *)

LEMMA MinIn ==
  ASSUME NEW S \in SUBSET Nat, S # {}
  PROVE  Min(S) \in S /\ \A y \in S : Min(S) <= y
<1>1. PICK x \in S : \A y \in S : ~ (<<y, x>> \in OpToRel(<, Nat))
  BY NatLessThanWellFounded, WFMin
<1>2. \A y \in S : ~(y < x)
  BY <1>1 DEF OpToRel
<1>3. \A y \in S : x =< y
  BY <1>2
<1> QED
  BY <1>3 DEF Min

LEMMA Product ==
  ASSUME NEW m \in Nat, NEW n \in Nat, NEW k \in 1 .. n
  PROVE  /\ (k - 1) * m \in Nat /\ n * m \in Nat
         /\ (k - 1) * m + m = k * m /\ k * m <= n * m
OBVIOUS

\* What the zip-th plugin packs: archives, after those of the plugins before it.
LEMMA ArchiveIs ==
  ASSUME NEW zip \in 1 .. NZips, NEW a \in ArchivesOf(zip)
  PROVE  a \in Archives /\ a <= zip * MaxCampaigns /\ ~(a <= (zip - 1) * MaxCampaigns)
<1>1. PICK c \in Campaigns : a = (zip - 1) * MaxCampaigns + c
  BY DEF ArchivesOf, Archive
<1>2. MaxCampaigns \in Nat \ {0} /\ NZips \in Nat \ {0}
  BY PublicationAssumption
<1>3. c \in 1 .. MaxCampaigns
  BY DEF Campaigns
<1>4. /\ (zip - 1) * MaxCampaigns \in Nat /\ NZips * MaxCampaigns \in Nat
      /\ (zip - 1) * MaxCampaigns + MaxCampaigns = zip * MaxCampaigns
      /\ zip * MaxCampaigns <= NZips * MaxCampaigns
  BY <1>2, Product
<1> QED
  BY <1>1, <1>2, <1>3, <1>4 DEF Archives

LEMMA CampaignIs ==
  ASSUME NEW a \in Archives
  PROVE  a \in Nat /\ CampaignOf(a) \in Campaigns
<1>1. MaxCampaigns \in Nat \ {0} /\ a - 1 \in Nat
  BY PublicationAssumption DEF Archives
<1>2. (a - 1) % MaxCampaigns \in 0 .. MaxCampaigns - 1
  BY <1>1
<1> QED
  BY <1>1, <1>2 DEF CampaignOf, Campaigns, Archives

LEMMA TodoMin ==
  ASSUME run.todo \in SUBSET Archives, run.todo # {}
  PROVE  Min(run.todo) \in run.todo /\ \A b \in run.todo : Min(run.todo) <= b
BY MinIn, CampaignIs

\* Files and names go by archives.
LEMMA LayoutIs ==
  ASSUME layout \in Layouts, NEW a \in Archives
  PROVE  Path(a) \in Archives /\ Name(a) \in Archives
BY LayoutAssumption DEF Path, Name

\* The fields of a command.
LEMMA RunFields ==
  ASSUME NEW r \in RunType
  PROVE  /\ r.pc \in Steps /\ r.only \in Campaigns \cup {None} /\ r.home \in Campaigns
         /\ r.force \in BOOLEAN /\ r.upload \in BOOLEAN /\ r.policy \in Policies
         /\ r.zip \in 1 .. NZips + 1 /\ r.todo \in SUBSET Archives
         /\ r.made \in SUBSET Archives /\ r.artifacts \in SUBSET Archives
         /\ r.id \in Records \cup {None} /\ r.existing \in SUBSET Archives
         /\ r.seen \in [Fields -> Authors] /\ r.kept \in SUBSET Archives /\ r.ok \in BOOLEAN
BY DEF RunType

LEMMA IdleTyped ==
  /\ Idle \in RunType /\ NoRecord \in RecordType
  /\ Idle.pc = "idle" /\ Idle.made = {} /\ Idle.artifacts = {} /\ Idle.id = None
  /\ Idle.home = 1 /\ Idle.zip = 1
  /\ NoRecord.state = "none" /\ NoRecord.files = [a \in Archives |-> None]
BY PublicationAssumption DEF Idle, NoRecord, RunType, RecordType, Steps, Campaigns, None,
                             Fields, Authors, Entries, Pending

\* A file of a record that is replaced.
LEMMA FileSet ==
  ASSUME record \in [Records -> RecordType], NEW r \in Records, NEW a \in Archives,
         NEW what \in Entries, record' = [record EXCEPT ![r].files[a] = what]
  PROVE  /\ record' \in [Records -> RecordType]
         /\ \A s \in Records : record'[s].state = record[s].state
         /\ \A s \in Records : s # r => record'[s] = record[s]
         /\ record'[r].files[a] = what
         /\ \A b \in Archives : b # a => record'[r].files[b] = record[r].files[b]
<1>1. record[r] \in RecordType
  OBVIOUS
<1>2. [record[r] EXCEPT !.files[a] = what] \in RecordType
  BY <1>1 DEF RecordType
<1>3. record' = [record EXCEPT ![r] = [record[r] EXCEPT !.files[a] = what]]
  OBVIOUS
<1>4. record' \in [Records -> RecordType]
  BY <1>2, <1>3
<1>5. record'[r] = [record[r] EXCEPT !.files[a] = what]
  BY <1>3
<1>6. record[r].files \in [Archives -> Entries]
  BY <1>1 DEF RecordType
<1>7. /\ record'[r].state = record[r].state
      /\ record'[r].files = [record[r].files EXCEPT ![a] = what]
  BY <1>1, <1>5 DEF RecordType
<1> QED
  BY <1>3, <1>4, <1>6, <1>7

\* The state or the metadata of a record that is replaced.
LEMMA StateSet ==
  ASSUME record \in [Records -> RecordType], NEW r \in Records,
         NEW what \in {"none", "draft", "published"}, record' = [record EXCEPT ![r].state = what]
  PROVE  /\ record' \in [Records -> RecordType]
         /\ \A s \in Records : record'[s].files = record[s].files
         /\ record'[r].state = what
         /\ \A s \in Records : s # r => record'[s].state = record[s].state
<1>1. record[r] \in RecordType
  OBVIOUS
<1>2. [record[r] EXCEPT !.state = what] \in RecordType
  BY <1>1 DEF RecordType
<1> QED
  BY <1>1, <1>2 DEF RecordType

LEMMA MetaSet ==
  ASSUME record \in [Records -> RecordType], NEW r \in Records,
         NEW what \in [Fields -> Authors], record' = [record EXCEPT ![r].meta = what]
  PROVE  /\ record' \in [Records -> RecordType]
         /\ \A s \in Records : record'[s].files = record[s].files
         /\ \A s \in Records : record'[s].state = record[s].state
<1>1. record[r] \in RecordType
  OBVIOUS
<1>2. [record[r] EXCEPT !.meta = what] \in RecordType
  BY <1>1 DEF RecordType
<1> QED
  BY <1>1, <1>2 DEF RecordType

\* The record that is created next.
LEMMA NextRecord ==
  ASSUME RecordInv
  PROVE  \E n \in 0 .. MaxRecords :
           /\ Created = 1 .. n /\ Cardinality(Created) = n /\ IsFiniteSet(Created)
           /\ Created # Records => n + 1 \in Records
<1>1. PICK n \in 0 .. MaxRecords : Created = 1 .. n
  BY DEF RecordInv
<1>2. MaxRecords \in Nat /\ n \in Nat
  BY PublicationAssumption
<1>3. Cardinality(1 .. n) = n /\ IsFiniteSet(1 .. n)
  BY <1>2, FS_Interval
<1>4. n # MaxRecords => n + 1 \in Records
  BY <1>2 DEF Records
<1> QED
  BY <1>1, <1>3, <1>4 DEF Records

-----------------------------------------------------------------------------
(* Types.                                                                  *)

LEMMA FinishTyped ==
  ASSUME NEW ok \in BOOLEAN, Finish(ok)
  PROVE  run' \in RunType /\ result' \in {"none", "ok", "failed"}
BY IdleTyped DEF Finish

LEMMA FaultTyped ==
  ASSUME TypeInv, Fault
  PROVE  faults' \in 0 .. MaxFaults /\ faults' = faults + 1 /\ faults \in Nat
<1>1. MaxFaults \in Nat /\ faults \in 0 .. MaxFaults
  BY PublicationAssumption DEF TypeInv
<1> QED
  BY <1>1 DEF Fault

LEMMA PublishTyped ==
  ASSUME TypeInv, Publish \/ Process
  PROVE  TypeInv'
<1>1. CASE Publish
  <2>1. PICK force \in BOOLEAN, upload \in BOOLEAN, only \in {None} \cup 1 .. newest :
          run' = [Idle EXCEPT !.pc = "process", !.force = force, !.upload = upload,
                              !.only = only]
    BY <1>1 DEF Publish
  <2>4. only \in Campaigns \cup {None}
    BY PublicationAssumption DEF TypeInv, Campaigns
  <2>2. run' \in RunType
    BY <2>1, <2>4, IdleTyped DEF RunType, Steps
  <2>3. runs' \in 0 .. MaxRuns
    <3>1. MaxRuns \in Nat /\ runs \in 0 .. MaxRuns
      BY PublicationAssumption DEF TypeInv
    <3>2. runs < MaxRuns /\ runs' = runs + 1
      BY <1>1 DEF Publish
    <3> QED
      BY <3>1, <3>2
  <2> QED
    BY <1>1, <2>2, <2>3 DEF Publish, TypeInv, files
<1>2. CASE Process
  <2>1. content' \in [Campaigns -> 1 .. 2]
    BY <1>2 DEF Process, TypeInv
  <2>2. run' \in RunType /\ result' \in {"none", "ok", "failed"}
    BY <1>2, FinishTyped DEF Process, TypeInv, RunType, Steps
  <2>3. faults' \in 0 .. MaxFaults
    BY <1>2, FaultTyped DEF Process, TypeInv
  <2> QED
    BY <1>2, <2>1, <2>2, <2>3 DEF Process, TypeInv
<1> QED
  BY <1>1, <1>2

LEMMA NextPluginTyped ==
  ASSUME run \in RunType, run.zip <= NZips, NEW ok \in BOOLEAN, NEW made \in SUBSET Archives,
         NextPlugin(ok, made)
  PROVE  run' \in RunType
<1>1. run.zip + 1 \in 1 .. NZips + 1
  BY PublicationAssumption, RunFields
<1>2. run.artifacts \cup made \in SUBSET Archives /\ (run.ok /\ ok) \in BOOLEAN
  BY RunFields
<1> QED
  BY <1>1, <1>2, PublicationAssumption DEF NextPlugin, RunType, Steps

LEMMA ZipTyped ==
  ASSUME TypeInv, ZipInv, PlanZip \/ SkipZip \/ OpenZip \/ FillZip \/ ZipReturns \/ ZipFails
  PROVE  TypeInv'
<1>0. run \in RunType /\ (run.todo # {} => Min(run.todo) \in Archives)
  BY TodoMin, RunFields DEF TypeInv
<1>1. CASE PlanZip
  <2>1. PICK policy \in Policies :
          run' = [run EXCEPT !.pc = "zip", !.policy = policy,
                             !.todo = {Archive(run.zip, c) : c \in Chosen}]
    BY <1>1 DEF PlanZip
  <2>2. run.zip \in 1 .. NZips
    <3>1. NZips \in Nat /\ run.zip \in 1 .. NZips + 1
      BY <1>0, RunFields, PublicationAssumption
    <3>2. run.zip <= NZips
      BY <1>1 DEF PlanZip, At, ZipInv, Zipping
    <3> QED
      BY <3>1, <3>2
  <2>3. Chosen \subseteq Campaigns
    BY PublicationAssumption DEF TypeInv, Campaigns, Chosen
  <2>4. {Archive(run.zip, c) : c \in Chosen} \subseteq ArchivesOf(run.zip)
    BY <2>3 DEF ArchivesOf
  <2>5. PICK todo \in SUBSET Archives : todo = {Archive(run.zip, c) : c \in Chosen}
    BY <2>2, <2>4, ArchiveIs
  <2>6. run' \in RunType
    BY <1>0, <2>1, <2>5 DEF RunType, Steps
  <2> QED
    BY <1>1, <2>6 DEF PlanZip, TypeInv, files, bounds
<1>2. CASE OpenZip
  <2>1. disk' \in [Archives -> 0 .. CutOff]
    BY <1>2, <1>0, LayoutIs DEF OpenZip, TypeInv, CutOff
  <2>2. run' \in RunType
    BY <1>2, <1>0 DEF OpenZip, RunType, Steps
  <2> QED
    BY <1>2, <2>1, <2>2 DEF OpenZip, TypeInv, bounds
<1>3. CASE FillZip
  <2>1. Min(run.todo) \in Archives
    BY <1>0, <1>3 DEF FillZip, At, ZipInv
  <2>2. content[CampaignOf(Min(run.todo))] \in 0 .. CutOff
    BY <2>1, CampaignIs DEF TypeInv, CutOff
  <2>3. disk' \in [Archives -> 0 .. CutOff]
    BY <1>3, <2>1, <2>2, LayoutIs DEF FillZip, TypeInv
  <2>4. run' \in RunType
    BY <1>0, <1>3, <2>1 DEF FillZip, RunType, Steps
  <2> QED
    BY <1>3, <2>3, <2>4 DEF FillZip, TypeInv, bounds
<1>4. CASE ZipReturns
  <2>1. run.zip <= NZips /\ run.made \in SUBSET Archives
    BY <1>0, <1>4, RunFields DEF ZipReturns, At, ZipInv, Zipping
  <2>2. run' \in RunType
    BY <1>0, <1>4, <2>1, NextPluginTyped DEF ZipReturns
  <2> QED
    BY <1>4, <2>2 DEF ZipReturns, TypeInv, files, bounds
<1>5. CASE ZipFails
  <2>1. run.zip <= NZips
    BY <1>5 DEF ZipFails, ZipInv, Zipping
  <2>2. run' \in RunType
    BY <1>0, <1>5, <2>1, NextPluginTyped DEF ZipFails
  <2>3. faults' \in 0 .. MaxFaults
    BY <1>5, FaultTyped DEF ZipFails
  <2> QED
    BY <1>5, <2>2, <2>3 DEF ZipFails, TypeInv, files, bounds
<1>6. CASE SkipZip
  <2>1. run.zip <= NZips /\ {} \in SUBSET Archives
    BY <1>6 DEF SkipZip, At, ZipInv, Zipping
  <2>2. run' \in RunType
    BY <1>0, <1>6, <2>1, NextPluginTyped DEF SkipZip
  <2> QED
    BY <1>6, <2>2 DEF SkipZip, TypeInv, files, bounds
<1> QED
  BY <1>1, <1>2, <1>3, <1>4, <1>5, <1>6

\* Before the first file: the record is found or made.
LEMMA RecordTyped ==
  ASSUME TypeInv, UploadInv, RecordInv,
         NoUpload \/ UseSavedRecord \/ CreateRecord \/ SaveRecord \/ FetchDraft \/ ListFiles
           \/ PluginFails
  PROVE  TypeInv'
<1>0. run \in RunType /\ run.ok \in BOOLEAN /\ run.home \in Campaigns
  BY RunFields DEF TypeInv
<1>1. CASE NoUpload
  <2>1. run' \in RunType /\ result' \in {"none", "ok", "failed"}
    BY <1>0, <1>1, FinishTyped DEF NoUpload
  <2> QED
    BY <1>1, <2>1 DEF NoUpload, TypeInv, files, bounds
<1>2. CASE UseSavedRecord
  <2>1. recordOf[run.home] \in Records \cup {None}
    BY <1>0 DEF TypeInv
  <2>2. run' \in RunType
    BY <1>0, <1>2, <2>1 DEF UseSavedRecord, RunType, Steps
  <2> QED
    BY <1>2, <2>2 DEF UseSavedRecord, TypeInv, files, bounds
<1>3. CASE CreateRecord
  <2>1. PICK r : r = Cardinality(Created) + 1
    OBVIOUS
  <2>2. r \in Records /\ record' = [record EXCEPT ![r].state = "draft"]
    BY <1>3, <2>1, NextRecord DEF CreateRecord
  <2>3. record' \in [Records -> RecordType]
    BY <2>2, StateSet DEF TypeInv
  <2>4. run' \in RunType /\ result' \in {"none", "ok", "failed"}
    BY <1>0, <1>3, <2>1, <2>2, FinishTyped DEF CreateRecord, TypeInv, RunType, Steps
  <2>5. faults' \in 0 .. MaxFaults
    BY <1>3, FaultTyped DEF CreateRecord, TypeInv
  <2> QED
    BY <1>3, <2>3, <2>4, <2>5 DEF CreateRecord, TypeInv, files, bounds
<1>4. CASE SaveRecord
  <2>1. run.id \in Records
    BY <1>4 DEF SaveRecord, At, UploadInv
  <2>2. recordOf' \in [Campaigns -> Records \cup {None}]
    BY <1>0, <1>4, <2>1 DEF SaveRecord, TypeInv
  <2>3. run' \in RunType
    BY <1>0, <1>4 DEF SaveRecord, RunType, Steps
  <2> QED
    BY <1>4, <2>2, <2>3 DEF SaveRecord, TypeInv, files, bounds
<1>5. CASE FetchDraft
  <2>1. run.id \in Records
    BY <1>5 DEF FetchDraft, At, UploadInv
  <2>2. record[run.id].meta \in [Fields -> Authors]
    BY <2>1 DEF TypeInv, RecordType
  <2>3. run' \in RunType /\ result' \in {"none", "ok", "failed"}
    <3>1. CASE Draft(run.id)
      <4>1. run' = [run EXCEPT !.pc = "list", !.seen = record[run.id].meta] /\ result' = result
        BY <1>5, <3>1 DEF FetchDraft
      <4> QED
        BY <1>0, <2>2, <4>1 DEF TypeInv, RunType, Steps
    <3>2. CASE ~Draft(run.id)
      BY <1>5, <3>2, FinishTyped DEF FetchDraft
    <3> QED
      BY <3>1, <3>2
  <2> QED
    BY <1>5, <2>3 DEF FetchDraft, TypeInv, files, bounds
<1>6. CASE ListFiles
  <2>1. {a \in Archives : record[run.id].files[a] # None} \in SUBSET Archives
    OBVIOUS
  <2>2. run' \in RunType /\ result' \in {"none", "ok", "failed"}
    <3>1. CASE Draft(run.id)
      <4>1. PICK existing \in SUBSET Archives, policy \in Policies :
              run' = [run EXCEPT !.pc = "next", !.policy = policy, !.todo = run.artifacts,
                                 !.kept = {}, !.existing = existing]
        BY <1>6, <2>1, <3>1 DEF ListFiles
      <4>2. run' \in RunType
        BY <1>0, <4>1 DEF RunType, Steps
      <4> QED
        BY <1>6, <3>1, <4>2 DEF ListFiles, TypeInv
    <3>2. CASE ~Draft(run.id)
      BY <1>6, <3>2, FinishTyped DEF ListFiles
    <3> QED
      BY <3>1, <3>2
  <2> QED
    BY <1>6, <2>2 DEF ListFiles, TypeInv, files, bounds
<1>7. CASE PluginFails
  <2>1. run' \in RunType /\ result' \in {"none", "ok", "failed"}
    BY <1>7, FinishTyped DEF PluginFails
  <2>2. faults' \in 0 .. MaxFaults
    BY <1>7, FaultTyped DEF PluginFails
  <2> QED
    BY <1>7, <2>1, <2>2 DEF PluginFails, TypeInv, files, bounds
<1> QED
  BY <1>1, <1>2, <1>3, <1>4, <1>5, <1>6, <1>7

LEMMA GiveUpTyped ==
  ASSUME run \in RunType, GiveUpFile
  PROVE  run' \in RunType
BY DEF GiveUpFile, RunType, Steps

LEMMA FilesTyped ==
  ASSUME TypeInv, UploadInv,
         ReplaceFile \/ NewFile \/ InitFile \/ SendFile \/ UploadFails \/ PushMetadata
  PROVE  TypeInv'
<1>0. /\ run \in RunType /\ run.ok \in BOOLEAN
      /\ record \in [Records -> RecordType]
      /\ (run.todo # {} => Min(run.todo) \in Archives
                            /\ Path(Min(run.todo)) \in Archives /\ Name(Min(run.todo)) \in Archives)
  BY RunFields, TodoMin, LayoutIs DEF TypeInv
<1>1. run.id \in Records
  BY DEF UploadInv, Uploading, ReplaceFile, NewFile, InitFile, SendFile, UploadFails,
         PushMetadata, At
<1>2. CASE ReplaceFile
  <2>1. Min(run.todo) \in Archives /\ Name(Min(run.todo)) \in Archives
    BY <1>0, <1>2 DEF ReplaceFile
  <2>2. record' \in [Records -> RecordType]
    BY <1>0, <1>1, <1>2, <2>1, FileSet, None \in Entries DEF ReplaceFile, Entries, None, Pending
  <2>3. run' \in RunType
    <3>1. PICK a \in Archives : a = Min(run.todo)
      BY <2>1
    <3>2. \/ run' = [run EXCEPT !.pc = "init"]
          \/ run' = [run EXCEPT !.todo = @ \ {a}, !.kept = @ \cup {a}]
      BY <1>2, <3>1 DEF ReplaceFile
    <3>3. PICK todo \in SUBSET Archives, kept \in SUBSET Archives :
            todo = run.todo \ {a} /\ kept = run.kept \cup {a}
      BY <1>0, RunFields
    <3>4. run' = [run EXCEPT !.pc = "init"] \/ run' = [run EXCEPT !.todo = todo, !.kept = kept]
      BY <1>0, <3>2, <3>3
    <3>5. CASE run' = [run EXCEPT !.pc = "init"]
      BY <1>0, <3>5 DEF RunType, Steps
    <3>6. CASE run' = [run EXCEPT !.todo = todo, !.kept = kept]
      BY <1>0, <3>6 DEF RunType
    <3> QED
      BY <3>4, <3>5, <3>6
  <2> QED
    BY <1>2, <2>2, <2>3 DEF ReplaceFile, TypeInv, files, bounds
<1>3. CASE NewFile
  BY <1>3 DEF NewFile, TypeInv, files, bounds, RunType, Steps
<1>4. CASE InitFile
  <2>1. Min(run.todo) \in Archives /\ Name(Min(run.todo)) \in Archives
    BY <1>0, <1>4 DEF InitFile, At, UploadInv
  <2>2. record' \in [Records -> RecordType]
    BY <1>0, <1>1, <1>4, <2>1, FileSet, Pending \in Entries DEF InitFile, Entries, Pending
  <2>3. run' \in RunType
    BY <1>0, <1>4, GiveUpTyped DEF InitFile, RunType, Steps
  <2> QED
    BY <1>4, <2>2, <2>3 DEF InitFile, TypeInv, files, bounds
<1>5. CASE SendFile
  <2>1. /\ Min(run.todo) \in Archives /\ Name(Min(run.todo)) \in Archives
        /\ Path(Min(run.todo)) \in Archives
    BY <1>0, <1>5 DEF SendFile, At, UploadInv
  <2>2. disk[Path(Min(run.todo))] \in Entries
    BY <2>1 DEF TypeInv, Entries, CutOff, Pending
  <2>3. record' \in [Records -> RecordType]
    BY <1>0, <1>1, <1>5, <2>1, <2>2, FileSet DEF SendFile
  <2>4. run' \in RunType
    <3>1. PICK a \in Archives : a = Min(run.todo)
      BY <2>1
    <3>2. run' = [run EXCEPT !.pc = "next", !.todo = @ \ {a}] \/ GiveUpFile
      BY <1>5, <3>1 DEF SendFile
    <3>3. CASE run' = [run EXCEPT !.pc = "next", !.todo = @ \ {a}]
      BY <1>0, <3>3 DEF RunType, Steps
    <3> QED
      BY <1>0, <3>2, <3>3, GiveUpTyped
  <2> QED
    BY <1>5, <2>3, <2>4 DEF SendFile, TypeInv, files, bounds
<1>6. CASE UploadFails
  <2>1. run' \in RunType
    BY <1>0, <1>6, GiveUpTyped DEF UploadFails
  <2>2. faults' \in 0 .. MaxFaults
    BY <1>6, FaultTyped DEF UploadFails
  <2> QED
    BY <1>6, <2>1, <2>2 DEF UploadFails, TypeInv, files, bounds
<1>7. CASE PushMetadata
  <2>1. [run.seen EXCEPT !["title"] = "vast"] \in [Fields -> Authors]
    BY <1>0, RunFields DEF Fields, Authors
  <2>2. record' \in [Records -> RecordType]
    BY <1>0, <1>1, <1>7, <2>1, MetaSet DEF PushMetadata
  <2>3. run' \in RunType /\ result' \in {"none", "ok", "failed"}
    BY <1>0, <1>7, FinishTyped DEF PushMetadata
  <2>4. unasked' \in BOOLEAN
    BY <1>7, Zenon DEF PushMetadata, TypeInv
  <2> QED
    BY <1>7, <2>2, <2>3, <2>4 DEF PushMetadata, TypeInv, files, bounds
<1> QED
  BY <1>2, <1>3, <1>4, <1>5, <1>6, <1>7

\* What happens around the command changes no file of a record.
LEMMA AroundTyped ==
  ASSUME TypeInv, Kill \/ NewCampaign \/ \E r \in Records : EditInBrowser(r) \/ PublishInBrowser(r)
  PROVE  /\ TypeInv' /\ disk' = disk /\ recordOf' = recordOf /\ layout' = layout
         /\ \A r \in Records : record'[r].files = record[r].files
         /\ \A r \in Records : (record'[r].state = "none") <=> (record[r].state = "none")
<1>0. record \in [Records -> RecordType]
  BY DEF TypeInv
<1>1. CASE Kill
  <2>1. faults' \in 0 .. MaxFaults
    BY <1>1, FaultTyped DEF Kill
  <2> QED
    BY <1>1, <2>1, IdleTyped DEF Kill, TypeInv, files, bounds
<1>2. CASE NewCampaign
  <2>1. newest' \in Campaigns
    BY <1>2, PublicationAssumption DEF NewCampaign, TypeInv, Campaigns
  <2> QED
    BY <1>2, <2>1 DEF NewCampaign, TypeInv, bounds
<1>3. ASSUME NEW r \in Records, EditInBrowser(r)
      PROVE  /\ TypeInv' /\ disk' = disk /\ recordOf' = recordOf /\ layout' = layout
             /\ \A s \in Records : record'[s].files = record[s].files
             /\ \A s \in Records : (record'[s].state = "none") <=> (record[s].state = "none")
  <2>1. PICK f \in Fields : record' = [record EXCEPT ![r].meta[f] = "user"]
    BY <1>3 DEF EditInBrowser
  <2>2. record[r] \in RecordType
    BY <1>0
  <2>3. [record[r].meta EXCEPT ![f] = "user"] \in [Fields -> Authors]
    BY <2>2 DEF RecordType, Authors
  <2>4. record' = [record EXCEPT ![r].meta = [record[r].meta EXCEPT ![f] = "user"]]
    BY <1>0, <2>1, <2>2 DEF RecordType
  <2>5. /\ record' \in [Records -> RecordType]
        /\ \A s \in Records : record'[s].files = record[s].files
        /\ \A s \in Records : record'[s].state = record[s].state
    BY <1>0, <2>3, <2>4, MetaSet
  <2>6. edits' \in 0 .. MaxEdits
    BY <1>3, PublicationAssumption DEF EditInBrowser, TypeInv
  <2> QED
    BY <1>3, <2>5, <2>6 DEF EditInBrowser, TypeInv, files
<1>4. ASSUME NEW r \in Records, PublishInBrowser(r)
      PROVE  /\ TypeInv' /\ disk' = disk /\ recordOf' = recordOf /\ layout' = layout
             /\ \A s \in Records : record'[s].files = record[s].files
             /\ \A s \in Records : (record'[s].state = "none") <=> (record[s].state = "none")
  <2>1. /\ record' \in [Records -> RecordType]
        /\ \A s \in Records : record'[s].files = record[s].files
        /\ record'[r].state = "published" /\ record[r].state = "draft"
        /\ \A s \in Records : s # r => record'[s].state = record[s].state
    BY <1>0, <1>4, StateSet DEF PublishInBrowser, Draft
  <2> QED
    BY <1>4, <2>1 DEF PublishInBrowser, TypeInv, files, bounds
<1> QED
  BY <1>1, <1>2, <1>3, <1>4

-----------------------------------------------------------------------------
(* The zip plugins.                                                        *)

\* A command that has ended has nothing to show.
LEMMA IdleGood ==
  ASSUME run' = Idle
  PROVE  ZipInv' /\ UploadInv'
BY IdleTyped DEF ZipInv, UploadInv, Zipping, Uploading

\* A step of the zenodo plugin, or around the command.
LEMMA ZipFrame ==
  ASSUME ZipInv, disk' = disk, layout' = layout, run'.zip = run.zip, run'.artifacts = run.artifacts,
         run'.made = run.made, run' = run \/ run'.pc \notin Zipping
  PROVE  ZipInv'
BY DEF ZipInv, Zipping, OnDisk, Shared, Path

LEMMA ZipSteps ==
  ASSUME TypeInv, ZipInv, PlanZip \/ SkipZip \/ OpenZip \/ FillZip \/ ZipReturns \/ ZipFails
  PROVE  ZipInv'
<1>0. /\ run \in RunType /\ disk \in [Archives -> 0 .. CutOff]
      /\ run.zip \in 1 .. NZips + 1 /\ NZips \in Nat \ {0} /\ run.made \in SUBSET Archives
      /\ run.artifacts \in SUBSET Archives
      /\ run.todo # {} => Min(run.todo) \in run.todo /\ Min(run.todo) \in Archives
      /\ layout' = layout /\ \A a \in Archives : Path(a) \in Archives
  BY RunFields, TodoMin, PublicationAssumption, LayoutIs
     DEF TypeInv, PlanZip, SkipZip, OpenZip, FillZip, ZipReturns, ZipFails, files
<1>8. \A a : Path(a)' = Path(a) /\ (Shared(a)' <=> Shared(a))
  BY <1>0 DEF Path, Shared
<1>1. run.zip \in 1 .. NZips
  <2>1. run.pc \in Zipping
    BY DEF Zipping, PlanZip, SkipZip, OpenZip, FillZip, ZipReturns, ZipFails, At
  <2>2. run.zip <= NZips
    BY <2>1 DEF ZipInv
  <2> QED
    BY <1>0, <2>2
<1>2. CASE PlanZip
  <2>1. PICK policy \in Policies :
          run' = [run EXCEPT !.pc = "zip", !.policy = policy,
                             !.todo = {Archive(run.zip, c) : c \in Chosen}]
    BY <1>2 DEF PlanZip
  <2>2. Chosen \subseteq Campaigns
    BY PublicationAssumption DEF TypeInv, Campaigns, Chosen
  <2>3. PICK todo \in SUBSET ArchivesOf(run.zip) : todo = {Archive(run.zip, c) : c \in Chosen}
    BY <2>2 DEF ArchivesOf
  <2>4. /\ run'.pc = "zip" /\ run'.todo = todo /\ run'.made = run.made
        /\ run'.artifacts = run.artifacts /\ run'.zip = run.zip
    BY <1>0, <2>1, <2>3 DEF RunType
  <2>5. run.made = {} /\ disk' = disk
    BY <1>2 DEF PlanZip, At, ZipInv, files
  <2>6. ArchivesOf(run.zip)' = ArchivesOf(run.zip)
    BY <2>4 DEF ArchivesOf, Archive
  <2> QED
    BY <1>1, <1>8, <2>3, <2>4, <2>5, <2>6 DEF ZipInv, OnDisk, Zipping
<1>3. CASE OpenZip
  <2>1. PICK a \in run.todo : a = Min(run.todo)
    BY <1>0, <1>3 DEF OpenZip
  <2>2. /\ run'.zip = run.zip /\ run'.made = run.made /\ run'.artifacts = run.artifacts
        /\ \/ run'.pc = "fill" /\ run'.todo = run.todo /\ disk' = [disk EXCEPT ![Path(a)] = CutOff]
           \/ run'.pc = "zip" /\ run'.todo = run.todo \ {a} /\ disk' = disk
    BY <1>0, <1>3, <2>1 DEF OpenZip, At, RunType
  <2>3. run.todo \subseteq ArchivesOf(run.zip) /\ run.todo \cap run.made = {}
    BY <1>3 DEF OpenZip, At, ZipInv
  <2>4. a \notin run.artifacts /\ a \notin run.made
    BY <1>1, <2>1, <2>3, ArchiveIs DEF ZipInv
  <2>5. \A b \in run.artifacts \cup run.made : OnDisk(b)'
    <3> SUFFICES ASSUME NEW b \in run.artifacts \cup run.made PROVE OnDisk(b)'
      OBVIOUS
    <3>1. OnDisk(b) /\ b \in Archives /\ b # a /\ a \in Archives
      BY <1>0, <2>1, <2>4, RunFields DEF ZipInv
    <3>2. CASE Path(b) = Path(a)
      <4>1. Shared(b)
        BY <3>1, <3>2 DEF Shared
      <4>2. disk'[Path(b)] = disk[Path(b)] \/ disk'[Path(b)] = CutOff
        BY <1>0, <2>2, <3>1
      <4> QED
        BY <1>8, <3>1, <4>1, <4>2 DEF OnDisk, CutOff, None
    <3>3. CASE Path(b) # Path(a)
      <4>1. disk'[Path(b)] = disk[Path(b)]
        BY <1>0, <2>2, <3>1, <3>3
      <4> QED
        BY <1>8, <3>1, <4>1 DEF OnDisk
    <3> QED
      BY <3>2, <3>3
  <2>6. ArchivesOf(run.zip)' = ArchivesOf(run.zip)
    BY <2>2 DEF ArchivesOf, Archive
  <2>7. run.made \subseteq ArchivesOf(run.zip)
    BY <1>3 DEF OpenZip, At, ZipInv
  <2> QED
    BY <1>1, <2>1, <2>2, <2>3, <2>5, <2>6, <2>7 DEF ZipInv, Zipping
<1>4. CASE FillZip
  <2>1. PICK a \in run.todo : a = Min(run.todo)
    BY <1>0, <1>4 DEF FillZip, At, ZipInv
  <2>2. /\ run'.zip = run.zip /\ run'.made = run.made \cup {a} /\ run'.artifacts = run.artifacts
        /\ run'.pc = "zip" /\ run'.todo = run.todo \ {a}
        /\ disk' = [disk EXCEPT ![Path(a)] = content[CampaignOf(a)]]
    BY <1>0, <1>4, <2>1 DEF FillZip, RunType
  <2>3. /\ run.todo \subseteq ArchivesOf(run.zip) /\ run.made \subseteq ArchivesOf(run.zip)
        /\ run.todo \cap run.made = {}
    BY <1>4 DEF FillZip, At, ZipInv
  <2>4. a \in Archives /\ content[CampaignOf(a)] \in 1 .. 2
    BY <1>0, <2>1, CampaignIs, RunFields DEF TypeInv
  <2>5. \A b \in run'.artifacts \cup run'.made : OnDisk(b)'
    <3> SUFFICES ASSUME NEW b \in run'.artifacts \cup run'.made PROVE OnDisk(b)'
      OBVIOUS
    <3>1. b \in Archives /\ (b # a => OnDisk(b))
      BY <1>0, <2>2, <2>4 DEF ZipInv
    <3>2. CASE Path(b) = Path(a)
      <4>1. disk'[Path(b)] \in 1 .. 2
        BY <1>0, <2>2, <2>4, <3>1, <3>2
      <4> QED
        BY <1>8, <4>1 DEF OnDisk, CutOff, None
    <3>3. CASE Path(b) # Path(a)
      <4>1. disk'[Path(b)] = disk[Path(b)] /\ b # a
        BY <1>0, <2>2, <3>1, <3>3
      <4> QED
        BY <1>8, <3>1, <4>1 DEF OnDisk
    <3> QED
      BY <3>2, <3>3
  <2>6. ArchivesOf(run.zip)' = ArchivesOf(run.zip)
    BY <2>2 DEF ArchivesOf, Archive
  <2> QED
    BY <1>1, <2>1, <2>2, <2>3, <2>5, <2>6 DEF ZipInv, Zipping
<1>5. ASSUME NEW ok \in BOOLEAN, NEW made \in SUBSET ArchivesOf(run.zip), NextPlugin(ok, made),
             disk' = disk, \A a \in made : OnDisk(a)
      PROVE  ZipInv'
  <2>1. /\ run'.zip = run.zip + 1 /\ run'.made = {} /\ run'.artifacts = run.artifacts \cup made
        /\ run'.pc = IF run.zip < NZips THEN "plan" ELSE "upload"
    BY <1>0, <1>5 DEF NextPlugin, RunType
  <2>2. run'.pc \in Zipping => run'.pc = "plan" /\ run'.zip <= NZips
    BY <1>0, <2>1 DEF Zipping
  <2>3. PICK m \in Nat, last \in Nat, this \in Nat :
          m = MaxCampaigns /\ last = (run.zip - 1) * m /\ this = run.zip * m /\ last <= this
    <3>1. MaxCampaigns \in Nat
      BY PublicationAssumption
    <3>2. (run.zip - 1) * MaxCampaigns \in Nat /\ run.zip * MaxCampaigns \in Nat
      BY <1>1, <1>0, <3>1, Product
    <3>3. (run.zip - 1) * MaxCampaigns <= run.zip * MaxCampaigns
      BY <1>1, <1>0, <3>1, Product
    <3> QED
      BY <3>1, <3>2, <3>3
  <2>4. \A a \in run.artifacts \cup made : a <= this
    <3>1. \A a \in made : a <= this
      BY <1>1, <2>3, ArchiveIs
    <3>2. \A a \in run.artifacts : a \in Nat /\ a <= last
      BY <1>0, <2>3, CampaignIs DEF ZipInv
    <3> QED
      BY <2>3, <3>1, <3>2
  <2>5. (run'.zip - 1) * MaxCampaigns = this
    BY <1>0, <2>1, <2>3
  <2>6. \A a \in run'.artifacts : a <= (run'.zip - 1) * MaxCampaigns
    BY <2>1, <2>4, <2>5
  <2>7. \A a \in run'.artifacts \cup run'.made : OnDisk(a)'
    BY <1>5, <1>8, <2>1 DEF ZipInv, OnDisk
  <2> QED
    BY <2>1, <2>2, <2>6, <2>7 DEF ZipInv
<1>6. CASE ZipReturns
  <2>1. run.made \in SUBSET ArchivesOf(run.zip) /\ \A a \in run.made : OnDisk(a)
    BY <1>6 DEF ZipReturns, At, ZipInv
  <2> QED
    BY <1>5, <1>6, <2>1 DEF ZipReturns, files
<1>7. CASE ZipFails
  <2>1. {} \in SUBSET ArchivesOf(run.zip) /\ NextPlugin(FALSE, {}) /\ disk' = disk
    BY <1>7 DEF ZipFails, files
  <2> QED
    BY <1>5, <2>1
<1>9. CASE SkipZip
  <2>1. {} \in SUBSET ArchivesOf(run.zip) /\ NextPlugin(TRUE, {}) /\ disk' = disk
    BY <1>9 DEF SkipZip, files
  <2> QED
    BY <1>5, <2>1
<1> QED
  BY <1>2, <1>3, <1>4, <1>6, <1>7, <1>9

LEMMA ZipKept ==
  ASSUME TypeInv, ZipInv, Next
  PROVE  ZipInv'
<1>0. run \in RunType
  BY DEF TypeInv
<1>1. CASE Publish
  <2>1. /\ run'.pc = "process" /\ run'.zip = 1 /\ run'.made = {} /\ run'.artifacts = {}
    BY <1>1, IdleTyped DEF Publish, RunType
  <2> QED
    BY <2>1, PublicationAssumption DEF ZipInv, Zipping
<1>2. CASE Process
  <2>1. CASE run' = [run EXCEPT !.pc = "plan", !.home = newest]
    <3>1. /\ run'.pc = "plan" /\ run'.zip = run.zip /\ run'.made = run.made
          /\ run'.artifacts = run.artifacts /\ disk' = disk /\ run.pc = "process"
          /\ layout' = layout
      BY <1>0, <1>2, <2>1 DEF Process, At, RunType
    <3> QED
      BY <3>1 DEF ZipInv, Zipping, OnDisk, Shared, Path
  <2> QED
    BY <1>2, <2>1, IdleGood DEF Process, Finish
<1>3. CASE PlanZip \/ SkipZip \/ OpenZip \/ FillZip \/ ZipReturns \/ ZipFails
  BY <1>3, ZipSteps
<1>4. CASE NoUpload \/ UseSavedRecord \/ CreateRecord \/ SaveRecord \/ FetchDraft \/ ListFiles
             \/ PluginFails
  <2>1. \/ run' = Idle
        \/ /\ disk' = disk /\ layout' = layout /\ run'.zip = run.zip /\ run'.artifacts = run.artifacts
           /\ run'.made = run.made /\ run'.pc \notin Zipping
    BY <1>0, <1>4 DEF NoUpload, UseSavedRecord, CreateRecord, SaveRecord, FetchDraft, ListFiles,
                      PluginFails, Finish, RunType, files, Zipping
  <2> QED
    BY <2>1, IdleGood, ZipFrame
<1>5. CASE ReplaceFile \/ NewFile \/ InitFile \/ SendFile \/ UploadFails \/ PushMetadata
  <2>1. \/ run' = Idle
        \/ /\ disk' = disk /\ layout' = layout /\ run'.zip = run.zip /\ run'.artifacts = run.artifacts
           /\ run'.made = run.made /\ run'.pc \notin Zipping
    BY <1>0, <1>5 DEF ReplaceFile, NewFile, InitFile, SendFile, UploadFails, PushMetadata,
                      GiveUpFile, Finish, At, RunType, files, Zipping
  <2> QED
    BY <2>1, IdleGood, ZipFrame
<1>6. CASE Kill \/ NewCampaign \/ \E r \in Records : EditInBrowser(r) \/ PublishInBrowser(r)
  <2>1. run' = Idle \/ (run' = run /\ disk' = disk /\ layout' = layout)
    BY <1>6 DEF Kill, NewCampaign, EditInBrowser, PublishInBrowser, files
  <2> QED
    BY <2>1, IdleGood, ZipFrame
<1> QED
  BY <1>1, <1>2, <1>3, <1>4, <1>5, <1>6 DEF Next

-----------------------------------------------------------------------------
(* The files of a record.                                                  *)

\* A step that changes no file.
LEMMA FilesFrame ==
  ASSUME layout' = layout, \A r \in Records : record'[r].files = record[r].files
  PROVE  /\ UploadedAreWhole => UploadedAreWhole'
         /\ TypeInv /\ UploadInv /\ run' = run /\ disk' = disk => UploadInv'
<1>1. UploadedAreWhole => UploadedAreWhole'
  BY DEF UploadedAreWhole, Shared, Name, Path
<1>2. ASSUME TypeInv, UploadInv, run' = run, disk' = disk
      PROVE  UploadInv'
  <2>1. CASE run.pc \in Uploading
    <3>1. run.id \in Records
      BY <1>2, <2>1 DEF UploadInv
    <3>2. \A n : Name(n)' = Name(n) /\ Path(n)' = Path(n)
      BY DEF Name, Path
    <3>3. Passed' = Passed
      BY <1>2 DEF Passed
    <3>4. \A a : There(a)' <=> There(a)
      BY <1>2, <3>1, <3>2, <3>3 DEF There
    <3>5. \A n : StillThere(n)' <=> StillThere(n)
      BY <1>2, <3>1, <3>2 DEF StillThere
    <3> QED
      BY <1>2, <2>1, <3>1, <3>2, <3>4, <3>5 DEF UploadInv
  <2>2. CASE run.pc \notin Uploading
    BY <1>2, <2>2 DEF UploadInv, Uploading
  <2> QED
    BY <2>1, <2>2
<1> QED
  BY <1>1, <1>2

\* Before the first file, every archive is yet to be uploaded.
LEMMA RecordSteps ==
  ASSUME TypeInv, UploadedAreWhole, UploadInv, RecordInv,
         NoUpload \/ UseSavedRecord \/ CreateRecord \/ SaveRecord \/ FetchDraft \/ ListFiles
           \/ PluginFails
  PROVE  UploadedAreWhole' /\ UploadInv'
<1> USE DEF files
<1>0. /\ run \in RunType /\ run.home \in Campaigns /\ record \in [Records -> RecordType]
  BY RunFields DEF TypeInv
<1>1. CASE NoUpload \/ PluginFails
  <2>1. run' = Idle /\ record' = record /\ layout' = layout
    BY <1>1 DEF NoUpload, PluginFails, Finish
  <2> QED
    BY <2>1, IdleGood, FilesFrame
<1>2. CASE UseSavedRecord
  <2>1. run'.pc = "fetch" /\ run'.id \in Records /\ record' = record /\ layout' = layout
    BY <1>0, <1>2 DEF UseSavedRecord, RunType, TypeInv
  <2> QED
    BY <2>1, FilesFrame DEF UploadInv, Uploading
<1>3. CASE CreateRecord
  <2>1. PICK r : r = Cardinality(Created) + 1
    OBVIOUS
  <2>2. r \in Records /\ record' = [record EXCEPT ![r].state = "draft"]
    BY <1>3, <2>1, NextRecord DEF CreateRecord
  <2>3. layout' = layout /\ \A s \in Records : record'[s].files = record[s].files
    BY <1>0, <1>3, <2>2, StateSet DEF CreateRecord
  <2>4. run' = Idle \/ run' = [run EXCEPT !.pc = "save", !.id = r]
    BY <1>3, <2>1 DEF CreateRecord, Finish
  <2>5. CASE run' = [run EXCEPT !.pc = "save", !.id = r]
    <3>1. run'.pc = "save" /\ run'.id \in Records
      BY <1>0, <2>2, <2>5 DEF RunType
    <3> QED
      BY <2>3, <3>1, FilesFrame DEF UploadInv, Uploading
  <2> QED
    BY <2>3, <2>4, <2>5, IdleGood, FilesFrame
<1>4. CASE SaveRecord
  <2>1. run'.pc = "fetch" /\ run'.id \in Records /\ record' = record /\ layout' = layout
    BY <1>0, <1>4 DEF SaveRecord, At, RunType, UploadInv
  <2> QED
    BY <2>1, FilesFrame DEF UploadInv, Uploading
<1>5. CASE FetchDraft
  <2>1. run' = Idle \/ (run'.pc = "list" /\ run'.id \in Records)
    BY <1>0, <1>5 DEF FetchDraft, Finish, At, RunType, UploadInv
  <2>2. record' = record /\ layout' = layout
    BY <1>5 DEF FetchDraft
  <2> QED
    BY <2>1, <2>2, IdleGood, FilesFrame DEF UploadInv, Uploading
<1>6. CASE ListFiles
  <2>1. record' = record /\ layout' = layout /\ run.id \in Records
    BY <1>6 DEF ListFiles, At, UploadInv
  <2>2. CASE run' = Idle
    BY <2>1, <2>2, IdleGood, FilesFrame
  <2>3. CASE run' # Idle
    <3>1. PICK existing \in SUBSET Archives, policy \in Policies :
            /\ existing = {n \in Archives : record[run.id].files[n] # None}
            /\ run' = [run EXCEPT !.pc = "next", !.policy = policy, !.todo = run.artifacts,
                                   !.kept = {}, !.existing = existing]
      BY <1>6, <2>3 DEF ListFiles, Finish
    <3>2. /\ run'.pc = "next" /\ run'.todo = run.artifacts /\ run'.artifacts = run.artifacts
          /\ run'.existing = existing /\ run'.id = run.id /\ run'.kept = {}
      BY <1>0, <3>1 DEF RunType
    <3>3. \A n \in existing : record'[run'.id].files[n] # None
      BY <2>1, <3>1, <3>2
    <3> QED
      BY <2>1, <3>2, <3>3, FilesFrame DEF UploadInv, Uploading, StillThere
  <2> QED
    BY <2>2, <2>3
<1> QED
  BY <1>1, <1>2, <1>3, <1>4, <1>5, <1>6

\* A step on the file the upload has come to.
LEMMA FileFacts ==
  ASSUME TypeInv, ZipInv, UploadInv, run.pc \in Uploading, run.todo # {}
  PROVE  /\ Min(run.todo) \in run.todo /\ Min(run.todo) \in Archives
         /\ OnDisk(Min(run.todo)) /\ disk[Path(Min(run.todo))] \in 0 .. CutOff
         /\ Path(Min(run.todo)) \in Archives /\ Name(Min(run.todo)) \in Archives
         /\ run.id \in Records /\ run.todo \subseteq run.artifacts /\ run.artifacts \subseteq Archives
<1>1. Min(run.todo) \in run.todo /\ run.artifacts \subseteq Archives /\ run.todo \subseteq Archives
  BY TodoMin, RunFields DEF TypeInv
<1>2. run.id \in Records /\ run.todo \subseteq run.artifacts
  BY DEF UploadInv
<1>3. Path(Min(run.todo)) \in Archives /\ Name(Min(run.todo)) \in Archives
  BY <1>1, LayoutIs DEF TypeInv
<1> QED
  BY <1>1, <1>2, <1>3 DEF ZipInv, TypeInv

\* The upload is still at the file a, or has done with it, and no file of
\* another name has changed: those that were there are, and those of its
\* name have given way to it.
LEMMA FileGoesOn ==
  ASSUME TypeInv, UploadInv, run.pc \in Uploading, NEW a \in run.todo, a = Min(run.todo),
         disk' = disk, layout' = layout, run'.artifacts = run.artifacts,
         run'.existing = run.existing, run'.id = run.id, run'.kept = run.kept, run'.ok => run.ok,
         \A n \in Archives : n # Name(a) => record'[run.id].files[n] = record[run.id].files[n],
         \/ run'.pc \in {"init", "send"} /\ run'.todo = run.todo
         \/ /\ run'.pc = "next" /\ run'.todo = run.todo \ {a}
            /\ run'.ok => /\ record'[run.id].files[Name(a)] = disk[Path(a)]
                          /\ disk[Path(a)] # None
  PROVE  UploadInv'
<1>1. /\ run.id \in Records /\ run.todo \subseteq run.artifacts /\ run.artifacts \subseteq Archives
      /\ run.existing \subseteq Archives /\ run.kept \subseteq run.artifacts \ run.todo
      /\ \A b \in run.artifacts \ run.todo, c \in run.todo : b < c
  BY RunFields DEF UploadInv, TypeInv
<1>2. \A b \in run.todo : a <= b
  BY <1>1, TodoMin
<1>3. \A b \in Archives : b \in Nat /\ Name(b) \in Archives
  BY CampaignIs, LayoutIs DEF TypeInv
<1>4. \A b : Name(b)' = Name(b) /\ Path(b)' = Path(b)
  BY DEF Name, Path
<1>5. Passed' = run.artifacts \ (run.kept \cup (run.todo \ {a}))
  BY DEF Passed
<1>6. a \in Passed' /\ Passed \subseteq Passed'
  BY <1>1, <1>5 DEF Passed
<1>7. ASSUME run'.ok, NEW b \in run.artifacts \ (run.todo \cup run.kept)
      PROVE  There(b)'
  <2>1. There(b) /\ a > b
    BY <1>1, <1>3, <1>7 DEF UploadInv
  <2>2. CASE Name(b) = Name(a)
    BY <1>4, <1>6, <2>1, <2>2 DEF There
  <2>3. CASE Name(b) # Name(a)
    <3>1. record'[run.id].files[Name(b)] = record[run.id].files[Name(b)]
      BY <1>1, <1>3, <2>3
    <3> QED
      BY <1>4, <1>6, <2>1, <3>1 DEF There
  <2> QED
    BY <2>2, <2>3
<1>8. ASSUME run'.ok, NEW n \in run.existing
      PROVE  StillThere(n)'
  <2>1. CASE n # Name(a)
    <3>1. record[run.id].files[n] # None
      BY <1>8, <2>1 DEF UploadInv, StillThere
    <3> QED
      BY <1>1, <2>1, <3>1 DEF StillThere
  <2>2. CASE n = Name(a)
    BY <1>4, <1>8, <2>2 DEF StillThere
  <2> QED
    BY <2>1, <2>2
<1>9. \A b \in run'.kept : Name(b)' \in run'.existing
  BY <1>4 DEF UploadInv
<1>10. CASE run'.pc \in {"init", "send"} /\ run'.todo = run.todo
  BY <1>1, <1>7, <1>8, <1>9, <1>10 DEF UploadInv, Uploading
<1>11. CASE /\ run'.pc = "next" /\ run'.todo = run.todo \ {a}
            /\ run'.ok => /\ record'[run.id].files[Name(a)] = disk[Path(a)]
                          /\ disk[Path(a)] # None
  <2>1. run'.ok => There(a)'
    BY <1>4, <1>11 DEF There
  <2>2. \A b \in run'.artifacts \ run'.todo, c \in run'.todo : b < c
    BY <1>1, <1>2, <1>3, <1>11
  <2>3. run'.ok => \A b \in run'.artifacts \ (run'.todo \cup run'.kept) : There(b)'
    BY <1>7, <1>11, <2>1
  <2> QED
    BY <1>1, <1>8, <1>9, <1>11, <2>2, <2>3 DEF UploadInv, Uploading
<1> QED
  BY <1>10, <1>11

\* A file that is left as it was.
LEMMA FileKept ==
  ASSUME TypeInv, UploadInv, run.pc = "next", NEW a \in run.todo, a = Min(run.todo),
         disk' = disk, layout' = layout, record' = record, Name(a) \in run.existing,
         run' = [run EXCEPT !.todo = @ \ {a}, !.kept = @ \cup {a}]
  PROVE  UploadInv'
<1>1. /\ run.id \in Records /\ run.todo \subseteq run.artifacts /\ run.artifacts \subseteq Archives
      /\ run.kept \subseteq run.artifacts \ run.todo
      /\ \A b \in run.artifacts \ run.todo, c \in run.todo : b < c
      /\ \A b \in run.kept : Name(b) \in run.existing
  BY RunFields DEF UploadInv, TypeInv, Uploading
<1>2. /\ run'.pc = "next" /\ run'.todo = run.todo \ {a} /\ run'.artifacts = run.artifacts
      /\ run'.existing = run.existing /\ run'.id = run.id /\ run'.kept = run.kept \cup {a}
      /\ run'.ok = run.ok
  BY DEF RunType, TypeInv
<1>3. \A b \in run.todo : b \in Nat /\ a <= b
  BY <1>1, TodoMin, CampaignIs
<1>4. \A b : Name(b)' = Name(b) /\ Path(b)' = Path(b)
  BY DEF Name, Path
<1>5. Passed' = Passed
  BY <1>1, <1>2 DEF Passed
<1>6. \A b \in run.artifacts \ (run.todo \cup run.kept) : There(b)' <=> There(b)
  BY <1>2, <1>4, <1>5 DEF There
<1>7. run'.ok => \A b \in run'.artifacts \ (run'.todo \cup run'.kept) : There(b)'
  BY <1>2, <1>6 DEF UploadInv, Uploading
<1>8. run'.ok => \A n \in run'.existing : StillThere(n)'
  BY <1>2 DEF UploadInv, Uploading, StillThere
<1>9. \A b \in run'.artifacts \ run'.todo, c \in run'.todo : b < c
  BY <1>1, <1>2, <1>3
<1>10. \A b \in run'.kept : Name(b)' \in run'.existing
  BY <1>1, <1>2, <1>4
<1> QED
  BY <1>1, <1>2, <1>7, <1>8, <1>9, <1>10 DEF UploadInv, Uploading

LEMMA FilesSteps ==
  ASSUME TypeInv, ZipInv, UploadedAreWhole, UploadInv,
         ReplaceFile \/ NewFile \/ InitFile \/ SendFile \/ UploadFails \/ PushMetadata
  PROVE  UploadedAreWhole' /\ UploadInv'
<1>0. run \in RunType /\ record \in [Records -> RecordType] /\ layout' = layout
  BY DEF TypeInv, files, ReplaceFile, NewFile, InitFile, SendFile, UploadFails, PushMetadata
<1>1. CASE PushMetadata
  <2>1. run.id \in Records /\ [run.seen EXCEPT !["title"] = "vast"] \in [Fields -> Authors]
    BY <1>0, <1>1, RunFields DEF PushMetadata, At, UploadInv, Uploading, Fields, Authors
  <2>2. \A s \in Records : record'[s].files = record[s].files
    BY <1>0, <1>1, <2>1, MetaSet DEF PushMetadata
  <2> QED
    BY <1>0, <1>1, <2>2, IdleGood, FilesFrame DEF PushMetadata, Finish
<1>2. (run.todo # {} /\ run.pc \in Uploading /\ disk' = disk) \/ PushMetadata
  BY DEF ReplaceFile, NewFile, InitFile, SendFile, UploadFails, At, UploadInv, Uploading, files
<1>3. ASSUME ~PushMetadata
      PROVE  UploadedAreWhole' /\ UploadInv'
  <2>1. PICK a \in run.todo : /\ a = Min(run.todo) /\ a \in Archives /\ OnDisk(a)
                              /\ disk[Path(a)] \in 0 .. CutOff
                              /\ Path(a) \in Archives /\ Name(a) \in Archives
    BY <1>2, <1>3, FileFacts
  <2>2. /\ run.id \in Records /\ run.todo \subseteq run.artifacts /\ run.artifacts \subseteq Archives
        /\ run.pc \in Uploading /\ disk' = disk
    BY <1>2, <1>3, FileFacts
  <2>3. ASSUME NEW what \in Entries, what = CutOff => Shared(a),
               record' = [record EXCEPT ![run.id].files[Name(a)] = what]
        PROVE  /\ UploadedAreWhole' /\ record'[run.id].files[Name(a)] = what
               /\ \A n \in Archives : n # Name(a) => record'[run.id].files[n] = record[run.id].files[n]
    <3>1. /\ \A s \in Records : s # run.id => record'[s] = record[s]
          /\ record'[run.id].files[Name(a)] = what
          /\ \A n \in Archives : n # Name(a) => record'[run.id].files[n] = record[run.id].files[n]
      <4>1. PICK name \in Archives : name = Name(a)
        BY <2>1
      <4>2. record' = [record EXCEPT ![run.id].files[name] = what]
        BY <2>3, <4>1
      <4>3. /\ record \in [Records -> RecordType] /\ run.id \in Records
            /\ name \in Archives /\ what \in Entries
        BY <1>0, <2>2, <2>3, <4>1
      <4>4. \A s \in Records : s # run.id => record'[s] = record[s]
        BY <4>2, <4>3, FileSet
      <4>5. record'[run.id].files[name] = what
        BY <4>2, <4>3 DEF RecordType
      <4>6. \A n \in Archives : n # name => record'[run.id].files[n] = record[run.id].files[n]
        BY <4>2, <4>3, FileSet
      <4> QED
        BY <4>1, <4>4, <4>5, <4>6
    <3>2. \A b \in Archives : Name(b)' = Name(b) /\ (Shared(b)' <=> Shared(b))
      BY <1>0 DEF Name, Path, Shared
    <3> QED
      BY <2>1, <2>3, <3>1, <3>2 DEF UploadedAreWhole
  <2>4. record' = record => UploadedAreWhole'
    BY <1>0, FilesFrame
  <2>5. ASSUME GiveUpFile, record' = record
        PROVE  UploadInv'
    <3>1. /\ run'.pc = "next" /\ run'.todo = run.todo \ {a} /\ run'.artifacts = run.artifacts
          /\ run'.existing = run.existing /\ run'.id = run.id /\ run'.kept = run.kept
          /\ run'.ok = FALSE
      BY <1>0, <2>1, <2>5 DEF GiveUpFile, RunType
    <3> QED
      BY <1>0, <2>1, <2>2, <2>5, <3>1, FileGoesOn
  <2>6. ASSUME run' = [run EXCEPT !.pc = "init"] \/ run' = [run EXCEPT !.pc = "send"],
               \A n \in Archives : n # Name(a) => record'[run.id].files[n] = record[run.id].files[n]
        PROVE  UploadInv'
    <3>1. /\ run'.pc \in {"init", "send"} /\ run'.todo = run.todo /\ run'.artifacts = run.artifacts
          /\ run'.existing = run.existing /\ run'.id = run.id /\ run'.kept = run.kept
          /\ run'.ok = run.ok
      BY <1>0, <2>6 DEF RunType
    <3> QED
      BY <1>0, <2>1, <2>2, <2>6, <3>1, FileGoesOn
  <2>7. None \in Entries /\ Pending \in Entries /\ None # CutOff /\ Pending # CutOff
    BY DEF Entries, None, Pending, CutOff
  <2>8. CASE ReplaceFile
    <3>1. \/ /\ run' = [run EXCEPT !.pc = "init"]
             /\ record' = [record EXCEPT ![run.id].files[Name(a)] = None] \/ record' = record
          \/ /\ run' = [run EXCEPT !.todo = @ \ {a}, !.kept = @ \cup {a}] /\ record' = record
             /\ Name(a) \in run.existing
      BY <2>1, <2>8 DEF ReplaceFile
    <3>2. CASE /\ run' = [run EXCEPT !.pc = "init"]
               /\ record' = [record EXCEPT ![run.id].files[Name(a)] = None]
      BY <2>3, <2>6, <2>7, <3>2
    <3>3. CASE run' = [run EXCEPT !.pc = "init"] /\ record' = record
      BY <2>4, <2>6, <3>3
    <3>4. CASE /\ run' = [run EXCEPT !.todo = @ \ {a}, !.kept = @ \cup {a}] /\ record' = record
               /\ Name(a) \in run.existing
      BY <1>0, <2>1, <2>2, <2>4, <2>8, <3>4, FileKept DEF ReplaceFile, At
    <3> QED
      BY <3>1, <3>2, <3>3, <3>4
  <2>9. CASE NewFile
    BY <2>4, <2>6, <2>9 DEF NewFile
  <2>10. CASE InitFile
    <3>1. CASE GiveUpFile /\ record' = record
      BY <2>4, <2>5, <3>1
    <3>2. CASE ~(GiveUpFile /\ record' = record)
      <4>1. /\ record' = [record EXCEPT ![run.id].files[Name(a)] = Pending]
            /\ run' = [run EXCEPT !.pc = "send"]
        BY <2>1, <2>10, <3>2 DEF InitFile
      <4> QED
        BY <2>3, <2>6, <2>7, <4>1
    <3> QED
      BY <3>1, <3>2
  <2>11. CASE SendFile
    <3>1. CASE GiveUpFile /\ record' = record
      BY <2>4, <2>5, <3>1
    <3>2. CASE ~(GiveUpFile /\ record' = record)
      <4>1. /\ disk[Path(a)] \in Entries /\ disk[Path(a)] # None
            /\ disk[Path(a)] = CutOff => Shared(a)
        BY <2>1 DEF Entries, Pending, CutOff, OnDisk
      <4>2. /\ record' = [record EXCEPT ![run.id].files[Name(a)] = disk[Path(a)]]
            /\ run' = [run EXCEPT !.pc = "next", !.todo = @ \ {a}]
        BY <2>1, <2>11, <3>2 DEF SendFile
      <4>3. PICK what \in Entries : what = disk[Path(a)]
        BY <4>1
      <4>4. /\ UploadedAreWhole' /\ record'[run.id].files[Name(a)] = disk[Path(a)]
            /\ \A n \in Archives : n # Name(a) => record'[run.id].files[n] = record[run.id].files[n]
        BY <2>3, <4>1, <4>2, <4>3
      <4>5. /\ run'.pc = "next" /\ run'.todo = run.todo \ {a} /\ run'.artifacts = run.artifacts
            /\ run'.existing = run.existing /\ run'.id = run.id /\ run'.kept = run.kept
            /\ run'.ok = run.ok
        BY <1>0, <4>2 DEF RunType
      <4> QED
        BY <1>0, <2>1, <2>2, <4>1, <4>4, <4>5, FileGoesOn
    <3> QED
      BY <3>1, <3>2
  <2>12. CASE UploadFails
    BY <2>4, <2>5, <2>12 DEF UploadFails
  <2> QED
    BY <1>3, <2>8, <2>9, <2>10, <2>11, <2>12
<1> QED
  BY <1>1, <1>3

-----------------------------------------------------------------------------
(* The records and their ids.                                              *)

LEMMA CreatedSame ==
  ASSUME \A r \in Records : (record'[r].state = "none") <=> (record[r].state = "none")
  PROVE  Created' = Created
BY DEF Created

LEMMA Counts ==
  ASSUME TypeInv, RecordInv
  PROVE  /\ IsFiniteSet(Saved) /\ Cardinality(Saved) \in Nat
         /\ IsFiniteSet(Created) /\ Cardinality(Created) \in Nat
         /\ faults \in Nat /\ newest \in Nat
<1>1. IsFiniteSet(Campaigns)
  BY PublicationAssumption, FS_Interval DEF Campaigns
<1>2. IsFiniteSet(Saved)
  BY <1>1, FS_Subset, Saved \subseteq Campaigns DEF Saved
<1>3. IsFiniteSet(Created) /\ Cardinality(Created) \in Nat
  BY NextRecord, FS_CardinalityType
<1>4. faults \in Nat /\ newest \in Nat
  BY PublicationAssumption DEF TypeInv, Campaigns
<1> QED
  BY <1>2, <1>3, <1>4, FS_CardinalityType

\* No record is made and no id is saved; a command that was about to save one
\* does not end without a fault.
LEMMA RecordFrame ==
  ASSUME TypeInv, RecordInv, Created' = Created, recordOf' = recordOf,
         newest' \in Nat, newest' >= newest, faults' \in Nat, faults' >= faults,
         run'.id = None \/ run'.id \in Created, run'.home \in Nat, run'.home <= newest',
         run'.pc = "save" => run.pc = "save" /\ run'.home = run.home,
         run.pc = "save" /\ run'.pc # "save" => faults' = faults + 1
  PROVE  RecordInv'
<1>1. /\ Cardinality(Saved) \in Nat /\ Cardinality(Created) \in Nat
      /\ faults \in Nat /\ newest \in Nat
  BY Counts
<1>2. Saved' = Saved
  BY DEF Saved
<1>3. \A c \in Saved' : c <= newest' /\ recordOf'[c] \in Created'
  <2>1. \A c \in Saved : c \in Nat
    BY DEF Saved, Campaigns
  <2> QED
    BY <1>1, <1>2, <2>1 DEF RecordInv
<1>4. Cardinality(Created') <= Cardinality(Saved') + faults' + (IF run'.pc = "save" THEN 1 ELSE 0)
  BY <1>1, <1>2 DEF RecordInv
<1>5. run'.pc = "save" => run'.home \notin Saved'
  BY <1>2 DEF RecordInv
<1>6. \E n \in 0 .. MaxRecords : Created' = 1 .. n
  BY DEF RecordInv
<1> QED
  BY <1>3, <1>4, <1>5, <1>6 DEF RecordInv

\* A command that ends, or goes on with the record it has.
LEMMA RecordGoesOn ==
  ASSUME TypeInv, RecordInv, Created' = Created, recordOf' = recordOf, newest' = newest,
         faults' = faults \/ Fault, run.pc = "save" => Fault,
         \/ run' = Idle
         \/ run'.id = run.id /\ run'.home = run.home /\ run'.pc # "save"
  PROVE  RecordInv'
<1>1. newest \in Nat /\ newest >= 1 /\ run.home \in Nat /\ run.home <= newest
  BY RunFields DEF TypeInv, RecordInv, Campaigns
<1>2. faults \in Nat /\ faults' \in Nat /\ faults' >= faults /\ (Fault => faults' = faults + 1)
  BY Counts, FaultTyped
<1>3. run.id = None \/ run.id \in Created
  BY DEF RecordInv
<1>4. /\ run'.id = None \/ run'.id \in Created
      /\ run'.home \in Nat /\ run'.home <= newest' /\ run'.pc # "save"
  BY <1>1, <1>3, IdleTyped
<1> QED
  BY <1>1, <1>2, <1>4, RecordFrame

LEMMA CreateKept ==
  ASSUME TypeInv, UploadInv, RecordInv, CreateRecord
  PROVE  RecordInv'
<1>0. /\ run \in RunType /\ run.home \in Campaigns /\ record \in [Records -> RecordType]
      /\ Cardinality(Saved) \in Nat /\ faults \in Nat /\ newest \in Nat /\ newest >= 1
  BY RunFields, Counts DEF TypeInv, Campaigns
<1>1. PICK n \in 0 .. MaxRecords :
        /\ Created = 1 .. n /\ Cardinality(Created) = n
        /\ Created # Records => n + 1 \in Records
  BY NextRecord
<1>2. n \in Nat /\ n + 1 \in 0 .. MaxRecords /\ n + 1 \in Records
  BY <1>1, PublicationAssumption DEF CreateRecord, Records
<1>3. record' = [record EXCEPT ![n + 1].state = "draft"]
  BY <1>1 DEF CreateRecord
<1>4. /\ record'[n + 1].state = "draft"
      /\ \A s \in Records : s # n + 1 => record'[s].state = record[s].state
  BY <1>0, <1>2, <1>3, StateSet
<1>5. Created' = 1 .. n + 1
  <2>1. Created' = Created \cup {n + 1}
    BY <1>2, <1>4 DEF Created
  <2> QED
    BY <1>1, <1>2, <2>1
<1>6. Cardinality(Created') = n + 1
  BY <1>2, <1>5, FS_Interval
<1>7. Saved' = Saved /\ newest' = newest /\ recordOf' = recordOf
  BY DEF CreateRecord, Saved, files
<1>8. run.home \notin Saved /\ run.pc # "save"
  BY DEF CreateRecord, At, Saved
<1>9. n <= Cardinality(Saved) + faults
  BY <1>0, <1>1, <1>2, <1>8 DEF RecordInv
<1>10. \A c \in Saved' : c <= newest' /\ recordOf'[c] \in Created'
  <2>1. \A c \in Saved : c <= newest /\ recordOf[c] \in 1 .. n + 1
    BY <1>1, <1>2 DEF RecordInv
  <2> QED
    BY <1>5, <1>7, <2>1
<1>11. CASE run' = [run EXCEPT !.pc = "save", !.id = n + 1] /\ faults' = faults
  <2>1. run'.pc = "save" /\ run'.id = n + 1 /\ run'.home = run.home
    BY <1>0, <1>11 DEF RunType
  <2>2. Cardinality(Created') <= Cardinality(Saved') + faults' + (IF run'.pc = "save" THEN 1 ELSE 0)
    BY <1>0, <1>2, <1>6, <1>7, <1>9, <1>11, <2>1
  <2>3. run'.id \in Created' /\ run'.home \notin Saved' /\ run'.home <= newest'
    BY <1>2, <1>5, <1>7, <1>8, <2>1 DEF RecordInv
  <2> QED
    BY <1>2, <1>5, <1>10, <2>2, <2>3 DEF RecordInv
<1>12. CASE Fault /\ Finish(FALSE)
  <2>1. run'.pc # "save" /\ run'.id = None /\ run'.home = 1 /\ faults' = faults + 1
    BY <1>12, IdleTyped, FaultTyped DEF Finish
  <2>2. Cardinality(Created') <= Cardinality(Saved') + faults' + (IF run'.pc = "save" THEN 1 ELSE 0)
    BY <1>0, <1>2, <1>6, <1>7, <1>9, <2>1
  <2> QED
    BY <1>0, <1>2, <1>5, <1>7, <1>10, <2>1, <2>2 DEF RecordInv
<1>13. /\ \/ run' = [run EXCEPT !.pc = "save", !.id = n + 1] /\ faults' = faults
          \/ Fault /\ Finish(FALSE)
  BY <1>1 DEF CreateRecord
<1> QED
  BY <1>11, <1>12, <1>13

LEMMA SaveKept ==
  ASSUME TypeInv, UploadInv, RecordInv, SaveRecord
  PROVE  RecordInv'
<1>0. /\ run \in RunType /\ run.home \in Campaigns /\ recordOf \in [Campaigns -> Records \cup {None}]
      /\ Cardinality(Saved) \in Nat /\ IsFiniteSet(Saved) /\ Cardinality(Created) \in Nat
      /\ faults \in Nat /\ newest \in Nat
  BY RunFields, Counts DEF TypeInv
<1>1. run.pc = "save" /\ run.id \in Records /\ run.home \notin Saved /\ run.home <= newest
  BY DEF SaveRecord, At, UploadInv, RecordInv
<1>2. run.id # None /\ run.id \in Created
  BY <1>1 DEF RecordInv, Records, None
<1>3. /\ run'.pc = "fetch" /\ run'.id = run.id /\ run'.home = run.home
      /\ recordOf' = [recordOf EXCEPT ![run.home] = run.id]
      /\ record' = record /\ newest' = newest /\ faults' = faults
  BY <1>0 DEF SaveRecord, RunType, files
<1>4. Saved' = Saved \cup {run.home}
  BY <1>0, <1>2, <1>3 DEF Saved
<1>5. Cardinality(Saved') = Cardinality(Saved) + 1
  BY <1>0, <1>1, <1>4, FS_AddElement
<1>6. Created' = Created
  BY <1>3 DEF Created
<1>7. \A c \in Saved' : c <= newest' /\ recordOf'[c] \in Created'
  <2>1. \A c \in Saved : c \in Campaigns /\ c <= newest /\ recordOf[c] \in Created
    BY DEF RecordInv, Saved
  <2> QED
    BY <1>0, <1>1, <1>2, <1>3, <1>4, <1>6, <2>1
<1>8. Cardinality(Created') <= Cardinality(Saved') + faults' + (IF run'.pc = "save" THEN 1 ELSE 0)
  <2>1. Cardinality(Created) <= Cardinality(Saved) + faults + 1
    BY <1>1 DEF RecordInv
  <2> QED
    BY <1>0, <1>3, <1>5, <1>6, <2>1
<1>9. \E n \in 0 .. MaxRecords : Created' = 1 .. n
  BY <1>6 DEF RecordInv
<1> QED
  BY <1>1, <1>2, <1>3, <1>6, <1>7, <1>8, <1>9 DEF RecordInv

\* The upload changes the state of no record.
LEMMA FilesState ==
  ASSUME TypeInv, UploadInv,
         ReplaceFile \/ NewFile \/ InitFile \/ SendFile \/ UploadFails \/ PushMetadata
  PROVE  \A r \in Records : record'[r].state = record[r].state
<1>0. /\ record \in [Records -> RecordType] /\ run \in RunType
      /\ (run.todo # {} => Min(run.todo) \in Archives)
  BY RunFields, TodoMin DEF TypeInv
<1>1. run.id \in Records
  BY DEF UploadInv, Uploading, ReplaceFile, NewFile, InitFile, SendFile, UploadFails,
         PushMetadata, At
<1>2. CASE record' = record
  BY <1>2
<1>3. CASE PushMetadata
  <2>1. [run.seen EXCEPT !["title"] = "vast"] \in [Fields -> Authors]
    BY <1>0, RunFields DEF Fields, Authors
  <2> QED
    BY <1>0, <1>1, <1>2, <1>3, <2>1, MetaSet DEF PushMetadata
<1>4. CASE (ReplaceFile \/ InitFile \/ SendFile) /\ record' # record
  <2>1. PICK a \in Archives : a = Min(run.todo)
    BY <1>0, <1>4 DEF ReplaceFile, InitFile, SendFile, At, UploadInv
  <2>2. Path(a) \in Archives /\ Name(a) \in Archives
    BY LayoutIs DEF TypeInv
  <2>3. /\ None \in Entries /\ Pending \in Entries /\ disk[Path(a)] \in Entries
    BY <2>2 DEF TypeInv, Entries, None, Pending, CutOff
  <2>4. \E what \in Entries : record' = [record EXCEPT ![run.id].files[Name(a)] = what]
    BY <1>4, <2>1, <2>3 DEF ReplaceFile, InitFile, SendFile
  <2> QED
    BY <1>0, <1>1, <2>2, <2>4, FileSet
<1> QED
  BY <1>2, <1>3, <1>4 DEF NewFile, UploadFails

LEMMA RecordKept ==
  ASSUME TypeInv, UploadInv, RecordInv, TypeInv', Next
  PROVE  RecordInv'
<1>0. /\ run \in RunType /\ record \in [Records -> RecordType]
      /\ newest \in Campaigns /\ newest \in Nat /\ run.home \in Nat
      /\ faults \in Nat /\ newest' \in Nat
  <2>1. /\ run \in RunType /\ record \in [Records -> RecordType]
        /\ newest \in Campaigns /\ newest' \in Campaigns
    BY DEF TypeInv
  <2>2. run.home \in Campaigns
    BY <2>1, RunFields
  <2>3. \A c \in Campaigns : c \in Nat
    BY DEF Campaigns
  <2> QED
    BY <2>1, <2>2, <2>3, Counts
<1>1. CASE Publish
  <2>1. /\ run'.pc = "process" /\ run'.id = None /\ run'.home = 1 /\ run.pc = "idle"
    BY <1>1, IdleTyped DEF Publish, At, RunType
  <2>2. newest' = newest /\ faults' = faults /\ recordOf' = recordOf /\ Created' = Created
    BY <1>1 DEF Publish, files, Created
  <2> QED
    BY <1>0, <2>1, <2>2, RecordFrame DEF Campaigns
<1>2. CASE Process
  <2>1. newest' = newest /\ recordOf' = recordOf /\ Created' = Created /\ run.pc = "process"
    BY <1>2 DEF Process, At, Created
  <2>2. CASE run' = [run EXCEPT !.pc = "plan", !.home = newest] /\ faults' = faults
    <3>1. run'.pc = "plan" /\ run'.id = run.id /\ run'.home = newest
      BY <1>0, <2>2 DEF RunType
    <3>2. run'.id = None \/ run'.id \in Created
      BY <3>1 DEF RecordInv
    <3> QED
      BY <1>0, <2>1, <2>2, <3>1, <3>2, RecordFrame
  <2>3. CASE Fault /\ run' = Idle
    BY <2>1, <2>3, RecordGoesOn
  <2> QED
    BY <1>2, <2>2, <2>3 DEF Process, Finish
<1>3. CASE PlanZip \/ SkipZip \/ OpenZip \/ FillZip \/ ZipReturns \/ ZipFails
  <2>1. /\ newest' = newest /\ recordOf' = recordOf /\ Created' = Created /\ run.pc # "save"
        /\ faults' = faults \/ Fault
    BY <1>3 DEF PlanZip, SkipZip, OpenZip, FillZip, ZipReturns, ZipFails, At, files, Created
  <2>2. run'.id = run.id /\ run'.home = run.home /\ run'.pc # "save"
    <3>1. CASE PlanZip
      BY <1>0, <3>1 DEF PlanZip, RunType
    <3>2. CASE OpenZip
      BY <1>0, <3>2 DEF OpenZip, At, RunType
    <3>3. CASE FillZip
      BY <1>0, <3>3 DEF FillZip, RunType
    <3>4. CASE SkipZip \/ ZipReturns \/ ZipFails
      BY <1>0, <3>4 DEF SkipZip, ZipReturns, ZipFails, NextPlugin, RunType
    <3> QED
      BY <1>3, <3>1, <3>2, <3>3, <3>4
  <2> QED
    BY <2>1, <2>2, RecordGoesOn
<1>4. CASE CreateRecord
  BY <1>4, CreateKept
<1>5. CASE SaveRecord
  BY <1>5, SaveKept
<1>6. CASE UseSavedRecord
  <2>1. run.home \in Saved /\ recordOf[run.home] \in Created
    BY <1>0, <1>6, RunFields DEF UseSavedRecord, Saved, RecordInv
  <2>2. /\ run'.pc = "fetch" /\ run'.id = recordOf[run.home] /\ run'.home = run.home
        /\ run.pc # "save"
    BY <1>0, <1>6 DEF UseSavedRecord, At, RunType
  <2>3. newest' = newest /\ faults' = faults /\ recordOf' = recordOf /\ Created' = Created
    BY <1>6 DEF UseSavedRecord, files, Created
  <2>4. run.home <= newest
    BY DEF RecordInv
  <2> QED
    BY <1>0, <2>1, <2>2, <2>3, <2>4, RecordFrame
<1>7. CASE NoUpload \/ FetchDraft \/ ListFiles \/ PluginFails
  <2>1. /\ newest' = newest /\ recordOf' = recordOf /\ Created' = Created
        /\ (faults' = faults \/ Fault) /\ (run.pc = "save" => Fault)
    BY <1>7 DEF NoUpload, FetchDraft, ListFiles, PluginFails, At, files, Created
  <2>2. run' = Idle \/ (run'.id = run.id /\ run'.home = run.home /\ run'.pc # "save")
    BY <1>0, <1>7 DEF NoUpload, FetchDraft, ListFiles, PluginFails, Finish, RunType
  <2> QED
    BY <2>1, <2>2, RecordGoesOn
<1>8. CASE ReplaceFile \/ NewFile \/ InitFile \/ SendFile \/ UploadFails \/ PushMetadata
  <2>1. \A r \in Records : record'[r].state = record[r].state
    BY <1>8, FilesState
  <2>2. Created' = Created
    BY <2>1, CreatedSame
  <2>3. /\ newest' = newest /\ recordOf' = recordOf /\ (faults' = faults \/ Fault) /\ run.pc # "save"
    BY <1>8 DEF ReplaceFile, NewFile, InitFile, SendFile, UploadFails, PushMetadata, At, files
  <2>4. run' = Idle \/ (run'.id = run.id /\ run'.home = run.home /\ run'.pc # "save")
    BY <1>0, <1>8 DEF ReplaceFile, NewFile, InitFile, SendFile, UploadFails, PushMetadata, At,
                      GiveUpFile, Finish, RunType
  <2>5. run.pc = "save" => Fault
    BY <2>3
  <2> QED
    BY <2>2, <2>3, <2>4, <2>5, RecordGoesOn
<1>9. CASE Kill \/ NewCampaign \/ \E r \in Records : EditInBrowser(r) \/ PublishInBrowser(r)
  <2>1. recordOf' = recordOf /\ Created' = Created
    BY <1>9, AroundTyped, CreatedSame
  <2>2. CASE Kill
    BY <2>1, <2>2, RecordGoesOn DEF Kill, files
  <2>3. CASE ~Kill
    <3>1. run' = run /\ faults' = faults /\ newest' >= newest
      BY <1>0, <1>9, <2>3 DEF NewCampaign, EditInBrowser, PublishInBrowser, files
    <3>2. run.home <= newest'
      BY <1>0, <3>1 DEF RecordInv
    <3>3. run.id = None \/ run.id \in Created
      BY DEF RecordInv
    <3> QED
      BY <1>0, <2>1, <3>1, <3>2, <3>3, RecordFrame
  <2> QED
    BY <2>2, <2>3
<1> QED
  BY <1>1, <1>2, <1>3, <1>4, <1>5, <1>6, <1>7, <1>8, <1>9 DEF Next

-----------------------------------------------------------------------------
(* The invariant.                                                          *)

LEMMA InitGood ==
  ASSUME Init
  PROVE  PublicationInv
<1>0. 1 \in Campaigns /\ MaxRecords \in Nat
  BY PublicationAssumption DEF Campaigns
<1>1. TypeInv
  <2>1. /\ content \in [Campaigns -> 1 .. 2] /\ disk \in [Archives -> 0 .. CutOff]
        /\ recordOf \in [Campaigns -> Records \cup {None}]
    BY DEF Init, None, CutOff
  <2>2. record \in [Records -> RecordType]
    BY IdleTyped DEF Init
  <2>3. faults \in 0 .. MaxFaults /\ edits \in 0 .. MaxEdits /\ runs \in 0 .. MaxRuns
    <3>1. MaxFaults \in Nat /\ MaxEdits \in Nat /\ MaxRuns \in Nat
      BY PublicationAssumption
    <3> QED
      BY <3>1 DEF Init
  <2> QED
    BY <1>0, <2>1, <2>2, <2>3, IdleTyped DEF Init, TypeInv
<1>2. ZipInv /\ UploadInv
  BY IdleTyped DEF Init, ZipInv, UploadInv, Zipping, Uploading
<1>3. UploadedAreWhole
  BY IdleTyped DEF Init, UploadedAreWhole, None, CutOff
<1>4. Created = {} /\ Saved = {} /\ run.id = None /\ run.pc = "idle" /\ run.home = 1
  BY IdleTyped DEF Init, Created, Saved
<1>5. Created = 1 .. 0 /\ 0 \in 0 .. MaxRecords
  BY <1>0, <1>4
<1>6. Cardinality(Created) = 0 /\ Cardinality(Saved) = 0
  BY <1>4, FS_EmptySet
<1>7. RecordInv
  BY <1>4, <1>5, <1>6 DEF RecordInv, Init
<1> QED
  BY <1>1, <1>2, <1>3, <1>7 DEF PublicationInv

LEMMA StepGood ==
  ASSUME PublicationInv, [Next]_vars
  PROVE  PublicationInv'
<1> USE DEF PublicationInv
<1>1. CASE UNCHANGED vars
  <2>1. /\ run' = run /\ disk' = disk /\ record' = record /\ recordOf' = recordOf
        /\ newest' = newest /\ faults' = faults /\ layout' = layout
    BY <1>1 DEF vars
  <2>2. TypeInv'
    BY <1>1 DEF vars, TypeInv
  <2>3. ZipInv' /\ UploadedAreWhole' /\ UploadInv'
    BY <2>1, ZipFrame, FilesFrame
  <2>4. RecordInv'
    BY <2>1 DEF RecordInv, Created, Saved
  <2> QED
    BY <2>2, <2>3, <2>4
<1>2. CASE Next
  <2>1. TypeInv'
    BY <1>2, PublishTyped, ZipTyped, RecordTyped, FilesTyped, AroundTyped DEF Next
  <2>2. UploadedAreWhole' /\ UploadInv'
    <3>1. CASE Publish \/ Process
      <4>1. run' = Idle \/ run'.pc \in {"process", "plan"}
        BY <3>1, IdleTyped DEF Publish, Process, Finish, RunType, TypeInv
      <4>2. record' = record /\ layout' = layout
        BY <3>1 DEF Publish, Process, files
      <4> QED
        BY <4>1, <4>2, IdleGood, FilesFrame DEF UploadInv, Uploading
    <3>2. CASE PlanZip \/ SkipZip \/ OpenZip \/ FillZip \/ ZipReturns \/ ZipFails
      <4>1. run'.pc \in {"zip", "fill", "plan", "upload"}
        BY <3>2 DEF PlanZip, SkipZip, OpenZip, FillZip, ZipReturns, ZipFails, At, NextPlugin, TypeInv, RunType
      <4>2. record' = record /\ layout' = layout
        BY <3>2 DEF PlanZip, SkipZip, OpenZip, FillZip, ZipReturns, ZipFails, files
      <4> QED
        BY <4>1, <4>2, FilesFrame DEF UploadInv, Uploading
    <3>3. CASE Kill \/ NewCampaign \/ \E r \in Records : EditInBrowser(r) \/ PublishInBrowser(r)
      <4>1. \A r \in Records : record'[r].files = record[r].files
        BY <3>3, AroundTyped
      <4>2. disk' = disk /\ layout' = layout
        BY <3>3, AroundTyped
      <4>3. run' = Idle \/ run' = run
        BY <3>3 DEF Kill, NewCampaign, EditInBrowser, PublishInBrowser
      <4> QED
        BY <4>1, <4>2, <4>3, FilesFrame, IdleGood
    <3> QED
      BY <1>2, <3>1, <3>2, <3>3, RecordSteps, FilesSteps DEF Next
  <2>3. RecordInv'
    BY <1>2, <2>1, RecordKept
  <2> QED
    BY <1>2, <2>1, <2>2, <2>3, ZipKept
<1> QED
  BY <1>1, <1>2

(* The state of the archives, of the upload and of the records, whatever   *)
(* the plugins, campaigns, calls, faults and edits.                        *)
THEOREM PublicationInvariant == Spec => []PublicationInv
<1>1. Init => PublicationInv
  BY InitGood
<1>2. PublicationInv /\ [Next]_vars => PublicationInv'
  BY StepGood
<1> QED
  BY <1>1, <1>2, PTL DEF Spec

(* Every variable stays in its range, and a plugin passes on only archives  *)
(* it and those before it can have made.                                   *)
THEOREM PublicationTypeCorrect == Spec => []PublicationTypeOK
<1>1. ASSUME PublicationInv
      PROVE  PublicationTypeOK
  <2>1. /\ run \in RunType /\ record \in [Records -> RecordType]
    BY <1>1 DEF PublicationInv, TypeInv
  <2>2. \A r \in Records : /\ record[r].state \in {"none", "draft", "published"}
                            /\ record[r].files \in [Archives -> 0 .. Pending]
                            /\ record[r].meta \in [Fields -> Authors]
    BY <2>1 DEF RecordType, Entries
  <2>3. run.todo \cup run.made \cup run.artifacts \cup run.existing \cup run.kept \subseteq Archives
    BY <2>1, RunFields
  <2>4. /\ run.zip \in 1 .. NZips + 1
        /\ \A a \in run.artifacts : a <= (run.zip - 1) * MaxCampaigns
        /\ run.id # None => record[run.id].state # "none"
    BY <1>1, <2>1, RunFields DEF PublicationInv, ZipInv, RecordInv, Created
  <2>5. /\ layout \in Layouts
        /\ newest \in Campaigns /\ content \in [Campaigns -> 1 .. 2]
        /\ disk \in [Archives -> 0 .. CutOff]
        /\ recordOf \in [Campaigns -> Records \cup {None}]
        /\ result \in {"none", "ok", "failed"}
        /\ faults \in 0 .. MaxFaults /\ edits \in 0 .. MaxEdits /\ runs \in 0 .. MaxRuns
    BY <1>1 DEF PublicationInv, TypeInv
  <2>6. unasked \in BOOLEAN
    BY <1>1, Zenon DEF PublicationInv, TypeInv
  <2> QED
    BY <2>2, <2>3, <2>4, <2>5, <2>6, Zenon DEF PublicationTypeOK
<1> QED
  BY <1>1, PublicationInvariant, PTL

(* No archive that was not written to its end reaches a record, unless two  *)
(* entries write the same file: what a zip plugin leaves behind when it      *)
(* fails or is killed is never uploaded by a later plugin or call.           *)
THEOREM PublicationUploadedAreWhole == Spec => []UploadedAreWhole
BY PublicationInvariant, PTL DEF PublicationInv

(* A command about to report success has put every archive it made into    *)
(* the record as it is on disk, but for those that a later one of the same  *)
(* name has replaced, and has left a file under the name of each that the   *)
(* user, or overwrite: false, did not let through.                         *)
THEOREM PublicationDelivered == Spec => []Delivered
<1>1. ASSUME PublicationInv
      PROVE  Delivered
  <2>1. SUFFICES ASSUME run.pc = "next", run.todo = {}, run.ok, NEW a \in run.artifacts
                 PROVE  LET there == record[run.id].files[Name(a)]
                        IN  IF a \in run.kept THEN there # None
                            ELSE \/ there = disk[Path(a)]
                                 \/ \E b \in run.artifacts \ run.kept : b > a /\ Name(b) = Name(a)
    BY DEF Delivered, At
  <2>2. CASE a \in run.kept
    BY <1>1, <2>1, <2>2 DEF PublicationInv, UploadInv, Uploading, StillThere
  <2>3. CASE a \notin run.kept
    <3>1. There(a) /\ Passed = run.artifacts \ run.kept
      BY <1>1, <2>1, <2>3 DEF PublicationInv, UploadInv, Uploading, Passed
    <3> QED
      BY <2>3, <3>1 DEF There
  <2> QED
    BY <2>2, <2>3
<1> QED
  BY <1>1, PublicationInvariant, PTL

(* However often the command is called and wherever it fails, there is one  *)
(* record for each campaign whose .vast file was used and one more for each *)
(* fault.                                                                   *)
THEOREM PublicationOneRecord == Spec => []OneRecord
<1>1. ASSUME PublicationInv
      PROVE  OneRecord
  <2>1. /\ IsFiniteSet(Saved) /\ Cardinality(Saved) \in Nat /\ Cardinality(Created) \in Nat
        /\ faults \in Nat /\ newest \in Nat
    BY <1>1, Counts DEF PublicationInv
  <2>2. IsFiniteSet(1 .. newest) /\ Cardinality(1 .. newest) = newest
    <3>1. newest \in Nat
      BY <2>1
    <3> QED
      BY <3>1, FS_Interval
  <2>3. /\ Saved \subseteq 1 .. newest /\ run.home \in 1 .. newest
        /\ run.pc = "save" => run.home \notin Saved
    <3>1. run.home \in Campaigns
      BY <1>1, RunFields DEF PublicationInv, TypeInv
    <3> QED
      BY <1>1, <2>1, <3>1 DEF PublicationInv, RecordInv, Saved, Campaigns
  <2>4. Cardinality(Saved) <= newest
    BY <2>2, <2>3, FS_Subset
  <2>5. run.pc = "save" => Cardinality(Saved) + 1 <= newest
    <3>1. Saved \cup {run.home} \subseteq 1 .. newest
      BY <2>3
    <3>2. Cardinality(Saved \cup {run.home}) <= newest
      BY <2>2, <3>1, FS_Subset
    <3>3. ASSUME run.home \notin Saved
          PROVE  Cardinality(Saved \cup {run.home}) = Cardinality(Saved) + 1
      BY <2>1, <3>3, FS_AddElement
    <3> QED
      BY <2>3, <3>2, <3>3
  <2>6. Cardinality(Created) <= Cardinality(Saved) + faults + (IF run.pc = "save" THEN 1 ELSE 0)
    BY <1>1 DEF PublicationInv, RecordInv
  <2> QED
    BY <2>1, <2>4, <2>5, <2>6 DEF OneRecord
<1> QED
  BY <1>1, PublicationInvariant, PTL
=============================================================================
