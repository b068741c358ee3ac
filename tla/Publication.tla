----------------------------- MODULE Publication -----------------------------
(***************************************************************************)
(* `vast results publish': post-processing, then the publication plugins   *)
(* of the .vast file in order (run_publication): zip plugins that pack     *)
(* every campaign into an archive, then the zenodo plugin that uploads     *)
(* what they made to a draft record and pushes the metadata of the .vast   *)
(* file.  The command is run as often as the user likes; requests and      *)
(* writes fail, the command is killed, new campaigns arrive, and the user  *)
(* works on the draft in the browser meanwhile.                            *)
(***************************************************************************)
EXTENDS Naturals, FiniteSets, FiniteSetsExt

CONSTANTS
  NZips,         \* zip entries before the zenodo entry
  Layouts,       \* where the entries may put the archives, and under which names
  Policies,      \* `overwrite' of an entry: unset ("ask"), true or false
  MaxCampaigns,  \* bound: campaigns in the results directory
  MaxRecords,    \* bound: records created on the server
  MaxFaults,     \* bound: requests and writes that fail, commands that are killed
  MaxEdits,      \* bound: edits of a draft in the browser
  MaxRuns        \* bound: times the command is called

ASSUME PublicationAssumption ==
  /\ {NZips, MaxCampaigns, MaxRecords} \subseteq Nat \ {0}
  /\ {MaxFaults, MaxEdits, MaxRuns} \subseteq Nat
  /\ "ask" \in Policies /\ Policies \subseteq {"ask", "always", "never"}

Campaigns == 1 .. MaxCampaigns
Archives  == 1 .. NZips * MaxCampaigns
Records   == 1 .. MaxRecords
Archive(zip, c)   == (zip - 1) * MaxCampaigns + c
CampaignOf(a)     == ((a - 1) % MaxCampaigns) + 1

(* A file, and a name, go by the first archive that has them.  A template   *)
(* that gives several campaigns one name packs them into one archive, which *)
(* stands for a single campaign here.                                       *)
ASSUME LayoutAssumption ==
  Layouts # {} /\ Layouts \subseteq [path : [Archives -> Archives], name : [Archives -> Archives]]

VARIABLES
  layout,     \* that of the .vast file
  newest,     \* campaigns 1 .. newest are in the results directory
  content,    \* what a campaign directory holds: 1 raw, 2 post-processed
  disk,       \* the archives, by path
  recordOf,   \* the record id saved next to the .vast file of a campaign
  record,     \* the records on the server, their files by name
  run,        \* the command
  result,     \* what the last command reported: "none", "ok" or "failed"
  faults, edits, runs,
  unasked     \* a value of the user was overwritten without a question (history)

vars == <<layout, newest, content, disk, recordOf, record, run, result, faults, edits, runs, unasked>>
files == <<layout, newest, content, disk>>
bounds == <<edits, runs>>

Path(a) == layout.path[a]   \* two entries may write the same file
Name(a) == layout.name[a]   \* its last component, the key in the record

None    == 0
CutOff  == 3   \* an archive that was not written to its end
Pending == 4   \* a file entry of a record without its content

Fields == {"title", "other"}    \* the .vast file has a title, and nothing else
Authors == {"nobody", "vast", "user"}

NoRecord == [state |-> "none", files |-> [a \in Archives |-> None],
             meta |-> [f \in Fields |-> "nobody"]]

(* only: the campaign --campaign names, or None; home: the one whose .vast   *)
(* file is used; policy: the `overwrite' of the entry that runs; todo:      *)
(* archives to pack or to upload; made: by this plugin; artifacts: by those *)
(* before; existing, seen: files and metadata of the record when it was     *)
(* asked; kept: files that the user, or overwrite: false, left as they were. *)
Idle == [pc |-> "idle", only |-> None, home |-> 1, force |-> FALSE, upload |-> FALSE,
         zip |-> 1, policy |-> "ask", todo |-> {}, made |-> {},
         artifacts |-> {}, id |-> None, existing |-> {}, seen |-> NoRecord.meta,
         kept |-> {}, ok |-> TRUE]

Init ==
  /\ layout \in Layouts
  /\ newest = 1
  /\ content = [c \in Campaigns |-> 1]
  /\ disk = [a \in Archives |-> None]
  /\ recordOf = [c \in Campaigns |-> None]
  /\ record = [r \in Records |-> NoRecord]
  /\ run = Idle /\ result = "none"
  /\ faults = 0 /\ edits = 0 /\ runs = 0
  /\ unasked = FALSE

At(step) == run.pc = step
Fault == faults < MaxFaults /\ faults' = faults + 1
Draft(r) == record[r].state = "draft"

(* --force is a default for a plugin that says nothing itself.              *)
Policy(policy) == IF policy = "ask" /\ run.force THEN "always" ELSE policy
Agreed(policy) == CASE Policy(policy) = "always" -> {TRUE}
                    [] Policy(policy) = "never"  -> {FALSE}
                    [] OTHER                     -> BOOLEAN

-----------------------------------------------------------------------------
(* The command and its post-processing.                                    *)

Publish ==
  /\ At("idle") /\ runs < MaxRuns
  /\ runs' = runs + 1
  /\ \E force, upload \in BOOLEAN, only \in {None} \cup 1 .. newest :
       run' = [Idle EXCEPT !.pc = "process", !.force = force, !.upload = upload,
                           !.only = only]
  /\ result' = "none"
  /\ UNCHANGED <<files, recordOf, record, faults, edits, unasked>>

(* The result of the command when its last plugin has returned.             *)
Finish(ok) == /\ run' = Idle
              /\ result' = IF ok THEN "ok" ELSE "failed"

(* Whether a post-processing that failed has changed the directories       *)
(* depends on the step it failed in.  The .vast file is the one of the      *)
(* newest campaign.                                                         *)
Process ==
  /\ At("process")
  /\ \/ content' = [c \in Campaigns |-> IF c <= newest THEN 2 ELSE 1]
     \/ UNCHANGED content   \* --skip-postprocessing, for one
  /\ \/ /\ run' = [run EXCEPT !.pc = "plan", !.home = newest]
        /\ UNCHANGED <<result, faults>>
     \/ Fault /\ Finish(FALSE)
  /\ UNCHANGED <<layout, newest, disk, recordOf, record, edits, runs, unasked>>

-----------------------------------------------------------------------------
(* The zip plugin.                                                         *)

(* What a plugin made counts for the plugins after it if it succeeded.      *)
NextPlugin(ok, made) ==
  run' = [run EXCEPT !.pc = IF run.zip < NZips THEN "plan" ELSE "upload",
                     !.zip = @ + 1, !.policy = "ask", !.todo = {}, !.made = {},
                     !.artifacts = @ \cup made, !.ok = @ /\ ok]

(* All campaigns, or the one that --campaign names.                         *)
Chosen == {c \in 1 .. newest : run.only \in {None, c}}

PlanZip ==
  /\ At("plan")
  /\ \E policy \in Policies :
       run' = [run EXCEPT !.pc = "zip", !.policy = policy,
                          !.todo = {Archive(run.zip, c) : c \in Chosen}]
  /\ UNCHANGED <<files, recordOf, record, result, faults, bounds, unasked>>

(* The user does not want the plugin to run.                                *)
SkipZip ==
  /\ At("plan") /\ ~run.force
  /\ NextPlugin(TRUE, {})
  /\ UNCHANGED <<files, recordOf, record, result, faults, bounds, unasked>>

OpenZip ==
  /\ At("zip") /\ run.todo # {}
  /\ LET a == Min(run.todo)
     IN  \E overwrite \in IF disk[Path(a)] = None THEN {TRUE} ELSE Agreed(run.policy) :
           IF overwrite
           THEN /\ disk' = [disk EXCEPT ![Path(a)] = CutOff]
                /\ run' = [run EXCEPT !.pc = "fill"]
           ELSE /\ run' = [run EXCEPT !.todo = @ \ {a}]
                /\ UNCHANGED disk
  /\ UNCHANGED <<layout, newest, content, recordOf, record, result, faults, bounds, unasked>>

FillZip ==
  /\ At("fill")
  /\ LET a == Min(run.todo)
     IN  /\ disk' = [disk EXCEPT ![Path(a)] = content[CampaignOf(a)]]
         /\ run' = [run EXCEPT !.pc = "zip", !.todo = @ \ {a}, !.made = @ \cup {a}]
  /\ UNCHANGED <<layout, newest, content, recordOf, record, result, faults, bounds, unasked>>

ZipReturns ==
  /\ At("zip") /\ run.todo = {}
  /\ NextPlugin(TRUE, run.made)
  /\ UNCHANGED <<files, recordOf, record, result, faults, bounds, unasked>>

\* Mutant: the archive that failed counts as made.
ZipFailsKeepingAll ==
  /\ run.pc \in {"zip", "fill"} /\ run.todo # {}
  /\ Fault
  /\ NextPlugin(FALSE, run.made \cup {Min(run.todo)})
  /\ UNCHANGED <<files, recordOf, record, result, bounds, unasked>>

(* A link that leads out of the archive, before it is opened; a write that  *)
(* fails, after.  Either way nothing the plugin made is passed on.          *)
ZipFails ==
  /\ run.pc \in {"zip", "fill"} /\ run.todo # {}
  /\ Fault
  /\ NextPlugin(FALSE, {})
  /\ UNCHANGED <<files, recordOf, record, result, bounds, unasked>>

-----------------------------------------------------------------------------
(* The zenodo plugin.                                                      *)

(* Nothing to do: --skip-upload, the user does not want the plugin to run   *)
(* or a record to be created, nothing was made.                             *)
NoUpload ==
  /\ At("upload")
  /\ ~run.upload \/ ~run.force \/ run.artifacts = {} \/ recordOf[run.home] = None
  /\ Finish(run.ok)
  /\ UNCHANGED <<files, recordOf, record, faults, bounds, unasked>>

UseSavedRecord ==
  /\ At("upload") /\ run.upload /\ run.artifacts # {}
  /\ recordOf[run.home] # None
  /\ run' = [run EXCEPT !.pc = "fetch", !.id = recordOf[run.home]]
  /\ UNCHANGED <<files, recordOf, record, result, faults, bounds, unasked>>

Created == {r \in Records : record[r].state # "none"}

CreateRecord ==
  /\ At("upload") /\ run.upload /\ run.artifacts # {}
  /\ recordOf[run.home] = None
  /\ Created # Records
  /\ LET r == Cardinality(Created) + 1
     IN  /\ record' = [record EXCEPT ![r].state = "draft"]
         /\ \/ /\ run' = [run EXCEPT !.pc = "save", !.id = r]
               /\ UNCHANGED <<result, faults>>
            \/ Fault /\ Finish(FALSE)   \* the answer is lost
  /\ UNCHANGED <<files, recordOf, bounds, unasked>>

SaveRecord ==
  /\ At("save")
  /\ recordOf' = [recordOf EXCEPT ![run.home] = run.id]
  /\ run' = [run EXCEPT !.pc = "fetch"]
  /\ UNCHANGED <<files, record, result, faults, bounds, unasked>>

FetchDraft ==
  /\ At("fetch")
  /\ IF Draft(run.id)
     THEN /\ run' = [run EXCEPT !.pc = "list", !.seen = record[run.id].meta]
          /\ UNCHANGED result
     ELSE Finish(FALSE)
  /\ UNCHANGED <<files, recordOf, record, faults, bounds, unasked>>

ListFiles ==
  /\ At("list")
  /\ IF Draft(run.id)
     THEN /\ \E policy \in Policies :
               run' = [run EXCEPT !.pc = "next", !.policy = policy, !.todo = run.artifacts, !.kept = {},
                                  !.existing = {n \in Archives : record[run.id].files[n] # None}]
          /\ UNCHANGED result
     ELSE Finish(FALSE)
  /\ UNCHANGED <<files, recordOf, record, faults, bounds, unasked>>

(* A file the record has is deleted first, if it may be overwritten.        *)
ReplaceFile ==
  /\ At("next") /\ run.todo # {} /\ Name(Min(run.todo)) \in run.existing
  /\ LET a == Min(run.todo)
     IN  /\ \E overwrite \in Agreed(run.policy) :
              IF overwrite
              THEN /\ run' = [run EXCEPT !.pc = "init"]
                   /\ record' = IF Draft(run.id)
                                THEN [record EXCEPT ![run.id].files[Name(a)] = None] ELSE record
              ELSE /\ run' = [run EXCEPT !.todo = @ \ {a}, !.kept = @ \cup {a}]
                   /\ UNCHANGED record
  /\ UNCHANGED <<files, recordOf, result, faults, bounds, unasked>>

NewFile ==
  /\ At("next") /\ run.todo # {} /\ Name(Min(run.todo)) \notin run.existing
  /\ run' = [run EXCEPT !.pc = "init"]
  /\ UNCHANGED <<files, recordOf, record, result, faults, bounds, unasked>>

\* Mutant: the failure is not noted.
ForgetFile == run' = [run EXCEPT !.pc = "next", !.todo = @ \ {Min(@)}]

(* An upload that fails is noted, and the next file is tried.               *)
GiveUpFile == run' = [run EXCEPT !.pc = "next", !.todo = @ \ {Min(@)}, !.ok = FALSE]

InitFile ==
  /\ At("init")
  /\ LET a == Min(run.todo)
     IN  IF Draft(run.id) /\ record[run.id].files[Name(a)] = None
         THEN /\ record' = [record EXCEPT ![run.id].files[Name(a)] = Pending]
              /\ run' = [run EXCEPT !.pc = "send"]
         ELSE GiveUpFile /\ UNCHANGED record
  /\ UNCHANGED <<files, recordOf, result, faults, bounds, unasked>>

SendFile ==
  /\ At("send")
  /\ LET a == Min(run.todo)
     IN  IF Draft(run.id)
         THEN /\ record' = [record EXCEPT ![run.id].files[Name(a)] = disk[Path(a)]]
              /\ run' = [run EXCEPT !.pc = "next", !.todo = @ \ {a}]
         ELSE GiveUpFile /\ UNCHANGED record
  /\ UNCHANGED <<files, recordOf, result, faults, bounds, unasked>>

UploadFails ==
  /\ run.pc \in {"init", "send"}
  /\ Fault
  /\ GiveUpFile
  /\ UNCHANGED <<files, recordOf, record, result, bounds, unasked>>

(* A request that fails before the uploads, or a deletion the connection    *)
(* breaks off, ends the plugin.                                             *)
PluginFails ==
  /\ \/ run.pc \in {"upload", "save", "fetch", "list"} /\ run.upload
     \/ At("next") /\ run.todo # {} /\ Name(Min(run.todo)) \in run.existing
  /\ Fault
  /\ Finish(FALSE)
  /\ UNCHANGED <<files, recordOf, record, bounds, unasked>>

(* An empty field is set; one that differs is set if the user agrees.       *)
Confirmed(remote) == CASE remote = "nobody" -> {TRUE}
                       [] remote = "vast"   -> {FALSE}
                       [] OTHER             -> Agreed(run.policy)

(* The metadata are compared with what the record had when it was fetched,  *)
(* and put as a whole; that this fails is only a part of the message.       *)
PushMetadata ==
  /\ At("next") /\ run.todo = {}
  /\ \/ /\ Draft(run.id)
        /\ TRUE \in Confirmed(run.seen["title"])
        /\ record' = [record EXCEPT ![run.id].meta = [run.seen EXCEPT !["title"] = "vast"]]
        /\ unasked' = \/ unasked
                       \/ /\ Policy(run.policy) # "always"
                          /\ \E f \in Fields :
                               record[run.id].meta[f] = "user" /\ run.seen[f] # "user"
     \/ UNCHANGED <<record, unasked>>
  /\ Finish(run.ok)
  /\ UNCHANGED <<files, recordOf, faults, bounds>>

-----------------------------------------------------------------------------
(* Around the command.                                                     *)

Kill ==
  /\ ~At("idle") /\ Fault
  /\ run' = Idle
  /\ UNCHANGED <<files, recordOf, record, result, bounds, unasked>>

NewCampaign ==
  /\ newest < MaxCampaigns
  /\ newest' = newest + 1
  /\ UNCHANGED <<layout, content, disk, recordOf, record, run, result, faults, bounds, unasked>>

EditInBrowser(r) ==
  /\ Draft(r) /\ edits < MaxEdits
  /\ \E f \in Fields : record' = [record EXCEPT ![r].meta[f] = "user"]
  /\ edits' = edits + 1
  /\ UNCHANGED <<files, recordOf, run, result, faults, runs, unasked>>

PublishInBrowser(r) ==
  /\ Draft(r)
  /\ \A a \in Archives : record[r].files[a] # Pending
  /\ \E a \in Archives : record[r].files[a] # None
  /\ record' = [record EXCEPT ![r].state = "published"]
  /\ UNCHANGED <<files, recordOf, run, result, faults, bounds, unasked>>

Next ==
  \/ Publish \/ Process
  \/ PlanZip \/ SkipZip \/ OpenZip \/ FillZip \/ ZipReturns \/ ZipFails
  \/ NoUpload \/ UseSavedRecord \/ CreateRecord \/ SaveRecord \/ FetchDraft \/ ListFiles
  \/ ReplaceFile \/ NewFile \/ InitFile \/ SendFile \/ UploadFails \/ PluginFails \/ PushMetadata
  \/ Kill \/ NewCampaign
  \/ \E r \in Records : EditInBrowser(r) \/ PublishInBrowser(r)

Spec == Init /\ [][Next]_vars

-----------------------------------------------------------------------------
(* Properties.                                                             *)

(* The range of every variable; the archives of a plugin that is not done   *)
(* are not among the artifacts.                                             *)
PublicationTypeOK ==
  /\ layout \in Layouts
  /\ newest \in Campaigns /\ content \in [Campaigns -> 1 .. 2]
  /\ disk \in [Archives -> 0 .. CutOff]
  /\ recordOf \in [Campaigns -> Records \cup {None}]
  /\ \A r \in Records : /\ record[r].state \in {"none", "draft", "published"}
                        /\ record[r].files \in [Archives -> 0 .. Pending]
                        /\ record[r].meta \in [Fields -> Authors]
  /\ run.todo \cup run.made \cup run.artifacts \cup run.existing \cup run.kept \subseteq Archives
  /\ run.zip \in 1 .. NZips + 1
  /\ \A a \in run.artifacts : a <= (run.zip - 1) * MaxCampaigns
  /\ run.id # None => record[run.id].state # "none"
  /\ result \in {"none", "ok", "failed"} /\ unasked \in BOOLEAN
  /\ faults \in 0 .. MaxFaults /\ edits \in 0 .. MaxEdits /\ runs \in 0 .. MaxRuns

(* Two entries write this archive: the same destination and file name.     *)
Shared(a) == \E b \in Archives : b # a /\ Path(b) = Path(a)

(* An archive that was not written to its end, by this command or by one    *)
(* that was killed earlier, never reaches a record, unless two entries      *)
(* write the same file: the second may fail over what the first has made.   *)
UploadedAreWhole ==
  \A r \in Records, n \in Archives :
    record[r].files[n] = CutOff => \E a \in Archives : Name(a) = n /\ Shared(a)

(* A command that is about to report success has put every archive it made  *)
(* into the record as it is on disk, and has lost none that was there: a    *)
(* file whose deletion was followed by a failed upload makes it fail.  Of    *)
(* several archives of one name the last that the user let through is there. *)
Delivered ==
  At("next") /\ run.todo = {} /\ run.ok =>
    \A a \in run.artifacts :
      LET there == record[run.id].files[Name(a)]
      IN  IF a \in run.kept THEN there # None
          ELSE \/ there = disk[Path(a)]
               \/ \E b \in run.artifacts \ run.kept : b > a /\ Name(b) = Name(a)

(* Calling the command again, in whatever state the last one left, does not *)
(* start another record: there is one for each campaign whose .vast file    *)
(* was used, and one more for each id that a fault lost.                    *)
OneRecord == Cardinality(Created) <= newest + faults

-----------------------------------------------------------------------------
(* What the words say and the code does not do: TLC finds these violated.  *)

(* What the user has entered on Zenodo is not overwritten without asking.   *)
AskedBeforeOverwriting == ~unasked

(* "Upload artifact files to a Zenodo deposition" (zenodo.py:513): of two    *)
(* archives of one name, made in two directories, the second replaces the   *)
(* first, and the command reports success.                                  *)
AllUploaded ==
  At("next") /\ run.todo = {} /\ run.ok =>
    \A a, b \in run.artifacts \ run.kept : Name(a) = Name(b) => Path(a) = Path(b)
=============================================================================
