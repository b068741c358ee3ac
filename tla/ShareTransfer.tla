---------------------------- MODULE ShareTransfer ----------------------------
(***************************************************************************)
(* The way of one campaign's archive: the controller compresses the        *)
(* campaign and uploads it to a share, again for every retry and possibly  *)
(* to another share (upload_campaign, the four share providers), and the   *)
(* user downloads and extracts it (`vast results download', `import').     *)
(* Both directions resume what an earlier try has left, trusting lengths:  *)
(* the uploader resumes from the size of the remote file (WebDAV) or from  *)
(* a saved session (GCS), the downloader from its `.part' file.            *)
(*                                                                         *)
(* A file is a sequence of blocks <<version, position>>.  With S3 storage  *)
(* compressing again gives the same archive; with GCS storage the files    *)
(* have new time stamps, and the archive is another version, maybe of      *)
(* another length.                                                         *)
(***************************************************************************)
EXTENDS Naturals, Sequences

CONSTANTS
    Targets,      \* the shares the user has at hand
    Kind,         \* the provider of each
    InPlace,      \* shares that show a file while it is being written
    Ranged,       \* shares that honour a Range header
    Length,       \* blocks of each version of the archive
    MaxFaults,    \* bound: failures, interruptions and kills
    MaxCalls,     \* bound: download and import commands
    MaxRemovals   \* bound: archives removed from a share

Versions == DOMAIN Length
Kinds == {"webdav", "nextcloud", "sftp", "gcs"}

ASSUME ShareAssumption ==
    /\ Kind \in [Targets -> Kinds] /\ InPlace \cup Ranged \subseteq Targets
    /\ Length \in Seq(Nat \ {0}) /\ Length # <<>>
    /\ {MaxFaults, MaxCalls, MaxRemovals} \subseteq Nat
    \* The providers for GCS and Nextcloud do not check that Range is honoured.
    /\ \A t \in Targets : Kind[t] # "webdav" => t \in Ranged
    /\ \A t \in Targets : (Kind[t] = "sftp" => t \in InPlace)
                          /\ (Kind[t] = "gcs" => t \notin InPlace)

VARIABLES
    stable,     \* compressing again gives the same archive
    version,    \* that of the archive in the pod, 0 before the first
    up,         \* the upload in the controller
    session,    \* the saved GCS session, and what the server keeps for it
    share,      \* the file on each share
    reported,   \* what the controller's last report of success was about
    part,       \* the `.part' file of the download
    kept,       \* the archive kept by --keep-archive
    dir,        \* the campaign directory under the results directory
    call,       \* the download or import command
    faults, calls, removals

uploadVars == <<stable, version, up, session, reported>>
localVars == <<part, kept, dir, call, calls>>
vars == <<uploadVars, share, localVars, faults, removals>>

Nothing == <<<<0, 0>>>>                      \* no file
Exists(f) == f # Nothing
Size(f) == IF Exists(f) THEN Len(f) ELSE 0
Archive(v) == [i \in 1 .. Length[v] |-> <<v, i>>]
Whole(f) == \E v \in Versions : f = Archive(v)
IsPrefixOf(f, g) == Len(f) <= Len(g) /\ \A i \in 1 .. Len(f) : f[i] = g[i]
CutOff(f) == \E v \in Versions : f # Archive(v) /\ IsPrefixOf(f, Archive(v))
NoSession == [open |-> FALSE]
NoCall == [pc |-> "idle", result |-> "none", from |-> "nowhere", force |-> FALSE,
           keep |-> FALSE, offset |-> 0, at |-> 0, source |-> <<>>,
           calm |-> FALSE, left |-> "fits"]

Init ==
    /\ stable \in BOOLEAN
    /\ version = 0
    /\ up = [pc |-> "parked"]
    /\ session = NoSession
    /\ share = [t \in Targets |-> Nothing]
    /\ reported = [ok |-> FALSE]
    /\ part = Nothing /\ kept = Nothing /\ dir = "none"
    /\ call = NoCall
    /\ faults = 0 /\ calls = 0 /\ removals = 0

Fault == faults < MaxFaults /\ faults' = faults + 1

------------------------------------------------------------------------------
(* The upload in the controller.                                           *)

\* The end of the campaign, or a retry; a retry may name another share.
Attempt(t) ==
    /\ up.pc = "parked"
    /\ version < Len(Length)
    /\ up' = [pc |-> "compress", t |-> t]
    /\ UNCHANGED <<stable, version, session, reported, share, localVars, faults, removals>>

\* compress_campaign, from S3 or from GCS.
Compress ==
    /\ up.pc = "compress"
    /\ version' = IF stable THEN 1 ELSE version + 1
    /\ up' = [up EXCEPT !.pc = "probe"]
    /\ UNCHANGED <<stable, session, reported, share, localVars, faults, removals>>

Total == Length[version]
Park == up' = [pc |-> "parked"]

\* Success, for a file that is on share t: the archive and the session file are
\* removed from the pod.
Report(t, file) ==
    /\ up' = [pc |-> "uploaded"]
    /\ reported' = [ok |-> TRUE, target |-> up.t, went |-> t, file |-> file]
    /\ session' = IF Kind[up.t] = "gcs" THEN NoSession ELSE session

Send(offset) ==
    /\ up' = [pc |-> "send", t |-> up.t, offset |-> offset, sent |-> <<>>]
    /\ UNCHANGED <<reported, share>>

\* HEAD of WebDAV's upload_archive: skip, resume or begin; a HEAD that fails
\* counts as no file.
ProbeWebDav ==
    /\ up.pc = "probe" /\ Kind[up.t] = "webdav"
    /\ \/ /\ Size(share[up.t]) = Total
          /\ Report(up.t, share[up.t]) /\ UNCHANGED <<share, faults>>
       \/ /\ Size(share[up.t]) # Total
          /\ Send(IF Size(share[up.t]) < Total THEN Size(share[up.t]) ELSE 0)
          /\ UNCHANGED <<session, faults>>
       \/ Fault /\ Send(0) /\ UNCHANGED session
    /\ UNCHANGED <<stable, version, localVars, removals>>

\* The other two always send the whole archive.
ProbeNothing ==
    /\ up.pc = "probe" /\ Kind[up.t] \in {"nextcloud", "sftp"}
    /\ Send(0)
    /\ UNCHANGED <<stable, version, session, localVars, faults, removals>>

OpenSession ==
    session' = [open |-> TRUE, t |-> up.t, total |-> Total, held |-> <<>>]

\* _gcs_get_session: without a saved session one is opened for this bucket.
ProbeGcsFresh ==
    /\ up.pc = "probe" /\ Kind[up.t] = "gcs" /\ ~session.open
    /\ OpenSession
    /\ Send(0)
    /\ UNCHANGED <<stable, version, localVars, faults, removals>>

\* A saved session, whichever bucket it is for, is asked for its progress: it is
\* complete, is resumed, has expired and gives way to a new one, or refuses the
\* length (the caller then gives up).
ProbeGcsSaved ==
    /\ up.pc = "probe" /\ Kind[up.t] = "gcs" /\ session.open
    /\ \/ /\ session.total = Total /\ Len(session.held) = Total
          /\ Report(session.t, session.held) /\ UNCHANGED <<share, faults>>
       \/ /\ session.total = Total /\ Len(session.held) < Total
          /\ Send(Len(session.held)) /\ UNCHANGED <<session, faults>>
       \/ /\ session.total # Total
          /\ Park /\ UNCHANGED <<session, reported, share, faults>>
       \/ Fault /\ OpenSession /\ Send(0)
    /\ UNCHANGED <<stable, version, localVars, removals>>

\* What is on the share after the next block of the request: behind the old
\* blocks when resumed, in a new file otherwise; a share that is not InPlace
\* shows nothing before the end.
Written(old, sent) == SubSeq(old, 1, up.offset) \o sent

\* call.calm: nothing was uploaded while the command ran (history).
Disturb == call' = IF call.pc = "idle" THEN call ELSE [call EXCEPT !.calm = FALSE]

\* Mutant: the archive is sent from its start, whatever the offset.
SendBlockUnsought ==
    /\ up.pc = "send" /\ up.offset + Len(up.sent) < Total
    /\ LET block == <<version, Len(up.sent) + 1>>
           sent == Append(up.sent, block)
       IN  /\ up' = [up EXCEPT !.sent = sent]
           /\ share' = IF up.t \in InPlace
                         THEN [share EXCEPT ![up.t] = Written(@, sent)] ELSE share
           /\ session' = IF Kind[up.t] = "gcs"
                           THEN [session EXCEPT !.held = Append(@, block)] ELSE session
    /\ Disturb
    /\ UNCHANGED <<stable, version, reported, part, kept, dir, calls, faults, removals>>

\* The next block of the archive leaves the pod.
SendBlock ==
    /\ up.pc = "send" /\ up.offset + Len(up.sent) < Total
    /\ LET block == <<version, up.offset + Len(up.sent) + 1>>
           sent == Append(up.sent, block)
       IN  /\ up' = [up EXCEPT !.sent = sent]
           /\ share' = IF up.t \in InPlace
                         THEN [share EXCEPT ![up.t] = Written(@, sent)] ELSE share
           /\ session' = IF Kind[up.t] = "gcs"
                           THEN [session EXCEPT !.held = Append(@, block)] ELSE session
    /\ Disturb
    /\ UNCHANGED <<stable, version, reported, part, kept, dir, calls, faults, removals>>

\* The server has everything; the answer may get lost on its way.
SendEnds ==
    /\ up.pc = "send" /\ up.offset + Len(up.sent) = Total
    /\ share' = CASE Kind[up.t] = "gcs" -> [share EXCEPT ![session.t] = session.held]
                  [] up.t \in InPlace   -> share
                  [] OTHER -> [share EXCEPT ![up.t] = Written(share[up.t], up.sent)]
    /\ \/ /\ LET t == IF Kind[up.t] = "gcs" THEN session.t ELSE up.t
             IN  Report(t, share'[t])
          /\ UNCHANGED faults
       \/ Fault /\ Park /\ UNCHANGED <<reported, session>>
    /\ Disturb
    /\ UNCHANGED <<stable, version, part, kept, dir, calls, removals>>

\* Any call of the attempt fails: the main thread waits for a retry; the
\* session, and what an InPlace share has got, stay.
AttemptFails ==
    /\ up.pc \in {"compress", "probe", "send"}
    /\ Fault
    /\ Park
    /\ UNCHANGED <<stable, version, session, reported, share, localVars, removals>>

Kill ==
    /\ up.pc \notin {"uploaded", "dead"}
    /\ Fault
    /\ up' = [pc |-> "dead"]
    /\ session' = NoSession
    /\ UNCHANGED <<stable, version, reported, share, localVars, removals>>

------------------------------------------------------------------------------
(* The user's commands.                                                    *)

\* remove-from-share; not while the campaign is being uploaded.
RemoveArchive(t) ==
    /\ up.pc \in {"parked", "uploaded", "dead"}
    /\ Exists(share[t]) /\ removals < MaxRemovals
    /\ removals' = removals + 1
    /\ share' = [share EXCEPT ![t] = Nothing]
    /\ Disturb
    /\ UNCHANGED <<uploadVars, part, kept, dir, calls, faults>>

At(step) == call.pc = step
EndCall(result) ==
    call' = [NoCall EXCEPT !.result = result, !.from = call.from, !.force = call.force,
                           !.calm = call.calm, !.left = call.left]

\* What an earlier call has left (history): nothing or a beginning of the file
\* that is on the share now, all of it, or something else.
Left(f) ==
    CASE part = f -> "complete"
      [] part # f /\ (~Exists(part) \/ IsPrefixOf(part, f)) -> "fits"
      [] OTHER -> "foreign"

\* The command finds the archive listed; what is there is skipped, what was
\* begun is resumed.
Download(t, force, keep) ==
    /\ At("idle") /\ calls < MaxCalls /\ calls' = calls + 1
    /\ Exists(share[t])
    /\ call' = [NoCall EXCEPT !.pc = IF dir # "none" /\ ~force THEN "skip" ELSE "open",
                              !.from = t, !.force = force, !.keep = keep,
                              !.offset = Size(part), !.left = Left(share[t]),
                              !.calm = Whole(share[t])]
    /\ UNCHANGED <<uploadVars, share, part, kept, dir, faults, removals>>

Skip ==
    /\ At("skip")
    /\ EndCall("skipped")
    /\ UNCHANGED <<uploadVars, share, part, kept, dir, calls, faults, removals>>

Source == share[call.from]
Receive(offset) ==
    call' = [call EXCEPT !.pc = "receive", !.source = Source, !.offset = offset, !.at = offset]

\* Mutant: the answer is appended whether or not it is the range asked for.
OpenTrustingRange ==
    /\ At("open") /\ Exists(Source)
    /\ LET past    == call.offset > 0 /\ call.offset >= Len(Source)
           honours == call.from \in Ranged
           k       == Kind[call.from]
       IN  \/ /\ past /\ k = "webdav" /\ honours
              /\ call' = [call EXCEPT !.pc = "extract"] /\ UNCHANGED part
           \/ /\ past /\ k \in {"gcs", "nextcloud"}
              /\ EndCall("failed") /\ UNCHANGED part
           \/ /\ call.offset > 0 /\ honours /\ (past => k = "sftp")
              /\ Receive(call.offset) /\ UNCHANGED part
           \/ /\ call.offset > 0 /\ ~honours
              /\ Receive(0) /\ UNCHANGED part
           \/ /\ call.offset = 0
              /\ Receive(0) /\ part' = <<>>
    /\ UNCHANGED <<uploadVars, share, kept, dir, calls, faults, removals>>

\* Mutant: WebDAV's 416 is an error, too.
OpenRejecting ==
    /\ At("open") /\ Exists(Source)
    /\ LET past    == call.offset > 0 /\ call.offset >= Len(Source)
           honours == call.from \in Ranged
           k       == Kind[call.from]
       IN  \/ /\ past /\ k = "webdav" /\ honours
              /\ call' = [call EXCEPT !.pc = "extract"] /\ UNCHANGED part
           \/ /\ past /\ honours /\ k # "sftp"
              /\ EndCall("failed") /\ UNCHANGED part
           \/ /\ call.offset > 0 /\ honours /\ (past => k = "sftp")
              /\ Receive(call.offset) /\ UNCHANGED part
           \/ /\ call.offset = 0 \/ ~honours
              /\ Receive(0) /\ part' = <<>>
    /\ UNCHANGED <<uploadVars, share, kept, dir, calls, faults, removals>>

\* download_archive up to the first block.  A range that begins at the end of the
\* file is not satisfiable: WebDAV takes that for complete, the other two HTTP
\* providers for an error, SFTP reads nothing.
Open ==
    /\ At("open") /\ Exists(Source)
    /\ LET past    == call.offset > 0 /\ call.offset >= Len(Source)
           honours == call.from \in Ranged
           k       == Kind[call.from]
       IN  \/ /\ past /\ k = "webdav" /\ honours
              /\ call' = [call EXCEPT !.pc = "extract"] /\ UNCHANGED part
           \/ /\ past /\ k \in {"gcs", "nextcloud"}
              /\ EndCall("failed") /\ UNCHANGED part
           \/ /\ call.offset > 0 /\ honours /\ (past => k = "sftp")
              /\ Receive(call.offset) /\ UNCHANGED part
           \/ /\ call.offset = 0 \/ ~honours
              /\ Receive(0) /\ part' = <<>>
    /\ UNCHANGED <<uploadVars, share, kept, dir, calls, faults, removals>>

\* The file was removed since it was listed.
NotFound ==
    /\ At("open") /\ ~Exists(Source)
    /\ EndCall("failed")
    /\ UNCHANGED <<uploadVars, share, part, kept, dir, calls, faults, removals>>

\* A share that is not InPlace goes on serving the file it has opened; SFTP
\* resumes up to the end of the file as it is then.
Served == IF call.from \in InPlace THEN Source ELSE call.source
LastBlock == IF Kind[call.from] = "sftp" /\ call.offset > 0 /\ Exists(Source)
               THEN Len(Source) ELSE Len(call.source)

ReceiveBlock ==
    /\ At("receive") /\ call.at < LastBlock
    /\ IF Exists(Served) /\ call.at < Len(Served)
         THEN /\ part' = Append(part, Served[call.at + 1])
              /\ call' = [call EXCEPT !.at = @ + 1]
         ELSE EndCall("failed") /\ UNCHANGED part
    /\ UNCHANGED <<uploadVars, share, kept, dir, calls, faults, removals>>

Received ==
    /\ At("receive") /\ call.at >= LastBlock
    /\ call' = [call EXCEPT !.pc = "extract"]
    /\ UNCHANGED <<uploadVars, share, part, kept, dir, calls, faults, removals>>

\* The connection is lost; GCS's loop takes the end of the data for the end of
\* the file.
ConnectionLost ==
    /\ At("receive") /\ Fault
    /\ \/ EndCall("lost")
       \/ Kind[call.from] = "gcs" /\ call' = [call EXCEPT !.pc = "extract", !.calm = FALSE]
    /\ UNCHANGED <<uploadVars, share, part, kept, dir, calls, removals>>

\* tarfile writes the members one after the other into the directory.
Extract ==
    /\ At("extract")
    /\ IF part = <<>> THEN EndCall("failed") /\ UNCHANGED dir
                      ELSE dir' = "partial" /\ call' = [call EXCEPT !.pc = "unpack"]
    /\ UNCHANGED <<uploadVars, share, part, kept, calls, faults, removals>>

\* Only a whole archive is sure to be read to its end; one that was put together
\* from two versions may be read to its end.  Then the `.part' file becomes the
\* kept archive, or is removed.
Unpack ==
    /\ At("unpack")
    /\ \/ /\ Whole(part) \/ ~CutOff(part)
          /\ dir' = IF Whole(part) THEN "whole" ELSE "mixed"
          /\ kept' = IF call.keep THEN part ELSE kept
          /\ part' = Nothing
          /\ EndCall("ok")
       \/ ~Whole(part) /\ EndCall("failed") /\ UNCHANGED <<dir, kept, part>>
    /\ UNCHANGED <<uploadVars, share, calls, faults, removals>>

\* `vast import-results' of the kept archive reads all of it before it touches
\* the directory, which it removes first; if the archive cannot be read nothing
\* changes.
Import(force) ==
    /\ At("idle") /\ calls < MaxCalls /\ calls' = calls + 1
    /\ Exists(kept) /\ (dir = "none" \/ force)
    /\ dir' = "none"
    /\ call' = [NoCall EXCEPT !.pc = "import", !.force = force]
    /\ UNCHANGED <<uploadVars, share, part, kept, faults, removals>>

ImportUnpacks ==
    /\ At("import")
    /\ \/ dir = "none" /\ dir' = "partial" /\ UNCHANGED call
       \/ /\ dir = "partial"
          /\ dir' = IF Whole(kept) THEN "whole" ELSE "mixed"
          /\ EndCall("ok")
    /\ UNCHANGED <<uploadVars, share, part, kept, calls, faults, removals>>

\* Ctrl+C, a full disk, the end of the host.
Interrupt ==
    /\ ~At("idle") /\ Fault
    /\ call' = [NoCall EXCEPT !.result = "interrupted"]
    /\ UNCHANGED <<uploadVars, share, part, kept, dir, calls, removals>>

------------------------------------------------------------------------------
Uploading ==
    \/ Compress \/ ProbeWebDav \/ ProbeNothing \/ ProbeGcsFresh \/ ProbeGcsSaved
    \/ SendBlock \/ SendEnds \/ AttemptFails
Downloading ==
    \/ Skip \/ Open \/ NotFound \/ ReceiveBlock \/ Received \/ ConnectionLost
    \/ Extract \/ Unpack \/ ImportUnpacks \/ Interrupt

Next ==
    \/ \E t \in Targets : Attempt(t) \/ RemoveArchive(t)
    \/ \E t \in Targets, force, keep \in BOOLEAN : Download(t, force, keep)
    \/ \E force \in BOOLEAN : Import(force)
    \/ Uploading \/ Kill \/ Downloading

Spec == Init /\ [][Next]_vars

------------------------------------------------------------------------------
(* Properties.                                                             *)

Blocks == Nat \X Nat
Uploads ==
    [pc : {"parked", "uploaded", "dead"}]
      \cup [pc : {"compress", "probe"}, t : Targets]
      \cup [pc : {"send"}, t : Targets, offset : Nat, sent : Seq(Blocks)]
Sessions == {NoSession} \cup [open : {TRUE}, t : Targets, total : Nat, held : Seq(Blocks)]
Reports ==
    [ok : {FALSE}] \cup [ok : {TRUE}, target : Targets, went : Targets, file : Seq(Blocks)]
Calls ==
    [pc : {"idle", "skip", "open", "receive", "extract", "unpack", "import"},
     result : {"none", "ok", "skipped", "failed", "lost", "interrupted"},
     from : Targets \cup {"nowhere"}, force : BOOLEAN, keep : BOOLEAN,
     offset : Nat, at : Nat, source : Seq(Blocks), calm : BOOLEAN,
     left : {"fits", "complete", "foreign"}]

\* The range of every variable; a version is never taken from behind the last one.
TransferTypeOK ==
    /\ stable \in BOOLEAN
    /\ version \in 0 .. Len(Length)
    /\ up \in Uploads /\ session \in Sessions /\ reported \in Reports
    /\ share \in [Targets -> Seq(Blocks)]
    /\ part \in Seq(Blocks) /\ kept \in Seq(Blocks)
    /\ dir \in {"none", "partial", "mixed", "whole"}
    /\ call \in Calls
    /\ faults \in 0 .. MaxFaults /\ calls \in 0 .. MaxCalls
    /\ removals \in 0 .. MaxRemovals

Resumes(t) == Kind[t] \in {"webdav", "gcs"}

\* Once the controller has reported success the whole archive is on a share, after
\* any failures, retries and resumptions, unless the provider resumes and the
\* retry has compressed another archive than the one before (upload_campaign).
ReportedIsWhole ==
    reported.ok /\ (stable \/ ~Resumes(reported.target)) => Whole(reported.file)

\* Every block of a file is in its place, in one of the archives so far.
Fits(f) == \A i \in 1 .. Len(f) : \E v \in 1 .. version : i <= Length[v] /\ f[i] = <<v, i>>

\* What is kept for resuming a download has every block in its place, from
\* whichever shares, in however many calls and with whichever servers it was
\* fetched: with one archive it is a beginning of it.  Once a retry has compressed
\* the campaign again (GCS storage), the places may be filled from several
\* archives (download_cmd trusts the length of the `.part' file).
PartIsInPlace == Exists(part) => Fits(part)

\* Whatever was left behind (a `.part' file of any length, a directory that is
\* half extracted), a forced download of an archive that stays whole on its share
\* succeeds when nothing interrupts it, with two exceptions: GCS and Nextcloud
\* trip over a `.part' file that is already complete; and where the campaign was
\* compressed again (GCS storage), the `.part' file of another archive may be
\* continued to one that cannot be read.
ForcedCallRecovers ==
    call.result = "failed" /\ call.force /\ call.calm =>
      \/ call.left = "complete" /\ Kind[call.from] \in {"gcs", "nextcloud"}
      \/ call.left = "foreign" /\ version > 1

------------------------------------------------------------------------------
(* What the words say and the code does not do: TLC finds these violated.  *)

\* "A retry may also target a different share" (cluster_execution.rst:479): the
\* session saved for one bucket is resumed for another.
ReportedWentThere == reported.ok => reported.went = reported.target

\* "leaves the partial file in place so the next run can resume" (results_processing/cli.py:643):
\* the next call skips a directory whose extraction was cut short.
SkippedIsWhole == call.result = "skipped" => dir = "whole"

\* The same words: the file that the next call resumes may hold blocks of two
\* archives, after a retry of the upload with GCS storage.
PartOfOneArchive == Exists(part) => \E v \in Versions : IsPrefixOf(part, Archive(v))
=============================================================================
