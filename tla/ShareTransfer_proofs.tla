------------------------ MODULE ShareTransfer_proofs ------------------------
(***************************************************************************)
(* The way of the archive for any shares, any lengths of the archive and   *)
(* any number of failures, calls and removals: what the controller reports *)
(* as delivered is whole, what a download keeps has its blocks in place,   *)
(* and a forced download recovers.                                         *)
(***************************************************************************)
EXTENDS ShareTransfer, SequenceTheorems, TLAPS

(* None of the three properties is inductive.  A file is right because the *)
(* offset of the try that wrote it agreed with what the tries before had   *)
(* left; so the strengthening relates, for each side, the offset of the    *)
(* transfer under way to the file it is writing.                           *)

\* A beginning of the first archive, the only one when compressing is stable.
Begins(f) == IsPrefixOf(f, Archive(1))

\* An archive is sent only after it was compressed.
VersionInv ==
    /\ stable => version <= 1
    /\ up.pc = "compress" => stable \/ version < Len(Length)
    /\ up.pc \in {"probe", "send"} => version >= 1

\* What a request has sent are the blocks behind its offset, and they go behind
\* that many blocks of what the share or the session has.
Continues(file) ==
    /\ Len(file) = up.offset + Len(up.sent)
    /\ \A i \in 1 .. Len(up.sent) : file[up.offset + i] = up.sent[i]

SendInv ==
    up.pc = "send" =>
      /\ up.offset + Len(up.sent) <= Total
      /\ \A i \in 1 .. Len(up.sent) : up.sent[i] = <<version, up.offset + i>>
      /\ ~Resumes(up.t) => up.offset = 0
      /\ IF Kind[up.t] = "gcs"
           THEN session.open /\ Len(session.held) = up.offset + Len(up.sent)
           ELSE /\ up.offset > 0 => Exists(share[up.t]) /\ up.offset <= Len(share[up.t])
                /\ up.t \in InPlace /\ up.sent # <<>> => Continues(share[up.t])

\* Every copy of an archive, however it came about, has its blocks in place.
CopiesInv ==
    /\ \A t \in Targets : Exists(share[t]) => Fits(share[t])
    /\ session.open => Fits(session.held) /\ (stable => session.total = Length[1])

\* A download is where its `.part' file ends.
DownloadInv ==
    /\ call.pc \in {"skip", "open", "receive", "extract", "unpack"} => call.from \in Targets
    /\ call.pc # "idle" => call.result = "none"
    /\ call.pc = "open" => call.offset = Size(part)
    /\ call.pc = "receive"
          => Fits(call.source) /\ Exists(part) /\ Len(part) = call.at

\* A call that nothing disturbs has a whole archive before it, and goes on from
\* a beginning of that unless it was left the file of another archive.
CalmInv ==
    /\ call.calm /\ call.left = "foreign" => version > 1
    /\ call.calm /\ call.pc # "idle" =>
         /\ call.from \in Targets
         /\ Whole(Source)
         /\ call.pc = "receive" => call.source = Source
         /\ call.pc # "import"
         /\ call.pc = "open" /\ part = Source => call.left = "complete"
         /\ call.left # "foreign" =>
              /\ Exists(part) => IsPrefixOf(part, Source)
              /\ call.pc \in {"extract", "unpack"} => part = Source

TransferInv ==
    /\ TransferTypeOK
    /\ VersionInv
    /\ SendInv
    /\ CopiesInv
    /\ DownloadInv
    /\ CalmInv
    /\ ReportedIsWhole
    /\ PartIsInPlace
    /\ ForcedCallRecovers

-----------------------------------------------------------------------------
(* Files.                                                                  *)

\* An archive is a file of its length.
LEMMA ArchiveProperties ==
  ASSUME NEW v \in Versions
  PROVE  /\ Length[v] \in Nat /\ Length[v] > 0
         /\ Archive(v) \in Seq(Blocks)
         /\ Len(Archive(v)) = Length[v]
         /\ \A i \in 1 .. Length[v] : Archive(v)[i] = <<v, i>>
<1>1. Length \in Seq(Nat \ {0})
  BY ShareAssumption
<1>2. v \in 1 .. Len(Length)
  BY <1>1, LenProperties DEF Versions
<1>3. Length[v] \in Nat \ {0} /\ v \in Nat
  BY <1>1, <1>2, ElementOfSeq
<1>4. Archive(v) \in [1 .. Length[v] -> Blocks]
  BY <1>3 DEF Archive, Blocks
<1>5. Archive(v) \in Seq(Blocks) /\ Len(Archive(v)) = Length[v]
  BY <1>3, <1>4
<1> QED
  BY <1>3, <1>5 DEF Archive

LEMMA FirstVersion == 1 \in Versions /\ Len(Length) \in Nat /\ Versions = 1 .. Len(Length)
<1>1. Length \in Seq(Nat \ {0}) /\ Length # <<>>
  BY ShareAssumption
<1>2. Len(Length) \in Nat /\ Len(Length) # 0 /\ DOMAIN Length = 1 .. Len(Length)
  BY <1>1
<1> QED
  BY <1>2 DEF Versions

LEMMA NothingIsAFile == Nothing \in Seq(Blocks) /\ Len(Nothing) = 1 /\ <<>> \in Seq(Blocks)
BY DEF Nothing, Blocks

\* Two files of the same blocks are the same.
LEMMA SameBlocks ==
  ASSUME NEW f \in Seq(Blocks), NEW v \in Versions,
         Len(f) = Length[v], \A i \in 1 .. Len(f) : f[i] = <<v, i>>
  PROVE  f = Archive(v)
BY ArchiveProperties, SeqEqual

\* What begins the archive is a file, and as long as the archive it is all of it.
LEMMA BeginsProperties ==
  ASSUME NEW f \in Seq(Blocks), Begins(f)
  PROVE  /\ Exists(f)
         /\ Len(f) <= Length[1]
         /\ \A i \in 1 .. Len(f) : f[i] = <<1, i>>
         /\ Len(f) = Length[1] => f = Archive(1)
         /\ Whole(f) => f = Archive(1)
<1>1. /\ Len(f) \in Nat /\ Len(f) <= Length[1]
      /\ \A i \in 1 .. Len(f) : f[i] = <<1, i>>
  BY FirstVersion, ArchiveProperties DEF Begins, IsPrefixOf
<1>2. Exists(f)
  <2>1. ASSUME f = <<<<0, 0>>>> PROVE FALSE
    <3>1. Len(f) = 1 /\ f[1] = <<0, 0>>
      BY <2>1
    <3>2. f[1] = <<1, 1>>
      BY <1>1, <3>1
    <3> QED
      BY <3>1, <3>2
  <2> QED
    BY <2>1 DEF Exists, Nothing
<1>3. Len(f) = Length[1] => f = Archive(1)
  BY <1>1, FirstVersion, SameBlocks
<1>4. ASSUME NEW v \in Versions, f = Archive(v) PROVE v = 1
  <2>1. Len(f) > 0 /\ f[1] = <<v, 1>>
    BY <1>4, ArchiveProperties
  <2> QED
    BY <1>1, <2>1
<1> QED
  BY <1>1, <1>2, <1>3, <1>4 DEF Whole

LEMMA WholeExists == \A f : Whole(f) => Exists(f)
<1> SUFFICES ASSUME NEW v \in Versions, Archive(v) = <<<<0, 0>>>> PROVE FALSE
  BY DEF Whole, Exists, Nothing
<1>1. Archive(v)[1] = <<v, 1>>
  BY ArchiveProperties
<1>2. <<<<0, 0>>>>[1] = <<0, 0>>
  OBVIOUS
<1> QED
  BY <1>1, <1>2

LEMMA ArchiveBegins == Begins(Archive(1)) /\ Whole(Archive(1)) /\ Exists(Archive(1))
<1>1. Begins(Archive(1))
  BY FirstVersion, ArchiveProperties DEF Begins, IsPrefixOf
<1> QED
  BY <1>1, FirstVersion, ArchiveProperties, BeginsProperties DEF Whole

\* A file that has the first blocks of the archive begins it.
LEMMA BlocksBegin ==
  ASSUME NEW f \in Seq(Blocks), Len(f) <= Length[1], \A i \in 1 .. Len(f) : f[i] = <<1, i>>
  PROVE  Begins(f)
<1>1. /\ Length[1] \in Nat /\ Len(Archive(1)) = Length[1] /\ Len(f) \in Nat
      /\ \A i \in 1 .. Length[1] : Archive(1)[i] = <<1, i>>
  BY FirstVersion, ArchiveProperties
<1>2. ASSUME NEW i \in 1 .. Len(f) PROVE f[i] = Archive(1)[i]
  <2>1. i \in 1 .. Length[1]
    BY <1>1
  <2>2. Archive(1)[i] = <<1, i>>
    BY <1>1, <2>1
  <2> QED
    BY <2>2
<1> QED
  BY <1>1, <1>2 DEF Begins, IsPrefixOf

\* The next block of the archive continues a beginning of it.
LEMMA BeginsAppend ==
  ASSUME NEW f \in Seq(Blocks), Begins(f), Len(f) < Length[1],
         NEW b, b = <<1, Len(f) + 1>>
  PROVE  Append(f, b) \in Seq(Blocks) /\ Begins(Append(f, b))
<1>1. b \in Blocks
  BY DEF Blocks
<1>2. /\ Append(f, b) \in Seq(Blocks) /\ Len(Append(f, b)) = Len(f) + 1
      /\ \A i \in 1 .. Len(f) : Append(f, b)[i] = f[i]
      /\ Append(f, b)[Len(f) + 1] = b
  BY <1>1, AppendProperties
<1>3. \A i \in 1 .. Len(f) + 1 : Append(f, b)[i] = <<1, i>>
  BY <1>2, BeginsProperties
<1>4. Len(Append(f, b)) <= Length[1]
  BY <1>2, FirstVersion, ArchiveProperties
<1> QED
  BY <1>2, <1>3, <1>4, BlocksBegin

\* A file whose blocks are in place begins the archive, if there is only one.
LEMMA FitsBegins ==
  ASSUME NEW f \in Seq(Blocks), Fits(f), version \in Nat, version <= 1
  PROVE  Begins(f)
<1>1. \A i \in 1 .. Len(f) : i <= Length[1] /\ f[i] = <<1, i>>
  BY DEF Fits
<1>2. Len(f) \in Nat /\ Length[1] \in Nat
  BY FirstVersion, ArchiveProperties
<1>3. Len(f) <= Length[1]
  BY <1>1, <1>2
<1> QED
  BY <1>1, <1>3, BlocksBegin

LEMMA FitsExists ==
  ASSUME NEW f \in Seq(Blocks), Fits(f), version \in Nat
  PROVE  Exists(f)
<1>1. ASSUME f = <<<<0, 0>>>> PROVE FALSE
  <2>1. Len(f) = 1 /\ f[1] = <<0, 0>>
    BY <1>1
  <2>2. PICK v \in 1 .. version : f[1] = <<v, 1>>
    BY <2>1 DEF Fits
  <2> QED
    BY <2>1, <2>2
<1> QED
  BY <1>1 DEF Exists, Nothing

LEMMA EmptyFits == Fits(<<>>)
BY DEF Fits

\* What fits goes on to fit when the campaign is compressed again.
LEMMA FitsLater ==
  ASSUME NEW f, Fits(f), version \in Nat, version' \in Nat, version <= version'
  PROVE  \A i \in 1 .. Len(f) : \E v \in 1 .. version' : i <= Length[v] /\ f[i] = <<v, i>>
BY DEF Fits

\* The next block of any archive goes behind the blocks that are in place.
LEMMA FitsAppend ==
  ASSUME NEW f \in Seq(Blocks), Fits(f), version \in Nat, NEW v \in 1 .. version,
         Len(f) + 1 <= Length[v], NEW b \in Blocks, b = <<v, Len(f) + 1>>
  PROVE  Append(f, b) \in Seq(Blocks) /\ Fits(Append(f, b))
<1>1. /\ Append(f, b) \in Seq(Blocks) /\ Len(Append(f, b)) = Len(f) + 1 /\ Len(f) \in Nat
      /\ \A i \in 1 .. Len(f) : Append(f, b)[i] = f[i]
      /\ Append(f, b)[Len(f) + 1] = b
  BY AppendProperties
<1> DEFINE new == Append(f, b)
<1> HIDE DEF new
<1>2. ASSUME NEW i \in 1 .. Len(f) + 1
      PROVE  \E w \in 1 .. version : i <= Length[w] /\ new[i] = <<w, i>>
  <2>1. CASE i = Len(f) + 1
    BY <1>1, <2>1 DEF new
  <2>2. CASE i # Len(f) + 1
    <3>1. i \in 1 .. Len(f) /\ new[i] = f[i]
      BY <1>1, <2>2 DEF new
    <3> QED
      BY <3>1 DEF Fits
  <2> QED
    BY <2>1, <2>2
<1> QED
  BY <1>1, <1>2 DEF Fits, new

\* What a share has after a request: the old blocks up to the offset, then those
\* that were sent.
LEMMA WrittenProperties ==
  ASSUME NEW old \in Seq(Blocks), NEW sent \in Seq(Blocks), up.offset \in Nat,
         up.offset = 0 \/ up.offset <= Len(old)
  PROVE  /\ Written(old, sent) \in Seq(Blocks)
         /\ Len(Written(old, sent)) = up.offset + Len(sent)
         /\ \A i \in 1 .. up.offset : Written(old, sent)[i] = old[i]
         /\ \A i \in 1 .. Len(sent) : Written(old, sent)[up.offset + i] = sent[i]
<1> DEFINE head == SubSeq(old, 1, up.offset)
<1>1. /\ head \in Seq(Blocks) /\ Len(head) = up.offset
      /\ \A i \in 1 .. up.offset : head[i] = old[i]
  <2>1. \A i \in 1 .. up.offset : old[i] \in Blocks
    BY ElementOfSeq
  <2> QED
    BY <2>1, SubSeqProperties
<1>2. Len(sent) \in Nat
  OBVIOUS
<1> HIDE DEF head
<1>3. /\ head \o sent \in Seq(Blocks) /\ Len(head \o sent) = up.offset + Len(sent)
      /\ \A i \in 1 .. up.offset + Len(sent) :
            (head \o sent)[i] = IF i <= up.offset THEN head[i] ELSE sent[i - up.offset]
  BY <1>1, <1>2, ConcatProperties
<1>4. \A i \in 1 .. up.offset : (head \o sent)[i] = old[i]
  BY <1>1, <1>2, <1>3
<1>5. \A i \in 1 .. Len(sent) : (head \o sent)[up.offset + i] = sent[i]
  BY <1>2, <1>3
<1> QED
  BY <1>3, <1>4, <1>5 DEF Written, head

\* Resuming behind blocks that are in place leaves more of them.
LEMMA WrittenFits ==
  ASSUME NEW old \in Seq(Blocks), NEW sent \in Seq(Blocks), up.offset \in Nat,
         version \in Versions,
         up.offset > 0 => Fits(old) /\ up.offset <= Len(old),
         \A i \in 1 .. Len(sent) : sent[i] = <<version, up.offset + i>>,
         up.offset + Len(sent) <= Length[version]
  PROVE  Fits(Written(old, sent))
<1> DEFINE new == Written(old, sent)
<1>1. /\ new \in Seq(Blocks) /\ Len(new) = up.offset + Len(sent) /\ Len(sent) \in Nat
      /\ \A i \in 1 .. up.offset : new[i] = old[i]
      /\ \A i \in 1 .. Len(sent) : new[up.offset + i] = sent[i]
  <2>1. up.offset = 0 \/ up.offset <= Len(old)
    OBVIOUS
  <2>2. Len(sent) \in Nat
    OBVIOUS
  <2> QED
    BY <2>1, <2>2, WrittenProperties
<1> HIDE DEF new
<1>2. version \in 1 .. version /\ Length[version] \in Nat
  BY FirstVersion, ArchiveProperties
<1>3. ASSUME NEW i \in 1 .. Len(new)
      PROVE  \E v \in 1 .. version : i <= Length[v] /\ new[i] = <<v, i>>
  <2>1. CASE i <= up.offset
    <3>1. i \in 1 .. up.offset /\ i \in 1 .. Len(old) /\ Fits(old)
      BY <1>1, <2>1
    <3> QED
      BY <1>1, <3>1 DEF Fits
  <2>2. CASE i > up.offset
    <3>1. PICK j \in 1 .. Len(sent) : i = up.offset + j
      <4>1. i - up.offset \in 1 .. Len(sent) /\ i = up.offset + (i - up.offset)
        BY <1>1, <2>2
      <4> QED
        BY <4>1
    <3>2. new[i] = sent[j] /\ sent[j] = <<version, i>>
      BY <1>1, <3>1
    <3>3. i <= Length[version]
      BY <1>1, <1>2
    <3> QED
      BY <1>2, <3>2, <3>3
  <2> QED
    BY <1>1, <2>1, <2>2
<1>4. Fits(new)
  BY <1>3 DEF Fits
<1> QED
  BY <1>4 DEF new

-----------------------------------------------------------------------------
(* The two sides.                                                          *)

USE DEF vars, uploadVars, localVars, TransferInv

\* The upload goes on without a block leaving the pod.
LEMMA DownloadFrame ==
  ASSUME TransferInv, UNCHANGED <<share, localVars>>, version' \in Nat, version <= version'
  PROVE  DownloadInv' /\ CalmInv' /\ PartIsInPlace' /\ ForcedCallRecovers'
<1>1. version \in Nat
  BY FirstVersion DEF TransferTypeOK
<1>2. DownloadInv'
  <2>1. Fits(call.source) => Fits(call.source)'
    BY <1>1, FitsLater DEF Fits
  <2> QED
    BY <2>1 DEF DownloadInv
<1>3. CalmInv'
  BY <1>1 DEF CalmInv, Source
<1>4. PartIsInPlace' /\ ForcedCallRecovers'
  <2>1. Fits(part) => Fits(part)'
    BY <1>1, FitsLater DEF Fits
  <2> QED
    BY <1>1, <2>1 DEF PartIsInPlace, ForcedCallRecovers
<1> QED
  BY <1>2, <1>3, <1>4

\* A block leaves the pod, or an archive is removed.
LEMMA DisturbedFrame ==
  ASSUME TransferInv, Disturb, UNCHANGED <<version, part>>
  PROVE  call' \in Calls /\ DownloadInv' /\ CalmInv' /\ PartIsInPlace' /\ ForcedCallRecovers'
<1>1. call \in Calls
  BY DEF TransferTypeOK
<1>2. CASE call.pc = "idle"
  <2>1. call' = call
    BY <1>2 DEF Disturb
  <2> QED
    BY <1>1, <1>2, <2>1 DEF DownloadInv, CalmInv, PartIsInPlace, ForcedCallRecovers, Fits
<1>3. CASE call.pc # "idle"
  <2>1. call' = [call EXCEPT !.calm = FALSE]
    BY <1>3 DEF Disturb
  <2>2. /\ call' \in Calls /\ call'.calm = FALSE /\ call'.pc = call.pc
        /\ call'.result = call.result /\ call'.from = call.from
        /\ call'.offset = call.offset /\ call'.at = call.at
        /\ call'.source = call.source /\ call'.left = call.left
    BY <1>1, <2>1 DEF Calls
  <2> QED
    BY <2>2 DEF DownloadInv, CalmInv, PartIsInPlace, ForcedCallRecovers, Fits
<1> QED
  BY <1>2, <1>3

\* The user's commands leave the upload alone.
LEMMA UploadFrame ==
  ASSUME TransferInv, UNCHANGED <<uploadVars, share>>
  PROVE  VersionInv' /\ SendInv' /\ CopiesInv' /\ ReportedIsWhole'
<1>1. VersionInv'
  BY DEF VersionInv
<1>2. SendInv'
  BY DEF SendInv, Continues, Total
<1>3. CopiesInv' /\ ReportedIsWhole'
  BY DEF CopiesInv, ReportedIsWhole, Resumes, Fits
<1> QED
  BY <1>1, <1>2, <1>3

LEMMA Counted == ASSUME TransferInv PROVE version \in Nat /\ version <= version
BY FirstVersion DEF TransferTypeOK

LEMMA FaultTypes == ASSUME TransferInv, Fault PROVE faults' \in 0 .. MaxFaults
BY ShareAssumption DEF TransferTypeOK, Fault

-----------------------------------------------------------------------------
(* The upload.                                                             *)

\* An attempt: the upload in a state that has a target.
LEMMA UploadStates ==
  ASSUME TransferInv
  PROVE  /\ up.pc \in {"compress", "probe"} => up = [pc |-> up.pc, t |-> up.t] /\ up.t \in Targets
         /\ up.pc = "send" => /\ up = [pc |-> "send", t |-> up.t, offset |-> up.offset, sent |-> up.sent]
                              /\ up.t \in Targets /\ up.offset \in Nat /\ up.sent \in Seq(Blocks)
BY DEF TransferTypeOK, Uploads

LEMMA AttemptKeeps ==
  ASSUME TransferInv, NEW t \in Targets, Attempt(t)
  PROVE  TransferInv'
<1> USE DEF Attempt
<1>1. TransferTypeOK'
  BY DEF TransferTypeOK, Uploads
<1>2. VersionInv'
  BY DEF VersionInv
<1>3. SendInv'
  BY DEF SendInv
<1>4. CopiesInv' /\ ReportedIsWhole'
  BY DEF CopiesInv, ReportedIsWhole, Resumes, Fits
<1> QED
  BY <1>1, <1>2, <1>3, <1>4, DownloadFrame, Counted

LEMMA CompressKeeps ==
  ASSUME TransferInv, Compress
  PROVE  TransferInv'
<1> USE DEF Compress
<1>0. up' = [pc |-> "probe", t |-> up.t] /\ up.t \in Targets
  BY UploadStates
<1>1. version' \in 1 .. Len(Length)
  BY FirstVersion DEF TransferTypeOK, VersionInv
<1>2. TransferTypeOK'
  <2>1. up' \in Uploads
    BY <1>0 DEF Uploads
  <2>2. version' \in 0 .. Len(Length)
    BY <1>1, FirstVersion
  <2> QED
    BY <2>1, <2>2 DEF TransferTypeOK
<1>3. VersionInv'
  BY <1>0, <1>1, FirstVersion DEF VersionInv
<1>4. SendInv'
  BY <1>0 DEF SendInv
<1>5. version' \in Nat /\ version \in Nat /\ version <= version'
  BY <1>1, FirstVersion DEF VersionInv, TransferTypeOK
<1>6. CopiesInv' /\ ReportedIsWhole'
  <2>1. \A t \in Targets : Exists(share[t]) => Fits(share[t])'
    BY <1>5, FitsLater DEF CopiesInv, Fits
  <2>2. session.open => Fits(session.held)'
    BY <1>5, FitsLater DEF CopiesInv, Fits
  <2> QED
    BY <2>1, <2>2 DEF CopiesInv, ReportedIsWhole, Resumes
<1> QED
  BY <1>2, <1>3, <1>4, <1>5, <1>6, DownloadFrame

LEMMA AttemptFailsKeeps ==
  ASSUME TransferInv, AttemptFails \/ Kill
  PROVE  TransferInv'
<1> USE DEF AttemptFails, Kill, Park
<1>1. up'.pc \in {"parked", "dead"} /\ up' \in Uploads
  BY DEF Uploads
<1>2. session' \in {session, NoSession} /\ ~NoSession.open
  BY DEF NoSession
<1>3. TransferTypeOK'
  BY <1>1, <1>2, FaultTypes DEF TransferTypeOK, Sessions
<1>4. VersionInv' /\ SendInv'
  BY <1>1 DEF VersionInv, SendInv
<1>5. CopiesInv' /\ ReportedIsWhole'
  BY <1>2 DEF CopiesInv, ReportedIsWhole, Resumes, Fits
<1> QED
  BY <1>3, <1>4, <1>5, DownloadFrame, Counted

\* A request begins: nothing is sent yet.
LEMMA SendBegins ==
  ASSUME TransferInv, up.pc = "probe", NEW offset \in Nat, Send(offset),
         UNCHANGED <<stable, version, localVars, removals>>,
         faults' \in 0 .. MaxFaults, session' \in Sessions,
         offset <= Total, ~Resumes(up.t) => offset = 0,
         Kind[up.t] = "gcs" => session'.open /\ Len(session'.held) = offset,
         Kind[up.t] # "gcs" /\ offset > 0
           => Exists(share[up.t]) /\ offset <= Len(share[up.t]),
         session'.open => Fits(session'.held) /\ (stable => session'.total = Length[1])
  PROVE  TransferInv'
<1>1. /\ up' = [pc |-> "send", t |-> up.t, offset |-> offset, sent |-> <<>>]
      /\ up.t \in Targets /\ UNCHANGED <<share, reported>>
  BY UploadStates DEF Send
<1>2. TransferTypeOK'
  <2>1. up' \in Uploads
    BY <1>1, NothingIsAFile DEF Uploads
  <2> QED
    BY <1>1, <2>1 DEF TransferTypeOK
<1>3. VersionInv'
  BY <1>1 DEF VersionInv
<1>4. SendInv'
  BY <1>1 DEF SendInv, Total, Resumes
<1>5. CopiesInv' /\ ReportedIsWhole'
  BY <1>1 DEF CopiesInv, ReportedIsWhole, Resumes, Fits
<1> QED
  BY <1>1, <1>2, <1>3, <1>4, <1>5, DownloadFrame, Counted

\* Success is reported for a file that is whole where it has to be.
LEMMA ReportKeeps ==
  ASSUME TransferInv, up.pc \in {"probe", "send"}, NEW t \in Targets, NEW file \in Seq(Blocks),
         Report(t, file), stable \/ ~Resumes(up.t) => Whole(file)
  PROVE  /\ up' \in Uploads /\ reported' \in Reports /\ session' \in Sessions
         /\ session' \in {session, NoSession} /\ ~NoSession.open
         /\ up'.pc = "uploaded"
         /\ stable' = stable => ReportedIsWhole'
<1>1. up.t \in Targets /\ session \in Sessions
  BY UploadStates DEF TransferTypeOK
<1>2. reported' = [ok |-> TRUE, target |-> up.t, went |-> t, file |-> file]
  BY DEF Report
<1>3. reported' \in Reports /\ reported'.target = up.t /\ reported'.file = file
  BY <1>1, <1>2 DEF Reports
<1>4. session' \in {session, NoSession} /\ NoSession \in Sessions /\ ~NoSession.open
  BY DEF Report, Sessions, NoSession
<1>5. stable' = stable => ReportedIsWhole'
  BY <1>3 DEF ReportedIsWhole, Resumes
<1> QED
  BY <1>1, <1>3, <1>4, <1>5 DEF Report, Uploads

LEMMA TotalProperties ==
  ASSUME TransferInv, up.pc \in {"probe", "send"}
  PROVE  /\ version \in Versions /\ Total \in Nat /\ Total > 0
         /\ stable => version = 1 /\ Total = Length[1]
         /\ Total = Length[version] /\ version \in 1 .. version
<1>1. version \in Versions
  BY FirstVersion DEF TransferTypeOK, VersionInv
<1>2. stable => version = 1
  BY <1>1, FirstVersion DEF VersionInv
<1> QED
  BY <1>1, <1>2, FirstVersion, ArchiveProperties DEF Total

LEMMA ShareProperties ==
  ASSUME TransferInv, NEW t \in Targets
  PROVE  /\ share[t] \in Seq(Blocks) /\ Len(share[t]) \in Nat
         /\ Size(share[t]) \in Nat
         /\ Size(share[t]) > 0 => Exists(share[t]) /\ Size(share[t]) = Len(share[t])
         /\ Exists(share[t]) => Fits(share[t])
         /\ version <= 1 /\ Exists(share[t]) => Begins(share[t])
         /\ stable => version <= 1
<1>1. /\ share[t] \in Seq(Blocks) /\ Len(share[t]) \in Nat
      /\ Exists(share[t]) => Fits(share[t])
  BY DEF TransferTypeOK, CopiesInv
<1> QED
  BY <1>1, FitsBegins, Counted DEF Size, VersionInv

LEMMA ProbeWebDavKeeps ==
  ASSUME TransferInv, ProbeWebDav
  PROVE  TransferInv'
<1> USE DEF ProbeWebDav
<1>1. /\ up.t \in Targets /\ Kind[up.t] = "webdav" /\ Resumes(up.t) /\ session \in Sessions
      /\ faults \in 0 .. MaxFaults
  BY UploadStates DEF Resumes, TransferTypeOK
<1>2. CASE Size(share[up.t]) = Total /\ Report(up.t, share[up.t]) /\ UNCHANGED <<share, faults>>
  <2>1. stable => Whole(share[up.t])
    BY <1>1, <1>2, TotalProperties, ShareProperties, BeginsProperties, ArchiveBegins
  <2>2. /\ up' \in Uploads /\ reported' \in Reports /\ session' \in Sessions
        /\ session' \in {session, NoSession} /\ ~NoSession.open
        /\ up'.pc = "uploaded" /\ ReportedIsWhole'
    BY <1>1, <1>2, <2>1, ReportKeeps, ShareProperties
  <2>3. TransferTypeOK'
    BY <1>2, <2>2 DEF TransferTypeOK
  <2>4. VersionInv' /\ SendInv' /\ CopiesInv'
    BY <1>2, <2>2 DEF VersionInv, SendInv, CopiesInv, Fits
  <2> QED
    BY <1>2, <2>2, <2>3, <2>4, DownloadFrame, Counted
<1>3. CASE /\ Size(share[up.t]) # Total
           /\ Send(IF Size(share[up.t]) < Total THEN Size(share[up.t]) ELSE 0)
           /\ UNCHANGED <<session, faults>>
  <2> DEFINE offset == IF Size(share[up.t]) < Total THEN Size(share[up.t]) ELSE 0
  <2>1. /\ offset \in Nat /\ offset <= Total
        /\ offset > 0 => Exists(share[up.t]) /\ offset <= Len(share[up.t])
    BY <1>1, ShareProperties, TotalProperties
  <2>2. session'.open => Fits(session'.held) /\ (stable => session'.total = Length[1])
    BY <1>3 DEF CopiesInv
  <2> QED
    BY <1>1, <1>3, <2>1, <2>2, SendBegins
<1>4. CASE Fault /\ Send(0) /\ UNCHANGED session
  <2>1. session'.open => Fits(session'.held) /\ (stable => session'.total = Length[1])
    BY <1>4 DEF CopiesInv
  <2> QED
    BY <1>1, <1>4, <2>1, SendBegins, FaultTypes, TotalProperties
<1> QED
  BY <1>2, <1>3, <1>4

LEMMA ProbeNothingKeeps ==
  ASSUME TransferInv, ProbeNothing
  PROVE  TransferInv'
<1>1. session'.open => Fits(session'.held) /\ (stable => session'.total = Length[1])
  BY DEF CopiesInv, ProbeNothing
<1> QED
  BY <1>1, SendBegins, TotalProperties DEF ProbeNothing, TransferTypeOK

LEMMA OpenSessionProperties ==
  ASSUME TransferInv, up.pc = "probe", OpenSession
  PROVE  /\ session' \in Sessions /\ session'.open /\ Len(session'.held) = 0
         /\ Fits(session'.held) /\ (stable => session'.total = Length[1])
<1>1. session' = [open |-> TRUE, t |-> up.t, total |-> Total, held |-> <<>>] /\ up.t \in Targets
  BY UploadStates DEF OpenSession
<1> QED
  BY <1>1, TotalProperties, NothingIsAFile, EmptyFits DEF Sessions

LEMMA ProbeGcsFreshKeeps ==
  ASSUME TransferInv, ProbeGcsFresh
  PROVE  TransferInv'
BY OpenSessionProperties, SendBegins, TotalProperties
   DEF ProbeGcsFresh, TransferTypeOK, Resumes

LEMMA SessionProperties ==
  ASSUME TransferInv, session.open
  PROVE  /\ session = [open |-> TRUE, t |-> session.t, total |-> session.total, held |-> session.held]
         /\ session.t \in Targets /\ session.total \in Nat /\ session.held \in Seq(Blocks)
         /\ Len(session.held) \in Nat
         /\ Fits(session.held)
         /\ stable => session.total = Length[1] /\ Begins(session.held)
<1>1. session \in [open : {TRUE}, t : Targets, total : Nat, held : Seq(Blocks)]
  <2>1. NoSession.open = FALSE
    BY DEF NoSession
  <2>2. session \in Sessions
    BY DEF TransferTypeOK
  <2>3. session # NoSession
    BY <2>1
  <2> QED
    BY <2>2, <2>3 DEF Sessions
<1>2. Fits(session.held) /\ (stable => session.total = Length[1])
  BY DEF CopiesInv
<1> QED
  BY <1>1, <1>2, FitsBegins, Counted DEF VersionInv

LEMMA ProbeGcsSavedKeeps ==
  ASSUME TransferInv, ProbeGcsSaved
  PROVE  TransferInv'
<1> USE DEF ProbeGcsSaved
<1>1. /\ up.t \in Targets /\ Kind[up.t] = "gcs" /\ Resumes(up.t) /\ session \in Sessions
      /\ faults \in 0 .. MaxFaults
  BY UploadStates DEF Resumes, TransferTypeOK
<1>2. CASE /\ session.total = Total /\ Len(session.held) = Total
           /\ Report(session.t, session.held) /\ UNCHANGED <<share, faults>>
  <2>1. stable => Whole(session.held)
    BY <1>2, SessionProperties, TotalProperties, BeginsProperties, ArchiveBegins
  <2>2. /\ up' \in Uploads /\ reported' \in Reports /\ session' \in Sessions
        /\ session' \in {session, NoSession} /\ ~NoSession.open
        /\ up'.pc = "uploaded" /\ ReportedIsWhole'
    BY <1>1, <1>2, <2>1, ReportKeeps, SessionProperties
  <2>3. TransferTypeOK'
    BY <1>2, <2>2 DEF TransferTypeOK
  <2>4. VersionInv' /\ SendInv' /\ CopiesInv'
    BY <1>2, <2>2 DEF VersionInv, SendInv, CopiesInv, Fits
  <2> QED
    BY <1>2, <2>2, <2>3, <2>4, DownloadFrame, Counted
<1>3. CASE /\ session.total = Total /\ Len(session.held) < Total
           /\ Send(Len(session.held)) /\ UNCHANGED <<session, faults>>
  BY <1>1, <1>3, SessionProperties, TotalProperties, SendBegins
<1>4. CASE session.total # Total /\ Park /\ UNCHANGED <<session, reported, share, faults>>
  <2>1. up' \in Uploads /\ up'.pc = "parked"
    BY <1>4 DEF Park, Uploads
  <2>2. TransferTypeOK'
    BY <1>4, <2>1 DEF TransferTypeOK
  <2>3. VersionInv' /\ SendInv' /\ CopiesInv' /\ ReportedIsWhole'
    BY <1>4, <2>1 DEF VersionInv, SendInv, CopiesInv, ReportedIsWhole, Resumes, Fits
  <2> QED
    BY <1>4, <2>2, <2>3, DownloadFrame, Counted
<1>5. CASE Fault /\ OpenSession /\ Send(0)
  BY <1>1, <1>5, OpenSessionProperties, SendBegins, FaultTypes, TotalProperties
<1> QED
  BY <1>2, <1>3, <1>4, <1>5

\* The next block: the file behind it continues what the request has sent.
LEMMA SendBlockKeeps ==
  ASSUME TransferInv, SendBlock
  PROVE  TransferInv'
<1> DEFINE block == <<version, up.offset + Len(up.sent) + 1>>
           sent  == Append(up.sent, block)
           new   == Written(share[up.t], sent)
<1>1. /\ up.pc = "send" /\ up.offset + Len(up.sent) < Total
      /\ up' = [up EXCEPT !.sent = sent]
      /\ share' = IF up.t \in InPlace THEN [share EXCEPT ![up.t] = new] ELSE share
      /\ session' = IF Kind[up.t] = "gcs"
                      THEN [session EXCEPT !.held = Append(@, block)] ELSE session
      /\ Disturb
      /\ UNCHANGED <<stable, version, reported, part, kept, dir, calls, faults, removals>>
  BY DEF SendBlock
<1>2. /\ up = [pc |-> "send", t |-> up.t, offset |-> up.offset, sent |-> up.sent]
      /\ up.t \in Targets /\ up.offset \in Nat /\ up.sent \in Seq(Blocks) /\ Len(up.sent) \in Nat
  BY <1>1, UploadStates
<1>3. version \in Nat /\ block \in Blocks
  BY <1>2, FirstVersion DEF TransferTypeOK, Blocks
<1>4. /\ sent \in Seq(Blocks) /\ Len(sent) = Len(up.sent) + 1
      /\ \A i \in 1 .. Len(up.sent) : sent[i] = up.sent[i]
      /\ sent[Len(up.sent) + 1] = block
  BY <1>2, <1>3, AppendProperties
<1>5. up' = [pc |-> "send", t |-> up.t, offset |-> up.offset, sent |-> sent]
  BY <1>1, <1>2
<1>6. \A i \in 1 .. Len(sent) : sent[i] = <<version, up.offset + i>>
  <2> SUFFICES ASSUME NEW i \in 1 .. Len(sent) PROVE sent[i] = <<version, up.offset + i>>
    OBVIOUS
  <2>1. CASE i = Len(up.sent) + 1
    BY <1>2, <1>3, <1>4, <2>1
  <2>2. CASE i # Len(up.sent) + 1
    BY <1>1, <1>2, <1>4, <2>2 DEF SendInv
  <2> QED
    BY <2>1, <2>2
<1> HIDE DEF sent
<1>7. Kind[up.t] # "gcs" =>
        /\ up.offset = 0 \/ up.offset <= Len(share[up.t])
        /\ new \in Seq(Blocks) /\ Len(new) = up.offset + Len(sent)
        /\ \A i \in 1 .. up.offset : new[i] = share[up.t][i]
        /\ \A i \in 1 .. Len(sent) : new[up.offset + i] = sent[i]
  <2> SUFFICES ASSUME Kind[up.t] # "gcs"
               PROVE  /\ up.offset = 0 \/ up.offset <= Len(share[up.t])
                      /\ new \in Seq(Blocks) /\ Len(new) = up.offset + Len(sent)
                      /\ \A i \in 1 .. up.offset : new[i] = share[up.t][i]
                      /\ \A i \in 1 .. Len(sent) : new[up.offset + i] = sent[i]
    OBVIOUS
  <2>1. up.offset = 0 \/ up.offset <= Len(share[up.t])
    BY <1>1, <1>2 DEF SendInv
  <2>2. share[up.t] \in Seq(Blocks)
    BY <1>2, ShareProperties
  <2> QED
    BY <1>2, <1>4, <2>1, <2>2, WrittenProperties
<1>8. up.t \in InPlace => Kind[up.t] # "gcs"
  BY <1>2, ShareAssumption
<1> HIDE DEF new
<1>9. share' \in [Targets -> Seq(Blocks)]
  BY <1>1, <1>2, <1>7, <1>8 DEF TransferTypeOK
<1>10. Kind[up.t] = "gcs" =>
         /\ session' \in Sessions /\ session'.open /\ session'.total = session.total
         /\ session'.held = Append(session.held, block)
         /\ Len(session.held) = up.offset + Len(up.sent)
         /\ Len(session'.held) = up.offset + Len(sent)
  <2> SUFFICES ASSUME Kind[up.t] = "gcs"
               PROVE  /\ session' \in Sessions /\ session'.open /\ session'.total = session.total
                      /\ session'.held = Append(session.held, block)
                      /\ Len(session.held) = up.offset + Len(up.sent)
                      /\ Len(session'.held) = up.offset + Len(sent)
    OBVIOUS
  <2>1. session.open /\ Len(session.held) = up.offset + Len(up.sent)
    BY <1>1 DEF SendInv
  <2>2. session' = [open |-> TRUE, t |-> session.t, total |-> session.total,
                    held |-> Append(session.held, block)]
    BY <1>1, <2>1, SessionProperties
  <2>3. Append(session.held, block) \in Seq(Blocks)
        /\ Len(Append(session.held, block)) = Len(session.held) + 1
    BY <1>3, <2>1, SessionProperties, AppendProperties
  <2> QED
    BY <1>2, <1>4, <2>1, <2>2, <2>3, SessionProperties DEF Sessions
<1>11. TransferTypeOK'
  <2>1. up' \in Uploads
    BY <1>2, <1>4, <1>5 DEF Uploads
  <2>2. session' \in Sessions
    BY <1>1, <1>10 DEF TransferTypeOK
  <2> QED
    BY <1>1, <1>9, <2>1, <2>2, DisturbedFrame DEF TransferTypeOK
<1>12. VersionInv'
  BY <1>1, <1>5 DEF VersionInv
<1>13. SendInv'
  <2>1. Total' = Total /\ Total \in Nat /\ Len(sent) \in Nat
    BY <1>1, <1>2, <1>4, TotalProperties DEF Total
  <2>2. up'.offset + Len(up'.sent) <= Total
    BY <1>1, <1>2, <1>4, <1>5, <2>1
  <2>3. \A i \in 1 .. Len(up'.sent) : up'.sent[i] = <<version', up'.offset + i>>
    BY <1>1, <1>5, <1>6
  <2>4. ~Resumes(up'.t) => up'.offset = 0
    BY <1>1, <1>5 DEF SendInv
  <2>5. CASE Kind[up.t] = "gcs"
    BY <1>5, <1>10, <2>1, <2>2, <2>3, <2>4, <2>5 DEF SendInv, Resumes
  <2>6. CASE Kind[up.t] # "gcs" /\ up.t \in InPlace
    <3>1. share'[up.t] = new
      BY <1>1, <1>2, <2>6 DEF TransferTypeOK
    <3>2. Continues(share[up.t])'
      BY <1>5, <1>7, <2>6, <3>1 DEF Continues
    <3>3. up.offset > 0 => Exists(new) /\ up.offset <= Len(new)
      <4> SUFFICES ASSUME up.offset > 0 PROVE Exists(new) /\ up.offset <= Len(new)
        OBVIOUS
      <4>1. Len(new) = up.offset + Len(sent) /\ Len(sent) > 0
        BY <1>2, <1>4, <1>7, <2>6
      <4>2. Len(Nothing) = 1
        BY NothingIsAFile
      <4>3. Len(new) > 1 /\ up.offset <= Len(new)
        BY <1>2, <1>4, <4>1
      <4>4. ASSUME new = Nothing PROVE FALSE
        <5>1. Len(new) = 1
          BY <4>2, <4>4, Zenon
        <5> QED
          BY <4>3, <5>1
      <4> QED
        BY <4>3, <4>4 DEF Exists
    <3> QED
      BY <1>5, <2>1, <2>2, <2>3, <2>4, <2>6, <3>1, <3>2, <3>3 DEF SendInv, Resumes
  <2>7. CASE Kind[up.t] # "gcs" /\ up.t \notin InPlace
    BY <1>1, <1>5, <2>1, <2>2, <2>3, <2>4, <2>7 DEF SendInv, Resumes
  <2> QED
    BY <2>5, <2>6, <2>7
<1>14. CopiesInv'
  <2>1. /\ version \in Versions /\ version \in 1 .. version /\ Total = Length[version] /\ Total \in Nat
        /\ version \in Nat
    BY <1>1, TotalProperties, Counted
  <2>2. Kind[up.t] = "gcs" => Fits(session'.held) /\ (stable => session'.total = Length[1])
    <3> SUFFICES ASSUME Kind[up.t] = "gcs"
                 PROVE  Fits(session'.held) /\ (stable => session'.total = Length[1])
      OBVIOUS
    <3>1. /\ Fits(session.held) /\ (stable => session.total = Length[1])
          /\ session.held \in Seq(Blocks) /\ Len(session.held) = up.offset + Len(up.sent)
      BY <1>1, SessionProperties DEF SendInv
    <3>2. Len(session.held) + 1 <= Length[version] /\ block = <<version, Len(session.held) + 1>>
      BY <1>1, <1>2, <2>1, <3>1
    <3> HIDE DEF block
    <3>3. Fits(Append(session.held, block))
      BY <1>3, <2>1, <3>1, <3>2, FitsAppend
    <3> QED
      BY <1>10, <3>1, <3>3
  <2>3. up.t \in InPlace => Fits(new)
    <3> SUFFICES ASSUME up.t \in InPlace PROVE Fits(new)
      OBVIOUS
    <3>1. up.offset > 0 => Fits(share[up.t]) /\ up.offset <= Len(share[up.t])
      BY <1>1, <1>2, <1>8, ShareProperties DEF SendInv
    <3>2. share[up.t] \in Seq(Blocks) /\ up.offset + Len(sent) <= Length[version]
      BY <1>1, <1>2, <1>4, <2>1, ShareProperties
    <3> QED
      BY <1>2, <1>4, <1>6, <2>1, <3>1, <3>2, WrittenFits DEF new
  <2>4. \A t \in Targets : share'[t] = IF t = up.t /\ up.t \in InPlace THEN new ELSE share[t]
    BY <1>1, <1>2 DEF TransferTypeOK
  <2>5. session'.open => Fits(session'.held) /\ (stable => session'.total = Length[1])
    BY <1>1, <2>2 DEF CopiesInv
  <2> QED
    BY <1>1, <2>3, <2>4, <2>5 DEF CopiesInv, Fits
<1>15. ReportedIsWhole'
  BY <1>1 DEF ReportedIsWhole, Resumes
<1> QED
  BY <1>1, <1>11, <1>12, <1>13, <1>14, <1>15, DisturbedFrame

\* What the share has when everything was sent.
LEMMA SentFile ==
  ASSUME TransferInv, up.pc = "send", up.offset + Len(up.sent) = Total, Kind[up.t] # "gcs",
         NEW file,
         file = IF up.t \in InPlace THEN share[up.t] ELSE Written(share[up.t], up.sent)
  PROVE  /\ file \in Seq(Blocks)
         /\ Exists(file) => Fits(file)
         /\ stable \/ ~Resumes(up.t) => Whole(file)
<1>1. /\ up.t \in Targets /\ up.offset \in Nat /\ up.sent \in Seq(Blocks) /\ Len(up.sent) \in Nat
      /\ share[up.t] \in Seq(Blocks) /\ Len(share[up.t]) \in Nat
  BY UploadStates, ShareProperties
<1>2. /\ version \in Versions /\ Total \in Nat /\ Total > 0 /\ Total = Length[version]
      /\ stable => version = 1 /\ Total = Length[1]
  BY TotalProperties DEF Total
<1>3. /\ \A i \in 1 .. Len(up.sent) : up.sent[i] = <<version, up.offset + i>>
      /\ ~Resumes(up.t) => up.offset = 0
      /\ up.offset > 0 => Exists(share[up.t]) /\ up.offset <= Len(share[up.t])
      /\ up.t \in InPlace /\ up.sent # <<>> => Continues(share[up.t])
  BY DEF SendInv
<1>4. /\ stable /\ Exists(share[up.t]) => Begins(share[up.t])
      /\ Exists(share[up.t]) => Fits(share[up.t])
      /\ stable => version \in Nat /\ version <= 1
  BY <1>1, ShareProperties, Counted
<1>5. CASE up.t \in InPlace
  <2>1. file = share[up.t]
    BY <1>5
  <2>2. up.sent = <<>> => Len(up.sent) = 0
    OBVIOUS
  <2>3. Exists(file) /\ Len(file) >= Total
    <3>1. CASE up.sent = <<>>
      BY <1>1, <1>2, <1>3, <2>1, <2>2, <3>1
    <3>2. CASE up.sent # <<>>
      <4>1. Len(file) = Total /\ up.sent[Len(up.sent)] = file[Total] /\ Len(up.sent) \in 1 .. Len(up.sent)
        BY <1>1, <1>3, <1>5, <2>1, <3>2 DEF Continues
      <4>2. file[Total] = <<version, Total>>
        BY <1>1, <1>3, <4>1
      <4>3. file # Nothing
        <5>1. ASSUME file = <<<<0, 0>>>> PROVE FALSE
          <6>1. Len(file) = 1 /\ file[1] = <<0, 0>>
            BY <5>1
          <6>2. Total = 1
            BY <4>1, <6>1
          <6> QED
            BY <1>2, <4>2, <6>1, <6>2
        <5> QED
          BY <5>1 DEF Nothing
      <4> QED
        BY <1>2, <4>1, <4>3 DEF Exists
    <3> QED
      BY <3>1, <3>2
  <2>4. CASE stable
    <3>1. Begins(file)
      BY <1>4, <2>1, <2>3, <2>4
    <3>2. Len(file) = Length[1]
      BY <1>1, <1>2, <2>1, <2>3, <2>4, <3>1, BeginsProperties
    <3> QED
      BY <1>1, <1>4, <2>1, <3>1, <3>2, BeginsProperties, ArchiveBegins
  <2>5. CASE ~stable /\ ~Resumes(up.t)
    <3>1. up.offset = 0 /\ Len(up.sent) = Total /\ up.sent # <<>>
      BY <1>1, <1>2, <1>3, <2>2, <2>5
    <3>2. Len(file) = Total /\ \A i \in 1 .. Total : file[0 + i] = up.sent[i]
      BY <1>1, <1>3, <1>5, <2>1, <3>1 DEF Continues
    <3>3. \A i \in 1 .. Len(file) : file[i] = <<version, i>>
      BY <1>2, <1>3, <3>1, <3>2
    <3>4. file = Archive(version)
      BY <1>1, <1>2, <2>1, <3>2, <3>3, SameBlocks
    <3> QED
      BY <1>1, <1>2, <1>4, <2>1, <2>5, <3>4 DEF Whole
  <2> QED
    BY <1>1, <1>4, <2>1, <2>4, <2>5
<1>6. CASE up.t \notin InPlace
  <2>1. file = Written(share[up.t], up.sent)
    BY <1>6
  <2>2. up.offset = 0 \/ up.offset <= Len(share[up.t])
    BY <1>1, <1>3
  <2>3. /\ file \in Seq(Blocks) /\ Len(file) = Total
        /\ \A i \in 1 .. Len(up.sent) : file[up.offset + i] = up.sent[i]
    <3> DEFINE new == Written(share[up.t], up.sent)
    <3>1. /\ new \in Seq(Blocks) /\ Len(new) = up.offset + Len(up.sent)
          /\ \A i \in 1 .. Len(up.sent) : new[up.offset + i] = up.sent[i]
      BY <1>1, <2>2, WrittenProperties
    <3> HIDE DEF new
    <3>2. file = new
      BY <2>1 DEF new
    <3> QED
      BY <3>1, <3>2
  <2>0. Fits(file)
    <3>1. up.offset > 0 => Fits(share[up.t]) /\ up.offset <= Len(share[up.t])
      BY <1>3, <1>4
    <3>2. up.offset + Len(up.sent) <= Length[version]
      BY <1>2
    <3> QED
      BY <1>1, <1>2, <1>3, <2>1, <3>1, <3>2, WrittenFits
  <2>4. CASE stable
    <3>1. Begins(file) /\ Len(file) = Length[1]
      BY <1>2, <1>4, <2>0, <2>3, <2>4, FitsBegins
    <3> QED
      BY <2>0, <2>3, <3>1, BeginsProperties, ArchiveBegins
  <2>5. CASE ~stable /\ ~Resumes(up.t)
    <3>1. up.offset = 0 /\ Len(up.sent) = Total
      BY <1>1, <1>2, <1>3, <2>5
    <3>2. \A i \in 1 .. Len(file) : file[i] = <<version, i>>
      BY <1>2, <1>3, <2>3, <3>1
    <3>3. file = Archive(version)
      BY <1>2, <2>3, <3>2, SameBlocks
    <3> QED
      BY <1>2, <2>0, <2>3, <2>5, <3>3 DEF Whole
  <2> QED
    BY <2>0, <2>3, <2>4, <2>5
<1> QED
  BY <1>5, <1>6

LEMMA SendEndsKeeps ==
  ASSUME TransferInv, SendEnds
  PROVE  TransferInv'
<1> DEFINE t    == IF Kind[up.t] = "gcs" THEN session.t ELSE up.t
           file == IF Kind[up.t] = "gcs" THEN session.held
                   ELSE IF up.t \in InPlace THEN share[up.t]
                   ELSE Written(share[up.t], up.sent)
<1>1. /\ up.pc = "send" /\ up.offset + Len(up.sent) = Total
      /\ share' = CASE Kind[up.t] = "gcs" -> [share EXCEPT ![session.t] = session.held]
                    [] up.t \in InPlace   -> share
                    [] OTHER -> [share EXCEPT ![up.t] = Written(share[up.t], up.sent)]
      /\ \/ Report(t, share'[t]) /\ UNCHANGED faults
         \/ Fault /\ Park /\ UNCHANGED <<reported, session>>
      /\ Disturb
      /\ UNCHANGED <<stable, version, part, kept, dir, calls, removals>>
  BY DEF SendEnds
<1>2. up.t \in Targets /\ share \in [Targets -> Seq(Blocks)]
  BY <1>1, UploadStates DEF TransferTypeOK
<1>3. Kind[up.t] = "gcs" => session.open /\ Len(session.held) = Total
  BY <1>1 DEF SendInv
<1>4. /\ t \in Targets /\ file \in Seq(Blocks)
      /\ Exists(file) => Fits(file)
      /\ stable \/ ~Resumes(up.t) => Whole(file)
  <2>1. CASE Kind[up.t] = "gcs"
    <3>1. t = session.t /\ file = session.held /\ Resumes(up.t)
      BY <2>1 DEF Resumes
    <3>2. t \in Targets /\ file \in Seq(Blocks) /\ Fits(file)
          /\ (stable => Begins(file) /\ Len(file) = Length[1])
      BY <1>1, <1>3, <2>1, <3>1, SessionProperties, TotalProperties
    <3> QED
      BY <3>1, <3>2, BeginsProperties, ArchiveBegins
  <2>2. CASE Kind[up.t] # "gcs"
    <3>1. t = up.t /\ file = IF up.t \in InPlace THEN share[up.t] ELSE Written(share[up.t], up.sent)
      BY <2>2
    <3> HIDE DEF file
    <3> QED
      BY <1>1, <1>2, <2>2, <3>1, SentFile
  <2> QED
    BY <2>1, <2>2
<1>5. up.t \in InPlace => Kind[up.t] # "gcs"
  BY <1>2, ShareAssumption
<1>6. share' = [share EXCEPT ![t] = file]
  <2>1. CASE Kind[up.t] = "gcs"
    BY <1>1, <1>5, <2>1
  <2>2. CASE Kind[up.t] # "gcs" /\ up.t \in InPlace
    <3>1. share' = share /\ t = up.t /\ file = share[up.t]
      BY <1>1, <2>2
    <3> QED
      BY <1>2, <3>1
  <2>3. CASE Kind[up.t] # "gcs" /\ up.t \notin InPlace
    BY <1>1, <2>3
  <2> QED
    BY <2>1, <2>2, <2>3
<1> HIDE DEF t, file
<1>7. share' \in [Targets -> Seq(Blocks)] /\ share'[t] = file
  BY <1>2, <1>4, <1>6
<1>8. /\ up' \in Uploads /\ reported' \in Reports /\ session' \in Sessions
      /\ session' \in {session, NoSession} /\ ~NoSession.open
      /\ up'.pc \in {"uploaded", "parked"} /\ ReportedIsWhole' /\ faults' \in 0 .. MaxFaults
  <2>1. CASE Report(t, share'[t]) /\ UNCHANGED faults
    BY <1>1, <1>4, <1>7, <2>1, ReportKeeps DEF TransferTypeOK
  <2>2. CASE Fault /\ Park /\ UNCHANGED <<reported, session>>
    <3>1. up' \in Uploads /\ up'.pc = "parked" /\ ~NoSession.open
      BY <2>2 DEF Park, Uploads, NoSession
    <3> QED
      BY <1>1, <2>2, <3>1, FaultTypes DEF TransferTypeOK, ReportedIsWhole, Resumes
  <2> QED
    BY <1>1, <2>1, <2>2
<1>9. TransferTypeOK'
  BY <1>1, <1>7, <1>8, DisturbedFrame DEF TransferTypeOK
<1>10. VersionInv' /\ SendInv'
  BY <1>1, <1>8 DEF VersionInv, SendInv
<1>11. CopiesInv'
  <2>1. \A u \in Targets : share'[u] = IF u = t THEN file ELSE share[u]
    BY <1>2, <1>6
  <2> QED
    BY <1>1, <1>4, <1>8, <2>1 DEF CopiesInv, Fits
<1> QED
  BY <1>1, <1>8, <1>9, <1>10, <1>11, DisturbedFrame

-----------------------------------------------------------------------------
(* The user's commands.                                                    *)

LEMMA RemoveArchiveKeeps ==
  ASSUME TransferInv, NEW t \in Targets, RemoveArchive(t)
  PROVE  TransferInv'
<1> USE DEF RemoveArchive
<1>1. share' \in [Targets -> Seq(Blocks)] /\ share'[t] = Nothing
      /\ \A u \in Targets : u # t => share'[u] = share[u]
  BY NothingIsAFile DEF TransferTypeOK
<1>2. removals' \in 0 .. MaxRemovals
  BY ShareAssumption DEF TransferTypeOK
<1>3. TransferTypeOK'
  BY <1>1, <1>2, DisturbedFrame DEF TransferTypeOK
<1>4. VersionInv' /\ SendInv'
  BY DEF VersionInv, SendInv
<1>5. CopiesInv' /\ ReportedIsWhole'
  BY <1>1 DEF CopiesInv, ReportedIsWhole, Resumes, Exists, Fits
<1> QED
  BY <1>3, <1>4, <1>5, DisturbedFrame

LEMMA CallShape ==
  ASSUME TransferInv
  PROVE  /\ call = [pc |-> call.pc, result |-> call.result, from |-> call.from,
                    force |-> call.force, keep |-> call.keep, offset |-> call.offset,
                    at |-> call.at, source |-> call.source, calm |-> call.calm,
                    left |-> call.left]
         /\ call \in Calls
         /\ call.offset \in Nat /\ call.at \in Nat /\ call.source \in Seq(Blocks)
         /\ part \in Seq(Blocks) /\ Len(part) \in Nat
BY DEF TransferTypeOK, Calls

\* A step of a command that keeps its call in order keeps the invariant.
LEMMA DownloadStep ==
  ASSUME TransferInv, UNCHANGED <<uploadVars, share>>,
         part' \in Seq(Blocks), kept' \in Seq(Blocks),
         dir' \in {"none", "partial", "mixed", "whole"}, call' \in Calls,
         faults' \in 0 .. MaxFaults, calls' \in 0 .. MaxCalls, UNCHANGED removals,
         DownloadInv', CalmInv', PartIsInPlace', ForcedCallRecovers'
  PROVE  TransferInv'
<1>1. TransferTypeOK'
  BY DEF TransferTypeOK
<1> QED
  BY <1>1, UploadFrame

LEMMA NoCallIsACall ==
  /\ NoCall \in Calls /\ NoCall.pc = "idle" /\ NoCall.calm = FALSE
  /\ NoCall = [pc |-> "idle", result |-> "none", from |-> "nowhere", force |-> FALSE,
               keep |-> FALSE, offset |-> 0, at |-> 0, source |-> <<>>,
               calm |-> FALSE, left |-> "fits"]
BY NothingIsAFile DEF NoCall, Calls

\* The end of a call; a forced one that nothing disturbed fails only as it may.
LEMMA EndCallKeeps ==
  ASSUME TransferInv, call.pc # "idle",
         NEW result \in {"ok", "skipped", "failed", "lost"}, EndCall(result),
         UNCHANGED version,
         result = "failed" /\ call.calm =>
           \/ call.left = "complete" /\ Kind[call.from] \in {"gcs", "nextcloud"}
           \/ call.left = "foreign"
  PROVE  call' \in Calls /\ DownloadInv' /\ CalmInv' /\ ForcedCallRecovers'
<1>1. call' = [pc |-> "idle", result |-> result, from |-> call.from, force |-> call.force,
               keep |-> FALSE, offset |-> 0, at |-> 0, source |-> <<>>,
               calm |-> call.calm, left |-> call.left]
  BY NoCallIsACall DEF EndCall
<1>2. call' \in Calls
  BY <1>1, CallShape, NothingIsAFile DEF Calls
<1>3. DownloadInv' /\ CalmInv'
  BY <1>1 DEF DownloadInv, CalmInv
<1>4. ForcedCallRecovers'
  BY <1>1 DEF ForcedCallRecovers, CalmInv
<1> QED
  BY <1>2, <1>3, <1>4

\* What begins a file and is as long is all of it.
LEMMA SameLength ==
  ASSUME NEW f \in Seq(Blocks), NEW g \in Seq(Blocks), IsPrefixOf(f, g), Len(f) >= Len(g)
  PROVE  f = g
<1>1. Len(f) \in Nat /\ Len(g) \in Nat /\ Len(f) <= Len(g) /\ \A i \in 1 .. Len(f) : f[i] = g[i]
  BY DEF IsPrefixOf
<1>2. Len(f) = Len(g)
  BY <1>1
<1> QED
  BY <1>1, <1>2, SeqEqual

\* What an undisturbed call has before it is a whole archive.
LEMMA CalmProperties ==
  ASSUME TransferInv, call.calm, call.pc # "idle"
  PROVE  /\ call.from \in Targets /\ Whole(Source) /\ Exists(Source)
         /\ Source \in Seq(Blocks) /\ Len(Source) \in Nat /\ Len(Source) > 0
         /\ call.pc = "receive" => call.source = Source
         /\ call.left # "foreign" =>
              /\ Exists(part) => IsPrefixOf(part, Source)
              /\ call.pc \in {"extract", "unpack"} => part = Source
<1>1. call.from \in Targets /\ Whole(Source)
  BY DEF CalmInv
<1>2. PICK v \in Versions : Source = Archive(v)
  BY <1>1 DEF Whole
<1> QED
  BY <1>1, <1>2, ArchiveProperties, WholeExists DEF CalmInv

LEMMA DownloadKeeps ==
  ASSUME TransferInv, NEW t \in Targets, NEW force \in BOOLEAN, NEW keep \in BOOLEAN,
         Download(t, force, keep)
  PROVE  TransferInv'
<1>0. /\ UNCHANGED <<uploadVars, share, part, kept, dir, faults, removals>>
      /\ calls < MaxCalls /\ calls' = calls + 1
  BY DEF Download
<1>1. call' = [pc |-> IF dir # "none" /\ ~force THEN "skip" ELSE "open", result |-> "none",
               from |-> t, force |-> force, keep |-> keep, offset |-> Size(part), at |-> 0,
               source |-> <<>>, calm |-> Whole(share[t]),
               left |-> Left(share[t])]
  BY NoCallIsACall DEF Download
<1>2. /\ Size(part) \in Nat /\ Whole(share[t]) \in BOOLEAN
      /\ Left(share[t]) \in {"fits", "complete", "foreign"}
  BY CallShape DEF Size, Whole, Left
<1>3. call' \in Calls
  BY <1>1, <1>2, CallShape, NothingIsAFile DEF Calls
<1>4. DownloadInv'
  BY <1>0, <1>1 DEF DownloadInv
<1>5. CalmInv'
  <2>1. Left(share[t]) # "foreign" /\ Exists(part) => IsPrefixOf(part, share[t])
    <3>1. share[t] \in Seq(Blocks) /\ Len(share[t]) \in Nat /\ Len(share[t]) <= Len(share[t])
      BY ShareProperties
    <3> QED
      BY <3>1 DEF Left, IsPrefixOf
  <2>2. part = share[t] => Left(share[t]) = "complete"
    BY DEF Left
  <2>3. Whole(share[t]) /\ Left(share[t]) = "foreign" => version > 1
    <3> SUFFICES ASSUME Whole(share[t]), Exists(part), version <= 1
                 PROVE  IsPrefixOf(part, share[t])
      BY Counted DEF Left
    <3>1. Exists(share[t]) /\ share[t] \in Seq(Blocks) /\ Begins(share[t])
      BY WholeExists, ShareProperties
    <3>2. share[t] = Archive(1)
      BY <3>1, BeginsProperties
    <3>3. Begins(part)
      BY CallShape, FitsBegins, Counted DEF PartIsInPlace
    <3> QED
      BY <3>2, <3>3 DEF Begins
  <2>4. (Source = share[t])'
    BY <1>0, <1>1 DEF Source
  <2> QED
    BY <1>0, <1>1, <2>1, <2>2, <2>3, <2>4 DEF CalmInv
<1>6. PartIsInPlace' /\ ForcedCallRecovers'
  BY <1>0, <1>1 DEF PartIsInPlace, ForcedCallRecovers, Fits
<1>7. calls' \in 0 .. MaxCalls
  BY <1>0, ShareAssumption DEF TransferTypeOK
<1> QED
  BY <1>0, <1>3, <1>4, <1>5, <1>6, <1>7, DownloadStep DEF TransferTypeOK

LEMMA ImportKeeps ==
  ASSUME TransferInv, NEW force \in BOOLEAN, Import(force)
  PROVE  TransferInv'
<1>0. /\ UNCHANGED <<uploadVars, share, part, kept, faults, removals>>
      /\ calls < MaxCalls /\ calls' = calls + 1 /\ dir' = "none"
  BY DEF Import
<1>1. call' = [pc |-> "import", result |-> "none", from |-> "nowhere", force |-> force,
               keep |-> FALSE, offset |-> 0, at |-> 0, source |-> <<>>,
               calm |-> FALSE, left |-> "fits"]
  BY NoCallIsACall DEF Import
<1>2. call' \in Calls
  BY <1>1, NothingIsAFile DEF Calls
<1>3. DownloadInv' /\ CalmInv' /\ PartIsInPlace' /\ ForcedCallRecovers'
  BY <1>0, <1>1 DEF DownloadInv, CalmInv, PartIsInPlace, ForcedCallRecovers, Fits
<1>4. calls' \in 0 .. MaxCalls
  BY <1>0, ShareAssumption DEF TransferTypeOK
<1> QED
  BY <1>0, <1>2, <1>3, <1>4, DownloadStep DEF TransferTypeOK

LEMMA SkipOrNotFoundKeeps ==
  ASSUME TransferInv, Skip \/ NotFound
  PROVE  TransferInv'
<1> USE DEF Skip, NotFound, At
<1>1. call.pc # "idle" /\ UNCHANGED <<uploadVars, share, part, kept, dir, calls, faults, removals>>
  OBVIOUS
<1>2. call' \in Calls /\ DownloadInv' /\ CalmInv' /\ ForcedCallRecovers'
  BY <1>1, EndCallKeeps, CalmProperties
<1>3. PartIsInPlace'
  BY <1>1 DEF PartIsInPlace, Fits
<1> QED
  BY <1>1, <1>2, <1>3, DownloadStep DEF TransferTypeOK

\* Opening ends the call, resumes behind the `.part' file or begins anew.
LEMMA OpenKeeps ==
  ASSUME TransferInv, Open
  PROVE  TransferInv'
<1> DEFINE past    == call.offset > 0 /\ call.offset >= Len(Source)
           honours == call.from \in Ranged
           k       == Kind[call.from]
<1>1. /\ call.pc = "open" /\ Exists(Source)
      /\ UNCHANGED <<uploadVars, share, kept, dir, calls, faults, removals>>
      /\ \/ /\ past /\ k = "webdav" /\ honours
            /\ call' = [call EXCEPT !.pc = "extract"] /\ UNCHANGED part
         \/ /\ past /\ k \in {"gcs", "nextcloud"}
            /\ EndCall("failed") /\ UNCHANGED part
         \/ /\ call.offset > 0 /\ honours /\ (past => k = "sftp")
            /\ Receive(call.offset) /\ UNCHANGED part
         \/ /\ call.offset = 0 \/ ~honours
            /\ Receive(0) /\ part' = <<>>
  BY DEF Open, At
<1>2. /\ call.from \in Targets /\ call.offset = Size(part)
      /\ call.result = "none"
  BY <1>1 DEF DownloadInv
<1>3. Source \in Seq(Blocks) /\ Fits(Source)
  BY <1>1, <1>2, ShareProperties DEF Source
<1>4. call.offset > 0 => Exists(part) /\ call.offset = Len(part)
  BY <1>2, CallShape DEF Size
<1>5. call.calm /\ past /\ call.left # "foreign" => part = Source
  <2> SUFFICES ASSUME call.calm, past, call.left # "foreign" PROVE part = Source
    OBVIOUS
  <2>1. IsPrefixOf(part, Source) /\ Len(part) >= Len(Source)
    BY <1>1, <1>4, CalmProperties
  <2> QED
    BY <1>3, <2>1, CallShape, SameLength
<1>6. CASE past /\ k = "webdav" /\ call' = [call EXCEPT !.pc = "extract"] /\ UNCHANGED part
  <2>1. call' = [pc |-> "extract", result |-> call.result, from |-> call.from,
                 force |-> call.force, keep |-> call.keep, offset |-> call.offset,
                 at |-> call.at, source |-> call.source, calm |-> call.calm,
                 left |-> call.left]
    BY <1>6, CallShape
  <2>2. call' \in Calls
    BY <2>1, CallShape DEF Calls
  <2>3. DownloadInv'
    BY <1>2, <2>1 DEF DownloadInv
  <2>4. CalmInv'
    BY <1>1, <1>5, <1>6, <2>1 DEF CalmInv, Source
  <2>5. PartIsInPlace' /\ ForcedCallRecovers'
    BY <1>1, <1>2, <1>6, <2>1 DEF PartIsInPlace, ForcedCallRecovers, Fits
  <2> QED
    BY <1>1, <1>6, <2>2, <2>3, <2>4, <2>5, DownloadStep DEF TransferTypeOK
<1>7. CASE past /\ k \in {"gcs", "nextcloud"} /\ EndCall("failed") /\ UNCHANGED part
  <2>1. call.calm => call.left \in {"complete", "foreign"}
    BY <1>1, <1>5, <1>7 DEF CalmInv
  <2>2. call' \in Calls /\ DownloadInv' /\ CalmInv' /\ ForcedCallRecovers'
    BY <1>1, <1>7, <2>1, EndCallKeeps
  <2>3. PartIsInPlace'
    BY <1>1, <1>7 DEF PartIsInPlace, Fits
  <2> QED
    BY <1>1, <1>7, <2>2, <2>3, DownloadStep DEF TransferTypeOK
<1>8. CASE \/ call.offset > 0 /\ Receive(call.offset) /\ UNCHANGED part
           \/ Receive(0) /\ part' = <<>>
  <2>1. PICK offset \in Nat : /\ Receive(offset) /\ part' \in Seq(Blocks)
                              /\ Exists(part') /\ Len(part') = offset
                              /\ part' = part \/ part' = <<>>
    <3>1. Exists(<<>>) /\ Len(<<>>) = 0
      BY DEF Exists, Nothing
    <3> QED
      BY <1>4, <1>8, <3>1, CallShape, NothingIsAFile
  <2>2. call' = [pc |-> "receive", result |-> call.result, from |-> call.from,
                 force |-> call.force, keep |-> call.keep, offset |-> offset,
                 at |-> offset, source |-> Source, calm |-> call.calm,
                 left |-> call.left]
    BY <2>1, CallShape DEF Receive
  <2>3. call' \in Calls
    BY <1>3, <2>2, CallShape DEF Calls
  <2>4. DownloadInv'
    BY <1>1, <1>2, <1>3, <2>1, <2>2 DEF DownloadInv, Fits
  <2>5. CalmInv'
    <3>1. call.calm => IsPrefixOf(<<>>, Source)
      BY <1>1, CalmProperties DEF IsPrefixOf
    <3>2. (Source' = Source) /\ (part' = part => Exists(part))
      BY <1>1, <2>1, <2>2 DEF Source
    <3> QED
      BY <1>1, <2>1, <2>2, <3>1, <3>2 DEF CalmInv
  <2>6. PartIsInPlace' /\ ForcedCallRecovers'
    BY <1>1, <1>2, <2>1, <2>2, EmptyFits DEF PartIsInPlace, ForcedCallRecovers, Fits
  <2> QED
    BY <1>1, <2>1, <2>3, <2>4, <2>5, <2>6, DownloadStep DEF TransferTypeOK
<1> QED
  BY <1>1, <1>6, <1>7, <1>8

LEMMA ReceiveBlockKeeps ==
  ASSUME TransferInv, ReceiveBlock
  PROVE  TransferInv'
<1>1. /\ call.pc = "receive" /\ call.at < LastBlock
      /\ IF Exists(Served) /\ call.at < Len(Served)
           THEN /\ part' = Append(part, Served[call.at + 1])
                /\ call' = [call EXCEPT !.at = @ + 1]
           ELSE EndCall("failed") /\ UNCHANGED part
      /\ UNCHANGED <<uploadVars, share, kept, dir, calls, faults, removals>>
  BY DEF ReceiveBlock, At
<1>2. call.from \in Targets /\ call.result = "none"
      /\ Fits(call.source) /\ Exists(part) /\ Len(part) = call.at
  BY <1>1 DEF DownloadInv
<1>3. Source \in Seq(Blocks) /\ (Exists(Source) => Fits(Source))
  BY <1>2, ShareProperties DEF Source
<1>4. Served \in Seq(Blocks) /\ (Exists(Served) => Fits(Served))
  BY <1>2, <1>3, CallShape DEF Served
<1>5. CASE Exists(Served) /\ call.at < Len(Served)
  <2> DEFINE new == Append(part, Served[call.at + 1])
  <2>1. part' = new /\ call' = [pc |-> "receive", result |-> call.result, from |-> call.from,
                 force |-> call.force, keep |-> call.keep, offset |-> call.offset,
                 at |-> call.at + 1, source |-> call.source, calm |-> call.calm,
                 left |-> call.left]
    BY <1>1, <1>5, CallShape
  <2>2. call.at + 1 \in 1 .. Len(Served) /\ Served[call.at + 1] \in Blocks
    BY <1>4, <1>5, CallShape, ElementOfSeq
  <2>3. new \in Seq(Blocks) /\ Len(new) = Len(part) + 1
    BY <2>2, CallShape, AppendProperties
  <2>4. Fits(new)
    <3>1. Fits(part) /\ Fits(Served) /\ Len(part) = call.at
      BY <1>2, <1>4, <1>5 DEF PartIsInPlace
    <3>2. PICK v \in 1 .. version : /\ call.at + 1 <= Length[v]
                                    /\ Served[call.at + 1] = <<v, call.at + 1>>
      BY <2>2, <3>1 DEF Fits
    <3> QED
      BY <2>2, <3>1, <3>2, CallShape, Counted, FitsAppend
  <2>9. call.calm /\ call.left # "foreign" => IsPrefixOf(new, Source)
    <3> SUFFICES ASSUME call.calm, call.left # "foreign" PROVE IsPrefixOf(new, Source)
      OBVIOUS
    <3>1. call.source = Source /\ IsPrefixOf(part, Source) /\ Len(Source) \in Nat
      BY <1>1, <1>2, CalmProperties
    <3>2. Served = Source
      BY <3>1 DEF Served
    <3>3. /\ \A i \in 1 .. Len(part) : new[i] = part[i]
          /\ new[Len(part) + 1] = Served[call.at + 1]
      BY <2>2, CallShape, AppendProperties
    <3>4. /\ Len(new) = Len(part) + 1 /\ Len(part) = call.at /\ Len(part) \in Nat
          /\ Len(new) <= Len(Source)
      BY <1>2, <1>5, <2>3, <3>1, <3>2, CallShape
    <3> HIDE DEF new
    <3>5. ASSUME NEW i \in 1 .. Len(new) PROVE new[i] = Source[i]
      <4>1. CASE i = Len(part) + 1
        BY <3>2, <3>3, <3>4, <4>1
      <4>2. CASE i # Len(part) + 1
        BY <3>1, <3>3, <3>4, <4>2 DEF IsPrefixOf
      <4> QED
        BY <4>1, <4>2
    <3> QED
      BY <3>4, <3>5 DEF IsPrefixOf
  <2> HIDE DEF new
  <2>5. call' \in Calls
    BY <2>1, CallShape DEF Calls
  <2>10. Exists(new)
    BY <2>3, <2>4, Counted, FitsExists
  <2>6. DownloadInv'
    BY <1>1, <1>2, <2>1, <2>3, <2>10 DEF DownloadInv, Fits
  <2>7. CalmInv'
    <3>1. Source' = Source
      BY <1>1, <2>1 DEF Source
    <3> QED
      BY <1>1, <2>1, <2>9, <3>1 DEF CalmInv
  <2>8. PartIsInPlace' /\ ForcedCallRecovers'
    BY <1>1, <1>2, <2>1, <2>4 DEF PartIsInPlace, ForcedCallRecovers, Fits
  <2> QED
    BY <1>1, <2>1, <2>3, <2>5, <2>6, <2>7, <2>8, DownloadStep DEF TransferTypeOK
<1>6. CASE ~(Exists(Served) /\ call.at < Len(Served))
  <2>1. EndCall("failed") /\ UNCHANGED part
    BY <1>1, <1>6
  <2>2. ~call.calm
    <3> SUFFICES ASSUME call.calm PROVE FALSE
      OBVIOUS
    <3>1. call.source = Source /\ Exists(Source)
      BY <1>1, CalmProperties
    <3>2. Served = Source /\ LastBlock = Len(Source)
      BY <3>1 DEF Served, LastBlock
    <3> QED
      BY <1>1, <1>6, <3>1, <3>2
  <2>3. call' \in Calls /\ DownloadInv' /\ CalmInv' /\ ForcedCallRecovers'
    BY <1>1, <2>1, <2>2, EndCallKeeps
  <2>4. PartIsInPlace'
    BY <1>1, <2>1 DEF PartIsInPlace, Fits
  <2> QED
    BY <1>1, <2>1, <2>3, <2>4, DownloadStep DEF TransferTypeOK
<1> QED
  BY <1>5, <1>6

\* A call with the same .part file goes on to extract or unpack it.
LEMMA GoOnKeeps ==
  ASSUME TransferInv, UNCHANGED <<uploadVars, share, part, kept, calls, removals>>,
         call.pc \in {"receive", "extract"}, NEW step \in {"extract", "unpack"},
         NEW calm \in BOOLEAN,
         calm => call.calm /\ (call.left # "foreign" => part = Source),
         call' = [pc |-> step, result |-> call.result, from |-> call.from,
                  force |-> call.force, keep |-> call.keep, offset |-> call.offset,
                  at |-> call.at, source |-> call.source, calm |-> calm,
                  left |-> call.left],
         dir' \in {"none", "partial", "mixed", "whole"}, faults' \in 0 .. MaxFaults
  PROVE  TransferInv'
<1>1. call' \in Calls
  BY CallShape DEF Calls
<1>2. DownloadInv'
  BY DEF DownloadInv
<1>3. CalmInv'
  BY DEF CalmInv, Source
<1>4. PartIsInPlace' /\ ForcedCallRecovers'
  BY DEF PartIsInPlace, ForcedCallRecovers, DownloadInv, Fits
<1> QED
  BY <1>1, <1>2, <1>3, <1>4, DownloadStep DEF TransferTypeOK

LEMMA ReceivedKeeps ==
  ASSUME TransferInv, Received
  PROVE  TransferInv'
<1>1. /\ call.pc = "receive" /\ call.at >= LastBlock /\ call' = [call EXCEPT !.pc = "extract"]
      /\ UNCHANGED <<uploadVars, share, part, kept, dir, calls, faults, removals>>
  BY DEF Received, At
<1>2. call' = [pc |-> "extract", result |-> call.result, from |-> call.from,
               force |-> call.force, keep |-> call.keep, offset |-> call.offset,
               at |-> call.at, source |-> call.source, calm |-> call.calm,
               left |-> call.left]
  BY <1>1, CallShape
<1>3. call.calm /\ call.left # "foreign" => part = Source
  <2> SUFFICES ASSUME call.calm, call.left # "foreign" PROVE part = Source
    OBVIOUS
  <2>1. call.source = Source /\ Source \in Seq(Blocks) /\ LastBlock = Len(Source)
    BY <1>1, CalmProperties DEF LastBlock
  <2>2. Exists(part) /\ Len(part) = call.at
    BY <1>1 DEF DownloadInv
  <2>3. IsPrefixOf(part, Source) /\ Len(part) >= Len(Source)
    BY <1>1, <2>1, <2>2, CalmProperties
  <2> QED
    BY <2>1, <2>3, CallShape, SameLength
<1>4. call.calm \in BOOLEAN
  BY CallShape DEF Calls
<1> QED
  BY <1>1, <1>2, <1>3, <1>4, GoOnKeeps DEF TransferTypeOK

LEMMA ConnectionLostKeeps ==
  ASSUME TransferInv, ConnectionLost
  PROVE  TransferInv'
<1>1. /\ call.pc = "receive" /\ Fault
      /\ UNCHANGED <<uploadVars, share, part, kept, dir, calls, removals>>
      /\ \/ EndCall("lost")
         \/ call' = [call EXCEPT !.pc = "extract", !.calm = FALSE]
  BY DEF ConnectionLost, At
<1>2. CASE EndCall("lost")
  <2>1. call' \in Calls /\ DownloadInv' /\ CalmInv' /\ ForcedCallRecovers'
    BY <1>1, <1>2, EndCallKeeps
  <2>2. PartIsInPlace'
    BY <1>1 DEF PartIsInPlace, Fits
  <2> QED
    BY <1>1, <2>1, <2>2, DownloadStep, FaultTypes DEF TransferTypeOK
<1>3. CASE call' = [call EXCEPT !.pc = "extract", !.calm = FALSE]
  <2>1. call' = [pc |-> "extract", result |-> call.result, from |-> call.from,
                 force |-> call.force, keep |-> call.keep, offset |-> call.offset,
                 at |-> call.at, source |-> call.source, calm |-> FALSE,
                 left |-> call.left]
    BY <1>3, CallShape
  <2> QED
    BY <1>1, <2>1, GoOnKeeps, FaultTypes DEF TransferTypeOK
<1> QED
  BY <1>1, <1>2, <1>3

LEMMA ExtractKeeps ==
  ASSUME TransferInv, Extract
  PROVE  TransferInv'
<1>1. /\ call.pc = "extract"
      /\ UNCHANGED <<uploadVars, share, part, kept, calls, faults, removals>>
      /\ \/ part = <<>> /\ EndCall("failed") /\ UNCHANGED dir
         \/ dir' = "partial" /\ call' = [call EXCEPT !.pc = "unpack"]
  BY DEF Extract, At
<1>2. CASE part = <<>> /\ EndCall("failed") /\ UNCHANGED dir
  <2>1. Len(<<>>) = 0
    OBVIOUS
  <2>2. call.calm => call.left = "foreign"
    BY <1>1, <1>2, <2>1, CalmProperties
  <2>3. call' \in Calls /\ DownloadInv' /\ CalmInv' /\ ForcedCallRecovers'
    BY <1>1, <1>2, <2>2, EndCallKeeps
  <2>4. PartIsInPlace'
    BY <1>1 DEF PartIsInPlace, Fits
  <2> QED
    BY <1>1, <1>2, <2>3, <2>4, DownloadStep DEF TransferTypeOK
<1>3. CASE dir' = "partial" /\ call' = [call EXCEPT !.pc = "unpack"]
  <2>1. call' = [pc |-> "unpack", result |-> call.result, from |-> call.from,
                 force |-> call.force, keep |-> call.keep, offset |-> call.offset,
                 at |-> call.at, source |-> call.source, calm |-> call.calm,
                 left |-> call.left]
    BY <1>3, CallShape
  <2>2. call.calm \in BOOLEAN /\ (call.calm /\ call.left # "foreign" => part = Source)
    BY <1>1, CallShape DEF Calls, CalmInv
  <2> QED
    BY <1>1, <1>3, <2>1, <2>2, GoOnKeeps DEF TransferTypeOK
<1> QED
  BY <1>1, <1>2, <1>3

LEMMA UnpackKeeps ==
  ASSUME TransferInv, Unpack
  PROVE  TransferInv'
<1>1. call.pc = "unpack" /\ UNCHANGED <<uploadVars, share, calls, faults, removals>>
  BY DEF Unpack, At
<1>2. CASE /\ dir' = IF Whole(part) THEN "whole" ELSE "mixed"
           /\ kept' = IF call.keep THEN part ELSE kept
           /\ part' = Nothing
           /\ EndCall("ok")
  <2>1. call' \in Calls /\ DownloadInv' /\ CalmInv' /\ ForcedCallRecovers'
    BY <1>1, <1>2, EndCallKeeps
  <2>2. PartIsInPlace'
    BY <1>2 DEF PartIsInPlace, Exists
  <2>3. kept' \in Seq(Blocks)
    BY <1>2 DEF TransferTypeOK
  <2> QED
    BY <1>1, <1>2, <2>1, <2>2, <2>3, DownloadStep, NothingIsAFile DEF TransferTypeOK
<1>3. CASE ~Whole(part) /\ EndCall("failed") /\ UNCHANGED <<dir, kept, part>>
  <2>1. call.calm => call.left = "foreign"
    BY <1>1, <1>3, CalmProperties
  <2>2. call' \in Calls /\ DownloadInv' /\ CalmInv' /\ ForcedCallRecovers'
    BY <1>1, <1>3, <2>1, EndCallKeeps
  <2>3. PartIsInPlace'
    BY <1>1, <1>3 DEF PartIsInPlace, Fits
  <2> QED
    BY <1>1, <1>3, <2>2, <2>3, DownloadStep DEF TransferTypeOK
<1> QED
  BY <1>2, <1>3 DEF Unpack

LEMMA ImportUnpacksKeeps ==
  ASSUME TransferInv, ImportUnpacks
  PROVE  TransferInv'
<1>1. call.pc = "import" /\ UNCHANGED <<uploadVars, share, part, kept, calls, faults, removals>>
  BY DEF ImportUnpacks, At
<1>2. CASE dir' = "partial" /\ UNCHANGED call
  <2>1. DownloadInv' /\ CalmInv' /\ PartIsInPlace' /\ ForcedCallRecovers'
    BY <1>1, <1>2 DEF DownloadInv, CalmInv, PartIsInPlace, ForcedCallRecovers, Fits
  <2> QED
    BY <1>1, <1>2, <2>1, DownloadStep DEF TransferTypeOK
<1>3. CASE dir' = (IF Whole(kept) THEN "whole" ELSE "mixed") /\ EndCall("ok")
  <2>1. call' \in Calls /\ DownloadInv' /\ CalmInv' /\ ForcedCallRecovers'
    BY <1>1, <1>3, EndCallKeeps
  <2>2. PartIsInPlace'
    BY <1>1 DEF PartIsInPlace, Fits
  <2> QED
    BY <1>1, <1>3, <2>1, <2>2, DownloadStep DEF TransferTypeOK
<1> QED
  BY <1>2, <1>3 DEF ImportUnpacks

LEMMA InterruptKeeps ==
  ASSUME TransferInv, Interrupt
  PROVE  TransferInv'
<1>1. /\ call' = [NoCall EXCEPT !.result = "interrupted"] /\ Fault
      /\ UNCHANGED <<uploadVars, share, part, kept, dir, calls, removals>>
  BY DEF Interrupt
<1>2. call' \in Calls /\ call'.pc = "idle" /\ call'.calm = FALSE
  BY <1>1, NoCallIsACall DEF Calls
<1>3. DownloadInv' /\ CalmInv' /\ PartIsInPlace' /\ ForcedCallRecovers'
  BY <1>1, <1>2 DEF DownloadInv, CalmInv, PartIsInPlace, ForcedCallRecovers, Fits
<1> QED
  BY <1>1, <1>2, <1>3, DownloadStep, FaultTypes DEF TransferTypeOK

-----------------------------------------------------------------------------
(* The theorems.                                                           *)

LEMMA TransferInvInit == Init => TransferInv
<1> SUFFICES ASSUME Init PROVE TransferInv
  OBVIOUS
<1>1. ~NoSession.open /\ NoSession \in Sessions
  BY DEF NoSession, Sessions
<1>2. TransferTypeOK
  BY <1>1, FirstVersion, NothingIsAFile, NoCallIsACall, ShareAssumption
     DEF Init, TransferTypeOK, Uploads, Reports
<1>3. VersionInv /\ SendInv /\ CopiesInv
  BY <1>1 DEF Init, VersionInv, SendInv, CopiesInv, Exists
<1>4. DownloadInv /\ CalmInv
  BY NoCallIsACall DEF Init, DownloadInv, CalmInv
<1>5. ReportedIsWhole /\ PartIsInPlace /\ ForcedCallRecovers
  BY NoCallIsACall DEF Init, ReportedIsWhole, PartIsInPlace, ForcedCallRecovers, Exists
<1> QED
  BY <1>2, <1>3, <1>4, <1>5

LEMMA TransferInvNext == TransferInv /\ [Next]_vars => TransferInv'
<1> SUFFICES ASSUME TransferInv, [Next]_vars PROVE TransferInv'
  OBVIOUS
<1>1. ASSUME NEW t \in Targets, Attempt(t) \/ RemoveArchive(t) PROVE TransferInv'
  BY <1>1, AttemptKeeps, RemoveArchiveKeeps
<1>2. ASSUME NEW t \in Targets, NEW force \in BOOLEAN, NEW keep \in BOOLEAN,
             Download(t, force, keep)
      PROVE  TransferInv'
  BY <1>2, DownloadKeeps
<1>3. ASSUME NEW force \in BOOLEAN, Import(force) PROVE TransferInv'
  BY <1>3, ImportKeeps
<1>4. CASE Uploading
  BY <1>4, CompressKeeps, ProbeWebDavKeeps, ProbeNothingKeeps, ProbeGcsFreshKeeps,
     ProbeGcsSavedKeeps, SendBlockKeeps, SendEndsKeeps, AttemptFailsKeeps DEF Uploading
<1>5. CASE Kill
  BY <1>5, AttemptFailsKeeps
<1>6. CASE Downloading
  BY <1>6, SkipOrNotFoundKeeps, OpenKeeps, ReceiveBlockKeeps, ReceivedKeeps,
     ConnectionLostKeeps, ExtractKeeps, UnpackKeeps, ImportUnpacksKeeps, InterruptKeeps
     DEF Downloading
<1>7. CASE UNCHANGED vars
  <2>1. UNCHANGED <<stable, share, localVars>> /\ UNCHANGED <<uploadVars, share>>
    BY <1>7
  <2>2. TransferTypeOK'
    BY <1>7 DEF TransferTypeOK
  <2> QED
    BY <1>7, <2>1, <2>2, Counted, DownloadFrame, UploadFrame
<1> QED
  BY <1>1, <1>2, <1>3, <1>4, <1>5, <1>6, <1>7 DEF Next

\* The offsets of both transfers agree with the files they continue, in every
\* reachable state.
THEOREM TransferInvariant == Spec => []TransferInv
BY TransferInvInit, TransferInvNext, PTL DEF Spec

\* Success is reported only for an archive that is whole, after any failures,
\* retries and resumptions (upload_campaign of the four providers).
THEOREM TransferReportedIsWhole == Spec => []ReportedIsWhole
BY TransferInvariant, PTL

\* Every block of the `.part' file is in its place, in one of the archives that
\* were compressed so far, from whichever shares and in however many calls it was
\* fetched (download_archive).
THEOREM TransferPartIsInPlace == Spec => []PartIsInPlace
BY TransferInvariant, PTL

\* As long as the campaign was not compressed a second time, or with S3 storage
\* where that gives the same archive, the `.part' file is a beginning of the
\* archive.
THEOREM TransferPartIsPrefix ==
  Spec => []((version <= 1 \/ stable) /\ Exists(part) => IsPrefixOf(part, Archive(1)))
<1>1. TransferInv => ((version <= 1 \/ stable) /\ Exists(part) => IsPrefixOf(part, Archive(1)))
  BY CallShape, FitsBegins, Counted DEF PartIsInPlace, Begins, VersionInv
<1> QED
  BY <1>1, TransferInvariant, PTL

\* A forced download that nothing disturbs fails only for GCS and Nextcloud, over a
\* `.part' file that is already complete, and, once the campaign was compressed
\* again, over a `.part' file of another archive.
THEOREM TransferForcedCallRecovers == Spec => []ForcedCallRecovers
BY TransferInvariant, PTL
=============================================================================
