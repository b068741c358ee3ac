---------------------------- MODULE MCController ----------------------------
(* Controller on small instances: one stop and two upload requests; two        *)
(* buckets of a share that resumes saved sessions, with a prefix or without,   *)
(* and a share that knows no sessions.                                         *)
EXTENDS Controller, TLC

CONSTANTS gcs, other, sftp, gcsPrefix, otherPrefix, sftpPrefix

\* The prefix is optional: the payloads here leave it out, and it survives them
\* where the launch has set it.
WithPrefix == (gcs :> gcsPrefix) @@ (other :> otherPrefix) @@ (sftp :> sftpPrefix)

OverlayOf ==
    [e \in Environments |-> [p \in Targets |->
        IF e \in {gcsPrefix, otherPrefix, sftpPrefix} THEN WithPrefix[p] ELSE p]]
=============================================================================
