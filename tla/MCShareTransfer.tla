---------------------------- MODULE MCShareTransfer ----------------------------
(* Constants of the TLC run of ShareTransfer.                               *)
EXTENDS ShareTransfer, TLC

CONSTANTS dav, dav2, cloud, ssh, bucket, bucket2

MCTargets == {dav, dav2, cloud, ssh, bucket, bucket2}
MCKind == dav :> "webdav" @@ dav2 :> "webdav" @@ cloud :> "nextcloud" @@ ssh :> "sftp"
          @@ bucket :> "gcs" @@ bucket2 :> "gcs"
MCInPlace == {dav, ssh}
MCRanged == MCTargets \ {dav2}
MCLength == <<2, 3>>
=============================================================================
