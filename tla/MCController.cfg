\* One stop and two upload requests, three targets; no symmetry, for liveness.
CONSTANTS
    Stops = {s1}
    Uploads = {u1, u2}
    gcs = gcs
    other = other
    sftp = sftp
    gcsPrefix = gcsPrefix
    otherPrefix = otherPrefix
    sftpPrefix = sftpPrefix
    Payloads = {noArgs, gcs, other, sftp}
    NoArgs = noArgs
    NoTarget = unset
    Environments = {gcs, other, sftp, gcsPrefix, otherPrefix, sftpPrefix}
    Sessions = {gcs, other, gcsPrefix, otherPrefix}
    Overlay <- OverlayOf
SPECIFICATION Spec
INVARIANTS
    NoLostWakeUp
    ExitZeroMeansDelivered
    ParkedIsReported
    StopEndsSearch
PROPERTIES
    StopEndsController
    PodImplementsMailbox
CHECK_DEADLOCK FALSE
