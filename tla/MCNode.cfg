\* External mode with five versions of the -pck secret, the others with two; two CPU SVNs.
SPECIFICATION FairNode
CONSTANTS
    MaxVersion = 5
    MaxIssued = 2
    NoFile = NoFile
    Torn = Torn
    Mode = {"Online", "Offline", "External"}
    Svn = {s1, s2}
    Manifest = {m1}
    Empty = Empty
    Hidden = Hidden
    Broken = Broken
    Unset = Unset
    Malformed = Malformed
    NoSecret = NoSecret
    Damaged = Damaged
    Foreign = Foreign
    s1 = s1
    s2 = s2
    m1 = m1
INVARIANTS
    NodeTypeOK
    WatcherFollowsJob
    SeenIsWritten
    NeverRollsBack
    StreamIsAhead
    ServedWhenCaughtUp
PROPERTIES
    ManifestSurvives
    FileFollowsSecret
    QgsStarts
    CertificatesArrive
