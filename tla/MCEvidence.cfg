\* Twenty-three numbers to a byte, the flags in two bytes and everything else in one.
SPECIFICATION Spec
CONSTANTS
    x = x
    y = y
    f = f
    g = g
    Certificate <- MCCertificate
    TcbDocument <- MCTcbDocument
    Read <- MCRead
    Malformed = Malformed
    NotAvailable = NotAvailable
    NoPiid = NoPiid
    Base = 23
    Character <- MCCharacter
    VersionLen = 1
    FlagsLen = 2
    ExpirationLen = 1
    LengthLen = 1
    CpuSvn = 5
    Fmspc <- MCFmspc
    Answer <- MCAnswer
    TcbAnswer <- MCTcbAnswer
    Time <- MCTime
    Noise <- MCNoise
    Nothing = Nothing
INVARIANTS
    TypeOK
    AnswersAreJudged
    OnlyMatchingAnswersStored
    CachedEvidenceFits
    OnlyBuiltBlobsParse
    IndexNamesCertificate
CHECK_DEADLOCK FALSE
