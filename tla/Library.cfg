SPECIFICATION LibrarySpec
SYMMETRY Symmetry
CONSTANTS
    Installers = {i1, i2}
    Versions = {v, u}
    Pinned = {v}
    NoFile = NoFile
    Partial = Partial
    Mixed = Mixed
    Writers = {w1, w2}
    Analyses <- MCAnalyses
    NoRow = NoRow
    MemCap = 2
    Names <- MCNames
    Hidden = {".h"}
    None = None
    Arguments <- MCArguments
    Systems = {"windows", "macos", "linux"}
    Spots <- MCSpots
    MaxTicks = 2
    MaxTimers = 2
    NoWindow = NoWindow
    NoFolder = NoFolder
    Unread = Unread
INVARIANTS
    LibraryTypeOK
    AtomicUpdate
    RecoverySound
    SameModelShared
    CacheBounded
    KeyDescribesRow
    OneEmbedding
    SearchOnce
    SearchFindsNames
    Debounced
    WalkExact
    ValidatedStraight
    OnlineOnlyAdds
    HybridPrivate
    KeyTells
    JsonFound
    MarkedIsTarget
PROPERTIES
    InstallRepairs
