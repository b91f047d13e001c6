SPECIFICATION FairSpec
CONSTANTS
    search = search
    fetch = fetch
    preview = preview
    p1 = p1
    NoCaller = NoCaller
    Callers <- Goroutines
    NumFields = 2
    MaxAttempts = 3
    NumResults = 6
    Failing <- SecondFails
    PluginDies = TRUE
    Procs <- OneAtATime
    MaxTime = 4
    RefreshAfter = 2
INVARIANTS
    StreamTypeOK
    DeliveredInOrder
    LazyTypeOK
    UsersSeeOneInit
    TypeOK
    KillsAreHarmless
PROPERTIES
    SearchEnds
    InitHappensOnce
    EnsureReturns
    GatedUseIsDescribed
