SPECIFICATION FairSpec
CONSTANTS
    Syncers <- OneOfEach
    SyncerSpecs <- ComparedSpecs
    MaxAttempts = 1
    MaxChanges = 3
    MaxRestarts = 0
    Calls = {}
    MayFail = TRUE
    MayBeMissing = FALSE
    Gone = Gone
    NoEntry = NoEntry
    NoHandler = NoHandler
    NoJob = NoJob
    NoCall = NoCall
INVARIANTS
    TypeOK
    HandlersAreCurrent
    GoneAreNotIntercepted
PROPERTIES
    EventuallyIntercepted
    
