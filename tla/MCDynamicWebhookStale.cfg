SPECIFICATION Spec
CONSTANTS
    Syncers <- OneNamespaced
    SyncerSpecs <- OneSpec
    MaxAttempts = 2
    MaxChanges = 2
    MaxRestarts = 0
    Calls = {}
    MayFail = FALSE
    MayBeMissing = TRUE
    Gone = Gone
    NoEntry = NoEntry
    NoHandler = NoHandler
    NoJob = NoJob
    NoCall = NoCall
INVARIANTS
    GoneAreNotIntercepted
