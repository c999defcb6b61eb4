SPECIFICATION Spec
CONSTANTS
    Syncers <- OneOfEach
    SyncerSpecs <- ComparedSpecs
    MaxAttempts = 2
    MaxChanges = 3
    MaxRestarts = 1
    Calls = {k1}
    MayFail = TRUE
    MayBeMissing = TRUE
    Gone = Gone
    NoEntry = NoEntry
    NoHandler = NoHandler
    NoJob = NoJob
    NoCall = NoCall
INVARIANTS
    ExistingAreIntercepted
PROPERTIES
    OwnEntryOnly
