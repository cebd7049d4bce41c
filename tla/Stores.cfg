SPECIFICATION MCSpec
CONSTANTS
    None = None
    said = said
    learned = learned
    w1 = w1
    w2 = w2
    MaxWrites = 3
    TurnMemories <- MCTurnMemories
    PromotedMemories <- MCPromotedMemories
    Writers <- MCWriters
    Models <- MCModels
    Openers = {p1, p2}
    InitialFiles <- MCInitialFiles
    MaxData = 2
    MemoryIds = {1, 2}
    ScopeOf <- MCScopeOf
    RowsOf <- MCRowsOf
    QueryTexts <- MCQueryTexts
    QueryScopes <- MCQueryScopes
    Similarity <- MCSimilarity
    Bm25 <- MCBm25
    Limit = 1
    FtsLimit = 2
    MinScore = 0
    Passages <- MCPassages
    MaxItems = 2
    MaxMoments = 1
    Requests <- MCRequests
    Batches <- MCBatches
    HeldRows <- MCHeldRows
    MaxRecordsPerKey = 2
    PageLimits = {1, 2}
    MaxTranscriptTime = 1
    MaxCleanups = 2
    Observations <- MCObservations
    Delivered <- MCDelivered
    MaxRecords = 4
    MaxWindowRecords = 3
    MaxHistoryChars = 2
    SummaryMinRecords = 1
    Retention = 1
    MaxSubmits = 2
    MaxTurns = 2
SYMMETRY MCSymmetry
INVARIANTS
    LagHasAReason
    EntriesWereStored
    NeverHalfMigrated
    RestoredIsBackup
    NothingWithdrawnServed
    PagingComplete
    CleanupDeletesAsReported
    RememberedWasSaid
