SPECIFICATION MCSpec
CONSTANTS
    None = None
    Caller <- MCCaller
    Requests <- MCRequestsOf
    Limit <- MCLimit
    WhenBusy <- MCWhenBusy
    WhenWarming = "defer"
    WhenUnavailable <- MCWhenUnavailable
    SlotProviders <- MCSlotProviders
    OpenAiUsable = TRUE
    Loops <- MCLoops
    Tasks = {t1}
    LooseTasks = {b1}
    BudgetTables <- MCBudgetTables
    LocalCalls <- MCLocalCalls
    MaxAsks = 2
    Prompts <- MCPrompts
    BudgetFiles <- MCBudgetFiles
INVARIANTS
    ProviderCallsBounded
    StrictStartSawModel
    CallsWithinBudget
    CutsFollowPriority
PROPERTIES
    OnlyLowPriorityEvicted
    EveryLeaseEnds
    StartIsDecided
