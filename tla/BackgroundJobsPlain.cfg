SPECIFICATION FairRunnerSpec
CONSTANTS
    Caller <- RunnerAlone
    Requests <- MCRequests
    Limit <- MCLimit
    WhenBusy <- MCWhenBusy
    WhenWarming = "defer"
    WhenUnavailable <- MCWhenUnavailable
    Runner = "runner"
    Job = {1, 2, 3}
    JobKind <- PlainJobKind
    IdleOnly = {}
    Policy <- PlainPolicy
    MaxAttempts = 2
    LeaseSeconds = 2
    MaxJobsPerRun = 3
    UsesLlm = {3}
    Workers = {"memory", "reflection"}
    Cancellable = {}
    ResourceStates = {"idle", "unavailable"}
    MaxFaults = 1
INVARIANTS
    RunnerInvariant
PROPERTIES
    FinishedStaysFinished
    PlainJobsSettle
