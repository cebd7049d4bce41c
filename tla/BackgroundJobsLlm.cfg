SPECIFICATION FairRunnerSpec
CONSTANTS
    Caller <- MCCaller
    Requests <- MCRequests
    Limit <- MCLimit
    WhenBusy <- MCWhenBusy
    WhenWarming = "defer"
    WhenUnavailable <- MCWhenUnavailable
    Runner = "runner"
    Job = {1, 2}
    JobKind <- LlmJobKind
    IdleOnly = {2}
    Policy <- LlmPolicy
    MaxAttempts = 2
    LeaseSeconds = 2
    MaxJobsPerRun = 2
    UsesLlm = {2}
    Workers = {"extraction"}
    Cancellable = {"extraction"}
    ResourceStates = {"idle", "busy"}
    MaxFaults = 1
INVARIANTS
    RunnerInvariant
    SucceededJobsCompleted
PROPERTIES
    LlmJobsSettle
