SPECIFICATION MCSpec
CONSTANTS
    None = None
    fine = fine
    clash = clash
    oddName = oddName
    secret = secret
    r1 = r1
    r2 = r2
    p1 = p1
    p2 = p2
    NoOne = NoOne
    Cands <- MCCands
    Attr <- MCAttr
    Reviewers <- MCReviewers
    Promoters <- MCPromoters
    MaxMemoryText = 5
    MaxCandidateText = 5
    StaleAfter = 1
    MaxSignalHistory = 2
    MaxLearningEvents = 2
    MaxLearningRuns = 2
    MaxLearningTime = 1
    MaxPendingJobs = 1
    MaxLearningRestarts = 1
    LearningEvents <- MCLearningEvents
    ConsolidationJobs <- MCConsolidationJobs
    Inputs <- MCInputs
    Answers <- MCAnswers
    MaxCycles = 2
    MaxRuns = 2
SYMMETRY MCSymmetry
INVARIANTS
    RememberedWasApproved
    PromotedIdResolves
    LearnsOnlyWhatItMay
    RetryProposesOnce
    HighRiskAnsweredSafely
    FamiliarityEarned
PROPERTY LocalTerminalIsFinal
