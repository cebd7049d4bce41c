SPECIFICATION MCSpec
CONSTANTS
    None = None
    Delivery <- MCDelivery
    Key <- MCKey
    KeyOf <- MCKeyOf
    Provider <- MCProvider
    ProviderOf <- MCProviderOf
    MaxAttempts = 2
    MaxDepth = 2
    LeaseSeconds = 1
    Backoff = 1
    PollSizes = {1}
    Durable = FALSE
    Handler = {h1, h2}
    NoReport = NoReport
    Tokens <- MCTokens
    Calls <- MCCalls
    DeliveryCalls <- MCDeliveryCalls
    AuthRequired = FALSE
    AllowLoopback = TRUE
    MaxCalls = 2
    Signals <- MCSignals
    MaxEvents = 1
    MaxTtl = 1
    RecentWindow = 1
    MaxDeliveries = 1
    MaxReceived = 3
    MaxInFlight = 2
    MaxTime = 1
    MaxRestarts = 1
SYMMETRY MCSymmetry
INVARIANTS
    HooksOncePerProcess
    IngressSpeaksForItsProvider
    NewestInteractionWins
    EventsApplyOnce
PROPERTIES
    BrokerUsesOutbox
