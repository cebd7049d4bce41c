SPECIFICATION FairOutboxSpec
CONSTANTS
    Delivery <- MCDelivery
    Key <- MCKey
    KeyOf <- MCKeyOf
    Provider <- MCProvider
    ProviderOf <- MCProviderOf
    MaxAttempts = 2
    MaxDepth = 2
    LeaseSeconds = 1
    Backoff = 1
    PollSizes = {1, 2}
    Durable = TRUE
INVARIANTS
    OutboxSound
PROPERTIES
    ImplementsContract
    EveryDeliverySettles
CHECK_DEADLOCK FALSE
