SPECIFICATION LiveSpec
CONSTANTS
    Alert = {a1}
    channel <- ToEmail
    kind <- Recovery
    NameLength <- Name237
    Client = {c1}
    MaxRetries = 3
    MaxFaults = 4
    None = None
CHECK_DEADLOCK FALSE
INVARIANTS TypeOK RetriesAreRepeats SentMeansDelivered HandledMeansDelivered
PROPERTY Settled
