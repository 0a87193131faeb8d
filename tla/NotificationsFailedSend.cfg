SPECIFICATION CalmSpec
CONSTANTS
    Alert = {a1}
    channel <- ToEmail
    kind <- Recovery
    NameLength <- Name237
    Client = {}
    MaxRetries = 3
    MaxFaults = 1
    None = None
CHECK_DEADLOCK FALSE
PROPERTY FailedSendRetried
