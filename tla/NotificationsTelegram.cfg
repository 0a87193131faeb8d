SPECIFICATION Spec
CONSTANTS
    Alert = {a1}
    channel <- ToTelegram
    kind <- Recovery
    NameLength <- Name237
    Client = {}
    MaxRetries = 3
    MaxFaults = 0
    None = None
CHECK_DEADLOCK FALSE
INVARIANT HandledMeansDelivered
