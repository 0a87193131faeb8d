SPECIFICATION LiveSpec
CONSTANTS
    Monitor = {m1}
    CheckWorker = {c1}
    IncidentWorker = {i1}
    Replies <- EmailOnly
    Intervals = {60, 300}
    CounterCap = 7
    MaxQueue = 1
    MaxEvents = 1
    MaxDeaths = 1
    MaxIncidents = 2
    MaxMessages <- Unbounded
    MaxFlips = 2
    None = None
INVARIANTS TablesAgree IncidentBacked WarningsBacked
PROPERTIES OutageReported RecoveryReported OrphansStayOpen
