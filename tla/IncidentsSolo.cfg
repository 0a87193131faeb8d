SPECIFICATION WorkerSpec
CONSTANTS
    Monitor = {m1, m2}
    Worker = {w1}
    Client = {}
    Arrivals <- SampleEvents
    Replies <- TwoChannels
    MaxIncidents = 3
    MaxEvents = 2
    MaxDeaths = 1
    MaxMessages <- Unbounded
    None = None
INVARIANT AtMostOneOpen
PROPERTIES ImplementsOutage
