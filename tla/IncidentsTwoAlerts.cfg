SPECIFICATION WorkerSpec
CONSTANTS
    Monitor = {m1}
    Worker = {w1, w2}
    Client = {}
    Arrivals <- DecisiveEvents
    Replies <- EmailOnly
    MaxIncidents = 3
    MaxEvents = 2
    MaxDeaths = 0
    MaxMessages <- Unbounded
    None = None
PROPERTY AlertOnce
