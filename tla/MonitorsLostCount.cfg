SPECIFICATION Spec
CONSTANTS
    Monitor = {m1}
    Worker = {w1, w2}
    Client = {}
    Intervals = {60}
    CounterCap = 2
    MaxQueue = 2
    MaxEvents = 2
    MaxDeaths = 0
    None = None
INVARIANT CountsConsecutive
