SPECIFICATION LiveSpec
CONSTANTS
    Monitor = {m1}
    Worker = {w1}
    Client = {}
    Intervals = {60}
    CounterCap = 2
    MaxQueue = 2
    MaxEvents = 2
    MaxDeaths = 1
    None = None
INVARIANTS CountsConsecutive LastEventCurrent
PROPERTY CheckedForever
