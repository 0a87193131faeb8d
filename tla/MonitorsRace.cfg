SPECIFICATION Spec
CONSTANTS
    Monitor = {m1}
    Worker = {w1, w2}
    Client = {c1}
    Intervals = {60}
    CounterCap = 2
    MaxQueue = 1
    MaxEvents = 1
    MaxDeaths = 1
    None = None
SYMMETRY Symmetry
INVARIANTS TypeOK CountBacked UpMeansNoFailures
