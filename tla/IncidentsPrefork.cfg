SPECIFICATION Spec
CONSTANTS
    Monitor = {m1}
    Worker = {w1, w2}
    Client = {c1}
    Arrivals <- DecisiveEvents
    Replies <- EmailOnly
    MaxIncidents = 3
    MaxEvents = 1
    MaxDeaths = 1
    MaxMessages <- OneWarning
    None = None
SYMMETRY Symmetry
INVARIANTS TypeOK OpenBounded
PROPERTIES SilenceIsFinal UnownedOnlyResolved WarnedOnce
