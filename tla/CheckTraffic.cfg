SPECIFICATION Spec
CONSTANTS
    Client = {c1, c2}
    Rate <- PerMinute
    Window <- Minutes
    superuser = FALSE
    None = None
    Status <- Codes
    Null = Null
    Worker = {w1, w2}
    Interval = 2
    Period = 2
    Deadline = 1
    MaxLost = 1
    MaxHeld = 2
    MaxWait = 2
INVARIANTS TypeOK VerdictIndependent RateHolds GapBounded BacklogBounded
SYMMETRY Symmetry
