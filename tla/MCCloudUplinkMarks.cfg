CONSTANTS
    u1 = u1
    u2 = u2
    Users = {u1, u2}
    Gone = gone
    FifoLimit = 1
    FilterSecond = 2
    SecsPerMin = 3
    MinsPerHour = 2
    Boxes <- OneByOne
    MaxTime = 6
SPECIFICATION Spec
INVARIANT TimedOutMarksRemoved
CHECK_DEADLOCK FALSE
