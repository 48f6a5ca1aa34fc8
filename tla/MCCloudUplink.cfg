CONSTANTS
    u1 = u1
    u2 = u2
    Users = {u1, u2}
    Gone = gone
    FifoLimit = 2
    FilterSecond = 2
    SecsPerMin = 3
    MinsPerHour = 2
    Boxes <- SomeBoxes
    MaxTime = 3
SPECIFICATION FairSpec
INVARIANTS TypeOK NoFrontOfEmpty PhotosInOrder DiskAccounted
PROPERTIES ReportsSpaced EventsPublished
CHECK_DEADLOCK FALSE
