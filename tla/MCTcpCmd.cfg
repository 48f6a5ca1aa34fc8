CONSTANTS
    a = a
    b = b
    NoClient = none
    Clients = {a, b}
    Ids = {1, 2, 3, 4, 5}
    Script <- Scripts
    BufCap = 7
    MaxRecv = 3
    WordMod = 16
    Uninit = {0, 1, 9, 15}
SPECIFICATION FairSpec
INVARIANTS TypeOK Delivered CompleteNotHeld
PROPERTY ServedWhileAlone
CHECK_DEADLOCK FALSE
