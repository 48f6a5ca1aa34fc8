CONSTANTS
    u1 = u1
    Users = {u1}
    Photos = {p1, p2}
    p1 = p1
    p2 = p2
    Floors = {1}
    TcpFloor = 6
    Perms = {0}
    None = none
    MaxDown = 2
SPECIFICATION FairSpec
INVARIANTS TypeOK RowsAgree ReportedInForce GoneStaysOut
PROPERTY LockReleased
CHECK_DEADLOCK FALSE
