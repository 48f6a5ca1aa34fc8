CONSTANTS
    MaxPkt = 6
    MaxFaces = 1
    MaxObjs = 1
    ExtBoxes = 2
    MaxDetected = 2
    Sizes = {6, 7, 10, 11, 12, 17, 23}
    SeqMod = 4
    StampMod = 3
    MaxLost = 2
SPECIFICATION Spec
INVARIANTS TypeOK UnitsIntact UnitsArrive BoxesCurrent
