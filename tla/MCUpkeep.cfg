CONSTANTS
    Timeout = 7
    Margin = 30
    SelfFeed = 15
    Nap = 2
    Late = 1
    MaxQuiet = 29
SPECIFICATION Spec
INVARIANTS TypeOK StallBounded UpdateKept
PROPERTY BiteJustified
