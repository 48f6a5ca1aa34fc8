CONSTANTS
    Keys = {"A", "F"}
    IpKeys = {}
    Checked = {"F"}
    Values = {"x"}
    Bad = "bad"
    Long = "long"
    Default = "x"
    MaxPairs = 2
SPECIFICATION ConfigSpec
INVARIANT ConfigConsistent
