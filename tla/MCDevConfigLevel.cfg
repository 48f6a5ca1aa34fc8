CONSTANTS
    Keys = {"F", "I"}
    IpKeys = {"I"}
    Checked = {"F"}
    Values = {"x"}
    Bad = "bad"
    Long = "long"
    Default = "x"
    MaxPairs = 1
SPECIFICATION ConfigSpec

PROPERTY IpSettableAtLevelOne
