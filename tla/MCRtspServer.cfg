CONSTANTS
    Fds = {f1, f2}
    Insts = {i1, i2}
    Transports = {"udp", "tcp"}
    MaxListed = 2
    MaxTheirs = 1
    MaxLeft = 1
    Acceptor = Acceptor
    NoInst = NoInst
SPECIFICATION Spec
SYMMETRY Interchangeable
INVARIANTS TypeOK DisconnectsKnown FaultsExplained OneOwner
CHECK_DEADLOCK FALSE
