CONSTANTS
    Fds = {f1, f2}
    Insts = {i1, i2}
    Transports = {"udp"}
    MaxListed = 2
    MaxTheirs = 1
    MaxLeft = 1
    Acceptor = Acceptor
    NoInst = NoInst
SPECIFICATION FairSpec
PROPERTIES PeerGoneDeleted
CHECK_DEADLOCK FALSE
