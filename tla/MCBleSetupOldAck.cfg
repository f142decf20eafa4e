SPECIFICATION Spec
CONSTANTS
    NoPeer = NoPeer
    Peers = {a}
    NumInit = 3
    PairIndex = 1
    WriteModes = {"noResponse"}
    Outside = {}
PROPERTY EachCommandAcked
CHECK_DEADLOCK FALSE
