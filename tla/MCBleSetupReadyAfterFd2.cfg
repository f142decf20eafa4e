SPECIFICATION Spec
CONSTANTS
    NoPeer = NoPeer
    Peers = {a}
    NumInit = 1
    PairIndex = 1
    WriteModes = {"noResponse"}
    Outside = {}
INVARIANT ReadyAfterFd2
CHECK_DEADLOCK FALSE
