SPECIFICATION Spec
CONSTANTS
    NoPeer = NoPeer
    Peers = {a}
    NumInit = 1
    PairIndex = 0
    WriteModes = {"noResponse"}
    Outside = {}
INVARIANT ReadyIsStored
CHECK_DEADLOCK FALSE
