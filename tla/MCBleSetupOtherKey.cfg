SPECIFICATION Spec
CONSTANTS
    NoPeer = NoPeer
    Peers = {a, b}
    NumInit = 1
    PairIndex = 0
    WriteModes = {"noResponse"}
    Outside = {}
INVARIANT SavedKeyFits
CHECK_DEADLOCK FALSE
