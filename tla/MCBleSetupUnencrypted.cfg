SPECIFICATION Spec
CONSTANTS
    NoPeer = NoPeer
    Peers = {a}
    NumInit = 1
    PairIndex = 0
    WriteModes = {"noResponse"}
    Outside = {}
INVARIANT ReadyEncrypted
CHECK_DEADLOCK FALSE
