SPECIFICATION Spec
CONSTANTS
    NoPeer = NoPeer
    Peers = {a, b}
    NumInit = 1
    PairIndex = 0
    WriteModes = {"noResponse"}
    Outside = {"forget", "restart"}
INVARIANTS TypeOK KeyOwner ReadyIsEncrypted ReadyIsSaved
PROPERTIES KeepsLife
SYMMETRY Symmetry
CHECK_DEADLOCK FALSE
