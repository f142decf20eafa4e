SPECIFICATION Spec
CONSTANTS
    NoPeer = NoPeer
    Peers = {a}
    NumInit = 3
    PairIndex = 0
    WriteModes = {"response"}
    Outside = {}
PROPERTIES NoHalfSetUpLink AckBeforeNextCommand KeyWasAgreed
CHECK_DEADLOCK FALSE
