SPECIFICATION Spec
CONSTANTS
    Peers = {a, b}
    NoPeer = NoPeer
    TaskMayFail = TRUE
    Forgetters = {"button"}
INVARIANTS OneLink SearchesUnlessSlip
PROPERTIES KeepsLife Reconnects
SYMMETRY Symmetry
CONSTRAINT NoSlip
