SPECIFICATION Spec
CONSTANTS
    Peers = {a}
    NoPeer = NoPeer
    TaskMayFail = FALSE
    Forgetters = {"button"}
INVARIANT ForgetEndsAutoConnect
