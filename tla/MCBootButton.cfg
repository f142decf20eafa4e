SPECIFICATION ButtonSpec
CONSTANTS
    Hold = 30
    Cap = 40
INVARIANTS OneForgetPerHold
PROPERTIES HoldIsHeard
