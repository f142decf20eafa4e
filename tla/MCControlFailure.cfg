SPECIFICATION ControlSpec
CONSTANTS
    Rumbles = {0, 100}
    Deadzones = {0, 64}
    DefaultRumble = 100
    DefaultDeadzone = 64
    NoRecord = NoRecord
    Invalid = Invalid
    Reported = {}
    Derived = d
    NoAddress = NoAddress
PROPERTY FailureIsTold
CHECK_DEADLOCK FALSE
