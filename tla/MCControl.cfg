SPECIFICATION ControlSpec
CONSTANTS
    Rumbles = {0, 100}
    Deadzones = {0, 64}
    DefaultRumble = 100
    DefaultDeadzone = 64
    NoRecord = NoRecord
    Invalid = Invalid
    Reported = {r1}
    Derived = d
    NoAddress = NoAddress
INVARIANT ControlTypeOK
PROPERTIES AnswerIsTrue Answers KeepsStore KnownAddress UsbComesUp
