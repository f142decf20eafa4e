SPECIFICATION DeviceSpec
CONSTANTS
    NoCommand = NoCommand
    Commands <- MCCommands
    Diagnostic <- MCDiagnostic
    Long <- MCLong
    Silent <- MCSilent
    Empty <- MCEmpty
PROPERTY NativeStops09
