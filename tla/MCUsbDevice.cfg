SPECIFICATION DeviceSpec
CONSTANTS
    NoCommand = NoCommand
    Commands <- MCCommands
    Diagnostic <- MCDiagnostic
    Long <- MCLong
    Silent <- MCSilent
    Empty <- MCEmpty
INVARIANTS DeviceTypeOK EP2Serialized NothingWaits OnlyAChunkWaits
    BufferIsFree
PROPERTIES KeepsPromise NativeSettles InputFlows NativeArrives
