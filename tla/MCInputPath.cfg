SPECIFICATION InputSpec
CONSTANTS
  Inputs <- MCInputs
  Deadzones = {0, 512}
  Count = 3
  NoMotion = NoMotion
  Tilted = Tilted
INVARIANTS InputTypeOK LostIsNeutral SticksAreSane ReportsAgree NoPhantom
