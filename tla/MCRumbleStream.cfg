SPECIFICATION Spec
CONSTANTS
    Frames = {soft, hard}
    Zero = Zero
    Hold = 9
    Stops = 3
    MaxLate = 4
INVARIANTS NoLateEffect RunningIsWatched
PROPERTIES EffectIsPlayed MotorsStop
