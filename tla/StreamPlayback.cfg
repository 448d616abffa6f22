SPECIFICATION PlaySpec
CONSTANTS
    Capacity = 2
    Sizes = {2}
    Offsets = {0}
    Unit = 2
    Fade = 1
    Rebuffer = 3
    TrimRead = 2
    Leading = 1
    Block = 2
    Rates = {1, 3}
    CloseSilence = 2
    Cues = {1}
    ClipFrames = 4
    Plays = 2
    Touches = 1
INVARIANTS RingIsWindow SourceOutlivesItsUsers PlayheadIsTrue NaturalMeansWhole
PROPERTIES ReadsTheTrack EverySessionEnds FilesAreReleased
CHECK_DEADLOCK FALSE
