\* A port that hangs while the dial is read.
CONSTANTS
    MaxOut = 2
    MaxTime = 3
    FreshAge = 0
    StaleAge = 1
    AskEvery = 1
    AskAfterNone = 2
    AskAfterTune = 1
SPECIFICATION Spec
INVARIANT ReadingIsRecent
