\* The port hangs, refuses and answers late, in any order.
CONSTANTS
    MaxOut = 3
    MaxTime = 1
    FreshAge = 0
    StaleAge = 1
    AskEvery = 1
    AskAfterNone = 2
    AskAfterTune = 1
SPECIFICATION Spec
INVARIANTS TypeOK ReplyIsOurs KeyIsAnswered WatchFollowsTheKey
PROPERTY KeyComesUp
