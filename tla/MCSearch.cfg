CONSTANTS
    Sources = {s1, s2}
    Terms = {t1, t2}
    Blank = blank
    RetryFrames = 1
    SettleFrames = 2
    MaxThreads = 2
    MaxGen = 3
    MaxRoster = 2
    MaxSections = 1

SPECIFICATION FairSpec

INVARIANTS
    SearchSafe
    ShownIsAsked
    AnswerIsKept

PROPERTIES
    SearchEnds
    FailureIsRetried
