CONSTANTS
    m1 = m1
    q1 = q1
    q2 = q2
    q3 = q3
    Machines = {m1}
    Reqs = {q1, q2, q3}
    Keys = {k1, k2}
    NoKey = NoKey
    Cap = 1
    InflightCap = 3
    TotalCap = 2
    MaxSeq = 1
SPECIFICATION FairSpec
INVARIANT LandingSafe
INVARIANT OneTerminalLast
INVARIANT EveryRecordAccounted
PROPERTY CancelledStaysSilent
PROPERTY SlotsReturn
CHECK_DEADLOCK FALSE
