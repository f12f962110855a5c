CONSTANTS
    q1 = q1
    q2 = q2
    p1 = p1
    p2 = p2
    Workers = {w1, w2}
    Queued = {q1, q2}
    Punched = {p1, p2}
    Size <- MCSize
    Seconds = {1, 2}
    Nothing = Nothing
    Header = Header
    MaxTransfers = 3
    MaxFaults = 1
SPECIFICATION FairSpec
INVARIANTS
    TypeOK
    LogTellsWhatWasSent
    ReceivedIsKept
    TailIsNewest
    CutCostsTwo
PROPERTIES
    ListenerSurvives
CHECK_DEADLOCK FALSE
