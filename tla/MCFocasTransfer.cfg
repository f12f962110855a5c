CONSTANTS
    send = send
    fetch = fetch
    keep = keep
    Sends = {send}
    Fetches = {fetch, keep}
    InPlace = {keep}
    Number <- MCNumber
    Stored <- MCStored
    Byte = {"%", " ", "a", "b"}
    Texts <- MCTexts
    ChunkSize = 2
    ReceiveMax = 3
    MaxFailures = 1
    MaxReplaced = 1
    Absent = Absent
    Free = Free
SPECIFICATION FairSpec
INVARIANTS
    TypeOK
    HandleAccounted
    EndsWhatItStarts
PROPERTIES
    SendDelivers
    FetchIntegrity
    EveryCallEnds
    ImplementsCalls
CHECK_DEADLOCK FALSE
