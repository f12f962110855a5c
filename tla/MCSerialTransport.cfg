CONSTANTS
    Sends = {send}
    Drips = {drip}
    Listener = Listener
    Free = Free
    Programs = 2
    Body = 1
    ReadMax = 3
    RxCap = 4
    Chunks = 1
    MaxFailures = 1
SPECIFICATION FairSpec
INVARIANTS
    TypeOK
    ReceivingMirrorsBuffer
    NeverSendsIntoAProgram
    PortOpenedOnce
    TimeoutFollowsDrip
    DeliversWholePrograms
PROPERTIES
    EveryProgramArrives
CHECK_DEADLOCK FALSE
