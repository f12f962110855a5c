CONSTANTS
    Sends = {send}
    Drips = {drip}
    Listener = Listener
    Free = Free
    Programs = 2
    Body = 1
    ReadMax = 5
    RxCap = 5
    Chunks = 2
    MaxFailures = 0
SPECIFICATION Spec
INVARIANTS
    DeliversEachProgram
CHECK_DEADLOCK FALSE
