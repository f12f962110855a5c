CONSTANTS
    script = script
    worker = worker
    other = other
    prog = prog
    canary = canary
    Script = script
    Threads = {worker, other}
    Clients = {script, worker, other}
    Names = {prog, canary}
    Shared = {prog}
    CANARY = canary
    NoName = NoName
    Absent = Absent
    NoSize = NoSize
    CR = 3
    BLOCK = 2
    MaxRequests = 3
    Byte <- MCByte
    CANARY_BODY <- MCCanaryBody
    PAD <- MCPad
    Contents <- MCContents
    Bodies <- MCBodies
    Firmwares <- MCFirmwares
    Late <- MCLate
SPECIFICATION Spec
INVARIANTS
    GetIsNotSilent
CHECK_DEADLOCK FALSE
