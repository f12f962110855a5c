CONSTANTS
    Resends = 2
    BLOCK = 2
    Names = {prog, other}
    NoName = NoName
    Absent = Absent
    NoFile = NoFile
    NoSize = NoSize
    CR = 4
    Byte <- MCByte
    Contents <- MCContents
    Sizes <- MCSizes
    Firmwares <- MCFirmwares
SPECIFICATION FairSpec
INVARIANTS
    TypeOK
    DownloadIntegrity
    NeverReadsPastEnd
    TimeoutMeansTrouble
PROPERTIES
    ImplementsPull
    Terminates
CHECK_DEADLOCK FALSE
