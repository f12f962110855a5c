CONSTANTS
    Resends = 2
    MaxReplies = 2
    MaxBuffer = 5
    BLOCK = 2
    Names = {prog, other}
    NoName = NoName
    Absent = Absent
    NoFile = NoFile
    NoSize = NoSize
    CR = 3
    Byte <- MCByte
    Contents <- MCContents
    Sizes <- MCSizes
    Programs <- MCPrograms
    Firmwares <- MCFirmwares
SPECIFICATION USpec
INVARIANTS
    UTypeOK
    BoxKeepsWholePrograms
    VerifiedMeansStored
VIEW MCView
SYMMETRY MCSymmetry
CHECK_DEADLOCK FALSE
