CONSTANTS
    prog = prog
    other = other
    dir = dir
    Resends = 2
    BLOCK = 1
    Names = {prog, other}
    Folders = {dir}
    Directories <- MCDirectories
    END_OF_DIR = 9
    MaxEntries = 3
    MaxInFlight = 2
    NoName = NoName
    Absent = Absent
    NoFile = NoFile
    NoSize = NoSize
    CR = 3
    Byte <- MCByte
    Contents <- MCContents
    Sizes = {}
    Firmwares <- MCFirmwares
SPECIFICATION FetchSpec
INVARIANTS
    EveryFileIsItsOwn
CHECK_DEADLOCK FALSE
