CONSTANTS
    EraseSize = 2
    FlashSize = 4
    Cells = {"ff", "00"}
    Blank = "ff"
    Zero = "00"
    Files <- MCFiles
    Garbage = {0, 1, 4}
    Faulty = {"open", "info", "stat", "readFile", "readFlash", "erase", "write"}
SPECIFICATION FairSpec
INVARIANTS
    FlashInv
    ImageWritten
    NoNeedlessErase
PROPERTIES
    BeyondImageKept
    ImageGetsWritten
