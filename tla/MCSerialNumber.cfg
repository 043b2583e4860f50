CONSTANTS
    Chars = {"x", "y"}
    SnSize = 4
    Beyond = 1
    Blank = "ff"
    Nul = "nul"
    Junk = "junk"
SPECIFICATION Spec
INVARIANTS
    ReadBack
    PartitionInv
