CONSTANTS
    Chars = {"x", "y"}
    SnSize = 3
    Beyond = 2
    Blank = "ff"
    Nul = "nul"
    Junk = "junk"
SPECIFICATION Spec
INVARIANT FullReadBack
