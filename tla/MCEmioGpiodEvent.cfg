CONSTANTS
    AddrSpace = 2
    Quads = {"ab", "ba"}
    Swap <- MCSwap
    ByteCounts = {8}
    FabricPrompt = TRUE
    Faulty = {}
    EventFifo = 2
SPECIFICATION Spec
PROPERTIES
    WaitMeansDone
