CONSTANTS
    AddrSpace = 2
    Quads = {"ab", "ba"}
    Swap <- MCSwap
    ByteCounts = {0, 12}
    FabricPrompt = TRUE
    Faulty = {"direction", "getData", "opDone", "lineRequest", "ctrl"}
    EventFifo = 1
SPECIFICATION FairSpec
INVARIANTS
    CallExact
    Confined
    BlockFramed
    QuietBetweenCalls
    IInv
PROPERTIES
    CallReturns
    ImplementsContract
