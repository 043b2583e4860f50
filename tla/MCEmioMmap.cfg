CONSTANTS
    AddrSpace = 4
    Quads = {"ab", "ba"}
    Swap <- MCSwap
    ByteCounts = {0, 3, 9}
    FabricPrompt = TRUE
SPECIFICATION FairSpec
INVARIANTS
    IInv
    CallExact
    Confined
    BlockFramed
    QuietBetweenCalls
PROPERTIES
    PinsSteady
    CallReturns
    ImplementsContract
