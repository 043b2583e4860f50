CONSTANTS
    AddrSpace = 2
    Quads = {"ab", "ba"}
    Swap <- MCSwap
    ByteCounts = {8}
    FabricPrompt = TRUE
SPECIFICATION Spec
INVARIANTS
    TrueMeansSuccess
