CONSTANTS
    AddrSpace = 4
    Quads = {"ab", "ba"}
    Swap <- MCIdentity
    EndianSwap <- MCEndianSwap
    ByteCounts = {0, 3, 9}
    PromBase = 3
    PromBytes = {0, 6}
    FabricPrompt = TRUE
SPECIFICATION FairSpec
INVARIANTS
    CallExact
    StandaloneInv
    PromExact
PROPERTIES
    ReturnsIfGranted
    ImplementsContract
