CONSTANTS
    Lanes = 4
    Start = 2
    Size = 8
    LineWords = 4
    LogMax = 3
    ErrLimit = 1
    Faults <- MCFaults
    Selections <- MCSelections
    MaxRuns = 2
    Eyes <- MCEyes
    EyeSteps = {4, 2}
    Dqs = 10
    Fwe = 40
    StartRegs <- MCStartRegs
    SizeRegs <- MCSizeRegs
    MaxCmds = 2
    Ids = {0, 1, 2}
    Debounce = 3
    MaxBounce = 3
    MaxArg = 4
    MaxLine = 2
    MaxQuads = 2
    WordBits = 5
    AddrBits = 3
    Letters = {5, 15}
    Command <- MCCommand
SPECIFICATION Spec
INVARIANTS
    FaultFound
    ErrorsExact
    EyeMeasured
    ParetoChosen
    WindowInMemory
    SwitchSeen
    LineParsed
    CallMeant
PROPERTIES
    SettingsKept
    RemoteServed
CHECK_DEADLOCK FALSE
