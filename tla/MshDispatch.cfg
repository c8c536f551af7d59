SPECIFICATION Spec
CONSTANTS
    NameCells = 5
    ArgCells = 2
    Slots = 2
    Base = 712
    Input <- DispatchInput
    Builtin <- ShortNames
    Files <- DispatchFiles
    MaxLine = 4
    Faults = TRUE
INVARIANTS
    ReaderInv
    DispatchIsExact
    CdTarget
