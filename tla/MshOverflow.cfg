SPECIFICATION Spec
CONSTANTS
    NameCells = 5
    ArgCells = 4
    Slots = 2
    Base = 712
    Input <- LetterInput
    Builtin <- ShortNames
    Files <- ParserFiles
    MaxLine = 8
    Faults = FALSE
INVARIANTS
    ArgvIsWhatFits
