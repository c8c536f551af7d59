SPECIFICATION Spec
CONSTANTS
    NameCells = 5
    ArgCells = 3
    Slots = 2
    Base = 712
    Input <- ParserInput
    Builtin <- ShortNames
    Files <- ParserFiles
    MaxLine = 7
    Faults = FALSE
INVARIANTS
    ArgvWellFormed
    OnlyLastArgRunsOn
    ArgvFaithful
    OnlyTheTypedCommandRuns
PROPERTIES
    OneLinePerPrompt
