SPECIFICATION FairSpec
CONSTANTS
    MaxPid = 4
    WordMod = 6
    Budgets <- ShortBudgets
    Faults <- WaitFault
INVARIANTS
    OneForeground
    WaitersHaveTheirChild
    PidOneIsInit
PROPERTIES
    PromptReturnsUnlessStarved
