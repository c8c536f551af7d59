SPECIFICATION FairSpec
CONSTANTS
    MaxPid = 5
    WordMod = 8
    Budgets <- NoBudget
    Faults <- ForkExec
PROPERTIES
    ImplementsConsole
    CommandReturns
    ZombiesAreReaped
