SPECIFICATION FairSpec
CONSTANTS
    BLOCK_SIZE = 4
    HEADER_SIZE = 8
    ENTRY_SIZE = 6
    NAME_SIZE = 3
    SLOTS = 2
    MfsBuf = 30
    Roots <- MCRoots
    PeersRemake = FALSE
    MaxEdits = 2
    MaxInterrupts = 1
INVARIANTS UpToDateIsCurrent BundleIsWhole
PROPERTY MakeConverges
