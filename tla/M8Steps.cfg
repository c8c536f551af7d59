SPECIFICATION Spec
CONSTANTS
    Trits = 3
    Low <- MCLow
    Glyphs <- MCGlyphs
    XLAT1 <- MCXLAT1
    XLAT2 <- MCXLAT2
    ENC_WORD_CELLS = 2
    M8_ABI_ARGC = 18
    M8_ABI_ARGV = 19
    M8_ABI_ARGVEC = 20
    M8_ABI_STRINGS = 23
    M8_ABI_MAX_ARGS = 2
    max_steps = 7
    Images <- MCImages
    Argvs <- MCArgvs
    Syscall <- MCSyscall
    Results <- MCResults
    Bytes = {0, 1, 9}
    MaxFill = 2
INVARIANTS TypeOK InstructionsKept
PROPERTY FallThroughStaysOnWalk
