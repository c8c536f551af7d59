SPECIFICATION ScrollSpec
CONSTANTS
    Trits = 6
    Low = 33
    Glyphs = 94
    XLAT1 <- MCXLAT1
    XLAT2 <- MCXLAT2
    ENC_WORD_CELLS = 3
    M8_ABI_ARGC = 690
    M8_ABI_ARGV = 691
    M8_ABI_ARGVEC = 692
    M8_ABI_STRINGS = 696
    M8_ABI_MAX_ARGS = 2
    max_steps = 400
    Images = {}
    Argvs <- MCArgvs
    Syscall <- MCSyscall
    Results = {0}
    Bytes = {0}
    MaxFill = 0
    Files <- MCFiles
    Scrolls <- DocScrolls
    SYSCALLS <- MCSYSCALLS
    SPECIALS <- MCSPECIALS
    Canary = 680
INVARIANT RitualRewritesCell
