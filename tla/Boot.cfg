SPECIFICATION SmokeSpec
CONSTANTS
    MaxFd = 4
    Filesystems <- MCFilesystems
    N = 3
    Marks <- MCMarks
INVARIANTS ConsoleClaimedOnceOpened ReportsAreTrue NoTypeAhead NoStandoff PassMeansSession
PROPERTIES BootReachesShell SmokeEnds
