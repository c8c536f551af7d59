----------------------------- MODULE BootProofs -----------------------------
(***************************************************************************)
(* The two safety properties of the boot, for any number of descriptors    *)
(* from 0 to at least 3 and any list of different mounts.                  *)
(***************************************************************************)
EXTENDS Boot, TLAPS

(* A step that takes longer than the usual limits is given more time, so   *)
(* that what is proved does not depend on how fast the machine is.         *)
USE SMT, Zenon, SMTT(60), ZenonT(60)

USE DEF Fd, Free

(* The table after c opens of the console and nothing else. *)
Row(c) == [f \in Fd |-> IF f < c THEN "console" ELSE Free]

Contents == {"given", "console", "issue", "free"}
Mounting == {"mkdir", "mount", "report", "supervise_msh"}

(* The kernel's lowest free descriptor is the number of opens that have    *)
(* succeeded, until the issue has been opened on it; it stays there unless *)
(* that is descriptor 3.                                                   *)
FdsInv ==
    /\ at \in {"close", "console", "issue", "read", "issue_close"} \cup Mounting
    /\ k \in Nat /\ console \in 0 .. 3 /\ fds \in [Fd -> Contents]
    /\ at = "close" => /\ console = 0 /\ k \in 0 .. 2
                       /\ \A f \in Fd : (f < k \/ f > 2) => fds[f] = Free
    /\ at = "console" => k \in 0 .. 2 /\ console <= k /\ fds = Row(console)
    /\ at = "issue" => fds = Row(console)
    /\ at \in {"read", "issue_close"} => fds = [Row(console) EXCEPT ![console] = "issue"]
    /\ at \in Mounting => \E next \in {Free, "issue"} :
                              /\ console = 3 => next = Free
                              /\ fds = [Row(console) EXCEPT ![console] = next]

(* Mount k is the one under way: those before it are reported, those after *)
(* it are neither mounted nor reported, and at the report the error flag   *)
(* is that of the mount.                                                   *)
Pending(j) == j > k \/ (j = k /\ at \in {"mkdir", "mount"})

MountInv ==
    /\ at \in {"close", "console", "issue", "read", "issue_close"} \cup Mounting
    /\ k \in Nat /\ err \in BOOLEAN
    /\ mounted \in SUBSET Targets /\ reported \in [Targets -> {"nothing", "ok", "failed"}]
    /\ at \notin Mounting => mounted = {} /\ \A t \in Targets : reported[t] = "nothing"
    /\ at \in {"issue", "read", "issue_close"} => k = 1
    /\ at \in Mounting =>
           /\ k \in 1 .. LastMount
           /\ \A j \in 1 .. LastMount : Pending(j) => Filesystems[j] \notin mounted
           /\ \A j \in 1 .. LastMount :
                  (Pending(j) \/ (j = k /\ at = "report")) => reported[Filesystems[j]] = "nothing"
    /\ at = "report" => (err <=> Filesystems[k] \notin mounted)
    /\ ReportsAreTrue

(***************************************************************************)
(* Descriptors                                                             *)
(***************************************************************************)

(* After c opens the lowest free descriptor is c. *)
LEMMA LowestFree ==
    ASSUME NEW c \in 0 .. 3, fds = Row(c)
    PROVE  Min(FreeFds) = c
<1>1. c \in FreeFds /\ \A f \in FreeFds : c <= f
  BY BootAssumption DEF FreeFds, Row
<1>2. FreeFds \subseteq Nat  BY BootAssumption DEF FreeFds
<1>3. \A x \in FreeFds : (\A y \in FreeFds : x <= y) => x = c  BY <1>1, <1>2
<1>. QED BY <1>1, <1>3 DEF Min

LEMMA RowType ==
    ASSUME NEW c \in Nat
    PROVE  Row(c) \in [Fd -> Contents] /\ [Row(c) EXCEPT ![c] = "issue"] \in [Fd -> Contents]
BY DEF Row, Contents

LEMMA FdsInit == Init => FdsInv
<1>. SUFFICES ASSUME Init PROVE FdsInv  OBVIOUS
<1>1. PICK given \in {"given", Free} : fds = [f \in Fd |-> IF f <= 2 THEN given ELSE Free]
  BY DEF Init
<1>2. fds \in [Fd -> Contents] /\ \A f \in Fd : f > 2 => fds[f] = Free
  BY <1>1, BootAssumption DEF Contents
<1>. QED BY <1>2, BootAssumption DEF Init, FdsInv, Mounting

LEMMA FdsNext == FdsInv /\ [Next]_vars => FdsInv'
<1>. SUFFICES ASSUME FdsInv, [Next]_vars PROVE FdsInv'  OBVIOUS
<1>. USE BootAssumption
<1>1. CASE CloseStd
  <2>1. CASE k < 2  BY <1>1, <2>1 DEF FdsInv, CloseStd, Close, Mounting
  <2>2. CASE ~(k < 2)
    <3>1. k = 2 /\ at' = "console" /\ k' = 0 /\ console' = console /\ console = 0
      BY <1>1, <2>2 DEF FdsInv, CloseStd
    <3>2. fds' = [fds EXCEPT ![2] = Free]  BY <1>1, <3>1 DEF CloseStd, Close
    <3>3. \A f \in Fd : fds'[f] = Free  BY <1>1, <3>1, <3>2 DEF FdsInv, CloseStd
    <3>4. fds' \in [Fd -> Contents]  BY <3>2 DEF FdsInv, Contents
    <3>5. fds' = Row(0)  BY <3>3, <3>4 DEF Row
    <3>. QED BY <3>1, <3>4, <3>5 DEF FdsInv, Mounting
  <2>. QED BY <2>1, <2>2
<1>2. CASE OpenConsole
  <2>1. fds = Row(console) /\ k \in 0 .. 2 /\ console <= k  BY <1>2 DEF FdsInv, OpenConsole
  <2>2. Min(FreeFds) = console  BY <2>1, LowestFree DEF FdsInv
  <2>3. [Row(console) EXCEPT ![console] = "console"] = Row(console + 1)
    BY <2>1 DEF FdsInv, Row
  <2>4. /\ fds' = Row(console') /\ console' <= k + 1 /\ console' \in Nat
        /\ fds' \in [Fd -> Contents]
    <3>1. CASE fds' = Opened("console") /\ console' = console + 1
      BY <3>1, <2>1, <2>2, <2>3, RowType DEF Opened, FdsInv
    <3>2. CASE UNCHANGED <<fds, console>>
      BY <3>2, <2>1 DEF FdsInv
    <3>. QED BY <1>2, <3>1, <3>2 DEF OpenConsole
  <2>. QED BY <1>2, <2>1, <2>4 DEF OpenConsole, FdsInv, Mounting
<1>3. CASE OpenIssue
  <2>1. fds = Row(console)  BY <1>3 DEF FdsInv, OpenIssue
  <2>2. Min(FreeFds) = console  BY <2>1, LowestFree DEF FdsInv
  <2>3. CASE fds' = Opened("issue") /\ at' = "read"
    <3>1. fds' = [Row(console) EXCEPT ![console] = "issue"]  BY <2>1, <2>2, <2>3 DEF Opened
    <3>2. fds' \in [Fd -> Contents]  BY <3>1, RowType DEF FdsInv
    <3>. QED BY <1>3, <2>3, <3>1, <3>2 DEF FdsInv, OpenIssue, Mounting
  <2>4. CASE at' = "mkdir" /\ UNCHANGED fds
    <3>1. [Row(console) EXCEPT ![console] = Free] = Row(console)  BY DEF FdsInv, Row
    <3>2. fds' = [Row(console') EXCEPT ![console'] = Free]  BY <1>3, <2>1, <2>4, <3>1 DEF OpenIssue
    <3>. QED BY <1>3, <2>4, <3>2 DEF FdsInv, OpenIssue, Mounting
  <2>. QED BY <1>3, <2>3, <2>4 DEF OpenIssue
<1>4. CASE ReadIssue  BY <1>4 DEF FdsInv, ReadIssue, Mounting
<1>5. CASE CloseIssue
  <2>1. fds = [Row(console) EXCEPT ![console] = "issue"]  BY <1>5 DEF FdsInv, CloseIssue
  <2>2. fds' = [fds EXCEPT ![3] = Free] /\ at' = "mkdir" /\ console' = console /\ k' = k
    BY <1>5 DEF CloseIssue, Close
  <2>3. CASE console = 3
    <3>1. fds' = [Row(console) EXCEPT ![console] = Free]  BY <2>1, <2>2, <2>3 DEF Row
    <3>. QED BY <2>2, <2>3, <3>1 DEF FdsInv, Mounting, Contents, Row
  <2>4. CASE console # 3
    <3>3. fds[3] = Free /\ 3 \in Fd  BY <2>1, <2>4 DEF FdsInv, Row
    <3>4. fds \in [Fd -> Contents]  BY DEF FdsInv
    <3>1. fds' = fds  BY <2>2, <3>3, <3>4
    <3>2. fds' = [Row(console') EXCEPT ![console'] = "issue"]  BY <2>1, <2>2, <3>1
    <3>. QED BY <2>2, <2>4, <3>1, <3>2 DEF FdsInv, Mounting
  <2>. QED BY <2>3, <2>4
<1>6. CASE Mkdir  BY <1>6 DEF FdsInv, Mkdir, Mounting
<1>7. CASE Mount  BY <1>7 DEF FdsInv, Mount, Mounting
<1>8. CASE Report
  <2>1. k' \in Nat  BY <1>8 DEF FdsInv, Report
  <2>. QED BY <1>8, <2>1 DEF FdsInv, Report, Mounting
<1>9. CASE UNCHANGED vars  BY <1>9 DEF FdsInv, vars, Mounting
<1>. QED BY <1>1, <1>2, <1>3, <1>4, <1>5, <1>6, <1>7, <1>8, <1>9 DEF Next

(* Whichever opens of the console fail, the shells inherit those that      *)
(* succeeded on the lowest descriptors, and besides them at most the       *)
(* issue, on the next one: issue_close's fixed descriptor 3 is the one it  *)
(* is on when none failed.                                                 *)
THEOREM BootConsoleClaimed == Spec => []ConsoleClaimedOnceOpened
<1>1. FdsInv => ConsoleClaimedOnceOpened
  <2>. SUFFICES ASSUME FdsInv, at = "supervise_msh" PROVE ConsoleClaimedOnceOpened
    BY DEF ConsoleClaimedOnceOpened
  <2>1. PICK next \in {Free, "issue"} : /\ console = 3 => next = Free
                                       /\ fds = [Row(console) EXCEPT ![console] = next]
    BY DEF FdsInv, Mounting
  <2>2. console \in 0 .. 3  BY DEF FdsInv
  <2>3. fds = [f \in Fd |-> IF f < console THEN "console"
                             ELSE IF f = console THEN next ELSE Free]
    <3>1. DOMAIN fds = Fd  BY <2>1 DEF Row
    <3>2. \A f \in Fd : fds[f] = IF f < console THEN "console"
                                ELSE IF f = console THEN next ELSE Free
      BY <2>1, <2>2, BootAssumption DEF Row
    <3>3. fds = [f \in Fd |-> fds[f]]  BY <2>1, <3>1 DEF Row
    <3>. QED BY <3>2, <3>3
  <2>. QED BY <2>1, <2>3 DEF ConsoleClaimedOnceOpened
<1>. QED BY <1>1, FdsInit, FdsNext, PTL DEF Spec

(***************************************************************************)
(* Mounts                                                                  *)
(***************************************************************************)

LEMMA MountInit == Init => MountInv
<1>. SUFFICES ASSUME Init PROVE MountInv  OBVIOUS
<1>1. reported \in [Targets -> {"nothing", "ok", "failed"}] /\ \A t \in Targets : reported[t] = "nothing"
  BY DEF Init
<1>2. ReportsAreTrue  BY <1>1 DEF ReportsAreTrue
<1>3. at = "close" /\ k = 0 /\ err \in BOOLEAN /\ mounted = {}  BY DEF Init
<1>. QED BY <1>1, <1>2, <1>3 DEF MountInv, Mounting

LEMMA MountNext == MountInv /\ [Next]_vars => MountInv'
<1>. SUFFICES ASSUME MountInv, [Next]_vars PROVE MountInv'  OBVIOUS
<1>. USE FilesystemsAssumption
<1>0. \A j \in 1 .. LastMount : Filesystems[j] \in Targets  BY DEF Targets
<1>1. CASE CloseStd
  BY <1>1 DEF MountInv, CloseStd, Close, Mounting, ReportsAreTrue
<1>2. CASE OpenConsole
  <2>1. /\ at = "console" /\ err' \in BOOLEAN /\ UNCHANGED <<mounted, reported>>
        /\ \/ k' = k + 1 /\ at' = "console"
           \/ k' = 1 /\ at' = "issue"
    BY <1>2 DEF OpenConsole
  <2>. QED BY <2>1 DEF MountInv, Mounting, ReportsAreTrue
<1>3. CASE OpenIssue
  <2>1. /\ at = "issue" /\ at' \in {"read", "mkdir"} /\ err' \in BOOLEAN
        /\ UNCHANGED <<k, mounted, reported>>
    BY <1>3 DEF OpenIssue
  <2>. QED BY <1>0, <2>1 DEF MountInv, Mounting, ReportsAreTrue
<1>4. CASE ReadIssue
  BY <1>4 DEF MountInv, ReadIssue, Mounting, ReportsAreTrue
<1>5. CASE CloseIssue
  <2>1. at = "issue_close" /\ at' = "mkdir" /\ err' \in BOOLEAN /\ UNCHANGED <<k, mounted, reported>>
    BY <1>5 DEF CloseIssue, Close
  <2>. QED BY <1>0, <2>1 DEF MountInv, Mounting, ReportsAreTrue
<1>6. CASE Mkdir
  <2>1. at = "mkdir" /\ at' = "mount" /\ err' \in BOOLEAN /\ UNCHANGED <<k, mounted, reported>>
    BY <1>6 DEF Mkdir
  <2>. QED BY <2>1 DEF MountInv, Mounting, ReportsAreTrue, Pending
<1>7. CASE Mount
  <2>1. /\ at = "mount" /\ at' = "report" /\ UNCHANGED <<k, reported>>
        /\ \/ mounted' = mounted \cup {Filesystems[k]} /\ err' = FALSE
           \/ mounted' = mounted /\ err' = TRUE
    BY <1>7 DEF Mount, Target
  <2>2. k \in 1 .. LastMount /\ Filesystems[k] \notin mounted /\ reported[Filesystems[k]] = "nothing"
    BY <2>1 DEF MountInv, Mounting, Pending
  <2>3. /\ mounted' \in SUBSET Targets
        /\ err' <=> Filesystems[k] \notin mounted'
        /\ \A t \in Targets : t # Filesystems[k] => (t \in mounted' <=> t \in mounted)
    BY <1>0, <2>1, <2>2 DEF MountInv
  <2>4. \A j \in 1 .. LastMount : j > k => Filesystems[j] \notin mounted'
    BY <1>0, <2>1, <2>2, <2>3 DEF MountInv, Mounting, Pending
  <2>5. ReportsAreTrue'
    BY <2>1, <2>2, <2>3 DEF MountInv, ReportsAreTrue
  <2>6. \A j \in 1 .. LastMount : j >= k => reported'[Filesystems[j]] = "nothing"
    BY <2>1, <2>2 DEF MountInv, Mounting, Pending
  <2>. QED BY <2>1, <2>2, <2>3, <2>4, <2>5, <2>6 DEF MountInv, Mounting, Pending
<1>8. CASE Report
  <2>1. /\ at = "report" /\ UNCHANGED <<err, mounted>>
        /\ reported' = [reported EXCEPT ![Filesystems[k]] = IF err THEN "failed" ELSE "ok"]
        /\ \/ k < LastMount /\ k' = k + 1 /\ at' = "mkdir"
           \/ ~(k < LastMount) /\ k' = k /\ at' = "supervise_msh"
    BY <1>8 DEF Report, Target
  <2>2. k \in 1 .. LastMount /\ (err <=> Filesystems[k] \notin mounted)
    BY <2>1 DEF MountInv, Mounting
  <2>3. /\ reported' \in [Targets -> {"nothing", "ok", "failed"}]
        /\ reported'[Filesystems[k]] = IF err THEN "failed" ELSE "ok"
        /\ \A t \in Targets : t # Filesystems[k] => reported'[t] = reported[t]
    BY <1>0, <2>1, <2>2 DEF MountInv
  <2>4. ReportsAreTrue'  BY <2>1, <2>2, <2>3 DEF MountInv, ReportsAreTrue
  <2>5. \A j \in 1 .. LastMount : j > k =>
            Filesystems[j] \notin mounted' /\ reported'[Filesystems[j]] = "nothing"
    BY <1>0, <2>1, <2>2, <2>3 DEF MountInv, Mounting, Pending
  <2>. QED BY <2>1, <2>2, <2>3, <2>4, <2>5 DEF MountInv, Mounting, Pending
<1>9. CASE UNCHANGED vars
  BY <1>9 DEF MountInv, vars, Mounting, Pending, ReportsAreTrue
<1>. QED BY <1>1, <1>2, <1>3, <1>4, <1>5, <1>6, <1>7, <1>8, <1>9 DEF Next

(* The message of a mount is about that mount, whichever of mkdir and      *)
(* mount failed before, and no message is out of date later.               *)
THEOREM BootReportsTrue == Spec => []ReportsAreTrue
<1>1. MountInv => ReportsAreTrue  BY DEF MountInv
<1>. QED BY <1>1, MountInit, MountNext, PTL DEF Spec
=============================================================================
