-------------------------------- MODULE Boot --------------------------------
(***************************************************************************)
(* The boot half of scrolls/init.m8a, from start to supervise_msh: PID 1   *)
(* replaces the descriptors it was given by three of /dev/console, prints  *)
(* /etc/issue, and mounts proc, sysfs and devtmpfs.  No result is looked   *)
(* at except where the scroll has a brancherr or a branchz.  Circle takes  *)
(* over at supervise_msh.                                                  *)
(***************************************************************************)
EXTENDS Naturals, FiniteSetsExt

CONSTANTS
    MaxFd,          \* bound: descriptors 0 .. MaxFd
    Filesystems     \* the mounts in order: proc, sysfs, devtmpfs

Fd == 0 .. MaxFd
Free == "free"

ASSUME BootAssumption == MaxFd \in Nat /\ MaxFd >= 3

VARIABLES
    at,         \* the label or trap PID 1 is at
    k,          \* which of the unrolled closes, opens or mounts
    fds,        \* descriptor table of PID 1
    A,          \* result of the last trap that succeeded
    err,        \* the last trap failed
    console,    \* how many opens of the console succeeded
    dirs,       \* targets that exist
    mounted,    \* what is mounted
    reported    \* what the boot messages say of each mount

vars == <<at, k, fds, A, err, console, dirs, mounted, reported>>

Targets == {Filesystems[i] : i \in DOMAIN Filesystems}
LastMount == CHOOSE n \in DOMAIN Filesystems : \A m \in DOMAIN Filesystems : m <= n

ASSUME FilesystemsAssumption ==
    /\ LastMount \in Nat \ {0}
    /\ DOMAIN Filesystems = 1 .. LastMount
    /\ \A m, n \in DOMAIN Filesystems : Filesystems[m] = Filesystems[n] => m = n

(* The kernel opens the console three times for PID 1, or not at all; the  *)
(* initramfs has the mount points or not.                                  *)
Init ==
    /\ fds \in {[f \in Fd |-> IF f <= 2 THEN given ELSE Free] : given \in {"given", Free}}
    /\ dirs \in SUBSET Targets
    /\ at = "close" /\ k = 0 /\ A = 0 /\ err = FALSE
    /\ console = 0 /\ mounted = {} /\ reported = [t \in Targets |-> "nothing"]

(* External: what the kernel does with the descriptor table. *)
FreeFds == {f \in Fd : fds[f] = Free}
Opened(file) == [fds EXCEPT ![Min(FreeFds)] = file]

Close(f) ==
    /\ fds' = [fds EXCEPT ![f] = Free]
    /\ err' = (fds[f] = Free)

(* trap close 0, 1, 2 *)
CloseStd ==
    /\ at = "close"
    /\ Close(k)
    /\ IF k < 2 THEN k' = k + 1 /\ UNCHANGED at ELSE k' = 0 /\ at' = "console"
    /\ UNCHANGED <<A, console, dirs, mounted, reported>>

(* trap open console_path, three times; the result is not looked at. *)
OpenConsole ==
    /\ at = "console"
    /\ \/ /\ fds' = Opened("console")
          /\ A' = Min(FreeFds) /\ err' = FALSE /\ console' = console + 1
       \/ err' = TRUE /\ UNCHANGED <<fds, A, console>>
    /\ IF k < 2 THEN k' = k + 1 /\ UNCHANGED at ELSE k' = 1 /\ at' = "issue"
    /\ UNCHANGED <<dirs, mounted, reported>>

(* setsid, chdir, the boot message; then trap open issue_path. *)
OpenIssue ==
    /\ at = "issue"
    /\ \/ /\ fds' = Opened("issue")
          /\ A' = Min(FreeFds) /\ err' = FALSE
          /\ at' = "read"
       \/ /\ err' = TRUE /\ at' = "mkdir"
          /\ UNCHANGED <<fds, A>>
    /\ UNCHANGED <<k, console, dirs, mounted, reported>>

(* trap read A issue_buf 512 and the two branches to issue_close: the read *)
(* may fail or find nothing.                                               *)
ReadIssue ==
    /\ at = "read"
    /\ \/ /\ fds[A] = "issue"
          /\ err' = FALSE
          /\ A' \in {0, 1}
       \/ err' = TRUE /\ UNCHANGED A
    /\ at' = "issue_close"
    /\ UNCHANGED <<k, fds, console, dirs, mounted, reported>>

(* Mutant: the descriptor is taken to be 4. *)
CloseIssueWrong ==
    /\ at = "issue_close"
    /\ err' = TRUE
    /\ at' = "mkdir"
    /\ UNCHANGED <<k, fds, A, console, dirs, mounted, reported>>

(* trap close 3, whatever descriptor the issue was opened on. *)
CloseIssue ==
    /\ at = "issue_close"
    /\ Close(3)
    /\ at' = "mkdir"
    /\ UNCHANGED <<k, A, console, dirs, mounted, reported>>

Target == Filesystems[k]

(* trap mkdir: fails on what exists, or because the kernel says so. *)
Mkdir ==
    /\ at = "mkdir"
    /\ \/ Target \notin dirs /\ dirs' = dirs \cup {Target} /\ err' = FALSE
       \/ dirs' = dirs /\ err' = TRUE
    /\ at' = "mount"
    /\ UNCHANGED <<k, fds, A, console, mounted, reported>>

(* Mutant: the failure of mkdir, on a target that exists, is reported. *)
MountUnlessMkdirFailed ==
    /\ at = "mount"
    /\ \/ Target \in dirs /\ mounted' = mounted \cup {Target} /\ UNCHANGED err
       \/ mounted' = mounted /\ err' = TRUE
    /\ at' = "report"
    /\ UNCHANGED <<k, fds, A, console, dirs, reported>>

(* trap mount, which needs its target. *)
Mount ==
    /\ at = "mount"
    /\ \/ Target \in dirs /\ mounted' = mounted \cup {Target} /\ err' = FALSE
       \/ mounted' = mounted /\ err' = TRUE
    /\ at' = "report"
    /\ UNCHANGED <<k, fds, A, console, dirs, reported>>

(* Mutant: the jump after the last mount but one goes to supervise_msh. *)
ReportSkipsLast ==
    /\ at = "report"
    /\ reported' = [reported EXCEPT ![Target] = IF err THEN "failed" ELSE "ok"]
    /\ IF k + 1 < LastMount THEN k' = k + 1 /\ at' = "mkdir"
       ELSE at' = "supervise_msh" /\ UNCHANGED k
    /\ UNCHANGED <<fds, A, err, console, dirs, mounted>>

(* brancherr: "ok", or a failure message; on to the next mount. *)
Report ==
    /\ at = "report"
    /\ reported' = [reported EXCEPT ![Target] = IF err THEN "failed" ELSE "ok"]
    /\ IF k < LastMount THEN k' = k + 1 /\ at' = "mkdir" ELSE at' = "supervise_msh" /\ UNCHANGED k
    /\ UNCHANGED <<fds, A, err, console, dirs, mounted>>

Next ==
    \/ CloseStd \/ OpenConsole \/ OpenIssue \/ ReadIssue \/ CloseIssue
    \/ Mkdir \/ Mount \/ Report

Spec == Init /\ [][Next]_vars

----------------------------------------------------------------------------
(* What the shells inherit from PID 1, whatever descriptors the kernel     *)
(* gave and whichever opens of the console failed: the lowest descriptors  *)
(* are the console, one for each open that succeeded, and no descriptor    *)
(* the kernel gave is left.  issue_close names descriptor 3 by number: if  *)
(* an open failed, /etc/issue is on a lower one, where the shell reads or  *)
(* writes, and may stay open there; if none did, nothing else is open.     *)
ConsoleClaimedOnceOpened ==
    at = "supervise_msh" =>
        \E next \in {Free, "issue"} :
            /\ console = 3 => next = Free
            /\ fds = [f \in Fd |-> IF f < console THEN "console"
                                   ELSE IF f = console THEN next ELSE Free]

(* The messages on the console agree with what is mounted: "ok" for a      *)
(* mount that took place and a failure for one that did not, whatever      *)
(* mkdir returned just before.                                             *)
ReportsAreTrue ==
    \A t \in Targets : reported[t] # "nothing" => (reported[t] = "ok" <=> t \in mounted)
=============================================================================
