------------------------------- MODULE Circle -------------------------------
(***************************************************************************)
(* The supervision tree: PID 1 (scrolls/init.m8a from supervise_msh on),   *)
(* the shells (scrolls/msh.m8a, the part that forks and waits), the        *)
(* commands they run, and the kernel's process table.                      *)
(*                                                                         *)
(* Every process is a copy of the runtime src/runtime/m8.c interpreting a  *)
(* scroll.  Two facts of the runtime matter here.  A syscall result is     *)
(* truncated to a VM word, so a pid passes through `% WordMod' before the  *)
(* scroll branches on it or waits for it.  And run() gives up after a      *)
(* budget of steps: a process that is not blocked in a syscall may then    *)
(* stop in the middle of its scroll.                                       *)
(*                                                                         *)
(* Signals are left out: PID 1 opens /dev/console, which is never a        *)
(* controlling terminal, and no scroll sends one.                          *)
(***************************************************************************)
EXTENDS Naturals, FiniteSets

CONSTANTS
    MaxPid,     \* size of the kernel's process table, pids 1 .. MaxPid
    WordMod,    \* 3^10 = 59049
    Budgets,    \* step budgets of run(), one number for each program
    Faults      \* the calls the kernel may refuse: "fork", "exec", "wait"

Pid == 1 .. MaxPid
Program == {"init", "msh", "cmd"}

(* With the kernel's default pid_max of 32768 every pid is its own VM word *)
(* and none is the word for -1.  Every process has the same budget of      *)
(* 10000000 instructions; how many of the steps below that is depends on   *)
(* the image and on what is typed, so each program has its own number, and *)
(* 0 stands for a budget that is not reached.                              *)
ASSUME CircleAssumption ==
    /\ MaxPid \in Nat \ {0}
    /\ WordMod \in Nat /\ MaxPid < WordMod - 1
    /\ Budgets \subseteq [Program -> Nat]
    /\ Faults \subseteq {"fork", "exec", "wait"}

VARIABLES
    st,       \* [Pid -> {"free", "run", "zombie"}]
    parent,   \* [Pid -> Pid \cup {0}], 0 for PID 1 and for a free pid
    prog,     \* the image the process interprets
    at,       \* label of the scroll
    forked,   \* the word the last fork left in A
    steps,    \* steps run() has counted
    max_steps, \* the budgets, chosen once
    panic,    \* PID 1 has exited
    strayed   \* history: a parent has lost sight of a child

vars == <<st, parent, prog, at, forked, steps, max_steps, panic, strayed>>

InitLabels == {"supervise_msh", "child_exec", "parent_wait", "nanosleep"}
MshLabels  == {"msh_loop", "external_child", "wait4"}

(* Labels at which the next trap is wait4. *)
WaitLabels == {"parent_wait", "wait4"}

----------------------------------------------------------------------------
(* The runtime. *)

(* Mutant: a word too narrow for the pids. *)
mod_narrow(r) == r % 3

mod_word(r) == r % WordMod

(* The pids a wait4 with this argument accepts. *)
vm_pid_arg(w) == IF w = WordMod - 1 THEN Pid ELSE {w}

Metered(p) == max_steps[prog[p]] > 0
OutOfSteps(p) == Metered(p) /\ steps[p] >= max_steps[prog[p]]

(* p executes: it runs, is at label l and has budget left. *)
Executes(p, l) == ~panic /\ st[p] = "run" /\ at[p] = l /\ ~OutOfSteps(p)

Count(p) == IF Metered(p) THEN steps[p] + 1 ELSE 0

Tick(p) == steps' = [steps EXCEPT ![p] = Count(p)]
Goto(p, l) == at' = [at EXCEPT ![p] = l]

----------------------------------------------------------------------------
(* The kernel. *)

Free == {q \in Pid : st[q] = "free"}
Children(p) == {q \in Pid : st[q] # "free" /\ parent[q] = p}

(* exit: p becomes a zombie and its children go to PID 1, whose own exit   *)
(* is a kernel panic.                                                      *)
Exit(p) ==
    /\ st' = [st EXCEPT ![p] = "zombie"]
    /\ parent' = [q \in Pid |-> IF q \in Children(p) THEN 1 ELSE parent[q]]
    /\ Goto(p, "none")
    /\ panic' = (panic \/ p = 1)
    /\ UNCHANGED <<prog, forked, steps, max_steps>>

(* fork: the child is a copy of the caller, step count included, and sees  *)
(* 0 in A; the caller sees the child's pid.  Both then take `branchz       *)
(* childLabel', which reads A.                                             *)
ForkAs(p, q, childLabel, parentLabel) ==
    LET a == mod_word(q) IN
    /\ q \in Free
    /\ st' = [st EXCEPT ![q] = "run"]
    /\ parent' = [parent EXCEPT ![q] = p]
    /\ prog' = [prog EXCEPT ![q] = prog[p]]
    /\ at' = [at EXCEPT ![q] = childLabel,
                        ![p] = IF a = 0 THEN childLabel ELSE parentLabel]
    /\ forked' = [forked EXCEPT ![q] = 0, ![p] = a]
    /\ steps' = [steps EXCEPT ![p] = Count(p), ![q] = Count(p)]
    /\ UNCHANGED <<max_steps, panic, strayed>>

(* fork is refused when the table is full, or out of memory. *)
ForkFails(p, failLabel) ==
    /\ Free = {} \/ "fork" \in Faults
    /\ Goto(p, failLabel)
    /\ Tick(p)
    /\ UNCHANGED <<st, parent, prog, forked, max_steps, panic, strayed>>

(* execve replaces the image; run() starts counting again. *)
Exec(p, image, label) ==
    /\ prog' = [prog EXCEPT ![p] = image]
    /\ Goto(p, label)
    /\ steps' = [steps EXCEPT ![p] = 0]
    /\ forked' = [forked EXCEPT ![p] = 0]
    /\ UNCHANGED <<st, parent, max_steps, panic, strayed>>

(* wait4 returns once a child among pids is a zombie, and frees it. *)
Reap(p, pids, label) ==
    \E z \in Children(p) \cap pids :
        /\ st[z] = "zombie"
        /\ st' = [st EXCEPT ![z] = "free"]
        /\ parent' = [parent EXCEPT ![z] = 0]
        /\ prog' = [prog EXCEPT ![z] = "cmd"]
        /\ forked' = [forked EXCEPT ![z] = 0]
        /\ steps' = [steps EXCEPT ![p] = Count(p), ![z] = 0]
        /\ Goto(p, label)
        /\ UNCHANGED <<max_steps, panic, strayed>>

(* ECHILD when there is no such child. *)
WaitFails(p, pids, label) ==
    LET waited == Children(p) \cap pids IN
    /\ waited = {} \/ "wait" \in Faults
    /\ strayed' = (strayed \/ waited # {})
    /\ Goto(p, label)
    /\ Tick(p)
    /\ UNCHANGED <<st, parent, prog, forked, max_steps, panic>>

----------------------------------------------------------------------------
(* scrolls/init.m8a, supervise_msh to wait_failed.  PID 1 boots on an      *)
(* empty table (module Boot has what comes before).                        *)

Init ==
    /\ st = [p \in Pid |-> IF p = 1 THEN "run" ELSE "free"]
    /\ parent = [p \in Pid |-> 0]
    /\ prog = [p \in Pid |-> IF p = 1 THEN "init" ELSE "cmd"]
    /\ at = [p \in Pid |-> IF p = 1 THEN "supervise_msh" ELSE "none"]
    /\ forked = [p \in Pid |-> 0]
    /\ steps = [p \in Pid |-> 0]
    /\ max_steps \in Budgets
    /\ panic = FALSE /\ strayed = FALSE

(* Mutant: the parent takes the branch of the child. *)
SuperviseAsChild(p) ==
    /\ Executes(p, "supervise_msh")
    /\ \/ \E q \in Free : ForkAs(p, q, "parent_wait", "child_exec")
       \/ ForkFails(p, "nanosleep")

SuperviseMsh(p) ==
    /\ Executes(p, "supervise_msh")
    /\ \/ \E q \in Free : ForkAs(p, q, "child_exec", "parent_wait")
       \/ ForkFails(p, "nanosleep")

(* Mutant: wait4 with WNOHANG. *)
ParentPolls(p) ==
    /\ Executes(p, "parent_wait")
    /\ Goto(p, "nanosleep")
    /\ Tick(p)
    /\ UNCHANGED <<st, parent, prog, forked, max_steps, panic, strayed>>

ParentWait(p) ==
    /\ Executes(p, "parent_wait")
    /\ \/ Reap(p, vm_pid_arg(WordMod - 1), "nanosleep")
       \/ WaitFails(p, vm_pid_arg(WordMod - 1), "nanosleep")

(* Mutant: back to the wait instead of the respawn. *)
NanosleepThenWait(p) ==
    /\ Executes(p, "nanosleep")
    /\ Goto(p, "parent_wait")
    /\ Tick(p)
    /\ UNCHANGED <<st, parent, prog, forked, max_steps, panic, strayed>>

(* The one-second sleep of the reaped, fork_failed and wait_failed paths.  *)
Nanosleep(p) ==
    /\ Executes(p, "nanosleep")
    /\ Goto(p, "supervise_msh")
    /\ Tick(p)
    /\ UNCHANGED <<st, parent, prog, forked, max_steps, panic, strayed>>

(* A refused execve ends the child with 127. *)
ChildExec(p) ==
    /\ Executes(p, "child_exec")
    /\ \/ Exec(p, "msh", "msh_loop")
       \/ "exec" \in Faults /\ Exit(p) /\ UNCHANGED strayed

----------------------------------------------------------------------------
(* scrolls/msh.m8a.  Which line does what is module Msh. *)

(* A line that ends at the prompt again: a builtin, an unknown command, an *)
(* empty line, a failed read.                                              *)
TypeLine(p) ==
    /\ Executes(p, "msh_loop")
    /\ Tick(p)
    /\ UNCHANGED <<st, parent, prog, at, forked, max_steps, panic, strayed>>

(* exit, or end of file. *)
DoExit(p) ==
    /\ Executes(p, "msh_loop")
    /\ Exit(p)
    /\ UNCHANGED strayed

(* Mutant: a command is started in the background. *)
RunInBackground(p) ==
    /\ Executes(p, "msh_loop")
    /\ \/ \E q \in Free : ForkAs(p, q, "external_child", "msh_loop")
       \/ ForkFails(p, "msh_loop")

(* external_failed prints and goes back to the prompt. *)
RunExternal(p) ==
    /\ Executes(p, "msh_loop")
    /\ \/ \E q \in Free : ForkAs(p, q, "external_child", "wait4")
       \/ ForkFails(p, "msh_loop")

(* Mutant: wait4 is retried until it fails, and its failure is retried too. *)
Wait4Again(p) ==
    /\ Executes(p, "wait4")
    /\ \/ Reap(p, vm_pid_arg(forked[p]), "wait4")
       \/ WaitFails(p, vm_pid_arg(forked[p]), "wait4")

Wait4(p) ==
    /\ Executes(p, "wait4")
    /\ \/ Reap(p, vm_pid_arg(forked[p]), "msh_loop")
       \/ WaitFails(p, vm_pid_arg(forked[p]), "msh_loop")

(* The image may be any program of /bin, msh itself included. *)
ExternalChild(p) ==
    /\ Executes(p, "external_child")
    /\ \/ Exec(p, "cmd", "command")
       \/ Exec(p, "msh", "msh_loop")
       \/ "exec" \in Faults /\ Exit(p) /\ UNCHANGED strayed

----------------------------------------------------------------------------
(* A command does not fork; it exits, at the latest when its budget ends.  *)
CommandExit(p) ==
    /\ Executes(p, "command")
    /\ Exit(p)
    /\ UNCHANGED strayed

(* run() returns 124, wherever in its scroll the process is. *)
StopAtBudget(p) ==
    /\ ~panic /\ st[p] = "run" /\ OutOfSteps(p)
    /\ Exit(p)
    /\ strayed' = (strayed \/ Children(p) # {})

Step(p) ==
    \/ SuperviseMsh(p) \/ ParentWait(p) \/ Nanosleep(p) \/ ChildExec(p)
    \/ TypeLine(p) \/ DoExit(p) \/ RunExternal(p) \/ Wait4(p) \/ ExternalChild(p)
    \/ CommandExit(p) \/ StopAtBudget(p)

(* After a panic nothing moves any more. *)
Halted == panic /\ UNCHANGED vars

Next == (\E p \in Pid : Step(p)) \/ Halted

Spec == Init /\ [][Next]_vars

(* The scheduler runs every process that is not blocked, and a command     *)
(* comes to its end.  Nobody has to type: the prompt's actions carry no    *)
(* fairness.                                                               *)
Unattended(p) ==
    \/ SuperviseMsh(p) \/ ParentWait(p) \/ Nanosleep(p) \/ ChildExec(p)
    \/ Wait4(p) \/ ExternalChild(p) \/ CommandExit(p) \/ StopAtBudget(p)

(* The kernel refuses a fork or an execve for a time, not for ever: PID 1  *)
(* retries ("fork failed; retrying after one second"), so tried again and  *)
(* again the call succeeds once.                                           *)
Spawned == Unattended(1) /\ at'[1] = "parent_wait"
Started(p) == Unattended(p) /\ at[p] = "child_exec" /\ at'[p] = "msh_loop"

FairSpec ==
    /\ Spec /\ \A p \in Pid : WF_vars(Unattended(p))
    /\ SF_vars(Spawned) /\ \A p \in Pid : SF_vars(Started(p))

----------------------------------------------------------------------------
(* Properties. *)

Running(p) == st[p] = "run"
Shell(p) == Running(p) /\ at[p] = "msh_loop"

(* Not parked on wait4: p owns the CPU and the console, or has just died.  *)
Active(p) == st[p] # "free" /\ at[p] \notin WaitLabels

TypeOK ==
    /\ st \in [Pid -> {"free", "run", "zombie"}]
    /\ parent \in [Pid -> Pid \cup {0}]
    /\ prog \in [Pid -> Program]
    /\ at \in [Pid -> InitLabels \cup MshLabels \cup {"command", "none"}]
    /\ forked \in [Pid -> 0 .. WordMod - 1]
    /\ steps \in [Pid -> Nat]
    /\ max_steps \in [Program -> Nat]
    /\ panic \in BOOLEAN /\ strayed \in BOOLEAN
    /\ \A p \in Pid : Running(p) <=> at[p] # "none"

(* fork makes the system concurrent, wait4 makes it sequential again: of   *)
(* all the processes of the tree only one is not parked on the wait for    *)
(* its own child, so two shells, or a shell and a command, never read or   *)
(* write the console at the same time.  That holds until run() stops a     *)
(* process which still has a child, or wait4 fails although the child is   *)
(* there: then the child runs on beside a shell that does not wait for it. *)
OneForeground ==
    ~strayed => \A p, q \in Pid : Active(p) /\ Active(q) => p = q

(* A process on its way into wait4 has the child it is about to name: no   *)
(* pid was mangled by its passage through a VM word, and nobody else has   *)
(* reaped it, whoever ran out of steps before.  So the wait_failed and     *)
(* external_failed paths after wait4 are dead code while the kernel keeps  *)
(* its word.                                                               *)
WaitersHaveTheirChild ==
    \A p \in Pid :
        /\ at[p] = "wait4" => \E q \in Children(p) : vm_pid_arg(forked[p]) = {q}
        /\ at[p] = "parent_wait" => Children(p) # {}

(* PID 1 stays in the loop of the init scroll until its own budget ends,   *)
(* and then it exits and the kernel panics: nothing else makes it.         *)
(* A pid whose word is 0 would send it down child_exec, to become a shell  *)
(* that can exit.                                                          *)
PidOneIsInit ==
    /\ prog[1] = "init"
    /\ panic => OutOfSteps(1)
    /\ ~panic => Running(1) /\ at[1] \in InitLabels \ {"child_exec"}

(* There is a prompt again and again, whatever was typed. *)
PromptReturns == []<>(\E p \in Pid : Shell(p))

(* The shell that ran a command gets its prompt back when the command ends. *)
CommandReturns ==
    \A p, q \in Pid :
        (at[p] = "wait4" /\ forked[p] = q /\ at[q] = "command") ~> Shell(p)

(* No zombie stays. *)
ZombiesAreReaped ==
    \A z \in Pid : st[z] = "zombie" ~> st[z] # "zombie"

(* With shells that stop at their budget and leave commands behind, the    *)
(* prompt still returns, unless the table ends up filled with dead         *)
(* children of PID 1 (fork_failed retries the fork without a wait4), or    *)
(* PID 1 itself comes to the end of its budget.                            *)
Starved == \A q \in Pid \ {1} : st[q] = "zombie" /\ parent[q] = 1
PromptReturnsUnlessStarved == PromptReturns \/ <>[]Starved \/ <>panic

(* The programs that hold the console, from the shell of PID 1 up: follow  *)
(* the waits down to the process that does not wait.                       *)
Path == LET next[n \in 0 .. MaxPid] ==
                IF n = 0 THEN 1
                ELSE IF next[n-1] # 0 /\ at[next[n-1]] \in WaitLabels
                     THEN forked[next[n-1]] ELSE 0
        IN  next

Holders == {n \in 1 .. MaxPid : Path[n] # 0 /\ at[Path[n]] \in {"msh_loop", "wait4", "command"}}
Owners == [n \in Holders |-> prog[Path[n]]]

(* The tree implements the console: forks, execs, exits and reaps in any   *)
(* order amount to calls and returns.                                      *)
C == INSTANCE Console WITH owners <- Owners
ImplementsConsole == C!Spec

----------------------------------------------------------------------------
(* The inductive invariant behind OneForeground: a waiting process has the *)
(* child it forked last; and until something strays, the tree is a path    *)
(* from PID 1, every other process having a parent that waits for it.      *)

NoParentOfOne == parent[1] = 0

ParentWaits ==
    \A q \in Pid \ {1} : st[q] # "free" =>
        /\ parent[q] \in Pid /\ parent[q] # q
        /\ Running(parent[q]) /\ at[parent[q]] \in WaitLabels
        /\ forked[parent[q]] = q

ChildKept ==
    \A p \in Pid : at[p] \in WaitLabels =>
        /\ forked[p] \in Pid \ {1}
        /\ st[forked[p]] # "free" /\ parent[forked[p]] = p

PathInv ==
    /\ PidOneIsInit /\ NoParentOfOne /\ ChildKept
    /\ ~strayed => ParentWaits
    /\ OneForeground
=============================================================================
