---------------------------- MODULE CircleProofs ----------------------------
(***************************************************************************)
(* Proofs about the supervision tree, for any size of the process table,   *)
(* any step budgets and any set of kernel faults: waiting processes have   *)
(* their child; and until a process strays, which only the end of a budget *)
(* or a wait4 that fails without reason brings about, the tree is a path   *)
(* from PID 1 and implements the stack of programs of module Console.      *)
(***************************************************************************)
EXTENDS Circle, DataFacts, FiniteSetTheorems, TLAPS

(* A step that takes longer than the usual limits is given more time, so   *)
(* that what is proved does not depend on how fast the machine is.         *)
USE SMT, Zenon, SMTT(60), ZenonT(60)

Labels == InitLabels \cup MshLabels \cup {"command", "none"}

(* A pid survives its passage through a VM word, and is not the word -1. *)
LEMMA PidIsItsWord ==
    ASSUME NEW q \in Pid
    PROVE  /\ mod_word(q) = q /\ q # 0
           /\ q \in 0 .. WordMod - 1
           /\ vm_pid_arg(q) = {q}
BY CircleAssumption, SMT DEF Pid, mod_word, vm_pid_arg

(* The table has room for PID 1. *)
LEMMA PidOne == 1 \in Pid
BY CircleAssumption DEF Pid

(* Step counts are numbers. *)
LEMMA CountIsNat ==
    ASSUME TypeOK, NEW p \in Pid
    PROVE  Count(p) \in Nat
BY DEF Count, TypeOK

(* The kernel's calls keep the types. *)
LEMMA ExitTypes ==
    ASSUME TypeOK, NEW p \in Pid, st[p] = "run", Exit(p), strayed' \in BOOLEAN
    PROVE  TypeOK'
BY PidOne DEF Exit, TypeOK, Goto, Running, Children

(* fork keeps the types. *)
LEMMA ForkTypes ==
    ASSUME TypeOK, NEW p \in Pid, st[p] = "run", NEW q \in Free,
           NEW l \in Labels \ {"none"}, NEW k \in Labels \ {"none"}, ForkAs(p, q, l, k)
    PROVE  TypeOK'
<1>1. q \in Pid /\ p # q
  BY DEF Free
<1>2. mod_word(q) \in 0 .. WordMod - 1
  BY <1>1, PidIsItsWord
<1>3. 0 \in 0 .. WordMod - 1
  BY CircleAssumption
<1> QED
  BY <1>1, <1>2, <1>3, CountIsNat DEF ForkAs, TypeOK, Running, Labels

(* A step within a scroll keeps the types. *)
LEMMA MoveTypes ==
    ASSUME TypeOK, NEW p \in Pid, st[p] = "run", NEW l \in Labels \ {"none"},
           Goto(p, l), Tick(p), UNCHANGED <<st, parent, prog, forked, max_steps, panic>>,
           strayed' \in BOOLEAN
    PROVE  TypeOK'
BY CountIsNat DEF Goto, Tick, TypeOK, Running, Labels

(* execve keeps the types. *)
LEMMA ExecTypes ==
    ASSUME TypeOK, NEW p \in Pid, st[p] = "run", NEW g \in Program,
           NEW l \in Labels \ {"none"}, Exec(p, g, l)
    PROVE  TypeOK'
BY CircleAssumption DEF Exec, Goto, TypeOK, Running, Labels

(* wait4 keeps the types. *)
LEMMA ReapTypes ==
    ASSUME TypeOK, NEW p \in Pid, st[p] = "run", NEW P,
           NEW l \in Labels \ {"none"}, Reap(p, P, l)
    PROVE  TypeOK'
<1>1. PICK z \in Children(p) \cap P :
        /\ st[z] = "zombie"
        /\ st' = [st EXCEPT ![z] = "free"]
        /\ parent' = [parent EXCEPT ![z] = 0]
        /\ prog' = [prog EXCEPT ![z] = "cmd"]
        /\ forked' = [forked EXCEPT ![z] = 0]
        /\ steps' = [steps EXCEPT ![p] = Count(p), ![z] = 0]
        /\ Goto(p, l)
        /\ UNCHANGED <<max_steps, panic, strayed>>
  BY DEF Reap
<1>2. z \in Pid /\ z # p
  BY <1>1 DEF Children
<1> QED
  BY <1>1, <1>2, CountIsNat, CircleAssumption DEF Goto, TypeOK, Running, Labels, Program

(* Every action keeps the types. *)
LEMMA StepTypes ==
    ASSUME TypeOK, NEW p \in Pid, Step(p)
    PROVE  TypeOK'
<1> USE DEF Executes
<1>0. strayed \in BOOLEAN
  BY DEF TypeOK
<1>1. CASE SuperviseMsh(p)
  <2>1. CASE \E q \in Free : ForkAs(p, q, "child_exec", "parent_wait")
    BY <1>1, <2>1, ForkTypes DEF SuperviseMsh, Labels, InitLabels
  <2>2. CASE ForkFails(p, "nanosleep")
    BY <1>1, <2>2, <1>0, MoveTypes DEF SuperviseMsh, ForkFails, Labels, InitLabels
  <2> QED
    BY <1>1, <2>1, <2>2 DEF SuperviseMsh
<1>2. CASE ParentWait(p)
  <2>1. CASE Reap(p, vm_pid_arg(WordMod - 1), "nanosleep")
    BY <1>2, <2>1, ReapTypes DEF ParentWait, Labels, InitLabels
  <2>2. CASE WaitFails(p, vm_pid_arg(WordMod - 1), "nanosleep")
    BY <1>2, <2>2, <1>0, MoveTypes DEF ParentWait, WaitFails, Labels, InitLabels
  <2> QED
    BY <1>2, <2>1, <2>2 DEF ParentWait
<1>3. CASE Nanosleep(p)
  BY <1>3, <1>0, MoveTypes DEF Nanosleep, Labels, InitLabels
<1>4. CASE ChildExec(p)
  BY <1>4, ExecTypes, <1>0, ExitTypes DEF ChildExec, Labels, MshLabels, Program
<1>5. CASE TypeLine(p)
  BY <1>5, CountIsNat DEF TypeLine, Tick, TypeOK, Running
<1>6. CASE DoExit(p)
  BY <1>6, <1>0, ExitTypes DEF DoExit
<1>7. CASE RunExternal(p)
  <2>1. CASE \E q \in Free : ForkAs(p, q, "external_child", "wait4")
    BY <1>7, <2>1, ForkTypes DEF RunExternal, Labels, MshLabels
  <2>2. CASE ForkFails(p, "msh_loop")
    BY <1>7, <2>2, <1>0, MoveTypes DEF RunExternal, ForkFails, Labels, MshLabels
  <2> QED
    BY <1>7, <2>1, <2>2 DEF RunExternal
<1>8. CASE Wait4(p)
  <2>1. CASE Reap(p, vm_pid_arg(forked[p]), "msh_loop")
    BY <1>8, <2>1, ReapTypes DEF Wait4, Labels, MshLabels
  <2>2. CASE WaitFails(p, vm_pid_arg(forked[p]), "msh_loop")
    BY <1>8, <2>2, <1>0, MoveTypes DEF Wait4, WaitFails, Labels, MshLabels
  <2> QED
    BY <1>8, <2>1, <2>2 DEF Wait4
<1>9. CASE ExternalChild(p)
  BY <1>9, ExecTypes, <1>0, ExitTypes DEF ExternalChild, Labels, MshLabels, Program
<1>10. CASE CommandExit(p)
  BY <1>10, <1>0, ExitTypes DEF CommandExit
<1>11. CASE StopAtBudget(p)
  BY <1>11, <1>0, ExitTypes DEF StopAtBudget
<1> QED
  BY <1>1, <1>2, <1>3, <1>4, <1>5, <1>6, <1>7, <1>8, <1>9, <1>10, <1>11 DEF Step

(* Type correctness of the supervision tree, for every table size, budget  *)
(* and set of faults.                                                      *)
THEOREM CircleTypeCorrect == Spec => []TypeOK
<1>1. Init => TypeOK
  <2> SUFFICES ASSUME Init PROVE TypeOK
    OBVIOUS
  <2>1. 0 \in 0 .. WordMod - 1
    BY CircleAssumption
  <2>2. \A p \in Pid : Running(p) <=> at[p] # "none"
    BY DEF Init, Running
  <2>3. /\ st \in [Pid -> {"free", "run", "zombie"}]
        /\ prog \in [Pid -> Program]
        /\ at \in [Pid -> InitLabels \cup MshLabels \cup {"command", "none"}]
    BY DEF Init, Program, InitLabels
  <2>4. /\ parent \in [Pid -> Pid \cup {0}]
        /\ forked \in [Pid -> 0 .. WordMod - 1]
        /\ steps \in [Pid -> Nat]
        /\ max_steps \in [Program -> Nat]
        /\ panic \in BOOLEAN /\ strayed \in BOOLEAN
    BY <2>1, CircleAssumption DEF Init
  <2> QED
    BY <2>2, <2>3, <2>4 DEF TypeOK
<1>2. TypeOK /\ [Next]_vars => TypeOK'
  <2> SUFFICES ASSUME TypeOK, [Next]_vars PROVE TypeOK'
    OBVIOUS
  <2>1. CASE UNCHANGED vars
    BY <2>1 DEF vars, TypeOK, Running
  <2>2. CASE \E p \in Pid : Step(p)
    BY <2>2, StepTypes
  <2> QED
    BY <2>1, <2>2 DEF Next, Halted
<1> QED
  BY <1>1, <1>2, PTL DEF Spec

----------------------------------------------------------------------------
(* PID 1. *)

(* No step of any process moves PID 1 out of the supervision loop, except  *)
(* the end of its own budget.                                              *)
LEMMA StepKeepsPidOne ==
    ASSUME TypeOK, PidOneIsInit, NEW p \in Pid, Step(p)
    PROVE  PidOneIsInit'
<1> USE PidOne
<1> DEFINE Loop == InitLabels \ {"child_exec"}
<1>1. ~panic /\ st[p] = "run"
  BY DEF Step, SuperviseMsh, ParentWait, Nanosleep, ChildExec, TypeLine, DoExit,
         RunExternal, Wait4, ExternalChild, CommandExit, StopAtBudget, Executes
<1>2. prog[1] = "init" /\ st[1] = "run" /\ at[1] \in Loop
  BY <1>1 DEF PidOneIsInit, Running
<1>3. ASSUME prog'[1] = "init", st'[1] = "run", at'[1] \in Loop, UNCHANGED panic
      PROVE  PidOneIsInit'
  BY <1>1, <1>3 DEF PidOneIsInit, Running
<1> HIDE DEF Loop
<1>4. ASSUME Exit(p), p # 1 PROVE PidOneIsInit'
  BY <1>1, <1>2, <1>3, <1>4 DEF Exit, Goto, TypeOK
<1>5. ASSUME NEW l, Goto(p, l), p = 1 => l \in Loop, UNCHANGED <<st, prog, panic>>
      PROVE  PidOneIsInit'
  BY <1>2, <1>3, <1>5 DEF Goto, TypeOK
<1>6. ASSUME NEW q \in Free, NEW l, NEW k, ForkAs(p, q, l, k), p = 1 => k \in Loop
      PROVE  PidOneIsInit'
  <2>1. q \in Pid /\ q # 1 /\ mod_word(q) # 0
    BY <1>2, PidIsItsWord DEF Free
  <2> QED
    BY <1>2, <1>3, <1>6, <2>1 DEF ForkAs, TypeOK
<1>7. ASSUME NEW P, NEW l, Reap(p, P, l), p = 1 => l \in Loop
      PROVE  PidOneIsInit'
  BY <1>2, <1>3, <1>7 DEF Reap, Children, Goto, TypeOK
<1> USE <1>2 DEF Loop
<1>8. CASE SuperviseMsh(p)
  BY <1>5, <1>6, <1>8 DEF SuperviseMsh, ForkFails, InitLabels
<1>9. CASE ParentWait(p)
  BY <1>5, <1>7, <1>9 DEF ParentWait, WaitFails, InitLabels
<1>10. CASE Nanosleep(p)
  BY <1>5, <1>10 DEF Nanosleep, InitLabels
<1>11. CASE ChildExec(p)
  BY <1>3, <1>4, <1>11 DEF ChildExec, Executes, Exec, Goto, TypeOK
<1>12. CASE TypeLine(p)
  BY <1>3, <1>12 DEF TypeLine
<1>13. CASE DoExit(p) \/ CommandExit(p)
  BY <1>4, <1>13 DEF DoExit, CommandExit, Executes, InitLabels
<1>14. CASE RunExternal(p)
  BY <1>5, <1>6, <1>14 DEF RunExternal, ForkFails, Executes, InitLabels
<1>15. CASE Wait4(p)
  BY <1>5, <1>7, <1>15 DEF Wait4, WaitFails, Executes, InitLabels
<1>16. CASE ExternalChild(p)
  BY <1>3, <1>4, <1>16 DEF ExternalChild, Executes, Exec, Goto, TypeOK, InitLabels
<1>17. CASE StopAtBudget(p)
  <2>1. CASE p = 1
    BY <1>17, <2>1 DEF StopAtBudget, Exit, PidOneIsInit, OutOfSteps, Metered
  <2> QED
    BY <1>4, <1>17, <2>1 DEF StopAtBudget
<1> QED
  BY <1>8, <1>9, <1>10, <1>11, <1>12, <1>13, <1>14, <1>15, <1>16, <1>17 DEF Step

(* Whatever the shells and commands do, whether or not they run out of     *)
(* steps, and whichever calls the kernel refuses, PID 1 stays in the       *)
(* supervision loop of init.m8a until run() has counted its own budget.    *)
THEOREM CirclePidOneStays == Spec => []PidOneIsInit
<1>1. Init => PidOneIsInit
  BY PidOne DEF Init, PidOneIsInit, Running, InitLabels
<1>2. TypeOK /\ PidOneIsInit /\ [Next]_vars => PidOneIsInit'
  <2> SUFFICES ASSUME TypeOK, PidOneIsInit, [Next]_vars PROVE PidOneIsInit'
    OBVIOUS
  <2>1. CASE UNCHANGED vars
    BY <2>1 DEF vars, PidOneIsInit, Running, OutOfSteps, Metered
  <2>2. CASE \E p \in Pid : Step(p)
    BY <2>2, StepKeepsPidOne
  <2> QED
    BY <2>1, <2>2 DEF Next, Halted
<1> QED
  BY <1>1, <1>2, CircleTypeCorrect, PTL DEF Spec

----------------------------------------------------------------------------
(* One process in the foreground. *)

(* Waiting processes keep their child, whatever strays. *)
Kept == ~panic /\ PidOneIsInit /\ NoParentOfOne /\ ChildKept

(* exit: the children that change their parent have one that does not wait *)
(* any more.                                                               *)
LEMMA ExitKeepsChildren ==
    ASSUME TypeOK, Kept, NEW p \in Pid, st[p] = "run", Exit(p)
    PROVE  (NoParentOfOne /\ ChildKept)'
<1>1. /\ at' = [at EXCEPT ![p] = "none"] /\ st' = [st EXCEPT ![p] = "zombie"] /\ forked' = forked
      /\ \A q \in Pid : parent[q] # p => parent'[q] = parent[q]
  BY DEF Exit, Goto, Children
<1>2. NoParentOfOne'
  BY <1>1, PidOne DEF Kept, NoParentOfOne, Pid
<1>3. ChildKept'
  <2> SUFFICES ASSUME NEW r \in Pid, at'[r] \in WaitLabels
               PROVE  /\ forked'[r] \in Pid \ {1}
                      /\ st'[forked'[r]] # "free" /\ parent'[forked'[r]] = r
    BY DEF ChildKept
  <2>1. r # p /\ at[r] \in WaitLabels
    BY <1>1 DEF TypeOK, WaitLabels
  <2>2. forked[r] \in Pid \ {1} /\ st[forked[r]] # "free" /\ parent[forked[r]] = r
    BY <2>1 DEF Kept, ChildKept
  <2> QED
    BY <1>1, <2>1, <2>2 DEF TypeOK
<1> QED
  BY <1>2, <1>3

(* fork: the caller waits for a child that nobody else can be waiting for. *)
LEMMA ForkKeepsChildren ==
    ASSUME TypeOK, Kept, NEW p \in Pid, st[p] = "run", at[p] \notin WaitLabels,
           NEW q \in Free, NEW l \in Labels \ WaitLabels, NEW k \in WaitLabels,
           ForkAs(p, q, l, k)
    PROVE  (NoParentOfOne /\ ChildKept)'
<1>1. q \in Pid /\ q # 1 /\ q # p /\ st[q] = "free" /\ mod_word(q) = q /\ q # 0
  BY PidIsItsWord, PidOne DEF Free, Kept, PidOneIsInit, Running
<1>2. /\ st' = [st EXCEPT ![q] = "run"]
      /\ parent' = [parent EXCEPT ![q] = p]
      /\ at' = [at EXCEPT ![q] = l, ![p] = k]
      /\ forked' = [forked EXCEPT ![q] = 0, ![p] = q]
  BY <1>1 DEF ForkAs
<1>3. \A r \in Pid : at[r] \in WaitLabels => forked[r] # q /\ r # q /\ r # p
  BY <1>1 DEF Kept, ChildKept, TypeOK, Running, WaitLabels
<1>5. ChildKept'
  <2> SUFFICES ASSUME NEW r \in Pid, at'[r] \in WaitLabels
               PROVE  /\ forked'[r] \in Pid \ {1}
                      /\ st'[forked'[r]] # "free" /\ parent'[forked'[r]] = r
    BY DEF ChildKept
  <2>1. CASE r = p
    BY <2>1, <1>1, <1>2 DEF TypeOK
  <2>2. CASE r # p
    <3>1. r # q /\ at[r] \in WaitLabels
      BY <2>2, <1>2, <1>1 DEF TypeOK
    <3> QED
      BY <3>1, <2>2, <1>1, <1>2, <1>3 DEF TypeOK, Kept, ChildKept
  <2> QED
    BY <2>1, <2>2
<1>7. NoParentOfOne'
  BY <1>1, <1>2 DEF Kept, NoParentOfOne
<1> QED
  BY <1>5, <1>7

(* wait4 frees a child of the caller, which waits no longer. *)
LEMMA ReapKeepsChildren ==
    ASSUME TypeOK, Kept, NEW p \in Pid, st[p] = "run",
           NEW P, NEW l \in Labels \ WaitLabels, Reap(p, P, l)
    PROVE  (NoParentOfOne /\ ChildKept)'
<1>1. PICK z \in Children(p) \cap P :
        /\ st[z] = "zombie"
        /\ st' = [st EXCEPT ![z] = "free"]
        /\ parent' = [parent EXCEPT ![z] = 0]
        /\ forked' = [forked EXCEPT ![z] = 0]
        /\ at' = [at EXCEPT ![p] = l]
  BY DEF Reap, Goto
<1>2. z \in Pid /\ z # p /\ z # 1 /\ parent[z] = p /\ at[z] \notin WaitLabels
  BY <1>1, PidOne DEF Children, TypeOK, Kept, PidOneIsInit, Running, WaitLabels
<1>3. ChildKept'
  <2> SUFFICES ASSUME NEW r \in Pid, at'[r] \in WaitLabels
               PROVE  /\ forked'[r] \in Pid \ {1}
                      /\ st'[forked'[r]] # "free" /\ parent'[forked'[r]] = r
    BY DEF ChildKept
  <2>1. r # p /\ at[r] \in WaitLabels /\ r # z
    BY <1>1, <1>2 DEF TypeOK
  <2>2. forked[r] \in Pid \ {1} /\ st[forked[r]] # "free" /\ parent[forked[r]] = r
    BY <2>1 DEF Kept, ChildKept
  <2>3. forked[r] # z
    BY <1>2, <2>1, <2>2
  <2> QED
    BY <1>1, <1>2, <2>1, <2>2, <2>3 DEF TypeOK
<1>4. NoParentOfOne'
  BY <1>1, <1>2 DEF Kept, NoParentOfOne
<1> QED
  BY <1>3, <1>4

(* A step to a label without a wait. *)
LEMMA MoveKeepsChildren ==
    ASSUME TypeOK, Kept, NEW p \in Pid,
           NEW l \in Labels \ WaitLabels, Goto(p, l), UNCHANGED <<st, parent>>,
           forked' = forked \/ forked' = [forked EXCEPT ![p] = 0]
    PROVE  (NoParentOfOne /\ ChildKept)'
<1>1. at' = [at EXCEPT ![p] = l]
  BY DEF Goto
<1>2. ChildKept'
  BY <1>1 DEF TypeOK, Kept, ChildKept
<1> QED
  BY <1>2 DEF Kept, NoParentOfOne

(* Every step keeps them. *)
LEMMA StepKeepsChildren ==
    ASSUME TypeOK, Kept, NEW p \in Pid, Step(p)
    PROVE  (NoParentOfOne /\ ChildKept)'
<1> USE DEF Executes
<1>0. /\ {"nanosleep", "supervise_msh", "msh_loop", "command", "child_exec", "external_child"}
             \subseteq Labels \ WaitLabels
      /\ "parent_wait" \in WaitLabels /\ "wait4" \in WaitLabels
  BY DEF Labels, InitLabels, MshLabels, WaitLabels
<1>1. CASE SuperviseMsh(p)
  <2>1. CASE \E q \in Free : ForkAs(p, q, "child_exec", "parent_wait")
    BY <1>0, <1>1, <2>1, ForkKeepsChildren DEF SuperviseMsh
  <2>2. CASE ForkFails(p, "nanosleep")
    BY <1>0, <2>2, MoveKeepsChildren DEF ForkFails
  <2> QED
    BY <1>1, <2>1, <2>2 DEF SuperviseMsh
<1>2. CASE ParentWait(p)
  <2>1. CASE Reap(p, vm_pid_arg(WordMod - 1), "nanosleep")
    BY <1>0, <1>2, <2>1, ReapKeepsChildren DEF ParentWait
  <2>2. CASE WaitFails(p, vm_pid_arg(WordMod - 1), "nanosleep")
    BY <1>0, <2>2, MoveKeepsChildren DEF WaitFails
  <2> QED
    BY <1>2, <2>1, <2>2 DEF ParentWait
<1>3. CASE Nanosleep(p)
  BY <1>0, <1>3, MoveKeepsChildren DEF Nanosleep
<1>4. CASE ChildExec(p)
  BY <1>0, <1>4, MoveKeepsChildren, ExitKeepsChildren DEF ChildExec, Exec
<1>5. CASE TypeLine(p)
  BY <1>5 DEF TypeLine, Kept, NoParentOfOne, ChildKept
<1>6. CASE DoExit(p) \/ CommandExit(p) \/ StopAtBudget(p)
  BY <1>6, ExitKeepsChildren DEF DoExit, CommandExit, StopAtBudget
<1>7. CASE RunExternal(p)
  <2>1. CASE \E q \in Free : ForkAs(p, q, "external_child", "wait4")
    BY <1>0, <1>7, <2>1, ForkKeepsChildren DEF RunExternal
  <2>2. CASE ForkFails(p, "msh_loop")
    BY <1>0, <2>2, MoveKeepsChildren DEF ForkFails
  <2> QED
    BY <1>7, <2>1, <2>2 DEF RunExternal
<1>8. CASE Wait4(p)
  <2>1. CASE Reap(p, vm_pid_arg(forked[p]), "msh_loop")
    BY <1>0, <1>8, <2>1, ReapKeepsChildren DEF Wait4
  <2>2. CASE WaitFails(p, vm_pid_arg(forked[p]), "msh_loop")
    BY <1>0, <2>2, MoveKeepsChildren DEF WaitFails
  <2> QED
    BY <1>8, <2>1, <2>2 DEF Wait4
<1>9. CASE ExternalChild(p)
  BY <1>0, <1>9, MoveKeepsChildren, ExitKeepsChildren DEF ExternalChild, Exec
<1> QED
  BY <1>1, <1>2, <1>3, <1>4, <1>5, <1>6, <1>7, <1>8, <1>9 DEF Step

(* The tree is a path: nothing has strayed, and PID 1 lives. *)
OnPath ==
    /\ ~panic /\ ~strayed
    /\ PidOneIsInit /\ NoParentOfOne /\ ParentWaits /\ ChildKept /\ OneForeground

(* A process that is not waiting has no children: their parent waits. *)
LEMMA OnlyWaitersHaveChildren ==
    ASSUME TypeOK, OnPath, NEW p \in Pid, at[p] \notin WaitLabels
    PROVE  Children(p) = {}
BY PidOne DEF OnPath, NoParentOfOne, ParentWaits, Children, Pid

(* exit of the process in the foreground: a zombie still counts as the one *)
(* that its parent waits for.                                              *)
LEMMA ExitKeepsPath ==
    ASSUME TypeOK, OnPath, NEW p \in Pid, Exit(p), st[p] = "run",
           at[p] \notin WaitLabels
    PROVE  (ParentWaits /\ OneForeground)'
<1>1. parent' = parent /\ forked' = forked /\ Children(p) = {}
  BY OnlyWaitersHaveChildren DEF Exit, TypeOK
<1>2. at' = [at EXCEPT ![p] = "none"] /\ st' = [st EXCEPT ![p] = "zombie"]
  BY DEF Exit, Goto
<1>3. ParentWaits'
  <2>1. \A q \in Pid \ {1} : st[q] # "free" => parent[q] # p
    BY <1>1 DEF Children
  <2> QED
    BY <1>1, <1>2, <2>1 DEF TypeOK, OnPath, ParentWaits, Running
<1>5. OneForeground'
  BY <1>1, <1>2 DEF TypeOK, OnPath, OneForeground, Active, WaitLabels
<1> QED
  BY <1>3, <1>5

(* fork moves the foreground from the caller to the child. *)
LEMMA ForkKeepsPath ==
    ASSUME TypeOK, OnPath, NEW p \in Pid, st[p] = "run", at[p] \notin WaitLabels,
           NEW q \in Free, NEW l \in Labels \ WaitLabels, NEW k \in WaitLabels,
           ForkAs(p, q, l, k)
    PROVE  (ParentWaits /\ OneForeground)'
<1>1. q \in Pid /\ q # 1 /\ q # p /\ st[q] = "free" /\ mod_word(q) = q /\ q # 0
  BY PidIsItsWord, PidOne DEF Free, OnPath, PidOneIsInit, Running
<1>2. /\ st' = [st EXCEPT ![q] = "run"]
      /\ parent' = [parent EXCEPT ![q] = p]
      /\ at' = [at EXCEPT ![q] = l, ![p] = k]
      /\ forked' = [forked EXCEPT ![q] = 0, ![p] = q]
  BY <1>1 DEF ForkAs
<1>3. \A r \in Pid : at[r] \in WaitLabels => forked[r] # q /\ r # q /\ r # p
  BY <1>1 DEF OnPath, ChildKept, TypeOK, Running, WaitLabels
<1>4. ParentWaits'
  <2> SUFFICES ASSUME NEW r \in Pid \ {1}, st'[r] # "free"
               PROVE  /\ parent'[r] \in Pid /\ parent'[r] # r
                      /\ st'[parent'[r]] = "run" /\ at'[parent'[r]] \in WaitLabels
                      /\ forked'[parent'[r]] = r
    BY DEF ParentWaits, Running
  <2>1. CASE r = q
    BY <2>1, <1>1, <1>2 DEF TypeOK
  <2>2. CASE r # q
    <3>1. /\ parent[r] \in Pid /\ parent[r] # r /\ st[parent[r]] = "run"
          /\ at[parent[r]] \in WaitLabels /\ forked[parent[r]] = r
      BY <2>2, <1>2 DEF TypeOK, OnPath, ParentWaits, Running
    <3>2. parent[r] # q /\ parent[r] # p
      BY <3>1, <1>3
    <3> QED
      BY <3>1, <3>2, <2>2, <1>2 DEF TypeOK
  <2> QED
    BY <2>1, <2>2
<1>6. OneForeground'
  <2> SUFFICES ASSUME NEW r \in Pid, Active(r)' PROVE r = q
    BY DEF OneForeground
  <2>1. st'[r] # "free" /\ at'[r] \notin WaitLabels
    BY DEF Active
  <2>2. CASE r = p
    BY <2>1, <2>2, <1>1, <1>2 DEF TypeOK
  <2>3. CASE r # p /\ r # q
    BY <2>1, <2>3, <1>2 DEF TypeOK, OnPath, OneForeground, Active
  <2> QED
    BY <2>2, <2>3
<1> QED
  BY <1>4, <1>6

(* wait4 returns: the zombie was in the foreground, its parent is again.   *)
LEMMA ReapKeepsPath ==
    ASSUME TypeOK, OnPath, NEW p \in Pid, st[p] = "run", at[p] \in WaitLabels,
           NEW P, NEW l \in Labels \ WaitLabels, Reap(p, P, l)
    PROVE  (ParentWaits /\ OneForeground)'
<1>1. PICK z \in Children(p) \cap P :
        /\ st[z] = "zombie"
        /\ st' = [st EXCEPT ![z] = "free"]
        /\ parent' = [parent EXCEPT ![z] = 0]
        /\ forked' = [forked EXCEPT ![z] = 0]
        /\ Goto(p, l)
  BY DEF Reap
<1>2. z \in Pid /\ z # p /\ z # 1 /\ parent[z] = p /\ at[z] \notin WaitLabels
  BY <1>1, PidOne DEF Children, TypeOK, OnPath, PidOneIsInit, Running, WaitLabels
<1>3. forked[p] = z
  BY <1>1, <1>2 DEF OnPath, ParentWaits
<1>4. at' = [at EXCEPT ![p] = l]
  BY <1>1 DEF Goto
<1>6. ParentWaits'
  <2> SUFFICES ASSUME NEW r \in Pid \ {1}, st'[r] # "free"
               PROVE  /\ parent'[r] \in Pid /\ parent'[r] # r
                      /\ st'[parent'[r]] = "run" /\ at'[parent'[r]] \in WaitLabels
                      /\ forked'[parent'[r]] = r
    BY DEF ParentWaits, Running
  <2>1. r # z /\ st[r] # "free"
    BY <1>1, <1>2 DEF TypeOK
  <2>2. /\ parent[r] \in Pid /\ parent[r] # r /\ st[parent[r]] = "run"
        /\ at[parent[r]] \in WaitLabels /\ forked[parent[r]] = r
    BY <2>1 DEF OnPath, ParentWaits, Running
  <2>3. parent[r] # p /\ parent[r] # z
    BY <2>1, <2>2, <1>2, <1>3
  <2> QED
    BY <2>1, <2>2, <2>3, <1>1, <1>2, <1>4 DEF TypeOK
<1>8. OneForeground'
  <2> SUFFICES ASSUME NEW r \in Pid, Active(r)' PROVE r = p
    BY DEF OneForeground
  <2>1. st'[r] # "free" /\ at'[r] \notin WaitLabels
    BY DEF Active
  <2>2. r # z
    BY <2>1, <1>1, <1>2 DEF TypeOK
  <2>3. CASE r # p
    <3>1. Active(r) /\ Active(z)
      BY <2>1, <2>2, <2>3, <1>1, <1>2, <1>4 DEF Active, TypeOK
    <3> QED
      BY <3>1, <2>2, <1>2 DEF OnPath, OneForeground
  <2> QED
    BY <2>3
<1> QED
  BY <1>6, <1>8

(* A step from one label to another, with no wait on either side. *)
LEMMA MoveKeepsPath ==
    ASSUME TypeOK, OnPath, NEW p \in Pid, st[p] = "run", at[p] \notin WaitLabels,
           NEW l \in Labels \ WaitLabels, Goto(p, l), UNCHANGED <<st, parent>>,
           forked' = forked \/ forked' = [forked EXCEPT ![p] = 0]
    PROVE  (ParentWaits /\ OneForeground)'
<1>1. at' = [at EXCEPT ![p] = l]
  BY DEF Goto
<1>2. ParentWaits'
  BY <1>1 DEF TypeOK, OnPath, ParentWaits, Running
<1>4. OneForeground'
  BY <1>1 DEF TypeOK, OnPath, OneForeground, Active
<1> QED
  BY <1>2, <1>4

(* Every step at which nothing strays keeps the tree a path from PID 1,    *)
(* except the end of PID 1 itself.                                         *)
LEMMA StepKeepsPath ==
    ASSUME TypeOK, OnPath, NEW p \in Pid, Step(p), ~strayed'
    PROVE  (ParentWaits /\ OneForeground)'
<1> USE DEF Executes
<1>2. p = 1 => at[p] \in InitLabels \ {"child_exec"}
  BY DEF OnPath, PidOneIsInit
<1>4. at[p] \in WaitLabels => forked[p] \in Children(p)
  BY DEF OnPath, ChildKept, Children
<1>5. CASE SuperviseMsh(p)
  <2>1. at[p] \notin WaitLabels
    BY <1>5 DEF SuperviseMsh, WaitLabels
  <2>2. "child_exec" \in Labels \ WaitLabels /\ "nanosleep" \in Labels \ WaitLabels
        /\ "parent_wait" \in WaitLabels
    BY DEF Labels, InitLabels, WaitLabels
  <2>3. CASE \E q \in Free : ForkAs(p, q, "child_exec", "parent_wait")
    BY <1>5, <2>1, <2>2, <2>3, ForkKeepsPath DEF SuperviseMsh
  <2>4. CASE ForkFails(p, "nanosleep")
    BY <1>5, <2>1, <2>2, <2>4, MoveKeepsPath DEF SuperviseMsh, ForkFails
  <2> QED
    BY <1>5, <2>3, <2>4 DEF SuperviseMsh
<1>6. CASE ParentWait(p)
  <2>1. at[p] \in WaitLabels /\ "nanosleep" \in Labels \ WaitLabels
    BY <1>6 DEF ParentWait, WaitLabels, Labels, InitLabels
  <2>2. ~WaitFails(p, vm_pid_arg(WordMod - 1), "nanosleep")
    BY <1>4, <2>1 DEF WaitFails, vm_pid_arg, Children
  <2> QED
    BY <1>6, <2>1, <2>2, ReapKeepsPath DEF ParentWait
<1>7. CASE Nanosleep(p)
  BY <1>7, MoveKeepsPath DEF Nanosleep, WaitLabels, Labels, InitLabels
<1>8. CASE ChildExec(p)
  <2>1. at[p] \notin WaitLabels /\ p # 1 /\ "msh_loop" \in Labels \ WaitLabels
    BY <1>2, <1>8 DEF ChildExec, WaitLabels, Labels, MshLabels
  <2> QED
    BY <1>8, <2>1, MoveKeepsPath, ExitKeepsPath DEF ChildExec, Exec
<1>9. CASE TypeLine(p)
  BY <1>9 DEF TypeLine, OnPath, ParentWaits, OneForeground, Active, Running
<1>10. CASE DoExit(p) \/ CommandExit(p)
  BY <1>2, <1>10, ExitKeepsPath DEF DoExit, CommandExit, WaitLabels, InitLabels
<1>11. CASE RunExternal(p)
  <2>1. at[p] \notin WaitLabels
    BY <1>11 DEF RunExternal, WaitLabels
  <2>2. "external_child" \in Labels \ WaitLabels /\ "msh_loop" \in Labels \ WaitLabels
        /\ "wait4" \in WaitLabels
    BY DEF Labels, MshLabels, WaitLabels
  <2>3. CASE \E q \in Free : ForkAs(p, q, "external_child", "wait4")
    BY <1>11, <2>1, <2>2, <2>3, ForkKeepsPath DEF RunExternal
  <2>4. CASE ForkFails(p, "msh_loop")
    BY <1>11, <2>1, <2>2, <2>4, MoveKeepsPath DEF RunExternal, ForkFails
  <2> QED
    BY <1>11, <2>3, <2>4 DEF RunExternal
<1>12. CASE Wait4(p)
  <2>1. at[p] \in WaitLabels /\ "msh_loop" \in Labels \ WaitLabels
    BY <1>12 DEF Wait4, WaitLabels, Labels, MshLabels
  <2>2. forked[p] \in vm_pid_arg(forked[p])
    BY <1>4, <2>1, PidIsItsWord DEF Children
  <2>3. ~WaitFails(p, vm_pid_arg(forked[p]), "msh_loop")
    BY <1>4, <2>1, <2>2 DEF WaitFails
  <2> QED
    BY <1>12, <2>1, <2>3, ReapKeepsPath DEF Wait4
<1>13. CASE ExternalChild(p)
  <2>1. at[p] \notin WaitLabels /\ p # 1 /\ "msh_loop" \in Labels \ WaitLabels
        /\ "command" \in Labels \ WaitLabels
    BY <1>2, <1>13 DEF ExternalChild, WaitLabels, Labels, MshLabels, InitLabels
  <2> QED
    BY <1>13, <2>1, MoveKeepsPath, ExitKeepsPath DEF ExternalChild, Exec
<1>14. CASE StopAtBudget(p)
  <2>1. at[p] \notin WaitLabels
    BY <1>4, <1>14 DEF StopAtBudget
  <2> QED
    BY <1>14, <2>1, ExitKeepsPath DEF StopAtBudget
<1> QED
  BY <1>5, <1>6, <1>7, <1>8, <1>9, <1>10, <1>11, <1>12, <1>13, <1>14 DEF Step

(* What has strayed has strayed; and a step is of a live system.           *)
LEMMA StepFacts ==
    ASSUME NEW p \in Pid, Step(p)
    PROVE  ~panic /\ st[p] = "run" /\ (strayed => strayed')
<1>1. ~panic /\ st[p] = "run"
  BY DEF Step, SuperviseMsh, ParentWait, Nanosleep, ChildExec, TypeLine, DoExit, RunExternal, Wait4,
         ExternalChild, CommandExit, StopAtBudget, Executes
<1>. DEFINE Keeps == strayed => strayed'
<1>2. \A q, l, k : ForkAs(p, q, l, k) => Keeps
  BY DEF ForkAs
<1>3. \A l : ForkFails(p, l) => Keeps
  BY DEF ForkFails
<1>4. \A P, l : (Reap(p, P, l) => Keeps) /\ (WaitFails(p, P, l) => Keeps)
  BY DEF Reap, WaitFails
<1>5. \A g, l : Exec(p, g, l) => Keeps
  BY DEF Exec
<1>6. Nanosleep(p) \/ TypeLine(p) \/ DoExit(p) \/ CommandExit(p) \/ StopAtBudget(p) => Keeps
  BY DEF Nanosleep, TypeLine, DoExit, CommandExit, StopAtBudget
<1>7. SuperviseMsh(p) \/ RunExternal(p) => Keeps
  BY <1>2, <1>3 DEF SuperviseMsh, RunExternal
<1>8. ParentWait(p) \/ Wait4(p) => Keeps
  BY <1>4 DEF ParentWait, Wait4
<1>9. ChildExec(p) \/ ExternalChild(p) => Keeps
  BY <1>5 DEF ChildExec, ExternalChild
<1> QED
  BY <1>1, <1>6, <1>7, <1>8, <1>9 DEF Step

(* For every table size, set of budgets and set of kernel faults: waiting  *)
(* processes have their child, and the tree is a path from PID 1 until a   *)
(* process stops at its budget before its child, or wait4 fails although   *)
(* the child is there.                                                     *)
THEOREM CirclePath == Spec => []PathInv
<1>1. Init => PathInv
  <2> SUFFICES ASSUME Init PROVE PathInv
    OBVIOUS
  <2>1. PidOneIsInit
    BY PidOne DEF Init, PidOneIsInit, Running, InitLabels
  <2>2. NoParentOfOne /\ ParentWaits /\ ChildKept /\ OneForeground
    BY PidOne DEF Init, NoParentOfOne, ParentWaits, ChildKept, OneForeground, Active, WaitLabels
  <2> QED
    BY <2>1, <2>2 DEF PathInv
<1>2. TypeOK /\ PathInv /\ [Next]_vars => PathInv'
  <2> SUFFICES ASSUME TypeOK, PathInv, [Next]_vars PROVE PathInv'
    OBVIOUS
  <2>1. CASE UNCHANGED vars
    BY <2>1 DEF vars, PathInv, PidOneIsInit, NoParentOfOne, ParentWaits, ChildKept, OneForeground,
                Active, Running, OutOfSteps, Metered
  <2>2. ASSUME NEW p \in Pid, Step(p) PROVE PathInv'
    <3>1. ~panic /\ (strayed => strayed')
      BY <2>2, StepFacts
    <3>2. PidOneIsInit'
      BY <2>2, StepKeepsPidOne DEF PathInv
    <3>3. (NoParentOfOne /\ ChildKept)'
      BY <2>2, <3>1, StepKeepsChildren DEF PathInv, Kept
    <3>4. CASE strayed'
      BY <3>2, <3>3, <3>4 DEF PathInv, OneForeground
    <3>5. CASE ~strayed'
      <4>1. OnPath
        BY <3>1, <3>5 DEF OnPath, PathInv
      <4>2. (ParentWaits /\ OneForeground)'
        BY <2>2, <3>5, <4>1, StepKeepsPath
      <4> QED
        BY <3>2, <3>3, <4>2 DEF PathInv
    <3> QED
      BY <3>4, <3>5
  <2> QED
    BY <2>1, <2>2 DEF Next, Halted
<1> QED
  BY <1>1, <1>2, CircleTypeCorrect, PTL DEF Spec

(* Although fork makes processes concurrent, at any time one process of    *)
(* the tree is in the foreground and all the others are parked on the wait *)
(* for their child, until one strays.                                      *)
THEOREM CircleOneForeground == Spec => []OneForeground
<1>1. PathInv => OneForeground
  BY DEF PathInv
<1> QED
  BY <1>1, CirclePath, PTL

(* wait4 always names a child that exists, whichever processes run out of  *)
(* steps, so the paths after a failed wait4 in init.m8a and msh.m8a are    *)
(* never taken but by a fault of the kernel.                               *)
THEOREM CircleWaitersHaveTheirChild == Spec => []WaitersHaveTheirChild
<1>1. PathInv => WaitersHaveTheirChild
  BY PidIsItsWord DEF PathInv, ChildKept, WaitersHaveTheirChild, Children, WaitLabels
<1> QED
  BY <1>1, CirclePath, PTL

----------------------------------------------------------------------------
(* The refinement of Console.                                              *)

(* A label tells the image, and what the parent is doing.                  *)
LabelInv ==
    \A p \in Pid :
        /\ at[p] \in MshLabels => prog[p] = "msh"
        /\ at[p] = "command" => prog[p] = "cmd"
        /\ p # 1 => at[p] \notin InitLabels \ {"child_exec"}
        /\ at[p] = "external_child" => parent[p] \in Pid /\ at[parent[p]] = "wait4"

(* The steps at which nothing strays, by what they do to the tree. *)
Forks(p) ==
    \E q \in Free :
        \/ p = 1 /\ at[p] = "supervise_msh" /\ ForkAs(p, q, "child_exec", "parent_wait")
        \/ p # 1 /\ at[p] = "msh_loop" /\ ForkAs(p, q, "external_child", "wait4")
Moves(p) ==
    /\ \E l : /\ at' = [at EXCEPT ![p] = l]
              /\ \/ /\ p = 1 /\ at[p] \in {"supervise_msh", "nanosleep"}
                    /\ l \in {"supervise_msh", "nanosleep", "none"}
                 \/ p # 1 /\ at[p] = "msh_loop" /\ l = "msh_loop"
    /\ UNCHANGED <<parent, prog, forked>>
Execs(p) ==
    \/ p # 1 /\ at[p] \in {"child_exec", "external_child"} /\ Exec(p, "msh", "msh_loop")
    \/ p # 1 /\ at[p] = "external_child" /\ Exec(p, "cmd", "command")
Exits(p) ==
    p # 1 /\ at[p] \in {"child_exec", "external_child", "msh_loop", "command"} /\ Exit(p)
Reaps(p) ==
    \E P : \/ p = 1 /\ at[p] = "parent_wait" /\ Reap(p, P, "nanosleep")
           \/ p # 1 /\ at[p] = "wait4" /\ Reap(p, P, "msh_loop")

(* These are all: a process that stops before its child, or whose wait4    *)
(* fails although its child is there, strays.                              *)
LEMMA StraightStep ==
    ASSUME TypeOK, OnPath, LabelInv, NEW p \in Pid, Step(p), ~strayed'
    PROVE  st[p] = "run" /\ (Forks(p) \/ Moves(p) \/ Execs(p) \/ Exits(p) \/ Reaps(p))
<1>0. at[p] \in MshLabels \cup {"child_exec", "external_child", "command"} => p # 1
  BY DEF OnPath, PidOneIsInit, InitLabels, MshLabels
<1>1. at[p] \in {"supervise_msh", "parent_wait", "nanosleep"} => p = 1
  BY DEF LabelInv, InitLabels
<1>2. st[p] = "run"
  BY StepFacts
<1>3. at[p] \in WaitLabels => forked[p] \in Children(p) /\ forked[p] \in Pid
  BY DEF OnPath, ChildKept, Children
<1>. USE DEF Executes
<1>4. CASE SuperviseMsh(p)
  BY <1>1, <1>4 DEF SuperviseMsh, ForkFails, Goto, Forks, Moves
<1>5. CASE ParentWait(p)
  <2>1. ~WaitFails(p, vm_pid_arg(WordMod - 1), "nanosleep")
    BY <1>3, <1>5 DEF ParentWait, WaitFails, vm_pid_arg, WaitLabels
  <2>. QED BY <1>1, <1>5, <2>1 DEF ParentWait, Reaps
<1>6. CASE Nanosleep(p)
  BY <1>1, <1>6 DEF Nanosleep, Goto, Moves
<1>7. CASE ChildExec(p)
  BY <1>0, <1>7 DEF ChildExec, Execs, Exits
<1>8. CASE TypeLine(p)
  <2>1. at' = [at EXCEPT ![p] = "msh_loop"]
    BY <1>8 DEF TypeLine, TypeOK
  <2>. QED BY <1>0, <1>8, <2>1 DEF TypeLine, Moves, MshLabels
<1>9. CASE DoExit(p) \/ CommandExit(p)
  BY <1>0, <1>9 DEF DoExit, CommandExit, Exits, MshLabels
<1>10. CASE RunExternal(p)
  BY <1>0, <1>10 DEF RunExternal, ForkFails, Goto, Forks, Moves, MshLabels
<1>11. CASE Wait4(p)
  <2>1. forked[p] \in vm_pid_arg(forked[p])
    BY <1>3, <1>11, PidIsItsWord DEF Wait4, WaitLabels
  <2>2. ~WaitFails(p, vm_pid_arg(forked[p]), "msh_loop")
    BY <1>3, <1>11, <2>1 DEF Wait4, WaitFails, WaitLabels
  <2>. QED BY <1>0, <1>11, <2>2 DEF Wait4, Reaps, MshLabels
<1>12. CASE ExternalChild(p)
  BY <1>0, <1>12 DEF ExternalChild, Execs, Exits, MshLabels
<1>13. CASE StopAtBudget(p)
  <2>1. Children(p) = {} /\ Exit(p)
    BY <1>13 DEF StopAtBudget
  <2>2. at[p] \notin WaitLabels
    BY <1>3, <2>1
  <2>3. CASE p = 1
    <3>1. at[p] \in {"supervise_msh", "nanosleep"}
      BY <2>2, <2>3 DEF OnPath, PidOneIsInit, InitLabels, WaitLabels
    <3>2. at' = [at EXCEPT ![p] = "none"] /\ UNCHANGED <<parent, prog, forked>>
      BY <2>1 DEF Exit, Goto, TypeOK
    <3>. QED BY <1>2, <2>3, <3>1, <3>2 DEF Moves
  <2>4. CASE p # 1
    <3>1. at[p] # "none"  BY <1>2 DEF TypeOK, Running
    <3>2. at[p] \in {"child_exec", "external_child", "msh_loop", "command"}
      BY <2>2, <2>4, <3>1 DEF LabelInv, TypeOK, InitLabels, MshLabels, WaitLabels
    <3>. QED BY <1>2, <2>1, <2>4, <3>2 DEF Exits
  <2>. QED BY <2>3, <2>4
<1>. QED
  BY <1>2, <1>4, <1>5, <1>6, <1>7, <1>8, <1>9, <1>10, <1>11, <1>12, <1>13 DEF Step

(* Nobody else is between fork and execve while p acts.                    *)
LEMMA OneActs ==
    ASSUME TypeOK, OnPath, NEW p \in Pid, st[p] = "run", at[p] \notin WaitLabels,
           NEW r \in Pid, at[r] \notin WaitLabels \cup {"none"}
    PROVE  r = p
BY DEF OnPath, OneForeground, Active, TypeOK, Running

(* Every step keeps the labels in order.                                   *)
LEMMA StepKeepsLabels ==
    ASSUME TypeOK, OnPath, LabelInv, NEW p \in Pid, Step(p), ~strayed'
    PROVE  LabelInv'
<1>. SUFFICES ASSUME NEW r \in Pid
              PROVE  /\ at'[r] \in MshLabels => prog'[r] = "msh"
                     /\ at'[r] = "command" => prog'[r] = "cmd"
                     /\ r # 1 => at'[r] \notin InitLabels \ {"child_exec"}
                     /\ at'[r] = "external_child" => parent'[r] \in Pid /\ at'[parent'[r]] = "wait4"
  BY DEF LabelInv
<1>0. /\ at[r] \in MshLabels => prog[r] = "msh"
      /\ at[r] = "command" => prog[r] = "cmd"
      /\ r # 1 => at[r] \notin InitLabels \ {"child_exec"}
      /\ at[r] = "external_child" => parent[r] \in Pid /\ at[parent[r]] = "wait4"
  BY DEF LabelInv
<1>1. st[p] = "run" /\ (Forks(p) \/ Moves(p) \/ Execs(p) \/ Exits(p) \/ Reaps(p))
  BY StraightStep
<1>2. at[p] \in MshLabels => prog[p] = "msh"  BY DEF LabelInv
<1>3. at[p] \notin WaitLabels => (at[r] = "external_child" => r = p)
  BY <1>1, OneActs DEF WaitLabels
<1>. USE DEF InitLabels, MshLabels
<1>4. CASE Forks(p)
  <2>1. PICK q \in Free :
        \/ p = 1 /\ at[p] = "supervise_msh" /\ ForkAs(p, q, "child_exec", "parent_wait")
        \/ p # 1 /\ at[p] = "msh_loop" /\ ForkAs(p, q, "external_child", "wait4")
    BY <1>4 DEF Forks
  <2>2. q \in Pid /\ q # 1 /\ q # p /\ mod_word(q) # 0
    BY <1>1, PidIsItsWord DEF Free, OnPath, PidOneIsInit, Running
  <2>3. CASE p = 1 /\ at[p] = "supervise_msh" /\ ForkAs(p, q, "child_exec", "parent_wait")
    <3>1. /\ at' = [at EXCEPT ![q] = "child_exec", ![p] = "parent_wait"]
          /\ prog' = [prog EXCEPT ![q] = prog[p]] /\ parent' = [parent EXCEPT ![q] = p]
      BY <2>2, <2>3 DEF ForkAs
    <3>2. at[r] # "external_child"  BY <1>3, <2>3 DEF WaitLabels
    <3>. QED BY <1>0, <2>2, <2>3, <3>1, <3>2 DEF TypeOK
  <2>4. CASE p # 1 /\ at[p] = "msh_loop" /\ ForkAs(p, q, "external_child", "wait4")
    <3>1. /\ at' = [at EXCEPT ![q] = "external_child", ![p] = "wait4"]
          /\ prog' = [prog EXCEPT ![q] = prog[p]] /\ parent' = [parent EXCEPT ![q] = p]
      BY <2>2, <2>4 DEF ForkAs
    <3>2. at[r] # "external_child"  BY <1>3, <2>4 DEF WaitLabels
    <3>. QED BY <1>0, <1>2, <2>2, <2>4, <3>1, <3>2 DEF TypeOK
  <2>. QED BY <2>1, <2>3, <2>4
<1>5. CASE Moves(p)
  <2>1. at[r] # "external_child"  BY <1>3, <1>5 DEF Moves, WaitLabels
  <2>. QED BY <1>0, <1>5, <2>1 DEF Moves, TypeOK
<1>6. CASE Execs(p)
  <2>1. at[r] = "external_child" => r = p  BY <1>3, <1>6 DEF Execs, WaitLabels
  <2>. QED BY <1>0, <1>6, <2>1 DEF Execs, Exec, Goto, TypeOK
<1>7. CASE Exits(p)
  <2>1. at[r] = "external_child" => r = p  BY <1>3, <1>7 DEF Exits, WaitLabels
  <2>. QED BY <1>0, <1>7, <2>1 DEF Exits, Exit, Goto, TypeOK
<1>8. CASE Reaps(p)
  <2>1. PICK P, l : /\ Reap(p, P, l)
                    /\ \/ p = 1 /\ at[p] = "parent_wait" /\ l = "nanosleep"
                       \/ p # 1 /\ at[p] = "wait4" /\ l = "msh_loop"
    BY <1>8 DEF Reaps
  <2>2. PICK z \in Children(p) :
        /\ st[z] = "zombie"
        /\ parent' = [parent EXCEPT ![z] = 0]
        /\ prog' = [prog EXCEPT ![z] = "cmd"]
        /\ at' = [at EXCEPT ![p] = l]
    BY <2>1 DEF Reap, Goto
  <2>3. z \in Pid /\ at[z] = "none"  BY <2>2 DEF Children, TypeOK, Running
  <2>4. at[r] # "external_child"
    BY <2>2, <2>3 DEF OnPath, OneForeground, Active, WaitLabels, TypeOK, Running
  <2>. QED BY <1>0, <1>2, <2>1, <2>2, <2>3, <2>4 DEF TypeOK
<1>. QED BY <1>1, <1>4, <1>5, <1>6, <1>7, <1>8

(* Path, of any labels and any results of fork.                            *)
PathOf(a, f) ==
    LET next[n \in 0 .. MaxPid] ==
            IF n = 0 THEN 1
            ELSE IF next[n-1] # 0 /\ a[next[n-1]] \in WaitLabels THEN f[next[n-1]] ELSE 0
    IN  next

(* g follows the waits from PID 1 through k processes.                     *)
Follows(a, f, g, k) ==
    /\ k \in Nat /\ g \in [0 .. k -> Pid] /\ g[0] = 1
    /\ \A n \in 0 .. k - 1 : a[g[n]] \in WaitLabels /\ f[g[n]] = g[n+1]

(* It follows them to the end.                                             *)
Chain(a, f, g, k) == k < MaxPid /\ Follows(a, f, g, k) /\ a[g[k]] \notin WaitLabels

(* A chain is the path. *)
LEMMA ChainIsPath ==
    ASSUME NEW a, NEW f, NEW g, NEW k, Chain(a, f, g, k)
    PROVE  \A n \in 0 .. MaxPid : PathOf(a, f)[n] = IF n <= k THEN g[n] ELSE 0
<1>. DEFINE Rest(h, n) == IF n = 0 THEN 1
                          ELSE IF h[n-1] # 0 /\ a[h[n-1]] \in WaitLabels THEN f[h[n-1]] ELSE 0
            G == [n \in 0 .. MaxPid |-> IF n <= k THEN g[n] ELSE 0]
            P == PathOf(a, f)
<1>1. MaxPid \in Nat /\ k \in Nat /\ k < MaxPid /\ g[0] = 1 /\ a[g[k]] \notin WaitLabels
      /\ (\A n \in 0 .. k : g[n] \in Pid /\ g[n] # 0)
      /\ \A n \in 0 .. k - 1 : a[g[n]] \in WaitLabels /\ f[g[n]] = g[n+1]
  BY CircleAssumption DEF Chain, Follows, Pid
<1>2. ASSUME NEW n \in 0 .. MaxPid PROVE G[n] = Rest(G, n)
  <2>1. CASE n = 0  BY <1>1, <2>1
  <2>2. CASE n # 0
    <3>. DEFINE z == n - 1
    <3>1. z \in 0 .. MaxPid /\ n = z + 1  BY <1>1, <2>2
    <3>2. G[z] = IF z <= k THEN g[z] ELSE 0  BY <3>1
    <3>3. G[n] = IF n <= k THEN g[n] ELSE 0  OBVIOUS
    <3>4. Rest(G, n) = IF G[z] # 0 /\ a[G[z]] \in WaitLabels THEN f[G[z]] ELSE 0
      BY <2>2
    <3>. HIDE DEF G, Rest, z
    <3>5. CASE z < k
      <4>1. z \in 0 .. k - 1 /\ z \in 0 .. k /\ n <= k  BY <1>1, <3>1, <3>5
      <4>. QED BY <1>1, <3>1, <3>2, <3>3, <3>4, <4>1
    <3>6. CASE z = k  BY <1>1, <3>1, <3>2, <3>3, <3>4, <3>6
    <3>7. CASE z > k  BY <1>1, <3>1, <3>2, <3>3, <3>4, <3>7
    <3>. QED BY <1>1, <3>1, <3>5, <3>6, <3>7
  <2>. QED BY <2>1, <2>2
<1>3. G = [n \in 0 .. MaxPid |-> Rest(G, n)]
  <2>1. G \in [0 .. MaxPid -> {Rest(G, n) : n \in 0 .. MaxPid}]  BY <1>2
  <2>. QED BY <1>2
<1>4. P = CHOOSE h : h = [n \in 0 .. MaxPid |-> Rest(h, n)]  BY DEF PathOf
<1>. HIDE DEF G, P
<1>5. P = [n \in 0 .. MaxPid |-> Rest(P, n)]  BY <1>3, <1>4
<1>. HIDE DEF Rest
<1>6. \A n \in 0 .. MaxPid : P[n] = Rest(P, n)  BY <1>5
<1>. DEFINE S == {n \in 0 .. MaxPid : P[n] = G[n]}
<1>7. 0 \in S  BY <1>1, <1>2, <1>6 DEF Rest
<1>8. ASSUME NEW n \in 0 .. MaxPid - 1, n \in S PROVE n + 1 \in S
  <2>. DEFINE z == n + 1
  <2>1. z \in 0 .. MaxPid /\ z # 0 /\ z - 1 = n  BY <1>1
  <2>2. P[z] = Rest(P, z) /\ G[z] = Rest(G, z)  BY <1>2, <1>6, <2>1
  <2>3. P[n] = G[n]  BY <1>8
  <2>. HIDE DEF z
  <2>4. Rest(P, z) = Rest(G, z)  BY <2>1, <2>3 DEF Rest
  <2>5. z \in S  BY <2>1, <2>2, <2>4
  <2>. QED BY <2>5 DEF z
<1>. HIDE DEF S
<1>9. 0 .. MaxPid \subseteq S  BY <1>1, <1>7, <1>8, BoundedInduction
<1>10. \A n \in 0 .. MaxPid : P[n] = G[n]  BY <1>9 DEF S
<1>. QED BY <1>10 DEF G, P

(* No process stands twice on the way, and the table bounds it. *)
LEMMA FollowsOnce ==
    ASSUME OnPath, NEW g, NEW k, Follows(at, forked, g, k)
    PROVE  /\ \A i, j \in 0 .. k : i < j => g[i] # g[j]
           /\ k < MaxPid
<1>1. /\ k \in Nat /\ g \in [0 .. k -> Pid] /\ g[0] = 1 /\ MaxPid \in Nat
      /\ \A n \in 0 .. k - 1 : g[n] \in Pid /\ at[g[n]] \in WaitLabels /\ forked[g[n]] = g[n+1]
  BY CircleAssumption DEF Follows
<1>2. ASSUME NEW n \in 0 .. k - 1 PROVE g[n+1] # 1 /\ parent[g[n+1]] = g[n]
  BY <1>1 DEF OnPath, ChildKept
<1>. DEFINE S == {i \in 0 .. k : \A j \in 0 .. k : i < j => g[i] # g[j]}
<1>3. 0 \in S
  <2>1. ASSUME NEW j \in 0 .. k, 0 < j PROVE g[j] # 1
    <3>1. j - 1 \in 0 .. k - 1 /\ (j - 1) + 1 = j  BY <1>1, <2>1
    <3>. QED BY <1>2, <3>1
  <2>. QED BY <1>1, <2>1
<1>4. ASSUME NEW i \in 0 .. k - 1, i \in S PROVE i + 1 \in S
  <2>1. ASSUME NEW j \in 0 .. k, i + 1 < j PROVE g[i+1] # g[j]
    <3>. DEFINE z == j - 1
    <3>1. z \in 0 .. k - 1 /\ z + 1 = j /\ z \in 0 .. k /\ i < z  BY <1>1, <2>1
    <3>. HIDE DEF z
    <3>2. parent[g[j]] = g[z] /\ parent[g[i+1]] = g[i]  BY <1>2, <3>1
    <3>3. g[i] # g[z]  BY <1>4, <3>1
    <3>. QED BY <3>2, <3>3
  <2>. QED BY <1>1, <2>1
<1>. HIDE DEF S
<1>5. 0 .. k \subseteq S  BY <1>1, <1>3, <1>4, BoundedInduction
<1>6. \A i, j \in 0 .. k : i < j => g[i] # g[j]  BY <1>5 DEF S
<1>7. IsFiniteSet(0 .. k) /\ Cardinality(0 .. k) = k + 1
      /\ IsFiniteSet(Pid) /\ Cardinality(Pid) = MaxPid
  BY <1>1, FS_Interval, CircleAssumption DEF Pid
<1>8. \A i, j \in 0 .. k : i # j => g[i] # g[j]  BY <1>1, <1>6
<1>9. ~(Cardinality(Pid) < Cardinality(0 .. k))
  BY <1>1, <1>7, <1>8, FS_PigeonHole
<1>. QED BY <1>1, <1>6, <1>7, <1>9

(* So the way comes to its end.                                            *)
LEMMA ChainExists ==
    ASSUME OnPath
    PROVE  \E k : \E g : Chain(at, forked, g, k)
<1>. SUFFICES ASSUME \A k : \A g : ~Chain(at, forked, g, k) PROVE FALSE  OBVIOUS
<1>. DEFINE S == {k \in Nat : \E g : Follows(at, forked, g, k)}
<1>1. 0 \in S
  <2>1. Follows(at, forked, [n \in 0 .. 0 |-> 1], 0)  BY PidOne DEF Follows
  <2>. QED BY <2>1
<1>2. ASSUME NEW k \in Nat, k \in S PROVE k + 1 \in S
  <2>1. PICK g : Follows(at, forked, g, k)  BY <1>2
  <2>2. k < MaxPid  BY <2>1, FollowsOnce
  <2>3. at[g[k]] \in WaitLabels  BY <2>1, <2>2 DEF Chain
  <2>. DEFINE z == k + 1
              h == [n \in 0 .. z |-> IF n = z THEN forked[g[k]] ELSE g[n]]
  <2>4. /\ g \in [0 .. k -> Pid] /\ g[0] = 1 /\ g[k] \in Pid
        /\ \A n \in 0 .. k - 1 : at[g[n]] \in WaitLabels /\ forked[g[n]] = g[n+1]
    BY <2>1 DEF Follows
  <2>5. forked[g[k]] \in Pid  BY <2>3, <2>4 DEF OnPath, ChildKept
  <2>6. h \in [0 .. z -> Pid]  BY <2>4, <2>5
  <2>7. \A n \in 0 .. k : h[n] = g[n]  OBVIOUS
  <2>8. h[z] = forked[g[k]]  OBVIOUS
  <2>. HIDE DEF h
  <2>9. ASSUME NEW n \in 0 .. z - 1 PROVE at[h[n]] \in WaitLabels /\ forked[h[n]] = h[n+1]
    <3>1. CASE n = k  BY <2>3, <2>7, <2>8, <3>1
    <3>2. CASE n < k
      <4>1. n \in 0 .. k - 1 /\ n \in 0 .. k /\ n + 1 \in 0 .. k  BY <3>2
      <4>. QED BY <2>4, <2>7, <4>1
    <3>. QED BY <3>1, <3>2
  <2>10. h[0] = 1  BY <2>4, <2>7
  <2>11. Follows(at, forked, h, z)  BY <2>6, <2>9, <2>10 DEF Follows
  <2>. QED BY <2>11
<1>. HIDE DEF S
<1>3. Nat \subseteq S  BY <1>1, <1>2, SetInduction
<1>4. MaxPid \in S  BY <1>3, CircleAssumption
<1>5. PICK g : Follows(at, forked, g, MaxPid)  BY <1>4 DEF S
<1>. QED BY <1>5, FollowsOnce, CircleAssumption

(* Owners, of any labels, results of fork and images.                      *)
OwnersOf(a, f, pr) ==
    [n \in {i \in 1 .. MaxPid : PathOf(a, f)[i] # 0
                                /\ a[PathOf(a, f)[i]] \in {"msh_loop", "wait4", "command"}}
        |-> pr[PathOf(a, f)[n]]]

(* How many programs of a chain hold the console: the last of it does not  *)
(* between fork and execve, and when it is dead.                           *)
Held(a, g, k) == IF k > 0 /\ a[g[k]] \notin {"msh_loop", "command"} THEN k - 1 ELSE k

(* Their images. *)
HeldBy(a, pr, g, k) == [n \in 1 .. Held(a, g, k) |-> pr[g[n]]]

(* The owners of the console are what the chain holds.                     *)
LEMMA ChainOwners ==
    ASSUME NEW a, NEW f, NEW pr, NEW g, NEW k, Chain(a, f, g, k),
           \A n \in 1 .. k - 1 : a[g[n]] = "wait4"
    PROVE  OwnersOf(a, f, pr) = HeldBy(a, pr, g, k)
<1>. DEFINE P == PathOf(a, f)
            h == Held(a, g, k)
            T == {i \in 1 .. MaxPid : P[i] # 0 /\ a[P[i]] \in {"msh_loop", "wait4", "command"}}
<1>1. /\ MaxPid \in Nat /\ k \in Nat /\ k < MaxPid /\ (\A n \in 0 .. k : g[n] # 0)
      /\ a[g[k]] \notin WaitLabels
  BY CircleAssumption DEF Chain, Follows, Pid
<1>2. \A n \in 0 .. MaxPid : P[n] = IF n <= k THEN g[n] ELSE 0  BY ChainIsPath
<1>3. OwnersOf(a, f, pr) = [n \in T |-> pr[P[n]]]  BY DEF OwnersOf
<1>4. h \in 0 .. k /\ h >= k - 1  BY <1>1 DEF Held
<1>5. a[g[k]] \in {"msh_loop", "command"} => h = k  BY DEF Held
<1>6. k > 0 /\ a[g[k]] \notin {"msh_loop", "command"} => h = k - 1  BY DEF Held
<1>. HIDE DEF P, h
<1>7. ASSUME NEW n PROVE n \in T <=> n \in 1 .. h
  <2>1. CASE n \in 1 .. k - 1
    <3>1. P[n] = g[n] /\ P[n] # 0 /\ a[P[n]] = "wait4"  BY <1>1, <1>2, <2>1
    <3>2. n \in 1 .. MaxPid /\ n \in 1 .. h  BY <1>1, <1>4, <2>1
    <3>. QED BY <3>1, <3>2
  <2>2. CASE n = k /\ k > 0
    <3>1. P[n] = g[k] /\ P[n] # 0 /\ n \in 1 .. MaxPid  BY <1>1, <1>2, <2>2
    <3>2. n \in T <=> a[g[k]] \in {"msh_loop", "command"}
      BY <1>1, <3>1 DEF WaitLabels
    <3>3. n \in 1 .. h <=> h = k  BY <1>4, <2>2
    <3>. QED BY <1>1, <1>4, <1>5, <1>6, <2>2, <3>2, <3>3
  <2>3. CASE n \in k + 1 .. MaxPid
    <3>1. P[n] = 0  BY <1>1, <1>2, <2>3
    <3>. QED BY <1>1, <1>4, <2>3, <3>1
  <2>4. CASE n \notin 1 .. MaxPid  BY <1>1, <1>4, <2>4
  <2>. QED BY <1>1, <2>1, <2>2, <2>3, <2>4
<1>8. T = 1 .. h  BY <1>7
<1>9. \A n \in 1 .. h : P[n] = g[n]  BY <1>1, <1>2, <1>4
<1>. HIDE DEF T
<1>10. [n \in T |-> pr[P[n]]] = [n \in 1 .. h |-> pr[g[n]]]  BY <1>8, <1>9
<1>. QED BY <1>3, <1>10 DEF h, HeldBy

(* The last element comes.                                                 *)
LEMMA AppendLast ==
    ASSUME NEW S, NEW k \in Nat, NEW s \in [1 .. k -> S], NEW e \in S,
           NEW t \in [1 .. k + 1 -> S], t[k+1] = e, \A n \in 1 .. k : t[n] = s[n]
    PROVE  s \in Seq(S) /\ Len(s) = k /\ t = Append(s, e)
<1>. DEFINE u == Append(s, e)
<1>1. s \in Seq(S) /\ Len(s) = k  OBVIOUS
<1>2. u \in Seq(S)  BY <1>1
<1>3. Len(u) = k + 1  BY <1>1
<1>4. \A n \in 1 .. k + 1 : u[n] = IF n = k + 1 THEN e ELSE s[n]  BY <1>1
<1>. HIDE DEF u
<1>5. u \in [1 .. k + 1 -> S]  BY <1>2, <1>3
<1>6. t = u
  <2>1. \A n \in 1 .. k + 1 : t[n] = u[n]  BY <1>4
  <2>. QED BY <1>5, <2>1
<1>. QED BY <1>1, <1>6 DEF u

(* The last element goes.                                                  *)
LEMMA DropLast ==
    ASSUME NEW S, NEW k \in Nat, NEW s \in [1 .. k + 1 -> S]
    PROVE  /\ s \in Seq(S) /\ Len(s) = k + 1
           /\ [n \in 1 .. k |-> s[n]] = SubSeq(s, 1, k)
<1>. DEFINE t == SubSeq(s, 1, k)
<1>1. s \in Seq(S) /\ Len(s) = k + 1  OBVIOUS
<1>2. t \in Seq(S)  BY <1>1
<1>3. Len(t) = k  BY <1>1
<1>4. \A n \in 1 .. k : t[n] = s[n]  BY <1>1
<1>. HIDE DEF t
<1>5. t \in [1 .. k -> S]  BY <1>2, <1>3
<1>6. t = [n \in 1 .. k |-> t[n]]  BY <1>5
<1>7. [n \in 1 .. k |-> s[n]] = t  BY <1>4, <1>6
<1>. QED BY <1>1, <1>7 DEF t

(* Owners is that function, before a step and after it.                    *)
LEMMA OwnersAre ==
    /\ Owners = OwnersOf(at, forked, prog)
    /\ Owners' = OwnersOf(at', forked', prog')
BY DEF Owners, Holders, Path, OwnersOf, PathOf

(* Who stands on the chain: waiting shells over PID 1, and at its end the  *)
(* one process that acts or has died.                                      *)
LEMMA OnChain ==
    ASSUME TypeOK, OnPath, LabelInv, NEW g, NEW k, Chain(at, forked, g, k)
    PROVE  /\ k \in Nat /\ k < MaxPid /\ g \in [0 .. k -> Pid] /\ g[0] = 1
           /\ \A n \in 0 .. k : st[g[n]] # "free" /\ (n > 0 <=> g[n] # 1)
           /\ \A i, j \in 0 .. k : i # j => g[i] # g[j]
           /\ \A n \in 0 .. k - 1 : /\ at[g[n]] \in WaitLabels /\ forked[g[n]] = g[n+1]
                                    /\ parent[g[n+1]] = g[n]
           /\ \A n \in 1 .. k - 1 : at[g[n]] = "wait4" /\ prog[g[n]] = "msh"
           /\ at[g[k]] \notin WaitLabels
           /\ \A r \in Pid : st[r] # "free" /\ at[r] \notin WaitLabels => r = g[k]
<1>1. /\ k \in Nat /\ k < MaxPid /\ g \in [0 .. k -> Pid] /\ g[0] = 1
      /\ at[g[k]] \notin WaitLabels /\ Follows(at, forked, g, k)
      /\ \A n \in 0 .. k : g[n] \in Pid
      /\ \A n \in 0 .. k - 1 : at[g[n]] \in WaitLabels /\ forked[g[n]] = g[n+1]
  BY DEF Chain, Follows
<1>2. \A i, j \in 0 .. k : i < j => g[i] # g[j]  BY <1>1, FollowsOnce
<1>3. \A i, j \in 0 .. k : i # j => g[i] # g[j]  BY <1>1, <1>2
<1>4. \A n \in 0 .. k : n > 0 <=> g[n] # 1  BY <1>1, <1>3
<1>5. ASSUME NEW n \in 0 .. k - 1
      PROVE  parent[g[n+1]] = g[n] /\ st[g[n+1]] # "free"
  BY <1>1 DEF OnPath, ChildKept
<1>6. ASSUME NEW n \in 0 .. k PROVE st[g[n]] # "free"
  <2>1. CASE n = 0  BY <1>1, <2>1 DEF OnPath, PidOneIsInit, Running
  <2>2. CASE n # 0
    <3>. DEFINE z == n - 1
    <3>1. z \in 0 .. k - 1 /\ z + 1 = n  BY <1>1, <2>2
    <3>. HIDE DEF z
    <3>. QED BY <1>5, <3>1
  <2>. QED BY <2>1, <2>2
<1>7. ASSUME NEW n \in 1 .. k - 1 PROVE at[g[n]] = "wait4" /\ prog[g[n]] = "msh"
  <2>1. n \in 0 .. k /\ n \in 0 .. k - 1 /\ n > 0  BY <1>1
  <2>2. g[n] \in Pid /\ g[n] # 1 /\ at[g[n]] \in WaitLabels  BY <1>1, <1>4, <2>1
  <2>. QED BY <2>2 DEF LabelInv, WaitLabels, InitLabels, MshLabels
<1>8. ASSUME NEW r \in Pid, st[r] # "free", at[r] \notin WaitLabels PROVE r = g[k]
  <2>1. g[k] \in Pid /\ st[g[k]] # "free"  BY <1>1, <1>6
  <2>. QED BY <1>1, <1>8, <2>1 DEF OnPath, OneForeground, Active
<1>. QED BY <1>1, <1>3, <1>4, <1>5, <1>6, <1>7, <1>8

(* Pids that differ fit into the table. *)
LEMMA RoomForChild ==
    ASSUME NEW k \in Nat, NEW g \in [0 .. k -> Pid], NEW q \in Pid,
           \A i, j \in 0 .. k : i # j => g[i] # g[j], \A i \in 0 .. k : g[i] # q
    PROVE  k + 1 < MaxPid
<1>. DEFINE h == [n \in 0 .. k + 1 |-> IF n = k + 1 THEN q ELSE g[n]]
<1>1. IsFiniteSet(0 .. k + 1) /\ Cardinality(0 .. k + 1) = k + 2
      /\ IsFiniteSet(Pid) /\ Cardinality(Pid) = MaxPid /\ MaxPid \in Nat
  BY FS_Interval, CircleAssumption DEF Pid
<1>2. h \in [0 .. k + 1 -> Pid]  OBVIOUS
<1>3. \A i, j \in 0 .. k + 1 : i # j => h[i] # h[j]  OBVIOUS
<1>. HIDE DEF h
<1>4. ~(Cardinality(Pid) < Cardinality(0 .. k + 1))  BY <1>1, <1>2, <1>3, FS_PigeonHole
<1>. QED BY <1>1, <1>4

(* fork: nobody gets or gives the console, and the chain grows. *)
LEMMA ForkRefines ==
    ASSUME TypeOK, OnPath, LabelInv, NEW p \in Pid, st[p] = "run", Forks(p)
    PROVE  Owners' = Owners
<1>1. PICK k, g : Chain(at, forked, g, k)  BY ChainExists
<1>2. /\ k \in Nat /\ k < MaxPid /\ g \in [0 .. k -> Pid] /\ g[0] = 1
      /\ \A n \in 0 .. k : st[g[n]] # "free" /\ (n > 0 <=> g[n] # 1)
      /\ \A i, j \in 0 .. k : i # j => g[i] # g[j]
      /\ \A n \in 0 .. k - 1 : at[g[n]] \in WaitLabels /\ forked[g[n]] = g[n+1]
      /\ \A n \in 1 .. k - 1 : at[g[n]] = "wait4"
      /\ \A r \in Pid : st[r] # "free" /\ at[r] \notin WaitLabels => r = g[k]
  BY <1>1, OnChain
<1>3. PICK q, c, w :
          /\ q \in Free /\ ForkAs(p, q, c, w) /\ c \in {"child_exec", "external_child"}
          /\ \/ p = 1 /\ at[p] = "supervise_msh" /\ w = "parent_wait"
             \/ p # 1 /\ at[p] = "msh_loop" /\ w = "wait4"
  BY DEF Forks
<1>4. p = g[k]  BY <1>2, <1>3 DEF WaitLabels
<1>5. /\ q \in Pid /\ st[q] = "free" /\ mod_word(q) = q /\ q # 0 /\ q # p
  BY <1>3, PidIsItsWord DEF Free
<1>6. /\ at' = [at EXCEPT ![q] = c, ![p] = w]
      /\ forked' = [forked EXCEPT ![q] = 0, ![p] = q]
      /\ prog' = [prog EXCEPT ![q] = prog[p]]
  BY <1>3, <1>5 DEF ForkAs
<1>7. \A n \in 0 .. k : g[n] # q  BY <1>2, <1>5
<1>. DEFINE z == k + 1
            h == [n \in 0 .. z |-> IF n = z THEN q ELSE g[n]]
<1>8. z \in Nat /\ z < MaxPid  BY <1>2, <1>5, <1>7, RoomForChild
<1>9. h \in [0 .. z -> Pid]  BY <1>2, <1>5
<1>10. (\A n \in 0 .. k : h[n] = g[n]) /\ h[z] = q  BY <1>2
<1>. HIDE DEF h
<1>11. /\ \A r \in Pid : r # q /\ r # p => at'[r] = at[r] /\ forked'[r] = forked[r]
       /\ \A r \in Pid : r # q => prog'[r] = prog[r]
  BY <1>5, <1>6 DEF TypeOK
<1>12. at'[p] = w /\ forked'[p] = q /\ at'[q] = c
  BY <1>5, <1>6 DEF TypeOK
<1>13. ASSUME NEW n \in 0 .. z - 1 PROVE at'[h[n]] \in WaitLabels /\ forked'[h[n]] = h[n+1]
  <2>1. CASE n = k  BY <1>3, <1>4, <1>10, <1>12, <2>1 DEF WaitLabels
  <2>2. CASE n # k
    <3>1. n \in 0 .. k - 1 /\ n \in 0 .. k /\ n + 1 \in 0 .. k /\ k \in 0 .. k
      BY <1>2, <2>2
    <3>2. g[n] \in Pid /\ g[n] # q /\ g[n] # p  BY <1>2, <1>4, <1>7, <2>2, <3>1
    <3>3. at'[g[n]] = at[g[n]] /\ forked'[g[n]] = forked[g[n]]  BY <1>11, <3>2
    <3>. QED BY <1>2, <1>10, <3>1, <3>3
  <2>. QED BY <2>1, <2>2
<1>14. Follows(at', forked', h, z)
  <2>1. h[0] = 1  BY <1>2, <1>10
  <2>. QED BY <1>8, <1>9, <1>13, <2>1 DEF Follows
<1>15. Chain(at', forked', h, z)
  <2>1. at'[h[z]] \notin WaitLabels  BY <1>3, <1>10, <1>12 DEF WaitLabels
  <2>. QED BY <1>8, <1>14, <2>1 DEF Chain
<1>16. ASSUME NEW n \in 1 .. z - 1 PROVE at'[h[n]] = "wait4"
  <2>1. CASE n = k
    <3>1. p # 1 /\ k \in 0 .. k  BY <1>2, <1>4, <2>1
    <3>. QED BY <1>3, <1>4, <1>10, <1>12, <2>1, <3>1
  <2>2. CASE n # k
    <3>1. n \in 0 .. k /\ n \in 1 .. k - 1 /\ k \in 0 .. k  BY <1>2, <2>2
    <3>2. g[n] \in Pid /\ g[n] # q /\ g[n] # p  BY <1>2, <1>4, <1>7, <2>2, <3>1
    <3>3. at'[g[n]] = at[g[n]]  BY <1>11, <3>2
    <3>. QED BY <1>2, <1>10, <3>1, <3>3
  <2>. QED BY <2>1, <2>2
<1>17. OwnersOf(at', forked', prog') = HeldBy(at', prog', h, z)
  BY <1>15, <1>16, ChainOwners
<1>18. OwnersOf(at, forked, prog) = HeldBy(at, prog, g, k)
  BY <1>1, <1>2, ChainOwners
<1>19. Held(at', h, z) = k  BY <1>2, <1>3, <1>10, <1>12 DEF Held
<1>20. Held(at, g, k) = k
  <2>1. CASE k = 0  BY <2>1 DEF Held
  <2>2. CASE k # 0  BY <1>2, <1>3, <1>4, <2>2 DEF Held
  <2>. QED BY <2>1, <2>2
<1>21. \A n \in 1 .. k : prog'[h[n]] = prog[g[n]]
  <2>1. \A n \in 1 .. k : n \in 0 .. k /\ g[n] \in Pid  BY <1>2
  <2>. QED BY <1>7, <1>10, <1>11, <2>1
<1>22. HeldBy(at', prog', h, z) = HeldBy(at, prog, g, k)
  BY <1>19, <1>20, <1>21 DEF HeldBy
<1>. QED BY <1>17, <1>18, <1>22, OwnersAre

(* What the console owns, in terms of the chain. *)
LEMMA OwnersOnChain ==
    ASSUME TypeOK, OnPath, LabelInv, NEW g, NEW k, Chain(at, forked, g, k)
    PROVE  Owners = HeldBy(at, prog, g, k)
<1>1. \A n \in 1 .. k - 1 : at[g[n]] = "wait4"  BY OnChain
<1>. QED BY <1>1, ChainOwners, OwnersAre

(* A step of the process at the end of the chain to another label at which *)
(* it does not wait.                                                       *)
LEMMA EndMoves ==
    ASSUME TypeOK, OnPath, LabelInv, NEW g, NEW k, Chain(at, forked, g, k),
           at'[g[k]] \notin WaitLabels,
           \A r \in Pid : r # g[k] => at'[r] = at[r] /\ forked'[r] = forked[r]
    PROVE  Owners' = HeldBy(at', prog', g, k)
<1>1. /\ k \in Nat /\ k < MaxPid /\ g \in [0 .. k -> Pid] /\ g[0] = 1
      /\ \A i, j \in 0 .. k : i # j => g[i] # g[j]
      /\ \A n \in 0 .. k - 1 : at[g[n]] \in WaitLabels /\ forked[g[n]] = g[n+1]
      /\ \A n \in 1 .. k - 1 : at[g[n]] = "wait4"
  BY OnChain
<1>2. g[k] \in Pid  BY <1>1
<1>4. ASSUME NEW n \in 0 .. k - 1 PROVE at'[g[n]] = at[g[n]] /\ forked'[g[n]] = forked[g[n]]
  <2>1. n \in 0 .. k /\ k \in 0 .. k /\ n # k  BY <1>1
  <2>2. g[n] \in Pid /\ g[n] # g[k]  BY <1>1, <2>1
  <2>. QED BY <2>2
<1>5. Follows(at', forked', g, k)  BY <1>1, <1>4 DEF Follows
<1>6. Chain(at', forked', g, k)  BY <1>1, <1>5 DEF Chain
<1>7. \A n \in 1 .. k - 1 : at'[g[n]] = "wait4"
  <2>1. \A n \in 1 .. k - 1 : n \in 0 .. k - 1  BY <1>1
  <2>. QED BY <1>1, <1>4, <2>1
<1>. DEFINE a == at'
            f == forked'
            pr == prog'
<1>8. OwnersOf(a, f, pr) = HeldBy(a, pr, g, k)
  <2>1. Chain(a, f, g, k) /\ \A n \in 1 .. k - 1 : a[g[n]] = "wait4"  BY <1>6, <1>7
  <2>. HIDE DEF a, f, pr
  <2>. QED BY <2>1, ChainOwners
<1>. QED BY <1>8, OwnersAre

(* A step that stays at the prompt, or in the loop of PID 1, or ends it.   *)
LEMMA MoveRefines ==
    ASSUME TypeOK, OnPath, LabelInv, NEW p \in Pid, st[p] = "run", Moves(p)
    PROVE  Owners' = Owners
<1>1. PICK k, g : Chain(at, forked, g, k)  BY ChainExists
<1>2. /\ k \in Nat /\ (k > 0 <=> g[k] # 1)
      /\ (st[p] # "free" /\ at[p] \notin WaitLabels => p = g[k])
  <2>1. k \in Nat /\ \A n \in 0 .. k : n > 0 <=> g[n] # 1  BY <1>1, OnChain
  <2>2. st[p] # "free" /\ at[p] \notin WaitLabels => p = g[k]  BY <1>1, OnChain
  <2>. QED BY <2>1, <2>2
<1>3. PICK l : /\ at' = [at EXCEPT ![p] = l]
               /\ \/ /\ p = 1 /\ at[p] \in {"supervise_msh", "nanosleep"}
                     /\ l \in {"supervise_msh", "nanosleep", "none"}
                  \/ p # 1 /\ at[p] = "msh_loop" /\ l = "msh_loop"
  BY DEF Moves
<1>4. p = g[k] /\ l \notin WaitLabels  BY <1>2, <1>3 DEF WaitLabels
<1>5. prog' = prog /\ forked' = forked  BY DEF Moves
<1>6. Owners' = HeldBy(at', prog', g, k) /\ at'[p] = l
  <2>1. at'[p] = l /\ \A r \in Pid : r # p => at'[r] = at[r] /\ forked'[r] = forked[r]
    BY <1>3, <1>5 DEF TypeOK
  <2>2. at'[g[k]] \notin WaitLabels
        /\ \A r \in Pid : r # g[k] => at'[r] = at[r] /\ forked'[r] = forked[r]
    BY <1>4, <2>1
  <2>3. Owners' = HeldBy(at', prog', g, k)  BY <1>1, <2>2, EndMoves
  <2>. QED BY <2>1, <2>3
<1>7. Held(at', g, k) = Held(at, g, k)  BY <1>2, <1>3, <1>4, <1>6 DEF Held
<1>. QED BY <1>1, <1>5, <1>6, <1>7, OwnersOnChain DEF HeldBy

(* exit gives the console back, unless nobody had been given it yet.       *)
LEMMA ExitRefines ==
    ASSUME TypeOK, OnPath, LabelInv, NEW p \in Pid, st[p] = "run", Exits(p)
    PROVE  Owners' = Owners \/ C!Return
<1>1. PICK k, g : Chain(at, forked, g, k)  BY ChainExists
<1>2. /\ k \in Nat /\ g \in [0 .. k -> Pid] /\ (k > 0 <=> g[k] # 1)
      /\ (st[p] # "free" /\ at[p] \notin WaitLabels => p = g[k])
  <2>1. k \in Nat /\ g \in [0 .. k -> Pid] /\ \A n \in 0 .. k : n > 0 <=> g[n] # 1
    BY <1>1, OnChain
  <2>2. st[p] # "free" /\ at[p] \notin WaitLabels => p = g[k]  BY <1>1, OnChain
  <2>. QED BY <2>1, <2>2
<1>3. /\ p # 1 /\ at[p] \in {"child_exec", "external_child", "msh_loop", "command"}
      /\ at' = [at EXCEPT ![p] = "none"] /\ prog' = prog /\ forked' = forked
  BY DEF Exits, Exit, Goto
<1>4. p = g[k] /\ "none" \notin WaitLabels  BY <1>2, <1>3 DEF WaitLabels
<1>5. Owners' = HeldBy(at', prog', g, k) /\ at'[p] = "none"
  <2>1. at'[p] = "none" /\ \A r \in Pid : r # p => at'[r] = at[r] /\ forked'[r] = forked[r]
    BY <1>3 DEF TypeOK
  <2>2. at'[g[k]] \notin WaitLabels
        /\ \A r \in Pid : r # g[k] => at'[r] = at[r] /\ forked'[r] = forked[r]
    BY <1>4, <2>1
  <2>3. Owners' = HeldBy(at', prog', g, k)  BY <1>1, <2>2, EndMoves
  <2>. QED BY <2>1, <2>3
<1>6. k > 0  BY <1>2, <1>3, <1>4
<1>7. Held(at', g, k) = k - 1  BY <1>4, <1>5, <1>6 DEF Held
<1>8. Owners = HeldBy(at, prog, g, k)  BY <1>1, OwnersOnChain
<1>9. CASE at[p] \in {"child_exec", "external_child"}
  <2>1. Held(at, g, k) = k - 1  BY <1>4, <1>6, <1>9 DEF Held
  <2>. QED BY <1>3, <1>5, <1>7, <1>8, <2>1 DEF HeldBy
<1>10. CASE at[p] \in {"msh_loop", "command"}
  <2>. DEFINE z == k - 1
  <2>1. Held(at, g, k) = k  BY <1>4, <1>10 DEF Held
  <2>2. z \in Nat /\ z + 1 = k  BY <1>2, <1>6
  <2>. DEFINE s == Owners
  <2>3. s = [n \in 1 .. z + 1 |-> prog[g[n]]]  BY <1>8, <2>1, <2>2 DEF HeldBy
  <2>4. \A n \in 1 .. z + 1 : prog[g[n]] \in Program
    <3>1. \A n \in 1 .. z + 1 : n \in 0 .. k  BY <2>2
    <3>. QED BY <1>2, <3>1 DEF TypeOK
  <2>5. s \in [1 .. z + 1 -> Program]  BY <2>3, <2>4
  <2>6. \A n \in 1 .. z + 1 : s[n] = prog[g[n]]  BY <2>3
  <2>7. Owners' = [n \in 1 .. z |-> prog[g[n]]]  BY <1>3, <1>5, <1>7 DEF HeldBy
  <2>. HIDE DEF s, z
  <2>8. [n \in 1 .. z |-> prog[g[n]]] = [n \in 1 .. z |-> s[n]]  BY <2>2, <2>6
  <2>9. Len(s) = z + 1 /\ [n \in 1 .. z |-> s[n]] = SubSeq(s, 1, z)  BY <2>2, <2>5, DropLast
  <2>10. (Len(s) - 1) = z  BY <2>2, <2>9
  <2>11. Owners' = SubSeq(s, 1, Len(s) - 1)  BY <2>7, <2>8, <2>9, <2>10
  <2>12. s # <<>>  BY <2>2, <2>9
  <2>. QED BY <2>11, <2>12 DEF s, C!Return, C!Front
<1>. QED BY <1>3, <1>9, <1>10

(* execve puts a program on top: a shell of PID 1 on nothing, or a command *)
(* or shell on the shell that waits for it.                                *)
LEMMA ExecRefines ==
    ASSUME TypeOK, OnPath, LabelInv, NEW p \in Pid, st[p] = "run", Execs(p)
    PROVE  C!Respawn \/ C!Call
<1>1. PICK k, g : Chain(at, forked, g, k)  BY ChainExists
<1>2. /\ k \in Nat /\ g \in [0 .. k -> Pid] /\ g[0] = 1
      /\ \A n \in 0 .. k : n > 0 <=> g[n] # 1
      /\ \A i, j \in 0 .. k : i # j => g[i] # g[j]
      /\ \A n \in 0 .. k - 1 : parent[g[n+1]] = g[n]
      /\ \A n \in 1 .. k - 1 : prog[g[n]] = "msh"
      /\ (st[p] # "free" /\ at[p] \notin WaitLabels => p = g[k])
  BY <1>1, OnChain
<1>3. PICK b, l :
          /\ p # 1 /\ at[p] \in {"child_exec", "external_child"} /\ Exec(p, b, l)
          /\ l \in {"msh_loop", "command"} /\ b \in {"msh", "cmd"}
          /\ b = "cmd" => at[p] = "external_child"
  BY DEF Execs
<1>4. /\ at' = [at EXCEPT ![p] = l] /\ prog' = [prog EXCEPT ![p] = b]
      /\ forked' = [forked EXCEPT ![p] = 0]
  BY <1>3 DEF Exec, Goto
<1>5. p = g[k]  BY <1>2, <1>3 DEF WaitLabels
<1>. DEFINE z == k - 1
<1>6. z \in Nat /\ z + 1 = k /\ k > 0 /\ k \in 0 .. k  BY <1>2, <1>3, <1>5
<1>7. /\ at'[p] = l /\ prog'[p] = b
      /\ \A r \in Pid : r # p => at'[r] = at[r] /\ forked'[r] = forked[r] /\ prog'[r] = prog[r]
  BY <1>4 DEF TypeOK
<1>8. Owners' = HeldBy(at', prog', g, k)
  <2>1. at'[g[k]] \notin WaitLabels
        /\ \A r \in Pid : r # g[k] => at'[r] = at[r] /\ forked'[r] = forked[r]
    BY <1>3, <1>5, <1>7 DEF WaitLabels
  <2>. QED BY <1>1, <2>1, EndMoves
<1>9. Owners = HeldBy(at, prog, g, k)  BY <1>1, OwnersOnChain
<1>10. Held(at, g, k) = z /\ Held(at', g, k) = k  BY <1>3, <1>5, <1>6, <1>7 DEF Held
<1>. DEFINE s == [n \in 1 .. z |-> "msh"]
<1>11. \A n \in 1 .. z : prog[g[n]] = "msh" /\ prog'[g[n]] = "msh"
  <2>1. ASSUME NEW n \in 1 .. z PROVE prog[g[n]] = "msh" /\ g[n] \in Pid /\ g[n] # g[k]
    <3>1. n \in 1 .. k - 1 /\ n \in 0 .. k /\ n # k  BY <1>2, <1>6
    <3>. QED BY <1>2, <1>6, <3>1
  <2>. QED BY <1>5, <1>7, <2>1
<1>12. Owners = s  BY <1>9, <1>10, <1>11 DEF HeldBy
<1>13. Owners' = [n \in 1 .. z + 1 |-> IF n = z + 1 THEN b ELSE s[n]]
  <2>1. Owners' = [n \in 1 .. z + 1 |-> prog'[g[n]]]  BY <1>6, <1>8, <1>10 DEF HeldBy
  <2>2. ASSUME NEW n \in 1 .. z + 1 PROVE prog'[g[n]] = IF n = z + 1 THEN b ELSE s[n]
    <3>1. CASE n = z + 1  BY <1>5, <1>6, <1>7, <3>1
    <3>2. CASE n # z + 1
      <4>1. n \in 1 .. z  BY <1>6, <3>2
      <4>. QED BY <1>11, <3>2, <4>1
    <3>. QED BY <3>1, <3>2
  <2>. QED BY <2>1, <2>2
<1>14. s \in [1 .. z -> Program] /\ b \in Program  BY <1>3 DEF Program
<1>15. \A n \in 1 .. z : s[n] = "msh"  OBVIOUS
<1>. HIDE DEF s, z
<1>16. s \in Seq(Program) /\ Len(s) = z /\ Owners' = Append(s, b)
  <2>. DEFINE t == Owners'
  <2>1. z \in Nat  BY <1>6
  <2>2. t \in [1 .. z + 1 -> Program]  BY <1>13, <1>14, <2>1
  <2>3. t[z+1] = b /\ \A n \in 1 .. z : t[n] = s[n]  BY <1>13, <2>1
  <2>. HIDE DEF t
  <2>4. s \in Seq(Program) /\ Len(s) = z /\ t = Append(s, b)
    BY <1>14, <2>1, <2>2, <2>3, AppendLast
  <2>. QED BY <2>4 DEF t
<1>17. CASE z = 0
  <2>1. k = 1 /\ 0 \in 0 .. k - 1 /\ 0 + 1 = k  BY <1>6, <1>17
  <2>2. parent[p] = 1  BY <1>2, <1>5, <2>1
  <2>3. at[1] # "wait4"  BY DEF OnPath, PidOneIsInit, InitLabels
  <2>4. at[p] # "external_child"  BY <2>2, <2>3 DEF LabelInv
  <2>5. b = "msh"  BY <1>3, <2>4
  <2>6. s = <<>>  BY <1>16, <1>17
  <2>7. Owners = <<>> /\ Owners' = <<"msh">>  BY <1>12, <1>16, <2>5, <2>6
  <2>. QED BY <2>7 DEF C!Respawn
<1>18. CASE z # 0
  <2>1. z \in 1 .. z  BY <1>6, <1>18
  <2>2. s # <<>> /\ s[Len(s)] = "msh"  BY <1>15, <1>16, <1>18, <2>1
  <2>. QED BY <1>3, <1>12, <1>16, <2>2 DEF C!Call, C!Top, C!Last
<1>. QED BY <1>17, <1>18

(* wait4 returns: the dead program had given the console back before.      *)
LEMMA ReapRefines ==
    ASSUME TypeOK, OnPath, LabelInv, NEW p \in Pid, st[p] = "run", Reaps(p)
    PROVE  Owners' = Owners
<1>1. PICK k, g : Chain(at, forked, g, k)  BY ChainExists
<1>2. /\ k \in Nat /\ k < MaxPid /\ g \in [0 .. k -> Pid] /\ g[0] = 1
      /\ \A n \in 0 .. k : n > 0 <=> g[n] # 1
      /\ \A i, j \in 0 .. k : i # j => g[i] # g[j]
      /\ \A n \in 0 .. k - 1 : /\ at[g[n]] \in WaitLabels /\ forked[g[n]] = g[n+1]
                               /\ parent[g[n+1]] = g[n]
      /\ \A n \in 1 .. k - 1 : at[g[n]] = "wait4"
      /\ \A r \in Pid : st[r] # "free" /\ at[r] \notin WaitLabels => r = g[k]
  BY <1>1, OnChain
<1>3. PICK P, l : /\ Reap(p, P, l)
                  /\ \/ p = 1 /\ at[p] = "parent_wait" /\ l = "nanosleep"
                     \/ p # 1 /\ at[p] = "wait4" /\ l = "msh_loop"
  BY DEF Reaps
<1>4. PICK y \in Children(p) :
          /\ st[y] = "zombie" /\ at' = [at EXCEPT ![p] = l]
          /\ forked' = [forked EXCEPT ![y] = 0] /\ prog' = [prog EXCEPT ![y] = "cmd"]
  BY <1>3 DEF Reap, Goto
<1>5. y \in Pid /\ parent[y] = p /\ at[y] = "none" /\ y # 1
  BY <1>4, PidOne DEF Children, TypeOK, Running, OnPath, PidOneIsInit
<1>6. y = g[k]  BY <1>2, <1>4, <1>5 DEF WaitLabels
<1>. DEFINE z == k - 1
            h == [n \in 0 .. z |-> g[n]]
<1>7. z \in Nat /\ z + 1 = k /\ k > 0 /\ k \in 0 .. k /\ z \in 0 .. k - 1 /\ z \in 0 .. k
  BY <1>2, <1>5, <1>6
<1>8. p = g[z]  BY <1>2, <1>5, <1>6, <1>7
<1>9. h \in [0 .. z -> Pid] /\ \A n \in 0 .. z : h[n] = g[n]  BY <1>2, <1>7
<1>. HIDE DEF h, z
<1>10. /\ at'[p] = l /\ l \notin WaitLabels
       /\ \A r \in Pid : r # p => at'[r] = at[r]
       /\ \A r \in Pid : r # y => forked'[r] = forked[r] /\ prog'[r] = prog[r]
  BY <1>3, <1>4, <1>5 DEF TypeOK, WaitLabels
<1>11. \A n \in 0 .. z : g[n] \in Pid /\ g[n] # y  BY <1>2, <1>6, <1>7
<1>12. \A n \in 0 .. z - 1 : g[n] # p
  <2>1. \A n \in 0 .. z - 1 : n \in 0 .. k /\ n # z  BY <1>7
  <2>. QED BY <1>2, <1>7, <1>8, <2>1
<1>13. ASSUME NEW n \in 0 .. z - 1 PROVE at'[h[n]] \in WaitLabels /\ forked'[h[n]] = h[n+1]
  <2>1. n \in 0 .. z /\ n + 1 \in 0 .. z /\ n \in 0 .. k - 1  BY <1>7
  <2>2. h[n] = g[n] /\ h[n+1] = g[n+1]  BY <1>9, <2>1
  <2>3. at[g[n]] \in WaitLabels /\ forked[g[n]] = g[n+1]  BY <1>2, <2>1
  <2>4. at'[g[n]] = at[g[n]] /\ forked'[g[n]] = forked[g[n]]  BY <1>10, <1>11, <1>12, <2>1
  <2>. QED BY <2>2, <2>3, <2>4
<1>14. Follows(at', forked', h, z)
  <2>1. h[0] = 1  BY <1>2, <1>7, <1>9
  <2>. QED BY <1>7, <1>9, <1>13, <2>1 DEF Follows
<1>15. Chain(at', forked', h, z)
  <2>1. h[z] = p /\ z < MaxPid  BY <1>2, <1>7, <1>8, <1>9, CircleAssumption
  <2>. QED BY <1>10, <1>14, <2>1 DEF Chain
<1>16. ASSUME NEW n \in 1 .. z - 1 PROVE at'[h[n]] = "wait4"
  <2>1. n \in 0 .. z - 1 /\ n \in 0 .. z /\ n \in 1 .. k - 1  BY <1>7
  <2>2. at[g[n]] = "wait4" /\ at'[g[n]] = at[g[n]]  BY <1>2, <1>10, <1>11, <1>12, <2>1
  <2>. QED BY <1>9, <2>1, <2>2
<1>17. OwnersOf(at', forked', prog') = HeldBy(at', prog', h, z)
  <2>. DEFINE a == at'
              f == forked'
              pr == prog'
  <2>1. Chain(a, f, h, z) /\ \A n \in 1 .. z - 1 : a[h[n]] = "wait4"  BY <1>15, <1>16
  <2>. HIDE DEF a, f, pr
  <2>2. OwnersOf(a, f, pr) = HeldBy(a, pr, h, z)  BY <2>1, ChainOwners
  <2>. QED BY <2>2 DEF a, f, pr
<1>18. Owners = HeldBy(at, prog, g, k)  BY <1>1, OwnersOnChain
<1>19. Held(at, g, k) = z  BY <1>5, <1>6, <1>7 DEF Held, z
<1>20. Held(at', h, z) = z
  <2>1. h[z] = p  BY <1>7, <1>8, <1>9
  <2>2. z > 0 => p # 1  BY <1>2, <1>7, <1>8
  <2>. QED BY <1>3, <1>7, <1>10, <2>1, <2>2 DEF Held
<1>21. \A n \in 1 .. z : prog'[h[n]] = prog[g[n]]
  <2>1. \A n \in 1 .. z : n \in 0 .. z  BY <1>7
  <2>. QED BY <1>9, <1>10, <1>11, <2>1
<1>22. HeldBy(at', prog', h, z) = HeldBy(at, prog, g, k)
  BY <1>19, <1>20, <1>21 DEF HeldBy
<1>. QED BY <1>17, <1>18, <1>22, OwnersAre

(* Every step is one of the console, or none.                              *)
LEMMA StepRefines ==
    ASSUME TypeOK, OnPath, LabelInv, NEW p \in Pid, Step(p), ~strayed'
    PROVE  C!Next \/ UNCHANGED Owners
<1>1. st[p] = "run" /\ (Forks(p) \/ Moves(p) \/ Execs(p) \/ Exits(p) \/ Reaps(p))
  BY StraightStep
<1>2. CASE Forks(p)  BY <1>1, <1>2, ForkRefines
<1>3. CASE Moves(p)  BY <1>1, <1>3, MoveRefines
<1>4. CASE Execs(p)  BY <1>1, <1>4, ExecRefines DEF C!Next
<1>5. CASE Exits(p)  BY <1>1, <1>5, ExitRefines DEF C!Next
<1>6. CASE Reaps(p)  BY <1>1, <1>6, ReapRefines
<1>. QED BY <1>1, <1>2, <1>3, <1>4, <1>5, <1>6

(* The table holds PID 1 alone at first, and nobody has the console.       *)
LEMMA InitRefines ==
    ASSUME Init, TypeOK, OnPath
    PROVE  LabelInv /\ C!Init
<1>1. LabelInv  BY DEF Init, LabelInv, InitLabels, MshLabels
<1>2. PICK k, g : Chain(at, forked, g, k)  BY ChainExists
<1>3. /\ k \in Nat /\ g \in [0 .. k -> Pid] /\ (\A n \in 0 .. k : n > 0 <=> g[n] # 1)
      /\ \A n \in 0 .. k : st[g[n]] # "free"
  BY <1>1, <1>2, OnChain
<1>4. k = 0
  <2>1. st[g[k]] # "free" /\ (k > 0 => g[k] # 1) /\ g[k] \in Pid  BY <1>3
  <2>. QED BY <1>3, <2>1 DEF Init
<1>5. Owners = HeldBy(at, prog, g, k)  BY <1>1, <1>2, OwnersOnChain
<1>6. Held(at, g, k) = 0  BY <1>4 DEF Held
<1>7. HeldBy(at, prog, g, k) = [n \in 1 .. 0 |-> prog[g[n]]]  BY <1>6 DEF HeldBy
<1>8. [n \in 1 .. 0 |-> prog[g[n]]] = <<>>  OBVIOUS
<1>9. Owners = <<>>  BY <1>5, <1>7, <1>8
<1>. QED BY <1>1, <1>9 DEF C!Init

(* With any kernel faults and step budgets: forks, execs, exits and reaps  *)
(* of the processes of the tree, in whatever order, amount to calls and    *)
(* returns of a stack of programs, so that the console has one owner and   *)
(* goes back to where it came from, until a process strays.                *)
THEOREM CircleHandsOver == Spec => C!Init /\ [][strayed' \/ C!Next]_Owners
<1>. DEFINE Labelled == ~strayed => LabelInv
            Handover == strayed' \/ C!Next \/ UNCHANGED Owners
<1>1. Init /\ TypeOK /\ PathInv => Labelled /\ C!Init
  BY InitRefines DEF OnPath, PathInv, Init
<1>2. TypeOK /\ PathInv /\ Labelled /\ [Next]_vars => Labelled' /\ Handover
  <2>. SUFFICES ASSUME TypeOK, PathInv, Labelled, [Next]_vars PROVE Labelled' /\ Handover
    OBVIOUS
  <2>1. CASE UNCHANGED vars
    <3>1. at' = at /\ forked' = forked /\ prog' = prog  BY <2>1 DEF vars
    <3>2. UNCHANGED Owners  BY <3>1, OwnersAre
    <3>3. Labelled'  BY <2>1 DEF vars, LabelInv
    <3>. QED BY <3>2, <3>3
  <2>2. ASSUME NEW p \in Pid, Step(p) PROVE Labelled' /\ Handover
    <3>1. CASE strayed'  BY <3>1
    <3>2. CASE ~strayed'
      <4>1. ~strayed /\ ~panic  BY <2>2, <3>2, StepFacts
      <4>2. OnPath /\ LabelInv  BY <4>1 DEF OnPath, PathInv
      <4>3. LabelInv'  BY <2>2, <3>2, <4>2, StepKeepsLabels
      <4>4. C!Next \/ UNCHANGED Owners  BY <2>2, <3>2, <4>2, StepRefines
      <4>. QED BY <4>3, <4>4
    <3>. QED BY <3>1, <3>2
  <2>. QED BY <2>1, <2>2 DEF Next, Halted
<1>3. Handover => [strayed' \/ C!Next]_Owners  OBVIOUS
<1>. HIDE DEF Labelled, Handover
<1>. QED
  BY <1>1, <1>2, <1>3, CircleTypeCorrect, CirclePath, PTL DEF Spec
=============================================================================
