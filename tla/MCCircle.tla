------------------------------ MODULE MCCircle ------------------------------
(* Instances of the supervision tree for TLC. *)
EXTENDS Circle

(* No budget is reached. *)
NoBudget == {[g \in Program |-> 0]}

(* The shells reach theirs, or PID 1 does too: after a respawn, in the     *)
(* middle of the second.                                                   *)
ShortBudgets == {[init |-> 0, msh |-> 3, cmd |-> 0], [init |-> 4, msh |-> 3, cmd |-> 0]}

ForkExec == {"fork", "exec"}
WaitFault == {"wait"}
=============================================================================
