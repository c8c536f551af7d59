------------------------------ MODULE Console ------------------------------
(***************************************************************************)
(* What the supervision tree promises to the person at the console, with   *)
(* no pids, no fork and no wait4: the console is handed over like the      *)
(* stack of a program with calls.  PID 1 puts a shell on an empty stack, a *)
(* shell on top may start a command or another shell above itself, and     *)
(* whoever is on top gives the console back to the program below it.       *)
(***************************************************************************)
EXTENDS Sequences, SequencesExt

VARIABLE owners     \* programs that hold the console, the last one talks

Top == Last(owners)

Init == owners = <<>>

Respawn == owners = <<>> /\ owners' = <<"msh">>

Call ==
    /\ owners # <<>> /\ Top = "msh"
    /\ \E g \in {"msh", "cmd"} : owners' = Append(owners, g)

Return == owners # <<>> /\ owners' = Front(owners)

Next == Respawn \/ Call \/ Return

(* The console is handed over in no other way.                             *)
HandoverSpec == Init /\ [][Next]_owners

(* A shell is started when there is none, and a command ends.  A shell     *)
(* need not.                                                               *)
Spec ==
    /\ HandoverSpec
    /\ WF_owners(Respawn)
    /\ WF_owners(Return /\ Top = "cmd")
=============================================================================
