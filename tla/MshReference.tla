---------------------------- MODULE MshReference ----------------------------
(***************************************************************************)
(* What a typed line means, with no buffers: the words of the line, the    *)
(* arguments that fit, the command they name.  The correctness properties  *)
(* of the shell compare its memory and its acts with these definitions.    *)
(***************************************************************************)
EXTENDS Msh, FiniteSetsExt, SequencesExt

(* Carriage returns are skipped wherever they stand; LF ends the line. *)
Text(l) ==
    LET text[n \in 0 .. Len(l)] ==
            IF n = 0 THEN <<>>
            ELSE IF l[n] \in {CR, LF} THEN text[n-1]
            ELSE Append(text[n-1], l[n])
    IN  text[Len(l)]

(* The maximal runs of non-space bytes, in order. *)
Spans(s) ==
    {p \in (DOMAIN s) \X (DOMAIN s) :
        /\ p[1] <= p[2]
        /\ \A k \in p[1] .. p[2] : s[k] # SP
        /\ p[1] = 1 \/ s[p[1] - 1] = SP
        /\ p[2] = Len(s) \/ s[p[2] + 1] = SP}

(* The i-th of them is the one with i - 1 before it. *)
Rank(p, spans) == Cardinality({q \in spans : q[1] <= p[1]})

Words(s) ==
    LET spans == Spans(s)
        span(i) == CHOOSE p \in spans : Rank(p, spans) = i
    IN  [i \in 1 .. Cardinality(spans) |-> SubSeq(s, span(i)[1], span(i)[2])]

HasCommand(l) == Spans(Text(l)) # {}
CommandSpan(l) == CHOOSE p \in Spans(Text(l)) :
                      \A q \in Spans(Text(l)) : p[1] <= q[1]

(* The whole first word, and the part of it the name buffers hold. *)
TypedCommand(l) == SubSeq(Text(l), CommandSpan(l)[1], CommandSpan(l)[2])
Command(l) ==
    SubSeq(TypedCommand(l), 1, Min({NameCells, Len(TypedCommand(l))}))

(* A first word longer than the name buffer loses one byte and the rest is *)
(* read as arguments.                                                      *)
ArgText(l) ==
    LET p == CommandSpan(l)
        after == Min({p[2], p[1] + NameCells})
    IN  SubSeq(Text(l), after + 1, Len(Text(l)))
ArgWords(l) == IF HasCommand(l) THEN Words(ArgText(l)) ELSE <<>>

(* Cells the first k arguments need, each with its NUL. *)
Need(ws, k) ==
    LET need[i \in 0 .. k] == IF i = 0 THEN 0 ELSE need[i-1] + Len(ws[i]) + 1
    IN  need[k]

(* The arguments handed over: the longest prefix that fits the slots and   *)
(* the cells left in the argument buffer when the line began.              *)
Kept(ws, cells) ==
    Max({k \in 0 .. Min({Len(ws), Slots}) : Need(ws, k) <= cells})

(* A C string ends at a typed NUL. *)
CutAtNul(w) ==
    IF 0 \in Range(w) THEN SubSeq(w, 1, Min({i \in DOMAIN w : w[i] = 0}) - 1) ELSE w

Args(l, cells) ==
    LET ws == ArgWords(l) IN [i \in 1 .. Kept(ws, cells) |-> CutAtNul(ws[i])]

(* The last argument ends the line and takes every cell that was left, so  *)
(* no cell remains for its NUL.                                            *)
FilledToTheBrim(l, cells) ==
    LET ws == ArgWords(l)  n == Len(ws)
    IN  /\ n \in 1 .. Slots
        /\ Need(ws, n) = cells + 1
        /\ Text(l)[Len(Text(l))] # SP

----------------------------------------------------------------------------
(* Properties. *)

(* README: "an overflow drops the overflowing argument and drains the rest *)
(* of the line"; m8-spec: "its argv slot is cleared, the argument is       *)
(* dropped".  So execve gets exactly the typed arguments that fit, each as *)
(* it was typed.                                                           *)
ArgvIsWhatFits ==
    obs.kind = "exec" /\ mem[exec_argv + 1] # mfs_ls_image =>
        obs.args = Args(line, room)

(* What the code does hand over: the arguments that fit, except when the   *)
(* last one fills the buffer to its last cell and ends the line; that one  *)
(* alone is then not what was typed.                                       *)
ArgvFaithful ==
    obs.kind = "exec" /\ mem[exec_argv + 1] # mfs_ls_image =>
        \/ obs.args = Args(line, room)
        \/ /\ FilledToTheBrim(line, room)
           /\ Len(obs.args) = Len(ArgWords(line))
           /\ Front(obs.args) = Args(line, room)

(* The reader takes exactly one line per prompt: in each of the four read  *)
(* loops a byte ends the line if and only if it is an LF.  So the rest of  *)
(* an overflowing line is never run as the next command, and a line is     *)
(* never joined with the one after it.                                     *)
OneLinePerPrompt ==
    [][line' # line /\ line' # <<>> =>
          (Last(line') = LF <=> pc' = "rp_finish")]_vars

(* Dispatch: a builtin runs exactly when the whole typed word is its name, *)
(* not a prefix of it nor a longer word.                                   *)
DispatchIsExact ==
    /\ \A k \in BuiltinNames : pc = Handler[k] => CutAtNul(Command(line)) = Builtin[k]
    /\ pc = "do_external" => \A k \in BuiltinNames : Command(line) # Builtin[k]

(* An external program runs only if the typed word names it: the path      *)
(* opened and executed is /bin/WORD.mb for the whole word typed.  A word   *)
(* too long for the path buffer is reported unknown, never cut to the name *)
(* of another command, unless it begins with "/", "./" or "../": the path  *)
(* of such a word runs on into the buffers behind it, and open(2) may find *)
(* what that spells.                                                       *)
OnlyTheTypedCommandRuns ==
    0 \notin Range(line) =>
        /\ obs.kind = "exec" /\ mem[exec_argv + 1] = cmd_path =>
               \/ obs.name = <<BinDir>> \o TypedCommand(line) \o <<46, 109, 98>>
               \/ /\ Len(TypedCommand(line)) + 4 > NameCells
                  /\ Roams(TypedCommand(line), 0)
        /\ obs.kind = "unknown" => obs.name = Command(line)

(* cd goes to the first argument typed, and to / only if there is none or  *)
(* it was dropped.                                                         *)
CdTarget ==
    obs.kind = "cd" =>
        \/ obs.args = SubSeq(Args(line, room), 1, Min({1, Len(Args(line, room))}))
        \/ FilledToTheBrim(line, room)
=============================================================================
