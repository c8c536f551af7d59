----------------------------- MODULE ScrollRun -----------------------------
(***************************************************************************)
(* A scroll from its source to its exit: assembled by M8Asm, with the      *)
(* rituals M8Crazy plans, loaded and run by the machine of M8VM.  The      *)
(* planner, the assembler, the loader and step() each count cells and      *)
(* ticks for themselves; the properties here say that they agree.          *)
(***************************************************************************)
EXTENDS M8VM, FiniteSets

CONSTANTS
    Files,          \* [name -> lines] of the source files
    Scrolls,        \* the files that are assembled and run
    SYSCALLS,       \* [name -> trap number]
    SPECIALS,       \* [name -> word]
    Canary          \* cell for which crazyinc-cell is sized

Asm == INSTANCE M8Asm
Audit == INSTANCE M8Audit WITH Width <- 94

VARIABLES
    scroll,     \* history: what the assembler makes of the source
    file,       \* history: the name of the source
    out         \* history: the bytes printed

allVars == <<vars, scroll, file, out>>

ScrollInit ==
    /\ file \in Scrolls
    /\ scroll = Asm!Assembled(Files, file)
    /\ out = <<>>
    /\ InitWith(IF scroll.refused THEN <<>> ELSE scroll.image)

(* A scroll the assembler refuses has no image to run. *)
NoImage == scroll.refused /\ UNCHANGED <<vars, out>>

Printing == Stepping /\ mem[C] \in Printable /\ effective_op(C) = "<"

Runs ==
    /\ ~scroll.refused
    /\ Next
    /\ out' = IF Printing THEN Append(out, A % 256) ELSE out

ScrollNext == (Runs \/ NoImage) /\ UNCHANGED <<scroll, file>>

ScrollSpec == ScrollInit /\ [][ScrollNext]_allVars

----------------------------------------------------------------------------
(* What the source says, independently of where things come to stand. *)

Assembles == ~scroll.refused
Items == DOMAIN scroll.kinds
Plans == DOMAIN scroll.plans

(* The cells at which the image has an operation of the source: the        *)
(* materializer's, one per instruction, the fillers, the rituals'.         *)
OpCells ==
    LET pairs == Len(scroll.init)
        frame == 1 + ENC_WORD_CELLS
        ItemOps(k) ==
            IF k \in Plans THEN {scroll.plans[k].rows[n].cell : n \in DOMAIN scroll.plans[k].rows}
            ELSE IF scroll.kinds[k] \in Asm!Data \cup {"zero"}
            THEN scroll.at[k] .. (IF k + 1 \in Items THEN scroll.at[k+1] ELSE loaded) - 1
            ELSE {scroll.at[k]}
    IN  {n * frame : n \in 0 .. 2 * pairs} \cup UNION {ItemOps(k) : k \in Items}

----------------------------------------------------------------------------
(* Properties. *)

(* A value that no mask takes to its successor, an include that comes back *)
(* to itself, a label twice or never, a line that cannot be read.          *)
Incrementable(v) == \E m \in Address : crazy(m, v) = (v + 1) % WORD_MOD
Faulty ==
    \/ Asm!Cyclic(Files, file, {})
    \/ LET lines == Asm!load_source(Files, file)
           labels == UNION {Range(lines[k].labels) : k \in DOMAIN lines}
       IN  \/ \E k \in DOMAIN lines : Asm!BadLine(lines[k])
           \/ \E j, k \in DOMAIN lines : j # k /\ Range(lines[j].labels) \cap Range(lines[k].labels) # {}
           \/ \E k \in DOMAIN lines :
                  \/ lines[k].kind = "crazyinc" /\ ~Incrementable(lines[k].args[1])
                  \/ lines[k].kind = "crazyinc-cell" /\ ~Incrementable(lines[k].args[2])
                  \/ lines[k].kind = "jmp" /\ lines[k].args[1].names # <<>>
                        /\ lines[k].args[1].names[1][2] \notin labels

(* Three programs judge a scroll and agree.  The assembler refuses exactly *)
(* the faulty ones; the loader accepts whatever the assembler emits; and   *)
(* m8audit.py, which says it "checks the same source contract the C        *)
(* runtime cares about", gives the loader's verdict: on the image, on a    *)
(* part of it, on the image with one glyph changed, however it is broken   *)
(* into lines.                                                             *)
VerdictsAgree ==
    (pc = 0 /\ ~running) =>
        /\ scroll.refused <=> Faulty
        /\ Assembles =>
               /\ Accepted(image)
               /\ \A text \in Audit!Variants(image) :
                      Audit!audit_one(text).ok <=>
                          Accepted(Audit!Cells(text)) /\ ~Audit!looks_like_decimal_dump(text)

(* The loader's walk stops at exactly the cells at which the assembler put *)
(* an operation, and the machine executes no other cell of the image: all  *)
(* three compute the widths of frames for themselves, and a cell of        *)
(* difference would make opcodes of operands.                              *)
RunsTheSource ==
    (Assembles /\ running) =>
        /\ walked = OpCells
        /\ (~halted /\ C < loaded) => C \in OpCells

(* After as many ticks as the assembler counts for the materializer, the   *)
(* machine is at start with D at that count, and every data cell holds its *)
(* word, labels resolved ("strings and numeric words still become real VM  *)
(* words before user code runs", tools/m8asm.py).                          *)
StartsWithData ==
    (Assembles /\ running /\ steps = scroll.ticks) =>
        /\ C = scroll.start /\ D = scroll.ticks
        /\ \A k \in DOMAIN scroll.init : mem[scroll.init[k][1]] = scroll.init[k][2]

(* The planner's rows are what the machine does: before the n-th           *)
(* instruction C is on the row's cell, D and A are what the row says (A    *)
(* from the second row on: the first one sets it).                         *)
PlanIsWhatRuns ==
    \A k \in IF Assembles /\ running /\ ~halted THEN Plans ELSE {} :
        \A n \in DOMAIN scroll.plans[k].rows :
            LET row == scroll.plans[k].rows[n] IN
            steps + 1 = row.n =>
                /\ C = row.cell
                /\ n > 1 => A = row.a_before
                /\ effective_op(C) # "j" => D = row.d

(* A ritual does what it is planned for: the machine halts with exit code  *)
(* 0, the cell has gone from x to x+1, and the last the scroll printed is  *)
(* the proof, "OK" and a newline.                                          *)
EndsWith(s, t) == Len(s) >= Len(t) /\ SubSeq(s, Len(s) - Len(t) + 1, Len(s)) = t

RitualRewritesCell ==
    (Assembles /\ halted /\ Plans # {}) =>
        /\ exit_code = 0
        /\ EndsWith(out, <<79, 75, 10>>)
        /\ \A k \in Plans : mem[scroll.plans[k].mutable] = scroll.plans[k].target

(* The macro alone in a scroll is the scroll that plan-entry emits, glyph  *)
(* for glyph (the Makefile compares the two images).                       *)
EmittedScrollIsMacro ==
    (Assembles /\ pc = 0 /\ ~running /\ scroll.kinds = <<"crazyinc">>) =>
        LET items == Asm!emit_entry_scroll(scroll.plans[1])
            lines == [k \in DOMAIN items |->
                         Asm!Line(IF k = 1 THEN <<"start">> ELSE <<>>, items[k].kind, items[k].args)]
        IN  Asm!Assembled([emitted |-> lines], "emitted").image = image
=============================================================================
