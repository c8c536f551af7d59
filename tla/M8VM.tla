-------------------------------- MODULE M8VM --------------------------------
(***************************************************************************)
(* The virtual machine src/runtime/m8.c: loader, extension lineage, one    *)
(* action per operation of step(), the trap bridge.                        *)
(*                                                                         *)
(* Every executed cell is replaced by its cipher, so a loop finds other    *)
(* glyphs each time round.  Extension operations survive this by lineage:  *)
(* the loader walks the image once, records the operation of each opcode   *)
(* cell (ext_seed_op) and the glyph to expect there (ext_expected_cell),   *)
(* and each execution moves the expectation on with the cipher.            *)
(*                                                                         *)
(* The sizes are parameters: 3^10 words, 94 printable glyphs from 33 on,   *)
(* five glyphs per inline frame word and the two tables in the runtime.    *)
(* The operation written with a backquote is "jumpm" here.                 *)
(***************************************************************************)
EXTENDS Integers, Sequences, SequencesExt

CONSTANTS
    Trits,        \* trits of a word (10)
    Low, Glyphs,  \* printable cells are Low .. Low + Glyphs - 1 (33, 94)
    XLAT1,        \* [0 .. Glyphs-1 -> character]: decoding table
    XLAT2,        \* [0 .. Glyphs-1 -> printable cell]: cipher
    ENC_WORD_CELLS, \* glyphs of an inline frame word (5)
    M8_ABI_ARGC, M8_ABI_ARGV, M8_ABI_ARGVEC, M8_ABI_STRINGS, \* 58000 ..
    M8_ABI_MAX_ARGS, \* arguments the block has slots for (32)
    max_steps,    \* steps run() allows (10,000,000 by default)
    Images,       \* the glyph sequences offered to the loader
    Argvs,        \* the argument vectors offered: sequences of byte sequences
    Syscall,      \* [trap number -> what the bridge does]
    Results,      \* values a syscall may return, negative for errors
    Bytes,        \* bytes that getchar, read, getcwd or getdents64 deliver
    MaxFill       \* bound: bytes delivered by one call

(* The place values crazy and decode_frame_word multiply up.               *)
place_of_trit[n \in 0 .. Trits] == IF n = 0 THEN 1 ELSE 3 * place_of_trit[n-1]
place_of_glyph[n \in 0 .. ENC_WORD_CELLS] == IF n = 0 THEN 1 ELSE Glyphs * place_of_glyph[n-1]

MEM_SIZE == place_of_trit[Trits]
WORD_MOD == MEM_SIZE
Address == 0 .. MEM_SIZE - 1
Printable == Low .. Low + Glyphs - 1
ARG_A == WORD_MOD - 2
FRAME_WORDS == 6

ClassicOps == {"j", "i", "*", "p", "/", "<", "v", "o"}
ExtensionOps == {"@", "!", "?", "=", "~", "#", "+", "-", "[", "]", ":", "^", "$", "jumpm"}
JumpOps == {"i", "!", "?", "jumpm"}
None == ""

ASSUME M8Assumption ==
    /\ Trits \in Nat \ {0} /\ ENC_WORD_CELLS \in Nat \ {0} /\ max_steps \in Nat
    /\ Low \in Nat /\ Glyphs \in Nat \ {0} /\ Printable \subseteq Address
    /\ DOMAIN XLAT1 = 0 .. Glyphs - 1
    /\ XLAT2 \in [0 .. Glyphs - 1 -> Printable]
    /\ \A glyphs \in Images : glyphs \in Seq(Nat)
    /\ {M8_ABI_ARGC, M8_ABI_ARGV, M8_ABI_ARGVEC, M8_ABI_STRINGS, M8_ABI_MAX_ARGS}
           \subseteq Address
    /\ \A argv \in Argvs : argv \in Seq(Seq(Address))
    /\ Bytes \subseteq Address /\ Results \subseteq Int /\ MaxFill \in Nat

VARIABLES
    mem, A, C, D, last_error, halted, exit_code,
    ext_seed_op, ext_expected_cell,
    pc,         \* where the loader's walk stands
    running,    \* the loader is done and run() has started
    steps,      \* steps run() has made
    image,      \* history: the glyphs of the image
    source,     \* history: the memory as loaded, before argv goes in
    walked,     \* history: the cells the loader's walk stopped at
    touched     \* history: cells written by anything but a lineage cipher

machine == <<A, C, D, last_error, halted, exit_code, steps>>
lineage == <<ext_seed_op, pc, running, image, source, walked>>
vars == <<mem, ext_expected_cell, touched, machine, lineage>>

----------------------------------------------------------------------------
(* Words. *)

(* Mutant: C's remainder, negative for a negative number. *)
mod_word_signed(x) == IF x < 0 THEN -((-x) % WORD_MOD) ELSE x % WORD_MOD

mod_word(x) == x % WORD_MOD

Trit(x, i) == (x \div place_of_trit[i]) % 3
CrazyTable == <<<<1, 0, 0>>, <<1, 0, 2>>, <<2, 2, 1>>>>

crazy(a, d) ==
    LET sum[n \in 0 .. Trits] ==
            IF n = 0 THEN 0
            ELSE sum[n-1] + CrazyTable[Trit(d, n-1) + 1][Trit(a, n-1) + 1] * place_of_trit[n-1]
    IN  sum[Trits]

rotate_right_trit(x) == (x \div 3) + (x % 3) * place_of_trit[Trits - 1]

----------------------------------------------------------------------------
(* Loader. *)

decode_op_cell(cell, address) ==
    IF cell \in Printable THEN XLAT1[(cell - Low + address) % Glyphs] ELSE None

is_valid_decoded_op(op) == op \in ClassicOps \cup ExtensionOps

extension_frame_words(op) ==
    IF op = "@" THEN FRAME_WORDS
    ELSE IF op = "?" THEN 2
    ELSE IF op \in ExtensionOps THEN 1
    ELSE 0

(* load_glyph_image refuses an image unless it is not empty, fits and      *)
(* every glyph decodes to an operation where it stands.                    *)
Accepted(glyphs) ==
    /\ Len(glyphs) \in 1 .. MEM_SIZE
    /\ \A n \in 0 .. Len(glyphs) - 1 :
           is_valid_decoded_op(decode_op_cell(glyphs[n+1], n))

(* fill_tail_classic grows the tail from the last two cells, unless there  *)
(* is only one.                                                            *)
fill_tail_classic(glyphs) ==
    LET next(m) == IF Len(glyphs) < 2 THEN 0 ELSE crazy(m[Len(m)], m[Len(m) - 1])
        begun == {m \in Seq(Nat) : Len(m) >= Len(glyphs)}
        grown[n \in Nat] == [m \in begun |->     \* m with n more cells
            IF n = 0 THEN m
            ELSE IF n = 1 THEN Append(m, next(m))
            ELSE grown[n - n \div 2][grown[n \div 2][m]]]
    IN  grown[MEM_SIZE - Len(glyphs)][glyphs]

(* The memory load_glyph_image leaves. *)
Loaded(glyphs) ==
    LET cells == fill_tail_classic(glyphs) IN [a \in Address |-> cells[a + 1]]

loaded == Len(image)

(* The machine before the loader's walk, with an image in memory. *)
InitWith(glyphs) ==
    /\ image = glyphs
    /\ source = Loaded(glyphs)
    /\ mem = source
    /\ ext_seed_op = [a \in Address |-> None]
    /\ ext_expected_cell = [a \in Address |-> 0]
    /\ pc = 0 /\ running = FALSE
    /\ A = 0 /\ C = 0 /\ D = 0 /\ steps = 0
    /\ last_error = FALSE /\ halted = FALSE /\ exit_code = 0
    /\ walked = {} /\ touched = {}

Init == \E glyphs \in Images : Accepted(glyphs) /\ InitWith(glyphs)

(* The operation the image holds at a cell and the cells up to the next. *)
SourceOp(a) == decode_op_cell(source[a], a)

(* Mutant: every extension operation has a frame of one word. *)
StrideOneWord(op) == 1 + (IF op \in ExtensionOps THEN 1 ELSE 0) * ENC_WORD_CELLS

Stride(op) == 1 + extension_frame_words(op) * ENC_WORD_CELLS

(* prepare_extension_lineage: one turn of its loop. *)
Walk ==
    /\ ~running /\ pc < loaded
    /\ LET op == decode_op_cell(mem[pc], pc) IN
       /\ pc' = pc + Stride(op)
       /\ IF op \in ExtensionOps
          THEN /\ ext_seed_op' = [ext_seed_op EXCEPT ![pc] = op]
               /\ ext_expected_cell' = [ext_expected_cell EXCEPT ![pc] = mem[pc]]
          ELSE UNCHANGED <<ext_seed_op, ext_expected_cell>>
    /\ walked' = walked \cup {pc}
    /\ UNCHANGED <<mem, machine, running, image, source, touched>>

(* vm_install_argv: a count, a pointer to the vector, the vector and the   *)
(* strings.  The first string that does not fit ends the copying; the      *)
(* count stays.                                                            *)
argc(argv) == IF Len(argv) > M8_ABI_MAX_ARGS THEN M8_ABI_MAX_ARGS ELSE Len(argv)

Cursor(argv) ==
    LET cursor[i \in 1 .. Len(argv) + 1] ==
            IF i = 1 THEN M8_ABI_STRINGS ELSE cursor[i-1] + Len(argv[i-1]) + 1
    IN  cursor

(* The arguments whose strings are copied, and the cells of one of them. *)
Copied(argv) == {i \in 1 .. argc(argv) : Cursor(argv)[i+1] < MEM_SIZE}
StringCells(argv, i) == Cursor(argv)[i] .. Cursor(argv)[i+1] - 1

VectorCells == M8_ABI_ARGVEC .. M8_ABI_ARGVEC + M8_ABI_MAX_ARGS

ArgvCells(argv) ==
    {M8_ABI_ARGC, M8_ABI_ARGV} \cup VectorCells
    \cup UNION {StringCells(argv, i) : i \in Copied(argv)}

ArgvWord(argv, a) ==
    IF a = M8_ABI_ARGC THEN argc(argv)
    ELSE IF a = M8_ABI_ARGV THEN M8_ABI_ARGVEC
    ELSE IF a \in VectorCells
    THEN IF a - M8_ABI_ARGVEC + 1 \in Copied(argv)
         THEN Cursor(argv)[a - M8_ABI_ARGVEC + 1] ELSE 0
    ELSE LET i == CHOOSE i \in Copied(argv) : a \in StringCells(argv, i)
             k == a - Cursor(argv)[i] + 1
         IN  IF k <= Len(argv[i]) THEN argv[i][k] ELSE 0

(* main: the walk is over, argv goes in, run() starts. *)
InstallArgv ==
    /\ ~running /\ pc >= loaded
    /\ \E argv \in Argvs :
           /\ mem' = [a \in Address |->
                         IF a \in ArgvCells(argv) THEN ArgvWord(argv, a) ELSE mem[a]]
           /\ touched' = ArgvCells(argv)
    /\ running' = TRUE
    /\ UNCHANGED <<ext_expected_cell, machine, ext_seed_op, pc, image, source, walked>>

----------------------------------------------------------------------------
(* step() *)

OnLineage(a) == ext_seed_op[a] # None /\ ext_expected_cell[a] = mem[a]

effective_op(a) == IF OnLineage(a) THEN ext_seed_op[a] ELSE decode_op_cell(mem[a], a)

Stepping == running /\ ~halted /\ steps < max_steps
Executes(op) == Stepping /\ mem[C] \in Printable /\ effective_op(C) = op

(* Mutant: the expectation stays at the first glyph. *)
ExpectFirst(ciphered) == ext_expected_cell

Expect(ciphered) ==
    IF OnLineage(C) THEN [ext_expected_cell EXCEPT ![C] = ciphered] ELSE ext_expected_cell

(* self_cipher_executed_cell on the memory m the operation leaves; written *)
(* are the cells the operation itself stored to.                           *)
SelfCipher(m, written) ==
    LET ciphered == XLAT2[mem[C] - Low] IN
    /\ mem' = [m EXCEPT ![C] = ciphered]
    /\ ext_expected_cell' = Expect(ciphered)
    /\ touched' = touched \cup (written \ {C}) \cup (IF OnLineage(C) THEN {} ELSE {C})
    /\ steps' = steps + 1
    /\ UNCHANGED lineage

(* C and D after the step, D from d. *)
Goto(c, d) == C' = c % MEM_SIZE /\ D' = (d + 1) % MEM_SIZE

frame_span == ENC_WORD_CELLS

(* The cells of a frame word and the word they spell. *)
FrameCells(m, pos) == [i \in 0 .. ENC_WORD_CELLS - 1 |-> m[(pos + i) % MEM_SIZE]]

Spelled(cells) ==
    LET value[n \in 0 .. ENC_WORD_CELLS] ==
            IF n = 0 THEN 0 ELSE value[n-1] + (cells[n-1] - Low) * place_of_glyph[n-1]
    IN  IF \E i \in 0 .. ENC_WORD_CELLS - 1 : cells[i] \notin Printable THEN 0
        ELSE mod_word(value[ENC_WORD_CELLS])

decode_frame_word(m, pos) == Spelled(FrameCells(m, pos))

frame_word_at(k) == decode_frame_word(mem, C + 1 + k * frame_span)
FrameAddress == frame_word_at(0) % MEM_SIZE

(* Mutant: a frame word skipped as one cell, as in a raw image. *)
AfterRaw(n) == C + 1 + n

(* Where an operation with a frame of n words falls through to. *)
After(n) == C + 1 + n * frame_span

(* The classic operations. *)
MovD ==          \* j
    /\ Executes("j")
    /\ SelfCipher(mem, {})
    /\ Goto(C + 1, mem[D] % MEM_SIZE)
    /\ UNCHANGED <<A, last_error, halted, exit_code>>

MovC ==          \* i
    /\ Executes("i")
    /\ SelfCipher(mem, {})
    /\ Goto((mem[D] % MEM_SIZE) + 1, D)
    /\ UNCHANGED <<A, last_error, halted, exit_code>>

WriteD(op, w) ==
    /\ Executes(op)
    /\ SelfCipher([mem EXCEPT ![D] = w], {D})
    /\ A' = w
    /\ Goto(C + 1, D)
    /\ UNCHANGED <<last_error, halted, exit_code>>

Rotate == WriteD("*", rotate_right_trit(mem[D]))
Crazy  == WriteD("p", crazy(A, mem[D]))

InChar ==
    /\ Executes("/")
    /\ SelfCipher(mem, {})
    /\ A' \in Bytes \cup {WORD_MOD - 1}
    /\ Goto(C + 1, D)
    /\ UNCHANGED <<last_error, halted, exit_code>>

(* "<", "o" and every decoded non-instruction. *)
OutCharOrNop ==
    /\ Stepping /\ mem[C] \in Printable
    /\ effective_op(C) \notin ExtensionOps \cup (ClassicOps \ {"<", "o"})
    /\ SelfCipher(mem, {})
    /\ Goto(C + 1, D)
    /\ UNCHANGED <<A, last_error, halted, exit_code>>

Halt ==
    /\ Executes("v")
    /\ SelfCipher(mem, {})
    /\ halted' = TRUE
    /\ UNCHANGED <<A, C, D, last_error, exit_code>>

(* A cell that is not a glyph stops the machine. *)
NotCode ==
    /\ Stepping /\ mem[C] \notin Printable
    /\ halted' = TRUE /\ exit_code' = 127
    /\ steps' = steps + 1
    /\ UNCHANGED <<mem, A, C, D, last_error, ext_expected_cell, lineage, touched>>

(* The extension operations without a trap: what they leave in A, in       *)
(* memory and in C.                                                        *)
SetsA(op, a) ==
    /\ Executes(op)
    /\ SelfCipher(mem, {})
    /\ A' = a
    /\ Goto(After(1), D)
    /\ UNCHANGED <<last_error, halted, exit_code>>

LoadA == SetsA("~", mem[FrameAddress])
SetA  == SetsA("#", mod_word(frame_word_at(0)))
AddI  == SetsA("+", mod_word(A + frame_word_at(0)))
SubI  == SetsA("-", mod_word(A - frame_word_at(0)))
AddM  == SetsA("[", mod_word(A + mem[FrameAddress]))
SubM  == SetsA("]", mod_word(A - mem[FrameAddress]))
CmpM  == SetsA(":", IF A = mem[FrameAddress] THEN 0 ELSE 1)
LoadI == SetsA("^", mem[mem[FrameAddress] % MEM_SIZE])

Stores(op, target) ==
    /\ Executes(op)
    /\ SelfCipher([mem EXCEPT ![target] = mod_word(A)], {target})
    /\ Goto(After(1), D)
    /\ UNCHANGED <<A, last_error, halted, exit_code>>

StoreA == Stores("=", FrameAddress)
StoreI == Stores("$", mem[FrameAddress] % MEM_SIZE)

Jumps(op, c) ==
    /\ Executes(op)
    /\ SelfCipher(mem, {})
    /\ Goto(c, D)
    /\ UNCHANGED <<A, last_error, halted, exit_code>>

Jump  == Jumps("!", FrameAddress)
JumpM == Jumps("jumpm", mem[FrameAddress] % MEM_SIZE)

(* The modes of a branch; any other mode is never taken. *)
Taken(mode) ==
    \/ mode = 0
    \/ mode = 1 /\ A = 0
    \/ mode = 2 /\ A # 0
    \/ mode = 3 /\ last_error
    \/ mode = 4 /\ ~last_error

Branch == Jumps("?", IF Taken(frame_word_at(1)) THEN FrameAddress ELSE After(2))

----------------------------------------------------------------------------
(* m8_trap.  The kernel only matters by what it returns and by the cells   *)
(* the bridge writes: "read" stands for read and getdents64, which fill    *)
(* the buffer in arguments 1 and 2; getcwd fills the one in arguments 0    *)
(* and 1 and adds a NUL; wait4 stores a status through argument 1 unless   *)
(* that is 0; execve returns only when it fails.                           *)

TrapArg(k) == IF frame_word_at(k + 1) = ARG_A THEN A ELSE frame_word_at(k + 1)

SyscallKind == IF frame_word_at(0) \in DOMAIN Syscall
               THEN Syscall[frame_word_at(0)] ELSE "unsupported"

Trapped(kind) == Executes("@") /\ SyscallKind = kind

(* A buffer at ptr that receives the bytes of s. *)
Span(ptr, s) == {a \in Address : (a - ptr) % MEM_SIZE < Len(s)}
Filled(ptr, s) ==
    [a \in Address |-> IF a \in Span(ptr, s) THEN s[((a - ptr) % MEM_SIZE) + 1] ELSE mem[a]]

Traps(m, written, r) ==
    /\ SelfCipher(m, written)
    /\ last_error' = (r < 0)
    /\ A' = mod_word(r)

TrapReturns(m, written, r) ==
    /\ Traps(m, written, r)
    /\ Goto(After(FRAME_WORDS), D)
    /\ UNCHANGED <<halted, exit_code>>

Delivers(ptr, s, r) == TrapReturns(Filled(ptr, s), Span(ptr, s), r)

TrapPlain ==
    /\ Trapped("plain")
    /\ \E r \in Results : TrapReturns(mem, {}, r)

TrapFails ==
    /\ Trapped("read") \/ Trapped("getcwd") \/ Trapped("wait4") \/ Trapped("execve")
    /\ \E r \in Results :
           /\ r < 0 \/ (r = 0 /\ SyscallKind = "read")
           /\ TrapReturns(mem, {}, r)

TrapUnsupported ==
    /\ Trapped("unsupported")
    /\ TrapReturns(mem, {}, -38)

TrapRead ==
    /\ Trapped("read")
    /\ \E n \in 1 .. MaxFill : \E s \in [1 .. n -> Bytes] :
           /\ n <= TrapArg(2)
           /\ Delivers(TrapArg(1), s, n)

TrapGetcwd ==
    /\ Trapped("getcwd")
    /\ \E n \in 1 .. MaxFill : \E s \in [1 .. n -> Bytes \ {0}] :
           /\ n < TrapArg(1)
           /\ Delivers(TrapArg(0), Append(s, 0), n)

TrapWait4 ==
    /\ Trapped("wait4")
    /\ \E r \in {x \in Results : x >= 0}, status \in Bytes :
           Delivers(TrapArg(1), IF TrapArg(1) = 0 THEN <<>> ELSE <<status>>, r)

TrapExit ==
    /\ Trapped("exit")
    /\ Traps(mem, {}, TrapArg(0))
    /\ halted' = TRUE /\ exit_code' = TrapArg(0) % 256
    /\ UNCHANGED <<C, D>>

(* execve succeeds: nothing of this machine is left. *)
TrapReplaced ==
    /\ Trapped("execve")
    /\ halted' = TRUE
    /\ steps' = steps + 1
    /\ UNCHANGED <<mem, A, C, D, last_error, exit_code, ext_expected_cell, lineage, touched>>

Classic == MovD \/ MovC \/ Rotate \/ Crazy \/ InChar \/ OutCharOrNop \/ Halt \/ NotCode

Extension ==
    \/ LoadA \/ SetA \/ AddI \/ SubI \/ AddM \/ SubM \/ CmpM \/ LoadI
    \/ StoreA \/ StoreI \/ Jump \/ JumpM \/ Branch

Trap == TrapPlain \/ TrapFails \/ TrapUnsupported \/ TrapRead \/ TrapGetcwd
        \/ TrapWait4 \/ TrapExit \/ TrapReplaced

(* run() returns: exit_code, or 124 when the steps are used up. *)
Stopped == running /\ (halted \/ steps = max_steps) /\ UNCHANGED vars

Next == Walk \/ InstallArgv \/ Classic \/ Extension \/ Trap \/ Stopped

Spec == Init /\ [][Next]_vars

----------------------------------------------------------------------------
(* Properties. *)

(* Registers and memory cells are words, whatever runs: no operation or    *)
(* trap of m8.c leaves a value outside 0 .. 59048, so C and D always       *)
(* index mem.                                                              *)
TypeOK ==
    /\ mem \in [Address -> Address]
    /\ A \in Address /\ C \in Address /\ D \in Address
    /\ ext_expected_cell \in [Address -> {0} \cup Printable]
    /\ \A a \in Address : ext_seed_op[a] \in ExtensionOps \cup {None}
    /\ last_error \in BOOLEAN /\ halted \in BOOLEAN /\ running \in BOOLEAN
    /\ exit_code \in 0 .. 255 /\ steps \in 0 .. max_steps

(* The cells of the instruction at a; none wraps round the end of memory. *)
InstructionCells(a) == a .. a + Stride(SourceOp(a)) - 1

(* However often a loop has ciphered it, an instruction of the image whose *)
(* cells nothing else wrote still is the operation the image holds there,  *)
(* with the operands it holds there (docs/m8-spec.md: the current          *)
(* encrypted glyph still dispatches as the original M8 op).  This relates  *)
(* prepare_extension_lineage, effective_op and self_cipher_executed_cell.  *)
InstructionsKept ==
    \A a \in walked :
        (SourceOp(a) \in ExtensionOps /\ InstructionCells(a) \cap touched = {}
            /\ InstructionCells(a) \subseteq Address) =>
        /\ effective_op(a) = SourceOp(a)
        /\ \A k \in 0 .. extension_frame_words(SourceOp(a)) - 1 :
               decode_frame_word(mem, a + 1 + k * frame_span)
                   = decode_frame_word(source, a + 1 + k * frame_span)

(* The widths by which step() skips a frame are the ones by which the      *)
(* loader walked (docs/m8-spec.md: using the same frame widths the         *)
(* executor uses): from a cell of the walk that nothing else wrote, an     *)
(* operation that does not jump goes on to the next cell of the walk, and  *)
(* only at the end of the image leaves it.                                 *)
StaysOnWalk ==
    (steps' # steps /\ ~halted' /\ C \in walked \ touched /\ effective_op(C) \notin JumpOps) =>
        LET next == C + Stride(SourceOp(C)) IN
        /\ C' = next % MEM_SIZE
        /\ next \in walked \/ next >= loaded

FallThroughStaysOnWalk == [][StaysOnWalk]_vars
=============================================================================
