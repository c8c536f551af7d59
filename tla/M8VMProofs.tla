----------------------------- MODULE M8VMProofs -----------------------------
(***************************************************************************)
(* Proofs about the virtual machine, for every size of memory, glyph table,*)
(* cipher, image, argument vector and kernel answer: an instruction that   *)
(* only its own execution changes stays what it was, falling through       *)
(* follows the loader's walk, and registers and cells stay words.          *)
(***************************************************************************)
EXTENDS M8VM, DataFacts, TLAPS

(* A step that takes longer than the usual limits is given more time, so   *)
(* that what is proved does not depend on how fast the machine is.         *)
USE SMT, Zenon, SMTT(60), ZenonT(60)

(* The registers of the lineage are tables over the memory. *)
TablesInv ==
    /\ DOMAIN mem = Address
    /\ DOMAIN ext_seed_op = Address
    /\ DOMAIN ext_expected_cell = Address

(* A cell nothing else wrote holds the glyph its lineage expects, or, off  *)
(* the lineage, what was loaded.                                           *)
KeptInv ==
    \A a \in Address \ touched :
        IF ext_seed_op[a] = None THEN mem[a] = source[a]
        ELSE mem[a] = ext_expected_cell[a] /\ mem[a] \in Printable

(* The seeds are the extension operations the walk stopped at. *)
SeedInv ==
    \A a \in Address :
        /\ (ext_seed_op[a] # None) <=> (a \in walked /\ SourceOp(a) \in ExtensionOps)
        /\ ext_seed_op[a] # None => ext_seed_op[a] = SourceOp(a)

(* The walk goes from instruction to instruction; none starts inside       *)
(* another.                                                                *)
WalkInv ==
    /\ pc \in Nat /\ loaded \in Nat /\ loaded <= MEM_SIZE
    /\ walked \subseteq Address
    /\ \A a \in walked : a + Stride(SourceOp(a)) <= pc
    /\ \A a, b \in walked : a < b => a + Stride(SourceOp(a)) <= b
    /\ \A a \in walked : a + Stride(SourceOp(a)) \in walked \cup {pc}
    /\ running => pc >= loaded

LoadInv == ~running => touched = {} /\ mem = source

LineageInv == TablesInv /\ KeptInv /\ SeedInv /\ WalkInv /\ LoadInv

----------------------------------------------------------------------------

(* The place values of the trits of a word. *)
LEMMA TritPlaces ==
    /\ place_of_trit[0] = 1
    /\ \A n \in 0 .. Trits : place_of_trit[n] \in Nat \ {0}
    /\ \A n \in 0 .. Trits - 1 : place_of_trit[n+1] = 3 * place_of_trit[n]
<1>1. Trits \in Nat  BY M8Assumption
<1>2. \E h : IsPlaces(h, 3, Trits)  BY <1>1, PlacesExist
<1>3. place_of_trit = CHOOSE h : IsPlaces(h, 3, Trits)  BY DEF place_of_trit, IsPlaces
<1>4. IsPlaces(place_of_trit, 3, Trits)  BY <1>2, <1>3
<1>. QED BY <1>1, <1>4, PlacesFacts

(* The place values of the glyphs of a frame word. *)
LEMMA GlyphPlaces == \A n \in 0 .. ENC_WORD_CELLS : place_of_glyph[n] \in Nat
<1>1. ENC_WORD_CELLS \in Nat /\ Glyphs \in Nat \ {0}  BY M8Assumption
<1>2. \E h : IsPlaces(h, Glyphs, ENC_WORD_CELLS)  BY <1>1, PlacesExist
<1>3. place_of_glyph = CHOOSE h : IsPlaces(h, Glyphs, ENC_WORD_CELLS)
  BY DEF place_of_glyph, IsPlaces
<1>4. IsPlaces(place_of_glyph, Glyphs, ENC_WORD_CELLS)  BY <1>2, <1>3
<1>. QED BY <1>1, <1>4, PlacesFacts

(* There is a memory, and its addresses are the words. *)
LEMMA MemSize ==
    /\ MEM_SIZE \in Nat \ {0} /\ MEM_SIZE = 3 * place_of_trit[Trits - 1]
    /\ 0 \in Address /\ MEM_SIZE - 1 \in Address /\ Address \subseteq Nat
<1>1. Trits \in Nat \ {0}  BY M8Assumption
<1>2. Trits \in 0 .. Trits /\ Trits - 1 \in 0 .. Trits - 1 /\ (Trits - 1) + 1 = Trits  BY <1>1
<1>3. MEM_SIZE \in Nat \ {0} /\ MEM_SIZE = 3 * place_of_trit[Trits - 1]
  BY <1>2, TritPlaces DEF MEM_SIZE
<1>. QED BY <1>3 DEF Address

(* A remainder is a word. *)
LEMMA ModIsWord ==
    /\ \A x \in Int : x % MEM_SIZE \in Address
    /\ \A x \in Int : mod_word(x) \in Address
<1>1. \A x \in Int : x % MEM_SIZE \in 0 .. MEM_SIZE - 1  BY MemSize
<1>. QED BY <1>1 DEF mod_word, WORD_MOD, Address

(* The part of it that is arithmetic only. *)
LEMMA MemSizeIsNat == MEM_SIZE \in Nat \ {0}
BY MemSize

(* A stride is a positive number of cells. *)
LEMMA StrideFacts ==
    \A op : Stride(op) \in Nat /\ Stride(op) >= 1
BY M8Assumption DEF Stride, extension_frame_words, FRAME_WORDS

(* What decodes to an extension operation is a printable cell. *)
LEMMA ExtensionIsPrintable ==
    \A cell, a : decode_op_cell(cell, a) \in ExtensionOps => cell \in Printable
BY DEF decode_op_cell, ExtensionOps, None

(* The empty seed is not an operation. *)
LEMMA NoneIsNoOp == None \notin ExtensionOps
BY DEF None, ExtensionOps

(* The loader hands over an image with nothing walked yet. *)
LEMMA InitLineage == Init => LineageInv
<1> SUFFICES ASSUME Init PROVE LineageInv
    OBVIOUS
<1>1. TablesInv /\ LoadInv
    BY DEF Init, InitWith, TablesInv, LoadInv, Loaded
<1>2. KeptInv /\ SeedInv
    BY DEF Init, InitWith, KeptInv, SeedInv, None
<1>3. WalkInv
    <2>1. image \in Images /\ Len(image) \in 1 .. MEM_SIZE
        BY DEF Init, InitWith, Accepted
    <2>2. loaded \in Nat /\ loaded <= MEM_SIZE
        BY <2>1, M8Assumption DEF loaded
    <2> QED BY <2>2 DEF Init, InitWith, WalkInv
<1> QED BY <1>1, <1>2, <1>3 DEF LineageInv

(* One turn of prepare_extension_lineage. *)
LEMMA WalkKeeps == LineageInv /\ Walk => LineageInv'
<1> SUFFICES ASSUME LineageInv, Walk PROVE LineageInv'
    OBVIOUS
<1> USE DEF LineageInv
<1> DEFINE op == decode_op_cell(mem[pc], pc)
<1>1. /\ pc \in Address /\ pc' = pc + Stride(op) /\ op = SourceOp(pc)
      /\ walked' = walked \cup {pc} /\ pc \notin walked
    <2>1. pc \in Address
        BY MemSizeIsNat DEF Walk, WalkInv, Address
    <2> QED BY <2>1, StrideFacts, MemSizeIsNat DEF Walk, WalkInv, LoadInv, SourceOp, Address
<1>2. /\ mem' = mem /\ source' = source /\ image' = image /\ running' = running
      /\ touched' = touched /\ ~running /\ touched = {} /\ mem = source
    BY DEF Walk, LoadInv
<1>3. \A a : SourceOp(a)' = SourceOp(a)
    BY <1>2 DEF SourceOp
<1>4. IF op \in ExtensionOps
      THEN /\ ext_seed_op' = [ext_seed_op EXCEPT ![pc] = op]
           /\ ext_expected_cell' = [ext_expected_cell EXCEPT ![pc] = mem[pc]]
      ELSE ext_seed_op' = ext_seed_op /\ ext_expected_cell' = ext_expected_cell
    BY DEF Walk
<1> HIDE DEF op
<1>5. TablesInv'
    BY <1>2, <1>4 DEF TablesInv
<1>6. KeptInv'
    <2> SUFFICES ASSUME NEW a \in Address
                 PROVE IF ext_seed_op'[a] = None THEN mem[a] = source[a]
                       ELSE mem[a] = ext_expected_cell'[a] /\ mem[a] \in Printable
        BY <1>2 DEF KeptInv
    <2>1. CASE op \in ExtensionOps /\ a = pc
        BY <2>1, <1>1, <1>4, ExtensionIsPrintable, NoneIsNoOp DEF TablesInv, op
    <2>2. CASE ~(op \in ExtensionOps /\ a = pc)
        BY <2>2, <1>1, <1>2, <1>4 DEF TablesInv, KeptInv
    <2> QED BY <2>1, <2>2
<1>7. SeedInv'
    <2> SUFFICES ASSUME NEW a \in Address
                 PROVE /\ (ext_seed_op'[a] # None)
                            <=> (a \in walked \cup {pc} /\ SourceOp(a) \in ExtensionOps)
                       /\ ext_seed_op'[a] # None => ext_seed_op'[a] = SourceOp(a)
        BY <1>1, <1>3 DEF SeedInv
    <2>1. CASE op \in ExtensionOps /\ a = pc
        BY <2>1, <1>1, <1>4, NoneIsNoOp DEF TablesInv
    <2>2. CASE ~(op \in ExtensionOps /\ a = pc)
        BY <2>2, <1>1, <1>4 DEF TablesInv, SeedInv
    <2> QED BY <2>1, <2>2
<1>8. WalkInv'
    <2>1. loaded' = loaded
        BY <1>2 DEF loaded
    <2>2. Stride(op) \in Nat /\ Stride(op) >= 1
        BY StrideFacts
    <2>3. \A a \in walked' : a + Stride(SourceOp(a)) <= pc'
        BY <1>1, <2>2, StrideFacts DEF WalkInv, Address
    <2>4. \A a, b \in walked' : a < b => a + Stride(SourceOp(a)) <= b
        BY <1>1, <2>2, StrideFacts DEF WalkInv, Address
    <2>5. \A a \in walked' : a + Stride(SourceOp(a)) \in walked' \cup {pc'}
        BY <1>1 DEF WalkInv
    <2>6. pc' \in Nat /\ walked' \subseteq Address
        BY <1>1, <2>2 DEF WalkInv
    <2> QED BY <1>2, <1>3, <2>1, <2>3, <2>4, <2>5, <2>6 DEF WalkInv
<1>9. LoadInv'
    BY <1>2 DEF LoadInv
<1> QED BY <1>5, <1>6, <1>7, <1>8, <1>9

(* The argv block is written over cells that count as touched. *)
LEMMA InstallKeeps == LineageInv /\ InstallArgv => LineageInv'
<1> SUFFICES ASSUME LineageInv, InstallArgv PROVE LineageInv'
    OBVIOUS
<1> USE DEF LineageInv
<1>1. /\ ext_seed_op' = ext_seed_op /\ ext_expected_cell' = ext_expected_cell
      /\ source' = source /\ image' = image /\ walked' = walked /\ pc' = pc
      /\ running' /\ pc >= loaded /\ touched = {}
    BY DEF InstallArgv, LoadInv
<1>2. DOMAIN mem' = Address /\ \A a \in Address \ touched' : mem'[a] = mem[a]
    BY DEF InstallArgv
<1>3. \A a : SourceOp(a)' = SourceOp(a)
    BY <1>1 DEF SourceOp
<1>4. TablesInv' /\ KeptInv'
    BY <1>1, <1>2 DEF TablesInv, KeptInv
<1>5. SeedInv'
    BY <1>1, <1>3 DEF SeedInv
<1>6. WalkInv' /\ LoadInv'
    BY <1>1, <1>3 DEF WalkInv, LoadInv, loaded
<1> QED BY <1>4, <1>5, <1>6

(* self_cipher_executed_cell, whatever the operation wrote before it. *)
LEMMA CipherKeeps ==
    ASSUME LineageInv, running, mem[C] \in Printable,
           NEW m, NEW written, DOMAIN m = Address,
           \A a \in Address \ written : m[a] = mem[a],
           SelfCipher(m, written)
    PROVE  LineageInv'
<1> USE DEF LineageInv
<1> DEFINE ciphered == XLAT2[mem[C] - Low]
<1>1. ciphered \in Printable
    BY M8Assumption DEF Printable
<1>2. /\ mem' = [m EXCEPT ![C] = ciphered]
      /\ ext_expected_cell' = IF OnLineage(C) THEN [ext_expected_cell EXCEPT ![C] = ciphered]
                              ELSE ext_expected_cell
      /\ touched' = touched \cup (written \ {C}) \cup (IF OnLineage(C) THEN {} ELSE {C})
    BY DEF SelfCipher, Expect
<1>3. /\ ext_seed_op' = ext_seed_op /\ source' = source /\ image' = image
      /\ walked' = walked /\ pc' = pc /\ running' = running
    BY DEF SelfCipher, lineage
<1> HIDE DEF ciphered
<1>4. \A a : SourceOp(a)' = SourceOp(a)
    BY <1>3 DEF SourceOp
<1>5. TablesInv'
    BY <1>2, <1>3 DEF TablesInv
<1>6. KeptInv'
    <2> SUFFICES ASSUME NEW a \in Address, a \notin touched'
                 PROVE IF ext_seed_op[a] = None THEN mem'[a] = source[a]
                       ELSE mem'[a] = ext_expected_cell'[a] /\ mem'[a] \in Printable
        BY <1>3 DEF KeptInv
    <2>1. CASE a = C
        <3>1. OnLineage(C)
            BY <2>1, <1>2
        <3> QED BY <2>1, <3>1, <1>1, <1>2 DEF TablesInv, OnLineage
    <2>2. CASE a # C
        <3>1. a \notin touched /\ a \notin written
            BY <2>2, <1>2
        <3>2. mem'[a] = mem[a] /\ ext_expected_cell'[a] = ext_expected_cell[a]
            BY <2>2, <3>1, <1>2 DEF TablesInv
        <3> QED BY <3>1, <3>2 DEF KeptInv
    <2> QED BY <2>1, <2>2
<1>7. SeedInv'
    BY <1>3, <1>4 DEF SeedInv
<1>8. WalkInv' /\ LoadInv'
    BY <1>3, <1>4 DEF WalkInv, LoadInv, loaded
<1> QED BY <1>5, <1>6, <1>7, <1>8

(* A step that stops the machine without a cipher, or none at all. *)
LEMMA FrameKeeps ==
    LineageInv /\ UNCHANGED <<mem, ext_expected_cell, touched, lineage>> => LineageInv'
BY DEF LineageInv, TablesInv, KeptInv, SeedInv, WalkInv, LoadInv, lineage, SourceOp, loaded

(* Every action of the machine keeps the invariant: one step per shape. *)
LEMMA NextKeeps == LineageInv /\ [Next]_vars => LineageInv'
<1> SUFFICES ASSUME LineageInv, [Next]_vars PROVE LineageInv'
    OBVIOUS
<1>1. ASSUME NEW written, NEW m, Stepping, mem[C] \in Printable, DOMAIN m = Address,
             \A a \in Address \ written : m[a] = mem[a], SelfCipher(m, written)
      PROVE  LineageInv'
    BY <1>1, CipherKeeps DEF Stepping
<1>2. DOMAIN mem = Address
    BY DEF LineageInv, TablesInv
<1>3. ASSUME NEW op, NEW w, WriteD(op, w) PROVE LineageInv'
    BY <1>1, <1>2, <1>3 DEF WriteD, Executes
<1>4. ASSUME NEW op, NEW a, SetsA(op, a) PROVE LineageInv'
    BY <1>1, <1>2, <1>4 DEF SetsA, Executes
<1>5. ASSUME NEW op, NEW target, Stores(op, target) PROVE LineageInv'
    BY <1>1, <1>2, <1>5 DEF Stores, Executes
<1>6. ASSUME NEW op, NEW c, Jumps(op, c) PROVE LineageInv'
    BY <1>1, <1>2, <1>6 DEF Jumps, Executes
<1>7. ASSUME NEW r, Executes("@"), Traps(mem, {}, r) PROVE LineageInv'
    BY <1>1, <1>2, <1>7 DEF Traps, Executes
<1>8. ASSUME NEW ptr, NEW s, NEW r, Executes("@"), Delivers(ptr, s, r) PROVE LineageInv'
    BY <1>1, <1>8 DEF Delivers, TrapReturns, Traps, Filled, Executes
<1>9. CASE Walk \/ InstallArgv
    BY <1>9, WalkKeeps, InstallKeeps
<1>10. CASE Classic
    <2>1. CASE MovD \/ MovC \/ InChar \/ OutCharOrNop \/ Halt
        BY <1>1, <1>2, <2>1 DEF MovD, MovC, InChar, OutCharOrNop, Halt, Executes
    <2>2. CASE Rotate \/ Crazy
        BY <1>3, <2>2 DEF Rotate, Crazy
    <2>3. CASE NotCode
        BY <2>3, FrameKeeps DEF NotCode, lineage
    <2> QED BY <1>10, <2>1, <2>2, <2>3 DEF Classic
<1>11. CASE Extension
    <2>1. CASE LoadA \/ SetA \/ AddI \/ SubI \/ AddM \/ SubM \/ CmpM \/ LoadI
        BY <1>4, <2>1 DEF LoadA, SetA, AddI, SubI, AddM, SubM, CmpM, LoadI
    <2>2. CASE StoreA \/ StoreI
        BY <1>5, <2>2 DEF StoreA, StoreI
    <2>3. CASE Jump \/ JumpM \/ Branch
        BY <1>6, <2>3 DEF Jump, JumpM, Branch
    <2> QED BY <1>11, <2>1, <2>2, <2>3 DEF Extension
<1>12. CASE Trap
    <2>1. CASE TrapPlain \/ TrapFails \/ TrapUnsupported \/ TrapExit
        BY <1>7, <2>1 DEF TrapPlain, TrapFails, TrapUnsupported, TrapExit, TrapReturns, Trapped
    <2>2. CASE TrapRead
        BY <1>8, <2>2 DEF TrapRead, Trapped
    <2>3. CASE TrapGetcwd
        BY <1>8, <2>3 DEF TrapGetcwd, Trapped
    <2>4. CASE TrapWait4
        BY <1>8, <2>4 DEF TrapWait4, Trapped
    <2>5. CASE TrapReplaced
        BY <2>5, FrameKeeps DEF TrapReplaced, lineage
    <2> QED BY <1>12, <2>1, <2>2, <2>3, <2>4, <2>5 DEF Trap
<1>13. CASE Stopped \/ UNCHANGED vars
    BY <1>13, FrameKeeps DEF Stopped, vars
<1> QED BY <1>9, <1>10, <1>11, <1>12, <1>13 DEF Next

----------------------------------------------------------------------------

(* An untouched cell of the walk still is the operation the image has      *)
(* there.                                                                  *)
LEMMA WalkedOp ==
    ASSUME LineageInv, NEW a \in walked, a \notin touched
    PROVE  effective_op(a) = SourceOp(a)
<1>1. a \in Address
    BY DEF LineageInv, WalkInv
<1>2. CASE ext_seed_op[a] = None
    BY <1>1, <1>2 DEF LineageInv, KeptInv, effective_op, OnLineage, SourceOp
<1>3. CASE ext_seed_op[a] # None
    BY <1>1, <1>3 DEF LineageInv, KeptInv, SeedInv, effective_op, OnLineage
<1> QED BY <1>2, <1>3

(* The cells of frame word k of an instruction lie behind its opcode and   *)
(* inside its stride.                                                      *)
LEMMA FrameInside ==
    ASSUME NEW op, NEW a \in Nat, NEW k \in 0 .. extension_frame_words(op) - 1,
           NEW i \in 0 .. ENC_WORD_CELLS - 1
    PROVE  LET p == a + 1 + k * frame_span + i
           IN  p \in a + 1 .. a + Stride(op) - 1
<1> DEFINE E == ENC_WORD_CELLS
<1>1. E \in Nat /\ E >= 1
    BY M8Assumption
<1>2. extension_frame_words(op) \in {0, 1, 2, 6}
    BY DEF extension_frame_words, FRAME_WORDS
<1>3. k \in {0, 1, 2, 3, 4, 5}
    BY <1>2
<1>4. k * E \in Nat /\ k * E + E <= extension_frame_words(op) * E
    BY <1>1, <1>2, <1>3
<1> QED BY <1>1, <1>2, <1>4 DEF Stride, frame_span

(* The invariant says what the run checks. *)
LEMMA LineageGivesInstructions == LineageInv => InstructionsKept
<1> SUFFICES ASSUME LineageInv, NEW a \in walked, SourceOp(a) \in ExtensionOps,
                    InstructionCells(a) \cap touched = {}, InstructionCells(a) \subseteq Address
             PROVE  /\ effective_op(a) = SourceOp(a)
                    /\ \A k \in 0 .. extension_frame_words(SourceOp(a)) - 1 :
                           decode_frame_word(mem, a + 1 + k * frame_span)
                               = decode_frame_word(source, a + 1 + k * frame_span)
    BY DEF InstructionsKept
<1>1. a \in Address /\ a \in Nat
    BY MemSizeIsNat DEF LineageInv, WalkInv, Address
<1>2. a \in InstructionCells(a)
    BY <1>1, StrideFacts DEF InstructionCells
<1>3. effective_op(a) = SourceOp(a)
    BY <1>2, WalkedOp
<1>4. ASSUME NEW p \in a + 1 .. a + Stride(SourceOp(a)) - 1
      PROVE  p \in Address /\ p % MEM_SIZE = p /\ mem[p] = source[p]
    <2>1. p \in InstructionCells(a)
        BY <1>1, <1>4, StrideFacts DEF InstructionCells
    <2>2. p \in Address /\ p \notin touched
        BY <2>1
    <2>3. p \notin walked
        BY <1>1, <1>4, StrideFacts DEF LineageInv, WalkInv
    <2>4. ext_seed_op[p] = None
        BY <2>2, <2>3 DEF LineageInv, SeedInv
    <2> QED BY <2>2, <2>4, MemSizeIsNat DEF LineageInv, KeptInv, Address
<1>5. ASSUME NEW k \in 0 .. extension_frame_words(SourceOp(a)) - 1
      PROVE  FrameCells(mem, a + 1 + k * frame_span) = FrameCells(source, a + 1 + k * frame_span)
    <2> DEFINE pos == a + 1 + k * frame_span
    <2>1. ASSUME NEW i \in 0 .. ENC_WORD_CELLS - 1
          PROVE  mem[(pos + i) % MEM_SIZE] = source[(pos + i) % MEM_SIZE]
        BY <1>1, <1>4, <2>1, FrameInside
    <2> HIDE DEF pos
    <2>2. FrameCells(mem, pos) = FrameCells(source, pos)
        BY <2>1 DEF FrameCells
    <2> QED BY <2>2 DEF pos
<1> QED BY <1>3, <1>5 DEF decode_frame_word

(* For every machine size, cipher and image, with any argv installed and   *)
(* any answers of the kernel: InstructionsKept, that is, however often a   *)
(* loop has ciphered it, an instruction nothing else wrote dispatches to   *)
(* the operation and operands the loader saw (effective_op,                *)
(* self_cipher_executed_cell).                                             *)
THEOREM M8InstructionsKept == Spec => []InstructionsKept
<1>1. Init => LineageInv
    BY InitLineage
<1>2. LineageInv /\ [Next]_vars => LineageInv'
    BY NextKeeps
<1>3. LineageInv => InstructionsKept
    BY LineageGivesInstructions
<1> QED BY <1>1, <1>2, <1>3, PTL DEF Spec

(* A step of the machine that falls through follows the walk. *)
LEMMA StepFallsThrough == LineageInv /\ [Next]_vars => StaysOnWalk
<1> SUFFICES ASSUME LineageInv, [Next]_vars, steps' # steps, ~halted',
                    C \in walked, C \notin touched, effective_op(C) \notin JumpOps
             PROVE  LET next == C + Stride(SourceOp(C))
                    IN  C' = next % MEM_SIZE /\ (next \in walked \/ next >= loaded)
    BY DEF StaysOnWalk
<1> DEFINE next == C + Stride(SourceOp(C))
<1>1. effective_op(C) = SourceOp(C)
    BY WalkedOp
<1>2. running => next \in walked \/ next >= loaded
    BY DEF LineageInv, WalkInv
<1>3. C \in Nat
    BY MemSizeIsNat DEF LineageInv, WalkInv, Address
<1>4. ASSUME NEW op \in ExtensionOps, extension_frame_words(op) = 1, Executes(op),
             NEW d, Goto(After(1), d)
      PROVE  C' = next % MEM_SIZE
    BY <1>1, <1>4, <1>3, M8Assumption, MemSizeIsNat
       DEF Executes, Goto, After, Stride, frame_span
<1>5. ASSUME extension_frame_words(SourceOp(C)) = 0, NEW d, Goto(C + 1, d)
      PROVE  C' = next % MEM_SIZE
    <2>1. Stride(SourceOp(C)) = 1
        BY <1>5, M8Assumption DEF Stride
    <2> QED BY <1>5, <2>1 DEF Goto
<1>6. Stepping => running
    BY DEF Stepping
<1>7. ASSUME NEW m, NEW written, NEW r, Executes("@"), TrapReturns(m, written, r)
      PROVE  C' = next % MEM_SIZE
    BY <1>1, <1>7, <1>3, M8Assumption, MemSizeIsNat
       DEF TrapReturns, Executes, Goto, After, Stride, frame_span,
       extension_frame_words, FRAME_WORDS
<1>8. CASE Walk \/ InstallArgv \/ Stopped \/ UNCHANGED vars
    BY <1>8 DEF Walk, InstallArgv, Stopped, vars, machine
<1>9. CASE Classic
    <2>1. CASE MovD \/ Rotate \/ Crazy \/ InChar
        BY <1>1, <1>2, <1>5, <1>6, <2>1 DEF MovD, Rotate, Crazy, InChar, WriteD, Executes,
           extension_frame_words, ExtensionOps
    <2>2. CASE OutCharOrNop
        BY <1>1, <1>2, <1>5, <1>6, <2>2 DEF OutCharOrNop, extension_frame_words, ExtensionOps
    <2>3. CASE MovC
        BY <2>3 DEF MovC, Executes, JumpOps
    <2>4. CASE Halt \/ NotCode
        BY <2>4 DEF Halt, NotCode
    <2> QED BY <1>9, <2>1, <2>2, <2>3, <2>4 DEF Classic
<1>10. CASE Extension
    <2>1. CASE LoadA \/ SetA \/ AddI \/ SubI \/ AddM \/ SubM \/ CmpM \/ LoadI
        BY <1>2, <1>4, <1>6, <2>1 DEF LoadA, SetA, AddI, SubI, AddM, SubM, CmpM, LoadI, SetsA,
           Executes, extension_frame_words, ExtensionOps
    <2>2. CASE StoreA \/ StoreI
        BY <1>2, <1>4, <1>6, <2>2 DEF StoreA, StoreI, Stores, Executes,
           extension_frame_words, ExtensionOps
    <2>3. CASE Jump \/ JumpM \/ Branch
        BY <2>3 DEF Jump, JumpM, Branch, Jumps, Executes, JumpOps
    <2> QED BY <1>10, <2>1, <2>2, <2>3 DEF Extension
<1>11. CASE Trap
    <2>1. Executes("@") => running
        BY <1>6 DEF Executes
    <2>2. CASE TrapPlain \/ TrapFails \/ TrapUnsupported
        BY <1>2, <1>7, <2>1, <2>2 DEF TrapPlain, TrapFails, TrapUnsupported, Trapped
    <2>3. CASE TrapRead
        BY <1>2, <1>7, <2>1, <2>3 DEF TrapRead, Trapped, Delivers
    <2>4. CASE TrapGetcwd
        BY <1>2, <1>7, <2>1, <2>4 DEF TrapGetcwd, Trapped, Delivers
    <2>5. CASE TrapWait4
        BY <1>2, <1>7, <2>1, <2>5 DEF TrapWait4, Trapped, Delivers
    <2>6. CASE TrapExit \/ TrapReplaced
        BY <2>6 DEF TrapExit, TrapReplaced
    <2> QED BY <1>11, <2>2, <2>3, <2>4, <2>5, <2>6 DEF Trap
<1> QED BY <1>8, <1>9, <1>10, <1>11 DEF Next

(* For every machine size, cipher and image: the frame widths of step()    *)
(* are the ones of prepare_extension_lineage, so execution that does not   *)
(* jump stays on the instructions the loader saw.                          *)
THEOREM M8FallThrough == Spec => FallThroughStaysOnWalk
<1>1. Init => LineageInv
    BY InitLineage
<1>2. LineageInv /\ [Next]_vars => LineageInv'
    BY NextKeeps
<1>3. LineageInv /\ [Next]_vars => [StaysOnWalk]_vars
    BY StepFallsThrough
<1> QED BY <1>1, <1>2, <1>3, PTL DEF Spec, FallThroughStaysOnWalk

----------------------------------------------------------------------------
(* Words. *)

(* The trits of a word and the entries of the table are trits. *)
LEMMA TritRange == \A x \in Nat, i \in 0 .. Trits : Trit(x, i) \in {0, 1, 2}
<1>. TAKE x \in Nat, i \in 0 .. Trits
<1>1. x \div place_of_trit[i] \in Nat  BY TritPlaces
<1>2. \A y \in Nat : y % 3 \in {0, 1, 2}  OBVIOUS
<1>. QED BY <1>1, <1>2 DEF Trit

LEMMA TableRange ==
    \A s, t \in {0, 1, 2} : CrazyTable[s + 1][t + 1] \in {0, 1, 2}
BY DEF CrazyTable

(* One trit of crazy. *)
CrazyTrit(a, d, n) == CrazyTable[Trit(d, n) + 1][Trit(a, n) + 1] * place_of_trit[n]

(* What one trit adds is at most twice its place value. *)
LEMMA CrazyTritRange ==
    ASSUME NEW a \in Nat, NEW d \in Nat, NEW n \in 0 .. Trits - 1
    PROVE  CrazyTrit(a, d, n) \in Int /\ CrazyTrit(a, d, n) >= 0
           /\ CrazyTrit(a, d, n) <= 2 * place_of_trit[n]
<1>1. n \in 0 .. Trits  BY M8Assumption
<1>. DEFINE v == CrazyTable[Trit(d, n) + 1][Trit(a, n) + 1]
            p == place_of_trit[n]
<1>2. v \in {0, 1, 2}  BY <1>1, TritRange, TableRange
<1>3. p \in Nat  BY <1>1, TritPlaces
<1>4. CrazyTrit(a, d, n) = v * p  BY DEF CrazyTrit
<1>. HIDE DEF v, p
<1>5. v * p \in {0, p, 2 * p}  BY <1>2, <1>3
<1>6. CrazyTrit(a, d, n) \in Int /\ CrazyTrit(a, d, n) >= 0 /\ CrazyTrit(a, d, n) <= 2 * p
  BY <1>3, <1>4, <1>5
<1>. QED BY <1>6 DEF p

IsCrazySum(h, a, d) ==
    h = [n \in 0 .. Trits |-> IF n = 0 THEN 0 ELSE h[n-1] + CrazyTrit(a, d, n - 1)]

(* There is a table of its sums, and only one. *)
LEMMA CrazySumIs ==
    ASSUME NEW a \in Nat, NEW d \in Nat
    PROVE  /\ \E h : IsCrazySum(h, a, d)
           /\ \A h : IsCrazySum(h, a, d) =>
                  /\ h[0] = 0
                  /\ \A n \in 0 .. Trits : h[n] \in Int
                  /\ \A n \in 0 .. Trits - 1 : h[n+1] = h[n] + CrazyTrit(a, d, n)
<1>1. Trits \in Nat  BY M8Assumption
<1>. DEFINE f == [n \in 0 .. Trits - 1 |-> CrazyTrit(a, d, n)]
<1>2. \A n \in 0 .. Trits - 1 : f[n] = CrazyTrit(a, d, n) /\ f[n] \in Int  BY CrazyTritRange
<1>. HIDE DEF f
<1>3. ASSUME NEW h PROVE IsSum(h, 0, f, Trits) <=> IsCrazySum(h, a, d)
  <2>1. ASSUME NEW n \in 0 .. Trits
        PROVE  (IF n = 0 THEN 0 ELSE h[n-1] + f[n-1])
                   = IF n = 0 THEN 0 ELSE h[n-1] + CrazyTrit(a, d, n - 1)
    <3>1. CASE n = 0  BY <3>1
    <3>2. CASE n # 0
      <4>1. n - 1 \in 0 .. Trits - 1  BY <3>2, <1>1
      <4>. QED BY <4>1, <1>2
    <3>. QED BY <3>1, <3>2
  <2>2. [n \in 0 .. Trits |-> IF n = 0 THEN 0 ELSE h[n-1] + f[n-1]]
            = [n \in 0 .. Trits |-> IF n = 0 THEN 0 ELSE h[n-1] + CrazyTrit(a, d, n - 1)]
    BY <2>1
  <2>. QED BY <2>2 DEF IsSum, IsCrazySum
<1>4. \E h : IsSum(h, 0, f, Trits)  BY <1>1, <1>2, SumExists
<1>5. \E h : IsCrazySum(h, a, d)  BY <1>3, <1>4
<1>6. ASSUME NEW h, IsCrazySum(h, a, d)
      PROVE  /\ h[0] = 0
             /\ \A n \in 0 .. Trits : h[n] \in Int
             /\ \A n \in 0 .. Trits - 1 : h[n+1] = h[n] + CrazyTrit(a, d, n)
  <2>1. IsSum(h, 0, f, Trits)  BY <1>3, <1>6
  <2>2. /\ h[0] = 0
        /\ \A n \in 0 .. Trits : h[n] \in Int
        /\ \A n \in 0 .. Trits - 1 : h[n+1] = h[n] + f[n]
    BY <1>1, <1>2, <2>1, SumFacts
  <2>. QED BY <1>2, <2>2
<1>. QED BY <1>5, <1>6

LEMMA CrazySums == \A a, d \in Nat : \E h : IsCrazySum(h, a, d)
BY CrazySumIs

LEMMA CrazySumsAgree ==
    ASSUME NEW a \in Nat, NEW d \in Nat, NEW g, NEW h, IsCrazySum(g, a, d), IsCrazySum(h, a, d)
    PROVE  g[Trits] = h[Trits]
<1>1. Trits \in Nat /\ Trits \in 0 .. Trits  BY M8Assumption
<1>2. g[0] = 0 /\ \A n \in 0 .. Trits - 1 : g[n+1] = g[n] + CrazyTrit(a, d, n)  BY CrazySumIs
<1>3. h[0] = 0 /\ \A n \in 0 .. Trits - 1 : h[n+1] = h[n] + CrazyTrit(a, d, n)  BY CrazySumIs
<1>. DEFINE T == {n \in 0 .. Trits : g[n] = h[n]}
<1>4. 0 \in T  BY <1>1, <1>2, <1>3
<1>5. \A n \in 0 .. Trits - 1 : n \in T => n + 1 \in T  BY <1>1, <1>2, <1>3
<1>. HIDE DEF T
<1>6. 0 .. Trits \subseteq T  BY <1>1, <1>4, <1>5, BoundedInduction
<1>. QED BY <1>1, <1>6 DEF T

(* The crazy operation is one on words, whatever the sizes of a and d. *)
LEMMA CrazyIsWord ==
    ASSUME NEW a \in Nat, NEW d \in Nat
    PROVE  crazy(a, d) \in Address
<1>1. Trits \in Nat /\ Trits \in 0 .. Trits  BY M8Assumption
<1>. DEFINE sum == CHOOSE h : IsCrazySum(h, a, d)
<1>2. crazy(a, d) = sum[Trits]  BY DEF crazy, IsCrazySum, CrazyTrit
<1>3. IsCrazySum(sum, a, d)  BY CrazySumIs
<1>. HIDE DEF sum
<1>4. /\ sum[0] = 0
      /\ \A n \in 0 .. Trits : sum[n] \in Int
      /\ \A n \in 0 .. Trits - 1 : sum[n+1] = sum[n] + CrazyTrit(a, d, n)
  BY <1>3, CrazySumIs
<1>. DEFINE T == {n \in Nat : sum[n] \in Int /\ 0 <= sum[n] /\ sum[n] < place_of_trit[n]}
<1>5. 0 \in T  BY <1>4, TritPlaces
<1>6. ASSUME NEW n \in 0 .. Trits - 1, n \in T PROVE n + 1 \in T
  <2>1. n \in 0 .. Trits /\ n + 1 \in Nat  BY <1>1
  <2>2. place_of_trit[n] \in Nat /\ place_of_trit[n+1] = 3 * place_of_trit[n]
    BY <2>1, TritPlaces
  <2>. DEFINE v == CrazyTrit(a, d, n)
  <2>3. v \in Int /\ 0 <= v /\ v <= 2 * place_of_trit[n]  BY CrazyTritRange
  <2>4. sum[n+1] = sum[n] + v  BY <1>4
  <2>. HIDE DEF v
  <2>. QED BY <1>6, <2>1, <2>2, <2>3, <2>4
<1>. HIDE DEF T
<1>7. 0 .. Trits \subseteq T  BY <1>1, <1>5, <1>6, BoundedInduction
<1>8. sum[Trits] \in Int /\ 0 <= sum[Trits] /\ sum[Trits] < MEM_SIZE
  BY <1>1, <1>7 DEF T, MEM_SIZE
<1>. QED BY <1>2, <1>8, MemSize DEF Address

(* Rotating a word gives a word. *)
LEMMA RotateIsWord == \A x \in Address : rotate_right_trit(x) \in Address
<1>. TAKE x \in Address
<1>. DEFINE p == place_of_trit[Trits - 1]
<1>1. Trits - 1 \in 0 .. Trits  BY M8Assumption
<1>2. p \in Nat /\ MEM_SIZE = 3 * p  BY <1>1, TritPlaces, MemSize
<1>3. rotate_right_trit(x) = (x \div 3) + (x % 3) * p  BY DEF rotate_right_trit
<1>4. x \in Nat /\ x < 3 * p  BY <1>2, MemSize DEF Address
<1>. HIDE DEF p
<1>5. x \div 3 \in Nat /\ x \div 3 < p  BY <1>2, <1>4
<1>6. x % 3 \in {0, 1, 2}  BY <1>4
<1>7. (x % 3) * p \in {0, p, 2 * p}  BY <1>2, <1>6
<1>8. rotate_right_trit(x) \in Nat /\ rotate_right_trit(x) < 3 * p
  BY <1>2, <1>3, <1>5, <1>7
<1>. QED BY <1>2, <1>8 DEF Address

IsSpelling(h, cells) ==
    h = [n \in 0 .. ENC_WORD_CELLS |->
            IF n = 0 THEN 0 ELSE h[n-1] + (cells[n-1] - Low) * place_of_glyph[n-1]]

(* Whatever cells a frame word is read from, decode_frame_word returns a   *)
(* word.                                                                   *)
LEMMA SpelledIsWord ==
    ASSUME NEW cells, \A i \in 0 .. ENC_WORD_CELLS - 1 : cells[i] \in Nat
    PROVE  Spelled(cells) \in Address
<1>1. ENC_WORD_CELLS \in Nat /\ ENC_WORD_CELLS \in 0 .. ENC_WORD_CELLS /\ Low \in Nat
  BY M8Assumption
<1>. DEFINE f == [n \in 0 .. ENC_WORD_CELLS - 1 |-> (cells[n] - Low) * place_of_glyph[n]]
<1>2. \A n \in 0 .. ENC_WORD_CELLS - 1 : f[n] = (cells[n] - Low) * place_of_glyph[n] /\ f[n] \in Int
  <2>. TAKE n \in 0 .. ENC_WORD_CELLS - 1
  <2>1. n \in 0 .. ENC_WORD_CELLS  BY <1>1
  <2>2. place_of_glyph[n] \in Nat /\ cells[n] - Low \in Int  BY <1>1, <2>1, GlyphPlaces
  <2>3. f[n] = (cells[n] - Low) * place_of_glyph[n]  OBVIOUS
  <2>4. \A x, y \in Int : x * y \in Int  OBVIOUS
  <2>. QED BY <2>2, <2>3, <2>4
<1>. HIDE DEF f
<1>3. ASSUME NEW h PROVE IsSum(h, 0, f, ENC_WORD_CELLS) <=> IsSpelling(h, cells)
  <2>1. ASSUME NEW n \in 0 .. ENC_WORD_CELLS
        PROVE  (IF n = 0 THEN 0 ELSE h[n-1] + f[n-1])
                 = IF n = 0 THEN 0 ELSE h[n-1] + (cells[n-1] - Low) * place_of_glyph[n-1]
    <3>1. CASE n = 0  BY <3>1
    <3>2. CASE n # 0
      <4>1. n - 1 \in 0 .. ENC_WORD_CELLS - 1  BY <3>2, <1>1
      <4>. QED BY <3>2, <4>1, <1>2
    <3>. QED BY <3>1, <3>2
  <2>2. [n \in 0 .. ENC_WORD_CELLS |-> IF n = 0 THEN 0 ELSE h[n-1] + f[n-1]]
          = [n \in 0 .. ENC_WORD_CELLS |->
               IF n = 0 THEN 0 ELSE h[n-1] + (cells[n-1] - Low) * place_of_glyph[n-1]]
    BY <2>1
  <2>. QED BY <2>2 DEF IsSum, IsSpelling
<1>. DEFINE value == CHOOSE h : IsSpelling(h, cells)
<1>4. Spelled(cells) = IF \E i \in 0 .. ENC_WORD_CELLS - 1 : cells[i] \notin Printable THEN 0
                       ELSE mod_word(value[ENC_WORD_CELLS])
  BY DEF Spelled, IsSpelling
<1>c. 0 \in Int /\ \A n \in 0 .. ENC_WORD_CELLS - 1 : f[n] \in Int  BY <1>2
<1>5. \E h : IsSum(h, 0, f, ENC_WORD_CELLS)  BY <1>1, <1>c, SumExists
<1>6. IsSpelling(value, cells)  BY <1>3, <1>5
<1>. HIDE DEF value
<1>7. value[ENC_WORD_CELLS] \in Int
  <2>1. IsSum(value, 0, f, ENC_WORD_CELLS)  BY <1>3, <1>6
  <2>. QED BY <1>1, <1>c, <2>1, SumFacts
<1>. QED BY <1>4, <1>7, ModIsWord, MemSize

LEMMA FrameWordIsWord ==
    ASSUME NEW m, \A a \in Address : m[a] \in Address, NEW pos \in Int
    PROVE  decode_frame_word(m, pos) \in Address
<1>1. ASSUME NEW i \in 0 .. ENC_WORD_CELLS - 1 PROVE FrameCells(m, pos)[i] \in Nat
  <2>1. FrameCells(m, pos)[i] = m[(pos + i) % MEM_SIZE]  BY DEF FrameCells
  <2>2. (pos + i) % MEM_SIZE \in Address  BY ModIsWord, M8Assumption
  <2>. QED BY <2>1, <2>2, MemSize
<1>. QED BY <1>1, SpelledIsWord DEF decode_frame_word

----------------------------------------------------------------------------
(* The argv block. *)

IsCursor(h, argv) ==
    h = [i \in 1 .. Len(argv) + 1 |->
            IF i = 1 THEN M8_ABI_STRINGS ELSE h[i-1] + Len(argv[i-1]) + 1]

(* The cursor of vm_install_argv moves past each string and its NUL. *)
LEMMA CursorFacts ==
    ASSUME NEW argv \in Argvs, NEW i \in 1 .. Len(argv)
    PROVE  /\ Cursor(argv)[i] \in Nat /\ Cursor(argv)[i+1] \in Nat
           /\ Cursor(argv)[i+1] = Cursor(argv)[i] + Len(argv[i]) + 1
<1>1. argv \in Seq(Seq(Address)) /\ Len(argv) \in Nat /\ M8_ABI_STRINGS \in Nat
  <2>1. argv \in Seq(Seq(Address)) /\ M8_ABI_STRINGS \in Address  BY M8Assumption
  <2>2. M8_ABI_STRINGS \in Nat  BY <2>1, MemSize
  <2>. QED BY <2>1, <2>2
<1>2. \A k \in 1 .. Len(argv) : Len(argv[k]) \in Nat  BY <1>1
<1>. DEFINE f == [n \in Nat |-> IF n + 1 <= Len(argv) THEN Len(argv[n+1]) + 1 ELSE 0]
<1>3. f \in [Nat -> Int]
  <2>1. ASSUME NEW n \in Nat
        PROVE  (IF n + 1 <= Len(argv) THEN Len(argv[n+1]) + 1 ELSE 0) \in Int
    <3>1. CASE n + 1 <= Len(argv)
      <4>1. n + 1 \in 1 .. Len(argv)  BY <3>1
      <4>2. Len(argv[n+1]) \in Nat  BY <4>1, <1>2
      <4>. QED BY <3>1, <4>2
    <3>. QED BY <3>1
  <2>. QED BY <2>1
<1>4. \A k \in 1 .. Len(argv) : f[k-1] = Len(argv[k]) + 1
  <2>. TAKE k \in 1 .. Len(argv)
  <2>1. k - 1 \in Nat /\ (k - 1) + 1 = k /\ k <= Len(argv)  OBVIOUS
  <2>. QED BY <2>1
<1>. HIDE DEF f
<1>5. PICK g \in [Nat -> Int] : g[0] = M8_ABI_STRINGS /\ \A n \in Nat : g[n+1] = g[n] + f[n]
  <2>1. M8_ABI_STRINGS \in Int  BY <1>1
  <2>. QED BY <1>3, <2>1, RunningSum
<1>. DEFINE h == [k \in 1 .. Len(argv) + 1 |-> g[k-1]]
<1>6. ASSUME NEW k \in 1 .. Len(argv) + 1
      PROVE  h[k] = IF k = 1 THEN M8_ABI_STRINGS ELSE h[k-1] + Len(argv[k-1]) + 1
  <2>1. CASE k = 1  BY <2>1, <1>5
  <2>2. CASE k # 1
    <3>1. k - 1 \in 1 .. Len(argv) /\ k - 1 \in 1 .. Len(argv) + 1 /\ k - 2 \in Nat
          /\ (k - 2) + 1 = k - 1 /\ (k - 1) - 1 = k - 2
      BY <2>2
    <3>2. g[k-1] = g[k-2] + f[k-2]  BY <3>1, <1>5
    <3>3. f[k-2] = Len(argv[k-1]) + 1  BY <3>1, <1>4
    <3>4. h[k] = g[k-1] /\ h[k-1] = g[k-2]  BY <3>1
    <3>5. g[k-2] \in Int /\ Len(argv[k-1]) \in Nat  BY <3>1, <1>2, <1>5
    <3>6. h[k] = h[k-1] + Len(argv[k-1]) + 1
      <4>1. \A x \in Int, y \in Nat : x + (y + 1) = x + y + 1  OBVIOUS
      <4>2. g[k-2] + (Len(argv[k-1]) + 1) = g[k-2] + Len(argv[k-1]) + 1  BY <3>5, <4>1
      <4>. HIDE DEF h
      <4>. QED BY <3>2, <3>3, <3>4, <4>2
    <3>. QED BY <2>2, <3>6
  <2>. QED BY <2>1, <2>2
<1>7. DOMAIN h = 1 .. Len(argv) + 1 /\ h = [k \in DOMAIN h |-> h[k]]  OBVIOUS
<1>. HIDE DEF h
<1>8. h = [k \in 1 .. Len(argv) + 1 |->
              IF k = 1 THEN M8_ABI_STRINGS ELSE h[k-1] + Len(argv[k-1]) + 1]
  BY <1>6, <1>7
<1>9. IsCursor(h, argv)  BY <1>8 DEF IsCursor
<1>. DEFINE c == CHOOSE x : IsCursor(x, argv)
<1>10. Cursor(argv) = c  BY DEF Cursor, IsCursor
<1>11. IsCursor(c, argv)  BY <1>9
<1>. HIDE DEF c
<1>12. \A k \in 1 .. Len(argv) + 1 :
           c[k] = IF k = 1 THEN M8_ABI_STRINGS ELSE c[k-1] + Len(argv[k-1]) + 1
  BY <1>11 DEF IsCursor
<1>13. c[1] = M8_ABI_STRINGS
  <2>1. 1 \in 1 .. Len(argv) + 1  BY <1>1
  <2>. QED BY <2>1, <1>12
<1>14. ASSUME NEW k \in 1 .. Len(argv) PROVE c[k+1] = c[k] + Len(argv[k]) + 1
  <2>1. k + 1 \in 1 .. Len(argv) + 1 /\ k + 1 # 1 /\ (k + 1) - 1 = k  BY <1>1
  <2>. QED BY <2>1, <1>12
<1>. DEFINE T == {n \in Nat : c[n+1] \in Nat}
<1>15. 0 \in T
  <2>1. M8_ABI_STRINGS \in Nat  BY <1>1
  <2>2. c[0+1] \in Nat  BY <1>13, <2>1
  <2>. QED BY <2>2
<1>16. ASSUME NEW n \in 0 .. Len(argv) - 1, n \in T PROVE n + 1 \in T
  <2>1. n + 1 \in 1 .. Len(argv) /\ n + 1 \in Nat  BY <1>1
  <2>2. c[(n+1)+1] = c[n+1] + Len(argv[n+1]) + 1  BY <2>1, <1>14
  <2>3. Len(argv[n+1]) \in Nat /\ c[n+1] \in Nat  BY <2>1, <1>2, <1>16
  <2>4. \A x, y \in Nat : x + y + 1 \in Nat  OBVIOUS
  <2>5. c[(n+1)+1] \in Nat  BY <2>2, <2>3, <2>4
  <2>. QED BY <2>1, <2>5
<1>. HIDE DEF T
<1>17. 0 .. Len(argv) \subseteq T  BY <1>1, <1>15, <1>16, BoundedInduction
<1>18. i - 1 \in 0 .. Len(argv) /\ i \in 0 .. Len(argv) /\ (i - 1) + 1 = i  BY <1>1
<1>19. c[i] \in Nat /\ c[i+1] \in Nat  BY <1>17, <1>18 DEF T
<1>. QED BY <1>10, <1>14, <1>19

(* The cells of the argv block get words. *)
LEMMA ArgvWordIsWord ==
    ASSUME NEW argv \in Argvs, NEW a \in ArgvCells(argv)
    PROVE  ArgvWord(argv, a) \in Address
<1>1. /\ argv \in Seq(Seq(Address)) /\ Len(argv) \in Nat
      /\ M8_ABI_ARGVEC \in Address /\ M8_ABI_MAX_ARGS \in Address
  BY M8Assumption
<1>2. M8_ABI_MAX_ARGS \in Nat /\ M8_ABI_MAX_ARGS < MEM_SIZE  BY <1>1, MemSize DEF Address
<1>3. argc(argv) \in Nat /\ argc(argv) <= Len(argv) /\ argc(argv) < MEM_SIZE
  <2>1. argc(argv) \in {M8_ABI_MAX_ARGS, Len(argv)} /\ argc(argv) <= Len(argv)
        /\ argc(argv) <= M8_ABI_MAX_ARGS
    BY <1>1, <1>2 DEF argc
  <2>. QED BY <1>1, <1>2, <2>1, MemSize
<1>4. argc(argv) \in Address  BY <1>3, MemSize DEF Address
<1>5. ASSUME NEW i \in Copied(argv)
      PROVE  /\ Cursor(argv)[i] \in Nat /\ Cursor(argv)[i] \in Address
             /\ Cursor(argv)[i+1] = Cursor(argv)[i] + Len(argv[i]) + 1
             /\ i \in 1 .. Len(argv)
  <2>1. i \in 1 .. Len(argv) /\ Cursor(argv)[i+1] < MEM_SIZE  BY <1>1, <1>3 DEF Copied
  <2>2. /\ Cursor(argv)[i] \in Nat /\ Cursor(argv)[i+1] \in Nat
        /\ Cursor(argv)[i+1] = Cursor(argv)[i] + Len(argv[i]) + 1
    BY <2>1, CursorFacts
  <2>3. Len(argv[i]) \in Nat  BY <1>1, <2>1
  <2>4. Cursor(argv)[i] < MEM_SIZE  BY <2>1, <2>2, <2>3, MemSize
  <2>. QED BY <2>1, <2>2, <2>4, MemSize DEF Address
<1>6. CASE a \in {M8_ABI_ARGC, M8_ABI_ARGV} \cup VectorCells
  <2>1. ArgvWord(argv, a) \in {argc(argv), M8_ABI_ARGVEC, 0}
            \/ (a - M8_ABI_ARGVEC + 1 \in Copied(argv)
                   /\ ArgvWord(argv, a) = Cursor(argv)[a - M8_ABI_ARGVEC + 1])
    BY <1>6 DEF ArgvWord
  <2>. QED BY <2>1, <1>1, <1>4, <1>5, MemSize
<1>7. CASE a \notin {M8_ABI_ARGC, M8_ABI_ARGV} \cup VectorCells
  <2>1. \E i \in Copied(argv) : a \in StringCells(argv, i)  BY <1>7 DEF ArgvCells
  <2>. DEFINE i == CHOOSE x \in Copied(argv) : a \in StringCells(argv, x)
              k == a - Cursor(argv)[i] + 1
  <2>2. i \in Copied(argv) /\ a \in StringCells(argv, i)  BY <2>1
  <2>3. ArgvWord(argv, a) = IF k <= Len(argv[i]) THEN argv[i][k] ELSE 0
    BY <1>7 DEF ArgvWord
  <2>. HIDE DEF i
  <2>4. i \in 1 .. Len(argv) /\ Cursor(argv)[i] \in Nat  BY <2>2, <1>5
  <2>5. argv[i] \in Seq(Address)  BY <1>1, <2>4
  <2>6. a \in Cursor(argv)[i] .. Cursor(argv)[i+1] - 1  BY <2>2 DEF StringCells
  <2>7. k \in Nat /\ k >= 1  BY <2>4, <2>6
  <2>. HIDE DEF k
  <2>8. k <= Len(argv[i]) => argv[i][k] \in Address  BY <2>5, <2>7
  <2>. QED BY <2>3, <2>8, MemSize
<1>. QED BY <1>6, <1>7

----------------------------------------------------------------------------
(* The tail of a memory. *)

Begun(G) == {m \in Seq(Nat) : Len(m) >= Len(G)}
NextCell(G, m) == IF Len(G) < 2 THEN 0 ELSE crazy(m[Len(m)], m[Len(m) - 1])
IsGrown(h, G) ==
    h = [n \in Nat |-> [m \in Begun(G) |->
            IF n = 0 THEN m
            ELSE IF n = 1 THEN Append(m, NextCell(G, m))
            ELSE h[n - n \div 2][h[n \div 2][m]]]]

(* The next cell of the tail is a word. *)
LEMMA NextCellIsWord ==
    ASSUME NEW G \in Seq(Nat), NEW m \in Begun(G)
    PROVE  /\ NextCell(G, m) \in Address
           /\ Append(m, NextCell(G, m)) \in Begun(G)
           /\ Len(Append(m, NextCell(G, m))) = Len(m) + 1
<1>1. m \in Seq(Nat) /\ Len(m) \in Nat /\ Len(G) \in Nat /\ Len(m) >= Len(G)  BY DEF Begun
<1>2. NextCell(G, m) \in Address
  <2>1. CASE Len(G) < 2  BY <2>1, MemSize DEF NextCell
  <2>2. CASE ~(Len(G) < 2)
    <3>1. Len(m) \in 1 .. Len(m) /\ Len(m) - 1 \in 1 .. Len(m)  BY <1>1, <2>2
    <3>2. m[Len(m)] \in Nat /\ m[Len(m) - 1] \in Nat  BY <1>1, <3>1
    <3>. QED BY <2>2, <3>2, CrazyIsWord DEF NextCell
  <2>. QED BY <2>1, <2>2
<1>3. NextCell(G, m) \in Nat  BY <1>2, MemSize
<1>. DEFINE w == NextCell(G, m)
<1>. HIDE DEF w
<1>4. w \in Nat => Append(m, w) \in Seq(Nat) /\ Len(Append(m, w)) = Len(m) + 1  BY <1>1
<1>. QED BY <1>1, <1>2, <1>3, <1>4 DEF w, Begun

(* The function that halves the number of missing cells has a solution:   *)
(* appending one cell, again and again.                                    *)
LEMMA GrownExists ==
    ASSUME NEW G \in Seq(Nat)
    PROVE  \E h : IsGrown(h, G)
<1>. DEFINE B == Begun(G)
            E == [m \in B |-> Append(m, NextCell(G, m))]
            O(m) == CHOOSE o : IsOrbit(o, B, E, m)
            H == [n \in Nat |-> [m \in B |-> O(m)[n]]]
<1>1. E \in [B -> B]  BY NextCellIsWord
<1>e. \A m \in B : E[m] = Append(m, NextCell(G, m))  OBVIOUS
<1>. HIDE DEF B, E
<1>2. ASSUME NEW m \in B
      PROVE  O(m) \in [Nat -> B] /\ O(m)[0] = m /\ \A n \in Nat : O(m)[n+1] = E[O(m)[n]]
  <2>1. \E o : IsOrbit(o, B, E, m)  BY <1>1, Iteration
  <2>2. IsOrbit(O(m), B, E, m)  BY <2>1
  <2>. QED BY <2>2 DEF IsOrbit
<1>. HIDE DEF O
<1>3. ASSUME NEW m \in B, NEW k \in Nat
      PROVE  \A j \in Nat : O(O(m)[k])[j] = O(m)[k+j]
  <2>. DEFINE p == O(m)[k]
              T == {j \in Nat : O(p)[j] = O(m)[k+j]}
  <2>1. p \in B  BY <1>2
  <2>2. 0 \in T
    <3>1. O(p)[0] = p  BY <2>1, <1>2
    <3>2. k + 0 = k  OBVIOUS
    <3>. QED BY <3>1, <3>2
  <2>. HIDE DEF p
  <2>3. ASSUME NEW j \in Nat, j \in T PROVE j + 1 \in T
    <3>1. O(p)[j+1] = E[O(p)[j]]  BY <2>1, <1>2
    <3>2. k + j \in Nat /\ k + (j + 1) = (k + j) + 1  OBVIOUS
    <3>3. O(m)[(k+j)+1] = E[O(m)[k+j]]  BY <3>2, <1>2
    <3>4. O(p)[j] = O(m)[k+j]  BY <2>3
    <3>5. O(p)[j+1] = O(m)[k+(j+1)]  BY <3>1, <3>2, <3>3, <3>4
    <3>. QED BY <3>5
  <2>. HIDE DEF T
  <2>4. Nat \subseteq T  BY <2>2, <2>3, SetInduction
  <2>. QED BY <2>4 DEF T, p
<1>4. ASSUME NEW n \in Nat, NEW m \in B
      PROVE  H[n][m] = IF n = 0 THEN m
                       ELSE IF n = 1 THEN Append(m, NextCell(G, m))
                       ELSE H[n - n \div 2][H[n \div 2][m]]
  <2>1. H[n][m] = O(m)[n]  OBVIOUS
  <2>2. CASE n = 0  BY <2>1, <2>2, <1>2
  <2>3. CASE n = 1
    <3>1. O(m)[0+1] = E[O(m)[0]] /\ O(m)[0] = m  BY <1>2
    <3>2. O(m)[1] = E[m]  BY <3>1
    <3>. QED BY <2>1, <2>3, <3>2, <1>e
  <2>4. CASE n # 0 /\ n # 1
    <3>. DEFINE k == n \div 2
    <3>1. k \in Nat /\ n - k \in Nat /\ k + (n - k) = n  OBVIOUS
    <3>. HIDE DEF k
    <3>2. O(m)[k] \in B  BY <3>1, <1>2
    <3>3. H[k][m] = O(m)[k]  BY <3>1
    <3>4. H[n - k][O(m)[k]] = O(O(m)[k])[n - k]  BY <3>1, <3>2
    <3>5. O(O(m)[k])[n - k] = O(m)[k + (n - k)]  BY <3>1, <1>3
    <3>6. H[n][m] = H[n - k][H[k][m]]  BY <2>1, <3>1, <3>3, <3>4, <3>5
    <3>. HIDE DEF H
    <3>. QED BY <2>4, <3>6 DEF k
  <2>. HIDE DEF H
  <2>. QED BY <2>2, <2>3, <2>4
<1>5. H = [n \in Nat |-> [m \in B |-> H[n][m]]]  OBVIOUS
<1>. HIDE DEF H
<1>6. ASSUME NEW n \in Nat
      PROVE  [m \in B |-> H[n][m]]
               = [m \in B |->
                    IF n = 0 THEN m
                    ELSE IF n = 1 THEN Append(m, NextCell(G, m))
                    ELSE H[n - n \div 2][H[n \div 2][m]]]
  BY <1>4
<1>8. H = [n \in Nat |-> [m \in B |->
              IF n = 0 THEN m
              ELSE IF n = 1 THEN Append(m, NextCell(G, m))
              ELSE H[n - n \div 2][H[n \div 2][m]]]]
  BY <1>5, <1>6
<1>7. IsGrown(H, G)  BY <1>8 DEF IsGrown, B
<1>. QED BY <1>7

(* What growing returns: a memory of words, n cells longer. *)
LEMMA GrownFacts ==
    ASSUME NEW G \in Seq(Nat), NEW g, IsGrown(g, G)
    PROVE  \A n \in Nat : \A m \in Begun(G) :
               m \in Seq(Address) =>
                   /\ g[n][m] \in Begun(G) /\ g[n][m] \in Seq(Address)
                   /\ Len(g[n][m]) = Len(m) + n
<1>. DEFINE Fine(n) == \A m \in Begun(G) :
               m \in Seq(Address) =>
                   /\ g[n][m] \in Begun(G) /\ g[n][m] \in Seq(Address)
                   /\ Len(g[n][m]) = Len(m) + n
            Bad == {n \in Nat : ~Fine(n)}
<1>1. \A n \in Nat : \A m \in Begun(G) :
          g[n][m] = IF n = 0 THEN m
                    ELSE IF n = 1 THEN Append(m, NextCell(G, m))
                    ELSE g[n - n \div 2][g[n \div 2][m]]
  <2>. DEFINE turn(n, m) == IF n = 0 THEN m
                            ELSE IF n = 1 THEN Append(m, NextCell(G, m))
                            ELSE g[n - n \div 2][g[n \div 2][m]]
  <2>1. g = [n \in Nat |-> [m \in Begun(G) |-> turn(n, m)]]  BY DEF IsGrown
  <2>. HIDE DEF turn
  <2>2. \A n \in Nat : g[n] = [m \in Begun(G) |-> turn(n, m)]  BY <2>1
  <2>3. \A n \in Nat : \A m \in Begun(G) : g[n][m] = turn(n, m)  BY <2>2
  <2>. QED BY <2>3 DEF turn
<1>2. ASSUME NEW n \in Nat, \A k \in Nat : k < n => Fine(k)
      PROVE  Fine(n)
  <2>. SUFFICES ASSUME NEW m \in Begun(G), m \in Seq(Address)
                PROVE  /\ g[n][m] \in Begun(G) /\ g[n][m] \in Seq(Address)
                       /\ Len(g[n][m]) = Len(m) + n
    OBVIOUS
  <2>1. Len(m) \in Nat  OBVIOUS
  <2>2. CASE n = 0
    <3>1. g[n][m] = m  BY <1>1, <2>2
    <3>. QED BY <2>1, <2>2, <3>1
  <2>3. CASE n = 1
    <3>1. g[n][m] = Append(m, NextCell(G, m))
      <4>1. n # 0  BY <2>3
      <4>. QED BY <1>1, <2>3, <4>1
    <3>. DEFINE w == NextCell(G, m)
    <3>2. w \in Address /\ Append(m, w) \in Begun(G) /\ Len(Append(m, w)) = Len(m) + 1
      BY NextCellIsWord
    <3>. HIDE DEF w
    <3>3. Append(m, w) \in Seq(Address)  BY <3>2
    <3>. QED BY <2>3, <3>1, <3>2, <3>3 DEF w
  <2>4. CASE n # 0 /\ n # 1
    <3>. DEFINE k == n \div 2
    <3>1. k \in Nat /\ n - k \in Nat /\ k < n /\ n - k < n /\ k + (n - k) = n  BY <2>4
    <3>2. g[n][m] = g[n - k][g[k][m]]  BY <1>1, <2>4
    <3>. HIDE DEF k
    <3>3. Fine(k) /\ Fine(n - k)  BY <1>2, <3>1
    <3>. DEFINE p == g[k][m]
    <3>4. p \in Begun(G) /\ p \in Seq(Address) /\ Len(p) = Len(m) + k  BY <3>3
    <3>5. g[n][m] = g[n - k][p]  BY <3>2
    <3>. HIDE DEF p
    <3>6. /\ g[n-k][p] \in Begun(G) /\ g[n-k][p] \in Seq(Address)
          /\ Len(g[n-k][p]) = Len(p) + (n - k)
      BY <3>3, <3>4
    <3>7. Len(p) + (n - k) = Len(m) + n  BY <2>1, <3>1, <3>4
    <3>. QED BY <3>5, <3>6, <3>7
  <2>. QED BY <2>2, <2>3, <2>4
<1>. HIDE DEF Fine
<1>3. Bad = {}
  <2>. SUFFICES ASSUME Bad # {} PROVE FALSE  OBVIOUS
  <2>1. PICK n \in Bad : \A k \in Bad : n <= k  BY LeastNatural
  <2>2. n \in Nat /\ \A k \in Nat : k < n => Fine(k)
    <3>1. \A k \in Nat : k < n => k \notin Bad  BY <2>1
    <3>. QED BY <2>1, <3>1
  <2>3. Fine(n)  BY <1>2, <2>2
  <2>. QED BY <2>1, <2>3
<1>. QED BY <1>3 DEF Fine

(* Every glyph of an accepted image is printable, so a word. *)
LEMMA AcceptedIsWords ==
    ASSUME NEW G \in Images, Accepted(G)
    PROVE  G \in Seq(Address) /\ Len(G) \in 1 .. MEM_SIZE
<1>1. G \in Seq(Nat) /\ Len(G) \in 1 .. MEM_SIZE  BY M8Assumption DEF Accepted
<1>2. ASSUME NEW k \in 1 .. Len(G) PROVE G[k] \in Address
  <2>1. k - 1 \in 0 .. Len(G) - 1 /\ (k - 1) + 1 = k  BY <1>1
  <2>2. is_valid_decoded_op(decode_op_cell(G[k], k - 1))  BY <2>1 DEF Accepted
  <2>3. G[k] \in Printable
    BY <2>2 DEF is_valid_decoded_op, decode_op_cell, None, ClassicOps, ExtensionOps
  <2>. QED BY <2>3, M8Assumption
<1>3. G \in [1 .. Len(G) -> Address]  BY <1>1, <1>2
<1>. QED BY <1>1, <1>3

(* fill_tail_classic leaves a memory of words. *)
LEMMA LoadedIsWords ==
    ASSUME NEW G \in Images, Accepted(G)
    PROVE  Loaded(G) \in [Address -> Address]
<1>1. G \in Seq(Address) /\ Len(G) \in 1 .. MEM_SIZE  BY AcceptedIsWords
<1>2. G \in Seq(Nat)  BY M8Assumption
<1>. DEFINE g == CHOOSE h : IsGrown(h, G)
            n == MEM_SIZE - Len(G)
            cells == g[n][G]
<1>3. fill_tail_classic(G) = cells  BY DEF fill_tail_classic, IsGrown, Begun, NextCell
<1>4. IsGrown(g, G)  BY <1>2, GrownExists
<1>. HIDE DEF g
<1>5. n \in Nat /\ Len(G) + n = MEM_SIZE  BY <1>1, MemSize
<1>. HIDE DEF n
<1>6. G \in Begun(G)  BY <1>1, <1>2 DEF Begun
<1>7. cells \in Seq(Address) /\ Len(cells) = MEM_SIZE
  BY <1>1, <1>2, <1>4, <1>5, <1>6, GrownFacts
<1>. HIDE DEF cells
<1>8. ASSUME NEW a \in Address PROVE cells[a+1] \in Address
  <2>1. a + 1 \in 1 .. Len(cells)  BY <1>7, MemSize DEF Address
  <2>. QED BY <1>7, <2>1
<1>. QED BY <1>3, <1>8 DEF Loaded

(* A word is a number. *)
LEMMA WordsAreNumbers == \A x \in Address : x \in Nat /\ x \in Int
BY MemSize

(* What the trap bridge delivers to a buffer are words. *)
LEMMA FilledIsWords ==
    ASSUME mem \in [Address -> Address], NEW ptr \in Address, NEW s \in Seq(Address)
    PROVE  Filled(ptr, s) \in [Address -> Address]
<1>1. ASSUME NEW a \in Address, a \in Span(ptr, s)
      PROVE  s[((a - ptr) % MEM_SIZE) + 1] \in Address
  <2>1. (a - ptr) % MEM_SIZE \in Address  BY MemSize, ModIsWord
  <2>2. (a - ptr) % MEM_SIZE < Len(s)  BY <1>1 DEF Span
  <2>3. ((a - ptr) % MEM_SIZE) + 1 \in 1 .. Len(s)  BY <2>1, <2>2, MemSize
  <2>. QED BY <2>3
<1>. QED BY <1>1 DEF Filled

(* The words an operation reads. *)
LEMMA ReadsWords ==
    ASSUME TypeOK
    PROVE  /\ \A a \in Address : mem[a] \in Address
           /\ \A k \in Nat : frame_word_at(k) \in Address
           /\ FrameAddress \in Address
           /\ \A k \in Nat : TrapArg(k) \in Address
           /\ \A n \in Nat : After(n) \in Int
<1>1. \A a \in Address : mem[a] \in Address  BY DEF TypeOK
<1>2. C \in Int /\ A \in Address /\ ENC_WORD_CELLS \in Int  BY MemSize, M8Assumption DEF TypeOK
<1>3. \A k \in Nat : C + 1 + k * frame_span \in Int  BY <1>2 DEF frame_span
<1>4. \A k \in Nat : frame_word_at(k) \in Address  BY <1>1, <1>3, FrameWordIsWord DEF frame_word_at
<1>5. FrameAddress \in Address
  <2>. DEFINE w == frame_word_at(0)
  <2>1. w \in Address  BY <1>4
  <2>2. FrameAddress = w % MEM_SIZE  BY DEF FrameAddress
  <2>. HIDE DEF w
  <2>3. w \in Int  BY <2>1, MemSize
  <2>. QED BY <2>2, <2>3, ModIsWord
<1>6. \A k \in Nat : TrapArg(k) \in Address
  <2>. TAKE k \in Nat
  <2>1. frame_word_at(k + 1) \in Address  BY <1>4
  <2>. QED BY <1>2, <2>1 DEF TrapArg
<1>. QED BY <1>1, <1>3, <1>4, <1>5, <1>6 DEF After

(* What a step does to memory and lineage after the operation itself. *)
CipheredOK ==
    /\ mem' \in [Address -> Address]
    /\ ext_expected_cell' \in [Address -> {0} \cup Printable]
    /\ \A a \in Address : ext_seed_op'[a] \in ExtensionOps \cup {None}
    /\ running' \in BOOLEAN /\ steps' \in 0 .. max_steps

LEMMA CipherTypes ==
    ASSUME TypeOK, Stepping, mem[C] \in Printable,
           NEW m \in [Address -> Address], NEW written, SelfCipher(m, written)
    PROVE  CipheredOK
<1>. DEFINE ciphered == XLAT2[mem[C] - Low]
<1>1. ciphered \in Printable /\ ciphered \in Address
  <2>1. mem[C] - Low \in 0 .. Glyphs - 1  BY M8Assumption DEF Printable
  <2>. QED BY <2>1, M8Assumption
<1>2. /\ mem' = [m EXCEPT ![C] = ciphered]
      /\ ext_expected_cell' = IF OnLineage(C) THEN [ext_expected_cell EXCEPT ![C] = ciphered]
                              ELSE ext_expected_cell
      /\ steps' = steps + 1 /\ ext_seed_op' = ext_seed_op /\ running' = running
  BY DEF SelfCipher, Expect, lineage
<1>. HIDE DEF ciphered
<1>3. C \in Address /\ ext_expected_cell \in [Address -> {0} \cup Printable]  BY DEF TypeOK
<1>4. mem' \in [Address -> Address]  BY <1>1, <1>2, <1>3
<1>5. ext_expected_cell' \in [Address -> {0} \cup Printable]  BY <1>1, <1>2, <1>3
<1>6. steps' \in 0 .. max_steps  BY <1>2, M8Assumption DEF Stepping, TypeOK
<1>. QED BY <1>2, <1>4, <1>5, <1>6 DEF CipheredOK, TypeOK

(* C and D stay addresses. *)
LEMMA GotoTypes ==
    ASSUME NEW c \in Int, NEW d \in Int, Goto(c, d)
    PROVE  C' \in Address /\ D' \in Address
BY ModIsWord DEF Goto

(* The parts of the machine a step may leave alone. *)
LEMMA TypesOf ==
    ASSUME CipheredOK, A' \in Address, C' \in Address, D' \in Address,
           last_error' \in BOOLEAN, halted' \in BOOLEAN, exit_code' \in 0 .. 255
    PROVE  TypeOK'
BY DEF CipheredOK, TypeOK

(* The operations of classic Malbolge keep the types. *)
LEMMA ClassicTypes ==
    ASSUME TypeOK, Classic
    PROVE  TypeOK'
<1>1. /\ mem \in [Address -> Address] /\ A \in Address /\ C \in Address /\ D \in Address
      /\ last_error \in BOOLEAN /\ halted \in BOOLEAN /\ exit_code \in 0 .. 255
      /\ C \in Int /\ D \in Int
  BY MemSize DEF TypeOK
<1>2. mem[D] \in Address /\ mem[D] \in Nat /\ mem[D] % MEM_SIZE \in Int /\ C + 1 \in Int
  <2>1. mem[D] \in Address  BY <1>1
  <2>2. mem[D] \in Nat /\ mem[D] \in Int  BY <2>1, WordsAreNumbers
  <2>3. mem[D] % MEM_SIZE \in Address  BY <2>2, ModIsWord
  <2>4. mem[D] % MEM_SIZE \in Int  BY <2>3, WordsAreNumbers
  <2>. QED BY <1>1, <2>1, <2>2, <2>4
<1>3. ASSUME SelfCipher(mem, {}), Stepping, mem[C] \in Printable PROVE CipheredOK
  BY <1>1, <1>3, CipherTypes
<1>4. CASE MovD
  <2>1. /\ SelfCipher(mem, {}) /\ Stepping /\ mem[C] \in Printable
        /\ Goto(C + 1, mem[D] % MEM_SIZE) /\ UNCHANGED <<A, last_error, halted, exit_code>>
    BY <1>4 DEF MovD, Executes
  <2>2. C' \in Address /\ D' \in Address  BY <2>1, <1>2, GotoTypes
  <2>. QED BY <1>1, <1>3, <2>1, <2>2, TypesOf
<1>5. CASE MovC
  <2>1. /\ SelfCipher(mem, {}) /\ Stepping /\ mem[C] \in Printable
        /\ Goto((mem[D] % MEM_SIZE) + 1, D) /\ UNCHANGED <<A, last_error, halted, exit_code>>
    BY <1>5 DEF MovC, Executes
  <2>2. (mem[D] % MEM_SIZE) + 1 \in Int  BY <1>2
  <2>3. C' \in Address /\ D' \in Address  BY <2>1, <2>2, <1>1, GotoTypes
  <2>. QED BY <1>1, <1>3, <2>1, <2>3, TypesOf
<1>6. ASSUME NEW op, NEW w \in Address, WriteD(op, w) PROVE TypeOK'
  <2>1. /\ SelfCipher([mem EXCEPT ![D] = w], {D}) /\ Stepping /\ mem[C] \in Printable
        /\ A' = w /\ Goto(C + 1, D) /\ UNCHANGED <<last_error, halted, exit_code>>
    BY <1>6 DEF WriteD, Executes
  <2>2. [mem EXCEPT ![D] = w] \in [Address -> Address]  BY <1>1
  <2>3. CipheredOK  BY <2>1, <2>2, CipherTypes
  <2>4. C' \in Address /\ D' \in Address  BY <2>1, <1>1, <1>2, GotoTypes
  <2>. QED BY <1>1, <2>1, <2>3, <2>4, TypesOf
<1>7. CASE Rotate
  <2>1. rotate_right_trit(mem[D]) \in Address  BY <1>2, RotateIsWord
  <2>. QED BY <1>6, <1>7, <2>1 DEF Rotate
<1>8. CASE Crazy
  <2>1. A \in Nat  BY <1>1, MemSize
  <2>2. crazy(A, mem[D]) \in Address  BY <1>2, <2>1, CrazyIsWord
  <2>. QED BY <1>6, <1>8, <2>2 DEF Crazy
<1>9. CASE InChar
  <2>1. /\ SelfCipher(mem, {}) /\ Stepping /\ mem[C] \in Printable
        /\ A' \in Bytes \cup {WORD_MOD - 1}
        /\ Goto(C + 1, D) /\ UNCHANGED <<last_error, halted, exit_code>>
    BY <1>9 DEF InChar, Executes
  <2>2. A' \in Address  BY <2>1, MemSize, M8Assumption DEF WORD_MOD
  <2>3. C' \in Address /\ D' \in Address  BY <2>1, <1>1, <1>2, GotoTypes
  <2>. QED BY <1>1, <1>3, <2>1, <2>2, <2>3, TypesOf
<1>10. CASE OutCharOrNop
  <2>1. /\ SelfCipher(mem, {}) /\ Stepping /\ mem[C] \in Printable
        /\ Goto(C + 1, D) /\ UNCHANGED <<A, last_error, halted, exit_code>>
    BY <1>10 DEF OutCharOrNop
  <2>2. C' \in Address /\ D' \in Address  BY <2>1, <1>1, <1>2, GotoTypes
  <2>. QED BY <1>1, <1>3, <2>1, <2>2, TypesOf
<1>11. CASE Halt
  <2>1. /\ SelfCipher(mem, {}) /\ Stepping /\ mem[C] \in Printable
        /\ halted' = TRUE /\ UNCHANGED <<A, C, D, last_error, exit_code>>
    BY <1>11 DEF Halt, Executes
  <2>. QED BY <1>1, <1>3, <2>1, TypesOf
<1>12. CASE NotCode
  <2>1. /\ Stepping /\ halted' = TRUE /\ exit_code' = 127 /\ steps' = steps + 1
        /\ UNCHANGED <<mem, A, C, D, last_error, ext_expected_cell, ext_seed_op, running>>
    BY <1>12 DEF NotCode, lineage
  <2>2. steps' \in 0 .. max_steps  BY <2>1, M8Assumption DEF Stepping, TypeOK
  <2>. QED BY <2>1, <2>2 DEF TypeOK
<1>. QED BY <1>4, <1>5, <1>7, <1>8, <1>9, <1>10, <1>11, <1>12 DEF Classic

(* So do the extension operations without a trap. *)
LEMMA ExtensionTypes ==
    ASSUME TypeOK, Extension
    PROVE  TypeOK'
<1>1. /\ mem \in [Address -> Address] /\ A \in Address /\ C \in Address /\ D \in Address
      /\ last_error \in BOOLEAN /\ halted \in BOOLEAN /\ exit_code \in 0 .. 255
      /\ A \in Int /\ D \in Int
  BY MemSize DEF TypeOK
<1>2. /\ FrameAddress \in Address /\ mem[FrameAddress] \in Address
      /\ mem[FrameAddress] \in Int /\ FrameAddress \in Int
      /\ frame_word_at(0) \in Int /\ After(1) \in Int /\ After(2) \in Int
  <2>1. FrameAddress \in Address /\ frame_word_at(0) \in Address
        /\ After(1) \in Int /\ After(2) \in Int
    BY ReadsWords
  <2>2. mem[FrameAddress] \in Address  BY <1>1, <2>1
  <2>. QED BY <2>1, <2>2, WordsAreNumbers
<1>3. mem[FrameAddress] % MEM_SIZE \in Address  BY <1>2, ModIsWord
<1>4. ASSUME NEW op, NEW a \in Address, SetsA(op, a) PROVE TypeOK'
  <2>1. /\ SelfCipher(mem, {}) /\ Stepping /\ mem[C] \in Printable
        /\ A' = a /\ Goto(After(1), D) /\ UNCHANGED <<last_error, halted, exit_code>>
    BY <1>4 DEF SetsA, Executes
  <2>2. CipheredOK  BY <2>1, <1>1, CipherTypes
  <2>3. C' \in Address /\ D' \in Address  BY <2>1, <1>1, <1>2, GotoTypes
  <2>. QED BY <1>1, <2>1, <2>2, <2>3, TypesOf
<1>5. ASSUME NEW op, NEW target \in Address, Stores(op, target) PROVE TypeOK'
  <2>1. /\ SelfCipher([mem EXCEPT ![target] = mod_word(A)], {target})
        /\ Stepping /\ mem[C] \in Printable
        /\ Goto(After(1), D) /\ UNCHANGED <<A, last_error, halted, exit_code>>
    BY <1>5 DEF Stores, Executes
  <2>2. mod_word(A) \in Address  BY <1>1, ModIsWord
  <2>3. [mem EXCEPT ![target] = mod_word(A)] \in [Address -> Address]  BY <1>1, <2>2
  <2>4. CipheredOK  BY <2>1, <2>3, CipherTypes
  <2>5. C' \in Address /\ D' \in Address  BY <2>1, <1>1, <1>2, GotoTypes
  <2>. QED BY <1>1, <2>1, <2>4, <2>5, TypesOf
<1>6. ASSUME NEW op, NEW c \in Int, Jumps(op, c) PROVE TypeOK'
  <2>1. /\ SelfCipher(mem, {}) /\ Stepping /\ mem[C] \in Printable
        /\ Goto(c, D) /\ UNCHANGED <<A, last_error, halted, exit_code>>
    BY <1>6 DEF Jumps, Executes
  <2>2. CipheredOK  BY <2>1, <1>1, CipherTypes
  <2>3. C' \in Address /\ D' \in Address  BY <2>1, <1>1, GotoTypes
  <2>. QED BY <1>1, <2>1, <2>2, <2>3, TypesOf
<1>7. CASE LoadA \/ CmpM \/ LoadI
  <2>1. (IF A = mem[FrameAddress] THEN 0 ELSE 1) \in Address \/ MEM_SIZE = 1
    BY MemSize DEF Address
  <2>2. mem[mem[FrameAddress] % MEM_SIZE] \in Address  BY <1>1, <1>3
  <2>3. MEM_SIZE # 1
    <3>1. Trits - 1 \in 0 .. Trits  BY M8Assumption
    <3>2. place_of_trit[Trits - 1] \in Nat \ {0}  BY <3>1, TritPlaces
    <3>. QED BY <3>2, MemSize
  <2>. QED BY <1>2, <1>4, <1>7, <2>1, <2>2, <2>3 DEF LoadA, CmpM, LoadI
<1>8. CASE SetA \/ AddI \/ SubI \/ AddM \/ SubM
  <2>1. /\ frame_word_at(0) \in Int /\ A + frame_word_at(0) \in Int /\ A - frame_word_at(0) \in Int
        /\ A + mem[FrameAddress] \in Int /\ A - mem[FrameAddress] \in Int
    BY <1>1, <1>2
  <2>2. /\ mod_word(frame_word_at(0)) \in Address
        /\ mod_word(A + frame_word_at(0)) \in Address /\ mod_word(A - frame_word_at(0)) \in Address
        /\ mod_word(A + mem[FrameAddress]) \in Address
        /\ mod_word(A - mem[FrameAddress]) \in Address
    BY <2>1, ModIsWord
  <2>. QED BY <1>4, <1>8, <2>2 DEF SetA, AddI, SubI, AddM, SubM
<1>9. CASE StoreA \/ StoreI
  BY <1>2, <1>3, <1>5, <1>9 DEF StoreA, StoreI
<1>10. CASE Jump \/ JumpM \/ Branch
  <2>1. mem[FrameAddress] % MEM_SIZE \in Int  BY <1>3, WordsAreNumbers
  <2>2. (IF Taken(frame_word_at(1)) THEN FrameAddress ELSE After(2)) \in Int  BY <1>2
  <2>. QED BY <1>2, <1>6, <1>10, <2>1, <2>2 DEF Jump, JumpM, Branch
<1>. QED BY <1>7, <1>8, <1>9, <1>10 DEF Extension

(* And the trap bridge, for every answer of the kernel. *)
LEMMA TrapTypes ==
    ASSUME TypeOK, Trap
    PROVE  TypeOK'
<1>1. /\ mem \in [Address -> Address] /\ A \in Address /\ C \in Address /\ D \in Address
      /\ last_error \in BOOLEAN /\ halted \in BOOLEAN /\ exit_code \in 0 .. 255 /\ D \in Int
  BY MemSize DEF TypeOK
<1>2. /\ TrapArg(0) \in Address /\ TrapArg(1) \in Address /\ TrapArg(2) \in Address
      /\ TrapArg(0) \in Int /\ After(FRAME_WORDS) \in Int
  <2>1. /\ TrapArg(0) \in Address /\ TrapArg(1) \in Address /\ TrapArg(2) \in Address
        /\ After(FRAME_WORDS) \in Int
    BY ReadsWords DEF FRAME_WORDS
  <2>. QED BY <2>1, WordsAreNumbers
<1>3. ASSUME NEW m \in [Address -> Address], NEW written, NEW r \in Int, Executes("@"),
             TrapReturns(m, written, r)
      PROVE  TypeOK'
  <2>1. /\ SelfCipher(m, written) /\ Stepping /\ mem[C] \in Printable
        /\ last_error' = (r < 0) /\ A' = mod_word(r)
        /\ Goto(After(FRAME_WORDS), D) /\ UNCHANGED <<halted, exit_code>>
    BY <1>3 DEF TrapReturns, Traps, Executes
  <2>2. CipheredOK  BY <2>1, CipherTypes
  <2>3. C' \in Address /\ D' \in Address  BY <2>1, <1>1, <1>2, GotoTypes
  <2>4. A' \in Address /\ last_error' \in BOOLEAN  BY <2>1, ModIsWord
  <2>. QED BY <1>1, <2>1, <2>2, <2>3, <2>4, TypesOf
<1>4. ASSUME NEW ptr \in Address, NEW s \in Seq(Address), NEW r \in Int, Executes("@"),
             Delivers(ptr, s, r)
      PROVE  TypeOK'
  <2>1. Filled(ptr, s) \in [Address -> Address]  BY <1>1, FilledIsWords
  <2>. QED BY <1>3, <1>4, <2>1 DEF Delivers
<1>5. CASE TrapPlain \/ TrapFails
  BY <1>1, <1>3, <1>5, M8Assumption DEF TrapPlain, TrapFails, Trapped
<1>6. CASE TrapUnsupported
  <2>1. -38 \in Int  OBVIOUS
  <2>. QED BY <1>1, <1>3, <1>6, <2>1 DEF TrapUnsupported, Trapped
<1>7. CASE TrapRead
  <2>0. PICK n \in 1 .. MaxFill :
            \E s \in [1 .. n -> Bytes] : Executes("@") /\ Delivers(TrapArg(1), s, n)
    BY <1>7 DEF TrapRead, Trapped
  <2>1. PICK s \in [1 .. n -> Bytes] : Executes("@") /\ Delivers(TrapArg(1), s, n)
    BY <2>0
  <2>2. n \in Nat /\ n \in Int  BY M8Assumption
  <2>3. s \in [1 .. n -> Address]  BY M8Assumption
  <2>4. s \in Seq(Address)  BY <2>2, <2>3
  <2>. QED BY <1>2, <1>4, <2>1, <2>2, <2>4
<1>8. CASE TrapGetcwd
  <2>0. PICK n \in 1 .. MaxFill :
            \E s \in [1 .. n -> Bytes \ {0}] :
                Executes("@") /\ Delivers(TrapArg(0), Append(s, 0), n)
    BY <1>8 DEF TrapGetcwd, Trapped
  <2>1. PICK s \in [1 .. n -> Bytes \ {0}] : Executes("@") /\ Delivers(TrapArg(0), Append(s, 0), n)
    BY <2>0
  <2>2. n \in Nat /\ n \in Int  BY M8Assumption
  <2>3. s \in [1 .. n -> Address]  BY M8Assumption
  <2>4. s \in Seq(Address)  BY <2>2, <2>3
  <2>5. Append(s, 0) \in Seq(Address)  BY <2>4, MemSize
  <2>. QED BY <1>2, <1>4, <2>1, <2>2, <2>5
<1>9. CASE TrapWait4
  <2>1. PICK r \in Results, status \in Bytes :
            Executes("@") /\ Delivers(TrapArg(1), IF TrapArg(1) = 0 THEN <<>> ELSE <<status>>, r)
    BY <1>9 DEF TrapWait4, Trapped
  <2>2. status \in Address /\ r \in Int  BY M8Assumption
  <2>3. <<>> \in Seq(Address) /\ <<status>> \in Seq(Address)  BY <2>2
  <2>. DEFINE s == IF TrapArg(1) = 0 THEN <<>> ELSE <<status>>
  <2>4. s \in Seq(Address)  BY <2>3
  <2>. HIDE DEF s
  <2>5. Executes("@") /\ Delivers(TrapArg(1), s, r)  BY <2>1 DEF s
  <2>. QED BY <1>2, <1>4, <2>2, <2>4, <2>5
<1>10. CASE TrapExit
  <2>1. /\ SelfCipher(mem, {}) /\ Stepping /\ mem[C] \in Printable
        /\ last_error' = (TrapArg(0) < 0) /\ A' = mod_word(TrapArg(0))
        /\ halted' = TRUE /\ exit_code' = TrapArg(0) % 256 /\ UNCHANGED <<C, D>>
    BY <1>10 DEF TrapExit, Traps, Trapped, Executes
  <2>2. CipheredOK  BY <2>1, <1>1, CipherTypes
  <2>3. A' \in Address  BY <2>1, <1>2, ModIsWord
  <2>4. exit_code' \in 0 .. 255
    <3>1. \A x \in Int : x % 256 \in 0 .. 255  OBVIOUS
    <3>. QED BY <3>1, <2>1, <1>2
  <2>. QED BY <1>1, <2>1, <2>2, <2>3, <2>4, TypesOf
<1>11. CASE TrapReplaced
  <2>1. /\ Stepping /\ halted' = TRUE /\ steps' = steps + 1
        /\ UNCHANGED <<mem, A, C, D, last_error, exit_code, ext_expected_cell,
                       ext_seed_op, running>>
    BY <1>11 DEF TrapReplaced, Trapped, Executes, lineage
  <2>2. steps' \in 0 .. max_steps  BY <2>1, M8Assumption DEF Stepping, TypeOK
  <2>. QED BY <2>1, <2>2 DEF TypeOK
<1>. QED BY <1>5, <1>6, <1>7, <1>8, <1>9, <1>10, <1>11 DEF Trap

(* The loader leaves words. *)
LEMMA InitTypes == Init => TypeOK
<1>. SUFFICES ASSUME NEW G \in Images, Accepted(G), InitWith(G) PROVE TypeOK
  BY DEF Init
<1>1. Loaded(G) \in [Address -> Address]  BY LoadedIsWords
<1>2. /\ mem \in [Address -> Address]
      /\ ext_expected_cell = [a \in Address |-> 0] /\ ext_seed_op = [a \in Address |-> None]
      /\ A = 0 /\ C = 0 /\ D = 0 /\ steps = 0 /\ exit_code = 0
      /\ last_error = FALSE /\ halted = FALSE /\ running = FALSE
  BY <1>1 DEF InitWith
<1>3. ext_expected_cell \in [Address -> {0} \cup Printable]  BY <1>2
<1>4. steps \in 0 .. max_steps  BY <1>2, M8Assumption
<1>5. A \in Address /\ C \in Address /\ D \in Address
  BY <1>2, MemSize
<1>8. exit_code \in 0 .. 255
  BY <1>2
<1>9. last_error \in BOOLEAN /\ halted \in BOOLEAN /\ running \in BOOLEAN
  BY <1>2
<1>6. \A a \in Address : ext_seed_op[a] \in ExtensionOps \cup {None}  BY <1>2
<1>7. mem \in [Address -> Address]  BY <1>2
<1>. QED BY <1>3, <1>4, <1>5, <1>6, <1>7, <1>8, <1>9 DEF TypeOK

(* One turn of prepare_extension_lineage. *)
LEMMA WalkTypes ==
    ASSUME TypeOK, LineageInv, Walk
    PROVE  TypeOK'
<1>. DEFINE op == decode_op_cell(mem[pc], pc)
<1>1. UNCHANGED <<mem, A, C, D, last_error, halted, exit_code, steps, running>>
  BY DEF Walk, machine
<1>2. pc \in Address
  BY MemSize DEF Walk, LineageInv, WalkInv, Address
<1>3. IF op \in ExtensionOps
      THEN /\ ext_seed_op' = [ext_seed_op EXCEPT ![pc] = op]
           /\ ext_expected_cell' = [ext_expected_cell EXCEPT ![pc] = mem[pc]]
      ELSE UNCHANGED <<ext_seed_op, ext_expected_cell>>
  BY DEF Walk
<1>4. op \in ExtensionOps => mem[pc] \in Printable  BY ExtensionIsPrintable
<1>. HIDE DEF op
<1>5. ext_expected_cell' \in [Address -> {0} \cup Printable]
  BY <1>2, <1>3, <1>4 DEF TypeOK
<1>6. \A a \in Address : ext_seed_op'[a] \in ExtensionOps \cup {None}
  <2>1. DOMAIN ext_seed_op = Address  BY DEF LineageInv, TablesInv
  <2>. QED BY <2>1, <1>2, <1>3 DEF TypeOK
<1>. QED BY <1>1, <1>5, <1>6 DEF TypeOK

(* The argv block is written over words with words. *)
LEMMA InstallTypes ==
    ASSUME TypeOK, InstallArgv
    PROVE  TypeOK'
<1>1. PICK argv \in Argvs :
          mem' = [a \in Address |->
                     IF a \in ArgvCells(argv) THEN ArgvWord(argv, a) ELSE mem[a]]
  BY DEF InstallArgv
<1>2. \A a \in Address : a \in ArgvCells(argv) => ArgvWord(argv, a) \in Address
  BY ArgvWordIsWord
<1>3. mem' \in [Address -> Address]  BY <1>1, <1>2 DEF TypeOK
<1>4. /\ running' = TRUE
      /\ UNCHANGED <<ext_expected_cell, A, C, D, last_error, halted, exit_code, steps,
                     ext_seed_op>>
  BY DEF InstallArgv, machine
<1>. QED BY <1>3, <1>4 DEF TypeOK

(* The registers and cells of the machine stay words, for every number of  *)
(* trits, every glyph table and cipher, every image, argv and answer of    *)
(* the kernel: TypeOK, that is, nothing mod_word, crazy, rotate_right_trit,*)
(* fill_tail_classic, vm_install_argv or m8_trap leaves can index mem      *)
(* outside its bounds.                                                     *)
THEOREM M8TypeOK == Spec => []TypeOK
<1>. DEFINE IInv == TypeOK /\ LineageInv
<1>1. Init => IInv
  BY InitTypes, InitLineage
<1>2. IInv /\ [Next]_vars => IInv'
  <2>. SUFFICES ASSUME TypeOK, LineageInv, [Next]_vars PROVE TypeOK'
    BY NextKeeps
  <2>1. CASE Walk  BY <2>1, WalkTypes
  <2>2. CASE InstallArgv  BY <2>2, InstallTypes
  <2>3. CASE Classic  BY <2>3, ClassicTypes
  <2>4. CASE Extension  BY <2>4, ExtensionTypes
  <2>5. CASE Trap  BY <2>5, TrapTypes
  <2>6. CASE Stopped \/ UNCHANGED vars
    BY <2>6 DEF Stopped, vars, machine, lineage, TypeOK
  <2>. QED BY <2>1, <2>2, <2>3, <2>4, <2>5, <2>6 DEF Next
<1>. QED BY <1>1, <1>2, PTL DEF Spec

----------------------------------------------------------------------------
(* The planner's machine.  m8crazy.py has a crazy operation and a rotation *)
(* of its own, which a plan is only as good as.                            *)

Planner == INSTANCE CrazyWords

(* The sums of the planner's from_trits. *)
IsPlannerSum(h, a, d) ==
    h = [n \in 0 .. Trits |->
            IF n = 0 THEN 0
            ELSE h[n-1] + [k \in Planner!Position |->
                              Planner!Cross(Planner!to_trits(d)[k], Planner!to_trits(a)[k])][n-1]
                          * Planner!place_of_trit[n-1]]

LEMMA PlannerPlaces ==
    /\ Planner!place_of_trit = place_of_trit /\ Planner!WORD_MOD = MEM_SIZE
    /\ \A x \in Address : Planner!mod_word(x) = x
<1>1. Planner!place_of_trit = place_of_trit  BY DEF Planner!place_of_trit, place_of_trit
<1>2. Planner!WORD_MOD = MEM_SIZE  BY <1>1 DEF Planner!WORD_MOD, MEM_SIZE
<1>3. \A x \in Address : x % MEM_SIZE = x  BY MemSizeIsNat, Small DEF Address
<1>. QED BY <1>1, <1>2, <1>3 DEF Planner!mod_word

(* On words they are the machine's. *)
LEMMA PlannerSums ==
    ASSUME NEW a \in Address, NEW d \in Address, NEW h
    PROVE  IsPlannerSum(h, a, d) <=> IsCrazySum(h, a, d)
<1>1. Trits \in Nat  BY M8Assumption
<1>2. ASSUME NEW n \in 0 .. Trits - 1
      PROVE  [k \in Planner!Position |->
                 Planner!Cross(Planner!to_trits(d)[k], Planner!to_trits(a)[k])][n]
             * Planner!place_of_trit[n] = CrazyTrit(a, d, n)
  <2>1. n \in Planner!Position  BY <1>2 DEF Planner!Position
  <2>2. Planner!to_trits(d)[n] = Trit(d, n) /\ Planner!to_trits(a)[n] = Trit(a, n)
    BY <2>1, PlannerPlaces DEF Planner!to_trits, Trit
  <2>3. Planner!Cross(Trit(d, n), Trit(a, n)) = CrazyTable[Trit(d, n) + 1][Trit(a, n) + 1]
    BY DEF Planner!Cross, Planner!CRAZY_TABLE, CrazyTable
  <2>. QED BY <2>1, <2>2, <2>3, PlannerPlaces DEF CrazyTrit
<1>3. ASSUME NEW n \in 0 .. Trits
      PROVE  (IF n = 0 THEN 0
              ELSE h[n-1] + [k \in Planner!Position |->
                                Planner!Cross(Planner!to_trits(d)[k], Planner!to_trits(a)[k])][n-1]
                            * Planner!place_of_trit[n-1])
             = IF n = 0 THEN 0 ELSE h[n-1] + CrazyTrit(a, d, n - 1)
  <2>1. CASE n = 0  BY <2>1
  <2>2. CASE n # 0
    <3>1. n - 1 \in 0 .. Trits - 1  BY <1>1, <2>2
    <3>. QED BY <1>2, <2>2, <3>1
  <2>. QED BY <2>1, <2>2
<1>. DEFINE F == [n \in 0 .. Trits |->
                     IF n = 0 THEN 0
                     ELSE h[n-1] + [k \in Planner!Position |->
                                       Planner!Cross(Planner!to_trits(d)[k], Planner!to_trits(a)[k])][n-1]
                                   * Planner!place_of_trit[n-1]]
            G == [n \in 0 .. Trits |-> IF n = 0 THEN 0 ELSE h[n-1] + CrazyTrit(a, d, n - 1)]
<1>4. F = G  BY <1>3
<1>5. (IsPlannerSum(h, a, d) <=> h = F) /\ (IsCrazySum(h, a, d) <=> h = G)
  BY DEF IsPlannerSum, IsCrazySum
<1>. HIDE DEF F, G
<1>. QED BY <1>4, <1>5

(* The planner's crazy and rotate_right are the machine's crazy and        *)
(* rotate_right_trit on every two words of any width, so that a plan that  *)
(* replays in m8crazy.py replays in m8.c.                                  *)
THEOREM PlannerComputesAsTheMachine ==
    ASSUME NEW a \in Address, NEW d \in Address
    PROVE  Planner!crazy(a, d) = crazy(a, d) /\ Planner!rotate_right(a) = rotate_right_trit(a)
<1>1. a \in Nat /\ d \in Nat  BY DEF Address
<1>2. Planner!rotate_right(a) = rotate_right_trit(a)
  BY PlannerPlaces DEF Planner!rotate_right, rotate_right_trit
<1>. DEFINE mine == CHOOSE h : IsCrazySum(h, a, d)
            its == CHOOSE h : IsPlannerSum(h, a, d)
<1>3. crazy(a, d) = mine[Trits]  BY DEF crazy, IsCrazySum, CrazyTrit
<1>4. Planner!crazy(a, d) = Planner!mod_word(its[Trits])
  BY DEF Planner!crazy, Planner!from_trits, IsPlannerSum
<1>5. \E h : IsCrazySum(h, a, d)  BY <1>1, CrazySums
<1>6. IsCrazySum(mine, a, d) /\ IsCrazySum(its, a, d)
  <2>1. \E h : IsPlannerSum(h, a, d)  BY <1>5, PlannerSums
  <2>2. IsPlannerSum(its, a, d)  BY <2>1
  <2>3. IsCrazySum(mine, a, d)  BY <1>5
  <2>. QED BY <2>2, <2>3, PlannerSums
<1>. HIDE DEF mine, its
<1>7. mine[Trits] = its[Trits]  BY <1>1, <1>6, CrazySumsAgree
<1>8. Planner!mod_word(crazy(a, d)) = crazy(a, d)
  <2>1. crazy(a, d) \in Address  BY <1>1, CrazyIsWord
  <2>. QED BY <2>1, PlannerPlaces
<1>. QED BY <1>2, <1>3, <1>4, <1>7, <1>8
=============================================================================
