------------------------------- MODULE M8Asm -------------------------------
(***************************************************************************)
(* tools/m8asm.py as a calculation, from the lines of a scroll to the      *)
(* glyphs of its image, with the crazyinc macros of M8Crazy.               *)
(*                                                                         *)
(* A line has its labels, a mnemonic ("" for none) and arguments.  An      *)
(* argument that eval_expr takes is an expression: a number and a          *)
(* sequence of signed names; ascii and cstring take a sequence of bytes,   *)
(* op a character, zero and the macros numbers.  Spelling (comments,       *)
(* quoting, the dot before a directive) is left out.  A SystemExit is the  *)
(* result Refused.                                                         *)
(***************************************************************************)
EXTENDS M8Crazy, FiniteSets

CONSTANTS
    Low, Glyphs,    \* printable cells are Low .. Low + Glyphs - 1 (33, 94)
    XLAT1,          \* [0 .. Glyphs-1 -> character]
    SYSCALLS,       \* [name -> trap number]
    SPECIALS,       \* [name -> word]: A, ACC, the argv block
    Canary          \* cell for which crazyinc-cell is sized (57000)

FRAME_WORDS == 6
VALID_DECODED_OPS == {"j", "i", "*", "p", "/", "<", "v", "o", "@", "!", "?", "=", "~", "#",
                      "+", "-", "[", "]", ":", "^", "$", "jumpm"}

BRANCH_MODES == [branch |-> 0, branchz |-> 1, branchnz |-> 2, brancherr |-> 3, branchok |-> 4]

OneWord == [storea |-> "=", loada |-> "~", jump |-> "!", seta |-> "#", addi |-> "+", subi |-> "-",
            addm |-> "[", subm |-> "]", cmpm |-> ":", loadi |-> "^", storei |-> "$",
            jumpm |-> "jumpm"]

Macros == {"crazyinc", "crazyinc-cell"}
Data == {"ascii", "cstring", "word", "ptr", "ptrv"}

----------------------------------------------------------------------------
(* Lines. *)

Line(labels, kind, args) == [labels |-> labels, kind |-> kind, args |-> args]
Expr(sum, names) == [sum |-> sum, names |-> names]
Number(n) == Expr(n, <<>>)
Name(name) == Expr(0, <<<<1, name>>>>)
Plus(name, k) == Expr(k, <<<<1, name>>>>)

(* load_source: the lines of a file with those of the files it includes.   *)
RECURSIVE Cyclic(_, _, _)
Cyclic(files, file, stack) ==
    \/ file \in stack
    \/ \E k \in DOMAIN files[file] :
           /\ files[file][k].kind = "include"
           /\ Cyclic(files, files[file][k].args[1], stack \cup {file})

RECURSIVE load_source(_, _)
load_source(files, file) ==
    FlattenSeq([k \in DOMAIN files[file] |->
        IF files[file][k].kind = "include" THEN load_source(files, files[file][k].args[1])
        ELSE <<files[file][k]>>])

canonical(kind) ==
    IF kind = "jmp" THEN "jump" ELSE IF kind = "sta" THEN "storea"
    ELSE IF kind = "lda" THEN "loada" ELSE kind

(* The rechain macro: each cell of the buffer gets the address of the      *)
(* next, the last one 0.                                                   *)
Rechain(labels, label, count) ==
    FlattenSeq([k \in 1 .. count |->
        <<Line(IF k = 1 THEN labels ELSE <<>>, "seta",
               <<IF k = count THEN Number(0) ELSE Plus(label, k)>>),
          Line(<<>>, "storea", <<Plus(label, k - 1)>>)>>])

(* Phase one of parse_source: the entries, each with the labels that stand *)
(* before it, and the labels left at the end.                              *)
Lexed(lines) ==
    LET lex[n \in 0 .. Len(lines)] ==
            IF n = 0 THEN [raw |-> <<>>, pending |-> <<>>]
            ELSE LET l == lex[n-1]
                     line == lines[n]
                     pending == l.pending \o line.labels
                     kind == canonical(line.kind)
                 IN  IF kind = "" THEN [l EXCEPT !.pending = pending]
                     ELSE [raw |-> l.raw \o
                               (IF kind = "rechain"
                                THEN Rechain(pending, line.args[1], line.args[2])
                                ELSE <<Line(pending, kind, line.args)>>),
                           pending |-> <<>>]
    IN  lex[Len(lines)]

AllLabels(lines) == FlattenSeq([k \in DOMAIN lines |-> lines[k].labels])

Duplicates(names) == \E j, k \in DOMAIN names : j # k /\ names[j] = names[k]

BadLine(line) ==
    \/ canonical(line.kind) \notin
           {"", "trap", "op", "zero", "rechain"} \cup Data \cup Macros
           \cup DOMAIN BRANCH_MODES \cup DOMAIN OneWord
    \/ line.kind = "rechain" /\ line.args[2] < 1
    \/ line.kind = "zero" /\ line.args[1] < 0
    \/ line.kind = "trap" /\ Len(line.args) \notin 1 .. FRAME_WORDS
    \/ line.kind \in {"ptr", "ptrv"} /\ line.args = <<>>

----------------------------------------------------------------------------
(* Sizes. *)

encoded_frame_cells(word_count) == word_count * ENC_WORD_CELLS

(* Words a data directive has materialized at startup. *)
InitWords(kind, args) ==
    IF kind = "ascii" THEN Len(args[1])
    ELSE IF kind = "cstring" THEN Len(args[1]) + 1
    ELSE IF kind \in {"word", "ptr"} THEN Len(args)
    ELSE IF kind = "ptrv" THEN Len(args) + 1
    ELSE 0

count_initializers(entries) ==
    LET n[k \in 0 .. Len(entries)] ==
            IF k = 0 THEN 0 ELSE n[k-1] + InitWords(entries[k].kind, entries[k].args)
    IN  n[Len(entries)]

item_size(kind, args) ==
    IF kind = "trap" THEN 1 + encoded_frame_cells(FRAME_WORDS)
    ELSE IF kind \in DOMAIN BRANCH_MODES THEN 1 + encoded_frame_cells(2)
    ELSE IF kind \in DOMAIN OneWord THEN 1 + encoded_frame_cells(1)
    ELSE IF kind = "zero" THEN args[1]
    ELSE IF kind = "op" THEN 1
    ELSE InitWords(kind, args)

(* Mutant: an instruction costs a tick for each of its cells. *)
item_tick_cost_cells(kind, args) == item_size(kind, args)

(* What an item costs in ticks: an instruction one, data one per cell,     *)
(* "because C walks over the nop filler glyphs".                           *)
item_tick_cost(kind, args) ==
    IF kind \in {"trap", "op"} \cup DOMAIN BRANCH_MODES \cup DOMAIN OneWord THEN 1
    ELSE IF kind = "zero" THEN args[1]
    ELSE InitWords(kind, args)

PrefixLen(entries) == count_initializers(entries) * 2 * FRAME + FRAME
PrefixTicks(entries) == 2 * count_initializers(entries) + 1

(* The plan of a macro at cell pc of the program, after so many ticks; a   *)
(* live cell is planned against the canary first.                          *)
MacroPlan(entry, ticks, cell_base) ==
    plan_entry(IF entry.kind = "crazyinc" THEN EntryRequest(entry.args[1], ticks, cell_base, None)
               ELSE EntryRequest(entry.args[2], ticks, cell_base, Canary))

(* Phase two: items with their addresses in the program and their plans.   *)
PlacedItem(p, e, ops, size, cost) ==
    [items |-> Append(p.items, [kind |-> e.kind, args |-> e.args, labels |-> e.labels,
                                address |-> p.pc, ticks |-> p.ticks, ops |-> ops]),
     pc |-> p.pc + size, ticks |-> p.ticks + cost, blocked |-> FALSE]

PlacedMacro(p, e, plan) ==
    IF plan.blocked THEN [p EXCEPT !.blocked = TRUE]
    ELSE PlacedItem(p, e, plan.ops, cell_count(plan.ops), tick_count(plan.ops))

Placed(raw) ==
    LET base == PrefixLen(raw)
        place[n \in 0 .. Len(raw)] ==
            IF n = 0 THEN [items |-> <<>>, pc |-> 0, ticks |-> PrefixTicks(raw), blocked |-> FALSE]
            ELSE LET p == place[n-1]
                     e == raw[n]
                 IN  IF p.blocked THEN p
                     ELSE IF e.kind \in Macros
                     THEN PlacedMacro(p, e, MacroPlan(e, p.ticks, base + p.pc))
                     ELSE PlacedItem(p, e, <<>>, item_size(e.kind, e.args),
                                     item_tick_cost(e.kind, e.args))
    IN  place[Len(raw)]

----------------------------------------------------------------------------
(* Cells. *)

encode_op(op, address) ==
    Low + (((CHOOSE k \in 0 .. Glyphs - 1 : XLAT1[k] = op) - address) % Glyphs)

digit_is_valid_source(digit, address) == XLAT1[(digit + address) % Glyphs] \in VALID_DECODED_OPS

Digit(n, k) == (n \div Glyphs ^ k) % Glyphs

(* A spelling of the word is a number equal to it modulo WORD_MOD all of   *)
(* whose digits are valid source where they come to stand; the smallest    *)
(* one is taken.  Without one the program is refused (see assemble_glyph). *)
ValidSource(encoded, start_address) ==
    \A k \in 0 .. ENC_WORD_CELLS - 1 : digit_is_valid_source(Digit(encoded, k), start_address + k)

Spellings(word) == 0 .. (Glyphs ^ ENC_WORD_CELLS - 1 - word) \div WORD_MOD

encode_frame_word(value, start_address) ==
    LET Fits(j) == ValidSource(mod_word(value) + j * WORD_MOD, start_address)
        first == CHOOSE j \in Spellings(mod_word(value)) :
                     Fits(j) /\ \A i \in 0 .. j - 1 : ~Fits(i)
    IN  IF \E j \in Spellings(mod_word(value)) : Fits(j)
        THEN [k \in 1 .. ENC_WORD_CELLS |-> Low + Digit(mod_word(value) + first * WORD_MOD, k - 1)]
        ELSE <<>>

(* An opcode and its frame words. *)
Instruction(op, words, address) ==
    <<encode_op(op, address)>>
    \o FlattenSeq([k \in DOMAIN words |->
           encode_frame_word(words[k], address + 1 + (k - 1) * ENC_WORD_CELLS)])

append_filler(address, count) == [k \in 1 .. count |-> encode_op("o", address + k - 1)]

Lookup(name, labels) ==
    IF name \in DOMAIN SYSCALLS THEN SYSCALLS[name]
    ELSE IF name \in DOMAIN SPECIALS THEN SPECIALS[name]
    ELSE labels[name]

eval_expr(expr, labels) ==
    LET sum[k \in 0 .. Len(expr.names)] ==
            IF k = 0 THEN expr.sum
            ELSE sum[k-1] + expr.names[k][1] * Lookup(expr.names[k][2], labels)
    IN  sum[Len(expr.names)]

Evaluated(args, labels) == [k \in DOMAIN args |-> eval_expr(args[k], labels)]
Padded(words) == [k \in 1 .. FRAME_WORDS |-> IF k <= Len(words) THEN words[k] ELSE 0]

(* The operations of a plan, one behind the other. *)
PlanCells(ops, address) ==
    LET cells[n \in 0 .. Len(ops)] ==
            IF n = 0 THEN <<>>
            ELSE LET c == cells[n-1]
                     op == ops[n]
                 IN  c \o (IF op.kind = "op" THEN <<encode_op(op.value, address + Len(c))>>
                           ELSE Instruction(OneWord[op.kind], <<op.value>>, address + Len(c)))
    IN  cells[Len(ops)]

(* The plan assembled: crazyinc-cell is planned again for the real cell.   *)
FinalPlan(item, base, labels) ==
    plan_entry(IF item.kind = "crazyinc"
               THEN EntryRequest(item.args[1], item.ticks, base + item.address, None)
               ELSE EntryRequest(item.args[2], item.ticks, base + item.address,
                                 mod_word(eval_expr(item.args[1], labels))))

ItemCells(item, plan, base, labels) ==
    LET at == base + item.address IN
    IF item.kind = "trap" THEN Instruction("@", Padded(Evaluated(item.args, labels)), at)
    ELSE IF item.kind \in DOMAIN BRANCH_MODES
    THEN Instruction("?", <<eval_expr(item.args[1], labels), BRANCH_MODES[item.kind]>>, at)
    ELSE IF item.kind \in DOMAIN OneWord
    THEN Instruction(OneWord[item.kind], <<eval_expr(item.args[1], labels)>>, at)
    ELSE IF item.kind = "op" THEN <<encode_op(item.args[1], at)>>
    ELSE IF item.kind \in Macros THEN PlanCells(plan.ops, at)
    ELSE append_filler(at, item_size(item.kind, item.args))

(* The startup writes of an item: pairs of a cell and a word. *)
ItemInit(item, base, labels) ==
    LET words == IF item.kind = "ascii" THEN item.args[1]
                 ELSE IF item.kind = "cstring" THEN Append(item.args[1], 0)
                 ELSE IF item.kind \in {"word", "ptr"} THEN Evaluated(item.args, labels)
                 ELSE IF item.kind = "ptrv" THEN Append(Evaluated(item.args, labels), 0)
                 ELSE <<>>
    IN  [k \in DOMAIN words |-> <<base + item.address + k - 1, mod_word(words[k])>>]

(* Mutant: the store before the seta that loads it. *)
build_materializer_swapped(init, start_addr) ==
    FlattenSeq([k \in DOMAIN init |->
        LET at == (k - 1) * 2 * FRAME IN
        Instruction("=", <<init[k][1]>>, at) \o Instruction("#", <<init[k][2]>>, at + FRAME)])
    \o Instruction("!", <<start_addr>>, Len(init) * 2 * FRAME)

build_materializer(init, start_addr) ==
    FlattenSeq([k \in DOMAIN init |->
        LET at == (k - 1) * 2 * FRAME IN
        Instruction("#", <<init[k][2]>>, at) \o Instruction("=", <<init[k][1]>>, at + FRAME)])
    \o Instruction("!", <<start_addr>>, Len(init) * 2 * FRAME)

----------------------------------------------------------------------------
(* parse_source and assemble_glyph. *)

Refused == [refused |-> TRUE]

Unresolved(item, labels) ==
    LET names == IF item.kind \in {"word", "ptr", "ptrv", "trap"}
                                  \cup DOMAIN BRANCH_MODES \cup DOMAIN OneWord
                 THEN UNION {{e.names[k][2] : k \in DOMAIN e.names} : e \in Range(item.args)}
                 ELSE IF item.kind = "crazyinc-cell"
                 THEN {item.args[1].names[k][2] : k \in DOMAIN item.args[1].names}
                 ELSE {}
    IN  ~(names \subseteq DOMAIN SYSCALLS \cup DOMAIN SPECIALS \cup DOMAIN labels)

(* The second plan of crazyinc-cell fails or has another size. *)
Replanned(item, plan) ==
    item.kind = "crazyinc-cell" =>
        ~plan.blocked /\ cell_count(plan.ops) = cell_count(item.ops)

Labels(items, pending, pc, base) ==
    LET here(k) == {items[k].labels[j] : j \in DOMAIN items[k].labels}
        all == UNION {here(k) : k \in DOMAIN items} \cup Range(pending)
    IN  [name \in all |->
            base + (IF name \in Range(pending) THEN pc
                    ELSE items[CHOOSE k \in DOMAIN items : name \in here(k)].address)]

(* The image, with what is known of it: where the items stand, the plans.  *)
Emitted(items, plans, labels, base, pc, init, start) ==
    LET image == build_materializer(init, start)
                 \o FlattenSeq([k \in DOMAIN items |->
                        ItemCells(items[k], IF k \in DOMAIN plans THEN plans[k] ELSE Blocked,
                                  base, labels)])
    IN  IF base + pc > WORD_MOD \/ Len(image) # base + pc THEN Refused
        ELSE [refused |-> FALSE, labels |-> labels, init |-> init, start |-> start,
              ticks |-> PrefixTicks(items), plans |-> plans, image |-> image,
              at |-> [k \in DOMAIN items |-> base + items[k].address],
              kinds |-> [k \in DOMAIN items |-> items[k].kind]]

Resolved(items, plans, labels, base, pc) ==
    IF \E k \in DOMAIN plans : ~Replanned(items[k], plans[k]) THEN Refused
    ELSE Emitted(items, plans, labels, base, pc,
                 FlattenSeq([k \in DOMAIN items |-> ItemInit(items[k], base, labels)]),
                 IF "start" \in DOMAIN labels THEN labels["start"] ELSE base)

assemble_glyph(items, pending, pc) ==
    LET base == PrefixLen(items)
        labels == Labels(items, pending, pc, base)
    IN  IF \E k \in DOMAIN items : Unresolved(items[k], labels) THEN Refused
        ELSE Resolved(items, [k \in {n \in DOMAIN items : items[n].kind \in Macros} |->
                                 FinalPlan(items[k], base, labels)], labels, base, pc)

Linked(pending, placed) ==
    IF placed.blocked THEN Refused ELSE assemble_glyph(placed.items, pending, placed.pc)

Assembled(files, file) ==
    LET lines == load_source(files, file)
        lexed == Lexed(lines)
    IN  IF \/ Cyclic(files, file, {})
           \/ \E k \in DOMAIN lines : BadLine(lines[k])
           \/ Duplicates(AllLabels(lines))
        THEN Refused
        ELSE Linked(lexed.pending, Placed(lexed.raw))
=============================================================================
