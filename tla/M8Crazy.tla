------------------------------ MODULE M8Crazy ------------------------------
(***************************************************************************)
(* tools/m8crazy.py, its upper half, as a calculation: the breadth-first   *)
(* search to its end, and plan_entry, which lays out straight-line code    *)
(* that rewrites a cell from x to x+1 with classic operations only.        *)
(* ScrollRun runs the planned code.                                        *)
(*                                                                         *)
(* The width of words (10 trits), of frame words (5 glyphs) and the start  *)
(* of the argv block (58000) are parameters; the literal 6 of the planner  *)
(* is one opcode and one frame word.  What is only printed is left out.    *)
(***************************************************************************)
EXTENDS CrazyWords

CONSTANTS
    ENC_WORD_CELLS,  \* glyphs of a frame word (5)
    M8_ABI_ARGC      \* first cell of the argv block (58000)

----------------------------------------------------------------------------
(* bfs_find, run to its end. *)

(* One turn of the loop of bfs_find. *)
Turn(query, s) ==
    LET node == Head(s.queue)
        steps == next_states(query.graph, query.constants)
        after == [i \in DOMAIN steps |-> Apply(node.value, steps[i])]
        push[i \in 0 .. Len(steps)] ==
            IF i = 0 THEN [queue |-> Tail(s.queue), seen |-> s.seen, found |-> s.found]
            ELSE LET t == push[i-1] IN
                 IF after[i] \in t.seen THEN t
                 ELSE [t EXCEPT !.seen = @ \cup {after[i]},
                                !.queue = Append(@, SearchNode(after[i], Append(node.steps, steps[i])))]
    IN  IF Wanted(query, node)
        THEN [s EXCEPT !.queue = Tail(@), !.found = Append(@, node)]
        ELSE IF Len(node.steps) >= query.max_depth THEN [s EXCEPT !.queue = Tail(@)]
        ELSE push[Len(steps)]

RECURSIVE Search(_, _)
Search(query, s) ==
    IF s.queue = <<>> \/ Len(s.found) >= query.limit THEN s
    ELSE Search(query, Turn(query, s))

bfs_find(query) ==
    Search(query, [queue |-> <<SearchNode(mod_word(query.start), <<>>)>>,
                   seen |-> {mod_word(query.start)}, found |-> <<>>]).found

(* The first mask, in the order given, to which the runway leads. *)
find_runway_plan_for_masks(start_a, masks, max_depth, constants) ==
    LET To(mask) == bfs_find([start |-> start_a, goals |-> {mask}, max_depth |-> max_depth,
                              limit |-> 1, constants |-> constants, graph |-> "runway",
                              allow_empty |-> TRUE])
        try[i \in 1 .. Len(masks) + 1] ==
            IF i > Len(masks) THEN <<>>
            ELSE LET found == To(masks[i]) IN IF found # <<>> THEN found ELSE try[i+1]
    IN  try[1]

----------------------------------------------------------------------------
(* plan_entry.  A request has the fields value, ok (two characters),       *)
(* start_a, max_depth, mask_limit, constants, d_entry, cell_base and       *)
(* cell_addr (None in block mode).  EntryBlocked is the plan Blocked.      *)

Blocked == [blocked |-> TRUE]
FRAME == 1 + ENC_WORD_CELLS
Printable == 33 .. 126

EntryOp(kind, value) == [kind |-> kind, value |-> value]
SetA(v) == EntryOp("seta", v)
StoreA(cell) == EntryOp("storea", cell)
Op(c) == EntryOp("op", c)

Span(op) == IF op.kind = "op" THEN 1 ELSE FRAME

cell_count(ops) ==
    LET cells[n \in 0 .. Len(ops)] == IF n = 0 THEN 0 ELSE cells[n-1] + Span(ops[n])
    IN  cells[Len(ops)]

tick_count(ops) == Len(ops)

Seeds(steps) == [i \in DOMAIN steps |-> steps[i].seed]

(* The seeds by cell, from the first of the block on; the seeds that in    *)
(* cell mode follow the caller's cell.                                     *)
BlockValues(q, runway, chain_a, chain_b) ==
    IF q.cell_addr = None
    THEN Seeds(runway) \o <<mod_word(q.value)>> \o Seeds(chain_a) \o <<0, 0>> \o Seeds(chain_b)
    ELSE Seeds(runway) \o <<mod_word(q.cell_addr - 1)>>

NeighborSeeds(q, chain_a, chain_b) ==
    IF q.cell_addr = None THEN <<>>
    ELSE [i \in DOMAIN chain_a |-> <<q.cell_addr + i, chain_a[i].seed>>]
         \o [i \in DOMAIN chain_b |-> <<q.cell_addr + Len(chain_a) + 2 + i, chain_b[i].seed>>]

(* Where the block starts with k junk instructions and n seeds to write,   *)
(* and how far below its own storea the j-th seed cell lies.               *)
BlockStart(q, k, n) == q.d_entry + k + 2 * n + 1
Slack(q, k, n, j) ==
    q.cell_base + FRAME * k + 2 * FRAME * (j - 1) + FRAME - (BlockStart(q, k, n) + j - 1)

JunkCounts(q, n, block) == {k \in 0 .. 255 : \A j \in 1 .. block : Slack(q, k, n, j) > 0}

(* Mutant: the second character is computed from the first, not from the  *)
(* cell.                                                                   *)
EntryOpsNoReload(q, junk, writes, runway, chain_a, chain_b, mutable) ==
    [i \in 1 .. junk |-> SetA(0)]
    \o FlattenSeq([i \in DOMAIN writes |-> <<SetA(writes[i][2]), StoreA(writes[i][1])>>])
    \o <<SetA(0)>> \o [i \in DOMAIN runway |-> Op(runway[i].op)]
    \o (IF q.cell_addr = None THEN <<>> ELSE <<Op("j")>>) \o <<Op("p")>>
    \o [i \in DOMAIN chain_a |-> Op("p")] \o <<Op("<"), Op("o")>>
    \o [i \in DOMAIN chain_b |-> Op("p")] \o <<Op("<"), SetA(10), Op("<"), Op("v")>>

EntryOps(q, junk, writes, runway, chain_a, chain_b, mutable) ==
    [i \in 1 .. junk |-> SetA(0)]
    \o FlattenSeq([i \in DOMAIN writes |-> <<SetA(writes[i][2]), StoreA(writes[i][1])>>])
    \o <<SetA(0)>> \o [i \in DOMAIN runway |-> Op(runway[i].op)]
    \o (IF q.cell_addr = None THEN <<>> ELSE <<Op("j")>>) \o <<Op("p")>>
    \o [i \in DOMAIN chain_a |-> Op("p")] \o <<Op("<"), EntryOp("loada", mutable)>>
    \o [i \in DOMAIN chain_b |-> Op("p")] \o <<Op("<"), SetA(10), Op("<"), Op("v")>>

(* The planner's own simulation: the state after each instruction.  A cell *)
(* outside known is a KeyError.                                            *)
Simulate(q, ops, known) ==
    LET row[n \in 0 .. Len(ops)] ==
            IF n = 0
            THEN [n |-> q.d_entry, cell |-> q.cell_base, d |-> q.d_entry - 1,
                  a_before |-> 0, a_after |-> mod_word(q.start_a), known |-> known]
            ELSE LET r == row[n-1]
                     op == ops[n]
                     d == mod_word(r.d + 1)
                     a == IF op.kind = "seta" THEN mod_word(op.value)
                          ELSE IF op.kind = "loada"
                          THEN IF op.value \in DOMAIN r.known THEN r.known[op.value] ELSE 0
                          ELSE IF op.kind = "op" /\ op.value = "p" THEN crazy(r.a_after, r.known[d])
                          ELSE IF op.kind = "op" /\ op.value = "*" THEN rotate_right(r.known[d])
                          ELSE r.a_after
                 IN  [n |-> r.n + 1,
                      cell |-> r.cell + (IF n = 1 THEN 0 ELSE Span(ops[n-1])),
                      d |-> IF op.kind = "op" /\ op.value = "j" THEN mod_word(r.known[d]) ELSE d,
                      a_before |-> r.a_after, a_after |-> a,
                      known |-> IF op.kind = "op" /\ op.value \in {"p", "*"}
                                THEN [r.known EXCEPT ![d] = a] ELSE r.known]
    IN  [n \in 1 .. Len(ops) |-> row[n]]

(* The checks on the caller's cells, in cell mode. *)
LiveTargetsClear(q, neighbors, ops, block) ==
    LET live == {q.cell_addr} \cup {neighbors[i][1] : i \in DOMAIN neighbors}
        code == q.cell_base .. q.cell_base + cell_count(ops) - 1
    IN  \A addr \in live : addr \notin code /\ addr < M8_ABI_ARGC /\ addr \notin block

(* The plan of a block at block_start, if its simulation leaves the target *)
(* in A after the final p, the last of the first final_p instructions.     *)
Verified(q, ops, known, mutable, final_p) ==
    LET target == mod_word(q.value + 1)
        rows == Simulate(q, ops, known)
    IN  IF rows[final_p].a_after # target THEN Blocked
        ELSE [blocked |-> FALSE, target |-> target, mutable |-> mutable, ops |-> ops, rows |-> rows]

(* What the ritual finds in the cells it has written, and in the mutable.  *)
Known(q, writes, mutable) ==
    LET seeded == {writes[i][1] : i \in DOMAIN writes}
    IN  [c \in seeded \cup {mutable} |->
            IF c \in seeded THEN writes[CHOOSE i \in DOMAIN writes : writes[i][1] = c][2]
            ELSE mod_word(q.value)]

Checked(q, ops, writes, neighbors, block, mutable, final_p) ==
    IF \/ \E cell \in block : cell >= M8_ABI_ARGC
       \/ q.cell_addr # None /\ ~LiveTargetsClear(q, neighbors, ops, block)
    THEN Blocked
    ELSE Verified(q, ops, Known(q, writes, mutable), mutable, final_p)

Written(q, runway, chain_a, chain_b, values, neighbors, junk, block_start) ==
    LET mutable == IF q.cell_addr = None THEN block_start + Len(runway) ELSE q.cell_addr
        writes == [i \in DOMAIN values |-> <<block_start + i - 1, values[i]>>] \o neighbors
    IN  Checked(q, EntryOps(q, junk, writes, runway, chain_a, chain_b, mutable), writes, neighbors,
                block_start .. block_start + Len(values) - 1, mutable,
                1 + junk + 2 * Len(writes) + Len(runway) + (IF q.cell_addr = None THEN 1 ELSE 2))

(* The least junk that keeps the block clear of code still to run. *)
Placement(q, runway, chain_a, chain_b, values, neighbors) ==
    LET pairs == Len(values) + Len(neighbors)
        junks == JunkCounts(q, pairs, Len(values))
    IN  IF chain_a = <<>> \/ chain_b = <<>> \/ junks = {} THEN Blocked
        ELSE Written(q, runway, chain_a, chain_b, values, neighbors,
                     Least(junks), BlockStart(q, Least(junks), pairs))

Chained(q, runway, chain_a, chain_b) ==
    Placement(q, runway, chain_a, chain_b, BlockValues(q, runway, chain_a, chain_b),
              NeighborSeeds(q, chain_a, chain_b))

(* The rest of plan_entry once there is a runway. *)
Layout(q, runway) ==
    Chained(q, runway, chain_to_target(mod_word(q.value + 1), q.ok[1]),
            chain_to_target(mod_word(q.value + 1), q.ok[2]))

plan_entry(q) ==
    LET solve == solve_crazy(q.value, mod_word(q.value + 1))
        limit == IF q.mask_limit < 1 THEN 1 ELSE q.mask_limit
        found == find_runway_plan_for_masks(q.start_a, masks_for_solve(solve, limit),
                                            q.max_depth, normalize_constants(q.constants))
    IN  IF \/ \E i \in {1, 2} : q.ok[i] \notin Printable
           \/ ~possible(solve)
           \/ found = <<>>
        THEN Blocked
        ELSE Layout(q, found[1].steps)

(* plan-entry with the defaults of the command and of the crazyinc macro. *)
EntryRequest(value, d_entry, cell_base, cell_addr) ==
    [value |-> value, ok |-> <<79, 75>>, start_a |-> 0, max_depth |-> 4, mask_limit |-> 16,
     constants |-> DEFAULT_SEARCH_CONSTANTS, d_entry |-> d_entry, cell_base |-> cell_base,
     cell_addr |-> cell_addr]

(* emit_entry_scroll: the plan as source; the section labels are left out. *)
Item(kind, args) == [kind |-> kind, args |-> args]

(* Mutant: the last operation is left out. *)
emit_entry_scroll_short(plan) ==
    [i \in 1 .. Len(plan.ops) - 1 |->
        Item(plan.ops[i].kind,
             IF plan.ops[i].kind = "op" THEN <<plan.ops[i].value>>
             ELSE <<[sum |-> plan.ops[i].value, names |-> <<>>]>>)]

emit_entry_scroll(plan) ==
    [i \in DOMAIN plan.ops |->
        Item(plan.ops[i].kind,
             IF plan.ops[i].kind = "op" THEN <<plan.ops[i].value>>
             ELSE <<[sum |-> plan.ops[i].value, names |-> <<>>]>>)]

=============================================================================
