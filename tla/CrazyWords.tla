----------------------------- MODULE CrazyWords -----------------------------
(***************************************************************************)
(* tools/m8crazy.py, its lower half: words of Trits trits, the crazy       *)
(* operation and its inverses, the steps of the two graphs it searches.    *)
(* CrazySearch is the search as a state machine, M8Crazy the planner.      *)
(***************************************************************************)
EXTENDS Integers, Sequences, SequencesExt

CONSTANTS
    Trits            \* trits of a word (10)

ASSUME TritsAssumption == Trits \in Nat \ {0}

(* The place values from_trits and crazy multiply up. *)
place_of_trit[n \in 0 .. Trits] == IF n = 0 THEN 1 ELSE 3 * place_of_trit[n-1]

WORD_MOD == place_of_trit[Trits]
Word == 0 .. WORD_MOD - 1
Position == 0 .. Trits - 1
Trit == 0 .. 2

----------------------------------------------------------------------------
(* Words. *)

mod_word(x) == x % WORD_MOD

to_trits(value) == [i \in Position |-> (mod_word(value) \div place_of_trit[i]) % 3]

from_trits(trits) ==
    LET value[n \in 0 .. Trits] ==
            IF n = 0 THEN 0 ELSE value[n-1] + trits[n-1] * place_of_trit[n-1]
    IN  mod_word(value[Trits])

CRAZY_TABLE == <<<<1, 0, 0>>, <<1, 0, 2>>, <<2, 2, 1>>>>
Cross(dt, at) == CRAZY_TABLE[dt + 1][at + 1]

crazy(a, d) ==
    LET at == to_trits(a)
        dt == to_trits(d)
    IN  from_trits([i \in Position |-> Cross(dt[i], at[i])])

rotate_right(value) ==
    (mod_word(value) \div 3) + (mod_word(value) % 3) * place_of_trit[Trits - 1]

DEFAULT_SEARCH_CONSTANTS ==
    <<0, 1, 2, 3, 10, 26, 80, 94, 255, 256, 512, 1024, 19683, 29524, 59048>>

(* Words of the list, each once, in the order they first occur. *)
normalize_constants(values) ==
    LET words == [i \in DOMAIN values |-> mod_word(values[i])]
        First(i) == \A j \in 1 .. i - 1 : words[j] # words[i]
        out[n \in 0 .. Len(words)] ==
            IF n = 0 THEN <<>>
            ELSE IF First(n) THEN Append(out[n-1], words[n]) ELSE out[n-1]
    IN  out[Len(words)]

----------------------------------------------------------------------------
(* Steps.  "rotA" and "crazy" are the toy graph's, "p" and "*" those of a  *)
(* generated D-runway, whose cells hold the seeds.                         *)

Step(op, seed) == [op |-> op, seed |-> seed]

(* Mutant: the runway's rotation taken for one of A. *)
ApplyRotatesA(a, step) ==
    IF step.op \in {"rotA", "*"} THEN rotate_right(a) ELSE crazy(a, step.seed)

Apply(a, step) ==
    IF step.op = "rotA" THEN rotate_right(a)
    ELSE IF step.op = "*" THEN rotate_right(step.seed)
    ELSE crazy(a, step.seed)

toy_next_states(constants) ==
    <<Step("rotA", 0)>> \o [i \in DOMAIN constants |-> Step("crazy", constants[i])]

runway_next_states(constants) ==
    [i \in DOMAIN constants |-> Step("p", constants[i])]
    \o [i \in DOMAIN constants |-> Step("*", constants[i])]

next_states(graph, constants) ==
    IF graph = "toy" THEN toy_next_states(constants) ELSE runway_next_states(constants)

----------------------------------------------------------------------------
(* Search.  A query has the fields start, goals (the words the predicate   *)
(* accepts), max_depth, limit, constants, graph and allow_empty.           *)

Wanted(query, node) ==
    node.value \in query.goals /\ (query.allow_empty \/ node.steps # <<>>)

SearchNode(value, steps) == [value |-> value, steps |-> steps]

(* cmd_profile: the words first reached at each depth, all of them so far. *)
Layers(graph, start, constants, max_depth) ==
    LET steps == next_states(graph, constants)
        layer[d \in 0 .. max_depth] ==
            IF d = 0 THEN [new |-> {mod_word(start)}, seen |-> {mod_word(start)}]
            ELSE LET l == layer[d-1]
                     reached == {Apply(v, steps[i]) : v \in l.new, i \in DOMAIN steps}
                 IN  [new |-> reached \ l.seen, seen |-> l.seen \cup reached]
    IN  layer

----------------------------------------------------------------------------
(* Inverses of crazy. *)

(* The trits of A under which p turns the source into the target. *)
solve_crazy(source, target) ==
    LET dt == to_trits(source)
        tt == to_trits(target)
    IN  [i \in Position |-> {at \in Trit : Cross(dt[i], at) = tt[i]}]

possible(solve) == \A i \in Position : solve[i] # {}

(* All words with one of the choices at each position, in order, cut to    *)
(* the limit.                                                              *)
masks_for_solve(solve, limit) ==
    LET With(masks, n, t) ==
            IF t \in solve[n] THEN [i \in DOMAIN masks |-> masks[i] + t * place_of_trit[n]] ELSE <<>>
        masks[n \in 0 .. Trits] ==
            IF n = 0 THEN <<0>>
            ELSE LET m == masks[n-1] IN With(m, n-1, 0) \o With(m, n-1, 1) \o With(m, n-1, 2)
    IN  SubSeq(masks[Trits], 1, IF limit < Len(masks[Trits]) THEN limit ELSE Len(masks[Trits]))

(* The trits of the seed under D with which p leads from a to the target. *)
solve_seed(a, target) ==
    LET at == to_trits(a)
        tt == to_trits(target)
    IN  [i \in Position |-> {dt \in Trit : Cross(dt, at[i]) = tt[i]}]

None == -1

Least(S) == CHOOSE t \in S : \A u \in S : t <= u

smallest_seed(a, target) ==
    LET choices == solve_seed(a, target)
    IN  IF \E i \in Position : choices[i] = {} THEN None
        ELSE from_trits([i \in Position |-> Least(choices[i])])

ALL_TWOS == WORD_MOD - 1

(* The seeds of a chain of p steps, and the word each leads to. *)
ChainStep(seed, result) == [seed |-> seed, result |-> result]

chain_to_target(start, target) ==
    LET seed == smallest_seed(start, target) IN
    IF seed # None THEN <<ChainStep(seed, target)>>
    ELSE LET first == smallest_seed(start, ALL_TWOS)
             second == smallest_seed(ALL_TWOS, target)
         IN  IF first = None \/ second = None THEN <<>>
             ELSE <<ChainStep(first, ALL_TWOS), ChainStep(second, target)>>

----------------------------------------------------------------------------
(* Routes: a runway on a straight stretch of C and D. *)

RouteStep(op, value, role) == [op |-> op, value |-> value, role |-> role]
parse_runway_step(step) == RouteStep(step.op, mod_word(step.seed), "seed")

route_rows(steps, start_a, c_start, d_start) ==
    LET row[n \in 1 .. Len(steps)] ==
            LET before == IF n = 1 THEN mod_word(start_a) ELSE row[n-1].a_after
            IN  [c |-> mod_word(c_start + n - 1), d |-> mod_word(d_start + n - 1),
                 op |-> steps[n].op, value |-> steps[n].value, role |-> steps[n].role,
                 a_before |-> before,
                 a_after |-> IF steps[n].op = "p" THEN crazy(before, steps[n].value)
                             ELSE rotate_right(steps[n].value)]
    IN  row

(* route-plan-increment: the runway to the mask, then the final p; the     *)
(* mutable cell is given or follows from where D starts.                   *)
route_plan_increment(value, node, start_a, c_start, d_start, mutable_addr) ==
    LET runway == [i \in DOMAIN node.steps |-> parse_runway_step(node.steps[i])]
        steps == Append(runway, RouteStep("p", mod_word(value), "mutable"))
        d == IF mutable_addr = None THEN mod_word(d_start)
             ELSE mod_word(mutable_addr - Len(runway))
    IN  [rows |-> route_rows(steps, start_a, c_start, d),
         mutable |-> IF mutable_addr = None THEN mod_word(d + Len(runway))
                     ELSE mod_word(mutable_addr)]
=============================================================================
