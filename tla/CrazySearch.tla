---------------------------- MODULE CrazySearch ----------------------------
(***************************************************************************)
(* The searching commands of tools/m8crazy.py as a state machine:          *)
(* search-byte, search-word and runway-word run bfs_find once; the plans   *)
(* of x -> x+1 (plan-increment, route-plan-increment, increment-profile)   *)
(* run it for one mask after the other until one is reached, the profile   *)
(* for one value after the other.                                          *)
(*                                                                         *)
(* A step is one turn of bfs_find's loop or of the loop over the           *)
(* transitions inside it.                                                  *)
(***************************************************************************)
EXTENDS CrazyWords, FiniteSets

CONSTANTS
    Jobs    \* the command lines offered

(* argparse gives numbers, and the commands raise a depth below 0 and a    *)
(* limit or a count below 1; a plan is a search of the runway, whose       *)
(* solution may be empty.                                                  *)
ASSUME JobsAssumption ==
    \A j \in Jobs :
        /\ j.max_depth \in Nat /\ j.limit \in Nat \ {0} /\ j.mask_limit \in Nat \ {0}
        /\ j.value \in Int /\ j.count \in Nat \ {0}
        /\ j.constants \in Seq(Word)
        /\ j.value # None => j.allow_empty /\ j.graph = "runway"

VARIABLES
    job,        \* the command line
    offset,     \* which value of the profile, from 0
    goals,      \* the predicates still to try: the words each accepts
    queue, seen, found,
    node,       \* the node being expanded, or Nobody
    i,          \* its next transition
    direct, planned,    \* the profile's counts
    done

search == <<queue, seen, found, node, i>>
vars == <<job, offset, goals, search, direct, planned, done>>

(* The command lines.  Depths below 0 and limits below 1 are raised.       *)
AtLeast(low, x) == IF x < low THEN low ELSE x

Search(graph, accepted, start, max_depth, limit, constants) ==
    [graph |-> graph, accepted |-> accepted, start |-> start, value |-> None, count |-> 1,
     max_depth |-> AtLeast(0, max_depth), limit |-> AtLeast(1, limit), mask_limit |-> 1,
     constants |-> normalize_constants(constants), allow_empty |-> graph = "runway"]

search_byte(target, byte, start, max_depth, limit, constants) ==
    Search("toy", {w \in Word : w % byte = target % byte}, start, max_depth, limit, constants)

search_word(target, start, max_depth, limit, constants) ==
    Search("toy", {mod_word(target)}, start, max_depth, limit, constants)

runway_word(target, start_a, max_depth, limit, constants) ==
    Search("runway", {mod_word(target)}, start_a, max_depth, limit, constants)

increment_profile(value, count, start_a, max_depth, mask_limit, constants) ==
    [Search("runway", {}, start_a, max_depth, 1, constants) EXCEPT
        !.value = value, !.count = AtLeast(1, count), !.mask_limit = AtLeast(1, mask_limit)]

plan_increment(value, start_a, max_depth, mask_limit, constants) ==
    increment_profile(value, 1, start_a, max_depth, mask_limit, constants)

(* The value whose increment is planned, and the masks searched for it: no *)
(* mask if one p cannot do it.                                             *)
Source(o) == mod_word(job.value + o)
Target(o) == mod_word(Source(o) + 1)
IsPlan(j) == j.value # None

Masks(o) ==
    LET solve == solve_crazy(Source(o), Target(o)) IN
    IF possible(solve) THEN masks_for_solve(solve, job.mask_limit) ELSE <<>>

GoalSets(o) ==
    IF IsPlan(job) THEN [k \in DOMAIN Masks(o) |-> {Masks(o)[k]}] ELSE <<job.accepted>>

Steps == next_states(job.graph, job.constants)

(* A search node, with the words on the way to it as history. *)
Node(value, steps, path) == [value |-> value, steps |-> steps, path |-> path]
Nobody == Node(None, <<>>, <<>>)
Root(start) == Node(mod_word(start), <<>>, <<mod_word(start)>>)

Init ==
    /\ job \in Jobs
    /\ offset = 0 /\ goals = GoalSets(0)
    /\ queue = <<Root(job.start)>> /\ seen = {mod_word(job.start)} /\ found = <<>>
    /\ node = Nobody /\ i = 1
    /\ direct = 0 /\ planned = 0 /\ done = FALSE

Searching == ~done /\ goals # <<>>
Turning == Searching /\ node = Nobody /\ queue # <<>> /\ Len(found) < job.limit

Accepts(n) == n.value \in Head(goals) /\ (job.allow_empty \/ n.steps # <<>>)

(* The predicate holds: the node is a solution and is not expanded. *)
Find ==
    /\ Turning /\ Accepts(Head(queue))
    /\ found' = Append(found, Head(queue))
    /\ queue' = Tail(queue)
    /\ UNCHANGED <<job, offset, goals, seen, node, i, direct, planned, done>>

(* Mutant: nodes one step short of the depth are dropped too. *)
DropDeepEarly ==
    /\ Turning /\ ~Accepts(Head(queue))
    /\ Len(Head(queue).steps) + 1 >= job.max_depth
    /\ queue' = Tail(queue)
    /\ UNCHANGED <<job, offset, goals, seen, found, node, i, direct, planned, done>>

DropDeep ==
    /\ Turning /\ ~Accepts(Head(queue))
    /\ Len(Head(queue).steps) >= job.max_depth
    /\ queue' = Tail(queue)
    /\ UNCHANGED <<job, offset, goals, seen, found, node, i, direct, planned, done>>

Expand ==
    /\ Turning /\ ~Accepts(Head(queue))
    /\ Len(Head(queue).steps) < job.max_depth
    /\ node' = Head(queue) /\ i' = 1
    /\ queue' = Tail(queue)
    /\ UNCHANGED <<job, offset, goals, seen, found, direct, planned, done>>

Expanding == Searching /\ node # Nobody
Reached == Apply(node.value, Steps[i])

Skip ==
    /\ Expanding /\ i <= Len(Steps) /\ Reached \in seen
    /\ i' = i + 1
    /\ UNCHANGED <<job, offset, goals, queue, seen, found, node, direct, planned, done>>

(* Mutant: a word is marked as seen when it is expanded, not when queued. *)
PushUnmarked ==
    /\ Expanding /\ i <= Len(Steps) /\ Reached \notin seen
    /\ seen' = seen \cup {node.value}
    /\ queue' = Append(queue, Node(Reached, Append(node.steps, Steps[i]),
                                   Append(node.path, Reached)))
    /\ i' = i + 1
    /\ UNCHANGED <<job, offset, goals, found, node, direct, planned, done>>

(* Mutant: the stack of a depth-first search. *)
PushFront ==
    /\ Expanding /\ i <= Len(Steps) /\ Reached \notin seen
    /\ seen' = seen \cup {Reached}
    /\ queue' = <<Node(Reached, Append(node.steps, Steps[i]), Append(node.path, Reached))>> \o queue
    /\ i' = i + 1
    /\ UNCHANGED <<job, offset, goals, found, node, direct, planned, done>>

(* Mutant: the label of the first transition for every child. *)
PushFirstLabel ==
    /\ Expanding /\ i <= Len(Steps) /\ Reached \notin seen
    /\ seen' = seen \cup {Reached}
    /\ queue' = Append(queue, Node(Reached, Append(node.steps, Steps[1]),
                                   Append(node.path, Reached)))
    /\ i' = i + 1
    /\ UNCHANGED <<job, offset, goals, found, node, direct, planned, done>>

Push ==
    /\ Expanding /\ i <= Len(Steps) /\ Reached \notin seen
    /\ seen' = seen \cup {Reached}
    /\ queue' = Append(queue, Node(Reached, Append(node.steps, Steps[i]),
                                   Append(node.path, Reached)))
    /\ i' = i + 1
    /\ UNCHANGED <<job, offset, goals, found, node, direct, planned, done>>

Expanded ==
    /\ Expanding /\ i > Len(Steps)
    /\ node' = Nobody /\ i' = 1
    /\ UNCHANGED <<job, offset, goals, queue, seen, found, direct, planned, done>>

(* bfs_find returns. *)
Returned == Searching /\ node = Nobody /\ (queue = <<>> \/ Len(found) >= job.limit)

Restart ==
    /\ queue' = <<Root(job.start)>> /\ seen' = {mod_word(job.start)} /\ found' = <<>>
    /\ UNCHANGED <<node, i>>

(* find_runway_plan_for_masks: nothing found for this mask, so the next. *)
NextMask ==
    /\ Returned /\ found = <<>> /\ Len(goals) > 1
    /\ goals' = Tail(goals)
    /\ Restart
    /\ UNCHANGED <<job, offset, direct, planned, done>>

(* Mutant: a value counts as planned once it has a mask. *)
TallyDirect ==
    /\ ~done
    /\ goals = <<>> \/ (Returned /\ (found # <<>> \/ Len(goals) = 1))
    /\ direct' = IF goals # <<>> THEN direct + 1 ELSE direct
    /\ planned' = IF goals # <<>> THEN planned + 1 ELSE planned
    /\ IF offset + 1 < job.count
       THEN /\ offset' = offset + 1 /\ goals' = GoalSets(offset + 1)
            /\ Restart
            /\ UNCHANGED done
       ELSE done' = TRUE /\ UNCHANGED <<offset, goals, search>>
    /\ UNCHANGED job

(* The value is dealt with: on to the next one of a profile. *)
Tally ==
    /\ ~done
    /\ goals = <<>> \/ (Returned /\ (found # <<>> \/ Len(goals) = 1))
    /\ direct' = IF goals # <<>> THEN direct + 1 ELSE direct
    /\ planned' = IF found # <<>> THEN planned + 1 ELSE planned
    /\ IF offset + 1 < job.count
       THEN /\ offset' = offset + 1 /\ goals' = GoalSets(offset + 1)
            /\ Restart
            /\ UNCHANGED done
       ELSE done' = TRUE /\ UNCHANGED <<offset, goals, search>>
    /\ UNCHANGED job

Reported == done /\ UNCHANGED vars

Next ==
    \/ Find \/ DropDeep \/ Expand \/ Skip \/ Push \/ Expanded
    \/ NextMask \/ Tally \/ Reported

Spec == Init /\ [][Next]_vars

----------------------------------------------------------------------------
(* Properties. *)

(* Every solution the tools print is a sequence that may be followed: from *)
(* the start word each step, as the graph defines it, leads to the next    *)
(* word, the last one is accepted, and it is within the depth asked for.   *)
Replays(n) ==
    /\ Len(n.path) = Len(n.steps) + 1
    /\ n.path[1] = mod_word(job.start) /\ n.path[Len(n.path)] = n.value
    /\ \A k \in DOMAIN n.steps : n.path[k+1] = Apply(n.path[k], n.steps[k])

PlansReplay ==
    \A k \in DOMAIN found :
        /\ Replays(found[k])
        /\ found[k].value \in Head(goals)
        /\ Len(found[k].steps) <= job.max_depth

(* No word is queued or reported twice, so the queue stays within the      *)
(* number of words and every search ends.                                  *)
EachWordOnce ==
    LET nodes == found \o (IF node = Nobody THEN <<>> ELSE <<node>>) \o queue IN
    /\ \A k, l \in DOMAIN nodes : k # l => nodes[k].value # nodes[l].value
    /\ \A k \in DOMAIN nodes : nodes[k].value \in seen

(* The words reached in exactly, or in at most, d steps: cmd_profile's     *)
(* layers.                                                                 *)
Layer == Layers(job.graph, job.start, job.constants, job.max_depth)

(* The word bfs_find never looks at again: search-byte and search-word     *)
(* want at least one step, but the start is in seen before the first one,  *)
(* so steps that lead back to it are not followed.  Where the start is     *)
(* itself accepted, a longer solution or none is reported for it.          *)
Overlooked == IF job.allow_empty THEN {} ELSE {mod_word(job.start)}

(* The first solution is as short as any to a word other than the          *)
(* overlooked start: no other accepted word lies in an earlier layer of    *)
(* the profile.                                                            *)
ShortestFirst ==
    (found # <<>> /\ found[1].steps # <<>>) =>
        Head(goals) \cap Layer[Len(found[1].steps) - 1].seen \subseteq Overlooked

(* "no sequence found within depth" is true of every word but the          *)
(* overlooked start: no other accepted word is in the profile's layers     *)
(* when the search ends with nothing, and for a mask given up before there *)
(* is no exception.                                                        *)
NotFoundIsTrue ==
    Returned =>
        LET within == Layer[job.max_depth].seen
            tried == Len(GoalSets(offset)) - Len(goals)
        IN  /\ \A k \in 1 .. tried : GoalSets(offset)[k] \cap within = {}
            /\ (found = <<>>) => Head(goals) \cap within \subseteq Overlooked

(* A plan found really increments: by route_rows, which replays the steps  *)
(* without the search, the runway ends on the mask and the final p on the  *)
(* mutable cell leaves x+1 in A, at the address asked for.                 *)
RouteReachesTarget ==
    (IsPlan(job) /\ found # <<>>) =>
        \A mutable_addr \in {None, 3} :
            LET route == route_plan_increment(Source(offset), found[1], job.start, 1, 2, mutable_addr)
                last == route.rows[Len(route.rows)]
            IN  last.a_after = Target(offset) /\ last.d = route.mutable

(* The summary of the profile counts the values for which a mask exists at *)
(* all, and those for which one of the first masks can be reached.         *)
SummaryIsTrue ==
    done =>
        LET values == {o \in 0 .. job.count - 1 : IsPlan(job)}
            Solvable(o) == \E m \in Word : crazy(m, Source(o)) = Target(o)
            Reachable(o) == \E k \in DOMAIN Masks(o) : Masks(o)[k] \in Layer[job.max_depth].seen
        IN  IsPlan(job) =>
                /\ direct = Cardinality({o \in values : Solvable(o)})
                /\ planned = Cardinality({o \in values : Reachable(o)})
=============================================================================
