------------------------------ MODULE MCSearch ------------------------------
(* Words of three trits.  Every target and value is asked for, from starts *)
(* and within depths and limits at and around their bounds.                *)
EXTENDS CrazySearch

Few == <<0, 1, 27, 13>>
Many == DEFAULT_SEARCH_CONSTANTS
Depth == {-1, 0, 1, 3, 9}

MCJobs ==
    {search_byte(t, 5, 26, d, l, Few) : t \in 0 .. 5, d \in Depth, l \in {0, 3}}
    \cup {search_word(t, s, d, 2, Few) : t \in Word, s \in {0, 7, 40}, d \in {2, 9}}
    \cup {runway_word(t, s, d, 1, Many) : t \in Word, s \in {0, 11}, d \in {0, 2, 5}}
    \cup {plan_increment(v, s, d, m, Few) : v \in Word, s \in {0, 5}, d \in {0, 2, 4}, m \in {0, 3, 32}}
    \cup {plan_increment(v, 0, 4, 16, Many) : v \in {1, 2}}
    \cup {increment_profile(v, c, 0, 2, 4, Few) : v \in {8, 25}, c \in {0, 4}}
=============================================================================
