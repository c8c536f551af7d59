------------------------------- MODULE MCM8VM -------------------------------
(* A machine of 27 words with 23 glyphs: the 22 operations and one glyph   *)
(* that decodes to none; two glyphs to a frame word.                       *)
EXTENDS M8VM

MCLow == 3
MCGlyphs == 23
MCCode == <<"j", "@", "i", "!", "*", "?", "p", "=", "/", "~", "<", "#", "v", "+",
            "o", "-", "[", "]", ":", "^", "$", "jumpm", "x">>
MCXLAT1 == [k \in 0 .. MCGlyphs - 1 |-> MCCode[k + 1]]
MCXLAT2 == [k \in 0 .. MCGlyphs - 1 |-> MCLow + ((7 * k + 3) % MCGlyphs)]

(* The glyph that decodes to op at address a. *)
Glyph(op, a) == CHOOSE cell \in MCLow .. MCLow + MCGlyphs - 1 :
                    MCXLAT1[(cell - MCLow + a) % MCGlyphs] = op

AllOps == {MCCode[k] : k \in 1 .. MCGlyphs}

(* A frame word below 23. *)
Word(w) == <<w + MCLow, MCLow>>
Operands == {0, 3, 8}

(* An instruction with a frame of one word, then any instruction with one, *)
(* then a jump back to cell 0: a loop that ciphers itself.                 *)
LoopImages ==
    {<<Glyph(p, 0)>> \o Word(w) \o <<Glyph(q, 3)>> \o Word(x) \o <<Glyph("!", 6)>> \o Word(0) :
        p \in AllOps, q \in AllOps, w \in Operands, x \in Operands}

(* A branch to cell 5 or on to a jump, with any mode. *)
BranchImages ==
    {<<Glyph(p, 0)>> \o Word(w) \o <<Glyph("?", 3)>> \o Word(t) \o Word(m)
        \o <<Glyph("!", 8)>> \o Word(0) :
        p \in AllOps, w \in {0, 2}, t \in {0, 3, 8}, m \in 0 .. 5}

(* A trap with its six words, then a jump back. *)
TrapImages ==
    {<<Glyph("@", 0)>> \o Word(n) \o Word(w) \o Word(x) \o Word(y) \o Word(0) \o Word(0)
        \o <<Glyph("!", 13)>> \o Word(0) :
        n \in 0 .. 6, w \in {0, 2, 13}, x \in {0, 2, 9, 14}, y \in {0, 2}}

MCImages == LoopImages \cup BranchImages \cup TrapImages \cup {<<>>, <<Glyph("o", 0)>>}

MCSyscall == (0 :> "read") @@ (1 :> "plain") @@ (2 :> "getcwd") @@ (3 :> "wait4")
             @@ (4 :> "execve") @@ (5 :> "exit")
MCResults == {-1, 0, 4}
MCArgvs == {<<>>, <<<<5>>, <<6>>>>, <<<<5, 5>>, <<6, 6>>>>, <<<<>>, <<7>>, <<8>>>>}
=============================================================================
