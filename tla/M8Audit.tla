------------------------------ MODULE M8Audit ------------------------------
(***************************************************************************)
(* tools/m8audit.py, the check that every generated image has to pass, and *)
(* the line breaks that tools/m8asm.py gives an image.                     *)
(*                                                                         *)
(* A text is a sequence of lines, a line a sequence of characters.         *)
(***************************************************************************)
EXTENDS Integers, Sequences, SequencesExt, FiniteSets

CONSTANTS
    Low, Glyphs, XLAT1,     \* as in M8VM
    Width                   \* characters of a line of an image (94)

CLASSIC_OPS == {"j", "i", "*", "p", "/", "<", "v", "o"}
EXT_OPS == {"@", "!", "?", "=", "~", "#", "+", "-", "[", "]", ":", "^", "$", "jumpm"}
Space == 32

(* wrap_glyphs of m8asm.py *)
wrap_glyphs(cells) ==
    [n \in 1 .. (Len(cells) + Width - 1) \div Width |->
        SubSeq(cells, (n - 1) * Width + 1, IF n * Width < Len(cells) THEN n * Width ELSE Len(cells))]

(* What the loader reads of a text. *)
Cells(text) == SelectSeq(FlattenSeq(text), LAMBDA ch : ch # Space)

Stripped(line) == SelectSeq(line, LAMBDA ch : ch # Space)

(* A line that is a number: an optional sign, no leading zero. *)
IsDecimal(line) ==
    LET digits == IF line # <<>> /\ Head(line) \in {43, 45} THEN Tail(line) ELSE line IN
    /\ digits # <<>>
    /\ \A k \in DOMAIN digits : digits[k] \in 48 .. 57
    /\ Head(digits) = 48 => Len(digits) = 1

(* The old images: known by their header (here a sharp and a space), or by *)
(* having a number on every line, comments aside.                          *)
OLD_RAW_HEADER == <<35, Space>>

looks_like_decimal_dump(text) ==
    LET lines == SelectSeq([k \in DOMAIN text |-> Stripped(text[k])], LAMBDA l : l # <<>>)
        payload == SelectSeq(lines, LAMBDA l : Head(l) # 35)
    IN  \/ text # <<>> /\ IsPrefix(OLD_RAW_HEADER, text[1])
        \/ /\ Len(lines) >= 2 /\ Len(payload) >= 2
           /\ \A k \in DOMAIN payload : IsDecimal(payload[k])

OpOf(ch, cell) == XLAT1[(ch - Low + cell) % Glyphs]

(* Mutant: the position counts the spaces and line ends too. *)
audit_oneCountsAll(text) ==
    LET all == FlattenSeq([k \in DOMAIN text |-> Append(text[k], Space)])
        ops == [n \in {k \in DOMAIN all : all[k] # Space} |-> OpOf(all[n], n - 1)]
        bad == \E n \in DOMAIN ops : ops[n] \notin CLASSIC_OPS \cup EXT_OPS
    IN  [ok |-> ~looks_like_decimal_dump(text) /\ ~bad /\ ops # <<>>, cells |-> Cardinality(DOMAIN ops)]

audit_one(text) ==
    LET cells == Cells(text)
        ops == [n \in DOMAIN cells |-> OpOf(cells[n], n - 1)]
        bad == \E n \in DOMAIN cells :
                   cells[n] \notin Low .. Low + Glyphs - 1 \/ ops[n] \notin CLASSIC_OPS \cup EXT_OPS
    IN  [ok |-> ~looks_like_decimal_dump(text) /\ ~bad /\ cells # <<>>, cells |-> Len(cells)]

(* Texts made from an image: wrapped, cut short, indented, with one glyph  *)
(* changed into the next character, with lines of numbers, with the header. *)
Variants(image) ==
    {wrap_glyphs(SubSeq(image, 1, n)) : n \in {0, 1, Width, Len(image)} \cap 0 .. Len(image)}
    \cup {wrap_glyphs([image EXCEPT ![n] = @ + 1]) : n \in {1, 2, Len(image)} \cap 1 .. Len(image)}
    \cup {[k \in DOMAIN wrap_glyphs(image) |-> <<Space>> \o wrap_glyphs(image)[k] \o <<Space>>]}
    \cup {<<<<35>>, <<49, 50>>, <<45, 51>>>>, <<OLD_RAW_HEADER \o image>>}
=============================================================================
