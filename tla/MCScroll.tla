------------------------------ MODULE MCScroll ------------------------------
(* Words of six trits, frame words of three glyphs, the runtime's tables:  *)
(* a machine of 729 cells.  Backslash is "bs", the quote "dq".             *)
EXTENDS ScrollRun

MCCode == <<
    "+", "b", "(", "2", "9", "e", "*", "j", "1", "V", "M", "E", "K", "L",
    "y", "C", "}", ")", "8", "&", "m", "#", "~", "W", ">", "q", "x", "d",
    "R", "p", "0", "w", "k", "r", "U", "o", "[", "D", "7", ",", "X", "T",
    "c", "A", "dq", "l", "I", "bs", "v", "%", "{", "g", "J", "h", "4", "G",
    "bs", "-", "=", "O", "@", "5", "jumpm", "_", "3", "i", "<", "?", "Z",
    "'", ";", "F", "N", "Q", "u", "Y", "]", "s", "z", "f", "$", "!", "B",
    "S", "/", "|", "t", ":", "P", "n", "6", "^", "H", "a">>

MCCipher == <<
    53, 122, 93, 38, 103, 113, 116, 121, 102, 114, 36, 40, 119, 101, 52,
    123, 87, 80, 41, 72, 45, 90, 110, 44, 91, 37, 92, 51, 100, 76, 43, 81,
    59, 62, 85, 33, 112, 74, 83, 55, 50, 70, 104, 79, 65, 49, 67, 66, 54,
    118, 94, 61, 73, 95, 48, 47, 56, 124, 106, 115, 98, 57, 109, 60, 46,
    84, 86, 97, 99, 96, 117, 89, 42, 77, 75, 39, 88, 126, 120, 68, 108,
    125, 82, 69, 111, 107, 78, 58, 35, 63, 71, 34, 105, 64>>

MCXLAT1 == [k \in 0 .. 93 |-> MCCode[k + 1]]
MCXLAT2 == [k \in 0 .. 93 |-> MCCipher[k + 1]]

MCSYSCALLS == [write |-> 1, exit |-> 60]
MCSPECIALS == [A |-> ARG_A, M8_ARGC |-> M8_ABI_ARGC]
MCSyscall == (1 :> "plain") @@ (60 :> "exit")

L(kind, args) == Asm!Line(<<>>, kind, args)
At(label, kind, args) == Asm!Line(<<label>>, kind, args)
N(n) == Asm!Number(n)
Ref(name) == Asm!Name(name)

Halt0 == L("trap", <<Ref("exit"), N(0)>>)

(* The scrolls of scrolls/tests/ in small: the macro alone, the macro      *)
(* after code and data, the live cell, a chain, data of every kind.        *)
Macro(v) == <<At("start", "crazyinc", <<v>>)>>

Mid(v) ==
    <<At("start", "seta", <<N(123)>>),
      L("trap", <<Ref("write"), N(1), Ref("banner"), Asm!Expr(0, <<<<1, "banner_end">>, <<-1, "banner">>>>)>>),
      L("crazyinc", <<v>>),
      At("banner", "ascii", <<<<56, 67>>>>),
      At("banner_end", "", <<>>)>>

(* A value that is executed over on the way: filler cells and zero cells.  *)
Fallthrough(v) ==
    <<At("start", "zero", <<3>>), L("op", <<"o">>), L("crazyinc", <<v>>)>>

Cell(v) ==
    <<At("start", "crazyinc-cell", <<Ref("live"), v>>),
      At("live", "word", <<N(v)>>),
      At("neighbors", "word", <<N(0), N(0), N(0), N(0), N(0), N(0)>>)>>

(* The live cell before its neighbours' code, and one amid the code. *)
CellAmid(v) ==
    <<At("start", "crazyinc-cell", <<Ref("live"), v>>),
      At("next", "op", <<"v">>),
      At("live", "word", <<N(v)>>), L("zero", <<6>>), L("word", <<Ref("next")>>)>>

(* The live-cell example of docs/m8-spec.md: the cell before start. *)
Documented(v) ==
    <<At("live", "word", <<N(v)>>), L("word", <<N(0), N(0), N(0), N(0), N(0), N(0)>>),
      At("start", "crazyinc-cell", <<Ref("live"), v>>)>>

(* Named for a system call, a label is not seen by eval_expr. *)
Shadowed ==
    <<At("start", "seta", <<Ref("write")>>), L("trap", <<Ref("exit"), Ref("A")>>),
      At("write", "word", <<Ref("exit")>>)>>

Chain ==
    <<At("start", "rechain", <<"chain", 3>>), L("jmp", <<Ref("end")>>),
      At("chain", "zero", <<3>>),
      At("chain_end", "", <<>>),
      At("end", "", <<>>), Halt0>>

Kinds ==
    <<At("data", "ptrv", <<Ref("text"), N(-1)>>),
      At("text", "cstring", <<<<72, 105>>>>),
      At("start", "loada", <<Ref("data")>>), L("sta", <<Asm!Plus("data", 1)>>),
      L("cmpm", <<Asm!Plus("data", 1)>>), L("branchz", <<Ref("ok")>>),
      L("op", <<"v">>),
      At("ok", "lda", <<Ref("text")>>), L("op", <<"<">>), L("include", <<"tail">>)>>

MCFiles ==
    [macro1 |-> Macro(58), macro2 |-> Macro(300), macro3 |-> Macro(5),
     macro4 |-> Macro(100), macro5 |-> Macro(400), macro6 |-> Macro(728), mid |-> Mid(58),
     fall |-> Fallthrough(300), cell |-> Cell(58), cell2 |-> Cell(300),
     amid |-> CellAmid(58), shadowed |-> Shadowed,
     chain |-> Chain, kinds |-> Kinds, tail |-> <<Halt0>>,
     documented |-> Documented(58),
     loop |-> <<L("include", <<"loop2">>)>>, loop2 |-> <<L("include", <<"loop">>)>>,
     twice |-> <<At("start", "op", <<"v">>), At("again", "op", <<"o">>), At("start", "op", <<"v">>)>>,
     lost |-> <<At("start", "jmp", <<Ref("nowhere")>>)>>,
     bad |-> <<L("rechain", <<"chain", 0>>)>>]

MCArgvs == {<<>>}

(* All of them but the fragment and the documentation's example. *)
MCScrolls == DOMAIN MCFiles \ {"tail", "documented"}
DocScrolls == {"documented"}
=============================================================================
