------------------------------ MODULE MCBuild ------------------------------
EXTENDS Build

F(name, data) == [name |-> name, data |-> data]

(* One file; longer, with a second one that is moved; the second alone in  *)
(* the first slot and beyond the buffer; too many.                         *)
MCRoots == <<
    <<F(<<1>>, <<11, 12, 13>>)>>,
    <<F(<<1>>, <<21, 22, 23, 24, 25>>), F(<<1, 2>>, <<31>>)>>,
    <<F(<<1, 2>>, <<41, 42>>), F(<<2>>, <<51, 52, 53, 54, 55, 56, 57>>)>>,
    <<F(<<1>>, <<>>), F(<<2>>, <<>>), F(<<2, 1>>, <<>>)>>>>
=============================================================================
