------------------------------- MODULE MCMsh -------------------------------
(* Instances of the shell for TLC. *)
EXTENDS MshReference

(* One-byte builtin names: h, x, d, l, c. *)
ShortNames == [help |-> <<104>>, exit |-> <<120>>, cd |-> <<100>>,
               mfsls |-> <<108>>, mfscat |-> <<99>>]

(* Every command of one or two letters of ls is installed. *)
Installed(ls) ==
    {<<BinDir, a, 46, 109, 98>> : a \in ls}
    \cup {<<BinDir, a, b, 46, 109, 98>> : a \in ls, b \in ls}

ParserInput  == {LF, CR, SP, Slash, 97}
LetterInput  == {LF, CR, SP, 97}
ParserFiles  == Installed({97})
DispatchInput == {LF, CR, SP, 0, 97, 104, 120, 100, 108, 99}
DispatchFiles == Installed({97}) \cup {<<mfs_ls_image>>, <<mfs_cat_image>>}
=============================================================================
