-------------------------------- MODULE Msh --------------------------------
(***************************************************************************)
(* The shell scroll scrolls/msh.m8a: prompt, fused reader/parser, builtin  *)
(* dispatch and external dispatch.                                         *)
(*                                                                         *)
(* The scroll does no arithmetic.  A buffer is a chain: every free cell    *)
(* holds the address of the next one (0 in the last), a write loads that   *)
(* link, overwrites the cell and moves the cursor to the link.  So a       *)
(* cursor is only as good as the cells it has not reached yet, and the     *)
(* module keeps the cells themselves: mem is the stretch of VM memory from *)
(* cmd_path to exec_argv_term, in the order of the data section.           *)
(*                                                                         *)
(* A word below 256 is a byte, an address is at least Base >= 256, and 0   *)
(* is at once NUL, the null link and the end of argv, as in the VM.        *)
(***************************************************************************)
EXTENDS Naturals, Sequences

CONSTANTS
    NameCells,   \* cells of path_name and of cmd_name (24 in the scroll)
    ArgCells,    \* cells of arg_buf (512)
    Slots,       \* cells of exec_args (8)
    Base,        \* address of cmd_path in the assembled image
    Input,       \* the bytes the terminal may deliver
    Builtin,     \* [help, exit, cd, mfsls, mfscat -> the name's bytes]
    Files,       \* the files in /bin, as paths, and the images of the aliases
    MaxLine,     \* bound on the bytes of one line before its LF
    Faults       \* TRUE: read, fork, execve, wait4, chdir may fail

LF == 10
CR == 13
SP == 32

(* "/bin/" is one cell: nothing distinguishes its five bytes. *)
BinDir == 47

cmd_path  == Base
path_name == Base + 1
cmd_name  == path_name + NameCells
arg_buf   == cmd_name + NameCells
exec_argv == arg_buf + ArgCells
exec_args == exec_argv + 2
exec_argv_term == exec_args + Slots

Addr == cmd_path .. exec_argv_term

(* Strings outside the stretch, known by their address only. *)
m8_path       == exec_argv_term + 1
mfs_ls_image  == exec_argv_term + 2
mfs_cat_image == exec_argv_term + 3
Word == 0 .. mfs_cat_image

BuiltinNames == {"help", "exit", "cd", "mfsls", "mfscat"}

ASSUME MshAssumption ==
    /\ NameCells \in Nat /\ NameCells > 4       \* a name, ".mb" and NUL
    /\ ArgCells \in Nat \ {0} /\ Slots \in Nat \ {0}
    /\ Base \in Nat /\ Base > 255
    /\ Input \subseteq 0..255 /\ {LF, CR, SP} \subseteq Input
    /\ Builtin \in [BuiltinNames -> Seq(1..255)]
    /\ \A k \in BuiltinNames : Len(Builtin[k]) \in 1 .. NameCells - 1
    /\ MaxLine \in Nat
    /\ Faults \in BOOLEAN

(* The build installs plain names, the longest mfs.stat.mb (Makefile:27),  *)
(* and no directory under /bin (build_rootfs.py:84-92).                    *)
Slash == 47
ASSUME FilesAssumption ==
    \A f \in Files : /\ f \in Seq(Nat) /\ Len(f) <= NameCells + 1
                     /\ \A i \in 2 .. Len(f) : f[i] # Slash

VARIABLES
    pc,           \* label of the scroll, at the granularity of its traps
    mem,          \* [Addr -> Word]
    cmd_cur, path_cur, arg_cur, xcur,   \* chase cursors, 0 when exhausted
    x_slot,       \* the argv slot of the argument being read
    cmd_done, line_active, cmd_started, read_status,
    cmd_image_ptr,
    line,         \* history: bytes read since the prompt, the LF included
    room,         \* history: arg_buf cells free when the line began
    obs           \* history: what the line made the shell do

cursors == <<cmd_cur, path_cur, arg_cur, xcur, x_slot>>
flags   == <<cmd_done, line_active, cmd_started, read_status>>
history == <<line, room, obs>>
vars == <<pc, mem, cursors, flags, cmd_image_ptr, history>>

NoObs == [kind |-> "none", name |-> <<>>, args |-> <<>>]

----------------------------------------------------------------------------
(* The filesystem oracle: open succeeds exactly on the files of make_tree. *)

Tree == [x |-> {LF, CR, SP}, n |-> {LF}, r |-> {CR}, s |-> {SP}]
EqTree == {<<c, c>> : c \in UNION {{Builtin[k][i] : i \in DOMAIN Builtin[k]} :
                                       k \in BuiltinNames}}

(* What the probes of rp_space, rp_cmd and rp_arg make of a byte. *)
Class(b) ==
    IF b = 0 \/ b \notin Tree["x"] THEN "word"
    ELSE IF b \in Tree["n"] THEN "lf"
    ELSE IF b \in Tree["r"] THEN "cr"
    ELSE "sp"

(* Mutant: the drain loop probes /.m8/x. *)
IsSeparator(b) == b # 0 /\ b \in Tree["x"]

(* The drain loop probes /.m8/n only. *)
IsLF(b) == b # 0 /\ b \in Tree["n"]

----------------------------------------------------------------------------
(* Chase buffers. *)

Link(first, cells, a) == IF a = first + cells - 1 THEN 0 ELSE a + 1

Rechain(m, first, cells) ==
    [a \in Addr |-> IF a \in first .. first + cells - 1
                    THEN Link(first, cells, a) ELSE m[a]]

Store(m, a, w) == [m EXCEPT ![a] = w]

(* A chase write: nothing at an exhausted cursor; otherwise loadi saves    *)
(* the link under the cursor, storei overwrites it, the link is the cursor. *)
Put(m, cur, w)  == IF cur = 0 THEN m ELSE Store(m, cur, w)
Chase(m, cur)   == IF cur = 0 THEN 0 ELSE m[cur]

(* A word read as a C string: the runtime keeps the low byte of each cell, *)
(* and the string ends at the first zero byte.                             *)
CStr(m, a) ==
    LET end == CHOOSE e \in a .. exec_argv_term :
                   /\ m[e] % 256 = 0
                   /\ \A k \in a .. e - 1 : m[k] % 256 # 0
    IN  [i \in 1 .. end - a |-> m[a + i - 1] % 256]

(* execve's argv beyond the image: the slots before the first zero word.   *)
ArgPtrs(m) ==
    LET end == CHOOSE e \in exec_args .. exec_argv_term :
                   /\ m[e] = 0
                   /\ \A k \in exec_args .. e - 1 : m[k] # 0
    IN  [i \in 1 .. end - exec_args |-> m[exec_args + i - 1]]

Argv(m) == [i \in DOMAIN ArgPtrs(m) |-> CStr(m, ArgPtrs(m)[i])]

----------------------------------------------------------------------------
Init ==
    /\ pc = "msh_loop"
    /\ mem = [a \in Addr |-> IF a = cmd_path THEN BinDir
                             ELSE IF a = exec_argv THEN m8_path ELSE 0]
    /\ cmd_cur = 0 /\ path_cur = 0 /\ arg_cur = 0 /\ xcur = 0 /\ x_slot = 0
    /\ cmd_done = FALSE /\ line_active = FALSE /\ cmd_started = FALSE
    /\ read_status = FALSE
    /\ cmd_image_ptr = 0
    /\ line = <<>> /\ room = 0 /\ obs = NoObs

(* msh_loop and the head of read_parse: prompt, reset, rechain.  arg_buf   *)
(* is rechained only when its chain is exhausted.                          *)
ReadParse ==
    /\ pc = "msh_loop"
    /\ pc' = "rp_space"
    /\ cmd_done' = FALSE /\ line_active' = FALSE /\ cmd_started' = FALSE
    /\ read_status' = FALSE
    /\ LET m1 == Rechain(mem, cmd_name, NameCells)
           m2 == Rechain(m1, path_name, NameCells)
           m3 == Rechain(m2, exec_args, Slots)
       IN  mem' = IF arg_cur = 0 THEN Rechain(m3, arg_buf, ArgCells) ELSE m3
    /\ cmd_cur' = cmd_name /\ path_cur' = path_name /\ xcur' = exec_args
    /\ arg_cur' = IF arg_cur = 0 THEN arg_buf ELSE arg_cur
    /\ room' = exec_argv - arg_cur'
    /\ line' = <<>> /\ obs' = NoObs
    /\ UNCHANGED <<x_slot, cmd_image_ptr>>

----------------------------------------------------------------------------
(* The three read loops and the drain loop.  Each action is one byte       *)
(* delivered by read(0, input_byte, 1) and the code up to the next read.   *)

Deliver(b) ==
    /\ b \in Input
    /\ b # LF => Len(line) < MaxLine
    /\ line' = Append(line, b)
    /\ UNCHANGED <<room, obs, read_status, cmd_image_ptr>>

(* rp_cmd_write: the name goes to two chains at once. *)
RpCmdWrite(b) ==
    \/ /\ cmd_cur # 0 /\ path_cur # 0
       /\ mem' = Put(Put(mem, cmd_cur, b), path_cur, b)
       /\ cmd_cur' = Chase(mem, cmd_cur)
       /\ path_cur' = Chase(Put(mem, cmd_cur, b), path_cur)
       /\ pc' = "rp_cmd"
       /\ UNCHANGED cmd_done
    \/ /\ cmd_cur = 0 \/ path_cur = 0          \* rp_cmd_full
       /\ cmd_done' = TRUE
       /\ pc' = "rp_space"
       /\ UNCHANGED <<mem, cmd_cur, path_cur>>

(* Mutant: an overflowing argument keeps its slot. *)
RpArgWriteKept(m, s, b) ==
    /\ mem' = Put(m, arg_cur, b)
    /\ arg_cur' = Chase(m, arg_cur)
    /\ pc' = IF arg_cur # 0 THEN "rp_arg" ELSE "rp_drain"

(* rp_arg_write, on memory m, with s the slot of the open argument. *)
RpArgWrite(m, s, b) ==
    IF arg_cur # 0
    THEN /\ mem' = Put(m, arg_cur, b)
         /\ arg_cur' = Chase(m, arg_cur)
         /\ pc' = "rp_arg"
    ELSE /\ mem' = Store(m, s, 0)              \* rp_arg_drop
         /\ pc' = "rp_drain"
         /\ UNCHANGED arg_cur

RpArgStart(b) ==
    IF xcur = 0 \/ arg_cur = 0
    THEN /\ pc' = "rp_drain"
         /\ UNCHANGED <<mem, arg_cur, xcur, x_slot>>
    ELSE /\ x_slot' = xcur
         /\ xcur' = Chase(mem, xcur)
         /\ RpArgWrite(Put(mem, xcur, arg_cur), xcur, b)

RpSpace(b) ==
    /\ pc = "rp_space"
    /\ Deliver(b)
    /\ \/ /\ Class(b) = "lf"
          /\ pc' = "rp_finish"
          /\ UNCHANGED <<mem, cursors, cmd_done, line_active, cmd_started>>
       \/ /\ Class(b) = "cr"
          /\ UNCHANGED <<pc, mem, cursors, cmd_done, line_active, cmd_started>>
       \/ /\ Class(b) = "sp"
          /\ line_active' = TRUE
          /\ UNCHANGED <<pc, mem, cursors, cmd_done, cmd_started>>
       \/ /\ Class(b) = "word" /\ ~cmd_done
          /\ line_active' = TRUE /\ cmd_started' = TRUE
          /\ RpCmdWrite(b)
          /\ UNCHANGED <<arg_cur, xcur, x_slot>>
       \/ /\ Class(b) = "word" /\ cmd_done
          /\ line_active' = TRUE
          /\ RpArgStart(b)
          /\ UNCHANGED <<cmd_cur, path_cur, cmd_done, cmd_started>>

(* rp_cmd_end: NUL-terminate the name if its chain has a cell left. *)
RpCmdEnd ==
    /\ cmd_done' = TRUE
    /\ mem' = Put(mem, cmd_cur, 0)
    /\ cmd_cur' = Chase(mem, cmd_cur)

(* Mutant: CR ends the command word as a space does. *)
RpCmdCrEnds(b) ==
    /\ pc = "rp_cmd"
    /\ Deliver(b)
    /\ UNCHANGED <<arg_cur, xcur, x_slot, line_active, cmd_started>>
    /\ \/ /\ Class(b) = "lf"
          /\ pc' = "rp_finish"
          /\ UNCHANGED <<mem, cmd_cur, path_cur, cmd_done>>
       \/ /\ Class(b) \in {"cr", "sp"}
          /\ RpCmdEnd
          /\ pc' = "rp_space"
          /\ UNCHANGED path_cur
       \/ /\ Class(b) = "word"
          /\ RpCmdWrite(b)

RpCmd(b) ==
    /\ pc = "rp_cmd"
    /\ Deliver(b)
    /\ UNCHANGED <<arg_cur, xcur, x_slot, line_active, cmd_started>>
    /\ \/ /\ Class(b) = "lf"
          /\ pc' = "rp_finish"
          /\ UNCHANGED <<mem, cmd_cur, path_cur, cmd_done>>
       \/ /\ Class(b) = "cr"
          /\ UNCHANGED <<pc, mem, cmd_cur, path_cur, cmd_done>>
       \/ /\ Class(b) = "sp"
          /\ RpCmdEnd
          /\ pc' = "rp_space"
          /\ UNCHANGED path_cur
       \/ /\ Class(b) = "word"
          /\ RpCmdWrite(b)

(* Mutant: a space moves on without the NUL. *)
RpArgUnclosed(b) ==
    /\ pc = "rp_arg"
    /\ Deliver(b)
    /\ UNCHANGED <<cmd_cur, path_cur, xcur, x_slot, cmd_done, line_active, cmd_started>>
    /\ \/ /\ Class(b) \in {"lf", "cr", "sp"}
          /\ pc' = [lf |-> "rp_finish", cr |-> pc, sp |-> "rp_space"][Class(b)]
          /\ UNCHANGED <<mem, arg_cur>>
       \/ /\ Class(b) = "word"
          /\ RpArgWrite(mem, x_slot, b)

RpArg(b) ==
    /\ pc = "rp_arg"
    /\ Deliver(b)
    /\ UNCHANGED <<cmd_cur, path_cur, xcur, x_slot, cmd_done, line_active, cmd_started>>
    /\ \/ /\ Class(b) = "lf"
          /\ pc' = "rp_finish"
          /\ UNCHANGED <<mem, arg_cur>>
       \/ /\ Class(b) = "cr"
          /\ UNCHANGED <<pc, mem, arg_cur>>
       \/ /\ Class(b) = "sp" /\ arg_cur # 0    \* rp_arg_end
          /\ mem' = Put(mem, arg_cur, 0)
          /\ arg_cur' = Chase(mem, arg_cur)
          /\ pc' = "rp_space"
       \/ /\ Class(b) = "sp" /\ arg_cur = 0    \* rp_arg_drop
          /\ mem' = Store(mem, x_slot, 0)
          /\ pc' = "rp_drain"
          /\ UNCHANGED arg_cur
       \/ /\ Class(b) = "word"
          /\ RpArgWrite(mem, x_slot, b)

RpDrain(b) ==
    /\ pc = "rp_drain"
    /\ Deliver(b)
    /\ pc' = IF IsLF(b) THEN "rp_finish" ELSE "rp_drain"
    /\ UNCHANGED <<mem, cursors, cmd_done, line_active, cmd_started>>

(* read returns 0: rp_eof in the three loops, rp_drain_eof while draining. *)
ReadEof ==
    /\ \/ /\ pc \in {"rp_space", "rp_cmd", "rp_arg"}
          /\ pc' = IF line_active THEN "rp_finish" ELSE "eof"
       \/ /\ pc = "rp_drain"
          /\ pc' = "rp_finish"
    /\ UNCHANGED <<mem, cursors, flags, cmd_image_ptr, history>>

(* read returns an error: rp_fail. *)
ReadFail ==
    /\ Faults
    /\ pc \in {"rp_space", "rp_cmd", "rp_arg", "rp_drain"}
    /\ read_status' = TRUE
    /\ pc' = "after_read"
    /\ UNCHANGED <<mem, cursors, cmd_done, line_active, cmd_started,
                   cmd_image_ptr, history>>

(* Mutant: the first unfilled slot keeps its link. *)
RpFinishOpen ==
    /\ pc = "rp_finish"
    /\ pc' = "after_read"
    /\ LET name == IF cmd_done THEN 0 ELSE cmd_cur
           m1 == Put(mem, name, 0)
       IN  /\ mem' = Put(m1, arg_cur, 0)
           /\ cmd_cur' = IF cmd_done THEN cmd_cur ELSE Chase(mem, cmd_cur)
           /\ arg_cur' = Chase(m1, arg_cur)
    /\ cmd_done' = TRUE
    /\ UNCHANGED <<path_cur, xcur, x_slot, line_active, cmd_started,
                   read_status, cmd_image_ptr, history>>

(* rp_finish: close an open command word, NUL-guard the open argument,     *)
(* zero the first unfilled slot.                                           *)
RpFinish ==
    /\ pc = "rp_finish"
    /\ pc' = "after_read"
    /\ LET name == IF cmd_done THEN 0 ELSE cmd_cur
           m1 == Put(mem, name, 0)
           m2 == Put(m1, arg_cur, 0)
       IN  /\ mem' = Put(m2, xcur, 0)
           /\ cmd_cur' = IF cmd_done THEN cmd_cur ELSE Chase(mem, cmd_cur)
           /\ arg_cur' = Chase(m1, arg_cur)
    /\ cmd_done' = TRUE
    /\ UNCHANGED <<path_cur, xcur, x_slot, line_active, cmd_started,
                   read_status, cmd_image_ptr, history>>

----------------------------------------------------------------------------
(* Dispatch. *)

(* Mutant: the cell after the name is not looked at. *)
MatchesPrefix(k) ==
    \A i \in DOMAIN Builtin[k] :
        /\ mem[cmd_name + i - 1] # 0
        /\ <<Builtin[k][i], mem[cmd_name + i - 1]>> \in EqTree

(* Per-character equality through /.m8/eq, then the cell after the name    *)
(* must be NUL.                                                            *)
Matches(k) ==
    /\ \A i \in DOMAIN Builtin[k] :
           /\ mem[cmd_name + i - 1] # 0
           /\ <<Builtin[k][i], mem[cmd_name + i - 1]>> \in EqTree
    /\ mem[cmd_name + Len(Builtin[k])] = 0

(* The order of the tests in the scroll. *)
Order == <<"help", "exit", "cd", "mfsls", "mfscat">>
Handler == [help |-> "do_help", exit |-> "do_exit", cd |-> "do_cd",
            mfsls |-> "run_mfsls_alias", mfscat |-> "run_mfscat_alias"]

Dispatched ==
    IF \E i \in DOMAIN Order : Matches(Order[i])
    THEN LET first == CHOOSE i \in DOMAIN Order :
                          /\ Matches(Order[i])
                          /\ \A j \in 1 .. i - 1 : ~Matches(Order[j])
         IN  Handler[Order[first]]
    ELSE "do_external"

AfterRead ==
    /\ pc = "after_read"
    /\ pc' = IF read_status THEN "read_failed"
             ELSE IF ~cmd_started THEN "msh_loop"
             ELSE Dispatched
    /\ UNCHANGED <<mem, cursors, flags, cmd_image_ptr, history>>

Observe(kind, name, args) ==
    obs' = [kind |-> kind, name |-> name, args |-> args]

(* read_failed: a message, one second of sleep, and the prompt again. *)
ReadFailed ==
    /\ pc = "read_failed"
    /\ pc' = "msh_loop"
    /\ Observe("read_failed", <<>>, <<>>)
    /\ UNCHANGED <<mem, cursors, flags, cmd_image_ptr, line, room>>

DoHelp ==
    /\ pc = "do_help"
    /\ pc' = "msh_loop"
    /\ Observe("help", <<>>, <<>>)
    /\ UNCHANGED <<mem, cursors, flags, cmd_image_ptr, line, room>>

DoExit ==
    /\ pc \in {"do_exit", "eof"}
    /\ pc' = "exited"
    /\ Observe("exit", <<>>, <<>>)
    /\ UNCHANGED <<mem, cursors, flags, cmd_image_ptr, line, room>>

(* chdir to the first argument, or to the root; cd_failed only prints. *)
DoCd ==
    /\ pc = "do_cd"
    /\ pc' = "msh_loop"
    /\ IF mem[exec_args] = 0
       THEN Observe("cd", <<>>, <<>>)
       ELSE Observe("cd", <<>>, <<CStr(mem, mem[exec_args])>>)
    /\ UNCHANGED <<mem, cursors, flags, cmd_image_ptr, line, room>>

RunMfsAlias ==
    /\ pc \in {"run_mfsls_alias", "run_mfscat_alias"}
    /\ pc' = "run_external"
    /\ IF pc = "run_mfsls_alias"
       THEN /\ cmd_image_ptr' = mfs_ls_image
            /\ mem' = Store(mem, exec_args, 0)
       ELSE /\ cmd_image_ptr' = mfs_cat_image
            /\ UNCHANGED mem
    /\ UNCHANGED <<cursors, flags, history>>

(* do_external: chase-append ".mb" and NUL; each write checks the cursor. *)
(* After an over-long name the path runs on into cmd_name.                 *)
DoExternal ==
    /\ pc = "do_external"
    /\ pc' = "run_external"
    /\ LET m1 == Put(mem, path_cur, 46)   c1 == Chase(mem, path_cur)
           m2 == Put(m1, c1, 109)         c2 == Chase(m1, c1)
           m3 == Put(m2, c2, 98)          c3 == Chase(m2, c2)
       IN  /\ mem' = Put(m3, c3, 0)
           /\ path_cur' = Chase(m3, c3)
    /\ cmd_image_ptr' = cmd_path
    /\ UNCHANGED <<cmd_cur, arg_cur, xcur, x_slot, flags, history>>

(* The string open(2) and execve(2) get for the image. *)
Image(m, p) == IF p = cmd_path THEN CStr(m, cmd_path) ELSE <<p>>

(* A name that begins with "/", "./" or "../" leads from /bin to wherever  *)
(* the rest of it says; j cells of s stand before it.                      *)
Roams(s, j) ==
    \E p \in {<<Slash>>, <<46, Slash>>, <<46, 46, Slash>>} :
        j + Len(p) <= Len(s) /\ \A i \in 1 .. Len(p) : s[j + i] = p[i]

Directories == {<<BinDir>>, <<BinDir, 46>>, <<BinDir, 46, 46>>}

(* What open(2) may answer.  The rest of the file system is not modelled.  *)
Opens(s) ==
    IF s \in Files \cup Directories THEN {TRUE}
    ELSE IF s[1] = BinDir /\ Roams(s, 1) THEN BOOLEAN
    ELSE {FALSE}

(* run_external up to fork: the slot, the open probe, its close. *)
RunExternal ==
    /\ pc = "run_external"
    /\ mem' = Store(mem, exec_argv + 1, cmd_image_ptr)
    /\ \E found \in Opens(Image(mem', cmd_image_ptr)) :
           pc' = IF found THEN "fork" ELSE "unknown_command"
    /\ UNCHANGED <<cursors, flags, cmd_image_ptr, history>>

(* unknown_command prints the cells of cmd_name up to a zero cell, at most *)
(* all NameCells of them.                                                  *)
UnknownCommand ==
    /\ pc = "unknown_command"
    /\ pc' = "msh_loop"
    /\ LET zeros == {i \in 0 .. NameCells - 1 : mem[cmd_name + i] = 0}
           len == IF zeros = {} THEN NameCells
                  ELSE CHOOSE i \in zeros : \A j \in zeros : i <= j
       IN  Observe("unknown", [i \in 1 .. len |-> mem[cmd_name + i - 1]], <<>>)
    /\ UNCHANGED <<mem, cursors, flags, cmd_image_ptr, line, room>>

(* fork, then in the child execve with exec_argv; a failed execve exits    *)
(* 127.  The parent waits for the child.                                   *)
Fork ==
    /\ pc = "fork"
    /\ \/ /\ pc' = "wait4"
          /\ Observe("exec", Image(mem, mem[exec_argv + 1]), Argv(mem))
       \/ /\ Faults
          /\ pc' = "wait4"
          /\ Observe("exec_failed", <<>>, <<>>)
       \/ /\ Faults
          /\ pc' = "external_failed"
          /\ UNCHANGED obs
    /\ UNCHANGED <<mem, cursors, flags, cmd_image_ptr, line, room>>

Wait4 ==
    /\ pc = "wait4"
    /\ \/ pc' = "msh_loop"
       \/ Faults /\ pc' = "external_failed"
    /\ UNCHANGED <<mem, cursors, flags, cmd_image_ptr, history>>

ExternalFailed ==
    /\ pc = "external_failed"
    /\ pc' = "msh_loop"
    /\ UNCHANGED <<mem, cursors, flags, cmd_image_ptr, history>>

----------------------------------------------------------------------------
(* The process is gone; PID 1 starts another one (module Circle). *)
Exited ==
    /\ pc = "exited"
    /\ UNCHANGED vars

ReadByte == \E b \in Input : RpSpace(b) \/ RpCmd(b) \/ RpArg(b) \/ RpDrain(b)

Shell ==
    \/ ReadParse \/ RpFinish \/ AfterRead \/ ReadFailed
    \/ DoHelp \/ DoExit \/ DoCd \/ RunMfsAlias
    \/ DoExternal \/ RunExternal \/ UnknownCommand
    \/ Fork \/ Wait4 \/ ExternalFailed \/ Exited

Next == ReadByte \/ ReadEof \/ ReadFail \/ Shell

Spec == Init /\ [][Next]_vars

----------------------------------------------------------------------------
(* Properties. *)

Reading == {"rp_space", "rp_cmd", "rp_arg", "rp_drain", "rp_finish"}
Labels == Reading \cup
    {"msh_loop", "after_read", "read_failed", "do_help", "do_exit", "do_cd",
     "run_mfsls_alias", "run_mfscat_alias", "do_external", "run_external",
     "unknown_command", "fork", "wait4", "external_failed", "eof", "exited"}

NameAddr == cmd_name .. arg_buf - 1
PathAddr == path_name .. cmd_name - 1
ArgAddr  == arg_buf .. exec_argv - 1
SlotAddr == exec_args .. exec_argv_term - 1

(* Type invariant: the memory holds words, a cursor is null or an address  *)
(* of its own buffer, so no chase write of the scroll leaves its buffer.   *)
TypeOK ==
    /\ pc \in Labels
    /\ mem \in [Addr -> Word]
    /\ cmd_cur \in NameAddr \cup {0}
    /\ path_cur \in PathAddr \cup {0}
    /\ arg_cur \in ArgAddr \cup {0}
    /\ xcur \in SlotAddr \cup {0}
    /\ x_slot \in SlotAddr \cup {0}
    /\ cmd_done \in BOOLEAN /\ line_active \in BOOLEAN
    /\ cmd_started \in BOOLEAN /\ read_status \in BOOLEAN
    /\ cmd_image_ptr \in {0, cmd_path, mfs_ls_image, mfs_cat_image}

(* The cells a cursor has not reached still hold the chain. *)
Chained(first, cells, cur) ==
    cur # 0 => \A a \in cur .. first + cells - 1 : mem[a] = Link(first, cells, a)

(* Chase buffers: whatever was typed on this line and on the lines before, *)
(* the part of a buffer ahead of its cursor is an intact chain, so a write *)
(* can only move a cursor to the next cell or to null.  This is what the   *)
(* scroll relies on when it rechains arg_buf only after exhaustion         *)
(* (msh.m8a:435).                                                          *)
ChainsIntact ==
    /\ Chained(cmd_name, NameCells, cmd_cur)
    /\ Chained(path_name, NameCells, path_cur)
    /\ Chained(arg_buf, ArgCells, arg_cur)
    /\ pc \in Reading => Chained(exec_args, Slots, xcur)

(* The cells around the buffers that execve depends on: the path prefix,   *)
(* argv[0] and the word after the last slot are never overwritten.         *)
StaticCellsKept ==
    /\ mem[cmd_path] = BinDir
    /\ mem[exec_argv] = m8_path
    /\ mem[exec_argv_term] = 0

(* From a finished line on, until the next prompt. *)
LineRead == /\ pc \notin Reading \cup {"eof", "exited"}
            /\ ~read_status /\ cmd_started

(* execve's vector: once a line is read, the slots up to the first zero    *)
(* word are pointers into arg_buf.  A link left over from rechain, or a    *)
(* pointer of an earlier line, would be a bogus argument.                  *)
ArgvWellFormed ==
    LineRead =>
        \A s \in SlotAddr :
            (\A t \in exec_args .. s : mem[t] # 0) => mem[s] \in ArgAddr

(* Every argument but the last of the line is terminated by a NUL before   *)
(* the next one starts.                                                    *)
OnlyLastArgRunsOn ==
    LineRead =>
        \A s \in SlotAddr :
            (s + 1 \in SlotAddr /\ \A t \in exec_args .. s + 1 : mem[t] # 0) =>
                \E e \in mem[s] .. mem[s + 1] - 1 : mem[e] = 0

----------------------------------------------------------------------------
(* The inductive invariant behind the properties above. *)

(* Slots the line has used so far. *)
Filled(s) == xcur = 0 \/ s < xcur

(* An argument starting at p ends before the free part of arg_buf. *)
Closed(p) == \E e \in p .. exec_argv - 1 : mem[e] = 0 /\ (arg_cur # 0 => e < arg_cur)

(* While a line is read: a used slot is null (dropped) or points below the *)
(* free part of arg_buf, and the argument of every slot but the open one   *)
(* is closed.                                                              *)
SlotsFilled ==
    pc \in Reading =>
        \A s \in SlotAddr : Filled(s) =>
            mem[s] = 0 \/ (mem[s] \in ArgAddr /\ (arg_cur # 0 => mem[s] < arg_cur))

ArgsClosed ==
    pc \in {"rp_space", "rp_cmd", "rp_arg"} =>
        \A s \in SlotAddr :
            Filled(s) /\ mem[s] # 0 /\ ~(pc = "rp_arg" /\ s = x_slot) => Closed(mem[s])

ArgsApart ==
    pc \in Reading =>
        \A s \in SlotAddr :
            (s + 1 \in SlotAddr /\ Filled(s + 1) /\ mem[s] # 0 /\ mem[s + 1] # 0) =>
                \E e \in mem[s] .. mem[s + 1] - 1 : mem[e] = 0

(* The slot of the open argument is the last one used. *)
OpenSlot ==
    pc = "rp_arg" =>
        /\ x_slot \in SlotAddr
        /\ x_slot = (IF xcur = 0 THEN exec_argv_term ELSE xcur) - 1

SlotsInv == SlotsFilled /\ ArgsClosed /\ ArgsApart /\ OpenSlot
VectorInv == ArgvWellFormed /\ OnlyLastArgRunsOn

ReaderInv == ChainsIntact /\ StaticCellsKept /\ SlotsInv /\ VectorInv
=============================================================================
