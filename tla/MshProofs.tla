----------------------------- MODULE MshProofs -----------------------------
(***************************************************************************)
(* Proofs about the shell, for every buffer size, every set of input bytes *)
(* and every line length: its chase buffers stay whole, a line runs the    *)
(* command it names and no other, and the program gets the arguments that  *)
(* were typed.                                                             *)
(***************************************************************************)
EXTENDS MshReference, DataFacts, FiniteSetTheorems, TLAPS

(* A step that takes longer than the usual limits is given more time, so   *)
(* that what is proved does not depend on how fast the machine is.         *)
USE SMT, Zenon, SMTT(60), ZenonT(60)

(* The data section: where each buffer lies, in linear arithmetic. *)
LEMMA Layout ==
    /\ Base \in Nat /\ Base > 255
    /\ NameCells \in Nat \ {0} /\ ArgCells \in Nat \ {0} /\ Slots \in Nat \ {0}
    /\ path_name = Base + 1
    /\ cmd_name = Base + 1 + NameCells
    /\ arg_buf = Base + 1 + 2 * NameCells
    /\ exec_argv = arg_buf + ArgCells
    /\ exec_args = exec_argv + 2
    /\ exec_argv_term = exec_args + Slots
    /\ m8_path = exec_argv_term + 1
    /\ mfs_ls_image = exec_argv_term + 2
    /\ mfs_cat_image = exec_argv_term + 3
    /\ path_name \in Nat /\ cmd_name \in Nat /\ arg_buf \in Nat
    /\ exec_argv \in Nat /\ exec_args \in Nat /\ exec_argv_term \in Nat
    /\ cmd_path = Base
  BY MshAssumption DEF path_name, cmd_name, arg_buf, exec_argv, exec_args,
     exec_argv_term, m8_path, mfs_ls_image, mfs_cat_image, cmd_path

(* What the memory and the cursor are after a chase write. *)
LEMMA PutChase ==
    ASSUME NEW m \in [Addr -> Word], NEW cur \in Addr \cup {0}, NEW w \in Word
    PROVE  /\ Put(m, cur, w) \in [Addr -> Word]
           /\ \A a \in Addr : Put(m, cur, w)[a] = IF a = cur THEN w ELSE m[a]
           /\ cur # 0 => Chase(m, cur) = m[cur]
           /\ cur = 0 => Chase(m, cur) = 0
  <1>1. 0 \notin Addr
    BY Layout DEF Addr
  <1>2. QED
    BY <1>1 DEF Put, Chase, Store

(* The same with the cells in one formula, to be cited as a whole.         *)
Written(n, m, c, w) == n \in [Addr -> Word] /\ \A a \in Addr : n[a] = IF a = c THEN w ELSE m[a]

LEMMA PutWritten ==
    ASSUME NEW m \in [Addr -> Word], NEW cur \in Addr \cup {0}, NEW w \in Word
    PROVE  Written(Put(m, cur, w), m, cur, w)
  <1>1. 0 \notin Addr
    BY Layout DEF Addr
  <1>2. QED
    BY <1>1 DEF Put, Store, Written

(* A cursor on an intact chain moves to the next cell, or to null. *)
LEMMA NextCell ==
    ASSUME NEW m \in [Addr -> Word], NEW first \in Nat, NEW cells \in Nat \ {0},
           NEW cur \in first .. first + cells - 1,
           first > 0, first .. first + cells - 1 \subseteq Addr,
           \A a \in cur .. first + cells - 1 : m[a] = Link(first, cells, a)
    PROVE  /\ Chase(m, cur) = IF cur = first + cells - 1 THEN 0 ELSE cur + 1
           /\ Chase(m, cur) \in (first .. first + cells - 1) \cup {0}
  BY DEF Chase, Link

(* A step that leaves the slots and arg_buf alone. *)
ArgsUntouched ==
    /\ mem' \in [Addr -> Word]
    /\ \A a \in Addr : a >= arg_buf /\ a # exec_argv + 1 => mem'[a] = mem[a]
    /\ mem'[cmd_path] = mem[cmd_path]
    /\ arg_cur' = arg_cur /\ xcur' = xcur /\ x_slot' = x_slot

(* A step inside the reader that leaves the argument cells alone keeps    *)
(* what is said of them.                                                   *)
LEMMA FrameReading ==
    ASSUME TypeOK, ReaderInv, ArgsUntouched,
           pc \in Reading, pc' \in Reading,
           pc' \in {"rp_space", "rp_cmd"} => pc \in {"rp_space", "rp_cmd"},
           pc' = "rp_arg" => pc = "rp_arg"
    PROVE  /\ Chained(arg_buf, ArgCells, arg_cur)'
           /\ Chained(exec_args, Slots, xcur)'
           /\ StaticCellsKept' /\ SlotsInv' /\ VectorInv'
  <1> USE Layout DEF TypeOK, Addr, Word, ArgAddr, SlotAddr, ArgsUntouched
  <1>1. Chained(arg_buf, ArgCells, arg_cur)' /\ Chained(exec_args, Slots, xcur)'
    BY DEF ReaderInv, ChainsIntact, Chained
  <1>2. StaticCellsKept'
    BY DEF ReaderInv, StaticCellsKept
  <1>3. \A s \in SlotAddr : mem'[s] = mem[s] /\ (Filled(s)' <=> Filled(s))
    BY DEF Filled
  <1>4. SlotsFilled'
    <2>1. SlotsFilled /\ arg_cur' = arg_cur
      BY DEF ReaderInv, SlotsInv
    <2>2. \A s \in SlotAddr : Filled(s) =>
              mem[s] = 0 \/ (mem[s] \in ArgAddr /\ (arg_cur # 0 => mem[s] < arg_cur))
      BY <2>1 DEF SlotsFilled
    <2> HIDE DEF TypeOK, Addr, Word, ArgAddr, SlotAddr, ArgsUntouched
    <2>3. QED
      BY <1>3, <2>1, <2>2 DEF SlotsFilled
  <1>5. ASSUME NEW p \in ArgAddr, Closed(p) PROVE Closed(p)'
    BY <1>5 DEF Closed
  <1>6. ArgsClosed'
    BY <1>3, <1>5 DEF ReaderInv, SlotsInv, SlotsFilled, ArgsClosed, Reading
  <1>7. ArgsApart'
    <2>1. ArgsApart /\ SlotsFilled
      BY DEF ReaderInv, SlotsInv
    <2>2. \A s \in SlotAddr : Filled(s) => mem[s] = 0 \/ mem[s] \in ArgAddr
      BY <2>1 DEF SlotsFilled
    <2>3. \A s \in SlotAddr : mem'[s] = mem[s]
      BY <1>3
    <2>4. \A s \in SlotAddr : s + 1 \in SlotAddr => (Filled(s + 1)' => Filled(s) /\ Filled(s + 1))
      BY DEF Filled
    <2>5. \A a \in ArgAddr : mem'[a] = mem[a]
      OBVIOUS
    <2>6. \A x, y \in ArgAddr : x .. y - 1 \subseteq ArgAddr
      OBVIOUS
    <2>7. SUFFICES ASSUME NEW s \in SlotAddr, s + 1 \in SlotAddr, Filled(s + 1)',
                          mem'[s] # 0, mem'[s + 1] # 0
                   PROVE  \E e \in mem'[s] .. mem'[s + 1] - 1 : mem'[e] = 0
      BY DEF ArgsApart
    <2> HIDE DEF TypeOK, Addr, Word, ArgAddr, SlotAddr, ArgsUntouched
    <2>8. PICK e \in mem[s] .. mem[s + 1] - 1 : mem[e] = 0
      BY <2>1, <2>3, <2>4, <2>7 DEF ArgsApart
    <2>9. mem[s] \in ArgAddr /\ mem[s + 1] \in ArgAddr
      BY <2>2, <2>3, <2>4, <2>7
    <2>10. e \in ArgAddr
      BY <2>6, <2>8, <2>9
    <2>11. QED
      BY <2>3, <2>5, <2>7, <2>8, <2>10
  <1>8. OpenSlot'
    BY DEF ReaderInv, SlotsInv, OpenSlot
  <1>9. VectorInv'
    BY DEF VectorInv, ArgvWellFormed, OnlyLastArgRunsOn, LineRead
  <1>10. QED
    BY <1>1, <1>2, <1>4, <1>6, <1>7, <1>8, <1>9 DEF SlotsInv

(* The same for a step that ends outside the reader. *)
LEMMA FrameIdle ==
    ASSUME TypeOK, ReaderInv, ArgsUntouched, pc' \notin Reading,
           LineRead' => LineRead
    PROVE  /\ Chained(arg_buf, ArgCells, arg_cur)'
           /\ StaticCellsKept' /\ SlotsInv' /\ VectorInv'
  <1> USE Layout DEF TypeOK, Addr, Word, ArgAddr, SlotAddr, ArgsUntouched
  <1>1. Chained(arg_buf, ArgCells, arg_cur)'
    BY DEF ReaderInv, ChainsIntact, Chained
  <1>2. StaticCellsKept'
    BY DEF ReaderInv, StaticCellsKept
  <1>3. SlotsInv'
    BY DEF SlotsInv, SlotsFilled, ArgsClosed, ArgsApart, OpenSlot, Reading
  <1>4. \A s \in SlotAddr : mem'[s] = mem[s]
    OBVIOUS
  <1>5. ASSUME LineRead PROVE ArgvWellFormed' /\ OnlyLastArgRunsOn'
    <2>1. /\ \A s \in SlotAddr :
                (\A t \in exec_args .. s : mem[t] # 0) => mem[s] \in ArgAddr
          /\ \A s \in SlotAddr :
                (s + 1 \in SlotAddr /\ \A t \in exec_args .. s + 1 : mem[t] # 0) =>
                    \E e \in mem[s] .. mem[s + 1] - 1 : mem[e] = 0
      BY <1>5 DEF ReaderInv, VectorInv, ArgvWellFormed, OnlyLastArgRunsOn
    <2>2. ASSUME NEW s \in SlotAddr, \A t \in exec_args .. s : mem'[t] # 0
          PROVE  mem'[s] \in ArgAddr
      <3>1. \A t \in exec_args .. s : mem[t] # 0
        BY <1>4, <2>2
      <3>2. QED
        BY <1>4, <2>1, <2>2, <3>1
    <2>3. ASSUME NEW s \in SlotAddr, s + 1 \in SlotAddr,
                 \A t \in exec_args .. s + 1 : mem'[t] # 0
          PROVE  \E e \in mem'[s] .. mem'[s + 1] - 1 : mem'[e] = 0
      <3>1. \A t \in exec_args .. s + 1 : mem[t] # 0
        BY <1>4, <2>3
      <3>2. mem[s] \in ArgAddr /\ mem[s + 1] \in ArgAddr
        <4>1. \A t \in exec_args .. s : t \in exec_args .. s + 1
          BY <2>3
        <4>2. QED
          BY <2>1, <2>3, <3>1, <4>1
      <3>3. PICK e \in mem[s] .. mem[s + 1] - 1 : mem[e] = 0
        BY <2>1, <2>3, <3>1
      <3>4. e \in ArgAddr /\ e \in Addr /\ e >= arg_buf /\ e # exec_argv + 1
        BY <3>2, <3>3
      <3>5. mem'[e] = 0
        BY <3>3, <3>4
      <3>6. mem'[s] = mem[s] /\ mem'[s + 1] = mem[s + 1]
        BY <1>4, <2>3
      <3>7. QED
        BY <3>3, <3>5, <3>6
    <2>4. QED
      BY <2>2, <2>3 DEF ArgvWellFormed, OnlyLastArgRunsOn
  <1>5a. ArgvWellFormed' /\ OnlyLastArgRunsOn'
    BY <1>5 DEF ArgvWellFormed, OnlyLastArgRunsOn
  <1>6. QED
    BY <1>1, <1>2, <1>3, <1>5a DEF VectorInv

(* rp_cmd_write keeps both name chains and nothing else moves. *)
LEMMA CmdWrite ==
    ASSUME TypeOK, ReaderInv, NEW b \in 0 .. 255, RpCmdWrite(b),
           UNCHANGED <<arg_cur, xcur, x_slot>>
    PROVE  /\ ArgsUntouched
           /\ cmd_cur' \in NameAddr \cup {0} /\ path_cur' \in PathAddr \cup {0}
           /\ Chained(cmd_name, NameCells, cmd_cur)'
           /\ Chained(path_name, NameCells, path_cur)'
           /\ pc' \in {"rp_cmd", "rp_space"}
           /\ cmd_done' \in BOOLEAN
  <1> DEFINE m1 == Put(mem, cmd_cur, b)
             m2 == Put(m1, path_cur, b)
  <1>1. /\ mem \in [Addr -> Word] /\ b \in Word
        /\ cmd_cur \in Addr \cup {0} /\ path_cur \in Addr \cup {0}
    BY Layout DEF TypeOK, Addr, Word, NameAddr, PathAddr
  <1>2. /\ m1 \in [Addr -> Word]
        /\ \A a \in Addr : m1[a] = IF a = cmd_cur THEN b ELSE mem[a]
    BY <1>1, PutChase
  <1> HIDE DEF m1
  <1>3. /\ m2 \in [Addr -> Word]
        /\ \A a \in Addr : m2[a] = IF a = path_cur THEN b ELSE m1[a]
    BY <1>1, <1>2, PutChase
  <1> HIDE DEF m2
  <1> USE Layout DEF TypeOK, Addr, Word, NameAddr, PathAddr
  <1>4. CASE cmd_cur # 0 /\ path_cur # 0
    <2>1. Chase(mem, cmd_cur) = IF cmd_cur = arg_buf - 1 THEN 0 ELSE cmd_cur + 1
      BY <1>4 DEF ReaderInv, ChainsIntact, Chained, Chase, Link
    <2>2. m1[path_cur] = mem[path_cur]
      BY <1>2, <1>4
    <2>3. Chase(m1, path_cur) = IF path_cur = cmd_name - 1 THEN 0 ELSE path_cur + 1
      BY <1>4, <2>2 DEF ReaderInv, ChainsIntact, Chained, Chase, Link
    <2>4. /\ mem' = m2
          /\ cmd_cur' = Chase(mem, cmd_cur) /\ path_cur' = Chase(m1, path_cur)
          /\ pc' = "rp_cmd" /\ cmd_done' = cmd_done
      BY <1>4 DEF RpCmdWrite, m1, m2
    <2>5. \A a \in Addr : mem'[a] = IF a \in {cmd_cur, path_cur} THEN b ELSE mem[a]
      BY <1>2, <1>3, <2>4
    <2>6. ArgsUntouched
      BY <1>3, <1>4, <2>4, <2>5 DEF ArgsUntouched
    <2>7. Chained(cmd_name, NameCells, cmd_cur)'
      BY <1>4, <2>1, <2>4, <2>5 DEF ReaderInv, ChainsIntact, Chained
    <2>8. Chained(path_name, NameCells, path_cur)'
      BY <1>4, <2>3, <2>4, <2>5 DEF ReaderInv, ChainsIntact, Chained
    <2>9. QED
      BY <1>4, <2>1, <2>3, <2>4, <2>6, <2>7, <2>8
  <1>5. CASE cmd_cur = 0 \/ path_cur = 0
    <2>1. /\ mem' = mem /\ cmd_cur' = cmd_cur /\ path_cur' = path_cur
          /\ cmd_done' = TRUE /\ pc' = "rp_space"
      BY <1>5 DEF RpCmdWrite
    <2>2. Chained(cmd_name, NameCells, cmd_cur) /\ Chained(path_name, NameCells, path_cur)
      BY DEF ReaderInv, ChainsIntact
    <2>3. Chained(cmd_name, NameCells, cmd_cur)' /\ Chained(path_name, NameCells, path_cur)'
      BY <2>1, <2>2 DEF Chained
    <2>4. ArgsUntouched
      BY <2>1 DEF ArgsUntouched
    <2>5. QED
      BY <2>1, <2>3, <2>4
  <1>6. QED
    BY <1>4, <1>5

(* rp_cmd_end, alone or at the end of the line. *)
LEMMA NameEnd ==
    ASSUME TypeOK, ReaderInv
    PROVE  LET m == Put(mem, cmd_cur, 0)  c == Chase(mem, cmd_cur) IN
           /\ m \in [Addr -> Word]
           /\ \A a \in Addr : a \notin NameAddr => m[a] = mem[a]
           /\ c \in NameAddr \cup {0}
           /\ c # 0 => \A a \in c .. arg_buf - 1 : m[a] = Link(cmd_name, NameCells, a)
  <1>1. mem \in [Addr -> Word] /\ cmd_cur \in Addr \cup {0} /\ 0 \in Word
    BY Layout DEF TypeOK, Addr, Word, NameAddr
  <1>2. /\ Put(mem, cmd_cur, 0) \in [Addr -> Word]
        /\ \A a \in Addr : Put(mem, cmd_cur, 0)[a] = IF a = cmd_cur THEN 0 ELSE mem[a]
    BY <1>1, PutChase
  <1> USE Layout DEF TypeOK, Addr, Word, NameAddr
  <1>3. Chase(mem, cmd_cur) = IF cmd_cur \in {0, arg_buf - 1} THEN 0 ELSE cmd_cur + 1
    BY DEF ReaderInv, ChainsIntact, Chained, Chase, Link
  <1>4. \A a \in Addr : a \notin NameAddr => Put(mem, cmd_cur, 0)[a] = mem[a]
    BY <1>2
  <1>5. Chase(mem, cmd_cur) \in NameAddr \cup {0}
    BY <1>3
  <1>6. cmd_cur # 0 => \A a \in cmd_cur .. arg_buf - 1 : mem[a] = Link(cmd_name, NameCells, a)
    BY DEF ReaderInv, ChainsIntact, Chained
  <1>7. \A a \in Addr : a > cmd_cur => Put(mem, cmd_cur, 0)[a] = mem[a]
    BY <1>2
  <1>8. Chase(mem, cmd_cur) # 0 => cmd_cur # 0 /\ Chase(mem, cmd_cur) = cmd_cur + 1
    BY <1>3
  <1>9. Chase(mem, cmd_cur) # 0 =>
            \A a \in Chase(mem, cmd_cur) .. arg_buf - 1 :
                Put(mem, cmd_cur, 0)[a] = Link(cmd_name, NameCells, a)
    BY <1>6, <1>7, <1>8
  <1>10. QED
    BY <1>2, <1>4, <1>5, <1>9

(* A chase write into arg_buf, on a memory m that agrees with mem there. *)
LEMMA ArgChase ==
    ASSUME TypeOK, ReaderInv, arg_cur # 0, NEW w \in Word,
           NEW m \in [Addr -> Word], \A a \in ArgAddr : m[a] = mem[a]
    PROVE  /\ Put(m, arg_cur, w) \in [Addr -> Word]
           /\ \A a \in Addr : Put(m, arg_cur, w)[a] = IF a = arg_cur THEN w ELSE m[a]
           /\ Chase(m, arg_cur) = IF arg_cur = exec_argv - 1 THEN 0 ELSE arg_cur + 1
           /\ Chase(m, arg_cur) # 0 =>
                 \A a \in Chase(m, arg_cur) .. exec_argv - 1 :
                     Put(m, arg_cur, w)[a] = Link(arg_buf, ArgCells, a)
  <1>1. arg_cur \in Addr \cup {0}
    BY Layout DEF TypeOK, Addr, ArgAddr
  <1>2. /\ Put(m, arg_cur, w) \in [Addr -> Word]
        /\ \A a \in Addr : Put(m, arg_cur, w)[a] = IF a = arg_cur THEN w ELSE m[a]
    BY <1>1, PutChase
  <1>3. \A a \in arg_cur .. exec_argv - 1 : m[a] = Link(arg_buf, ArgCells, a)
    BY Layout DEF TypeOK, ArgAddr, ReaderInv, ChainsIntact, Chained
  <1> USE Layout DEF TypeOK, Addr, ArgAddr
  <1>4. Chase(m, arg_cur) = IF arg_cur = exec_argv - 1 THEN 0 ELSE arg_cur + 1
    BY <1>3 DEF Chase, Link
  <1>5. QED
    BY <1>2, <1>3, <1>4

(* A byte or the closing NUL of the open argument. *)
LEMMA ArgExtend ==
    ASSUME TypeOK, ReaderInv, pc = "rp_arg", arg_cur # 0, NEW w \in Word,
           mem' = Put(mem, arg_cur, w), arg_cur' = Chase(mem, arg_cur),
           UNCHANGED <<xcur, x_slot>>,
           pc' = "rp_arg" \/ (pc' = "rp_space" /\ w = 0)
    PROVE  /\ mem' \in [Addr -> Word] /\ arg_cur' \in ArgAddr \cup {0}
           /\ \A a \in Addr : a < arg_buf => mem'[a] = mem[a]
           /\ Chained(arg_buf, ArgCells, arg_cur)' /\ Chained(exec_args, Slots, xcur)'
           /\ StaticCellsKept' /\ SlotsInv' /\ VectorInv'
  <1>1. /\ mem' \in [Addr -> Word]
        /\ \A a \in Addr : mem'[a] = IF a = arg_cur THEN w ELSE mem[a]
        /\ arg_cur' = IF arg_cur = exec_argv - 1 THEN 0 ELSE arg_cur + 1
        /\ arg_cur' # 0 => \A a \in arg_cur' .. exec_argv - 1 :
                               mem'[a] = Link(arg_buf, ArgCells, a)
    BY ArgChase DEF TypeOK
  <1> USE Layout DEF TypeOK, Addr, ArgAddr, SlotAddr
  <1>2. arg_cur' \in ArgAddr \cup {0}
    BY <1>1
  <1>3. Chained(arg_buf, ArgCells, arg_cur)' /\ Chained(exec_args, Slots, xcur)'
    BY <1>1 DEF ReaderInv, ChainsIntact, Chained, Reading
  <1>4. StaticCellsKept'
    BY <1>1 DEF ReaderInv, StaticCellsKept
  <1>5. \A s \in SlotAddr : mem'[s] = mem[s] /\ (Filled(s)' <=> Filled(s))
    BY <1>1 DEF Filled
  <1>6. \A s \in SlotAddr : Filled(s) /\ mem[s] # 0 => mem[s] \in ArgAddr /\ mem[s] < arg_cur
    BY DEF ReaderInv, SlotsInv, SlotsFilled, Reading
  <1>7. SlotsFilled'
    BY <1>1, <1>5, <1>6 DEF SlotsFilled
  <1>8. ArgsClosed'
    <2> SUFFICES ASSUME NEW s \in SlotAddr, Filled(s), mem[s] # 0,
                        ~(pc' = "rp_arg" /\ s = x_slot)
                 PROVE  Closed(mem[s])'
      BY <1>5 DEF ArgsClosed, Closed
    <2>1. CASE s # x_slot
      <3>1. PICK e \in mem[s] .. exec_argv - 1 : mem[e] = 0 /\ e < arg_cur
        BY <2>1 DEF ReaderInv, SlotsInv, ArgsClosed, Closed
      <3>2. e \in Addr /\ mem'[e] = 0 /\ (arg_cur' # 0 => e < arg_cur')
        BY <1>1, <1>6, <3>1
      <3>3. QED
        BY <1>5, <3>1, <3>2 DEF Closed
    <2>2. CASE s = x_slot
      <3>1. mem'[arg_cur] = 0 /\ arg_cur \in mem[s] .. exec_argv - 1
        BY <1>1, <1>6, <2>2
      <3>2. QED
        BY <1>1, <1>5, <3>1 DEF Closed
    <2>3. QED
      BY <2>1, <2>2
  <1>9. ArgsApart'
    <2> SUFFICES ASSUME NEW s \in SlotAddr, s + 1 \in SlotAddr, Filled(s + 1),
                        mem[s] # 0, mem[s + 1] # 0
                 PROVE  \E e \in mem[s] .. mem[s + 1] - 1 : mem'[e] = 0
      BY <1>5 DEF ArgsApart
    <2>1. PICK e \in mem[s] .. mem[s + 1] - 1 : mem[e] = 0
      BY DEF ReaderInv, SlotsInv, ArgsApart, Reading
    <2>2. Filled(s)
      BY DEF Filled
    <2>3. e \in Addr /\ e < arg_cur
      BY <1>6, <2>1, <2>2
    <2>4. QED
      BY <1>1, <2>1, <2>3
  <1>10. OpenSlot'
    BY DEF ReaderInv, SlotsInv, OpenSlot
  <1>11. VectorInv'
    BY DEF VectorInv, ArgvWellFormed, OnlyLastArgRunsOn, LineRead, Reading
  <1>12. QED
    BY <1>1, <1>2, <1>3, <1>4, <1>7, <1>8, <1>9, <1>10, <1>11 DEF SlotsInv

(* rp_arg_start: a slot takes the start of the argument, and the first     *)
(* byte is written.                                                        *)
LEMMA ArgStart ==
    ASSUME TypeOK, ReaderInv, pc = "rp_space", NEW b \in 0 .. 255, RpArgStart(b),
           xcur # 0, arg_cur # 0
    PROVE  /\ mem' \in [Addr -> Word] /\ arg_cur' \in ArgAddr \cup {0}
           /\ xcur' \in SlotAddr \cup {0} /\ x_slot' \in SlotAddr
           /\ pc' = "rp_arg"
           /\ \A a \in Addr : a < arg_buf => mem'[a] = mem[a]
           /\ Chained(arg_buf, ArgCells, arg_cur)' /\ Chained(exec_args, Slots, xcur)'
           /\ StaticCellsKept' /\ SlotsInv' /\ VectorInv'
  <1> DEFINE m == Put(mem, xcur, arg_cur)
  <1>1. /\ mem \in [Addr -> Word] /\ xcur \in Addr \cup {0} /\ arg_cur \in Word
        /\ b \in Word
    BY Layout DEF TypeOK, Addr, Word, SlotAddr, ArgAddr
  <1>2. /\ m \in [Addr -> Word]
        /\ \A a \in Addr : m[a] = IF a = xcur THEN arg_cur ELSE mem[a]
    BY <1>1, PutChase
  <1>3. /\ mem' = Put(m, arg_cur, b) /\ arg_cur' = Chase(m, arg_cur)
        /\ pc' = "rp_arg" /\ x_slot' = xcur /\ xcur' = Chase(mem, xcur)
    BY DEF RpArgStart, RpArgWrite
  <1> HIDE DEF m
  <1>4. \A a \in ArgAddr : m[a] = mem[a]
    BY <1>2, Layout DEF TypeOK, Addr, ArgAddr, SlotAddr
  <1>5. /\ mem' \in [Addr -> Word]
        /\ \A a \in Addr : mem'[a] = IF a = arg_cur THEN b ELSE m[a]
        /\ arg_cur' = IF arg_cur = exec_argv - 1 THEN 0 ELSE arg_cur + 1
        /\ arg_cur' # 0 => \A a \in arg_cur' .. exec_argv - 1 :
                               mem'[a] = Link(arg_buf, ArgCells, a)
    BY <1>1, <1>2, <1>3, <1>4, ArgChase
  <1> USE Layout DEF TypeOK, Addr, ArgAddr, SlotAddr
  <1>6. xcur' = IF xcur = exec_argv_term - 1 THEN 0 ELSE xcur + 1
    BY <1>3 DEF ReaderInv, ChainsIntact, Chained, Chase, Link, Reading
  <1>7. \A a \in Addr : mem'[a] = IF a = arg_cur THEN b
                                  ELSE IF a = xcur THEN arg_cur ELSE mem[a]
    BY <1>2, <1>5
  <1>8. Chained(arg_buf, ArgCells, arg_cur)'
    BY <1>5 DEF Chained
  <1>9. Chained(exec_args, Slots, xcur)'
    BY <1>6, <1>7 DEF ReaderInv, ChainsIntact, Chained, Reading
  <1>10. StaticCellsKept'
    BY <1>7 DEF ReaderInv, StaticCellsKept
  <1>11. \A s \in SlotAddr : /\ mem'[s] = IF s = xcur THEN arg_cur ELSE mem[s]
                             /\ Filled(s)' <=> (Filled(s) \/ s = xcur)
    BY <1>6, <1>7 DEF Filled
  <1>12. \A s \in SlotAddr : Filled(s) /\ mem[s] # 0 => mem[s] \in ArgAddr /\ mem[s] < arg_cur
    BY DEF ReaderInv, SlotsInv, SlotsFilled, Reading
  <1>13. SlotsFilled'
    BY <1>5, <1>11, <1>12 DEF SlotsFilled
  <1>14. ASSUME NEW s \in SlotAddr, Filled(s), mem[s] # 0
         PROVE  \E e \in mem[s] .. arg_cur - 1 : mem[e] = 0 /\ mem'[e] = 0
    <2>1. PICK e \in mem[s] .. exec_argv - 1 : mem[e] = 0 /\ e < arg_cur
      BY <1>14 DEF ReaderInv, SlotsInv, ArgsClosed, Closed
    <2>2. e \in Addr /\ e # arg_cur /\ e # xcur
      BY <1>12, <1>14, <2>1
    <2>3. QED
      BY <1>7, <1>12, <1>14, <2>1, <2>2
  <1>15. ArgsClosed'
    <2> SUFFICES ASSUME NEW s \in SlotAddr, Filled(s), mem[s] # 0, s # xcur
                 PROVE  Closed(mem[s])'
      BY <1>3, <1>11 DEF ArgsClosed, Closed
    <2>1. PICK e \in mem[s] .. arg_cur - 1 : mem'[e] = 0
      BY <1>14
    <2>2. e \in mem[s] .. exec_argv - 1 /\ (arg_cur' # 0 => e < arg_cur')
      BY <1>5, <1>12, <2>1
    <2>3. QED
      BY <1>11, <2>1, <2>2 DEF Closed
  <1>16. ArgsApart'
    <2> SUFFICES ASSUME NEW s \in SlotAddr, s + 1 \in SlotAddr, Filled(s + 1)',
                        mem'[s] # 0, mem'[s + 1] # 0
                 PROVE  \E e \in mem'[s] .. mem'[s + 1] - 1 : mem'[e] = 0
      BY DEF ArgsApart
    <2>1. s # xcur /\ mem'[s] = mem[s] /\ Filled(s)
      BY <1>11 DEF Filled
    <2>2. CASE s + 1 = xcur
      BY <1>11, <1>14, <2>1, <2>2
    <2>3. CASE s + 1 # xcur
      <3>1. Filled(s + 1) /\ mem'[s + 1] = mem[s + 1]
        BY <1>11, <2>3
      <3>2. PICK e \in mem[s] .. mem[s + 1] - 1 : mem[e] = 0
        BY <2>1, <3>1 DEF ReaderInv, SlotsInv, ArgsApart, Reading
      <3>3. e \in Addr /\ e < arg_cur /\ e # xcur
        BY <1>12, <2>1, <3>1, <3>2
      <3>4. QED
        BY <1>7, <2>1, <3>1, <3>2, <3>3
    <2>4. QED
      BY <2>2, <2>3
  <1>17. OpenSlot'
    BY <1>3, <1>6 DEF OpenSlot
  <1>18. VectorInv'
    BY <1>3 DEF VectorInv, ArgvWellFormed, OnlyLastArgRunsOn, LineRead, Reading
  <1>19. QED
    BY <1>3, <1>5, <1>6, <1>7, <1>8, <1>9, <1>10, <1>13, <1>15, <1>16, <1>17, <1>18
       DEF SlotsInv

(* rp_arg_drop: the slot of the open argument is cleared. *)
LEMMA ArgDrop ==
    ASSUME TypeOK, ReaderInv, pc = "rp_arg", mem' = Store(mem, x_slot, 0),
           UNCHANGED <<arg_cur, xcur, x_slot>>, pc' = "rp_drain"
    PROVE  /\ mem' \in [Addr -> Word]
           /\ \A a \in Addr : a < arg_buf => mem'[a] = mem[a]
           /\ Chained(arg_buf, ArgCells, arg_cur)' /\ Chained(exec_args, Slots, xcur)'
           /\ StaticCellsKept' /\ SlotsInv' /\ VectorInv'
  <1> USE Layout DEF TypeOK, Addr, Word, ArgAddr, SlotAddr
  <1>1. /\ x_slot \in SlotAddr
        /\ x_slot = (IF xcur = 0 THEN exec_argv_term ELSE xcur) - 1
    BY DEF ReaderInv, SlotsInv, OpenSlot
  <1>2. /\ mem' \in [Addr -> Word]
        /\ \A a \in Addr : mem'[a] = IF a = x_slot THEN 0 ELSE mem[a]
    BY <1>1 DEF Store
  <1>3. Chained(arg_buf, ArgCells, arg_cur)' /\ Chained(exec_args, Slots, xcur)'
    <2>1. Chained(arg_buf, ArgCells, arg_cur) /\ Chained(exec_args, Slots, xcur)
      BY DEF ReaderInv, ChainsIntact, Reading
    <2>2. arg_cur # 0 => \A a \in arg_cur .. arg_buf + ArgCells - 1 : mem'[a] = mem[a]
      BY <1>1, <1>2
    <2>3. xcur # 0 => \A a \in xcur .. exec_args + Slots - 1 : mem'[a] = mem[a]
      BY <1>1, <1>2
    <2>4. QED
      BY <2>1, <2>2, <2>3 DEF Chained
  <1>4. StaticCellsKept'
    BY <1>1, <1>2 DEF ReaderInv, StaticCellsKept
  <1>5. SlotsFilled'
    <2>1. \A s \in SlotAddr : Filled(s) =>
              mem[s] = 0 \/ (mem[s] \in ArgAddr /\ (arg_cur # 0 => mem[s] < arg_cur))
      BY DEF ReaderInv, SlotsInv, SlotsFilled, Reading
    <2>2. \A s \in SlotAddr :
              (mem'[s] = mem[s] \/ mem'[s] = 0) /\ (Filled(s)' <=> Filled(s))
      BY <1>2 DEF Filled
    <2>3. arg_cur' = arg_cur
      OBVIOUS
    <2> HIDE DEF TypeOK, Addr, Word, ArgAddr, SlotAddr
    <2>4. QED
      BY <2>1, <2>2, <2>3 DEF SlotsFilled
  <1>6. ArgsApart'
    <2> SUFFICES ASSUME NEW s \in SlotAddr, s + 1 \in SlotAddr, Filled(s + 1)',
                        mem'[s] # 0, mem'[s + 1] # 0
                 PROVE  \E e \in mem'[s] .. mem'[s + 1] - 1 : mem'[e] = 0
      BY DEF ArgsApart
    <2>1. /\ mem'[s] = mem[s] /\ mem'[s + 1] = mem[s + 1]
          /\ Filled(s) /\ Filled(s + 1)
      <3>1. s \in Addr /\ s + 1 \in Addr
        OBVIOUS
      <3>2. mem'[s] = mem[s] /\ mem'[s + 1] = mem[s + 1]
        BY <1>2, <3>1
      <3>3. xcur = 0 \/ s + 1 < xcur
        BY DEF Filled
      <3>4. xcur = 0 \/ s < xcur
        BY <3>3
      <3>5. QED
        BY <3>2, <3>3, <3>4 DEF Filled
    <2>2. PICK e \in mem[s] .. mem[s + 1] - 1 : mem[e] = 0
      BY <2>1 DEF ReaderInv, SlotsInv, ArgsApart, Reading
    <2>3. mem[s] \in ArgAddr /\ mem[s + 1] \in ArgAddr
      BY <2>1 DEF ReaderInv, SlotsInv, SlotsFilled, Reading
    <2>4. e \in Addr /\ e # x_slot
      BY <1>1, <2>2, <2>3
    <2>5. QED
      BY <1>2, <2>1, <2>2, <2>4
  <1>7. ArgsClosed' /\ OpenSlot' /\ VectorInv'
    BY DEF ArgsClosed, OpenSlot, VectorInv, ArgvWellFormed, OnlyLastArgRunsOn,
           LineRead, Reading
  <1>8. \A a \in Addr : a < arg_buf => mem'[a] = mem[a]
    BY <1>1, <1>2
  <1>9. QED
    BY <1>2, <1>3, <1>4, <1>5, <1>6, <1>7, <1>8 DEF SlotsInv

Inv == TypeOK /\ ReaderInv

(* What rechain leaves in memory. *)
LEMMA RechainCells ==
    ASSUME NEW m \in [Addr -> Word], NEW first \in Addr, NEW cells \in Nat \ {0},
           first + cells - 1 \in Addr
    PROVE  /\ Rechain(m, first, cells) \in [Addr -> Word]
           /\ \A a \in Addr : Rechain(m, first, cells)[a] =
                  IF a \in first .. first + cells - 1 THEN Link(first, cells, a) ELSE m[a]
  <1>1. \A a \in first .. first + cells - 1 : Link(first, cells, a) \in Word
    BY Layout DEF Addr, Word, Link
  <1>2. QED
    BY <1>1 DEF Rechain

(* read_parse: the buffers are chained afresh where they must be. *)
LEMMA ReadParseKeepsInv ==
    ASSUME Inv, ReadParse PROVE Inv'
  <1> DEFINE m1 == Rechain(mem, cmd_name, NameCells)
             m2 == Rechain(m1, path_name, NameCells)
             m3 == Rechain(m2, exec_args, Slots)
             m4 == Rechain(m3, arg_buf, ArgCells)
  <1>1. /\ mem \in [Addr -> Word]
        /\ cmd_name \in Addr /\ cmd_name + NameCells - 1 \in Addr
        /\ path_name \in Addr /\ path_name + NameCells - 1 \in Addr
        /\ exec_args \in Addr /\ exec_args + Slots - 1 \in Addr
        /\ arg_buf \in Addr /\ arg_buf + ArgCells - 1 \in Addr
        /\ NameCells \in Nat \ {0} /\ ArgCells \in Nat \ {0} /\ Slots \in Nat \ {0}
    BY Layout DEF Inv, TypeOK, Addr
  <1>2. /\ m1 \in [Addr -> Word]
        /\ \A a \in Addr : m1[a] = IF a \in cmd_name .. cmd_name + NameCells - 1
                                   THEN Link(cmd_name, NameCells, a) ELSE mem[a]
    BY <1>1, RechainCells
  <1> HIDE DEF m1
  <1>3. /\ m2 \in [Addr -> Word]
        /\ \A a \in Addr : m2[a] = IF a \in path_name .. path_name + NameCells - 1
                                   THEN Link(path_name, NameCells, a) ELSE m1[a]
    BY <1>1, <1>2, RechainCells
  <1> HIDE DEF m2
  <1>4. /\ m3 \in [Addr -> Word]
        /\ \A a \in Addr : m3[a] = IF a \in exec_args .. exec_args + Slots - 1
                                   THEN Link(exec_args, Slots, a) ELSE m2[a]
    BY <1>1, <1>3, RechainCells
  <1> HIDE DEF m3
  <1>5. /\ m4 \in [Addr -> Word]
        /\ \A a \in Addr : m4[a] = IF a \in arg_buf .. arg_buf + ArgCells - 1
                                   THEN Link(arg_buf, ArgCells, a) ELSE m3[a]
    BY <1>1, <1>4, RechainCells
  <1> HIDE DEF m4
  <1>6. mem' = IF arg_cur = 0 THEN m4 ELSE m3
    BY DEF ReadParse, m1, m2, m3, m4
  <1>7. mem' \in [Addr -> Word]
    BY <1>4, <1>5, <1>6
  <1>8. /\ cmd_cur' = cmd_name /\ path_cur' = path_name /\ xcur' = exec_args
        /\ arg_cur' = (IF arg_cur = 0 THEN arg_buf ELSE arg_cur)
        /\ x_slot' = x_slot /\ cmd_image_ptr' = cmd_image_ptr /\ pc' = "rp_space"
        /\ cmd_done' = FALSE /\ line_active' = FALSE /\ cmd_started' = FALSE
        /\ read_status' = FALSE
    BY DEF ReadParse
  <1>9. TypeOK'
    <2>1. /\ cmd_name \in NameAddr /\ path_name \in PathAddr
          /\ arg_buf \in ArgAddr /\ exec_args \in SlotAddr
      BY Layout DEF NameAddr, PathAddr, ArgAddr, SlotAddr
    <2>2. "rp_space" \in Labels
      BY DEF Labels, Reading
    <2>3. QED
      BY <1>7, <1>8, <2>1, <2>2 DEF Inv, TypeOK
  <1> USE Layout DEF Addr, NameAddr, PathAddr, ArgAddr, SlotAddr
  <1>10. Chained(cmd_name, NameCells, cmd_cur)'
    <2>1. \A a \in cmd_name .. cmd_name + NameCells - 1 : mem'[a] = m1[a]
      BY <1>3, <1>4, <1>5, <1>6
    <2>2. QED
      BY <1>2, <1>8, <2>1 DEF Chained
  <1>11. Chained(path_name, NameCells, path_cur)'
    <2>1. \A a \in path_name .. path_name + NameCells - 1 : mem'[a] = m2[a]
      BY <1>4, <1>5, <1>6
    <2>2. QED
      BY <1>3, <1>8, <2>1 DEF Chained
  <1>12. Chained(exec_args, Slots, xcur)'
    <2>1. \A a \in exec_args .. exec_args + Slots - 1 : mem'[a] = m3[a]
      BY <1>5, <1>6
    <2>2. QED
      BY <1>4, <1>8, <2>1 DEF Chained
  <1>13. Chained(arg_buf, ArgCells, arg_cur)'
    <2>1. CASE arg_cur = 0
      BY <1>5, <1>6, <1>8, <2>1 DEF Chained
    <2>2. CASE arg_cur # 0
      <3>1. \A a \in ArgAddr : mem'[a] = mem[a]
        BY <1>2, <1>3, <1>4, <1>6, <2>2
      <3>2. QED
        BY <1>8, <2>2, <3>1 DEF Inv, TypeOK, ReaderInv, ChainsIntact, Chained
    <2>3. QED
      BY <2>1, <2>2
  <1>14. StaticCellsKept'
    BY <1>2, <1>3, <1>4, <1>5, <1>6 DEF Inv, ReaderInv, StaticCellsKept
  <1>15. SlotsInv'
    BY <1>8 DEF SlotsInv, SlotsFilled, ArgsClosed, ArgsApart, OpenSlot, Filled
  <1>16. VectorInv'
    BY <1>8 DEF VectorInv, ArgvWellFormed, OnlyLastArgRunsOn, LineRead
  <1>17. QED
    BY <1>9, <1>10, <1>11, <1>12, <1>13, <1>14, <1>15, <1>16
       DEF Inv, ReaderInv, ChainsIntact

(* The name chains survive a step that only writes above them. *)
LEMMA NamesUntouched ==
    ASSUME Inv, mem' \in [Addr -> Word],
           \A a \in Addr : a < arg_buf => mem'[a] = mem[a],
           UNCHANGED <<cmd_cur, path_cur>>
    PROVE  Chained(cmd_name, NameCells, cmd_cur)' /\ Chained(path_name, NameCells, path_cur)'
  BY Layout DEF Inv, TypeOK, ReaderInv, ChainsIntact, Chained, NameAddr, PathAddr, Addr

(* A step that only moves between labels of the read loops. *)
LEMMA QuietReading ==
    ASSUME Inv, UNCHANGED <<mem, cursors, read_status, cmd_image_ptr>>,
           cmd_done' \in BOOLEAN, line_active' \in BOOLEAN, cmd_started' \in BOOLEAN,
           pc \in Reading, pc' \in Reading,
           pc' \in {"rp_space", "rp_cmd"} => pc \in {"rp_space", "rp_cmd"},
           pc' = "rp_arg" => pc = "rp_arg"
    PROVE  Inv'
  <1>1. TypeOK /\ ReaderInv
    BY DEF Inv
  <1>2. TypeOK'
    BY DEF Inv, TypeOK, Labels, cursors
  <1>3. ArgsUntouched
    BY <1>1 DEF TypeOK, ArgsUntouched, cursors
  <1>4. /\ Chained(arg_buf, ArgCells, arg_cur)' /\ Chained(exec_args, Slots, xcur)'
        /\ StaticCellsKept' /\ SlotsInv' /\ VectorInv'
    BY <1>1, <1>3, FrameReading
  <1>5. Chained(cmd_name, NameCells, cmd_cur)' /\ Chained(path_name, NameCells, path_cur)'
    BY <1>1, NamesUntouched DEF TypeOK, cursors
  <1>6. QED
    BY <1>2, <1>4, <1>5 DEF Inv, ReaderInv, ChainsIntact

(* rp_space: a separator, the first byte of a word, or the end of the line. *)
LEMMA RpSpaceKeepsInv ==
    ASSUME Inv, NEW b \in Input, RpSpace(b) PROVE Inv'
  <1>1. TypeOK /\ ReaderInv /\ b \in 0 .. 255 /\ pc = "rp_space"
    BY MshAssumption DEF Inv, RpSpace
  <1>2. UNCHANGED <<read_status, cmd_image_ptr>>
    BY DEF RpSpace, Deliver
  <1>3. CASE Class(b) \in {"lf", "cr", "sp"}
    <2>1. /\ UNCHANGED <<mem, cursors, cmd_done, cmd_started>>
          /\ line_active' \in BOOLEAN /\ pc' \in {"rp_space", "rp_finish"}
      BY <1>1, <1>3 DEF RpSpace, TypeOK, cursors
    <2>2. QED
      BY <1>1, <1>2, <2>1, QuietReading DEF TypeOK, Reading
  <1>4. CASE Class(b) = "word" /\ ~cmd_done
    <2>1. /\ RpCmdWrite(b) /\ UNCHANGED <<arg_cur, xcur, x_slot>>
          /\ line_active' = TRUE /\ cmd_started' = TRUE
      BY <1>4 DEF RpSpace
    <2>2. /\ ArgsUntouched
          /\ cmd_cur' \in NameAddr \cup {0} /\ path_cur' \in PathAddr \cup {0}
          /\ Chained(cmd_name, NameCells, cmd_cur)'
          /\ Chained(path_name, NameCells, path_cur)'
          /\ pc' \in {"rp_cmd", "rp_space"} /\ cmd_done' \in BOOLEAN
      BY <1>1, <2>1, CmdWrite
    <2>3. TypeOK'
      BY <1>1, <1>2, <2>1, <2>2 DEF TypeOK, Labels, Reading, ArgsUntouched
    <2>4. /\ Chained(arg_buf, ArgCells, arg_cur)' /\ Chained(exec_args, Slots, xcur)'
          /\ StaticCellsKept' /\ SlotsInv' /\ VectorInv'
      BY <1>1, <2>2, FrameReading DEF Reading
    <2>5. QED
      BY <2>2, <2>3, <2>4 DEF Inv, ReaderInv, ChainsIntact
  <1>5. CASE Class(b) = "word" /\ cmd_done
    <2>1. /\ RpArgStart(b) /\ line_active' = TRUE
          /\ UNCHANGED <<cmd_cur, path_cur, cmd_done, cmd_started>>
      BY <1>5 DEF RpSpace
    <2>2. CASE xcur = 0 \/ arg_cur = 0
      <3>1. pc' = "rp_drain" /\ UNCHANGED <<mem, arg_cur, xcur, x_slot>>
        BY <2>1, <2>2 DEF RpArgStart
      <3>2. QED
        BY <1>1, <1>2, <2>1, <3>1, QuietReading DEF TypeOK, Reading, cursors
    <2>3. CASE xcur # 0 /\ arg_cur # 0
      <3>1. /\ mem' \in [Addr -> Word] /\ arg_cur' \in ArgAddr \cup {0}
            /\ xcur' \in SlotAddr \cup {0} /\ x_slot' \in SlotAddr
            /\ pc' = "rp_arg"
            /\ \A a \in Addr : a < arg_buf => mem'[a] = mem[a]
            /\ Chained(arg_buf, ArgCells, arg_cur)' /\ Chained(exec_args, Slots, xcur)'
            /\ StaticCellsKept' /\ SlotsInv' /\ VectorInv'
        BY <1>1, <2>1, <2>3, ArgStart
      <3>2. TypeOK'
        BY <1>1, <1>2, <2>1, <3>1 DEF TypeOK, Labels, Reading
      <3>3. Chained(cmd_name, NameCells, cmd_cur)' /\ Chained(path_name, NameCells, path_cur)'
        BY <2>1, <3>1, NamesUntouched
      <3>4. QED
        BY <3>1, <3>2, <3>3 DEF Inv, ReaderInv, ChainsIntact
    <2>4. QED
      BY <2>2, <2>3
  <1>6. QED
    BY <1>3, <1>4, <1>5 DEF Class

(* rp_cmd: a byte of the command word, or its end. *)
LEMMA RpCmdKeepsInv ==
    ASSUME Inv, NEW b \in Input, RpCmd(b) PROVE Inv'
  <1>1. TypeOK /\ ReaderInv /\ b \in 0 .. 255 /\ pc = "rp_cmd"
    BY MshAssumption DEF Inv, RpCmd
  <1>2. UNCHANGED <<read_status, cmd_image_ptr, arg_cur, xcur, x_slot,
                    line_active, cmd_started>>
    BY DEF RpCmd, Deliver
  <1>3. CASE Class(b) \in {"lf", "cr"}
    <2>1. UNCHANGED <<mem, cursors, cmd_done>> /\ pc' \in {"rp_cmd", "rp_finish"}
      BY <1>1, <1>2, <1>3 DEF RpCmd, cursors
    <2>2. QED
      BY <1>1, <1>2, <2>1, QuietReading DEF TypeOK, Reading
  <1>4. CASE Class(b) = "word"
    <2>1. RpCmdWrite(b)
      BY <1>4 DEF RpCmd
    <2>2. /\ ArgsUntouched
          /\ cmd_cur' \in NameAddr \cup {0} /\ path_cur' \in PathAddr \cup {0}
          /\ Chained(cmd_name, NameCells, cmd_cur)'
          /\ Chained(path_name, NameCells, path_cur)'
          /\ pc' \in {"rp_cmd", "rp_space"} /\ cmd_done' \in BOOLEAN
      BY <1>1, <1>2, <2>1, CmdWrite
    <2>3. TypeOK'
      BY <1>1, <1>2, <2>2 DEF TypeOK, Labels, Reading, ArgsUntouched
    <2>4. /\ Chained(arg_buf, ArgCells, arg_cur)' /\ Chained(exec_args, Slots, xcur)'
          /\ StaticCellsKept' /\ SlotsInv' /\ VectorInv'
      BY <1>1, <2>2, FrameReading DEF Reading
    <2>5. QED
      BY <2>2, <2>3, <2>4 DEF Inv, ReaderInv, ChainsIntact
  <1>5. CASE Class(b) = "sp"
    <2>1. /\ mem' = Put(mem, cmd_cur, 0) /\ cmd_cur' = Chase(mem, cmd_cur)
          /\ cmd_done' = TRUE /\ pc' = "rp_space" /\ path_cur' = path_cur
      BY <1>5 DEF RpCmd, RpCmdEnd
    <2>2. /\ mem' \in [Addr -> Word]
          /\ \A a \in Addr : a \notin NameAddr => mem'[a] = mem[a]
          /\ cmd_cur' \in NameAddr \cup {0}
          /\ cmd_cur' # 0 => \A a \in cmd_cur' .. arg_buf - 1 :
                                 mem'[a] = Link(cmd_name, NameCells, a)
      BY <1>1, <2>1, NameEnd
    <2>3. TypeOK'
      BY <1>1, <1>2, <2>1, <2>2 DEF TypeOK, Labels, Reading
    <2>4. ArgsUntouched
      BY <1>2, <2>2, Layout DEF ArgsUntouched, NameAddr, Addr
    <2>5. Chained(cmd_name, NameCells, cmd_cur)'
      BY <2>2, Layout DEF Chained
    <2>6. Chained(path_name, NameCells, path_cur)'
      BY <1>1, <2>1, <2>2, Layout
         DEF TypeOK, ReaderInv, ChainsIntact, Chained, NameAddr, PathAddr, Addr
    <2>7. /\ Chained(arg_buf, ArgCells, arg_cur)' /\ Chained(exec_args, Slots, xcur)'
          /\ StaticCellsKept' /\ SlotsInv' /\ VectorInv'
      BY <1>1, <2>1, <2>4, FrameReading DEF Reading
    <2>8. QED
      BY <2>3, <2>5, <2>6, <2>7 DEF Inv, ReaderInv, ChainsIntact
  <1>6. QED
    BY <1>3, <1>4, <1>5 DEF Class

(* rp_arg: a byte of an argument, its end, or the buffer full. *)
LEMMA RpArgKeepsInv ==
    ASSUME Inv, NEW b \in Input, RpArg(b) PROVE Inv'
  <1>1. TypeOK /\ ReaderInv /\ b \in 0 .. 255 /\ pc = "rp_arg"
    BY MshAssumption DEF Inv, RpArg
  <1>2. UNCHANGED <<read_status, cmd_image_ptr, cmd_cur, path_cur, xcur, x_slot,
                    cmd_done, line_active, cmd_started>>
    BY DEF RpArg, Deliver
  <1>3. CASE Class(b) \in {"lf", "cr"}
    <2>1. UNCHANGED <<mem, cursors>> /\ pc' \in {"rp_arg", "rp_finish"}
      BY <1>1, <1>2, <1>3 DEF RpArg, cursors
    <2>2. QED
      BY <1>1, <1>2, <2>1, QuietReading DEF TypeOK, Reading
  <1>4. CASE Class(b) \in {"word", "sp"} /\ arg_cur # 0
    <2>1. PICK w \in Word :
              /\ mem' = Put(mem, arg_cur, w) /\ arg_cur' = Chase(mem, arg_cur)
              /\ pc' = "rp_arg" \/ (pc' = "rp_space" /\ w = 0)
      <3>1. b \in Word /\ 0 \in Word
        BY <1>1, Layout DEF Word
      <3>2. CASE Class(b) = "word"
        BY <1>4, <3>1, <3>2 DEF RpArg, RpArgWrite
      <3>3. CASE Class(b) = "sp"
        BY <1>4, <3>1, <3>3 DEF RpArg
      <3>4. QED
        BY <1>4, <3>2, <3>3
    <2>2. /\ mem' \in [Addr -> Word] /\ arg_cur' \in ArgAddr \cup {0}
          /\ \A a \in Addr : a < arg_buf => mem'[a] = mem[a]
          /\ Chained(arg_buf, ArgCells, arg_cur)' /\ Chained(exec_args, Slots, xcur)'
          /\ StaticCellsKept' /\ SlotsInv' /\ VectorInv'
      BY <1>1, <1>2, <1>4, <2>1, ArgExtend
    <2>3. TypeOK'
      BY <1>1, <1>2, <2>1, <2>2 DEF TypeOK, Labels, Reading
    <2>4. Chained(cmd_name, NameCells, cmd_cur)' /\ Chained(path_name, NameCells, path_cur)'
      BY <1>2, <2>2, NamesUntouched
    <2>5. QED
      BY <2>2, <2>3, <2>4 DEF Inv, ReaderInv, ChainsIntact
  <1>5. CASE Class(b) \in {"word", "sp"} /\ arg_cur = 0
    <2>1. mem' = Store(mem, x_slot, 0) /\ pc' = "rp_drain" /\ arg_cur' = arg_cur
      BY <1>5 DEF RpArg, RpArgWrite
    <2>2. /\ mem' \in [Addr -> Word]
          /\ \A a \in Addr : a < arg_buf => mem'[a] = mem[a]
          /\ Chained(arg_buf, ArgCells, arg_cur)' /\ Chained(exec_args, Slots, xcur)'
          /\ StaticCellsKept' /\ SlotsInv' /\ VectorInv'
      BY <1>1, <1>2, <2>1, ArgDrop
    <2>3. TypeOK'
      BY <1>1, <1>2, <2>1, <2>2 DEF TypeOK, Labels, Reading
    <2>4. Chained(cmd_name, NameCells, cmd_cur)' /\ Chained(path_name, NameCells, path_cur)'
      BY <1>2, <2>2, NamesUntouched
    <2>5. QED
      BY <2>2, <2>3, <2>4 DEF Inv, ReaderInv, ChainsIntact
  <1>6. QED
    BY <1>3, <1>4, <1>5 DEF Class

(* Outside the read loops, a step that leaves the buffers alone. *)
LEMMA QuietIdle ==
    ASSUME Inv, UNCHANGED <<mem, cursors, cmd_done, line_active, cmd_started, cmd_image_ptr>>,
           read_status' \in BOOLEAN, pc' \in Labels \ Reading, LineRead' => LineRead
    PROVE  Inv'
  <1>1. TypeOK /\ ReaderInv
    BY DEF Inv
  <1>2. TypeOK'
    BY <1>1 DEF TypeOK, cursors
  <1>3. ArgsUntouched
    BY <1>1 DEF TypeOK, ArgsUntouched, cursors
  <1>4. Chained(arg_buf, ArgCells, arg_cur)' /\ StaticCellsKept' /\ SlotsInv' /\ VectorInv'
    BY <1>1, <1>3, FrameIdle
  <1>5. Chained(cmd_name, NameCells, cmd_cur)' /\ Chained(path_name, NameCells, path_cur)'
    BY <1>1, NamesUntouched DEF TypeOK, cursors
  <1>6. QED
    BY <1>2, <1>4, <1>5 DEF Inv, ReaderInv, ChainsIntact

(* rp_drain and the two ways a read can end without a byte. *)
LEMMA ReadEndsKeepInv ==
    ASSUME Inv, (\E b \in Input : RpDrain(b)) \/ ReadEof \/ ReadFail PROVE Inv'
  <1>1. TypeOK
    BY DEF Inv
  <1>2. CASE \E b \in Input : RpDrain(b)
    <2>1. /\ UNCHANGED <<mem, cursors, flags, cmd_image_ptr>>
          /\ pc = "rp_drain" /\ pc' \in {"rp_drain", "rp_finish"}
      BY <1>2 DEF RpDrain, Deliver, flags
    <2>2. QED
      BY <1>1, <2>1, QuietReading DEF TypeOK, Reading, flags
  <1>3. CASE ReadEof /\ pc' = "rp_finish"
    <2>1. UNCHANGED <<mem, cursors, flags, cmd_image_ptr>> /\ pc \in Reading
      BY <1>3 DEF ReadEof, Reading
    <2>2. QED
      BY <1>1, <1>3, <2>1, QuietReading DEF TypeOK, Reading, flags
  <1>4. CASE ReadEof /\ pc' # "rp_finish"
    <2>1. UNCHANGED <<mem, cursors, flags, cmd_image_ptr>> /\ pc' = "eof"
      BY <1>4 DEF ReadEof
    <2>2. QED
      BY <1>1, <2>1, QuietIdle DEF TypeOK, LineRead, Labels, Reading, flags
  <1>5. CASE ReadFail
    <2>1. /\ UNCHANGED <<mem, cursors, cmd_done, line_active, cmd_started, cmd_image_ptr>>
          /\ pc' = "after_read" /\ read_status' = TRUE
      BY <1>5 DEF ReadFail
    <2>2. QED
      BY <1>1, <2>1, QuietIdle DEF TypeOK, LineRead, Labels, Reading
  <1>6. QED
    BY <1>2, <1>3, <1>4, <1>5

(* The steps that only move from label to label. *)
LEMMA LabelStepsKeepInv ==
    ASSUME Inv,
           \/ AfterRead \/ ReadFailed \/ DoHelp \/ DoExit \/ DoCd
           \/ UnknownCommand \/ Fork \/ Wait4 \/ ExternalFailed \/ Exited
    PROVE  Inv'
  <1>1. UNCHANGED <<mem, cursors, flags, cmd_image_ptr>>
    BY DEF AfterRead, ReadFailed, DoHelp, DoExit, DoCd, UnknownCommand, Fork, Wait4,
           ExternalFailed, Exited, vars
  <1>2. pc' \in Labels \ Reading /\ (LineRead' => LineRead)
    <2>1. CASE AfterRead
      <3>1. Dispatched \in {"do_help", "do_exit", "do_cd", "run_mfsls_alias",
                            "run_mfscat_alias", "do_external"}
        <4>1. CASE \E i \in DOMAIN Order : Matches(Order[i])
          <5> DEFINE P(i) == Matches(Order[i]) /\ \A j \in 1 .. i - 1 : ~Matches(Order[j])
          <5>1. DOMAIN Order = {1, 2, 3, 4, 5}
            BY DEF Order
          <5>2. \E i \in DOMAIN Order : P(i)
            BY <4>1, <5>1
          <5>3. (CHOOSE i \in DOMAIN Order : P(i)) \in {1, 2, 3, 4, 5}
            BY <5>1, <5>2
          <5>4. \A i \in {1, 2, 3, 4, 5} : Handler[Order[i]] \in
                    {"do_help", "do_exit", "do_cd", "run_mfsls_alias", "run_mfscat_alias"}
            BY DEF Handler, Order
          <5>5. QED
            BY <4>1, <5>3, <5>4 DEF Dispatched
        <4>2. CASE ~\E i \in DOMAIN Order : Matches(Order[i])
          BY <4>2 DEF Dispatched
        <4>3. QED
          BY <4>1, <4>2
      <3>2. QED
        BY <1>1, <2>1, <3>1 DEF AfterRead, LineRead, Labels, Reading, flags
    <2>2. CASE ReadFailed \/ DoHelp \/ DoExit \/ DoCd \/ UnknownCommand
      BY <1>1, <2>2 DEF ReadFailed, DoHelp, DoExit, DoCd, UnknownCommand,
         LineRead, Labels, Reading, flags
    <2>3. CASE Fork \/ Wait4 \/ ExternalFailed \/ Exited
      BY <1>1, <2>3 DEF Fork, Wait4, ExternalFailed, Exited, vars,
         LineRead, Labels, Reading, flags
    <2>4. QED
      BY <2>1, <2>2, <2>3
  <1>3. QED
    BY <1>1, <1>2, QuietIdle DEF Inv, TypeOK, flags

(* rp_finish: the NUL of the open argument and the end of the vector. *)
LEMMA RpFinishKeepsInv ==
    ASSUME Inv, RpFinish PROVE Inv'
  <1> DEFINE name == IF cmd_done THEN 0 ELSE cmd_cur
             m1 == Put(mem, name, 0)
             m2 == Put(m1, arg_cur, 0)
             m3 == Put(m2, xcur, 0)
  <1>1. /\ mem \in [Addr -> Word] /\ name \in Addr \cup {0} /\ arg_cur \in Addr \cup {0}
        /\ xcur \in Addr \cup {0} /\ 0 \in Word
    BY Layout DEF Inv, TypeOK, Addr, Word, NameAddr, ArgAddr, SlotAddr
  <1>2. /\ mem' = m3 /\ arg_cur' = Chase(m1, arg_cur)
        /\ cmd_cur' = (IF cmd_done THEN cmd_cur ELSE Chase(mem, cmd_cur))
        /\ pc = "rp_finish" /\ pc' = "after_read" /\ cmd_done' = TRUE
        /\ UNCHANGED <<path_cur, xcur, x_slot, line_active, cmd_started,
                       read_status, cmd_image_ptr>>
    BY DEF RpFinish
  <1>3. name \in NameAddr \cup {0}
    BY DEF Inv, TypeOK
  <1> HIDE DEF name
  <1>4. /\ m1 \in [Addr -> Word]
        /\ \A a \in Addr : m1[a] = IF a = name THEN 0 ELSE mem[a]
    BY <1>1, PutChase
  <1> HIDE DEF m1
  <1>5. /\ m2 \in [Addr -> Word]
        /\ \A a \in Addr : m2[a] = IF a = arg_cur THEN 0 ELSE m1[a]
    <2>1. m1 \in [Addr -> Word] /\ arg_cur \in Addr \cup {0} /\ 0 \in Word  BY <1>1, <1>4
    <2>. QED BY <2>1, PutChase
  <1> HIDE DEF m2
  <1>6. /\ m3 \in [Addr -> Word]
        /\ \A a \in Addr : m3[a] = IF a = xcur THEN 0 ELSE m2[a]
    <2>1. m2 \in [Addr -> Word] /\ xcur \in Addr \cup {0} /\ 0 \in Word  BY <1>1, <1>5
    <2>. QED BY <2>1, PutChase
  <1> HIDE DEF m3
  <1>7. /\ mem' \in [Addr -> Word]
        /\ \A a \in Addr : mem'[a] = IF a \in {name, arg_cur, xcur} THEN 0 ELSE mem[a]
    BY <1>2, <1>4, <1>5, <1>6
  <1>8. TypeOK /\ ReaderInv
    BY DEF Inv
  <1>9. /\ Chase(mem, cmd_cur) \in NameAddr \cup {0}
        /\ Chase(mem, cmd_cur) # 0 =>
              \A a \in Chase(mem, cmd_cur) .. arg_buf - 1 :
                  Put(mem, cmd_cur, 0)[a] = Link(cmd_name, NameCells, a)
        /\ \A a \in Addr : Put(mem, cmd_cur, 0)[a] = IF a = cmd_cur THEN 0 ELSE mem[a]
    <2>1. cmd_cur \in Addr \cup {0}
      BY <1>8, Layout DEF TypeOK, NameAddr, Addr
    <2>2. QED
      <3>1. Written(Put(mem, cmd_cur, 0), mem, cmd_cur, 0)
        BY <1>1, <2>1, PutWritten
      <3>2. QED
        BY <1>8, <3>1, NameEnd DEF Written
  <1>10. /\ arg_cur' \in ArgAddr \cup {0}
         /\ arg_cur' # 0 => arg_cur # 0 /\ arg_cur' = arg_cur + 1
    <2>1. \A a \in ArgAddr : m1[a] = mem[a]
      BY <1>3, <1>4, Layout DEF NameAddr, ArgAddr, Addr
    <2>2. CASE arg_cur # 0
      <3>1. arg_cur' = IF arg_cur = exec_argv - 1 THEN 0 ELSE arg_cur + 1
        BY <1>1, <1>2, <1>4, <1>8, <2>1, <2>2, ArgChase
      <3>2. QED
        BY <1>8, <2>2, <3>1, Layout DEF TypeOK, ArgAddr
    <2>3. CASE arg_cur = 0
      BY <1>2, <2>3 DEF Chase
    <2>4. QED
      BY <2>2, <2>3
  <1>11. TypeOK'
    BY <1>2, <1>7, <1>8, <1>9, <1>10 DEF TypeOK, Labels
  <1> USE Layout DEF Addr, NameAddr, PathAddr, ArgAddr, SlotAddr
  <1>12. Chained(cmd_name, NameCells, cmd_cur)'
    <2>1. CASE cmd_done
      BY <1>2, <1>7, <1>8, <2>1 DEF TypeOK, ReaderInv, ChainsIntact, Chained, name
    <2>2. CASE ~cmd_done
      <3>1. \A a \in NameAddr : mem'[a] = Put(mem, cmd_cur, 0)[a]
        BY <1>7, <1>8, <1>9, <2>2 DEF TypeOK, name
      <3>2. QED
        BY <1>2, <1>9, <2>2, <3>1 DEF Chained
    <2>3. QED
      BY <2>1, <2>2
  <1>13. Chained(path_name, NameCells, path_cur)'
    BY <1>2, <1>3, <1>7, <1>8 DEF TypeOK, ReaderInv, ChainsIntact, Chained
  <1>14. Chained(arg_buf, ArgCells, arg_cur)'
    BY <1>3, <1>7, <1>8, <1>10 DEF TypeOK, ReaderInv, ChainsIntact, Chained
  <1>15. StaticCellsKept'
    BY <1>3, <1>7, <1>8 DEF TypeOK, ReaderInv, StaticCellsKept
  <1>16. SlotsInv'
    BY <1>2 DEF SlotsInv, SlotsFilled, ArgsClosed, ArgsApart, OpenSlot, Reading
  <1>17. ASSUME NEW s \in SlotAddr, \A t \in exec_args .. s : mem'[t] # 0
         PROVE  Filled(s) /\ mem'[s] = mem[s] /\ mem[s] \in ArgAddr
    <2>1. s \in exec_args .. s /\ mem'[s] # 0
      BY <1>17
    <2>2. Filled(s)
      <3>1. CASE xcur # 0 /\ xcur <= s
        BY <1>7, <1>8, <1>17, <3>1 DEF TypeOK
      <3>2. QED
        BY <1>8, <3>1 DEF Filled, TypeOK
    <2>3. mem'[s] = mem[s]
      BY <1>7, <2>1
    <2>4. QED
      BY <1>2, <1>8, <2>1, <2>2, <2>3 DEF ReaderInv, SlotsInv, SlotsFilled, Reading
  <1>18. ArgvWellFormed'
    BY <1>17 DEF ArgvWellFormed
  <1>19. OnlyLastArgRunsOn'
    <2> SUFFICES ASSUME NEW s \in SlotAddr, s + 1 \in SlotAddr,
                        \A t \in exec_args .. s + 1 : mem'[t] # 0
                 PROVE  \E e \in mem'[s] .. mem'[s + 1] - 1 : mem'[e] = 0
      BY DEF OnlyLastArgRunsOn
    <2>1. \A t \in exec_args .. s : mem'[t] # 0
      OBVIOUS
    <2>2. /\ mem'[s] = mem[s] /\ mem[s] \in ArgAddr
          /\ Filled(s + 1) /\ mem'[s + 1] = mem[s + 1] /\ mem[s + 1] \in ArgAddr
      BY <1>17, <2>1
    <2>3. PICK e \in mem[s] .. mem[s + 1] - 1 : mem[e] = 0
      BY <1>2, <1>8, <2>2 DEF ReaderInv, SlotsInv, ArgsApart, Reading
    <2>4. e \in Addr
      BY <2>2, <2>3
    <2>5. QED
      BY <1>7, <2>2, <2>3, <2>4
  <1>20. QED
    BY <1>2, <1>11, <1>12, <1>13, <1>14, <1>15, <1>16, <1>18, <1>19
       DEF Inv, ReaderInv, ChainsIntact, VectorInv, Reading

(* A memory that differs from mem in path_name only, with an intact chain  *)
(* from cursor c on.                                                       *)
PathOK(m, c) ==
    /\ m \in [Addr -> Word] /\ c \in PathAddr \cup {0}
    /\ \A a \in Addr : a \notin PathAddr => m[a] = mem[a]
    /\ c # 0 => \A a \in c .. cmd_name - 1 : m[a] = Link(path_name, NameCells, a)

(* A chase write into the path keeps its chain. *)
LEMMA PathStep ==
    ASSUME NEW m, NEW c, NEW w \in Word, PathOK(m, c)
    PROVE  PathOK(Put(m, c, w), Chase(m, c))
  <1>1. m \in [Addr -> Word] /\ c \in PathAddr \cup {0} /\ c \in Addr \cup {0}
    BY Layout DEF PathOK, PathAddr, Addr
  <1>2. /\ Put(m, c, w) \in [Addr -> Word]
        /\ \A a \in Addr : Put(m, c, w)[a] = IF a = c THEN w ELSE m[a]
    BY <1>1, PutChase
  <1>3. Chase(m, c) = IF c \in {0, cmd_name - 1} THEN 0 ELSE c + 1
    BY <1>1, Layout DEF PathOK, PathAddr, Chase, Link
  <1>4. QED
    BY <1>1, <1>2, <1>3, Layout DEF PathOK, PathAddr, Addr

(* do_external: the suffix is appended to the path. *)
LEMMA DoExternalKeepsInv ==
    ASSUME Inv, DoExternal PROVE Inv'
  <1> DEFINE m1 == Put(mem, path_cur, 46)  c1 == Chase(mem, path_cur)
             m2 == Put(m1, c1, 109)        c2 == Chase(m1, c1)
             m3 == Put(m2, c2, 98)         c3 == Chase(m2, c2)
  <1>1. 0 \in Word /\ 46 \in Word /\ 109 \in Word /\ 98 \in Word
    BY Layout DEF Word
  <1>2. PathOK(mem, path_cur)
    BY Layout DEF PathOK, Inv, TypeOK, ReaderInv, ChainsIntact, Chained
  <1>3. PathOK(m1, c1)
    BY <1>1, <1>2, PathStep
  <1>4. PathOK(m2, c2)
    <2> HIDE DEF m1, c1
    <2> QED BY <1>1, <1>3, PathStep
  <1>5. PathOK(m3, c3)
    <2> HIDE DEF m1, c1
    <2> HIDE DEF m2, c2
    <2> QED BY <1>1, <1>4, PathStep
  <1>6. PathOK(Put(m3, c3, 0), Chase(m3, c3))
    <2> HIDE DEF m3, c3
    <2> QED BY <1>1, <1>5, PathStep
  <1>7. /\ mem' = Put(m3, c3, 0) /\ path_cur' = Chase(m3, c3)
        /\ pc = "do_external" /\ pc' = "run_external" /\ cmd_image_ptr' = cmd_path
        /\ UNCHANGED <<cmd_cur, arg_cur, xcur, x_slot, flags>>
    BY DEF DoExternal
  <1> HIDE DEF m1, m2, m3, c1, c2, c3
  <1>8. /\ mem' \in [Addr -> Word] /\ path_cur' \in PathAddr \cup {0}
        /\ \A a \in Addr : a \notin PathAddr => mem'[a] = mem[a]
        /\ path_cur' # 0 => \A a \in path_cur' .. cmd_name - 1 :
                                mem'[a] = Link(path_name, NameCells, a)
    BY <1>6, <1>7 DEF PathOK
  <1>9. TypeOK /\ ReaderInv
    BY DEF Inv
  <1>10. TypeOK'
    BY <1>7, <1>8, <1>9 DEF TypeOK, Labels, flags
  <1>11. ArgsUntouched
    BY <1>7, <1>8, Layout DEF ArgsUntouched, PathAddr, Addr
  <1>12. pc' \notin Reading /\ (LineRead' => LineRead)
    BY <1>7 DEF LineRead, Reading, flags
  <1>13. Chained(arg_buf, ArgCells, arg_cur)' /\ StaticCellsKept' /\ SlotsInv' /\ VectorInv'
    BY <1>9, <1>11, <1>12, FrameIdle
  <1>14. Chained(path_name, NameCells, path_cur)'
    BY <1>8, Layout DEF Chained
  <1>15. Chained(cmd_name, NameCells, cmd_cur)'
    BY <1>7, <1>8, <1>9, Layout
       DEF TypeOK, ReaderInv, ChainsIntact, Chained, NameAddr, PathAddr, Addr
  <1>16. QED
    BY <1>10, <1>12, <1>13, <1>14, <1>15 DEF Inv, ReaderInv, ChainsIntact

(* run_external: the image goes into the vector. *)
LEMMA RunExternalKeepsInv ==
    ASSUME Inv, RunExternal PROVE Inv'
  <1>1. TypeOK /\ ReaderInv
    BY DEF Inv
  <1>2. /\ pc = "run_external" /\ pc' \in {"fork", "unknown_command"}
        /\ mem' = Store(mem, exec_argv + 1, cmd_image_ptr)
        /\ UNCHANGED <<cursors, flags, cmd_image_ptr>>
    BY DEF RunExternal
  <1>3. cmd_image_ptr \in Word /\ exec_argv + 1 \in Addr
    BY <1>1, Layout DEF TypeOK, Word, Addr
  <1>4. /\ mem' \in [Addr -> Word]
        /\ \A a \in Addr : a # exec_argv + 1 => mem'[a] = mem[a]
    BY <1>1, <1>2, <1>3 DEF TypeOK, Store
  <1>5. TypeOK'
    BY <1>1, <1>2, <1>4 DEF TypeOK, Labels, flags, cursors
  <1>6. ArgsUntouched
    BY <1>2, <1>4, Layout DEF ArgsUntouched, Addr, cursors
  <1>7. pc' \notin Reading /\ (LineRead' => LineRead)
    BY <1>2 DEF LineRead, Reading, flags
  <1>8. Chained(arg_buf, ArgCells, arg_cur)' /\ StaticCellsKept' /\ SlotsInv' /\ VectorInv'
    BY <1>1, <1>6, <1>7, FrameIdle
  <1>9. \A a \in Addr : a < arg_buf => mem'[a] = mem[a]
    BY <1>4, Layout DEF Addr
  <1>10. Chained(cmd_name, NameCells, cmd_cur)' /\ Chained(path_name, NameCells, path_cur)'
    BY <1>2, <1>4, <1>9, NamesUntouched DEF cursors
  <1>11. QED
    BY <1>5, <1>7, <1>8, <1>10 DEF Inv, ReaderInv, ChainsIntact

(* run_mfsls_alias and run_mfscat_alias: a fixed image goes into the vector. *)
LEMMA RunMfsAliasKeepsInv ==
    ASSUME Inv, RunMfsAlias PROVE Inv'
  <1>1. TypeOK /\ ReaderInv
    BY DEF Inv
  <1>2. /\ pc' = "run_external" /\ UNCHANGED <<cursors, flags>>
        /\ pc \in {"run_mfsls_alias", "run_mfscat_alias"}
        /\ cmd_image_ptr' \in {mfs_ls_image, mfs_cat_image}
        /\ mem' = mem \/ mem' = Store(mem, exec_args, 0)
    BY DEF RunMfsAlias
  <1>3. exec_args \in Addr /\ 0 \in Word
    BY Layout DEF Word, Addr
  <1>4. /\ mem' \in [Addr -> Word]
        /\ \A a \in Addr : mem'[a] = mem[a] \/ (a = exec_args /\ mem'[exec_args] = 0)
        /\ \A a \in Addr : a # exec_args => mem'[a] = mem[a]
    BY <1>1, <1>2, <1>3 DEF TypeOK, Store
  <1>5. TypeOK'
    BY <1>1, <1>2, <1>4 DEF TypeOK, Labels, flags, cursors
  <1>6. CASE mem' = mem
    <2>1. ArgsUntouched
      BY <1>2, <1>4, <1>6 DEF ArgsUntouched, cursors
    <2>2. pc' \notin Reading /\ (LineRead' => LineRead)
      BY <1>2 DEF LineRead, Reading, flags
    <2>3. Chained(arg_buf, ArgCells, arg_cur)' /\ StaticCellsKept' /\ SlotsInv' /\ VectorInv'
      BY <1>1, <2>1, <2>2, FrameIdle
    <2>4. Chained(cmd_name, NameCells, cmd_cur)' /\ Chained(path_name, NameCells, path_cur)'
      BY <1>2, <1>4, <1>6, NamesUntouched DEF cursors
    <2>5. QED
      BY <1>5, <2>2, <2>3, <2>4 DEF Inv, ReaderInv, ChainsIntact
  <1>7. CASE mem' # mem
    <2>1. mem'[exec_args] = 0
      BY <1>1, <1>2, <1>3, <1>7 DEF TypeOK, Store
    <2>2. Chained(arg_buf, ArgCells, arg_cur)'
      BY <1>1, <1>2, <1>4, Layout
         DEF TypeOK, ReaderInv, ChainsIntact, Chained, ArgAddr, Addr, cursors
    <2>3. \A a \in Addr : a < arg_buf => mem'[a] = mem[a]
      BY <1>4, Layout DEF Addr
    <2>4. Chained(cmd_name, NameCells, cmd_cur)' /\ Chained(path_name, NameCells, path_cur)'
      BY <1>2, <1>4, <2>3, NamesUntouched DEF cursors
    <2>5. StaticCellsKept'
      BY <1>1, <1>4, Layout DEF ReaderInv, StaticCellsKept, Addr
    <2>6. SlotsInv'
      BY <1>2 DEF SlotsInv, SlotsFilled, ArgsClosed, ArgsApart, OpenSlot, Reading
    <2>7. VectorInv'
      BY <2>1, Layout DEF VectorInv, ArgvWellFormed, OnlyLastArgRunsOn, SlotAddr
    <2>8. QED
      BY <1>2, <1>5, <2>2, <2>4, <2>5, <2>6, <2>7
         DEF Inv, ReaderInv, ChainsIntact, Reading
  <1>8. QED
    BY <1>6, <1>7

(* The data section of the scroll satisfies the invariant. *)
LEMMA InitInv == Init => Inv
  <1> SUFFICES ASSUME Init PROVE Inv
    OBVIOUS
  <1>1. mem \in [Addr -> Word]
    <2>1. BinDir \in Word /\ m8_path \in Word /\ 0 \in Word
      BY Layout DEF Word, BinDir
    <2>2. QED
      BY <2>1 DEF Init
  <1>2. TypeOK
    BY <1>1 DEF Init, TypeOK, Labels
  <1>3. StaticCellsKept
    BY Layout DEF Init, StaticCellsKept, Addr
  <1>4. ChainsIntact
    BY DEF Init, ChainsIntact, Chained
  <1>5. SlotsInv
    BY DEF Init, SlotsInv, SlotsFilled, ArgsClosed, ArgsApart, OpenSlot, Reading
  <1>6. VectorInv
    BY DEF Init, VectorInv, ArgvWellFormed, OnlyLastArgRunsOn, LineRead
  <1>7. QED
    BY <1>2, <1>3, <1>4, <1>5, <1>6 DEF Inv, ReaderInv

(* Every action of the shell keeps the invariant. *)
LEMMA NextKeepsInv == Inv /\ [Next]_vars => Inv'
  <1> SUFFICES ASSUME Inv, [Next]_vars PROVE Inv'
    OBVIOUS
  <1>1. CASE ReadByte
    BY <1>1, RpSpaceKeepsInv, RpCmdKeepsInv, RpArgKeepsInv, ReadEndsKeepInv DEF ReadByte
  <1>2. CASE ReadEof \/ ReadFail
    BY <1>2, ReadEndsKeepInv
  <1>3. CASE Shell
    BY <1>3, ReadParseKeepsInv, RpFinishKeepsInv, LabelStepsKeepInv, RunMfsAliasKeepsInv,
       DoExternalKeepsInv, RunExternalKeepsInv DEF Shell
  <1>4. CASE UNCHANGED vars
    BY <1>4 DEF vars, cursors, flags, history, Inv, TypeOK, ReaderInv, ChainsIntact, Chained,
       StaticCellsKept, SlotsInv, SlotsFilled, ArgsClosed, ArgsApart, OpenSlot, VectorInv,
       ArgvWellFormed, OnlyLastArgRunsOn, LineRead, Filled, Closed
  <1>5. QED
    BY <1>1, <1>2, <1>3, <1>4 DEF Next

(* The shell's memory keeps its types: whatever is typed, every chase      *)
(* cursor stays inside its own buffer or is null.                          *)
THEOREM MshTypeCorrect == Spec => []TypeOK
  <1>1. Inv => TypeOK
    BY DEF Inv
  <1>2. QED
    BY <1>1, InitInv, NextKeepsInv, PTL DEF Spec

(* Reader invariant: chains ahead of the cursors are intact, the cells     *)
(* around the buffers are never overwritten, and the execve vector built   *)
(* for a line consists of pointers into arg_buf whose strings, the last    *)
(* one excepted, end before the next one starts.                           *)
THEOREM MshReaderSafe == Spec => []ReaderInv
  <1>1. Inv => ReaderInv
    BY DEF Inv
  <1>2. QED
    BY <1>1, InitInv, NextKeepsInv, PTL DEF Spec

(* The three parts of the invariant a user of the shell depends on. *)
THEOREM MshVectorSafe ==
    Spec => [](ChainsIntact /\ StaticCellsKept /\ ArgvWellFormed /\ OnlyLastArgRunsOn)
  <1>1. ReaderInv => ChainsIntact /\ StaticCellsKept /\ ArgvWellFormed /\ OnlyLastArgRunsOn
    BY DEF ReaderInv, VectorInv
  <1>2. QED
    BY <1>1, MshReaderSafe, PTL

(* The parts of it that the runs check one by one.  The links ahead of the *)
(* cursors are those that rechain made (msh.m8a:437 relies on it).         *)
THEOREM MshChainsIntact == Spec => []ChainsIntact
  BY MshVectorSafe, PTL

(* The path prefix, argv[0] and the terminator of the vector survive every *)
(* line (msh.m8a:767-784).                                                 *)
THEOREM MshStaticCells == Spec => []StaticCellsKept
  BY MshVectorSafe, PTL

(* Only the last argument of a line may lack its NUL (msh.m8a:643). *)
THEOREM MshOnlyLastRunsOn == Spec => []OnlyLastArgRunsOn
  BY MshVectorSafe, PTL

----------------------------------------------------------------------------
(* Text and words: what the reference definitions do with one byte more.   *)

(* h is the table behind Text(l), up to m.                                 *)
IsText(l, h, m) ==
    h = [n \in 0 .. m |-> IF n = 0 THEN <<>>
                          ELSE IF l[n] \in {CR, LF} THEN h[n-1] ELSE Append(h[n-1], l[n])]

(* The text of every prefix of a line exists, as one function of its       *)
(* length.                                                                 *)
LEMMA TextExists ==
    ASSUME NEW l, NEW m \in Nat
    PROVE  \E h : IsText(l, h, m)
<1>. DEFINE Ok == {k \in Nat : \E h : IsText(l, h, k)}
            At(h, n) == IF n = 0 THEN <<>>
                        ELSE IF l[n] \in {CR, LF} THEN h[n-1] ELSE Append(h[n-1], l[n])
<1>1. 0 \in Ok
  <2>. DEFINE h == [n \in 0 .. 0 |-> <<>>]
  <2>1. h = [n \in 0 .. 0 |-> At(h, n)]  OBVIOUS
  <2>. QED BY <2>1 DEF IsText
<1>2. ASSUME NEW k \in Nat, k \in Ok PROVE k + 1 \in Ok
  <2>1. PICK h : IsText(l, h, k)  BY <1>2
  <2>. DEFINE g == [i \in 0 .. k+1 |-> IF i = k+1 THEN At(h, k+1) ELSE h[i]]
  <2>2. ASSUME NEW i \in 0 .. k+1 PROVE g[i] = At(g, i)
    <3>1. i # 0 => i - 1 \in 0 .. k+1 /\ i - 1 # k+1  OBVIOUS
    <3>2. i # 0 => g[i-1] = h[i-1]  BY <3>1
    <3>3. At(g, i) = At(h, i)  BY <3>2
    <3>4. CASE i = k + 1  BY <3>3, <3>4
    <3>5. CASE i \in 0 .. k
      <4>1. g[i] = h[i]  BY <3>5
      <4>2. h[i] = At(h, i)  BY <2>1, <3>5 DEF IsText
      <4>. QED BY <3>3, <4>1, <4>2
    <3>. QED BY <3>4, <3>5
  <2>3. g = [i \in 0 .. k+1 |-> g[i]]  OBVIOUS
  <2>. HIDE DEF g
  <2>4. IsText(l, g, k + 1)  BY <2>2, <2>3 DEF IsText
  <2>. QED BY <2>4
<1>. HIDE DEF Ok
<1>3. m \in Ok  BY <1>1, <1>2, SetInduction
<1>. QED BY <1>3 DEF Ok

(* The texts of two lines that begin alike begin alike. *)
LEMMA TextAgrees ==
    ASSUME NEW l, NEW g, NEW k, NEW h, NEW m \in Nat, NEW n \in Nat, m <= n,
           \A i \in 1 .. m : l[i] = k[i], IsText(l, g, m), IsText(k, h, n)
    PROVE  \A i \in 0 .. m : g[i] = h[i]
<1>. DEFINE S == {i \in 0 .. m : g[i] = h[i]}
<1>1. 0 \in S  BY DEF IsText
<1>2. ASSUME NEW i \in 0 .. m - 1, i \in S PROVE i + 1 \in S
  <2>1. i + 1 \in 0 .. m /\ i + 1 \in 0 .. n /\ i + 1 # 0 /\ (i + 1) - 1 = i
    OBVIOUS
  <2>2. g[i+1] = IF l[i+1] \in {CR, LF} THEN g[i] ELSE Append(g[i], l[i+1])
    BY <2>1 DEF IsText
  <2>3. h[i+1] = IF k[i+1] \in {CR, LF} THEN h[i] ELSE Append(h[i], k[i+1])
    BY <2>1 DEF IsText
  <2>4. l[i+1] = k[i+1] /\ g[i] = h[i]  BY <1>2
  <2>. QED BY <2>1, <2>2, <2>3, <2>4
<1>. HIDE DEF S
<1>3. 0 .. m \subseteq S  BY <1>1, <1>2, BoundedInduction
<1>. QED BY <1>3 DEF S

(* No bytes, no text.                                                      *)
LEMMA TextEmpty == Text(<<>>) = <<>>
<1>. DEFINE H == CHOOSE h : IsText(<<>>, h, 0)
<1>1. IsText(<<>>, H, 0)  BY TextExists
<1>2. Text(<<>>) = H[0]  BY DEF Text, IsText
<1>. HIDE DEF H
<1>. QED BY <1>1, <1>2 DEF IsText

(* One byte more adds itself to the text, unless it ends the line or is    *)
(* skipped.                                                                *)
LEMMA TextAppend ==
    ASSUME NEW l \in Seq(Nat), NEW b \in Nat
    PROVE  Text(Append(l, b)) = IF b \in {CR, LF} THEN Text(l) ELSE Append(Text(l), b)
<1>. DEFINE k == Append(l, b)
            n == Len(l)
            G == CHOOSE h : IsText(l, h, n)
            H == CHOOSE h : IsText(k, h, n + 1)
<1>1. n \in Nat /\ Len(k) = n + 1 /\ k[n+1] = b /\ \A i \in 1 .. n : l[i] = k[i]
  OBVIOUS
<1>2. Text(l) = G[n] /\ Text(k) = H[n+1]  BY <1>1 DEF Text, IsText
<1>. HIDE DEF k, n
<1>3. IsText(l, G, n) /\ IsText(k, H, n + 1)
  <2>1. n + 1 \in Nat  BY <1>1
  <2>2. (\E h : IsText(l, h, n)) /\ \E h : IsText(k, h, n + 1)  BY <1>1, <2>1, TextExists
  <2>. QED BY <2>2
<1>. HIDE DEF G, H
<1>4. n <= n + 1 /\ n \in 0 .. n /\ n + 1 \in Nat  BY <1>1
<1>5. G[n] = H[n]  BY <1>1, <1>3, <1>4, TextAgrees
<1>6. n + 1 \in 0 .. n + 1 /\ n + 1 # 0 /\ (n + 1) - 1 = n  BY <1>1
<1>7. H[n+1] = IF b \in {CR, LF} THEN H[n] ELSE Append(H[n], b)  BY <1>1, <1>3, <1>6 DEF IsText
<1>. QED BY <1>2, <1>5, <1>7 DEF k

(* The words of a sentence, by the places of their first and last bytes. *)
IsSpan(s, i, j) ==
    /\ i \in 1 .. Len(s) /\ j \in 1 .. Len(s) /\ i <= j
    /\ \A k \in i .. j : s[k] # SP
    /\ i = 1 \/ s[i-1] = SP
    /\ j = Len(s) \/ s[j+1] = SP

(* The spans of a sentence are its words, as pairs of places.              *)
LEMMA SpansAre ==
    ASSUME NEW s \in Seq(Nat)
    PROVE  /\ \A p \in Spans(s) : IsSpan(s, p[1], p[2]) /\ p = <<p[1], p[2]>>
           /\ \A i, j : IsSpan(s, i, j) => <<i, j>> \in Spans(s)
<1>1. DOMAIN s = 1 .. Len(s)  OBVIOUS
<1>. QED BY <1>1 DEF Spans, IsSpan

(* The sentence ends inside a word.                                        *)
Open(s) == Len(s) > 0 /\ s[Len(s)] # SP

(* from and to list the words of s in order. *)
Listed(s, m, from, to) ==
    /\ m \in Nat /\ from \in [1 .. m -> Nat] /\ to \in [1 .. m -> Nat]
    /\ \A i \in 1 .. m : IsSpan(s, from[i], to[i])
    /\ \A i, j \in 1 .. m : i < j => from[i] < from[j]
    /\ \A i, j : IsSpan(s, i, j) => \E k \in 1 .. m : from[k] = i /\ to[k] = j
    /\ Open(s) => m > 0 /\ to[m] = Len(s)

(* The k-th word of a listing is the k-th by rank.                         *)
LEMMA RankIs ==
    ASSUME NEW s \in Seq(Nat), NEW m, NEW from, NEW to, Listed(s, m, from, to),
           NEW k \in 1 .. m
    PROVE  Rank(<<from[k], to[k]>>, Spans(s)) = k
<1>. DEFINE Q == {q \in Spans(s) : q[1] <= from[k]}
            f == [i \in 1 .. k |-> <<from[i], to[i]>>]
<1>1. m \in Nat /\ k \in Nat /\ \A i \in 1 .. m : from[i] \in Nat /\ to[i] \in Nat
  BY DEF Listed
<1>2. ASSUME NEW i \in 1 .. k PROVE f[i] \in Q
  <2>1. i \in 1 .. m /\ (i < k \/ i = k)  BY <1>1
  <2>2. from[i] <= from[k]  BY <1>1, <2>1 DEF Listed
  <2>3. <<from[i], to[i]>> \in Spans(s)  BY <2>1, SpansAre DEF Listed
  <2>. QED BY <2>2, <2>3
<1>3. ASSUME NEW i \in 1 .. k, NEW j \in 1 .. k, i # j PROVE f[i] # f[j]
  <2>1. i \in 1 .. m /\ j \in 1 .. m /\ (i < j \/ j < i)  BY <1>1, <1>3
  <2>2. from[i] # from[j]  BY <1>1, <2>1 DEF Listed
  <2>. QED BY <2>2
<1>4. ASSUME NEW q \in Q PROVE \E i \in 1 .. k : f[i] = q
  <2>1. IsSpan(s, q[1], q[2]) /\ q = <<q[1], q[2]>> /\ q[1] <= from[k]  BY SpansAre
  <2>2. PICK i \in 1 .. m : from[i] = q[1] /\ to[i] = q[2]  BY <2>1 DEF Listed
  <2>3. ~(k < i)
    <3>1. SUFFICES ASSUME k < i PROVE FALSE  OBVIOUS
    <3>2. from[k] < from[i]  BY <3>1 DEF Listed
    <3>. QED BY <1>1, <2>1, <2>2, <3>2
  <2>4. i \in 1 .. k  BY <1>1, <2>3
  <2>. QED BY <2>1, <2>2, <2>4
<1>. HIDE DEF Q
<1>5. f \in [1 .. k -> Q]  BY <1>2
<1>. HIDE DEF f
<1>6. f \in Bijection(1 .. k, Q)
  BY <1>3, <1>4, <1>5 DEF Bijection, Injection, Surjection, IsInjective
<1>7. ExistsBijection(1 .. k, Q)  BY <1>6 DEF ExistsBijection
<1>8. Cardinality(Q) = k  BY <1>1, <1>7, FS_CountingElements
<1>. QED BY <1>8 DEF Rank, Q

(* A listing gives the words that Words returns.                           *)
LEMMA WordsAre ==
    ASSUME NEW s \in Seq(Nat), NEW m, NEW from, NEW to, Listed(s, m, from, to)
    PROVE  Words(s) = [i \in 1 .. m |-> SubSeq(s, from[i], to[i])]
<1>. DEFINE span(i) == CHOOSE p \in Spans(s) : Rank(p, Spans(s)) = i
            f == [i \in 1 .. m |-> <<from[i], to[i]>>]
<1>1. m \in Nat  BY DEF Listed
<1>2. \A i \in 1 .. m : f[i] \in Spans(s) /\ Rank(f[i], Spans(s)) = i
  BY RankIs, SpansAre DEF Listed
<1>3. ASSUME NEW p \in Spans(s) PROVE \E i \in 1 .. m : f[i] = p
  <2>1. IsSpan(s, p[1], p[2]) /\ p = <<p[1], p[2]>>  BY SpansAre
  <2>2. PICK i \in 1 .. m : from[i] = p[1] /\ to[i] = p[2]  BY <2>1 DEF Listed
  <2>. QED BY <2>1, <2>2
<1>4. \A i \in 1 .. m : f[i][1] = from[i] /\ f[i][2] = to[i]  OBVIOUS
<1>. HIDE DEF f
<1>5. Cardinality(Spans(s)) = m
  <2>1. \A i, j \in 1 .. m : i # j => f[i] # f[j]  BY <1>2
  <2>2. f \in [1 .. m -> Spans(s)]  BY <1>2 DEF f
  <2>3. f \in Bijection(1 .. m, Spans(s))
    BY <1>3, <2>1, <2>2 DEF Bijection, Injection, Surjection, IsInjective
  <2>4. ExistsBijection(1 .. m, Spans(s))  BY <2>3 DEF ExistsBijection
  <2>. QED BY <1>1, <2>4, FS_CountingElements
<1>6. ASSUME NEW i \in 1 .. m PROVE span(i) = f[i]
  <2>1. span(i) \in Spans(s) /\ Rank(span(i), Spans(s)) = i  BY <1>2
  <2>. HIDE DEF span
  <2>2. PICK j \in 1 .. m : f[j] = span(i)  BY <1>3, <2>1
  <2>3. j = i  BY <1>2, <2>1, <2>2
  <2>. QED BY <2>2, <2>3
<1>7. Words(s) = [i \in 1 .. Cardinality(Spans(s)) |-> SubSeq(s, span(i)[1], span(i)[2])]
  BY DEF Words
<1>. HIDE DEF span
<1>8. \A i \in 1 .. m : SubSeq(s, span(i)[1], span(i)[2]) = SubSeq(s, from[i], to[i])
  BY <1>4, <1>6
<1>. QED BY <1>5, <1>7, <1>8

(* A byte more: what it does to the words. *)
LEMMA SpansAppend ==
    ASSUME NEW s \in Seq(Nat), NEW b \in Nat
    PROVE  LET n == Len(s)
               t == Append(s, b) IN
           /\ \A i, j : j < n => (IsSpan(t, i, j) <=> IsSpan(s, i, j))
           /\ \A i : IsSpan(t, i, n) <=> IsSpan(s, i, n) /\ b = SP
           /\ \A i : IsSpan(t, i, n + 1) <=>
                  b # SP /\ (IF Open(s) THEN IsSpan(s, i, n) ELSE i = n + 1)
<1>. DEFINE n == Len(s)
            t == Append(s, b)
<1>1. /\ n \in Nat /\ Len(t) = n + 1 /\ t[n+1] = b
      /\ \A k \in 1 .. n : t[k] = s[k]
  OBVIOUS
<1>2. Open(s) <=> n > 0 /\ s[n] # SP  BY DEF Open
<1>3. \A i, j : IsSpan(s, i, j) <=>
          /\ i \in 1 .. n /\ j \in 1 .. n /\ i <= j
          /\ \A k \in i .. j : s[k] # SP
          /\ i = 1 \/ s[i-1] = SP
          /\ j = n \/ s[j+1] = SP
  BY DEF IsSpan
<1>4. \A i, j : IsSpan(t, i, j) <=>
          /\ i \in 1 .. n + 1 /\ j \in 1 .. n + 1 /\ i <= j
          /\ \A k \in i .. j : t[k] # SP
          /\ i = 1 \/ t[i-1] = SP
          /\ j = n + 1 \/ t[j+1] = SP
  BY <1>1 DEF IsSpan
<1>. HIDE DEF n, t
<1>5. ASSUME NEW i, NEW j, j < n PROVE IsSpan(t, i, j) <=> IsSpan(s, i, j)
  <2>1. CASE i \in 1 .. n /\ j \in 1 .. n /\ i <= j
    <3>1. /\ j # n /\ j # n + 1 /\ j + 1 \in 1 .. n /\ (i # 1 => i - 1 \in 1 .. n)
          /\ i \in 1 .. n + 1 /\ j \in 1 .. n + 1 /\ i .. j \subseteq 1 .. n
      BY <1>1, <1>5, <2>1
    <3>2. IsSpan(s, i, j) <=> /\ \A k \in i .. j : s[k] # SP
                              /\ i = 1 \/ s[i-1] = SP
                              /\ s[j+1] = SP
      BY <1>3, <2>1, <3>1
    <3>3. IsSpan(t, i, j) <=> /\ \A k \in i .. j : t[k] # SP
                              /\ i = 1 \/ t[i-1] = SP
                              /\ t[j+1] = SP
      BY <1>4, <2>1, <3>1
    <3>4. /\ \A k \in i .. j : t[k] = s[k]
          /\ i # 1 => t[i-1] = s[i-1]
          /\ t[j+1] = s[j+1]
      BY <1>1, <3>1
    <3>. HIDE DEF SP
    <3>. QED BY <3>2, <3>3, <3>4
  <2>2. CASE ~(i \in 1 .. n /\ j \in 1 .. n /\ i <= j)
    BY <1>1, <1>3, <1>4, <1>5, <2>2
  <2>. QED BY <2>1, <2>2
<1>6. ASSUME NEW i PROVE IsSpan(t, i, n) <=> IsSpan(s, i, n) /\ b = SP
  <2>1. CASE i \in 1 .. n
    <3>1. /\ n \in 1 .. n /\ n \in 1 .. n + 1 /\ i \in 1 .. n + 1 /\ i <= n /\ n # n + 1
          /\ (i # 1 => i - 1 \in 1 .. n) /\ i .. n \subseteq 1 .. n
      BY <1>1, <2>1
    <3>2. IsSpan(s, i, n) <=> /\ \A k \in i .. n : s[k] # SP
                              /\ i = 1 \/ s[i-1] = SP
      BY <1>3, <2>1, <3>1
    <3>3. IsSpan(t, i, n) <=> /\ \A k \in i .. n : t[k] # SP
                              /\ i = 1 \/ t[i-1] = SP
                              /\ b = SP
      BY <1>1, <1>4, <3>1
    <3>4. /\ \A k \in i .. n : t[k] = s[k]
          /\ i # 1 => t[i-1] = s[i-1]
      BY <1>1, <3>1
    <3>. QED BY <3>2, <3>3, <3>4
  <2>2. CASE i \notin 1 .. n
    <3>1. ~(i \in 1 .. n + 1 /\ i <= n)  BY <1>1, <2>2
    <3>. QED BY <1>3, <1>4, <2>2, <3>1
  <2>. QED BY <2>1, <2>2
<1>7. ASSUME NEW i
      PROVE  IsSpan(t, i, n + 1) <=>
                 b # SP /\ (IF Open(s) THEN IsSpan(s, i, n) ELSE i = n + 1)
  <2>1. CASE i \in 1 .. n
    <3>1. /\ n \in 1 .. n /\ n + 1 \in 1 .. n + 1 /\ i \in 1 .. n + 1 /\ i <= n /\ i <= n + 1
          /\ (i # 1 => i - 1 \in 1 .. n) /\ i .. n \subseteq 1 .. n /\ n \in i .. n
          /\ n > 0 /\ i # n + 1 /\ i .. n + 1 = (i .. n) \cup {n + 1}
      BY <1>1, <2>1
    <3>5. IsSpan(t, i, n + 1) <=> /\ \A k \in i .. n + 1 : t[k] # SP
                                  /\ i = 1 \/ t[i-1] = SP
      BY <1>4, <3>1
    <3>4. /\ \A k \in i .. n : t[k] = s[k]
          /\ i # 1 => t[i-1] = s[i-1]
          /\ t[n+1] = b
      BY <1>1, <3>1
    <3>2. IsSpan(t, i, n + 1) <=> /\ b # SP /\ \A k \in i .. n : s[k] # SP
                                  /\ i = 1 \/ s[i-1] = SP
      BY <3>1, <3>4, <3>5
    <3>3. IsSpan(s, i, n) <=> /\ \A k \in i .. n : s[k] # SP
                              /\ i = 1 \/ s[i-1] = SP
      BY <1>3, <2>1, <3>1
    <3>. QED BY <1>2, <3>1, <3>2, <3>3
  <2>2. CASE i = n + 1
    <3>1. /\ i \in 1 .. n + 1 /\ n + 1 \in 1 .. n + 1 /\ i <= n + 1 /\ i - 1 = n
          /\ i \notin 1 .. n /\ (i = 1 <=> n = 0) /\ (n # 0 => n \in 1 .. n /\ n > 0)
          /\ \A k \in i .. n + 1 : k = n + 1
          /\ n + 1 \in i .. n + 1
      BY <1>1, <2>2
    <3>2. IsSpan(t, i, n + 1) <=> b # SP /\ (n = 0 \/ s[n] = SP)
      BY <1>1, <1>4, <3>1
    <3>. QED BY <1>1, <1>2, <1>3, <2>2, <3>1, <3>2
  <2>3. CASE i \notin 1 .. n + 1
    <3>1. i \notin 1 .. n /\ i # n + 1  BY <1>1, <2>3
    <3>. QED BY <1>3, <1>4, <2>3, <3>1
  <2>4. i \in 1 .. n \/ i = n + 1 \/ i \notin 1 .. n + 1  BY <1>1
  <2>. QED BY <2>1, <2>2, <2>3, <2>4
<1>. QED BY <1>5, <1>6, <1>7 DEF n, t

(* A space more adds no word.                                              *)
LEMMA ListedSpace ==
    ASSUME NEW s \in Seq(Nat), NEW m, NEW from, NEW to, Listed(s, m, from, to)
    PROVE  Listed(Append(s, SP), m, from, to)
<1>. DEFINE n == Len(s)
            t == Append(s, SP)
<1>1. n \in Nat /\ Len(t) = n + 1 /\ t[n+1] = SP /\ SP \in Nat  BY DEF SP
<1>2. \A i, j : IsSpan(s, i, j) => j \in 1 .. n  BY DEF IsSpan
<1>3. \A i, j : IsSpan(t, i, j) => j \in 1 .. n + 1  BY <1>1 DEF IsSpan
<1>4. ~Open(t)  BY <1>1 DEF Open
<1>5. \A i, j : IsSpan(t, i, j) <=> IsSpan(s, i, j)
  <2>1. /\ \A i, j : j < n => (IsSpan(t, i, j) <=> IsSpan(s, i, j))
        /\ \A i : IsSpan(t, i, n) <=> IsSpan(s, i, n)
        /\ \A i : ~IsSpan(t, i, n + 1)
    BY <1>1, SpansAppend
  <2>2. \A j \in 1 .. n + 1 : j < n \/ j = n \/ (j = n + 1 /\ j \notin 1 .. n)  BY <1>1
  <2>3. \A j \in 1 .. n : j \in 1 .. n + 1 BY <1>1
  <2>. QED BY <1>2, <1>3, <2>1, <2>2, <2>3
<1>. HIDE DEF n, t
<1>. QED BY <1>4, <1>5 DEF Listed, t

(* A byte more behind a space begins a word.                               *)
LEMMA ListedNew ==
    ASSUME NEW s \in Seq(Nat), NEW b \in Nat, b # SP, ~Open(s),
           NEW m, NEW from, NEW to, Listed(s, m, from, to)
    PROVE  Listed(Append(s, b), m + 1,
                  [i \in 1 .. m + 1 |-> IF i = m + 1 THEN Len(s) + 1 ELSE from[i]],
                  [i \in 1 .. m + 1 |-> IF i = m + 1 THEN Len(s) + 1 ELSE to[i]])
<1>. DEFINE n == Len(s)
            t == Append(s, b)
            from2 == [i \in 1 .. m + 1 |-> IF i = m + 1 THEN n + 1 ELSE from[i]]
            to2 == [i \in 1 .. m + 1 |-> IF i = m + 1 THEN n + 1 ELSE to[i]]
<1>1. n \in Nat /\ Len(t) = n + 1 /\ t[n+1] = b /\ m \in Nat  BY DEF Listed
<1>2. \A i, j : IsSpan(s, i, j) => i \in 1 .. n /\ j \in 1 .. n /\ j < n
  <2>1. \A i : ~IsSpan(s, i, n)  BY <1>1 DEF IsSpan, Open
  <2>. QED BY <1>1, <2>1 DEF IsSpan
<1>3. \A i, j : IsSpan(t, i, j) => j \in 1 .. n + 1  BY <1>1 DEF IsSpan
<1>4. \A i, j : IsSpan(t, i, j) <=> (IsSpan(s, i, j) \/ (i = n + 1 /\ j = n + 1))
  <2>1. /\ \A i, j : j < n => (IsSpan(t, i, j) <=> IsSpan(s, i, j))
        /\ \A i : ~IsSpan(t, i, n)
        /\ \A i : IsSpan(t, i, n + 1) <=> i = n + 1
    BY SpansAppend
  <2>2. \A j \in 1 .. n + 1 : j < n \/ j = n \/ j = n + 1  BY <1>1
  <2>3. ~(n + 1 < n)  BY <1>1
  <2>. QED BY <1>2, <1>3, <2>1, <2>2, <2>3
<1>. HIDE DEF t
<1>5. \A i \in 1 .. m : i \in 1 .. m + 1 /\ from2[i] = from[i] /\ to2[i] = to[i]  BY <1>1
<1>6. m + 1 \in 1 .. m + 1 /\ from2[m+1] = n + 1 /\ to2[m+1] = n + 1  BY <1>1
<1>7. \A i \in 1 .. m + 1 : i = m + 1 \/ i \in 1 .. m  BY <1>1
<1>8. from2 \in [1 .. m + 1 -> Nat] /\ to2 \in [1 .. m + 1 -> Nat]  BY <1>1, <1>7 DEF Listed
<1>. HIDE DEF from2, to2, n
<1>9. \A i \in 1 .. m + 1 : IsSpan(t, from2[i], to2[i])
  BY <1>4, <1>5, <1>6, <1>7 DEF Listed
<1>10. ASSUME NEW i \in 1 .. m + 1, NEW j \in 1 .. m + 1, i < j PROVE from2[i] < from2[j]
  <2>1. i \in 1 .. m /\ from2[i] = from[i] /\ from[i] \in 1 .. n
    BY <1>1, <1>2, <1>5, <1>10 DEF Listed
  <2>2. CASE j \in 1 .. m  BY <1>5, <1>10, <2>1, <2>2 DEF Listed
  <2>3. CASE j = m + 1  BY <1>1, <1>6, <2>1, <2>3
  <2>. QED BY <1>7, <2>2, <2>3
<1>11. ASSUME NEW i, NEW j, IsSpan(t, i, j)
       PROVE  \E k \in 1 .. m + 1 : from2[k] = i /\ to2[k] = j
  <2>1. CASE IsSpan(s, i, j)
    <3>1. PICK k \in 1 .. m : from[k] = i /\ to[k] = j  BY <2>1 DEF Listed
    <3>. QED BY <1>5, <3>1
  <2>2. CASE i = n + 1 /\ j = n + 1  BY <1>6, <2>2
  <2>. QED BY <1>4, <1>11, <2>1, <2>2
<1>12. Listed(t, m + 1, from2, to2)
  BY <1>1, <1>6, <1>8, <1>9, <1>10, <1>11 DEF Listed
<1>. QED BY <1>12 DEF t, from2, to2, n

(* A byte more of an open word lengthens it.                               *)
LEMMA ListedMore ==
    ASSUME NEW s \in Seq(Nat), NEW b \in Nat, b # SP, Open(s),
           NEW m, NEW from, NEW to, Listed(s, m, from, to)
    PROVE  /\ Listed(Append(s, b), m, from, [to EXCEPT ![m] = Len(s) + 1])
           /\ m \in Nat \ {0} /\ to[m] = Len(s)
           /\ \A i \in 1 .. m : i # m => to[i] < Len(s)
<1>. DEFINE n == Len(s)
            t == Append(s, b)
            to2 == [to EXCEPT ![m] = n + 1]
<1>1. /\ n \in Nat /\ n > 0 /\ Len(t) = n + 1 /\ t[n+1] = b /\ m \in Nat /\ m > 0 /\ m \in 1 .. m
      /\ to[m] = n
  BY DEF Listed, Open
<1>2. \A i, j : IsSpan(s, i, j) => i \in 1 .. n /\ j \in 1 .. n /\ i <= j  BY DEF IsSpan
<1>3. \A i, j : IsSpan(t, i, j) => j \in 1 .. n + 1  BY <1>1 DEF IsSpan
<1>4. ASSUME NEW i \in 1 .. m, i # m PROVE to[i] < n
  <2>1. IsSpan(s, from[i], to[i]) /\ IsSpan(s, from[m], n) /\ from[i] < from[m]
    BY <1>1, <1>4 DEF Listed
  <2>2. /\ from[i] \in 1 .. n /\ from[m] \in 1 .. n /\ from[m] # 1 /\ to[i] \in 1 .. n
        /\ from[m] - 1 \in from[i] .. n
    BY <1>2, <2>1
  <2>3. s[from[m] - 1] = SP  BY <2>1, <2>2 DEF IsSpan
  <2>4. SUFFICES ASSUME to[i] = n PROVE FALSE  BY <1>1, <2>2
  <2>5. \A k \in from[i] .. n : s[k] # SP  BY <2>1, <2>4 DEF IsSpan
  <2>. QED BY <2>2, <2>3, <2>5
<1>5. /\ \A i, j : j < n => (IsSpan(t, i, j) <=> IsSpan(s, i, j))
      /\ \A i : ~IsSpan(t, i, n)
      /\ \A i : IsSpan(t, i, n + 1) <=> IsSpan(s, i, n)
  BY SpansAppend
<1>. HIDE DEF t
<1>6. /\ to2[m] = n + 1 /\ to2 \in [1 .. m -> Nat]
      /\ \A i \in 1 .. m : i # m => to2[i] = to[i]
  BY <1>1 DEF Listed
<1>. HIDE DEF n, to2
<1>7. ASSUME NEW i \in 1 .. m PROVE IsSpan(t, from[i], to2[i])
  <2>1. IsSpan(s, from[i], to[i])  BY DEF Listed
  <2>2. CASE i = m  BY <1>1, <1>5, <1>6, <2>1, <2>2
  <2>3. CASE i # m  BY <1>4, <1>5, <1>6, <2>1, <2>3
  <2>. QED BY <2>2, <2>3
<1>8. ASSUME NEW i, NEW j, IsSpan(t, i, j)
      PROVE  \E k \in 1 .. m : from[k] = i /\ to2[k] = j
  <2>1. j < n \/ j = n + 1  BY <1>1, <1>3, <1>5, <1>8
  <2>2. CASE j < n
    <3>1. PICK k \in 1 .. m : from[k] = i /\ to[k] = j  BY <1>5, <1>8, <2>2 DEF Listed
    <3>2. k # m  BY <1>1, <2>2, <3>1
    <3>. QED BY <1>6, <3>1, <3>2
  <2>3. CASE j = n + 1
    <3>1. PICK k \in 1 .. m : from[k] = i /\ to[k] = n  BY <1>5, <1>8, <2>3 DEF Listed
    <3>2. k = m
      <4>1. SUFFICES ASSUME k # m PROVE FALSE  OBVIOUS
      <4>2. n < n  BY <1>4, <3>1, <4>1
      <4>. QED BY <1>1, <4>2
    <3>. QED BY <1>6, <2>3, <3>1, <3>2
  <2>. QED BY <2>1, <2>2, <2>3
<1>9. Listed(t, m, from, to2)  BY <1>1, <1>6, <1>7, <1>8 DEF Listed
<1>10. m \in Nat \ {0}  BY <1>1
<1>. QED BY <1>1, <1>4, <1>9, <1>10 DEF t, to2, n

(* Part of a sequence.                                                     *)
LEMMA SubSeqFacts ==
    ASSUME NEW s \in Seq(Nat), NEW i \in Nat \ {0}, NEW j \in Nat, j <= Len(s), i <= j + 1
    PROVE  /\ SubSeq(s, i, j) \in Seq(Nat) /\ Len(SubSeq(s, i, j)) = j + 1 - i
           /\ \A k \in 1 .. j + 1 - i : SubSeq(s, i, j)[k] = s[i + k - 1]
  OBVIOUS

(* The same in one formula.                                                *)
IsPart(r, s, i, j) ==
    /\ r \in Seq(Nat) /\ Len(r) = j + 1 - i
    /\ \A k \in 1 .. j + 1 - i : r[k] = s[i + k - 1]

LEMMA PartFacts ==
    ASSUME NEW s \in Seq(Nat), NEW i \in Nat \ {0}, NEW j \in Nat, j <= Len(s), i <= j + 1
    PROVE  IsPart(SubSeq(s, i, j), s, i, j)
  BY SubSeqFacts DEF IsPart

LEMMA AppendNat ==
    ASSUME NEW s \in Seq(Nat), NEW b \in Nat
    PROVE  /\ Append(s, b) \in Seq(Nat) /\ Len(Append(s, b)) = Len(s) + 1
           /\ \A k \in 1 .. Len(s) : Append(s, b)[k] = s[k]
           /\ Append(s, b)[Len(s) + 1] = b
<1>1. Append(s, b) \in Seq(Nat)  OBVIOUS
<1>2. Len(Append(s, b)) = Len(s) + 1  OBVIOUS
<1>3. \A k \in 1 .. Len(s) : Append(s, b)[k] = s[k]  OBVIOUS
<1>4. Append(s, b)[Len(s) + 1] = b  OBVIOUS
<1>. QED BY <1>1, <1>2, <1>3, <1>4

(* Two sequences are equal element by element.                             *)
LEMMA SameSeq ==
    ASSUME NEW s \in Seq(Nat), NEW t \in Seq(Nat), Len(s) = Len(t),
           \A k \in 1 .. Len(s) : s[k] = t[k]
    PROVE  s = t
  OBVIOUS

(* Every sentence has a listing: by induction over its bytes.              *)
LEMMA ListingExists ==
    ASSUME NEW s \in Seq(Nat)
    PROVE  \E m, from, to : Listed(s, m, from, to)
<1>. DEFINE pre(k) == SubSeq(s, 1, k)
            Ok(k) == \E m, from, to : Listed(pre(k), m, from, to)
            S == {k \in 0 .. Len(s) : Ok(k)}
<1>1. Len(s) \in Nat  OBVIOUS
<1>2. \A k \in 0 .. Len(s) : pre(k) \in Seq(Nat) /\ Len(pre(k)) = k
  BY SubSeqFacts
<1>3. ASSUME NEW k \in 0 .. Len(s) - 1
      PROVE  /\ k + 1 \in 0 .. Len(s) /\ k \in 0 .. Len(s) /\ s[k+1] \in Nat
             /\ pre(k + 1) = Append(pre(k), s[k+1])
  <2>1. k + 1 \in 0 .. Len(s) /\ k \in 0 .. Len(s) /\ s[k+1] \in Nat  OBVIOUS
  <2>2. /\ pre(k+1) \in Seq(Nat) /\ Len(pre(k+1)) = k + 1
        /\ pre(k) \in Seq(Nat) /\ Len(pre(k)) = k
    BY <1>2, <2>1
  <2>3. \A i \in 1 .. k + 1 : pre(k+1)[i] = s[i]  OBVIOUS
  <2>4. \A i \in 1 .. k : pre(k)[i] = s[i]  OBVIOUS
  <2>. HIDE DEF pre
  <2>5. /\ Append(pre(k), s[k+1]) \in Seq(Nat) /\ Len(Append(pre(k), s[k+1])) = k + 1
        /\ \A i \in 1 .. k : Append(pre(k), s[k+1])[i] = pre(k)[i]
        /\ Append(pre(k), s[k+1])[k+1] = s[k+1]
    BY <2>1, <2>2
  <2>6. \A i \in 1 .. k + 1 : i \in 1 .. k \/ i = k + 1  OBVIOUS
  <2>7. \A i \in 1 .. k + 1 : pre(k+1)[i] = Append(pre(k), s[k+1])[i]
    BY <2>3, <2>4, <2>5, <2>6
  <2>8. pre(k+1) = Append(pre(k), s[k+1])  BY <2>2, <2>5, <2>7, SameSeq
  <2>. QED BY <2>1, <2>8
<1>4. Ok(0)
  <2>. DEFINE e == pre(0)
              no == [i \in 1 .. 0 |-> 0]
  <2>1. e \in Seq(Nat) /\ Len(e) = 0  BY <1>1, <1>2
  <2>. HIDE DEF e
  <2>2. \A i, j : ~IsSpan(e, i, j)  BY <2>1 DEF IsSpan
  <2>3. no \in [1 .. 0 -> Nat] /\ 0 \in Nat /\ \A i \in 1 .. 0 : FALSE  OBVIOUS
  <2>. HIDE DEF no
  <2>4. Listed(e, 0, no, no)  BY <2>1, <2>2, <2>3 DEF Listed, Open
  <2>. QED BY <2>4 DEF e
<1>. HIDE DEF pre
<1>5. ASSUME NEW k \in 0 .. Len(s) - 1, Ok(k) PROVE Ok(k + 1)
  <2>. DEFINE p == pre(k)
              b == s[k+1]
  <2>1. PICK m, from, to : Listed(p, m, from, to)  BY <1>5
  <2>2. p \in Seq(Nat) /\ b \in Nat /\ pre(k+1) = Append(p, b)  BY <1>2, <1>3
  <2>. HIDE DEF p, b
  <2>3. CASE b = SP
    <3>1. Listed(Append(p, b), m, from, to)  BY <2>1, <2>2, <2>3, ListedSpace
    <3>. QED BY <2>2, <3>1
  <2>4. CASE b # SP /\ ~Open(p)
    <3>1. \E m2, from2, to2 : Listed(Append(p, b), m2, from2, to2)
      BY <2>1, <2>2, <2>4, ListedNew
    <3>. QED BY <2>2, <3>1
  <2>5. CASE b # SP /\ Open(p)
    <3>1. \E m2, from2, to2 : Listed(Append(p, b), m2, from2, to2)
      BY <2>1, <2>2, <2>5, ListedMore
    <3>. QED BY <2>2, <3>1
  <2>. QED BY <2>3, <2>4, <2>5
<1>. HIDE DEF Ok
<1>6. 0 \in S  BY <1>1, <1>4
<1>7. \A k \in 0 .. Len(s) - 1 : k \in S => k + 1 \in S  BY <1>1, <1>5
<1>. HIDE DEF S
<1>8. 0 .. Len(s) \subseteq S  BY <1>1, <1>6, <1>7, BoundedInduction
<1>9. Ok(Len(s))  BY <1>1, <1>8 DEF S
<1>10. pre(Len(s)) = s
  <2>1. /\ pre(Len(s)) \in Seq(Nat) /\ Len(pre(Len(s))) = Len(s)  BY <1>1, <1>2
  <2>2. \A i \in 1 .. Len(s) : pre(Len(s))[i] = s[i]  BY <1>1 DEF pre
  <2>. QED BY <2>1, <2>2, SameSeq
<1>. QED BY <1>9, <1>10 DEF Ok

(* What Words returns: words. *)
LEMMA WordsFacts ==
    ASSUME NEW s \in Seq(Nat)
    PROVE  /\ IsSeq(Words(s)) /\ Len(Words(s)) \in Nat /\ DOMAIN Words(s) = 1 .. Len(Words(s))
           /\ \A i \in 1 .. Len(Words(s)) : Words(s)[i] \in Seq(Nat) /\ Len(Words(s)[i]) >= 1
<1>1. PICK m, from, to : Listed(s, m, from, to)  BY ListingExists
<1>2. Words(s) = [i \in 1 .. m |-> SubSeq(s, from[i], to[i])]  BY <1>1, WordsAre
<1>3. m \in Nat  BY <1>1 DEF Listed
<1>4. ASSUME NEW i \in 1 .. m
      PROVE  SubSeq(s, from[i], to[i]) \in Seq(Nat) /\ Len(SubSeq(s, from[i], to[i])) >= 1
  <2>1. IsSpan(s, from[i], to[i])  BY <1>1 DEF Listed
  <2>. DEFINE a == from[i]
              z == to[i]
  <2>2. IsSpan(s, a, z)  BY <2>1
  <2>. HIDE DEF a, z
  <2>3. a \in 1 .. Len(s) /\ z \in 1 .. Len(s) /\ a <= z  BY <2>2 DEF IsSpan
  <2>4. Len(s) \in Nat  OBVIOUS
  <2>5. a \in Nat \ {0} /\ z \in Nat /\ z <= Len(s) /\ a <= z + 1 /\ z + 1 - a >= 1
    BY <2>3, <2>4
  <2>6. SubSeq(s, a, z) \in Seq(Nat) /\ Len(SubSeq(s, a, z)) >= 1  BY <2>5, SubSeqFacts
  <2>. QED BY <2>6 DEF a, z
<1>5. Words(s) \in Seq(Seq(Nat)) /\ Len(Words(s)) = m  BY <1>2, <1>3, <1>4
<1>6. IsSeq(Words(s))  BY <1>5, IntoSeq
<1>. QED BY <1>2, <1>3, <1>4, <1>5, <1>6

(* No bytes, no words.                                                     *)
LEMMA WordsEmpty == Words(<<>>) = <<>>
<1>1. <<>> \in Seq(Nat) /\ Len(<<>>) = 0  OBVIOUS
<1>2. PICK m, from, to : Listed(<<>>, m, from, to)  BY <1>1, ListingExists
<1>3. m = 0
  <2>1. \A i \in 1 .. m : FALSE  BY <1>1, <1>2 DEF Listed, IsSpan
  <2>2. m \in Nat  BY <1>2 DEF Listed
  <2>. QED BY <2>1, <2>2
<1>4. Words(<<>>) = [i \in 1 .. m |-> SubSeq(<<>>, from[i], to[i])]
  BY <1>1, <1>2, WordsAre
<1>5. [i \in 1 .. 0 |-> SubSeq(<<>>, from[i], to[i])] = <<>>  OBVIOUS
<1>. QED BY <1>3, <1>4, <1>5

(* A byte more: what it does to the words. *)
LEMMA WordsAppend ==
    ASSUME NEW s \in Seq(Nat), NEW b \in Nat
    PROVE  /\ b = SP => Words(Append(s, b)) = Words(s)
           /\ b # SP /\ ~Open(s) =>
                  /\ Len(Words(Append(s, b))) = Len(Words(s)) + 1
                  /\ \A i \in 1 .. Len(Words(s)) : Words(Append(s, b))[i] = Words(s)[i]
                  /\ Words(Append(s, b))[Len(Words(s)) + 1] = <<b>>
           /\ Open(s) => Len(Words(s)) >= 1
           /\ b # SP /\ Open(s) =>
                  /\ Len(Words(Append(s, b))) = Len(Words(s))
                  /\ \A i \in 1 .. Len(Words(s)) - 1 : Words(Append(s, b))[i] = Words(s)[i]
                  /\ Words(Append(s, b))[Len(Words(s))] = Append(Words(s)[Len(Words(s))], b)
<1>. DEFINE n == Len(s)
            t == Append(s, b)
            W == Words(s)
            V == Words(t)
<1>1. PICK m, from, to : Listed(s, m, from, to)  BY ListingExists
<1>2. /\ n \in Nat /\ t \in Seq(Nat) /\ Len(t) = n + 1 /\ t[n+1] = b
      /\ \A k \in 1 .. n : t[k] = s[k]
  OBVIOUS
<1>3. m \in Nat /\ Len(W) = m /\ W = [i \in 1 .. m |-> SubSeq(s, from[i], to[i])]
  <2>1. m \in Nat  BY <1>1 DEF Listed
  <2>2. W = [i \in 1 .. m |-> SubSeq(s, from[i], to[i])]  BY <1>1, WordsAre
  <2>. HIDE DEF W
  <2>3. DOMAIN W = 1 .. m  BY <2>2
  <2>4. IsSeq(W)  BY WordsFacts DEF W
  <2>5. Len(W) \in Nat /\ DOMAIN W = 1 .. Len(W)  BY <2>4, SeqFacts
  <2>. QED BY <2>1, <2>2, <2>3, <2>5
<1>. HIDE DEF W
<1>4. ASSUME NEW i \in 1 .. m PROVE SubSeq(t, from[i], to[i]) = SubSeq(s, from[i], to[i])
  <2>1. /\ from[i] \in Nat \ {0} /\ to[i] \in Nat /\ to[i] <= n /\ from[i] <= to[i] + 1
        /\ to[i] <= n + 1
    <3>1. IsSpan(s, from[i], to[i])  BY <1>1 DEF Listed
    <3>. DEFINE f == from[i]
                g == to[i]
    <3>2. IsSpan(s, f, g)  BY <3>1
    <3>. HIDE DEF f, g
    <3>3. f \in 1 .. n /\ g \in 1 .. n /\ f <= g  BY <3>2 DEF IsSpan
    <3>. HIDE DEF n, t
    <3>4. f \in Nat \ {0} /\ g \in Nat /\ g <= n /\ f <= g + 1 /\ g <= n + 1  BY <1>2, <3>3
    <3>. QED BY <3>4 DEF f, g
  <2>. HIDE DEF n, t
  <2>. DEFINE f == from[i]
              g == to[i]
  <2>. HIDE DEF f, g
  <2>2. f \in Nat \ {0} /\ g \in Nat /\ g <= n /\ f <= g + 1 /\ g <= n + 1  BY <2>1 DEF f, g
  <2>3. /\ SubSeq(s, f, g) \in Seq(Nat) /\ Len(SubSeq(s, f, g)) = g + 1 - f
        /\ \A k \in 1 .. g + 1 - f : SubSeq(s, f, g)[k] = s[f + k - 1]
    BY <2>2, SubSeqFacts DEF n
  <2>4. /\ SubSeq(t, f, g) \in Seq(Nat) /\ Len(SubSeq(t, f, g)) = g + 1 - f
        /\ \A k \in 1 .. g + 1 - f : SubSeq(t, f, g)[k] = t[f + k - 1]
    <3>1. t \in Seq(Nat) /\ g <= Len(t)  BY <1>2, <2>2
    <3>2. IsPart(SubSeq(t, f, g), t, f, g)  BY <2>2, <3>1, PartFacts
    <3>. QED BY <3>2 DEF IsPart
  <2>5. \A k \in 1 .. g + 1 - f : f + k - 1 \in 1 .. n  BY <1>2, <2>2
  <2>6. \A k \in 1 .. g + 1 - f : SubSeq(t, f, g)[k] = SubSeq(s, f, g)[k]
    BY <1>2, <2>3, <2>4, <2>5
  <2>7. SubSeq(t, f, g) = SubSeq(s, f, g)  BY <2>3, <2>4, <2>6, SameSeq
  <2>. QED BY <2>7 DEF f, g
<1>5. CASE b = SP
  <2>1. Listed(t, m, from, to)  BY <1>1, <1>5, ListedSpace
  <2>2. V = [i \in 1 .. m |-> SubSeq(t, from[i], to[i])]  BY <1>2, <2>1, WordsAre
  <2>. HIDE DEF t
  <2>3. V = [i \in 1 .. m |-> SubSeq(s, from[i], to[i])]  BY <1>4, <2>2
  <2>4. V = W  BY <1>3, <2>3
  <2>. HIDE DEF V
  <2>5. Len(W) >= 1 \/ ~Open(s)  BY <1>1, <1>3 DEF Listed
  <2>. QED BY <1>5, <2>4, <2>5 DEF t, V, W
<1>6. CASE b # SP /\ ~Open(s)
  <2>. DEFINE from2 == [i \in 1 .. m + 1 |-> IF i = m + 1 THEN n + 1 ELSE from[i]]
              to2 == [i \in 1 .. m + 1 |-> IF i = m + 1 THEN n + 1 ELSE to[i]]
  <2>1. Listed(t, m + 1, from2, to2)  BY <1>1, <1>6, ListedNew
  <2>2. V = [i \in 1 .. m + 1 |-> SubSeq(t, from2[i], to2[i])]  BY <1>2, <2>1, WordsAre
  <2>3. \A i \in 1 .. m : i \in 1 .. m + 1 /\ from2[i] = from[i] /\ to2[i] = to[i]  BY <1>3
  <2>4. m + 1 \in 1 .. m + 1 /\ from2[m+1] = n + 1 /\ to2[m+1] = n + 1  BY <1>3
  <2>. HIDE DEF from2, to2, t, n
  <2>5. Len(V) = m + 1
    <3>1. Listed(t, m + 1, from2, to2) => m + 1 \in Nat  BY DEF Listed
    <3>. QED BY <2>1, <2>2, <3>1
  <2>. HIDE DEF V
  <2>6. ASSUME NEW i \in 1 .. m PROVE V[i] = W[i]
    <3>1. V[i] = SubSeq(t, from[i], to[i])  BY <2>2, <2>3
    <3>2. W[i] = SubSeq(s, from[i], to[i])  BY <1>3
    <3>. QED BY <1>4, <3>1, <3>2
  <2>7. SubSeq(t, n + 1, n + 1) = <<b>>
    <3>1. /\ SubSeq(t, n+1, n+1) \in Seq(Nat) /\ Len(SubSeq(t, n+1, n+1)) = 1
          /\ SubSeq(t, n+1, n+1)[1] = t[n+1]
      BY <1>2
    <3>2. <<b>> \in Seq(Nat) /\ Len(<<b>>) = 1 /\ <<b>>[1] = b  OBVIOUS
    <3>3. \A k \in 1 .. 1 : SubSeq(t, n+1, n+1)[k] = <<b>>[k]  BY <1>2, <3>1, <3>2
    <3>. QED BY <3>1, <3>2, <3>3, SameSeq
  <2>8. V[m+1] = <<b>>  BY <2>2, <2>4, <2>7
  <2>. QED BY <1>3, <1>6, <2>5, <2>6, <2>8 DEF t, V, W
<1>7. CASE Open(s)
  <2>. DEFINE to2 == [to EXCEPT ![m] = n + 1]
  <2>1. Len(W) >= 1  BY <1>1, <1>3, <1>7 DEF Listed
  <2>2. CASE b = SP  BY <1>5, <1>7, <2>1, <2>2
  <2>3. CASE b # SP
    <3>1. Listed(t, m, from, to2) /\ m \in Nat \ {0} /\ to[m] = n
      BY <1>1, <1>7, <2>3, ListedMore
    <3>2. V = [i \in 1 .. m |-> SubSeq(t, from[i], to2[i])]  BY <1>2, <3>1, WordsAre
    <3>3. /\ to2[m] = n + 1 /\ m \in 1 .. m
          /\ \A i \in 1 .. m - 1 : i \in 1 .. m /\ to2[i] = to[i]
      BY <1>1, <3>1 DEF Listed
    <3>. HIDE DEF to2, t, n
    <3>4. Len(V) = m  BY <3>1, <3>2
    <3>. HIDE DEF V
    <3>5. ASSUME NEW i \in 1 .. m - 1 PROVE V[i] = W[i]
      <4>1. i \in 1 .. m  BY <3>3
      <4>2. V[i] = SubSeq(t, from[i], to[i])  BY <3>2, <3>3, <4>1
      <4>3. W[i] = SubSeq(s, from[i], to[i])  BY <1>3, <4>1
      <4>. QED BY <1>4, <4>1, <4>2, <4>3
    <3>6. V[m] = Append(W[m], b)
      <4>. DEFINE f == from[m]
      <4>1. /\ W[m] = SubSeq(s, f, n) /\ V[m] = SubSeq(t, f, n + 1)
        BY <1>3, <3>1, <3>2, <3>3
      <4>2. f \in Nat \ {0} /\ f <= n /\ f <= n + 1 /\ f <= (n + 1) + 1 /\ n + 1 \in Nat
        <5>1. IsSpan(s, from[m], to[m])  BY <1>1, <3>3 DEF Listed
        <5>2. f \in 1 .. n  BY <5>1 DEF IsSpan, n
        <5>. HIDE DEF f
        <5>. QED BY <1>2, <5>2
      <4>. HIDE DEF f
      <4>3. /\ SubSeq(s, f, n) \in Seq(Nat) /\ Len(SubSeq(s, f, n)) = n + 1 - f
            /\ \A k \in 1 .. n + 1 - f : SubSeq(s, f, n)[k] = s[f + k - 1]
        <5>1. n <= Len(s) /\ f <= n + 1  BY <1>2, <4>2 DEF n
        <5>. QED BY <1>2, <4>2, <5>1, SubSeqFacts
      <4>4. /\ SubSeq(t, f, n+1) \in Seq(Nat) /\ Len(SubSeq(t, f, n+1)) = (n+1) + 1 - f
            /\ \A k \in 1 .. (n+1) + 1 - f : SubSeq(t, f, n+1)[k] = t[f + k - 1]
        BY <1>2, <4>2, SubSeqFacts
      <4>. DEFINE u == SubSeq(s, f, n)
                  v == SubSeq(t, f, n+1)
                  l == n + 1 - f
      <4>5. l \in Nat /\ (n+1) + 1 - f = l + 1 /\ f + (l + 1) - 1 = n + 1  BY <1>2, <4>2
      <4>6. \A k \in 1 .. l : f + k - 1 \in 1 .. n  BY <1>2, <4>2
      <4>7. /\ u \in Seq(Nat) /\ Len(u) = l /\ v \in Seq(Nat) /\ Len(v) = l + 1
            /\ \A k \in 1 .. l : u[k] = s[f + k - 1]
            /\ \A k \in 1 .. l + 1 : v[k] = t[f + k - 1]
        BY <4>3, <4>4, <4>5
      <4>. HIDE DEF u, v, l
      <4>8. /\ \A k \in 1 .. l : v[k] = u[k] /\ k \in 1 .. l + 1
            /\ v[l+1] = b
        <5>1. \A k \in 1 .. l : k \in 1 .. l + 1  BY <4>5
        <5>2. l + 1 \in 1 .. l + 1  BY <4>5
        <5>. QED BY <1>2, <4>5, <4>6, <4>7, <5>1, <5>2
      <4>9. /\ Append(u, b) \in Seq(Nat) /\ Len(Append(u, b)) = l + 1
            /\ \A k \in 1 .. l : Append(u, b)[k] = u[k]
            /\ Append(u, b)[l+1] = b
        <5>1. u \in Seq(Nat) /\ Len(u) = l  BY <4>7
        <5>. QED BY <5>1, AppendNat
      <4>10. \A k \in 1 .. l + 1 : k \in 1 .. l \/ k = l + 1  BY <4>5
      <4>11. v = Append(u, b)  BY <4>7, <4>8, <4>9, <4>10, SameSeq
      <4>. QED BY <4>1, <4>11 DEF u, v
    <3>. QED BY <1>3, <1>7, <2>1, <2>3, <3>4, <3>5, <3>6 DEF t, V, W
  <2>. QED BY <2>2, <2>3
<1>. QED BY <1>5, <1>6, <1>7

(* The values of a byte.                                                   *)
Octets == 0 .. 255

(* The command of a text t: its first word, from i to j. *)
Leads(t, i, j) ==
    /\ t \in Seq(Octets) /\ IsSpan(t, i, j)
    /\ \A k \in 1 .. i - 1 : t[k] = SP

(* A sequence of bytes is a sequence of numbers.                           *)
LEMMA ByteSeq == \A s \in Seq(Octets) : s \in Seq(Nat) /\ \A k \in 1 .. Len(s) : s[k] \in Octets
<1>. SUFFICES ASSUME NEW s \in Seq(Octets)
              PROVE  s \in Seq(Nat) /\ \A k \in 1 .. Len(s) : s[k] \in Octets
  OBVIOUS
<1>1. Octets \subseteq Nat  BY DEF Octets
<1>2. Len(s) \in Nat /\ s \in [1 .. Len(s) -> Octets]  OBVIOUS
<1>3. s \in [1 .. Len(s) -> Nat]  BY <1>1, <1>2
<1>. QED BY <1>2, <1>3

(* Part of a sequence of bytes is one.                                     *)
LEMMA OctetSub ==
    ASSUME NEW t \in Seq(Octets), NEW i \in Nat \ {0}, NEW j \in Nat, j <= Len(t), i <= j + 1
    PROVE  SubSeq(t, i, j) \in Seq(Octets)
<1>. DEFINE v == SubSeq(t, i, j)
<1>1. t \in Seq(Nat) /\ Len(t) \in Nat  BY ByteSeq
<1>2. /\ v \in Seq(Nat) /\ Len(v) = j + 1 - i
      /\ \A k \in 1 .. j + 1 - i : v[k] = t[i + k - 1]
  BY <1>1, SubSeqFacts
<1>. HIDE DEF v
<1>3. Len(v) \in Nat /\ \A k \in 1 .. Len(v) : i + k - 1 \in 1 .. Len(t) /\ v[k] = t[i + k - 1]
  BY <1>1, <1>2
<1>4. \A k \in 1 .. Len(v) : v[k] \in Octets  BY <1>3, ByteSeq
<1>5. v \in [1 .. Len(v) -> Nat]  BY <1>2
<1>6. v \in [1 .. Len(v) -> Octets]  BY <1>4, <1>5
<1>7. v \in Seq(Octets)  BY <1>3, <1>6
<1>. QED BY <1>7 DEF v

(* CommandSpan finds the first word.                                       *)
LEMMA CommandIs ==
    ASSUME NEW l, NEW i, NEW j, Leads(Text(l), i, j)
    PROVE  /\ HasCommand(l) /\ CommandSpan(l) = <<i, j>>
           /\ TypedCommand(l) = SubSeq(Text(l), i, j)
<1>. DEFINE t == Text(l)
            c == CommandSpan(l)
            Is(p) == p \in Spans(t) /\ \A q \in Spans(t) : p[1] <= q[1]
<1>1. t \in Seq(Nat) /\ IsSpan(t, i, j) /\ \A k \in 1 .. i - 1 : t[k] = SP
  BY ByteSeq DEF Leads
<1>2. c = CHOOSE p \in Spans(t) : \A q \in Spans(t) : p[1] <= q[1]  BY DEF CommandSpan
<1>. HIDE DEF t
<1>3. i \in Nat /\ j \in Nat /\ Len(t) \in Nat /\ <<i, j>> \in Spans(t)
  BY <1>1, SpansAre DEF IsSpan
<1>4. ASSUME NEW a, NEW d, IsSpan(t, a, d) PROVE a \in Nat /\ i <= a
  <2>1. a \in 1 .. Len(t) /\ t[a] # SP  BY <1>3, <1>4 DEF IsSpan
  <2>2. a \notin 1 .. i - 1  BY <1>1, <2>1
  <2>. QED BY <1>3, <2>1, <2>2
<1>5. \A q \in Spans(t) : <<i, j>>[1] <= q[1]  BY <1>1, <1>4, SpansAre
<1>6. c \in Spans(t) /\ \A q \in Spans(t) : c[1] <= q[1]  BY <1>2, <1>3, <1>5
<1>. HIDE DEF c
<1>7. /\ IsSpan(t, c[1], c[2]) /\ c = <<c[1], c[2]>>  BY <1>1, <1>6, SpansAre
<1>8. c[1] = i
  <2>1. c[1] <= i  BY <1>3, <1>6
  <2>2. i <= c[1] /\ c[1] \in Nat  BY <1>4, <1>7
  <2>. QED BY <1>3, <2>1, <2>2
<1>9. \A d : IsSpan(t, i, d) => d \in Nat /\ ~(d < j) /\ ~(j < d)
  <2>. SUFFICES ASSUME NEW d, IsSpan(t, i, d) PROVE d \in Nat /\ ~(d < j) /\ ~(j < d)
    OBVIOUS
  <2>1. d \in 1 .. Len(t) /\ j \in 1 .. Len(t) /\ i <= d /\ i <= j  BY <1>1 DEF IsSpan
  <2>2. ASSUME d < j PROVE FALSE
    <3>1. d # Len(t) /\ d + 1 \in i .. j  BY <1>3, <2>1, <2>2
    <3>. QED BY <1>1, <3>1 DEF IsSpan
  <2>3. ASSUME j < d PROVE FALSE
    <3>1. j # Len(t) /\ j + 1 \in i .. d  BY <1>3, <2>1, <2>3
    <3>. QED BY <1>1, <3>1 DEF IsSpan
  <2>. QED BY <2>1, <2>2, <2>3
<1>10. c[2] = j
  <2>1. c[2] \in Nat /\ ~(c[2] < j) /\ ~(j < c[2])  BY <1>7, <1>8, <1>9
  <2>. QED BY <1>3, <2>1
<1>11. c = <<i, j>>  BY <1>7, <1>8, <1>10
<1>. QED BY <1>3, <1>11 DEF HasCommand, TypedCommand, t, c

(* What is known of a first word.                                          *)
LEMMA LeadsFacts ==
    ASSUME NEW t, NEW i, NEW j, Leads(t, i, j)
    PROVE  /\ t \in Seq(Nat) /\ i \in Nat \ {0} /\ j \in Nat /\ i <= j /\ j <= Len(t) /\ Len(t) \in Nat
           /\ SubSeq(t, i, j) \in Seq(Octets) /\ SubSeq(t, i, j) \in Seq(Nat)
           /\ Len(SubSeq(t, i, j)) = j + 1 - i /\ j + 1 - i \in Nat \ {0}
           /\ \A k \in 1 .. j + 1 - i : SubSeq(t, i, j)[k] = t[i + k - 1]
<1>1. t \in Seq(Nat)  BY ByteSeq DEF Leads
<1>2. i \in Nat \ {0} /\ j \in Nat /\ i <= j /\ j <= Len(t) /\ Len(t) \in Nat /\ i <= j + 1
  BY <1>1 DEF Leads, IsSpan
<1>3. /\ SubSeq(t, i, j) \in Seq(Nat) /\ Len(SubSeq(t, i, j)) = j + 1 - i
      /\ \A k \in 1 .. j + 1 - i : SubSeq(t, i, j)[k] = t[i + k - 1]
  BY <1>1, <1>2, SubSeqFacts
<1>4. SubSeq(t, i, j) \in Seq(Octets)  BY <1>2, OctetSub DEF Leads
<1>. QED BY <1>1, <1>2, <1>3, <1>4

(* A sequence of bytes and one byte more.                                  *)
LEMMA AppendByte ==
    ASSUME NEW t \in Seq(Octets), NEW b \in Octets
    PROVE  /\ t \in Seq(Nat) /\ b \in Nat /\ Len(t) \in Nat
           /\ Append(t, b) \in Seq(Octets) /\ Append(t, b) \in Seq(Nat)
           /\ Len(Append(t, b)) = Len(t) + 1
           /\ \A k \in 1 .. Len(t) : Append(t, b)[k] = t[k]
           /\ Append(t, b)[Len(t) + 1] = b
<1>1. Append(t, b) \in Seq(Octets)  OBVIOUS
<1>2. b \in Nat  BY DEF Octets
<1>. QED BY <1>1, <1>2, ByteSeq

(* A byte more leaves a command alone that has ended. *)
LEMMA LeadsKept ==
    ASSUME NEW t, NEW i, NEW j, Leads(t, i, j), NEW b \in Octets, j < Len(t) \/ b = SP
    PROVE  Leads(Append(t, b), i, j) /\ SubSeq(Append(t, b), i, j) = SubSeq(t, i, j)
<1>. DEFINE u == Append(t, b)
            n == Len(t)
<1>1. /\ t \in Seq(Nat) /\ i \in Nat \ {0} /\ j \in Nat /\ i <= j /\ j <= n /\ n \in Nat
      /\ \A k \in 1 .. i - 1 : t[k] = SP
  BY LeadsFacts DEF Leads
<1>2. /\ u \in Seq(Octets) /\ u \in Seq(Nat) /\ Len(u) = n + 1
      /\ \A k \in 1 .. n : u[k] = t[k]
  BY AppendByte DEF Leads
<1>3. IsSpan(u, i, j)
  <2>0. b \in Nat  BY AppendByte DEF Leads
  <2>1. /\ j < n => (IsSpan(u, i, j) <=> IsSpan(t, i, j))
        /\ IsSpan(u, i, n) <=> IsSpan(t, i, n) /\ b = SP
    BY <1>1, <2>0, SpansAppend
  <2>2. j < n \/ j = n  BY <1>1
  <2>. QED BY <2>1, <2>2 DEF Leads
<1>. HIDE DEF u, n
<1>4. \A k \in 1 .. i - 1 : k \in 1 .. n  BY <1>1
<1>5. Leads(u, i, j)  BY <1>1, <1>2, <1>3, <1>4 DEF Leads
<1>6. \A k \in 1 .. j + 1 - i : i + k - 1 \in 1 .. n  BY <1>1
<1>7. /\ SubSeq(t, i, j) \in Seq(Nat) /\ Len(SubSeq(t, i, j)) = j + 1 - i
      /\ \A k \in 1 .. j + 1 - i : SubSeq(t, i, j)[k] = t[i + k - 1]
  BY LeadsFacts, ByteSeq
<1>8. /\ SubSeq(u, i, j) \in Seq(Nat) /\ Len(SubSeq(u, i, j)) = j + 1 - i
      /\ \A k \in 1 .. j + 1 - i : SubSeq(u, i, j)[k] = u[i + k - 1]
  BY <1>5, LeadsFacts, ByteSeq
<1>9. \A k \in 1 .. j + 1 - i : SubSeq(u, i, j)[k] = SubSeq(t, i, j)[k]
  BY <1>2, <1>6, <1>7, <1>8
<1>10. SubSeq(u, i, j) = SubSeq(t, i, j)  BY <1>7, <1>8, <1>9, SameSeq
<1>. QED BY <1>5, <1>10 DEF u

(* A byte more of an open command. *)
LEMMA LeadsMore ==
    ASSUME NEW t, NEW i, Leads(t, i, Len(t)), NEW b \in Octets, b # SP
    PROVE  /\ Leads(Append(t, b), i, Len(Append(t, b)))
           /\ SubSeq(Append(t, b), i, Len(Append(t, b))) = Append(SubSeq(t, i, Len(t)), b)
<1>. DEFINE u == Append(t, b)
            n == Len(t)
<1>1. /\ t \in Seq(Nat) /\ i \in Nat \ {0} /\ n \in Nat /\ i <= n
      /\ \A k \in 1 .. i - 1 : t[k] = SP
  BY LeadsFacts DEF Leads
<1>2. /\ u \in Seq(Octets) /\ u \in Seq(Nat) /\ Len(u) = n + 1 /\ b \in Nat
      /\ \A k \in 1 .. n : u[k] = t[k]
      /\ u[n+1] = b
  BY AppendByte DEF Leads
<1>3. IsSpan(u, i, n + 1)
  <2>1. IsSpan(u, i, n + 1) <=> b # SP /\ (IF Open(t) THEN IsSpan(t, i, n) ELSE i = n + 1)
    BY <1>1, <1>2, SpansAppend
  <2>2. IsSpan(t, i, n)  BY <1>1 DEF Leads
  <2>3. Open(t)  BY <1>1, <2>2 DEF Open, IsSpan
  <2>. QED BY <2>1, <2>2, <2>3
<1>. HIDE DEF u, n
<1>4. \A k \in 1 .. i - 1 : k \in 1 .. n  BY <1>1
<1>5. Leads(u, i, n + 1)  BY <1>1, <1>2, <1>3, <1>4 DEF Leads
<1>. DEFINE v == SubSeq(t, i, n)
            w == SubSeq(u, i, n + 1)
            m == n + 1 - i
<1>6. /\ m \in Nat /\ (n + 1) + 1 - i = m + 1 /\ i + (m + 1) - 1 = n + 1
      /\ \A k \in 1 .. m : i + k - 1 \in 1 .. n
  BY <1>1
<1>7. /\ v \in Seq(Nat) /\ Len(v) = m
      /\ \A k \in 1 .. m : v[k] = t[i + k - 1]
  BY LeadsFacts DEF n
<1>8. /\ w \in Seq(Nat) /\ Len(w) = (n + 1) + 1 - i
      /\ \A k \in 1 .. (n + 1) + 1 - i : w[k] = u[i + k - 1]
  <2>. DEFINE z == n + 1
  <2>1. Leads(u, i, z)  BY <1>5
  <2>. HIDE DEF z
  <2>2. /\ SubSeq(u, i, z) \in Seq(Nat) /\ Len(SubSeq(u, i, z)) = z + 1 - i
        /\ \A k \in 1 .. z + 1 - i : SubSeq(u, i, z)[k] = u[i + k - 1]
    BY <2>1, LeadsFacts
  <2>. QED BY <2>2 DEF z
<1>. HIDE DEF v, w, m
<1>9. Len(w) = m + 1 /\ \A k \in 1 .. m + 1 : w[k] = u[i + k - 1]  BY <1>6, <1>8
<1>10. /\ Append(v, b) \in Seq(Nat) /\ Len(Append(v, b)) = m + 1
       /\ \A k \in 1 .. m : Append(v, b)[k] = v[k]
       /\ Append(v, b)[m+1] = b
  BY <1>2, <1>6, <1>7
<1>11. \A k \in 1 .. m : w[k] = Append(v, b)[k]
  <2>1. \A k \in 1 .. m : k \in 1 .. m + 1  BY <1>6
  <2>. QED BY <1>2, <1>6, <1>7, <1>9, <1>10, <2>1
<1>12. w[m+1] = Append(v, b)[m+1]
  <2>1. m + 1 \in 1 .. m + 1  BY <1>6
  <2>. QED BY <1>2, <1>6, <1>9, <1>10, <2>1
<1>13. \A k \in 1 .. m + 1 : k \in 1 .. m \/ k = m + 1  BY <1>6
<1>14. w = Append(v, b)  BY <1>8, <1>9, <1>10, <1>11, <1>12, <1>13, SameSeq
<1>15. Len(u) = n + 1  BY <1>1, <1>2
<1>16. Leads(u, i, Len(u)) /\ SubSeq(u, i, Len(u)) = Append(v, b)
  BY <1>5, <1>14, <1>15 DEF w
<1>. QED BY <1>16 DEF u, v, n

(* The first byte of a command. *)
LEMMA LeadsNew ==
    ASSUME NEW t \in Seq(Octets), \A k \in 1 .. Len(t) : t[k] = SP, NEW b \in Octets, b # SP
    PROVE  /\ Leads(Append(t, b), Len(t) + 1, Len(t) + 1)
           /\ SubSeq(Append(t, b), Len(t) + 1, Len(t) + 1) = <<b>>
<1>. DEFINE u == Append(t, b)
            n == Len(t)
<1>1. /\ t \in Seq(Nat) /\ n \in Nat /\ b \in Nat
      /\ u \in Seq(Octets) /\ u \in Seq(Nat) /\ Len(u) = n + 1
      /\ \A k \in 1 .. n : u[k] = t[k]
      /\ u[n+1] = b
  BY AppendByte
<1>2. ~Open(t)  BY <1>1 DEF Open
<1>3. IsSpan(u, n + 1, n + 1)  BY <1>1, <1>2, SpansAppend
<1>. HIDE DEF u, n
<1>4. \A k \in 1 .. (n + 1) - 1 : k \in 1 .. n  BY <1>1
<1>5. \A k \in 1 .. n : t[k] = SP  BY DEF n
<1>6. Leads(u, n + 1, n + 1)  BY <1>1, <1>3, <1>4, <1>5 DEF Leads
<1>7. /\ SubSeq(u, n+1, n+1) \in Seq(Nat) /\ Len(SubSeq(u, n+1, n+1)) = 1
      /\ SubSeq(u, n+1, n+1)[1] = u[n+1]
  BY <1>1
<1>8. <<b>> \in Seq(Nat) /\ Len(<<b>>) = 1 /\ <<b>>[1] = b  BY <1>1
<1>9. \A k \in 1 .. 1 : SubSeq(u, n+1, n+1)[k] = <<b>>[k]  BY <1>1, <1>7, <1>8
<1>10. SubSeq(u, n+1, n+1) = <<b>>  BY <1>7, <1>8, <1>9, SameSeq
<1>. QED BY <1>6, <1>10 DEF u, n

----------------------------------------------------------------------------
(* The invariant of the command.                                           *)

(* w is the first word of the text t; it is open while t ends with it. *)
FirstWord(t, w, open) ==
    \E i, j : Leads(t, i, j) /\ w = SubSeq(t, i, j) /\ (open <=> j = Len(t))

(* Nothing but spaces so far.                                              *)
Blank(t) == t \in Seq(Octets) /\ \A k \in 1 .. Len(t) : t[k] = SP

(* The first word is the typed command.                                    *)
LEMMA WordIs ==
    ASSUME NEW l, NEW w, NEW open, FirstWord(Text(l), w, open)
    PROVE  /\ HasCommand(l) /\ TypedCommand(l) = w
           /\ w \in Seq(Octets) /\ w \in Seq(Nat) /\ Len(w) \in Nat \ {0}
<1>. DEFINE t == Text(l)
<1>1. PICK i, j : Leads(t, i, j) /\ w = SubSeq(t, i, j) /\ (open <=> j = Len(t))  BY DEF FirstWord
<1>2. HasCommand(l) /\ TypedCommand(l) = w  BY <1>1, CommandIs
<1>. HIDE DEF t
<1>. QED BY <1>1, <1>2, LeadsFacts

(* Its bytes are bytes of the text.                                        *)
LEMMA WordElements ==
    ASSUME NEW t, NEW w, NEW open, FirstWord(t, w, open)
    PROVE  /\ \A k \in 1 .. Len(w) : \E i \in 1 .. Len(t) : w[k] = t[i]
           /\ w \in Seq(Octets) /\ w \in Seq(Nat) /\ Len(w) \in Nat \ {0}
           /\ \A k \in 1 .. Len(w) : w[k] \in 0 .. 255
<1>1. PICK i, j : Leads(t, i, j) /\ w = SubSeq(t, i, j)  BY DEF FirstWord
<1>2. /\ t \in Seq(Nat) /\ i \in Nat \ {0} /\ j \in Nat /\ i <= j /\ j <= Len(t) /\ Len(t) \in Nat
      /\ w \in Seq(Octets) /\ w \in Seq(Nat)
      /\ Len(w) = j + 1 - i /\ j + 1 - i \in Nat \ {0}
      /\ \A k \in 1 .. j + 1 - i : w[k] = t[i + k - 1]
  BY <1>1, LeadsFacts
<1>3. \A k \in 1 .. Len(w) : i + k - 1 \in 1 .. Len(t)  BY <1>2
<1>4. \A k \in 1 .. Len(w) : w[k] \in Octets  BY <1>2, ByteSeq
<1>. QED BY <1>2, <1>3, <1>4 DEF Octets

(* A byte more leaves an ended word as it was.                             *)
LEMMA WordKept ==
    ASSUME NEW t, NEW w, NEW open, FirstWord(t, w, open), NEW b \in Octets, ~open \/ b = SP
    PROVE  FirstWord(Append(t, b), w, FALSE)
<1>1. PICK i, j : Leads(t, i, j) /\ w = SubSeq(t, i, j) /\ (open <=> j = Len(t))  BY DEF FirstWord
<1>2. j <= Len(t) /\ j \in Nat /\ Len(t) \in Nat  BY <1>1, LeadsFacts
<1>3. j < Len(t) \/ b = SP  BY <1>1, <1>2
<1>4. Leads(Append(t, b), i, j) /\ w = SubSeq(Append(t, b), i, j)  BY <1>1, <1>3, LeadsKept
<1>5. j # Len(Append(t, b))  BY <1>1, <1>2, AppendByte DEF Leads
<1>6. FALSE <=> j = Len(Append(t, b))  BY <1>5
<1>. QED BY <1>4, <1>6 DEF FirstWord

(* A byte more lengthens an open word.                                     *)
LEMMA WordMore ==
    ASSUME NEW t, NEW w, FirstWord(t, w, TRUE), NEW b \in Octets, b # SP
    PROVE  FirstWord(Append(t, b), Append(w, b), TRUE)
<1>1. PICK i, j : Leads(t, i, j) /\ w = SubSeq(t, i, j) /\ (TRUE <=> j = Len(t))  BY DEF FirstWord
<1>2. j = Len(t)  BY <1>1
<1>3. /\ Leads(Append(t, b), i, Len(Append(t, b)))
      /\ Append(w, b) = SubSeq(Append(t, b), i, Len(Append(t, b)))
  <2>1. Leads(t, i, Len(t)) /\ w = SubSeq(t, i, Len(t))  BY <1>1, <1>2
  <2>. QED BY <2>1, LeadsMore
<1>4. TRUE <=> Len(Append(t, b)) = Len(Append(t, b))  OBVIOUS
<1>. QED BY <1>3, <1>4 DEF FirstWord

(* The first byte of a word.                                               *)
LEMMA WordNew ==
    ASSUME NEW t, Blank(t), NEW b \in Octets, b # SP
    PROVE  FirstWord(Append(t, b), <<b>>, TRUE)
<1>. DEFINE n == Len(t) + 1
<1>1. Leads(Append(t, b), n, n) /\ <<b>> = SubSeq(Append(t, b), n, n)  BY LeadsNew DEF Blank
<1>2. n = Len(Append(t, b))  BY AppendByte DEF Blank
<1>3. TRUE <=> n = Len(Append(t, b))  BY <1>2
<1>. HIDE DEF n
<1>. QED BY <1>1, <1>3 DEF FirstWord

(* A space more leaves a blank text blank.                                 *)
LEMMA BlankKept ==
    ASSUME NEW t, Blank(t)
    PROVE  Blank(Append(t, SP))
<1>1. SP \in Octets  BY DEF SP, Octets
<1>2. t \in Seq(Octets)  BY DEF Blank
<1>3. /\ Len(t) \in Nat /\ Append(t, SP) \in Seq(Octets) /\ Len(Append(t, SP)) = Len(t) + 1
      /\ \A k \in 1 .. Len(t) : Append(t, SP)[k] = t[k]
      /\ Append(t, SP)[Len(t) + 1] = SP
  BY <1>1, <1>2, AppendByte
<1>. HIDE DEF Blank
<1>4. \A k \in 1 .. Len(t) + 1 : k \in 1 .. Len(t) \/ k = Len(t) + 1  BY <1>3
<1>5. \A k \in 1 .. Len(t) + 1 : Append(t, SP)[k] = SP  BY <1>3, <1>4 DEF Blank
<1>. QED BY <1>3, <1>5 DEF Blank

(* The cells from first on hold w, as far as the buffer reaches. *)
Spelled(m, first, w) == \A k \in 1 .. Len(w) : k <= NameCells => m[first + k - 1] = w[k]
(* The cell behind w, if the name buffer has one, holds the NUL.           *)
Closes(m, w) == Len(w) < NameCells => m[cmd_name + Len(w)] = 0
(* The cursor of a chain of name cells after n bytes.                      *)
Ahead(first, n) == IF n >= NameCells THEN 0 ELSE first + n

(* The command word is being read: both cursors stand behind it. *)
NameOpen(w) ==
    /\ FirstWord(Text(line), w, TRUE) /\ Len(w) <= NameCells
    /\ Spelled(mem, cmd_name, w) /\ Spelled(mem, path_name, w)
    /\ cmd_cur = Ahead(cmd_name, Len(w)) /\ path_cur = Ahead(path_name, Len(w))

(* The command word has been read; one that is longer than the buffer may  *)
(* still go on.                                                            *)
NameEnded(w) ==
    /\ \E open : FirstWord(Text(line), w, open) /\ (open => Len(w) > NameCells)
    /\ Spelled(mem, cmd_name, w) /\ Closes(mem, w)
PathEnded(w) == Spelled(mem, path_name, w) /\ path_cur = Ahead(path_name, Len(w))

(* The line is bytes, and so is its text.                                  *)
LineInv ==
    /\ line \in Seq(Octets) /\ Text(line) \in Seq(Octets)
    /\ 0 \notin Range(line) => \A k \in 1 .. Len(Text(line)) : Text(line)[k] # 0

(* The three stages of reading a command. *)
Unnamed ==
    /\ ~cmd_started /\ ~cmd_done /\ pc \in {"rp_space", "rp_finish"}
    /\ Blank(Text(line))
    /\ cmd_cur = cmd_name /\ path_cur = path_name
Naming ==
    /\ cmd_started /\ ~cmd_done /\ pc \in {"rp_cmd", "rp_finish"}
    /\ \E w : NameOpen(w)
Named ==
    /\ cmd_started /\ cmd_done /\ pc # "rp_cmd"
    /\ \E w : NameEnded(w) /\ PathEnded(w)
(* While a line is read: nothing, part or all of the command.              *)
NameInv == pc \in Reading => Unnamed \/ Naming \/ Named

(* From the end of a line to its act.                                      *)
Handlers == {"do_help", "do_exit", "do_cd", "run_mfsls_alias", "run_mfscat_alias"}
Acting == Handlers \cup {"do_external", "run_external", "fork", "unknown_command"}

(* A line was read without an error and holds a command.                   *)
ReadWell == pc = "after_read" /\ ~read_status /\ cmd_started

(* From the end of the line to the act: the name buffer holds the command. *)
EndedInv ==
    /\ pc \in Acting => \E w, open : /\ FirstWord(Text(line), w, open)
                                     /\ Spelled(mem, cmd_name, w) /\ Closes(mem, w)
    /\ ReadWell \/ pc = "do_external" =>
           \E w, open : /\ FirstWord(Text(line), w, open)
                        /\ Spelled(mem, cmd_name, w) /\ Closes(mem, w) /\ PathEnded(w)
    /\ \A k \in BuiltinNames : pc = Handler[k] => Matches(k)
    /\ pc = "do_external" => \A k \in BuiltinNames : ~Matches(k)

(* The path of the command is spelled out, or runs on past its buffer. *)
PathSpelled(w) ==
    /\ Spelled(mem, path_name, w)
    /\ Len(w) + 4 <= NameCells =>
           /\ mem[path_name + Len(w)] = 46 /\ mem[path_name + Len(w) + 1] = 109
           /\ mem[path_name + Len(w) + 2] = 98 /\ mem[path_name + Len(w) + 3] = 0
    /\ Len(w) + 4 > NameCells /\ 0 \notin Range(line) => \A a \in PathAddr : mem[a] \in 1 .. 255
    /\ Len(w) < NameCells => mem[path_name + Len(w)] = 46

(* The image that run_external opens and the child executes.               *)
ImageInv ==
    /\ pc \in {"run_external", "fork"} /\ cmd_image_ptr = cmd_path =>
           \E w, open : /\ FirstWord(Text(line), w, open)
                        /\ Spelled(mem, cmd_name, w) /\ PathSpelled(w)
    /\ pc = "run_external" => cmd_image_ptr # 0
    /\ pc = "fork" => mem[exec_argv + 1] = cmd_image_ptr /\ TRUE \in Opens(Image(mem, cmd_image_ptr))

(* What was observed last was right, and stands until the next prompt.     *)
ObsInv ==
    /\ obs.kind # "none" => pc \in {"wait4", "external_failed", "msh_loop", "exited"}
    /\ OnlyTheTypedCommandRuns

(* The invariant behind the command a line runs.                           *)
CommandInv == LineInv /\ NameInv /\ EndedInv /\ ImageInv /\ ObsInv

----------------------------------------------------------------------------
(* The reader.                                                             *)

(* What the name buffers are after a byte of the command.                  *)
LEMMA CmdWriteCells ==
    ASSUME TypeOK, ReaderInv, NEW b \in 0 .. 255, RpCmdWrite(b),
           cmd_cur # 0, path_cur # 0
    PROVE  /\ \A a \in Addr : mem'[a] = IF a \in {cmd_cur, path_cur} THEN b ELSE mem[a]
           /\ cmd_cur' = IF cmd_cur = arg_buf - 1 THEN 0 ELSE cmd_cur + 1
           /\ path_cur' = IF path_cur = cmd_name - 1 THEN 0 ELSE path_cur + 1
           /\ pc' = "rp_cmd" /\ cmd_done' = cmd_done
<1> DEFINE m1 == Put(mem, cmd_cur, b)
           m2 == Put(m1, path_cur, b)
<1>1. /\ mem \in [Addr -> Word] /\ b \in Word
      /\ cmd_cur \in Addr \cup {0} /\ path_cur \in Addr \cup {0}
  BY Layout DEF TypeOK, Addr, Word, NameAddr, PathAddr
<1>2. /\ m1 \in [Addr -> Word]
      /\ \A a \in Addr : m1[a] = IF a = cmd_cur THEN b ELSE mem[a]
  BY <1>1, PutChase
<1> HIDE DEF m1
<1>3. /\ m2 \in [Addr -> Word]
      /\ \A a \in Addr : m2[a] = IF a = path_cur THEN b ELSE m1[a]
  BY <1>1, <1>2, PutChase
<1> HIDE DEF m2
<1> USE Layout DEF TypeOK, Addr, Word, NameAddr, PathAddr
<1>4. Chase(mem, cmd_cur) = IF cmd_cur = arg_buf - 1 THEN 0 ELSE cmd_cur + 1
  BY DEF ReaderInv, ChainsIntact, Chained, Chase, Link
<1>5. m1[path_cur] = mem[path_cur]
  BY <1>2
<1>6. Chase(m1, path_cur) = IF path_cur = cmd_name - 1 THEN 0 ELSE path_cur + 1
  BY <1>5 DEF ReaderInv, ChainsIntact, Chained, Chase, Link
<1>7. /\ mem' = m2
      /\ cmd_cur' = Chase(mem, cmd_cur) /\ path_cur' = Chase(m1, path_cur)
      /\ pc' = "rp_cmd" /\ cmd_done' = cmd_done
  BY DEF RpCmdWrite, m1, m2
<1>8. \A a \in Addr : mem'[a] = IF a \in {cmd_cur, path_cur} THEN b ELSE mem[a]
  BY <1>2, <1>3, <1>7
<1>. QED BY <1>4, <1>6, <1>7, <1>8

(* The probes tell LF, CR and the space from every other byte. *)
LEMMA ClassIs ==
    ASSUME NEW b
    PROVE  /\ Class(b) = "lf" <=> b = LF
           /\ Class(b) = "cr" <=> b = CR
           /\ Class(b) = "sp" <=> b = SP
           /\ Class(b) = "word" <=> b \notin {LF, CR, SP}
           /\ Class(b) \in {"lf", "cr", "sp", "word"}
           /\ IsLF(b) <=> b = LF
  BY DEF Class, IsLF, Tree, LF, CR, SP

(* What one byte delivered does to the text of the line.                   *)
LEMMA DeliverText ==
    ASSUME LineInv, NEW b \in Input, line' = Append(line, b)
    PROVE  /\ LineInv' /\ b \in Octets
           /\ Text(line') = IF b \in {CR, LF} THEN Text(line) ELSE Append(Text(line), b)
<1>1. b \in Octets /\ line \in Seq(Octets) /\ Text(line) \in Seq(Octets)
  BY MshAssumption DEF Octets, LineInv
<1>2. /\ line \in Seq(Nat) /\ b \in Nat /\ Append(line, b) \in Seq(Octets)
      /\ Len(line) \in Nat /\ Len(Append(line, b)) = Len(line) + 1
      /\ \A k \in 1 .. Len(line) : Append(line, b)[k] = line[k]
      /\ Append(line, b)[Len(line) + 1] = b
  BY <1>1, AppendByte
<1>. DEFINE t == Text(line)
            u == Text(Append(line, b))
<1>3. u = IF b \in {CR, LF} THEN t ELSE Append(t, b)  BY <1>2, TextAppend
<1>4. /\ Append(t, b) \in Seq(Octets) /\ Len(t) \in Nat /\ Len(Append(t, b)) = Len(t) + 1
      /\ \A k \in 1 .. Len(t) : Append(t, b)[k] = t[k]
      /\ Append(t, b)[Len(t) + 1] = b
  BY <1>1, AppendByte
<1>5. ASSUME 0 \notin Range(Append(line, b)), NEW k \in 1 .. Len(u) PROVE u[k] # 0
  <2>1. DOMAIN line = 1 .. Len(line) /\ DOMAIN Append(line, b) = 1 .. Len(line) + 1
    BY <1>1, <1>2
  <2>2. 0 \notin Range(line)
    <3>1. \A i \in 1 .. Len(line) : i \in 1 .. Len(line) + 1  BY <1>2
    <3>. QED BY <1>2, <1>5, <2>1, <3>1 DEF Range
  <2>3. b # 0
    <3>1. Len(line) + 1 \in 1 .. Len(line) + 1  BY <1>2
    <3>. QED BY <1>2, <1>5, <2>1, <3>1 DEF Range
  <2>4. \A i \in 1 .. Len(t) : t[i] # 0  BY <2>2 DEF LineInv
  <2>. HIDE DEF t, u
  <2>5. CASE b \in {CR, LF}  BY <1>3, <1>5, <2>4, <2>5
  <2>6. CASE b \notin {CR, LF}
    <3>1. u = Append(t, b)  BY <1>3, <2>6
    <3>2. k \in 1 .. Len(t) \/ k = Len(t) + 1  BY <1>4, <1>5, <3>1
    <3>. QED BY <1>4, <2>3, <2>4, <3>1, <3>2
  <2>. QED BY <2>5, <2>6
<1>6. u \in Seq(Octets)  BY <1>1, <1>3, <1>4
<1>. HIDE DEF t
<1>7. line' \in Seq(Octets) /\ Text(line') = u  BY <1>2
<1>8. LineInv'
  <2>1. 0 \notin Range(line') => \A k \in 1 .. Len(u) : u[k] # 0  BY <1>5
  <2>. HIDE DEF u
  <2>. QED BY <1>6, <1>7, <2>1 DEF LineInv
<1>. QED BY <1>1, <1>3, <1>7, <1>8 DEF t

(* A buffer left alone goes on spelling its word,                          *)
LEMMA SpelledKept ==
    ASSUME NEW m, NEW n, NEW first \in {cmd_name, path_name}, NEW w, Len(w) \in Nat,
           \A a \in Addr : a >= first /\ a < first + NameCells => n[a] = m[a],
           Spelled(m, first, w)
    PROVE  Spelled(n, first, w)
<1>1. \A k \in 1 .. Len(w) : k <= NameCells =>
          first + k - 1 \in Addr /\ first + k - 1 >= first /\ first + k - 1 < first + NameCells
  BY Layout DEF Addr
<1>. QED BY <1>1 DEF Spelled

(* and its NUL stays.                                                      *)
LEMMA ClosesKept ==
    ASSUME NEW m, NEW n, NEW w, Len(w) \in Nat,
           \A a \in Addr : a >= cmd_name /\ a < cmd_name + NameCells => n[a] = m[a],
           Closes(m, w)
    PROVE  Closes(n, w)
<1>1. Len(w) < NameCells =>
          /\ cmd_name + Len(w) \in Addr /\ cmd_name + Len(w) >= cmd_name
          /\ cmd_name + Len(w) < cmd_name + NameCells
  BY Layout DEF Addr
<1>. QED BY <1>1 DEF Closes

(* A longer word is spelled by a buffer that is full. *)
LEMMA SpelledMore ==
    ASSUME NEW m, NEW first, NEW w \in Seq(Nat), NEW b \in Nat, NEW open
    PROVE  /\ Spelled(m, first, w) /\ Len(w) >= NameCells => Spelled(m, first, Append(w, b))
           /\ Spelled(m, first, w) /\ m[first + Len(w)] = b => Spelled(m, first, Append(w, b))
<1>. DEFINE v == Append(w, b)
<1>1. /\ Len(w) \in Nat /\ Len(v) = Len(w) + 1 /\ NameCells \in Nat
      /\ \A k \in 1 .. Len(w) : v[k] = w[k]
      /\ v[Len(w) + 1] = b
  BY Layout
<1>. HIDE DEF v
<1>2. \A k \in 1 .. Len(v) : k \in 1 .. Len(w) \/ k = Len(w) + 1  BY <1>1
<1>3. ASSUME Spelled(m, first, w), Len(w) >= NameCells PROVE Spelled(m, first, v)
  <2>1. \A k \in 1 .. Len(v) : k <= NameCells => k \in 1 .. Len(w)  BY <1>1, <1>3
  <2>. QED BY <1>1, <1>3, <2>1 DEF Spelled
<1>4. ASSUME Spelled(m, first, w), m[first + Len(w)] = b PROVE Spelled(m, first, v)
  <2>. SUFFICES ASSUME NEW k \in 1 .. Len(v), k <= NameCells PROVE m[first + k - 1] = v[k]
    BY DEF Spelled
  <2>1. CASE k \in 1 .. Len(w)  BY <1>1, <1>4, <2>1 DEF Spelled
  <2>2. CASE k = Len(w) + 1
    <3>1. first + k - 1 = first + Len(w)  BY <1>1, <2>2
    <3>. QED BY <1>1, <1>4, <2>2, <3>1
  <2>. QED BY <1>2, <2>1, <2>2
<1>. QED BY <1>3, <1>4 DEF v

(* A byte behind the command leaves the name buffers alone. *)
LEMMA EndedStep ==
    ASSUME Inv, LineInv, NEW b \in Input, line' = Append(line, b),
           \A a \in Addr : a < arg_buf => mem'[a] = mem[a], path_cur' = path_cur,
           \E w : NameEnded(w) /\ PathEnded(w)
    PROVE  \E w : (NameEnded(w) /\ PathEnded(w))'
<1>1. PICK w, open :
          /\ FirstWord(Text(line), w, open) /\ (open => Len(w) > NameCells)
          /\ Spelled(mem, cmd_name, w) /\ Closes(mem, w)
          /\ Spelled(mem, path_name, w) /\ path_cur = Ahead(path_name, Len(w))
  BY DEF NameEnded, PathEnded
<1>2. /\ b \in Octets /\ b \in Nat
      /\ Text(line') = IF b \in {CR, LF} THEN Text(line) ELSE Append(Text(line), b)
  BY DeliverText, MshAssumption
<1>3. w \in Seq(Nat) /\ Len(w) \in Nat \ {0} /\ NameCells \in Nat  BY <1>1, WordElements, Layout
<1>4. \A a \in Addr : a >= path_name /\ a < path_name + NameCells => a < arg_buf
  BY Layout DEF Addr
<1>5. \A a \in Addr : a >= cmd_name /\ a < cmd_name + NameCells => a < arg_buf
  BY Layout DEF Addr
<1>6. /\ Spelled(mem', cmd_name, w) /\ Closes(mem', w) /\ Spelled(mem', path_name, w)
  BY <1>1, <1>3, <1>4, <1>5, SpelledKept, ClosesKept
<1>7. CASE b \in {CR, LF}
  <2>1. FirstWord(Text(line'), w, open)  BY <1>1, <1>2, <1>7
  <2>. QED BY <1>1, <1>6, <2>1 DEF NameEnded, PathEnded
<1>8. CASE b \notin {CR, LF} /\ (~open \/ b = SP)
  <2>1. FirstWord(Text(line'), w, FALSE)  BY <1>1, <1>2, <1>8, WordKept
  <2>. QED BY <1>1, <1>6, <2>1 DEF NameEnded, PathEnded
<1>9. CASE b \notin {CR, LF} /\ open /\ b # SP
  <2>. DEFINE v == Append(w, b)
  <2>1. FirstWord(Text(line), w, TRUE)
    <3>1. FirstWord(Text(line), w, open) /\ (open <=> TRUE)  BY <1>1, <1>9
    <3>. QED BY <3>1 DEF FirstWord
  <2>2. FirstWord(Text(line'), v, TRUE)  BY <1>2, <1>9, <2>1, WordMore
  <2>3. Len(w) > NameCells /\ Len(v) = Len(w) + 1  BY <1>1, <1>2, <1>3, <1>9
  <2>4. Spelled(mem', cmd_name, v) /\ Spelled(mem', path_name, v)
    BY <1>2, <1>3, <1>6, <2>3, SpelledMore
  <2>. HIDE DEF v
  <2>5. Len(v) > NameCells /\ Closes(mem', v)  BY <1>3, <2>3 DEF Closes
  <2>6. path_cur' = Ahead(path_name, Len(v))  BY <1>1, <1>3, <2>3 DEF Ahead
  <2>7. NameEnded(v)' /\ PathEnded(v)'  BY <2>2, <2>4, <2>5, <2>6 DEF NameEnded, PathEnded
  <2>. QED BY <2>7
<1>. QED BY <1>7, <1>8, <1>9

(* The first byte of a command goes to both name buffers. *)
LEMMA NameStart ==
    ASSUME Inv, LineInv, NEW b \in Input, line' = Append(line, b), b \notin {LF, CR, SP},
           RpCmdWrite(b), Blank(Text(line)), cmd_cur = cmd_name, path_cur = path_name
    PROVE  pc' = "rp_cmd" /\ cmd_done' = cmd_done /\ \E w : NameOpen(w)'
<1>1. b \in 0 .. 255 /\ TypeOK /\ ReaderInv /\ cmd_cur # 0 /\ path_cur # 0
  BY MshAssumption, Layout DEF Inv
<1>2. /\ \A a \in Addr : mem'[a] = IF a \in {cmd_name, path_name} THEN b ELSE mem[a]
      /\ cmd_cur' = IF cmd_name = arg_buf - 1 THEN 0 ELSE cmd_name + 1
      /\ path_cur' = IF path_name = cmd_name - 1 THEN 0 ELSE path_name + 1
      /\ pc' = "rp_cmd" /\ cmd_done' = cmd_done
  BY <1>1, CmdWriteCells
<1>3. b \in Octets /\ Text(line') = Append(Text(line), b)
  BY DeliverText
<1>. DEFINE w == <<b>>
<1>4. FirstWord(Text(line'), w, TRUE)  BY <1>3, WordNew
<1>5. Len(w) = 1 /\ w[1] = b /\ \A k \in 1 .. Len(w) : k = 1  OBVIOUS
<1>. HIDE DEF w
<1>6. mem'[cmd_name] = b /\ mem'[path_name] = b  BY <1>2, Layout DEF Addr
<1>7. Spelled(mem', cmd_name, w) /\ Spelled(mem', path_name, w)
  BY <1>5, <1>6, Layout DEF Spelled
<1>8. /\ Len(w) <= NameCells
      /\ cmd_cur' = Ahead(cmd_name, Len(w)) /\ path_cur' = Ahead(path_name, Len(w))
  BY <1>2, <1>5, Layout DEF Ahead
<1>9. NameOpen(w)'  BY <1>4, <1>7, <1>8 DEF NameOpen
<1>. QED BY <1>2, <1>9

(* A byte more of the command: into both buffers, or the name is full. *)
LEMMA NameStep ==
    ASSUME Inv, LineInv, NEW b \in Input, line' = Append(line, b), b \notin {LF, CR, SP},
           RpCmdWrite(b), NEW w, NameOpen(w)
    PROVE  \/ pc' = "rp_cmd" /\ cmd_done' = cmd_done /\ \E v : NameOpen(v)'
           \/ pc' = "rp_space" /\ cmd_done' = TRUE /\ \E v : (NameEnded(v) /\ PathEnded(v))'
<1>. DEFINE n == Len(w)
            v == Append(w, b)
<1>1. b \in 0 .. 255 /\ b \in Nat /\ TypeOK /\ ReaderInv
  BY MshAssumption DEF Inv
<1>2. b \in Octets /\ Text(line') = Append(Text(line), b)
  BY DeliverText
<1>3. /\ FirstWord(Text(line), w, TRUE) /\ n <= NameCells
      /\ Spelled(mem, cmd_name, w) /\ Spelled(mem, path_name, w)
      /\ cmd_cur = Ahead(cmd_name, n) /\ path_cur = Ahead(path_name, n)
  BY DEF NameOpen
<1>4. w \in Seq(Nat) /\ n \in Nat \ {0}  BY <1>3, WordElements
<1>5. Len(v) = n + 1  BY <1>1, <1>4
<1>6. FirstWord(Text(line'), v, TRUE)  BY <1>2, <1>3, WordMore
<1>7. CASE n < NameCells
  <2>1. /\ cmd_cur = cmd_name + n /\ path_cur = path_name + n /\ cmd_cur # 0 /\ path_cur # 0
        /\ cmd_cur \in Addr /\ path_cur \in Addr
    BY <1>3, <1>4, <1>7, Layout DEF Ahead, Addr
  <2>2. /\ \A a \in Addr : mem'[a] = IF a \in {cmd_cur, path_cur} THEN b ELSE mem[a]
        /\ cmd_cur' = IF cmd_cur = arg_buf - 1 THEN 0 ELSE cmd_cur + 1
        /\ path_cur' = IF path_cur = cmd_name - 1 THEN 0 ELSE path_cur + 1
        /\ pc' = "rp_cmd" /\ cmd_done' = cmd_done
    BY <1>1, <2>1, CmdWriteCells
  <2>3. ASSUME NEW first \in {cmd_name, path_name} PROVE Spelled(mem', first, v)
    <3>. HIDE DEF n, v
    <3>1. ASSUME NEW k \in 1 .. n PROVE mem'[first + k - 1] = w[k]
      <4>1. first + k - 1 \in Addr /\ first + k - 1 \notin {cmd_cur, path_cur}
        BY <1>4, <1>7, <2>1, Layout DEF Addr
      <4>2. mem[first + k - 1] = w[k]
        <5>1. Spelled(mem, first, w)  BY <1>3
        <5>2. k \in 1 .. Len(w) /\ k <= NameCells  BY <1>4, <1>7, Layout DEF n
        <5>. QED BY <5>1, <5>2 DEF Spelled
      <4>. QED BY <2>2, <4>1, <4>2
    <3>2. Spelled(mem', first, w)  BY <3>1 DEF Spelled, n
    <3>3. mem'[first + n] = b  BY <2>1, <2>2
    <3>. QED BY <1>1, <1>4, <3>2, <3>3, SpelledMore DEF n, v
  <2>. HIDE DEF n, v
  <2>4. /\ Len(v) <= NameCells
        /\ cmd_cur' = Ahead(cmd_name, Len(v)) /\ path_cur' = Ahead(path_name, Len(v))
    BY <1>4, <1>5, <1>7, <2>1, <2>2, Layout DEF Ahead
  <2>5. NameOpen(v)'  BY <1>6, <2>3, <2>4 DEF NameOpen
  <2>. QED BY <2>2, <2>5
<1>8. CASE n = NameCells
  <2>1. cmd_cur = 0 /\ path_cur = 0  BY <1>3, <1>8, Layout DEF Ahead
  <2>2. pc' = "rp_space" /\ cmd_done' = TRUE /\ UNCHANGED <<mem, cmd_cur, path_cur>>
    BY <2>1 DEF RpCmdWrite
  <2>3. Spelled(mem', cmd_name, v) /\ Spelled(mem', path_name, v)
    BY <1>1, <1>3, <1>4, <1>8, <2>2, Layout, SpelledMore
  <2>. HIDE DEF n, v
  <2>4. Len(v) > NameCells /\ Closes(mem', v)  BY <1>4, <1>5, <1>8, Layout DEF Closes
  <2>5. path_cur' = Ahead(path_name, Len(v))  BY <2>1, <2>2, <2>4, <1>4, <1>5, Layout DEF Ahead
  <2>6. NameEnded(v)' /\ PathEnded(v)'  BY <1>6, <2>3, <2>4, <2>5 DEF NameEnded, PathEnded
  <2>. QED BY <2>2, <2>6
<1>. HIDE DEF n, v
<1>9. n < NameCells \/ n = NameCells  BY <1>3, <1>4, Layout
<1>. QED BY <1>7, <1>8, <1>9

(* The NUL behind the command, from a space or the end of the line. *)
LEMMA NameClose ==
    ASSUME Inv, NEW w, NameOpen(w), NEW m,
           \A a \in Addr : a < arg_buf => m[a] = Put(mem, cmd_cur, 0)[a]
    PROVE  Spelled(m, cmd_name, w) /\ Closes(m, w) /\ Spelled(m, path_name, w)
<1>. DEFINE n == Len(w)
            c == Put(mem, cmd_cur, 0)
<1>1. /\ FirstWord(Text(line), w, TRUE) /\ n <= NameCells
      /\ Spelled(mem, cmd_name, w) /\ Spelled(mem, path_name, w)
      /\ cmd_cur = Ahead(cmd_name, n)
  BY DEF NameOpen
<1>2. w \in Seq(Nat) /\ n \in Nat \ {0}  BY <1>1, WordElements
<1>3. mem \in [Addr -> Word] /\ cmd_cur \in Addr \cup {0} /\ 0 \in Word
  BY Layout DEF Inv, TypeOK, Addr, Word, NameAddr
<1>4. \A a \in Addr : c[a] = IF a = cmd_cur THEN 0 ELSE mem[a]  BY <1>3, PutChase
<1>. HIDE DEF c, n
<1>5. \A a \in Addr : a < arg_buf => m[a] = IF a = cmd_cur THEN 0 ELSE mem[a]
  BY <1>4 DEF c
<1>6. ASSUME NEW first \in {cmd_name, path_name} PROVE Spelled(m, first, w)
  <2>. SUFFICES ASSUME NEW k \in 1 .. n, k <= NameCells PROVE m[first + k - 1] = w[k]
    BY DEF Spelled, n
  <2>1. mem[first + k - 1] = w[k]  BY <1>1 DEF Spelled, n
  <2>2. first + k - 1 \in Addr /\ first + k - 1 < arg_buf /\ first + k - 1 # cmd_cur
    <3>1. k \in Nat /\ k >= 1 /\ k <= n /\ n \in Nat  BY <1>2
    <3>2. cmd_cur = 0 \/ (cmd_cur = cmd_name + n /\ n < NameCells)
      BY <1>1, <1>2, Layout DEF Ahead
    <3>3. CASE first = cmd_name  BY <3>1, <3>2, <3>3, Layout DEF Addr
    <3>4. CASE first = path_name  BY <3>1, <3>2, <3>4, Layout DEF Addr
    <3>. QED BY <3>3, <3>4
  <2>. QED BY <1>5, <2>1, <2>2
<1>7. Closes(m, w)
  <2>. SUFFICES ASSUME n < NameCells PROVE m[cmd_name + n] = 0  BY DEF Closes, n
  <2>1. cmd_name + n \in Addr /\ cmd_name + n < arg_buf /\ cmd_cur = cmd_name + n
    <3>1. n \in Nat /\ NameCells \in Nat  BY <1>2, Layout
    <3>2. cmd_cur = cmd_name + n  BY <1>1, <3>1 DEF Ahead
    <3>. QED BY <3>1, <3>2, Layout DEF Addr
  <2>. QED BY <1>5, <2>1
<1>. QED BY <1>6, <1>7

(* A step that reads nothing of the name and writes none of it. *)
LEMMA QuietName ==
    ASSUME NameInv, pc \in Reading, pc' \in {pc, "rp_finish"}, Text(line') = Text(line),
           UNCHANGED <<mem, cmd_cur, path_cur, cmd_done, cmd_started>>
    PROVE  NameInv'
<1>1. CASE Unnamed  BY <1>1 DEF Unnamed, NameInv
<1>2. CASE Naming
  <2>1. PICK w : NameOpen(w)  BY <1>2 DEF Naming
  <2>2. NameOpen(w)'  BY <2>1 DEF NameOpen
  <2>3. Naming'  BY <1>2, <2>2 DEF Naming
  <2>. QED BY <2>3 DEF NameInv
<1>3. CASE Named
  <2>1. PICK w : NameEnded(w) /\ PathEnded(w)  BY <1>3 DEF Named
  <2>2. (NameEnded(w) /\ PathEnded(w))'  BY <2>1 DEF NameEnded, PathEnded
  <2>3. Named'  BY <1>3, <2>2 DEF Named
  <2>. QED BY <2>3 DEF NameInv
<1>. QED BY <1>1, <1>2, <1>3 DEF NameInv

(* A byte behind the command. *)
LEMMA NamedStep ==
    ASSUME Inv, LineInv, Named, NEW b \in Input, line' = Append(line, b), pc' # "rp_cmd",
           \A a \in Addr : a < arg_buf => mem'[a] = mem[a],
           UNCHANGED <<path_cur, cmd_done, cmd_started>>
    PROVE  NameInv'
<1>1. \E w : (NameEnded(w) /\ PathEnded(w))'  BY EndedStep DEF Named
<1>2. Named'  BY <1>1 DEF Named
<1>. QED BY <1>2 DEF NameInv

(* What the argument code writes lies behind the name buffers. *)
LEMMA ArgsAbove ==
    ASSUME Inv, NEW b \in 0 .. 255,
           \/ RpArgStart(b)
           \/ RpArgWrite(mem, x_slot, b) /\ pc = "rp_arg"
           \/ mem' = Put(mem, arg_cur, 0)
           \/ mem' = Store(mem, x_slot, 0) /\ pc = "rp_arg"
    PROVE  \A a \in Addr : a < arg_buf => mem'[a] = mem[a]
<1>1. /\ mem \in [Addr -> Word] /\ arg_cur \in Addr \cup {0} /\ xcur \in Addr \cup {0}
      /\ arg_cur = 0 \/ arg_cur >= arg_buf
      /\ xcur = 0 \/ xcur >= arg_buf
      /\ arg_cur \in Word /\ b \in Word /\ 0 \in Word
      /\ pc = "rp_arg" => x_slot \in Addr /\ x_slot >= arg_buf
  BY Layout DEF Inv, TypeOK, ReaderInv, SlotsInv, OpenSlot, Addr, Word, ArgAddr, SlotAddr
<1>2. ASSUME NEW m \in [Addr -> Word], NEW c \in Addr \cup {0}, NEW w \in Word,
             c = 0 \/ c >= arg_buf, \A a \in Addr : a < arg_buf => m[a] = mem[a]
      PROVE  /\ Put(m, c, w) \in [Addr -> Word]
             /\ \A a \in Addr : a < arg_buf => Put(m, c, w)[a] = mem[a]
  <2>1. /\ Put(m, c, w) \in [Addr -> Word]
        /\ \A a \in Addr : Put(m, c, w)[a] = IF a = c THEN w ELSE m[a]
    BY <1>2, PutChase
  <2>2. \A a \in Addr : a < arg_buf => a # c  BY <1>2, Layout DEF Addr
  <2>. QED BY <1>2, <2>1, <2>2
<1>3. CASE mem' = mem  BY <1>3
<1>4. ASSUME NEW w \in Word, mem' = Put(mem, arg_cur, w)
      PROVE  \A a \in Addr : a < arg_buf => mem'[a] = mem[a]
  BY <1>1, <1>2, <1>4
<1>5. CASE mem' = Store(mem, x_slot, 0) /\ pc = "rp_arg"
  <2>1. x_slot \in Addr \cup {0} /\ x_slot # 0 /\ (x_slot = 0 \/ x_slot >= arg_buf)
    BY <1>1, <1>5, Layout
  <2>2. mem' = Put(mem, x_slot, 0)  BY <1>5, <2>1 DEF Put
  <2>. QED BY <1>1, <1>2, <2>1, <2>2
<1>6. CASE RpArgStart(b) /\ mem' # mem
  <2>. DEFINE m == Put(mem, xcur, arg_cur)
  <2>1. xcur # 0 /\ arg_cur # 0 /\ mem' = Put(m, arg_cur, b)
    BY <1>6 DEF RpArgStart, RpArgWrite
  <2>2. m \in [Addr -> Word] /\ \A a \in Addr : a < arg_buf => m[a] = mem[a]
    BY <1>1, <1>2
  <2>. HIDE DEF m
  <2>. QED BY <1>1, <1>2, <2>1, <2>2
<1>. QED BY <1>1, <1>3, <1>4, <1>5, <1>6 DEF RpArgWrite

(* rp_space, for the command.                                              *)
LEMMA RpSpaceKeepsName ==
    ASSUME Inv, LineInv, NameInv, NEW b \in Input, RpSpace(b)
    PROVE  NameInv' /\ pc \in Reading /\ pc' \in Reading
<1>1. /\ pc = "rp_space" /\ line' = Append(line, b) /\ b \in 0 .. 255
      /\ ~cmd_done => Unnamed
      /\ cmd_done => Named
  BY MshAssumption DEF RpSpace, Deliver, NameInv, Reading, Unnamed, Naming, Named
<1>2. /\ b \in Octets
      /\ Text(line') = IF b \in {CR, LF} THEN Text(line) ELSE Append(Text(line), b)
  BY <1>1, DeliverText
<1>3. CASE b \in {LF, CR}
  <2>1. /\ pc' \in {pc, "rp_finish"}
        /\ UNCHANGED <<mem, cmd_cur, path_cur, cmd_done, cmd_started>>
    BY <1>1, <1>3, ClassIs DEF RpSpace, cursors
  <2>2. Text(line') = Text(line)  BY <1>2, <1>3
  <2>. QED BY <1>1, <2>1, <2>2, QuietName DEF Reading
<1>4. CASE b = SP
  <2>1. pc' = pc /\ UNCHANGED <<mem, cmd_cur, path_cur, cmd_done, cmd_started>>
    BY <1>1, <1>4, ClassIs DEF RpSpace, cursors, LF, CR, SP
  <2>2. CASE cmd_done
    <3>1. NameInv'  BY <1>1, <2>1, <2>2, NamedStep
    <3>. QED BY <1>1, <2>1, <3>1 DEF Reading
  <2>3. CASE ~cmd_done
    <3>1. Text(line') = Append(Text(line), SP)  BY <1>2, <1>4 DEF LF, CR, SP
    <3>2. Blank(Text(line'))  BY <1>1, <2>3, <3>1, BlankKept DEF Unnamed
    <3>3. Unnamed'  BY <1>1, <2>1, <2>3, <3>2 DEF Unnamed
    <3>. QED BY <1>1, <2>1, <3>3 DEF NameInv, Reading
  <2>. QED BY <2>2, <2>3
<1>5. CASE b \notin {LF, CR, SP}
  <2>1. Class(b) = "word"  BY <1>5, ClassIs
  <2>2. CASE cmd_done
    <3>1. /\ RpArgStart(b) /\ UNCHANGED <<cmd_cur, path_cur, cmd_done, cmd_started>>
      BY <2>1, <2>2 DEF RpSpace
    <3>2. pc' \in {"rp_arg", "rp_drain"}  BY <3>1 DEF RpArgStart, RpArgWrite
    <3>3. \A a \in Addr : a < arg_buf => mem'[a] = mem[a]  BY <1>1, <3>1, ArgsAbove
    <3>4. NameInv'  BY <1>1, <2>2, <3>1, <3>2, <3>3, NamedStep
    <3>. QED BY <1>1, <3>2, <3>4 DEF Reading
  <2>3. CASE ~cmd_done
    <3>1. RpCmdWrite(b) /\ cmd_started' = TRUE  BY <2>1, <2>3 DEF RpSpace
    <3>2. pc' = "rp_cmd" /\ cmd_done' = cmd_done /\ \E w : NameOpen(w)'
      BY <1>1, <1>5, <2>3, <3>1, NameStart DEF Unnamed
    <3>3. Naming'  BY <2>3, <3>1, <3>2 DEF Naming
    <3>. QED BY <1>1, <3>2, <3>3 DEF NameInv, Reading
  <2>. QED BY <2>2, <2>3
<1>. QED BY <1>3, <1>4, <1>5

(* rp_cmd, for the command.                                                *)
LEMMA RpCmdKeepsName ==
    ASSUME Inv, LineInv, NameInv, NEW b \in Input, RpCmd(b)
    PROVE  NameInv' /\ pc \in Reading /\ pc' \in Reading
<1>1. /\ pc = "rp_cmd" /\ line' = Append(line, b) /\ b \in 0 .. 255
      /\ Naming /\ cmd_started' = cmd_started
  BY MshAssumption DEF RpCmd, Deliver, NameInv, Reading, Unnamed, Naming, Named
<1>2. /\ b \in Octets
      /\ Text(line') = IF b \in {CR, LF} THEN Text(line) ELSE Append(Text(line), b)
  BY <1>1, DeliverText
<1>3. CASE b \in {LF, CR}
  <2>1. /\ pc' \in {pc, "rp_finish"}
        /\ UNCHANGED <<mem, cmd_cur, path_cur, cmd_done, cmd_started>>
    BY <1>1, <1>3, ClassIs DEF RpCmd
  <2>2. Text(line') = Text(line)  BY <1>2, <1>3
  <2>. QED BY <1>1, <2>1, <2>2, QuietName DEF Reading
<1>4. PICK w : NameOpen(w)  BY <1>1 DEF Naming
<1>5. CASE b = SP
  <2>1. /\ mem' = Put(mem, cmd_cur, 0) /\ cmd_done' = TRUE
        /\ pc' = "rp_space" /\ path_cur' = path_cur
    BY <1>5, ClassIs DEF RpCmd, RpCmdEnd, LF, CR, SP
  <2>2. Spelled(mem', cmd_name, w) /\ Closes(mem', w) /\ Spelled(mem', path_name, w)
    BY <1>4, <2>1, NameClose
  <2>3. Text(line') = Append(Text(line), b)  BY <1>2, <1>5 DEF LF, CR, SP
  <2>4. FirstWord(Text(line'), w, FALSE)  BY <1>2, <1>4, <1>5, <2>3, WordKept DEF NameOpen
  <2>5. (NameEnded(w) /\ PathEnded(w))'
    BY <1>4, <2>1, <2>2, <2>4 DEF NameEnded, PathEnded, NameOpen
  <2>6. Named'  BY <1>1, <2>1, <2>5 DEF Named, Naming
  <2>. QED BY <1>1, <2>1, <2>6 DEF NameInv, Reading
<1>6. CASE b \notin {LF, CR, SP}
  <2>1. RpCmdWrite(b)  BY <1>6, ClassIs DEF RpCmd
  <2>2. \/ pc' = "rp_cmd" /\ cmd_done' = cmd_done /\ \E v : NameOpen(v)'
        \/ pc' = "rp_space" /\ cmd_done' = TRUE /\ \E v : (NameEnded(v) /\ PathEnded(v))'
    BY <1>1, <1>4, <1>6, <2>1, NameStep
  <2>3. Naming' \/ Named'  BY <1>1, <2>2 DEF Naming, Named
  <2>. QED BY <1>1, <2>2, <2>3 DEF NameInv, Reading
<1>. QED BY <1>3, <1>5, <1>6

(* rp_arg writes behind the name buffers.                                  *)
LEMMA RpArgKeepsName ==
    ASSUME Inv, LineInv, NameInv, NEW b \in Input, RpArg(b)
    PROVE  NameInv' /\ pc \in Reading /\ pc' \in Reading
<1>1. /\ pc = "rp_arg" /\ line' = Append(line, b) /\ b \in 0 .. 255 /\ Named
      /\ UNCHANGED <<cmd_cur, path_cur, cmd_done, cmd_started>>
  BY MshAssumption DEF RpArg, Deliver, NameInv, Reading, Unnamed, Naming, Named
<1>2. /\ pc' \in {"rp_arg", "rp_space", "rp_drain", "rp_finish"}
      /\ \/ mem' = mem
         \/ RpArgWrite(mem, x_slot, b)
         \/ mem' = Put(mem, arg_cur, 0)
         \/ mem' = Store(mem, x_slot, 0)
  BY <1>1 DEF RpArg, RpArgWrite
<1>3. \A a \in Addr : a < arg_buf => mem'[a] = mem[a]  BY <1>1, <1>2, ArgsAbove
<1>4. NameInv'  BY <1>1, <1>2, <1>3, NamedStep
<1>. QED BY <1>1, <1>2, <1>4 DEF Reading

(* rp_drain writes nothing.                                                *)
LEMMA RpDrainKeepsName ==
    ASSUME Inv, LineInv, NameInv, NEW b \in Input, RpDrain(b)
    PROVE  NameInv' /\ pc \in Reading /\ pc' \in Reading
<1>1. /\ pc = "rp_drain" /\ line' = Append(line, b) /\ Named
      /\ UNCHANGED <<mem, cmd_cur, path_cur, cmd_done, cmd_started>>
      /\ pc' \in {"rp_drain", "rp_finish"}
  BY DEF RpDrain, Deliver, NameInv, Reading, Unnamed, Naming, Named, cursors
<1>2. NameInv'  BY <1>1, NamedStep
<1>. QED BY <1>1, <1>2 DEF Reading

(* The prompt: both name buffers are empty again. *)
LEMMA ReadParseKeepsName ==
    ASSUME ReadParse PROVE LineInv' /\ NameInv' /\ pc' \in Reading /\ obs' = NoObs
<1>1. /\ line' = <<>> /\ pc' = "rp_space" /\ obs' = NoObs
      /\ cmd_done' = FALSE /\ cmd_started' = FALSE
      /\ cmd_cur' = cmd_name /\ path_cur' = path_name
  BY DEF ReadParse
<1>2. Text(line') = <<>>  BY <1>1, TextEmpty
<1>3. <<>> \in Seq(Octets) /\ Len(<<>>) = 0  OBVIOUS
<1>. DEFINE t == Text(line')
<1>. HIDE DEF t
<1>4. line' \in Seq(Octets) /\ t \in Seq(Octets) /\ \A k \in 1 .. Len(t) : FALSE
  <2>1. t = <<>> /\ line' = <<>>  BY <1>1, <1>2 DEF t
  <2>2. Len(t) = 0  BY <1>3, <2>1
  <2>3. \A k \in 1 .. 0 : FALSE  OBVIOUS
  <2>4. \A k \in 1 .. Len(t) : FALSE  BY <2>2, <2>3
  <2>. QED BY <1>3, <2>1, <2>4
<1>5. Blank(Text(line')) /\ LineInv'
  <2>1. Blank(t)  BY <1>4 DEF Blank
  <2>2. LineInv'  BY <1>4 DEF LineInv, t
  <2>. QED BY <2>1, <2>2 DEF t
<1>6. Unnamed'  BY <1>1, <1>5 DEF Unnamed
<1>. QED BY <1>1, <1>5, <1>6 DEF NameInv, Reading

----------------------------------------------------------------------------
(* The dispatch and the acts.                                              *)

(* Each builtin has a label of its own.                                    *)
LEMMA HandlerIs ==
    /\ \A k \in BuiltinNames : Handler[k] \in Handlers
    /\ \A j, k \in BuiltinNames : Handler[j] = Handler[k] => j = k
  BY DEF BuiltinNames, Handler, Handlers

(* A step inside the reader owes the dispatch nothing.                     *)
LEMMA ReadingStep ==
    ASSUME ObsInv, pc \in Reading \/ obs' = NoObs, obs' \in {obs, NoObs}, pc' \in Reading,
           LineInv', NameInv'
    PROVE  CommandInv'
<1>1. obs'.kind = "none"
  BY DEF ObsInv, NoObs, Reading
<1>2. EndedInv'
  BY HandlerIs DEF EndedInv, Reading, Acting, Handlers, ReadWell
<1>3. ImageInv' /\ ObsInv'
  BY <1>1 DEF ImageInv, ObsInv, OnlyTheTypedCommandRuns, Reading
<1>. QED BY <1>2, <1>3 DEF CommandInv

(* Labels at which nothing is owed. *)
Idle == {"msh_loop", "eof", "exited", "read_failed", "wait4", "external_failed"}

(* A step to a label at which nothing is owed.                             *)
LEMMA IdleStep ==
    ASSUME CommandInv, UNCHANGED line, pc' \in Idle, ObsInv'
    PROVE  CommandInv'
<1>1. EndedInv'
  BY HandlerIs DEF EndedInv, Acting, Handlers, ReadWell, Idle
<1>2. ImageInv' /\ NameInv'
  BY DEF ImageInv, NameInv, Idle, Reading
<1>3. LineInv'  BY DEF CommandInv, LineInv
<1>. QED BY <1>1, <1>2, <1>3 DEF CommandInv

(* A step within the shell that observes nothing. *)
LEMMA SilentStep ==
    ASSUME ObsInv, UNCHANGED obs, pc \notin {"wait4", "external_failed", "msh_loop", "exited"}
    PROVE  ObsInv'
<1>1. obs'.kind = "none"  BY DEF ObsInv
<1>. QED BY <1>1 DEF ObsInv, OnlyTheTypedCommandRuns

(* End of file and read errors end the line as it is.                      *)
LEMMA ReadEndsKeepCommand ==
    ASSUME Inv, CommandInv, ReadEof \/ ReadFail
    PROVE  CommandInv'
<1>1. /\ pc \in {"rp_space", "rp_cmd", "rp_arg", "rp_drain"}
      /\ UNCHANGED <<mem, cmd_cur, path_cur, cmd_done, cmd_started, line, obs>>
      /\ \/ pc' \in {"rp_finish", "eof"}
         \/ pc' = "after_read" /\ read_status'
  BY DEF ReadEof, ReadFail, cursors, flags, history
<1>2. ObsInv'  BY <1>1, SilentStep DEF CommandInv
<1>3. LineInv'  BY <1>1 DEF CommandInv, LineInv
<1>4. CASE pc' = "rp_finish"
  <2>1. NameInv'  BY <1>1, <1>4, QuietName DEF CommandInv, Reading
  <2>. QED BY <1>1, <1>3, <1>4, <2>1, ReadingStep DEF CommandInv, Reading
<1>5. CASE pc' = "eof"
  BY <1>1, <1>2, <1>5, IdleStep DEF Idle
<1>6. CASE pc' = "after_read" /\ read_status'
  <2>1. EndedInv'  BY <1>6, HandlerIs DEF EndedInv, Acting, Handlers, ReadWell
  <2>2. ImageInv' /\ NameInv'  BY <1>6 DEF ImageInv, NameInv, Reading
  <2>. QED BY <1>2, <1>3, <2>1, <2>2 DEF CommandInv
<1>. QED BY <1>1, <1>4, <1>5, <1>6

(* One byte more of the line.                                              *)
LEMMA ReadByteKeepsCommand ==
    ASSUME Inv, CommandInv, ReadByte
    PROVE  CommandInv'
<1>1. PICK b \in Input : RpSpace(b) \/ RpCmd(b) \/ RpArg(b) \/ RpDrain(b)  BY DEF ReadByte
<1>2. line' = Append(line, b) /\ obs' = obs
  BY <1>1 DEF RpSpace, RpCmd, RpArg, RpDrain, Deliver
<1>3. LineInv /\ NameInv  BY DEF CommandInv
<1>4. LineInv'  BY <1>2, <1>3, DeliverText
<1>5. NameInv' /\ pc \in Reading /\ pc' \in Reading
  BY <1>1, <1>3, RpSpaceKeepsName, RpCmdKeepsName, RpArgKeepsName, RpDrainKeepsName
<1>. QED BY <1>2, <1>4, <1>5, ReadingStep DEF CommandInv

(* The end of the line closes the command word.                            *)
LEMMA RpFinishKeepsCommand ==
    ASSUME Inv, CommandInv, RpFinish
    PROVE  CommandInv'
<1>. DEFINE name == IF cmd_done THEN 0 ELSE cmd_cur
            m1 == Put(mem, name, 0)
            m2 == Put(m1, arg_cur, 0)
<1>1. /\ pc = "rp_finish" /\ pc' = "after_read" /\ mem' = Put(m2, xcur, 0)
      /\ UNCHANGED <<path_cur, cmd_started, read_status, cmd_image_ptr, line, obs>>
  BY DEF RpFinish, history
<1>2. /\ mem \in [Addr -> Word] /\ name \in Addr \cup {0} /\ 0 \in Word
      /\ arg_cur \in Addr \cup {0} /\ xcur \in Addr \cup {0}
      /\ arg_cur = 0 \/ arg_cur >= arg_buf
      /\ xcur = 0 \/ xcur >= arg_buf
  BY Layout DEF Inv, TypeOK, Addr, Word, NameAddr, ArgAddr, SlotAddr
<1>. HIDE DEF name
<1>3. m1 \in [Addr -> Word] /\ \A a \in Addr : m1[a] = IF a = name THEN 0 ELSE mem[a]
  BY <1>2, PutChase
<1>. HIDE DEF m1
<1>4. m2 \in [Addr -> Word] /\ \A a \in Addr : m2[a] = IF a = arg_cur THEN 0 ELSE m1[a]
  <2>1. m1 \in [Addr -> Word] /\ arg_cur \in Addr \cup {0} /\ 0 \in Word  BY <1>2, <1>3
  <2>. QED BY <2>1, PutChase
<1>. HIDE DEF m2
<1>5. \A a \in Addr : mem'[a] = IF a = xcur THEN 0 ELSE m2[a]
  <2>0. m2 \in [Addr -> Word] /\ xcur \in Addr \cup {0} /\ 0 \in Word  BY <1>2, <1>4
  <2>1. \A a \in Addr : Put(m2, xcur, 0)[a] = IF a = xcur THEN 0 ELSE m2[a]
    <3>1. Written(Put(m2, xcur, 0), m2, xcur, 0)  BY <2>0, PutWritten
    <3>. QED BY <3>1 DEF Written
  <2>. QED BY <1>1, <2>1
<1>6. \A a \in Addr : a < arg_buf => a # arg_cur /\ a # xcur
  BY <1>2, Layout DEF Addr
<1>7. \A a \in Addr : a < arg_buf => mem'[a] = m1[a]
  BY <1>4, <1>5, <1>6
<1>8. ASSUME cmd_started
      PROVE  \E w, open : /\ FirstWord(Text(line), w, open)
                          /\ Spelled(mem', cmd_name, w) /\ Closes(mem', w)
                          /\ Spelled(mem', path_name, w) /\ path_cur = Ahead(path_name, Len(w))
  <2>0. Naming \/ Named  BY <1>1, <1>8 DEF CommandInv, NameInv, Reading, Unnamed
  <2>1. CASE Naming
    <3>1. PICK w : NameOpen(w)  BY <2>1 DEF Naming
    <3>2. m1 = Put(mem, cmd_cur, 0)  BY <2>1 DEF m1, name, Naming
    <3>3. Spelled(mem', cmd_name, w) /\ Closes(mem', w) /\ Spelled(mem', path_name, w)
      BY <1>7, <3>1, <3>2, NameClose
    <3>4. FirstWord(Text(line), w, TRUE) /\ path_cur = Ahead(path_name, Len(w))
      BY <3>1 DEF NameOpen
    <3>. QED BY <3>3, <3>4
  <2>2. CASE Named
    <3>1. PICK w, open : /\ FirstWord(Text(line), w, open)
                         /\ Spelled(mem, cmd_name, w) /\ Closes(mem, w)
                         /\ Spelled(mem, path_name, w) /\ path_cur = Ahead(path_name, Len(w))
      BY <2>2 DEF Named, NameEnded, PathEnded
    <3>2. name = 0  BY <2>2 DEF name, Named
    <3>3. \A a \in Addr : a < arg_buf => mem'[a] = mem[a]
      BY <1>3, <1>7, <3>2, Layout DEF Addr
    <3>4. Len(w) \in Nat  BY <3>1, WordElements
    <3>5. /\ \A a \in Addr : a >= path_name /\ a < path_name + NameCells => mem'[a] = mem[a]
          /\ \A a \in Addr : a >= cmd_name /\ a < cmd_name + NameCells => mem'[a] = mem[a]
      BY <3>3, Layout DEF Addr
    <3>6. Spelled(mem', cmd_name, w) /\ Closes(mem', w) /\ Spelled(mem', path_name, w)
      BY <3>1, <3>4, <3>5, SpelledKept, ClosesKept
    <3>. QED BY <3>1, <3>6
  <2>. QED BY <2>0, <2>1, <2>2
<1>9. EndedInv'
  <2>1. ReadWell' => cmd_started  BY <1>1 DEF ReadWell
  <2>2. pc' \notin Acting /\ pc' # "do_external" /\ \A k \in BuiltinNames : pc' # Handler[k]
    BY <1>1, HandlerIs DEF Acting, Handlers
  <2>. QED BY <1>1, <1>8, <2>1, <2>2 DEF EndedInv, PathEnded
<1>10. ImageInv' /\ NameInv'  BY <1>1 DEF ImageInv, NameInv, Reading
<1>11. LineInv'  BY <1>1 DEF CommandInv, LineInv
<1>12. ObsInv'  BY <1>1, SilentStep DEF CommandInv
<1>. QED BY <1>9, <1>10, <1>11, <1>12 DEF CommandInv

(* The first test that matches decides, and none matching leads to         *)
(* do_external.                                                            *)
LEMMA DispatchedIs ==
    \/ Dispatched = "do_external" /\ \A k \in BuiltinNames : ~Matches(k)
    \/ \E k \in BuiltinNames : Matches(k) /\ Dispatched = Handler[k]
<1>1. DOMAIN Order = 1 .. 5 /\ \A i \in 1 .. 5 : Order[i] \in BuiltinNames
  BY DEF Order, BuiltinNames
<1>2. \A k \in BuiltinNames : \E i \in 1 .. 5 : Order[i] = k
  <2>1. /\ Order[1] = "help" /\ Order[2] = "exit" /\ Order[3] = "cd"
        /\ Order[4] = "mfsls" /\ Order[5] = "mfscat"
    BY DEF Order
  <2>2. 1 \in 1 .. 5 /\ 2 \in 1 .. 5 /\ 3 \in 1 .. 5 /\ 4 \in 1 .. 5 /\ 5 \in 1 .. 5
    OBVIOUS
  <2>. QED BY <2>1, <2>2 DEF BuiltinNames
<1>3. CASE \A i \in 1 .. 5 : ~Matches(Order[i])
  <2>1. Dispatched = "do_external"  BY <1>1, <1>3 DEF Dispatched
  <2>2. \A k \in BuiltinNames : ~Matches(k)  BY <1>2, <1>3
  <2>. QED BY <2>1, <2>2
<1>4. CASE \E i \in 1 .. 5 : Matches(Order[i])
  <2>. DEFINE S == {i \in 1 .. 5 : Matches(Order[i])}
              First(i) == Matches(Order[i]) /\ \A j \in 1 .. i - 1 : ~Matches(Order[j])
              f == CHOOSE i \in 1 .. 5 : First(i)
  <2>1. S \subseteq Nat /\ S # {}  BY <1>4
  <2>2. PICK i \in S : \A j \in S : i <= j  BY <2>1, LeastNatural
  <2>3. i \in 1 .. 5 /\ \A j \in 1 .. i - 1 : j \in 1 .. 5 /\ j < i  BY <2>2
  <2>4. First(i)  BY <2>2, <2>3
  <2>5. f \in 1 .. 5 /\ First(f)  BY <2>3, <2>4
  <2>6. Dispatched = Handler[Order[f]]  BY <1>1, <1>4 DEF Dispatched
  <2>. HIDE DEF f
  <2>7. Matches(Order[f])  BY <2>5
  <2>. QED BY <1>1, <2>5, <2>6, <2>7
<1>. QED BY <1>3, <1>4

(* The dispatch.                                                           *)
LEMMA AfterReadKeepsCommand ==
    ASSUME Inv, CommandInv, AfterRead
    PROVE  CommandInv'
<1>1. /\ pc = "after_read"
      /\ UNCHANGED <<mem, path_cur, read_status, cmd_started, line, obs>>
      /\ pc' = IF read_status THEN "read_failed" ELSE IF ~cmd_started THEN "msh_loop"
               ELSE Dispatched
  BY DEF AfterRead, cursors, flags, history
<1>2. ObsInv'  BY <1>1, SilentStep DEF CommandInv
<1>3. CASE read_status \/ ~cmd_started
  BY <1>1, <1>2, <1>3, IdleStep DEF Idle
<1>4. CASE ~read_status /\ cmd_started
  <2>1. pc' = Dispatched  BY <1>1, <1>4
  <2>2. PICK w, open : /\ FirstWord(Text(line), w, open)
                       /\ Spelled(mem, cmd_name, w) /\ Closes(mem, w) /\ PathEnded(w)
    BY <1>1, <1>4 DEF CommandInv, EndedInv, ReadWell
  <2>3. (FirstWord(Text(line), w, open) /\ Spelled(mem, cmd_name, w)
            /\ Closes(mem, w) /\ PathEnded(w))'
    BY <1>1, <2>2 DEF PathEnded
  <2>4. /\ \A k \in BuiltinNames : pc' = Handler[k] => Matches(k)
        /\ pc' = "do_external" => \A k \in BuiltinNames : ~Matches(k)
        /\ pc' \in Handlers \cup {"do_external"}
    <3>1. CASE Dispatched = "do_external" /\ \A k \in BuiltinNames : ~Matches(k)
      BY <2>1, <3>1, HandlerIs DEF Handlers
    <3>2. CASE \E k \in BuiltinNames : Matches(k) /\ Dispatched = Handler[k]
      BY <2>1, <3>2, HandlerIs DEF Handlers
    <3>. QED BY <3>1, <3>2, DispatchedIs
  <2>5. \A k \in BuiltinNames : Matches(k)' <=> Matches(k)  BY <1>1 DEF Matches
  <2>6. EndedInv'  BY <2>3, <2>4, <2>5 DEF EndedInv, PathEnded
  <2>7. ImageInv' /\ NameInv'  BY <2>4 DEF ImageInv, NameInv, Reading, Handlers
  <2>8. LineInv'  BY <1>1 DEF CommandInv, LineInv
  <2>. QED BY <1>2, <2>6, <2>7, <2>8 DEF CommandInv
<1>. QED BY <1>3, <1>4

(* An alias takes its image from the data section, and clears a slot at    *)
(* most.                                                                   *)
LEMMA RunMfsAliasKeepsCommand ==
    ASSUME Inv, CommandInv, RunMfsAlias
    PROVE  CommandInv'
<1>1. /\ pc \in {"run_mfsls_alias", "run_mfscat_alias"} /\ pc' = "run_external"
      /\ UNCHANGED <<line, obs>>
      /\ cmd_image_ptr' \in {mfs_ls_image, mfs_cat_image}
      /\ mem' = mem \/ mem' = Store(mem, exec_args, 0)
  BY DEF RunMfsAlias, history
<1>2. \A a \in Addr : a >= cmd_name /\ a < cmd_name + NameCells => mem'[a] = mem[a]
  BY <1>1, Layout DEF Inv, TypeOK, Store, Addr
<1>3. PICK w, open : /\ FirstWord(Text(line), w, open)
                     /\ Spelled(mem, cmd_name, w) /\ Closes(mem, w)
  BY <1>1 DEF CommandInv, EndedInv, Acting, Handlers
<1>4. Len(w) \in Nat  BY <1>3, WordElements
<1>5. Spelled(mem', cmd_name, w) /\ Closes(mem', w)
  BY <1>2, <1>3, <1>4, SpelledKept, ClosesKept
<1>6. EndedInv'
  BY <1>1, <1>3, <1>5, HandlerIs DEF EndedInv, ReadWell, Handlers
<1>7. cmd_image_ptr' # 0 /\ cmd_image_ptr' # cmd_path  BY <1>1, Layout
<1>8. ImageInv' /\ NameInv'  BY <1>1, <1>7 DEF ImageInv, NameInv, Reading
<1>9. LineInv'  BY <1>1 DEF CommandInv, LineInv
<1>10. ObsInv'  BY <1>1, SilentStep DEF CommandInv
<1>. QED BY <1>6, <1>8, <1>9, <1>10 DEF CommandInv

(* A C string ends at the first zero byte.                                 *)
LEMMA CStrIs ==
    ASSUME NEW m, NEW a \in Nat, NEW e \in a .. exec_argv_term, m[e] % 256 = 0,
           \A k \in a .. e - 1 : m[k] % 256 # 0
    PROVE  CStr(m, a) = [i \in 1 .. e - a |-> m[a + i - 1] % 256]
<1>. DEFINE Ends(x) == m[x] % 256 = 0 /\ \A k \in a .. x - 1 : m[k] % 256 # 0
            f == CHOOSE x \in a .. exec_argv_term : Ends(x)
<1>1. Ends(e)  OBVIOUS
<1>2. f \in a .. exec_argv_term /\ Ends(f)  BY <1>1
<1>3. CStr(m, a) = [i \in 1 .. f - a |-> m[a + i - 1] % 256]  BY DEF CStr
<1>. HIDE DEF f
<1>4. exec_argv_term \in Nat  BY Layout
<1>5. ~(e < f)
  <2>1. e < f => e \in a .. f - 1  BY <1>2, <1>4
  <2>. QED BY <1>1, <1>2, <2>1
<1>6. ~(f < e)
  <2>1. f < e => f \in a .. e - 1  BY <1>2, <1>4
  <2>. QED BY <1>1, <1>2, <2>1
<1>7. f = e  BY <1>2, <1>4, <1>5, <1>6
<1>. QED BY <1>3, <1>7

(* The string ends before the memory does if its last word is 0. *)
LEMMA CStrEnds ==
    ASSUME NEW m, NEW a \in Nat, a <= exec_argv_term, m[exec_argv_term] = 0
    PROVE  \E e \in a .. exec_argv_term :
               m[e] % 256 = 0 /\ \A k \in a .. e - 1 : m[k] % 256 # 0
<1>. DEFINE S == {e \in a .. exec_argv_term : m[e] % 256 = 0}
<1>1. exec_argv_term \in Nat  BY Layout
<1>2. exec_argv_term \in S  BY <1>1
<1>3. S \subseteq Nat /\ S # {}  BY <1>1, <1>2
<1>4. PICK e \in S : \A y \in S : e <= y  BY <1>3, LeastNatural
<1>5. ASSUME NEW k \in a .. e - 1 PROVE m[k] % 256 # 0
  <2>1. k \in a .. exec_argv_term /\ ~(e <= k)  BY <1>1, <1>4
  <2>2. k \notin S  BY <1>4, <2>1
  <2>. QED BY <2>1, <2>2
<1>. QED BY <1>4, <1>5

(* The least element of a set of numbers.                                  *)
LEMMA MinIs ==
    ASSUME NEW S, S \subseteq Nat, NEW x \in S, \A y \in S : x <= y
    PROVE  Min(S) = x
<1>1. Min(S) \in S /\ \A y \in S : Min(S) <= y  BY DEF Min
<1>2. Min(S) \in Nat /\ x \in Nat /\ Min(S) <= x /\ x <= Min(S)  BY <1>1
<1>. QED BY <1>2

(* The part of the command that the name buffer holds. *)
LEMMA BufferedCommand ==
    ASSUME NEW w, NEW open, FirstWord(Text(line), w, open)
    PROVE  LET n == IF Len(w) <= NameCells THEN Len(w) ELSE NameCells IN
           /\ Command(line) = SubSeq(w, 1, n) /\ n \in Nat /\ n <= Len(w) /\ n <= NameCells
           /\ Command(line) \in Seq(Nat) /\ Len(Command(line)) = n
           /\ \A k \in 1 .. n : Command(line)[k] = w[k]
<1>. DEFINE n == IF Len(w) <= NameCells THEN Len(w) ELSE NameCells
<1>1. TypedCommand(line) = w /\ w \in Seq(Nat) /\ Len(w) \in Nat /\ NameCells \in Nat
  BY WordIs, Layout
<1>2. Min({NameCells, Len(w)}) = n
  <2>. DEFINE S == {NameCells, Len(w)}
  <2>1. S \subseteq Nat /\ n \in S /\ \A y \in S : n <= y  BY <1>1
  <2>. HIDE DEF n, S
  <2>2. Min(S) = n  BY <2>1, MinIs
  <2>. QED BY <2>2 DEF S
<1>3. Command(line) = SubSeq(w, 1, n)  BY <1>1, <1>2 DEF Command
<1>4. n \in Nat /\ n <= Len(w) /\ n <= NameCells  BY <1>1
<1>. HIDE DEF n
<1>5. /\ SubSeq(w, 1, n) \in Seq(Nat) /\ Len(SubSeq(w, 1, n)) = n
      /\ \A k \in 1 .. n : SubSeq(w, 1, n)[k] = w[k]
  BY <1>1, <1>4
<1>6. /\ Command(line) = SubSeq(w, 1, n) /\ n \in Nat /\ n <= Len(w) /\ n <= NameCells
      /\ Command(line) \in Seq(Nat) /\ Len(Command(line)) = n
      /\ \A k \in 1 .. n : Command(line)[k] = w[k]
  BY <1>3, <1>4, <1>5
<1>. QED BY <1>6 DEF n

(* The bytes of a word of a line without NUL. *)
LEMMA NoNulTyped ==
    ASSUME LineInv, 0 \notin Range(line), NEW w, NEW open, FirstWord(Text(line), w, open)
    PROVE  \A k \in 1 .. Len(w) : w[k] \in 1 .. 255
<1>1. \A k \in 1 .. Len(Text(line)) : Text(line)[k] # 0  BY DEF LineInv
<1>2. ASSUME NEW k \in 1 .. Len(w) PROVE w[k] # 0 /\ w[k] \in 0 .. 255
  BY <1>1, WordElements
<1>. QED BY <1>2

(* One chase write into the path.                                          *)
LEMMA PathPut ==
    ASSUME NEW m, NEW c, NEW w \in Word, PathOK(m, c)
    PROVE  /\ PathOK(Put(m, c, w), Chase(m, c))
           /\ \A a \in Addr : Put(m, c, w)[a] = IF a = c THEN w ELSE m[a]
           /\ Chase(m, c) = IF c \in {0, cmd_name - 1} THEN 0 ELSE c + 1
<1>1. m \in [Addr -> Word] /\ c \in PathAddr \cup {0} /\ c \in Addr \cup {0}
  BY Layout DEF PathOK, PathAddr, Addr
<1>2. \A a \in Addr : Put(m, c, w)[a] = IF a = c THEN w ELSE m[a]
  <2>1. Written(Put(m, c, w), m, c, w)  BY <1>1, PutWritten
  <2>. QED BY <2>1 DEF Written
<1>3. Chase(m, c) = IF c \in {0, cmd_name - 1} THEN 0 ELSE c + 1
  BY <1>1, Layout DEF PathOK, PathAddr, Chase, Link
<1>. QED BY <1>2, <1>3, PathStep

(* What do_external leaves in the path. *)
LEMMA ExternalCells ==
    ASSUME Inv, DoExternal
    PROVE  \E c1, c2, c3 :
               /\ c1 = IF path_cur \in {0, cmd_name - 1} THEN 0 ELSE path_cur + 1
               /\ c2 = IF c1 \in {0, cmd_name - 1} THEN 0 ELSE c1 + 1
               /\ c3 = IF c2 \in {0, cmd_name - 1} THEN 0 ELSE c2 + 1
               /\ \A a \in Addr : mem'[a] = IF a = c3 THEN 0 ELSE IF a = c2 THEN 98
                                            ELSE IF a = c1 THEN 109
                                            ELSE IF a = path_cur THEN 46 ELSE mem[a]
<1>. DEFINE m1 == Put(mem, path_cur, 46)  c1 == Chase(mem, path_cur)
            m2 == Put(m1, c1, 109)        c2 == Chase(m1, c1)
            m3 == Put(m2, c2, 98)         c3 == Chase(m2, c2)
<1>1. 0 \in Word /\ 46 \in Word /\ 109 \in Word /\ 98 \in Word
  BY Layout DEF Word
<1>2. PathOK(mem, path_cur)
  BY Layout DEF PathOK, Inv, TypeOK, ReaderInv, ChainsIntact, Chained
<1>7. mem' = Put(m3, c3, 0)  BY DEF DoExternal
<1>3. /\ PathOK(m1, c1)
      /\ \A a \in Addr : m1[a] = IF a = path_cur THEN 46 ELSE mem[a]
      /\ c1 = IF path_cur \in {0, cmd_name - 1} THEN 0 ELSE path_cur + 1
  BY <1>1, <1>2, PathPut
<1>. HIDE DEF m1, c1
<1>4. /\ PathOK(m2, c2)
      /\ \A a \in Addr : m2[a] = IF a = c1 THEN 109 ELSE m1[a]
      /\ c2 = IF c1 \in {0, cmd_name - 1} THEN 0 ELSE c1 + 1
  <2>1. PathOK(m1, c1)  BY <1>3
  <2>. QED BY <1>1, <2>1, PathPut
<1>. HIDE DEF m2, c2
<1>5. /\ PathOK(m3, c3)
      /\ \A a \in Addr : m3[a] = IF a = c2 THEN 98 ELSE m2[a]
      /\ c3 = IF c2 \in {0, cmd_name - 1} THEN 0 ELSE c2 + 1
  <2>1. PathOK(m2, c2)  BY <1>4
  <2>. QED BY <1>1, <2>1, PathPut
<1>. HIDE DEF m3, c3
<1>6. \A a \in Addr : mem'[a] = IF a = c3 THEN 0 ELSE m3[a]
  <2>1. PathOK(m3, c3)  BY <1>5
  <2>2. \A a \in Addr : Put(m3, c3, 0)[a] = IF a = c3 THEN 0 ELSE m3[a]
    BY <1>1, <2>1, PathPut
  <2>. QED BY <1>7, <2>2
<1>8. \A a \in Addr : mem'[a] = IF a = c3 THEN 0 ELSE IF a = c2 THEN 98
                                ELSE IF a = c1 THEN 109
                                ELSE IF a = path_cur THEN 46 ELSE mem[a]
  BY <1>3, <1>4, <1>5, <1>6
<1>. QED BY <1>3, <1>4, <1>5, <1>8

(* The suffix that do_external appends.                                    *)
DotMb == <<46, 109, 98>>

(* The path of a command, byte by byte.                                    *)
LEMMA PathFacts ==
    ASSUME NEW w \in Seq(Nat)
    PROVE  LET p == <<BinDir>> \o w \o DotMb IN
           /\ p \in Seq(Nat) /\ Len(p) = Len(w) + 4 /\ p[1] = 47
           /\ \A k \in 1 .. Len(w) : p[k + 1] = w[k]
           /\ p[Len(w) + 2] = 46 /\ p[Len(w) + 3] = 109 /\ p[Len(w) + 4] = 98
<1>. DEFINE a == <<BinDir>>
            q == a \o w
            p == q \o DotMb
            n == Len(w)
<1>1. a \in Seq(Nat) /\ Len(a) = 1 /\ a[1] = 47  BY DEF BinDir
<1>2. /\ DotMb \in Seq(Nat) /\ Len(DotMb) = 3
      /\ DotMb[1] = 46 /\ DotMb[2] = 109 /\ DotMb[3] = 98
  BY DEF DotMb
<1>3. n \in Nat  OBVIOUS
<1>. HIDE DEF a
<1>4. /\ q \in Seq(Nat) /\ Len(q) = n + 1 /\ q[1] = 47
      /\ \A k \in 1 .. n : q[k + 1] = w[k]
  <2>1. q \in Seq(Nat) /\ IsSeq(a) /\ IsSeq(w)  BY <1>1, IntoSeq
  <2>2. /\ Len(q) = Len(a) + n
        /\ \A k \in 1 .. Len(a) : q[k] = a[k]
        /\ \A k \in 1 .. Len(a) + n : k > Len(a) => q[k] = w[k - Len(a)]
    BY <2>1, ConcatFacts
  <2>. HIDE DEF q, n
  <2>3. Len(q) = n + 1 /\ q[1] = 47
    <3>1. 1 \in 1 .. Len(a)  BY <1>1
    <3>. QED BY <1>1, <1>3, <2>2, <3>1
  <2>4. ASSUME NEW k \in 1 .. n PROVE q[k + 1] = w[k]
    <3>. DEFINE z == k + 1
    <3>1. z \in 1 .. Len(a) + n /\ z > Len(a) /\ z - Len(a) = k  BY <1>1, <1>3
    <3>. HIDE DEF z
    <3>2. q[z] = w[k]  BY <2>2, <3>1
    <3>. QED BY <3>2 DEF z
  <2>. QED BY <2>1, <2>3, <2>4
<1>. HIDE DEF q, n
<1>5. /\ p \in Seq(Nat) /\ Len(p) = n + 4
      /\ \A k \in 1 .. n + 1 : p[k] = q[k]
      /\ p[n + 2] = 46 /\ p[n + 3] = 109 /\ p[n + 4] = 98
  <2>1. p \in Seq(Nat) /\ IsSeq(q) /\ IsSeq(DotMb)  BY <1>2, <1>4, IntoSeq
  <2>2. /\ Len(p) = Len(q) + Len(DotMb)
        /\ \A k \in 1 .. Len(q) : p[k] = q[k]
        /\ \A k \in 1 .. Len(q) + Len(DotMb) : k > Len(q) => p[k] = DotMb[k - Len(q)]
    BY <2>1, ConcatFacts
  <2>. HIDE DEF p
  <2>3. /\ Len(p) = n + 4 /\ \A k \in 1 .. n + 1 : p[k] = q[k]
        /\ \A k \in 1 .. n + 4 : k > n + 1 => p[k] = DotMb[k - (n + 1)]
    BY <1>2, <1>3, <1>4, <2>2
  <2>4. p[n + 2] = 46
    <3>1. n + 2 \in 1 .. n + 4 /\ n + 2 > n + 1 /\ (n + 2) - (n + 1) = 1  BY <1>3
    <3>. QED BY <1>2, <2>3, <3>1
  <2>5. p[n + 3] = 109
    <3>1. n + 3 \in 1 .. n + 4 /\ n + 3 > n + 1 /\ (n + 3) - (n + 1) = 2  BY <1>3
    <3>. QED BY <1>2, <2>3, <3>1
  <2>6. p[n + 4] = 98
    <3>1. n + 4 \in 1 .. n + 4 /\ n + 4 > n + 1 /\ (n + 4) - (n + 1) = 3  BY <1>3
    <3>. QED BY <1>2, <2>3, <3>1
  <2>. QED BY <2>1, <2>3, <2>4, <2>5, <2>6
<1>. HIDE DEF p
<1>6. 1 \in 1 .. n + 1 /\ \A k \in 1 .. n : k + 1 \in 1 .. n + 1  BY <1>3
<1>7. p[1] = 47 /\ \A k \in 1 .. n : p[k + 1] = w[k]  BY <1>4, <1>5, <1>6
<1>. QED BY <1>5, <1>7 DEF p, q, a, n

(* A path that can be opened is the whole path of the command typed, or    *)
(* that of an over-long word that leads out of /bin.                       *)
LEMMA ImageNamed ==
    ASSUME Inv, LineInv, 0 \notin Range(line),
           NEW w, NEW open, FirstWord(Text(line), w, open),
           Spelled(mem, cmd_name, w), PathSpelled(w), TRUE \in Opens(CStr(mem, cmd_path))
    PROVE  \/ CStr(mem, cmd_path) = <<BinDir>> \o TypedCommand(line) \o DotMb
           \/ Len(TypedCommand(line)) + 4 > NameCells /\ Roams(TypedCommand(line), 0)
<1>. DEFINE n == Len(w)
            c == CStr(mem, cmd_path)
            p == <<BinDir>> \o w \o DotMb
<1>1. /\ TypedCommand(line) = w /\ w \in Seq(Nat) /\ n \in Nat \ {0}
      /\ \A k \in 1 .. n : w[k] \in 1 .. 255
  BY WordIs, NoNulTyped
<1>2. mem[cmd_path] = 47 /\ mem[exec_argv_term] = 0
  BY DEF Inv, ReaderInv, StaticCellsKept, BinDir
<1>3. NameCells \in Nat /\ NameCells > 4  BY MshAssumption
<1>4. CASE n + 4 > NameCells
  <2>1. PICK e \in cmd_path .. exec_argv_term :
            mem[e] % 256 = 0 /\ \A k \in cmd_path .. e - 1 : mem[k] % 256 # 0
    <3>1. cmd_path \in Nat /\ cmd_path <= exec_argv_term  BY Layout
    <3>. QED BY <1>2, <3>1, CStrEnds
  <2>2. c = [i \in 1 .. e - cmd_path |-> mem[cmd_path + i - 1] % 256]
    BY <2>1, CStrIs, Layout
  <2>3. \A a \in PathAddr : mem[a] \in 1 .. 255  BY <1>4 DEF PathSpelled
  <2>4. mem[cmd_name] \in 1 .. 255
    <3>1. 1 \in 1 .. n /\ 1 <= NameCells  BY <1>1, Layout
    <3>2. mem[cmd_name + 1 - 1] = w[1]  BY <3>1 DEF Spelled
    <3>3. cmd_name + 1 - 1 = cmd_name  BY Layout
    <3>. QED BY <1>1, <3>1, <3>2, <3>3
  <2>5. ASSUME NEW a \in cmd_path .. cmd_name PROVE mem[a] % 256 # 0
    <3>1. CASE a = cmd_path  BY <1>2, <3>1
    <3>2. CASE a \in PathAddr
      <4>1. mem[a] \in 1 .. 255  BY <2>3, <3>2
      <4>. QED BY <4>1
    <3>3. CASE a = cmd_name  BY <2>4, <3>3
    <3>. QED BY <3>1, <3>2, <3>3, Layout DEF PathAddr
  <2>6. e \notin cmd_path .. cmd_name  BY <2>1, <2>5
  <2>7. e - cmd_path \in Nat /\ e - cmd_path >= NameCells + 2  BY <2>1, <2>6, Layout
  <2>. DEFINE m == e - cmd_path
  <2>8. /\ m \in Nat /\ m >= NameCells + 2 /\ DOMAIN c = 1 .. m /\ Len(c) = m
        /\ \A i \in 1 .. m : c[i] = mem[cmd_path + i - 1] % 256
    <3>. HIDE DEF m, c
    <3>1. c = [i \in 1 .. m |-> mem[cmd_path + i - 1] % 256] /\ m \in Nat
      BY <2>2, <2>7 DEF m
    <3>2. \A i \in 1 .. m : mem[cmd_path + i - 1] \in Nat
      <4>. SUFFICES ASSUME NEW i \in 1 .. m PROVE mem[cmd_path + i - 1] \in Nat  OBVIOUS
      <4>1. cmd_path + i - 1 \in Addr  BY <2>1, Layout DEF m, Addr
      <4>. QED BY <4>1, Layout DEF Inv, TypeOK, Word
    <3>3. \A i \in 1 .. m : c[i] \in Nat  BY <3>1, <3>2
    <3>4. c \in [1 .. m -> Nat]  BY <3>1, <3>3
    <3>5. c \in Seq(Nat) /\ Len(c) = m  BY <3>1, <3>4
    <3>. QED BY <2>7, <3>1, <3>5 DEF m
  <2>. HIDE DEF c, m
  (* It is longer than any file of /bin and than /bin itself. *)
  <2>9. Roams(c, 1)
    <3>1. c \notin Files  BY <1>3, <2>8, FilesAssumption
    <3>2. c \notin Directories
      <4>1. Len(<<BinDir>>) = 1 /\ Len(<<BinDir, 46>>) = 2 /\ Len(<<BinDir, 46, 46>>) = 3
        OBVIOUS
      <4>2. \A d \in Directories : d = <<BinDir>> \/ d = <<BinDir, 46>> \/ d = <<BinDir, 46, 46>>
        BY DEF Directories
      <4>3. Len(c) # 1 /\ Len(c) # 2 /\ Len(c) # 3  BY <1>3, <2>8
      <4>. QED BY <4>1, <4>2, <4>3, Zenon
    <3>. QED BY <3>1, <3>2 DEF Opens, c
  <2>10. PICK q \in {<<Slash>>, <<46, Slash>>, <<46, 46, Slash>>} :
            \A i \in 1 .. Len(q) : c[1 + i] = q[i]
    BY <2>9 DEF Roams
  <2>11. ASSUME NEW i \in 1 .. 3 PROVE c[1 + i] = mem[path_name + i - 1]
    <3>1. 1 + i \in 1 .. m /\ cmd_path + (1 + i) - 1 = path_name + i - 1
          /\ path_name + i - 1 \in PathAddr
      BY <1>3, <2>8, Layout DEF PathAddr
    <3>. DEFINE x == mem[path_name + i - 1]
    <3>2. x \in 1 .. 255  BY <2>3, <3>1
    <3>3. c[1 + i] = mem[cmd_path + (1 + i) - 1] % 256  BY <2>8, <3>1
    <3>4. c[1 + i] = x % 256  BY <3>1, <3>3
    <3>. HIDE DEF x
    <3>5. c[1 + i] = x  BY <3>2, <3>4
    <3>. QED BY <3>5 DEF x
  <2>12. \A i \in 1 .. 3 : i <= n => c[1 + i] = w[i]
    <3>. SUFFICES ASSUME NEW i \in 1 .. 3, i <= n PROVE c[1 + i] = w[i]  OBVIOUS
    <3>1. i \in 1 .. Len(w) /\ i <= NameCells  BY <1>1, <1>3
    <3>2. mem[path_name + i - 1] = w[i]  BY <3>1 DEF PathSpelled, Spelled
    <3>. QED BY <2>11, <3>2
  <2>13. n >= 2 /\ (n < 3 => c[1 + 3] = 46)
    <3>1. n >= 2  BY <1>1, <1>3, <1>4
    <3>2. ASSUME n < 3 PROVE c[1 + 3] = 46
      <4>0. n \in Nat  BY <1>1
      <4>. HIDE DEF n
      <4>4. n = 2 /\ n < NameCells  BY <1>3, <3>1, <3>2, <4>0
      <4>5. path_name + 2 = path_name + 3 - 1  BY Layout
      <4>1. Len(w) = 2 /\ Len(w) < NameCells /\ path_name + Len(w) = path_name + 3 - 1
        BY <4>4, <4>5 DEF n
      <4>2. mem[path_name + Len(w)] = 46  BY <4>1 DEF PathSpelled
      <4>3. 3 \in 1 .. 3  OBVIOUS
      <4>. QED BY <2>11, <4>1, <4>2, <4>3
    <3>. QED BY <3>1, <3>2
  <2>14. Len(q) \in 1 .. 3 /\ (Len(q) = 3 => q[3] = 47)  BY DEF Slash
  <2>15. Len(q) <= n
    <3>1. CASE Len(q) <= 2  BY <1>1, <2>13, <2>14, <3>1
    <3>2. CASE Len(q) = 3
      <4>1. 3 \in 1 .. Len(q)  BY <3>2
      <4>2. c[1 + 3] = 47  BY <2>10, <2>14, <3>2, <4>1
      <4>. QED BY <1>1, <2>13, <3>2, <4>2
    <3>. QED BY <2>14, <3>1, <3>2
  <2>16. \A i \in 1 .. Len(q) : w[0 + i] = q[i]
    <3>. SUFFICES ASSUME NEW i \in 1 .. Len(q) PROVE w[0 + i] = q[i]  OBVIOUS
    <3>0. n \in Nat  BY <1>1
    <3>. DEFINE l == Len(q)
    <3>3. l \in 1 .. 3 /\ l <= n /\ i \in 1 .. l  BY <2>14, <2>15
    <3>. HIDE DEF n, l
    <3>1. i \in 1 .. 3 /\ i <= n /\ 0 + i = i  BY <3>0, <3>3
    <3>2. c[1 + i] = q[i]  BY <2>10
    <3>4. c[1 + i] = w[i]  BY <2>12, <3>1
    <3>. QED BY <3>1, <3>2, <3>4
  <2>17. 0 + Len(q) <= Len(w)  BY <2>14, <2>15
  <2>18. Roams(w, 0)  BY <2>16, <2>17 DEF Roams
  <2>. QED BY <1>1, <1>4, <2>18
<1>5. CASE n + 4 <= NameCells
  <2>. DEFINE e == path_name + n + 3
  <2>1. /\ mem[path_name + n] = 46 /\ mem[path_name + n + 1] = 109
        /\ mem[path_name + n + 2] = 98 /\ mem[path_name + n + 3] = 0
        /\ Spelled(mem, path_name, w)
    BY <1>5 DEF PathSpelled
  <2>2. \A k \in 1 .. n : mem[path_name + k - 1] = w[k] /\ w[k] \in 1 .. 255
    <3>1. \A k \in 1 .. n : k <= NameCells  BY <1>1, <1>5, Layout
    <3>. QED BY <1>1, <2>1, <3>1 DEF Spelled
  <2>3. ASSUME NEW i \in 1 .. n + 4
        PROVE  mem[cmd_path + i - 1] = p[i] /\ p[i] \in 1 .. 255
    <3>1. /\ p[1] = 47 /\ \A k \in 1 .. n : p[k + 1] = w[k]
          /\ p[n + 2] = 46 /\ p[n + 3] = 109 /\ p[n + 4] = 98
      BY <1>1, PathFacts, ZenonT(60)
    <3>. HIDE DEF p, n
    <3>2. CASE i = 1
      <4>1. cmd_path + i - 1 = cmd_path  BY <3>2, Layout
      <4>. QED BY <1>2, <3>1, <3>2, <4>1
    <3>3. CASE i - 1 \in 1 .. n
      <4>1. cmd_path + i - 1 = path_name + (i - 1) - 1 /\ (i - 1) + 1 = i  BY <3>3, Layout
      <4>2. mem[path_name + (i - 1) - 1] = w[i - 1] /\ w[i - 1] \in 1 .. 255 /\ p[(i - 1) + 1] = w[i - 1]
        BY <2>2, <3>1, <3>3
      <4>. QED BY <4>1, <4>2
    <3>4. CASE i = n + 2
      <4>1. cmd_path + i - 1 = path_name + n  BY <1>1, <3>4, Layout
      <4>. QED BY <2>1, <3>1, <3>4, <4>1
    <3>5. CASE i = n + 3
      <4>1. cmd_path + i - 1 = path_name + n + 1  BY <1>1, <3>5, Layout
      <4>. QED BY <2>1, <3>1, <3>5, <4>1
    <3>6. CASE i = n + 4
      <4>1. cmd_path + i - 1 = path_name + n + 2  BY <1>1, <3>6, Layout
      <4>. QED BY <2>1, <3>1, <3>6, <4>1
    <3>7. i = 1 \/ i - 1 \in 1 .. n \/ i = n + 2 \/ i = n + 3 \/ i = n + 4
      BY <1>1
    <3>. QED BY <3>2, <3>3, <3>4, <3>5, <3>6, <3>7
  <2>4. p \in Seq(Nat) /\ Len(p) = n + 4  BY <1>1, PathFacts
  <2>. HIDE DEF p, n
  <2>5. e \in cmd_path .. exec_argv_term /\ e - cmd_path = n + 4  BY <1>1, <1>5, Layout
  <2>6. ASSUME NEW a \in cmd_path .. e - 1 PROVE mem[a] % 256 # 0
    <3>1. (a - cmd_path) + 1 \in 1 .. n + 4 /\ cmd_path + ((a - cmd_path) + 1) - 1 = a
      BY <1>1, Layout
    <3>2. mem[a] \in 1 .. 255  BY <2>3, <3>1
    <3>. QED BY <3>2
  <2>7. mem[e] % 256 = 0  BY <2>1
  <2>. HIDE DEF e
  <2>8. c = [i \in 1 .. e - cmd_path |-> mem[cmd_path + i - 1] % 256]
    BY <2>5, <2>6, <2>7, CStrIs, Layout
  <2>9. c = [i \in 1 .. n + 4 |-> mem[cmd_path + i - 1] % 256]  BY <2>5, <2>8
  <2>10. ASSUME NEW i \in 1 .. n + 4 PROVE mem[cmd_path + i - 1] % 256 = p[i]
    <3>1. mem[cmd_path + i - 1] = p[i] /\ p[i] \in 1 .. 255  BY <2>3
    <3>. QED BY <3>1
  <2>11. c = p
    <3>. HIDE DEF c
    <3>1. DOMAIN c = 1 .. n + 4 /\ \A i \in 1 .. n + 4 : c[i] = p[i]  BY <2>9, <2>10
    <3>2. ASSUME NEW i \in 1 .. n + 4 PROVE c[i] \in Nat
      <4>1. c[i] = p[i] /\ p[i] \in 1 .. 255  BY <2>3, <3>1
      <4>. QED BY <4>1
    <3>3. n + 4 \in Nat /\ c = [i \in 1 .. n + 4 |-> c[i]]  BY <1>1, <2>9, <3>1
    <3>4. c \in [1 .. n + 4 -> Nat]  BY <3>2, <3>3
    <3>5. c \in Seq(Nat) /\ Len(c) = n + 4  BY <3>3, <3>4
    <3>. QED BY <2>4, <3>1, <3>5, SameSeq
  <2>. QED BY <1>1, <2>11 DEF p
<1>. QED BY <1>1, <1>3, <1>4, <1>5

(* A sequence over a part of a set is one over the set.                    *)
LEMMA SeqOfSubset ==
    ASSUME NEW S, NEW T, S \subseteq T, NEW s \in Seq(S)
    PROVE  s \in Seq(T)
<1>1. Len(s) \in Nat /\ s \in [1 .. Len(s) -> S]  OBVIOUS
<1>2. s \in [1 .. Len(s) -> T]  BY <1>1
<1>. QED BY <1>1, <1>2

(* A byte that is no NUL.                                                  *)
LEMMA ByteFacts == \A x \in 1 .. 255 : x # 0 /\ x \in Nat
OBVIOUS

(* do_external spells the path out, or fills the buffer to its last cell.  *)
LEMMA DoExternalKeepsCommand ==
    ASSUME Inv, CommandInv, DoExternal
    PROVE  CommandInv'
<1>1. /\ pc = "do_external" /\ pc' = "run_external" /\ cmd_image_ptr' = cmd_path
      /\ UNCHANGED <<line, obs>>
  BY DEF DoExternal, history
<1>2. PICK w, open : /\ FirstWord(Text(line), w, open)
                     /\ Spelled(mem, cmd_name, w) /\ Closes(mem, w)
                     /\ Spelled(mem, path_name, w) /\ path_cur = Ahead(path_name, Len(w))
  BY <1>1 DEF CommandInv, EndedInv, PathEnded
<1>. DEFINE n == Len(w)
<1>3. n \in Nat \ {0} /\ w \in Seq(Nat)  BY <1>2, WordElements
<1>4. PICK c1, c2, c3 :
          /\ c1 = IF path_cur \in {0, cmd_name - 1} THEN 0 ELSE path_cur + 1
          /\ c2 = IF c1 \in {0, cmd_name - 1} THEN 0 ELSE c1 + 1
          /\ c3 = IF c2 \in {0, cmd_name - 1} THEN 0 ELSE c2 + 1
          /\ \A a \in Addr : mem'[a] = IF a = c3 THEN 0 ELSE IF a = c2 THEN 98
                                       ELSE IF a = c1 THEN 109
                                       ELSE IF a = path_cur THEN 46 ELSE mem[a]
  BY ExternalCells
<1>5. path_cur = IF n >= NameCells THEN 0 ELSE path_name + n  BY <1>2 DEF Ahead
<1>. HIDE DEF n
<1>6. \A x \in {path_cur, c1, c2, c3} : x = 0 \/ (x \in Nat /\ x >= path_name + n /\ x < cmd_name)
  BY <1>3, <1>4, <1>5, Layout
<1>7. \A a \in Addr : a < path_name + n \/ a >= cmd_name => mem'[a] = mem[a]
  <2>. SUFFICES ASSUME NEW a \in Addr, a < path_name + n \/ a >= cmd_name PROVE mem'[a] = mem[a]
    OBVIOUS
  <2>1. a \in Nat /\ a # 0 /\ path_name \in Nat /\ cmd_name \in Nat  BY Layout DEF Addr
  <2>2. a \notin {path_cur, c1, c2, c3}  BY <1>3, <1>6, <2>1
  <2>. QED BY <1>4, <2>2
<1>8. Spelled(mem', cmd_name, w) /\ Closes(mem', w)
  <2>1. \A a \in Addr : a >= cmd_name /\ a < cmd_name + NameCells => mem'[a] = mem[a]
    BY <1>7
  <2>. QED BY <1>2, <1>3, <2>1, SpelledKept, ClosesKept DEF n
<1>9. ASSUME NEW k \in 1 .. n, k <= NameCells
      PROVE  path_name + k - 1 \in Addr /\ mem'[path_name + k - 1] = w[k]
  <2>1. path_name + k - 1 \in Addr /\ path_name + k - 1 < path_name + n
    BY <1>3, <1>9, Layout DEF Addr
  <2>2. mem[path_name + k - 1] = w[k]  BY <1>2, <1>9 DEF Spelled, n
  <2>. QED BY <1>7, <2>1, <2>2
<1>10. Spelled(mem', path_name, w)  BY <1>9 DEF Spelled, n
<1>11. ASSUME n + 4 <= NameCells
       PROVE  /\ mem'[path_name + n] = 46 /\ mem'[path_name + n + 1] = 109
              /\ mem'[path_name + n + 2] = 98 /\ mem'[path_name + n + 3] = 0
  <2>1. /\ path_cur = path_name + n /\ c1 = path_name + n + 1
        /\ c2 = path_name + n + 2 /\ c3 = path_name + n + 3
    BY <1>3, <1>4, <1>5, <1>11, Layout
  <2>2. /\ path_name + n \in Addr /\ path_name + n + 1 \in Addr
        /\ path_name + n + 2 \in Addr /\ path_name + n + 3 \in Addr
    BY <1>3, <1>11, Layout DEF Addr
  <2>3. \A a \in Addr : mem'[a] = IF a = path_name + n + 3 THEN 0
                                  ELSE IF a = path_name + n + 2 THEN 98
                                  ELSE IF a = path_name + n + 1 THEN 109
                                  ELSE IF a = path_name + n THEN 46 ELSE mem[a]
    BY <1>4, <2>1
  <2>4. path_name \in Nat  BY Layout
  <2>. QED BY <1>3, <2>2, <2>3, <2>4
<1>12. ASSUME n + 4 > NameCells, 0 \notin Range(line), NEW a \in PathAddr
       PROVE  mem'[a] \in 1 .. 255
  <2>1. a \in Addr /\ a \in Nat /\ a >= path_name /\ a < cmd_name  BY Layout DEF PathAddr, Addr
  <2>2. CASE a < path_name + n
    <3>. DEFINE k == (a - path_name) + 1
    <3>1. k \in 1 .. n /\ k <= NameCells /\ path_name + k - 1 = a
      BY <1>3, <2>1, <2>2, Layout
    <3>2. w[k] \in 1 .. 255  BY <1>2, <1>12, <3>1, NoNulTyped DEF CommandInv, n
    <3>. HIDE DEF k
    <3>. QED BY <1>9, <3>1, <3>2
  <2>3. CASE a >= path_name + n
    <3>1. a = path_name + n \/ a = path_name + n + 1 \/ a = path_name + n + 2
      BY <1>3, <1>12, <2>1, <2>3, Layout
    <3>2. /\ n < NameCells /\ path_cur = path_name + n
          /\ a = path_name + n + 1 => c1 = a
          /\ a = path_name + n + 2 => c2 = a
      BY <1>3, <1>4, <1>5, <2>1, <2>3, Layout
    <3>3. a # c3
      <4>1. c3 = 0 \/ c3 = path_name + n + 3  BY <1>3, <1>4, <3>2, Layout
      <4>. QED BY <1>3, <2>1, <3>1, <4>1, Layout
    <3>4. mem'[a] \in {46, 109, 98}
      <4>1. a = path_cur \/ a = c1 \/ a = c2  BY <3>1, <3>2
      <4>. QED BY <1>4, <2>1, <3>3, <4>1
    <3>. QED BY <3>4
  <2>. QED BY <1>3, <2>1, <2>2, <2>3, Layout
<1>13. PathSpelled(w)'
  <2>1. ASSUME n < NameCells PROVE mem'[path_name + n] = 46
    <3>1. path_cur = path_name + n /\ path_name + n \in Addr /\ path_cur \notin {c1, c2, c3}
      BY <1>3, <1>4, <1>5, <2>1, Layout DEF Addr
    <3>. QED BY <1>4, <3>1
  <2>. QED BY <1>1, <1>10, <1>11, <1>12, <2>1 DEF PathSpelled, n
<1>14. EndedInv'
  BY <1>1, <1>2, <1>8, HandlerIs DEF EndedInv, ReadWell, Handlers
<1>15. ImageInv'
  BY <1>1, <1>2, <1>8, <1>13, Layout DEF ImageInv
<1>16. NameInv'  BY <1>1 DEF NameInv, Reading
<1>17. LineInv'  BY <1>1 DEF CommandInv, LineInv
<1>18. ObsInv'  BY <1>1, SilentStep DEF CommandInv
<1>. QED BY <1>14, <1>15, <1>16, <1>17, <1>18 DEF CommandInv

(* run_external stores the image in its slot of the vector.                *)
LEMMA RunExternalKeepsCommand ==
    ASSUME Inv, CommandInv, RunExternal
    PROVE  CommandInv'
<1>1. /\ pc = "run_external" /\ pc' \in {"fork", "unknown_command"}
      /\ mem' = Store(mem, exec_argv + 1, cmd_image_ptr)
      /\ pc' = "fork" => TRUE \in Opens(Image(mem', cmd_image_ptr))
      /\ UNCHANGED <<line, obs, cmd_image_ptr>>
  BY DEF RunExternal, history
<1>2. mem \in [Addr -> Word] /\ exec_argv + 1 \in Addr
  BY Layout DEF Inv, TypeOK, Addr
<1>3. /\ \A a \in Addr : a # exec_argv + 1 => mem'[a] = mem[a]
      /\ mem'[exec_argv + 1] = cmd_image_ptr
  BY <1>1, <1>2 DEF Store
<1>4. /\ \A a \in Addr : a >= cmd_name /\ a < cmd_name + NameCells => mem'[a] = mem[a]
      /\ \A a \in Addr : a >= path_name /\ a < path_name + NameCells => mem'[a] = mem[a]
  BY <1>3, Layout DEF Addr
<1>5. PICK w, open : /\ FirstWord(Text(line), w, open)
                     /\ Spelled(mem, cmd_name, w) /\ Closes(mem, w)
  BY <1>1 DEF CommandInv, EndedInv, Acting
<1>6. Len(w) \in Nat  BY <1>5, WordElements
<1>7. Spelled(mem', cmd_name, w) /\ Closes(mem', w)
  BY <1>4, <1>5, <1>6, SpelledKept, ClosesKept
<1>8. EndedInv'
  BY <1>1, <1>5, <1>7, HandlerIs DEF EndedInv, ReadWell, Handlers
<1>9. ASSUME cmd_image_ptr = cmd_path
      PROVE  \E v, o : /\ FirstWord(Text(line), v, o)
                       /\ Spelled(mem', cmd_name, v) /\ PathSpelled(v)'
  <2>1. PICK v, o : /\ FirstWord(Text(line), v, o)
                    /\ Spelled(mem, cmd_name, v) /\ PathSpelled(v)
    BY <1>1, <1>9 DEF CommandInv, ImageInv
  <2>2. Len(v) \in Nat  BY <2>1, WordElements
  <2>3. Spelled(mem', cmd_name, v) /\ Spelled(mem', path_name, v)
    BY <1>4, <2>1, <2>2, SpelledKept DEF PathSpelled
  <2>4. \A a \in PathAddr : mem'[a] = mem[a]  BY <1>3, Layout DEF PathAddr, Addr
  <2>5. Len(v) + 4 <= NameCells =>
            /\ path_name + Len(v) \in PathAddr /\ path_name + Len(v) + 1 \in PathAddr
            /\ path_name + Len(v) + 2 \in PathAddr /\ path_name + Len(v) + 3 \in PathAddr
    BY <2>2, Layout DEF PathAddr
  <2>6. PathSpelled(v)'
    <3>1. line' = line  BY <1>1
    <3>2. ASSUME Len(v) + 4 <= NameCells
          PROVE  /\ mem'[path_name + Len(v)] = 46 /\ mem'[path_name + Len(v) + 1] = 109
                 /\ mem'[path_name + Len(v) + 2] = 98 /\ mem'[path_name + Len(v) + 3] = 0
      BY <2>1, <2>4, <2>5, <3>2 DEF PathSpelled
    <3>3. ASSUME Len(v) + 4 > NameCells, 0 \notin Range(line)
          PROVE  \A a \in PathAddr : mem'[a] \in 1 .. 255
      BY <2>1, <2>4, <3>3 DEF PathSpelled
    <3>4. ASSUME Len(v) < NameCells PROVE mem'[path_name + Len(v)] = 46
      <4>1. path_name + Len(v) \in PathAddr  BY <2>2, <3>4, Layout DEF PathAddr
      <4>. QED BY <2>1, <2>4, <3>4, <4>1 DEF PathSpelled
    <3>. QED BY <2>3, <3>1, <3>2, <3>3, <3>4 DEF PathSpelled
  <2>. QED BY <2>1, <2>3, <2>6
<1>10. ImageInv'
  BY <1>1, <1>3, <1>9 DEF ImageInv
<1>11. NameInv'  BY <1>1 DEF NameInv, Reading
<1>12. LineInv'  BY <1>1 DEF CommandInv, LineInv
<1>13. ObsInv'  BY <1>1, SilentStep DEF CommandInv
<1>. QED BY <1>8, <1>10, <1>11, <1>12, <1>13 DEF CommandInv

(* unknown_command prints the name the buffer holds.                       *)
LEMMA UnknownKeepsCommand ==
    ASSUME Inv, CommandInv, UnknownCommand
    PROVE  CommandInv'
<1>. DEFINE zeros == {i \in 0 .. NameCells - 1 : mem[cmd_name + i] = 0}
            len == IF zeros = {} THEN NameCells
                   ELSE CHOOSE i \in zeros : \A j \in zeros : i <= j
            shown == [i \in 1 .. len |-> mem[cmd_name + i - 1]]
<1>1. /\ pc = "unknown_command" /\ pc' = "msh_loop" /\ UNCHANGED <<mem, line>>
      /\ obs' = [kind |-> "unknown", name |-> shown, args |-> <<>>]
  BY DEF UnknownCommand, Observe
<1>2. PICK w, open : /\ FirstWord(Text(line), w, open)
                     /\ Spelled(mem, cmd_name, w) /\ Closes(mem, w)
  BY <1>1 DEF CommandInv, EndedInv, Acting
<1>. DEFINE n == IF Len(w) <= NameCells THEN Len(w) ELSE NameCells
<1>3. /\ n \in Nat /\ n <= Len(w) /\ n <= NameCells
      /\ Command(line) \in Seq(Nat) /\ Len(Command(line)) = n
      /\ \A k \in 1 .. n : Command(line)[k] = w[k]
  BY <1>2, BufferedCommand
<1>4. w \in Seq(Nat) /\ Len(w) \in Nat /\ NameCells \in Nat  BY <1>2, WordElements, Layout
<1>5. ASSUME 0 \notin Range(line) PROVE shown = Command(line)
  <2>1. \A k \in 1 .. n : mem[cmd_name + k - 1] = w[k] /\ w[k] \in 1 .. 255
    <3>1. \A k \in 1 .. n : k \in 1 .. Len(w) /\ k <= NameCells  BY <1>3, <1>4
    <3>. QED BY <1>2, <1>5, <3>1, NoNulTyped DEF Spelled, CommandInv
  <2>2. ASSUME NEW i \in 0 .. n - 1 PROVE mem[cmd_name + i] # 0
    <3>1. i + 1 \in 1 .. n /\ cmd_name + (i + 1) - 1 = cmd_name + i  BY <1>3, Layout
    <3>2. w[i + 1] \in 1 .. 255 /\ mem[cmd_name + (i + 1) - 1] = w[i + 1]  BY <2>1, <3>1
    <3>3. w[i + 1] # 0  BY <3>2, ByteFacts
    <3>. QED BY <3>1, <3>2, <3>3
  <2>3. n < NameCells => mem[cmd_name + n] = 0  BY <1>2, <1>4 DEF Closes
  <2>4. len = n
    <3>. HIDE DEF n
    <3>1. CASE n = NameCells
      <4>1. zeros = {}  BY <2>2, <3>1
      <4>. QED BY <3>1, <4>1
    <3>2. CASE n < NameCells
      <4>1. n \in zeros /\ zeros \subseteq Nat  BY <1>3, <1>4, <2>3, <3>2
      <4>2. \A i \in zeros : ~(i < n)  BY <1>3, <1>4, <2>2
      <4>. HIDE DEF zeros
      <4>3. \A i \in zeros : n <= i  BY <1>3, <4>1, <4>2
      <4>. DEFINE f == CHOOSE i \in zeros : \A j \in zeros : i <= j
      <4>4. f \in zeros /\ f <= n  BY <4>1, <4>3
      <4>5. f \in Nat /\ n <= f  BY <4>1, <4>3, <4>4
      <4>. HIDE DEF f
      <4>6. f = n  BY <1>3, <4>4, <4>5
      <4>. QED BY <4>1, <4>6 DEF f
    <3>. QED BY <1>3, <1>4, <3>1, <3>2
  <2>. HIDE DEF len, n
  <2>5. shown = [i \in 1 .. n |-> mem[cmd_name + i - 1]]  BY <2>4
  <2>. HIDE DEF shown
  <2>6. shown \in Seq(Nat) /\ Len(shown) = n /\ \A k \in 1 .. n : shown[k] = w[k]
    <3>1. \A k \in 1 .. n : w[k] \in Nat  BY <2>1, ByteFacts
    <3>2. \A k \in 1 .. n : mem[cmd_name + k - 1] = w[k]  BY <2>1
    <3>3. \A k \in 1 .. n : shown[k] = w[k]  BY <2>5, <3>2
    <3>4. shown \in [1 .. n -> Nat]  BY <2>5, <3>1, <3>2
    <3>. QED BY <1>3, <3>3, <3>4
  <2>. QED BY <1>3, <2>6, SameSeq
<1>. HIDE DEF shown
<1>6. ObsInv'  BY <1>1, <1>5 DEF ObsInv, OnlyTheTypedCommandRuns, Command, TypedCommand
<1>. QED BY <1>1, <1>6, IdleStep DEF Idle

(* The child executes the image that was opened.                           *)
LEMMA ForkKeepsCommand ==
    ASSUME Inv, CommandInv, Fork
    PROVE  CommandInv'
<1>1. /\ pc = "fork" /\ UNCHANGED <<mem, line>> /\ pc' \in {"wait4", "external_failed"}
      /\ \/ obs' = [kind |-> "exec", name |-> Image(mem, mem[exec_argv + 1]), args |-> Argv(mem)]
         \/ obs' = [kind |-> "exec_failed", name |-> <<>>, args |-> <<>>]
         \/ obs' = obs
  BY DEF Fork, Observe
<1>2. CASE obs' = [kind |-> "exec", name |-> Image(mem, mem[exec_argv + 1]), args |-> Argv(mem)]
  <2>1. ASSUME 0 \notin Range(line), mem[exec_argv + 1] = cmd_path
        PROVE  \/ Image(mem, mem[exec_argv + 1]) = <<BinDir>> \o TypedCommand(line) \o DotMb
               \/ Len(TypedCommand(line)) + 4 > NameCells /\ Roams(TypedCommand(line), 0)
    <3>1. /\ cmd_image_ptr = cmd_path
          /\ CStr(mem, cmd_path) = Image(mem, mem[exec_argv + 1])
          /\ TRUE \in Opens(CStr(mem, cmd_path))
      BY <1>1, <2>1 DEF CommandInv, ImageInv, Image
    <3>2. PICK w, open : /\ FirstWord(Text(line), w, open)
                         /\ Spelled(mem, cmd_name, w) /\ PathSpelled(w)
      BY <1>1, <3>1 DEF CommandInv, ImageInv
    <3>. QED BY <2>1, <3>1, <3>2, ImageNamed DEF CommandInv
  <2>2. ObsInv'
    BY <1>1, <1>2, <2>1 DEF ObsInv, OnlyTheTypedCommandRuns, DotMb
  <2>. QED BY <1>1, <2>2, IdleStep DEF Idle
<1>3. CASE obs' = [kind |-> "exec_failed", name |-> <<>>, args |-> <<>>]
  <2>1. ObsInv'  BY <1>1, <1>3 DEF ObsInv, OnlyTheTypedCommandRuns
  <2>. QED BY <1>1, <2>1, IdleStep DEF Idle
<1>4. CASE obs' = obs
  <2>1. ObsInv'  BY <1>1, <1>4, SilentStep DEF CommandInv
  <2>. QED BY <1>1, <2>1, IdleStep DEF Idle
<1>. QED BY <1>1, <1>2, <1>3, <1>4

(* The other acts say nothing of the command.                              *)
LEMMA QuietActsKeepCommand ==
    ASSUME CommandInv, ReadFailed \/ DoHelp \/ DoExit \/ DoCd \/ Wait4 \/ ExternalFailed
    PROVE  CommandInv'
<1>1. CASE ReadFailed \/ DoHelp \/ DoExit \/ DoCd
  <2>1. /\ obs'.kind \in {"read_failed", "help", "exit", "cd"}
        /\ pc' \in {"msh_loop", "exited"} /\ UNCHANGED line
    BY <1>1 DEF ReadFailed, DoHelp, DoExit, DoCd, Observe
  <2>2. ObsInv'  BY <2>1 DEF ObsInv, OnlyTheTypedCommandRuns
  <2>. QED BY <2>1, <2>2, IdleStep DEF Idle
<1>2. CASE Wait4 \/ ExternalFailed
  <2>1. pc' \in {"msh_loop", "external_failed"} /\ UNCHANGED <<mem, line, obs>>
    BY <1>2 DEF Wait4, ExternalFailed, history
  <2>2. ObsInv'  BY <2>1 DEF CommandInv, ObsInv, OnlyTheTypedCommandRuns
  <2>. QED BY <2>1, <2>2, IdleStep DEF Idle
<1>. QED BY <1>1, <1>2

(* At power-on nothing has been typed.                                     *)
LEMMA InitCommand == Init => CommandInv
<1>. SUFFICES ASSUME Init PROVE CommandInv  OBVIOUS
<1>1. pc = "msh_loop" /\ line = <<>> /\ obs.kind = "none"  BY DEF Init, NoObs
<1>2. LineInv
  <2>. DEFINE t == Text(line)
  <2>1. t = <<>> /\ <<>> \in Seq(Octets) /\ Len(<<>>) = 0  BY <1>1, TextEmpty
  <2>. HIDE DEF t
  <2>2. \A k \in 1 .. 0 : FALSE  OBVIOUS
  <2>3. t \in Seq(Octets) /\ line \in Seq(Octets) /\ Len(t) = 0  BY <1>1, <2>1
  <2>. QED BY <2>2, <2>3 DEF LineInv, t
<1>3. NameInv  BY <1>1 DEF NameInv, Reading
<1>4. EndedInv  BY <1>1, HandlerIs DEF EndedInv, Acting, Handlers, ReadWell
<1>5. ImageInv  BY <1>1 DEF ImageInv
<1>6. ObsInv  BY <1>1 DEF ObsInv, OnlyTheTypedCommandRuns
<1>. QED BY <1>2, <1>3, <1>4, <1>5, <1>6 DEF CommandInv

(* A step that changes nothing.                                            *)
LEMMA StutterKeepsCommand ==
    ASSUME CommandInv, UNCHANGED vars
    PROVE  CommandInv'
<1>1. UNCHANGED <<pc, mem, cmd_cur, path_cur, cmd_done, cmd_started, read_status,
                  cmd_image_ptr, line, obs>>
  BY DEF vars, cursors, flags, history
<1>2. LineInv'  BY <1>1 DEF CommandInv, LineInv
<1>3. NameInv'
  BY <1>1 DEF CommandInv, NameInv, Unnamed, Naming, Named, NameOpen, NameEnded, PathEnded
<1>4. EndedInv'
  BY <1>1 DEF CommandInv, EndedInv, PathEnded, Matches, ReadWell
<1>5. ImageInv'
  BY <1>1 DEF CommandInv, ImageInv, PathSpelled
<1>6. ObsInv'
  BY <1>1 DEF CommandInv, ObsInv, OnlyTheTypedCommandRuns
<1>. QED BY <1>2, <1>3, <1>4, <1>5, <1>6 DEF CommandInv

(* Every step of the shell keeps the invariant.                            *)
LEMMA NextKeepsCommand == Inv /\ CommandInv /\ [Next]_vars => CommandInv'
<1>. SUFFICES ASSUME Inv, CommandInv, [Next]_vars PROVE CommandInv'  OBVIOUS
<1>1. CASE ReadByte  BY <1>1, ReadByteKeepsCommand
<1>2. CASE ReadEof \/ ReadFail  BY <1>2, ReadEndsKeepCommand
<1>3. CASE ReadParse
  <2>1. LineInv' /\ NameInv' /\ pc' \in Reading /\ obs' = NoObs  BY <1>3, ReadParseKeepsName
  <2>. QED BY <2>1, ReadingStep DEF CommandInv
<1>4. CASE RpFinish  BY <1>4, RpFinishKeepsCommand
<1>5. CASE AfterRead  BY <1>5, AfterReadKeepsCommand
<1>6. CASE ReadFailed \/ DoHelp \/ DoExit \/ DoCd \/ Wait4 \/ ExternalFailed
  BY <1>6, QuietActsKeepCommand
<1>7. CASE RunMfsAlias  BY <1>7, RunMfsAliasKeepsCommand
<1>8. CASE DoExternal  BY <1>8, DoExternalKeepsCommand
<1>9. CASE RunExternal  BY <1>9, RunExternalKeepsCommand
<1>10. CASE UnknownCommand  BY <1>10, UnknownKeepsCommand
<1>11. CASE Fork  BY <1>11, ForkKeepsCommand
<1>12. CASE UNCHANGED vars  BY <1>12, StutterKeepsCommand
<1>. QED BY <1>1, <1>2, <1>3, <1>4, <1>5, <1>6, <1>7, <1>8, <1>9, <1>10, <1>11, <1>12
         DEF Next, Shell, Exited

(* The name and path buffers hold the command typed, from its first byte   *)
(* to the act of the line, whatever came before on the terminal.           *)
THEOREM MshCommandCorrect == Spec => []CommandInv
<1>1. Init => Inv /\ CommandInv  BY InitInv, InitCommand
<1>2. Inv /\ CommandInv /\ [Next]_vars => Inv' /\ CommandInv'
  BY NextKeepsInv, NextKeepsCommand
<1>. QED BY <1>1, <1>2, PTL DEF Spec

(* What the child executes is /bin/WORD.mb for the whole word typed, or    *)
(* the run-on path of a word too long for its buffer that begins with "/", *)
(* "./" or "../", and an unknown command is reported by its own name       *)
(* (do_external, run_external and unknown_command of msh.m8a).             *)
THEOREM MshOnlyTheTypedCommandRuns == Spec => []OnlyTheTypedCommandRuns
<1>1. CommandInv => OnlyTheTypedCommandRuns  BY DEF CommandInv, ObsInv
<1>. QED BY <1>1, MshCommandCorrect, PTL

(* The builtin that a word is. *)
LEMMA MatchesIs ==
    ASSUME NEW w, NEW open, FirstWord(Text(line), w, open),
           Spelled(mem, cmd_name, w), Closes(mem, w), NEW k \in BuiltinNames
    PROVE  /\ Matches(k) => CutAtNul(Command(line)) = Builtin[k]
           /\ ~Matches(k) => Command(line) # Builtin[k]
<1>. DEFINE n == IF Len(w) <= NameCells THEN Len(w) ELSE NameCells
            b == Builtin[k]
            m == Len(b)
            c == Command(line)
<1>1. /\ n \in Nat /\ n <= Len(w) /\ n <= NameCells
      /\ c \in Seq(Nat) /\ Len(c) = n
      /\ \A i \in 1 .. n : c[i] = w[i]
  BY BufferedCommand
<1>2. w \in Seq(Nat) /\ Len(w) \in Nat /\ NameCells \in Nat  BY WordElements, Layout
<1>3. b \in Seq(1 .. 255) /\ m \in 1 .. NameCells - 1  BY MshAssumption
<1>4. /\ b \in Seq(Nat) /\ \A i \in 1 .. m : b[i] \in 1 .. 255
      /\ DOMAIN b = 1 .. m
  <2>. DEFINE B == 1 .. 255
  <2>1. b \in Seq(B) /\ B \subseteq Nat  BY <1>3
  <2>. HIDE DEF B, b
  <2>2. m \in Nat /\ DOMAIN b = 1 .. m /\ \A i \in 1 .. m : b[i] \in B  BY <2>1
  <2>4. b \in Seq(Nat)  BY <2>1, SeqOfSubset
  <2>. QED BY <2>2, <2>4 DEF B
<1>5. \A i \in 1 .. n : mem[cmd_name + i - 1] = c[i]
  <2>1. \A i \in 1 .. n : i \in 1 .. Len(w) /\ i <= NameCells  BY <1>1, <1>2
  <2>. QED BY <1>1, <2>1 DEF Spelled
<1>6. n < NameCells => mem[cmd_name + n] = 0 /\ Len(w) = n  BY <1>2 DEF Closes
<1>7. Matches(k) <=> /\ \A i \in 1 .. m : mem[cmd_name + i - 1] = b[i]
                     /\ mem[cmd_name + m] = 0
  <2>1. \A i \in 1 .. m : \A x : <<b[i], x>> \in EqTree <=> x = b[i]
    <3>1. \A i \in 1 .. m : b[i] \in UNION {{Builtin[j][x] : x \in DOMAIN Builtin[j]} : j \in BuiltinNames}
      BY <1>4
    <3>. QED BY <3>1 DEF EqTree
  <2>. HIDE DEF b, m
  <2>2. \A i \in 1 .. m : b[i] # 0  BY <1>4, ByteFacts
  <2>3. Matches(k) <=> /\ \A i \in 1 .. m : /\ mem[cmd_name + i - 1] # 0
                                            /\ <<b[i], mem[cmd_name + i - 1]>> \in EqTree
                       /\ mem[cmd_name + m] = 0
    BY <1>4 DEF Matches, b, m
  <2>. QED BY <2>1, <2>2, <2>3
<1>. HIDE DEF b, c, n, m
<1>8. ASSUME Matches(k) PROVE CutAtNul(c) = b
  <2>1. \A i \in 1 .. m : mem[cmd_name + i - 1] # 0
    <3>1. \A i \in 1 .. m : b[i] # 0  BY <1>4, ByteFacts
    <3>. QED BY <1>7, <1>8, <3>1
  <2>2. m <= n
    <3>1. SUFFICES ASSUME n < m PROVE FALSE  BY <1>1, <1>3
    <3>2. n + 1 \in 1 .. m /\ cmd_name + (n + 1) - 1 = cmd_name + n /\ n < NameCells
      BY <1>1, <1>2, <1>3, <3>1, Layout
    <3>3. mem[cmd_name + (n + 1) - 1] # 0  BY <2>1, <3>2
    <3>. QED BY <1>6, <3>2, <3>3
  <2>3. \A i \in 1 .. m : c[i] = b[i]
    <3>1. \A i \in 1 .. m : i \in 1 .. n  BY <1>1, <1>3, <2>2
    <3>. QED BY <1>5, <1>7, <1>8, <3>1
  <2>4. DOMAIN c = 1 .. n  BY <1>1
  <2>5. CASE m = n
    <3>1. c = b  BY <1>1, <1>3, <1>4, <2>3, <2>5, SameSeq DEF m
    <3>2. 0 \notin Range(c)
      <4>1. \A i \in 1 .. m : c[i] # 0
          <5>1. \A i \in 1 .. m : b[i] # 0  BY <1>4, ByteFacts
          <5>. QED BY <2>3, <5>1
      <4>. QED BY <2>4, <2>5, <4>1 DEF Range
    <3>. QED BY <3>1, <3>2 DEF CutAtNul
  <2>6. CASE m < n
    <3>1. m + 1 \in 1 .. n /\ cmd_name + (m + 1) - 1 = cmd_name + m
      BY <1>1, <1>3, <2>6, Layout
    <3>2. c[m + 1] = 0
      <4>1. c[m + 1] = mem[cmd_name + (m + 1) - 1]  BY <1>5, <3>1
      <4>. QED BY <1>7, <1>8, <3>1, <4>1
    <3>3. 0 \in Range(c)  BY <2>4, <3>1, <3>2 DEF Range
    <3>. DEFINE Z == {i \in DOMAIN c : c[i] = 0}
    <3>4. Z \subseteq Nat /\ m + 1 \in Z /\ \A i \in Z : m + 1 <= i
      <4>1. Z \subseteq Nat /\ m + 1 \in Z  BY <2>4, <3>1, <3>2
      <4>2. \A i \in Z : i \notin 1 .. m
        <5>1. \A i \in 1 .. m : c[i] # 0
          <6>1. \A i \in 1 .. m : b[i] # 0  BY <1>4, ByteFacts
          <6>. QED BY <2>3, <6>1
        <5>. QED BY <5>1
      <4>. QED BY <1>3, <2>4, <4>1, <4>2
    <3>. HIDE DEF Z
    <3>5. Min(Z) = m + 1  BY <3>4, MinIs
    <3>6. CutAtNul(c) = SubSeq(c, 1, (m + 1) - 1)  BY <3>3, <3>5 DEF CutAtNul, Z
    <3>7. CutAtNul(c) = SubSeq(c, 1, m)
      <4>1. (m + 1) - 1 = m  BY <1>3
      <4>. QED BY <3>6, <4>1
    <3>8. /\ SubSeq(c, 1, m) \in Seq(Nat) /\ Len(SubSeq(c, 1, m)) = m
          /\ \A i \in 1 .. m : SubSeq(c, 1, m)[i] = c[i]
      BY <1>1, <1>3, <2>6
    <3>9. SubSeq(c, 1, m) = b  BY <1>4, <2>3, <3>8, SameSeq DEF m
    <3>. QED BY <3>7, <3>9
  <2>. QED BY <1>1, <1>3, <2>2, <2>5, <2>6
<1>9. ASSUME c = b PROVE Matches(k)
  <2>1. n = m  BY <1>1, <1>9 DEF m
  <2>2. n < NameCells  BY <1>2, <1>3, <2>1
  <2>. QED BY <1>5, <1>6, <1>7, <1>9, <2>1, <2>2
<1>. QED BY <1>8, <1>9 DEF b, c

(* A builtin runs for its own name only, and its own name never runs an    *)
(* external program (the dispatch of msh.m8a).                             *)
THEOREM MshDispatchIsExact == Spec => []DispatchIsExact
<1>1. CommandInv => DispatchIsExact
  <2>. SUFFICES ASSUME CommandInv PROVE DispatchIsExact  OBVIOUS
  <2>1. ASSUME NEW k \in BuiltinNames, pc = Handler[k]
        PROVE  CutAtNul(Command(line)) = Builtin[k]
    <3>1. Matches(k) /\ pc \in Acting  BY <2>1, HandlerIs DEF CommandInv, EndedInv, Acting
    <3>2. PICK w, open : /\ FirstWord(Text(line), w, open)
                         /\ Spelled(mem, cmd_name, w) /\ Closes(mem, w)
      BY <3>1 DEF CommandInv, EndedInv
    <3>. QED BY <3>1, <3>2, MatchesIs
  <2>2. ASSUME pc = "do_external", NEW k \in BuiltinNames
        PROVE  Command(line) # Builtin[k]
    <3>1. ~Matches(k) /\ pc \in Acting  BY <2>2 DEF CommandInv, EndedInv, Acting
    <3>2. PICK w, open : /\ FirstWord(Text(line), w, open)
                         /\ Spelled(mem, cmd_name, w) /\ Closes(mem, w)
      BY <3>1 DEF CommandInv, EndedInv
    <3>. QED BY <3>1, <3>2, MatchesIs
  <2>. QED BY <2>1, <2>2 DEF DispatchIsExact
<1>. QED BY <1>1, MshCommandCorrect, PTL

----------------------------------------------------------------------------
(* One line per prompt.                                                    *)

(* One byte delivered is the last of the line, and ends it iff it is LF.   *)
LEMMA ByteEndsLine ==
    ASSUME CommandInv, ReadByte
    PROVE  line' # line /\ line' # <<>> => (Last(line') = LF <=> pc' = "rp_finish")
<1>1. PICK b \in Input : RpSpace(b) \/ RpCmd(b) \/ RpArg(b) \/ RpDrain(b)  BY DEF ReadByte
<1>2. line' = Append(line, b) /\ line \in Seq(Octets)
  BY <1>1 DEF RpSpace, RpCmd, RpArg, RpDrain, Deliver, CommandInv, LineInv
<1>3. b \in Octets  BY MshAssumption DEF Octets
<1>4. Last(line') = b  BY <1>2, <1>3, AppendByte DEF Last
<1>5. pc' = "rp_finish" <=> b = LF
  <2>1. RpCmdWrite(b) \/ RpArgStart(b) \/ RpArgWrite(mem, x_slot, b) => pc' # "rp_finish"
    BY DEF RpCmdWrite, RpArgStart, RpArgWrite
  <2>. DEFINE c == Class(b)
  <2>2. /\ c = "lf" <=> b = LF
        /\ c \in {"lf", "cr", "sp", "word"}
        /\ IsLF(b) <=> b = LF
    BY ClassIs
  <2>. HIDE DEF c
  <2>3. CASE RpSpace(b)  BY <2>1, <2>2, <2>3 DEF RpSpace, c
  <2>4. CASE RpCmd(b)  BY <2>1, <2>2, <2>4 DEF RpCmd, c
  <2>5. CASE RpArg(b)  BY <2>1, <2>2, <2>5 DEF RpArg, c
  <2>6. CASE RpDrain(b)  BY <2>2, <2>6 DEF RpDrain
  <2>. QED BY <1>1, <2>3, <2>4, <2>5, <2>6
<1>. QED BY <1>4, <1>5

(* The reader takes exactly one line per prompt, for every buffer size:    *)
(* in each read loop of msh.m8a an LF ends the line and no other byte      *)
(* does.                                                                   *)
THEOREM MshOneLinePerPrompt == Spec => OneLinePerPrompt
<1>1. CommandInv /\ [Next]_vars =>
          [line' # line /\ line' # <<>> => (Last(line') = LF <=> pc' = "rp_finish")]_vars
  <2>. SUFFICES ASSUME CommandInv, Next, line' # line, line' # <<>>
                PROVE  Last(line') = LF <=> pc' = "rp_finish"
    OBVIOUS
  <2>1. CASE ReadByte  BY <2>1, ByteEndsLine
  <2>2. CASE ~ReadByte
    <3>1. line' = line \/ line' = <<>>
      BY <2>2 DEF Next, Shell, ReadEof, ReadFail, ReadParse, RpFinish, AfterRead, ReadFailed,
         DoHelp, DoExit, DoCd, RunMfsAlias, DoExternal, RunExternal, UnknownCommand, Fork,
         Wait4, ExternalFailed, Exited, vars, history
    <3>. QED BY <3>1
  <2>. QED BY <2>1, <2>2
<1>. QED BY <1>1, MshCommandCorrect, PTL DEF Spec, OneLinePerPrompt

----------------------------------------------------------------------------
(* What the reference definitions of the arguments do with a byte more.    *)

(* h is the table behind Need(v, m).                                       *)
IsNeed(v, h, m) ==
    h = [i \in 0 .. m |-> IF i = 0 THEN 0 ELSE h[i-1] + Len(v[i]) + 1]

(* The cells that the first m words need exist, as one function of m.      *)
LEMMA NeedExists ==
    ASSUME NEW v, NEW m \in Nat
    PROVE  \E h : IsNeed(v, h, m)
<1>. DEFINE Ok == {k \in Nat : \E h : IsNeed(v, h, k)}
            At(h, i) == IF i = 0 THEN 0 ELSE h[i-1] + Len(v[i]) + 1
<1>1. 0 \in Ok
  <2>. DEFINE h == [i \in 0 .. 0 |-> 0]
  <2>1. h = [i \in 0 .. 0 |-> At(h, i)]  OBVIOUS
  <2>. QED BY <2>1 DEF IsNeed
<1>2. ASSUME NEW k \in Nat, k \in Ok PROVE k + 1 \in Ok
  <2>1. PICK h : IsNeed(v, h, k)  BY <1>2
  <2>. DEFINE g == [i \in 0 .. k+1 |-> IF i = k+1 THEN At(h, k+1) ELSE h[i]]
  <2>2. ASSUME NEW i \in 0 .. k+1 PROVE g[i] = At(g, i)
    <3>1. i # 0 => i - 1 \in 0 .. k+1 /\ i - 1 # k+1  OBVIOUS
    <3>2. i # 0 => g[i-1] = h[i-1]  BY <3>1
    <3>3. At(g, i) = At(h, i)  BY <3>2
    <3>4. CASE i = k + 1  BY <3>3, <3>4
    <3>5. CASE i \in 0 .. k
      <4>1. g[i] = h[i]  BY <3>5
      <4>2. h[i] = At(h, i)  BY <2>1, <3>5 DEF IsNeed
      <4>. QED BY <3>3, <4>1, <4>2
    <3>. QED BY <3>4, <3>5
  <2>3. g = [i \in 0 .. k+1 |-> g[i]]  OBVIOUS
  <2>. HIDE DEF g
  <2>4. IsNeed(v, g, k + 1)  BY <2>2, <2>3 DEF IsNeed
  <2>. QED BY <2>4
<1>. HIDE DEF Ok
<1>3. m \in Ok  BY <1>1, <1>2, SetInduction
<1>. QED BY <1>3 DEF Ok

(* Words as long as each other need as much.                               *)
LEMMA NeedAgrees ==
    ASSUME NEW v, NEW g, NEW u, NEW h, NEW m \in Nat, NEW n \in Nat, m <= n,
           \A i \in 1 .. m : v[i] = u[i], IsNeed(v, g, m), IsNeed(u, h, n)
    PROVE  \A i \in 0 .. m : g[i] = h[i]
<1>. DEFINE S == {i \in 0 .. m : g[i] = h[i]}
<1>1. 0 \in S  BY DEF IsNeed
<1>2. ASSUME NEW i \in 0 .. m - 1, i \in S PROVE i + 1 \in S
  <2>1. i + 1 \in 0 .. m /\ i + 1 \in 0 .. n /\ i + 1 # 0 /\ (i + 1) - 1 = i
    OBVIOUS
  <2>2. g[i+1] = g[i] + Len(v[i+1]) + 1  BY <2>1 DEF IsNeed
  <2>3. h[i+1] = h[i] + Len(u[i+1]) + 1  BY <2>1 DEF IsNeed
  <2>4. v[i+1] = u[i+1] /\ g[i] = h[i]  BY <1>2
  <2>. QED BY <2>1, <2>2, <2>3, <2>4
<1>. HIDE DEF S
<1>3. 0 .. m \subseteq S  BY <1>1, <1>2, BoundedInduction
<1>. QED BY <1>3 DEF S

(* Need reads that table.                                                  *)
LEMMA NeedTable ==
    ASSUME NEW v, NEW k \in Nat
    PROVE  \E h : IsNeed(v, h, k) /\ Need(v, k) = h[k]
<1>. DEFINE H == CHOOSE h : IsNeed(v, h, k)
<1>1. IsNeed(v, H, k)  BY NeedExists
<1>2. Need(v, k) = H[k]  BY DEF Need, IsNeed
<1>. HIDE DEF H
<1>. QED BY <1>1, <1>2

(* One word more needs its bytes and a NUL.                                *)
LEMMA NeedStep ==
    ASSUME NEW v, NEW k \in Nat
    PROVE  Need(v, 0) = 0 /\ Need(v, k + 1) = Need(v, k) + Len(v[k+1]) + 1
<1>1. Need(v, 0) = 0
  <2>1. PICK h : IsNeed(v, h, 0) /\ Need(v, 0) = h[0]  BY NeedTable
  <2>. QED BY <2>1 DEF IsNeed
<1>2. PICK g : IsNeed(v, g, k) /\ Need(v, k) = g[k]  BY NeedTable
<1>. DEFINE z == k + 1
<1>3. z \in Nat /\ k <= z /\ k \in 0 .. k /\ z \in 0 .. z /\ z # 0 /\ z - 1 = k  OBVIOUS
<1>. HIDE DEF z
<1>4. PICK h : IsNeed(v, h, z) /\ Need(v, z) = h[z]  BY <1>3, NeedTable
<1>5. g[k] = h[k]  BY <1>2, <1>3, <1>4, NeedAgrees
<1>6. h[z] = h[k] + Len(v[z]) + 1  BY <1>3, <1>4 DEF IsNeed
<1>. QED BY <1>1, <1>2, <1>4, <1>5, <1>6 DEF z

(* Need looks at the first k words only.                                   *)
LEMMA NeedSame ==
    ASSUME NEW v, NEW u, NEW k \in Nat, \A i \in 1 .. k : v[i] = u[i]
    PROVE  Need(v, k) = Need(u, k)
<1>1. PICK g : IsNeed(v, g, k) /\ Need(v, k) = g[k]  BY NeedTable
<1>2. PICK h : IsNeed(u, h, k) /\ Need(u, k) = h[k]  BY NeedTable
<1>3. k <= k /\ k \in 0 .. k  OBVIOUS
<1>4. g[k] = h[k]  BY <1>1, <1>2, <1>3, NeedAgrees
<1>. QED BY <1>1, <1>2, <1>4

(* A sentence: words of at least one byte.                                 *)
Sentence(v) ==
    /\ Len(v) \in Nat
    /\ \A i \in 1 .. Len(v) : v[i] \in Seq(Octets) /\ Len(v[i]) \in Nat /\ Len(v[i]) >= 1

(* Need counts cells.                                                      *)
LEMMA NeedNat ==
    ASSUME NEW v, Sentence(v)
    PROVE  \A k \in 0 .. Len(v) : Need(v, k) \in Nat
<1>. DEFINE n == Len(v)
            S == {k \in 0 .. n : Need(v, k) \in Nat}
<1>1. n \in Nat /\ \A i \in 1 .. n : Len(v[i]) \in Nat  BY DEF Sentence
<1>. HIDE DEF n
<1>2. 0 \in S  BY <1>1, NeedStep
<1>3. ASSUME NEW k \in 0 .. n - 1, k \in S PROVE k + 1 \in S
  <2>1. k \in Nat /\ k + 1 \in 1 .. n /\ k + 1 \in 0 .. n  BY <1>1
  <2>2. Need(v, k + 1) = Need(v, k) + Len(v[k+1]) + 1  BY <2>1, NeedStep
  <2>. QED BY <1>1, <1>3, <2>1, <2>2
<1>. HIDE DEF S
<1>4. 0 .. n \subseteq S  BY <1>1, <1>2, <1>3, BoundedInduction
<1>. QED BY <1>4 DEF S, n

(* A longer prefix needs more: at least the word that follows.             *)
LEMMA NeedGrows ==
    ASSUME NEW v, Sentence(v), NEW i \in 1 .. Len(v)
    PROVE  /\ Need(v, i) = Need(v, i - 1) + Len(v[i]) + 1
           /\ Need(v, i - 1) \in Nat /\ Need(v, i) \in Nat
           /\ \A j \in 0 .. Len(v) : i <= j => Need(v, i) <= Need(v, j)
<1>. DEFINE n == Len(v)
            S == {j \in 0 .. n : i <= j => Need(v, i) <= Need(v, j)}
<1>1. n \in Nat /\ \A k \in 1 .. n : Len(v[k]) \in Nat  BY DEF Sentence
<1>2. \A k \in 0 .. n : Need(v, k) \in Nat  BY NeedNat
<1>. HIDE DEF n
<1>3. i \in 1 .. n  BY DEF n
<1>4. i - 1 \in Nat /\ i - 1 \in 0 .. n /\ i \in 0 .. n /\ (i - 1) + 1 = i  BY <1>1, <1>3
<1>5. Need(v, i) = Need(v, i - 1) + Len(v[i]) + 1
  <2>. DEFINE z == i - 1
  <2>1. z \in Nat /\ z + 1 = i  BY <1>4
  <2>. HIDE DEF z
  <2>2. Need(v, z + 1) = Need(v, z) + Len(v[z+1]) + 1  BY <2>1, NeedStep
  <2>3. Need(v, i) = Need(v, z) + Len(v[i]) + 1  BY <2>1, <2>2
  <2>. QED BY <2>3 DEF z
<1>6. 0 \in S  BY <1>1, <1>3
<1>7. ASSUME NEW j \in 0 .. n - 1, j \in S PROVE j + 1 \in S
  <2>1. j \in Nat /\ j \in 0 .. n /\ j + 1 \in 1 .. n /\ j + 1 \in 0 .. n  BY <1>1
  <2>2. Need(v, j + 1) = Need(v, j) + Len(v[j+1]) + 1  BY <2>1, NeedStep
  <2>3. Need(v, j) <= Need(v, j + 1)
    <3>1. Len(v[j+1]) \in Nat /\ Need(v, j) \in Nat  BY <1>1, <1>2, <2>1
    <3>. QED BY <2>2, <3>1
  <2>4. Need(v, i) \in Nat /\ Need(v, j) \in Nat /\ Need(v, j + 1) \in Nat  BY <1>2, <1>4, <2>1
  <2>5. i <= j + 1 => i <= j \/ i = j + 1  BY <1>3, <1>1
  <2>. HIDE DEF S
  <2>6. i <= j => Need(v, i) <= Need(v, j)  BY <1>7 DEF S
  <2>7. i <= j + 1 => Need(v, i) <= Need(v, j + 1)
    <3>. DEFINE a == Need(v, i)
                b == Need(v, j)
                c == Need(v, j + 1)
    <3>1. i = j + 1 => a = c  OBVIOUS
    <3>2. a \in Nat /\ b \in Nat /\ c \in Nat /\ b <= c /\ (i <= j => a <= b)
      BY <2>3, <2>4, <2>6
    <3>. HIDE DEF a, b, c
    <3>3. i <= j + 1 => a <= c  BY <2>5, <3>1, <3>2
    <3>. QED BY <3>3 DEF a, c
  <2>. QED BY <2>1, <2>7 DEF S
<1>. HIDE DEF S
<1>8. 0 .. n \subseteq S  BY <1>1, <1>6, <1>7, BoundedInduction
<1>. QED BY <1>2, <1>4, <1>5, <1>8 DEF S, n

(* The arguments begin behind the first word, or behind what the name      *)
(* buffers hold of it and one byte.                                        *)
LEMMA ArgTextIs ==
    ASSUME NEW l, NEW i, NEW j, Leads(Text(l), i, j)
    PROVE  LET a == IF j <= i + NameCells THEN j ELSE i + NameCells IN
           /\ ArgText(l) = SubSeq(Text(l), a + 1, Len(Text(l)))
           /\ a \in Nat /\ a <= Len(Text(l)) /\ i <= a
<1>. DEFINE c == CommandSpan(l)
            s == {c[2], c[1] + NameCells}
            a == IF j <= i + NameCells THEN j ELSE i + NameCells
            t == Text(l)
<1>1. c[1] = i /\ c[2] = j  BY CommandIs
<1>2. /\ i \in Nat \ {0} /\ j \in Nat /\ j <= Len(t) /\ i <= j /\ Len(t) \in Nat
      /\ NameCells \in Nat \ {0}
  BY LeadsFacts, Layout
<1>3. Min(s) = a
  <2>1. s \subseteq Nat /\ a \in s /\ \A y \in s : a <= y  BY <1>1, <1>2
  <2>. HIDE DEF s, a
  <2>. QED BY <2>1, MinIs
<1>4. ArgText(l) = SubSeq(t, Min(s) + 1, Len(t))  BY DEF ArgText
<1>. HIDE DEF s
<1>. QED BY <1>2, <1>3, <1>4

(* The rest of a text with a byte more.                                    *)
LEMMA RestAppend ==
    ASSUME NEW t \in Seq(Octets), NEW a \in Nat, a <= Len(t), NEW b \in Octets
    PROVE  /\ SubSeq(t, a + 1, Len(t)) \in Seq(Octets)
           /\ SubSeq(Append(t, b), a + 1, Len(Append(t, b))) = Append(SubSeq(t, a + 1, Len(t)), b)
<1>. DEFINE n == Len(t)
            u == Append(t, b)
            z == a + 1
            r == SubSeq(t, z, n)
            q == SubSeq(u, z, n + 1)
<1>1. /\ t \in Seq(Nat) /\ b \in Nat /\ n \in Nat
      /\ u \in Seq(Octets) /\ u \in Seq(Nat) /\ Len(u) = n + 1
      /\ \A k \in 1 .. n : u[k] = t[k]
      /\ u[n+1] = b
  BY AppendByte
<1>. HIDE DEF n, u
<1>2. z \in Nat \ {0} /\ z <= n + 1 /\ z <= (n + 1) + 1 /\ n <= n /\ n + 1 <= n + 1 /\ n + 1 \in Nat
      /\ z - 1 = a
  BY <1>1 DEF n
<1>. HIDE DEF z
<1>3. r \in Seq(Octets)  BY <1>1, <1>2, OctetSub DEF n
<1>4. /\ r \in Seq(Nat) /\ Len(r) = n + 1 - z
      /\ \A k \in 1 .. n + 1 - z : r[k] = t[z + k - 1]
  BY <1>1, <1>2, SubSeqFacts DEF n
<1>5. /\ q \in Seq(Nat) /\ Len(q) = (n + 1) + 1 - z
      /\ \A k \in 1 .. (n + 1) + 1 - z : q[k] = u[z + k - 1]
  BY <1>1, <1>2, SubSeqFacts
<1>. HIDE DEF r, q
<1>. DEFINE p == Append(r, b)
            m == n + 1 - z
<1>6. /\ p \in Seq(Nat) /\ Len(p) = m + 1 /\ m \in Nat
      /\ \A k \in 1 .. m : p[k] = r[k]
      /\ p[m + 1] = b
  BY <1>1, <1>2, <1>3, <1>4, AppendByte
<1>. HIDE DEF p
<1>7. ASSUME NEW k \in 1 .. m + 1 PROVE q[k] = p[k]
  <2>1. k \in 1 .. (n + 1) + 1 - z /\ q[k] = u[z + k - 1]  BY <1>1, <1>2, <1>5
  <2>2. CASE k \in 1 .. m
    <3>1. z + k - 1 \in 1 .. n  BY <1>1, <1>2, <2>2
    <3>2. u[z + k - 1] = t[z + k - 1]  BY <1>1, <3>1
    <3>3. p[k] = t[z + k - 1]  BY <1>4, <1>6, <2>2
    <3>. QED BY <2>1, <3>2, <3>3
  <2>3. CASE k = m + 1
    <3>1. z + k - 1 = n + 1  BY <1>1, <1>2, <2>3
    <3>. QED BY <1>1, <1>6, <2>1, <2>3, <3>1
  <2>. QED BY <1>6, <2>2, <2>3
<1>8. Len(q) = Len(p) /\ \A k \in 1 .. Len(q) : q[k] = p[k]
  <2>1. Len(q) = m + 1 /\ Len(p) = m + 1  BY <1>1, <1>2, <1>5, <1>6
  <2>. QED BY <1>7, <2>1
<1>9. q = p  BY <1>5, <1>6, <1>8, SameSeq
<1>. QED BY <1>1, <1>3, <1>9 DEF q, p, r, z, u, n

(* Behind the command, a byte more of the line is a byte more of its       *)
(* arguments.                                                              *)
LEMMA ArgTextStep ==
    ASSUME NEW l, NEW k, NEW w, NEW open, FirstWord(Text(l), w, open), NEW b \in Octets,
           Text(k) = Append(Text(l), b), open => Len(w) > NameCells \/ b = SP
    PROVE  /\ ArgText(l) \in Seq(Octets) /\ ArgText(k) = Append(ArgText(l), b)
           /\ HasCommand(l) /\ HasCommand(k)
<1>. DEFINE t == Text(l)
            n == Len(t)
<1>1. PICK i, j : Leads(t, i, j) /\ w = SubSeq(t, i, j) /\ (open <=> j = n)
  BY DEF FirstWord
<1>2. /\ t \in Seq(Octets) /\ i \in Nat \ {0} /\ j \in Nat /\ j <= n /\ i <= j /\ n \in Nat
      /\ Len(w) = j + 1 - i /\ NameCells \in Nat \ {0}
  BY <1>1, LeadsFacts, Layout DEF Leads
<1>. DEFINE a == IF j <= i + NameCells THEN j ELSE i + NameCells
<1>3. ArgText(l) = SubSeq(t, a + 1, n) /\ a \in Nat /\ a <= n  BY <1>1, ArgTextIs
<1>4. ArgText(k) = SubSeq(Text(k), a + 1, Len(Text(k)))
  <2>1. CASE ~open \/ b = SP
    <3>1. j < n \/ b = SP  BY <1>1, <1>2, <2>1
    <3>2. Leads(Text(k), i, j)  BY <1>1, <3>1, LeadsKept
    <3>. QED BY <3>2, ArgTextIs
  <2>2. CASE open /\ b # SP
    <3>1. j = n  BY <1>1, <2>2
    <3>2. Leads(t, i, n)  BY <1>1, <3>1
    <3>3. Leads(Text(k), i, Len(Text(k)))  BY <2>2, <3>2, LeadsMore
    <3>4. Len(Text(k)) = n + 1  BY <1>2, AppendByte
    <3>. DEFINE c == IF n + 1 <= i + NameCells THEN n + 1 ELSE i + NameCells
    <3>. DEFINE e == Len(Text(k))
                d == IF e <= i + NameCells THEN e ELSE i + NameCells
    <3>5. ArgText(k) = SubSeq(Text(k), c + 1, Len(Text(k)))
      <4>1. Leads(Text(k), i, e)  BY <3>3
      <4>2. c = d  BY <3>4
      <4>. HIDE DEF c, e
      <4>3. ArgText(k) = SubSeq(Text(k), d + 1, Len(Text(k)))  BY <4>1, ArgTextIs
      <4>. HIDE DEF d
      <4>. QED BY <4>2, <4>3
    <3>6. c = a  BY <1>2, <2>2, <3>1
    <3>. HIDE DEF c, a
    <3>. QED BY <3>5, <3>6
  <2>. QED BY <2>1, <2>2
<1>. HIDE DEF a, n, t
<1>5. ArgText(l) \in Seq(Octets) /\ ArgText(k) = Append(ArgText(l), b)
  <2>1. /\ SubSeq(t, a + 1, Len(t)) \in Seq(Octets)
        /\ SubSeq(Append(t, b), a + 1, Len(Append(t, b))) = Append(SubSeq(t, a + 1, Len(t)), b)
    <3>1. t \in Seq(Octets) /\ a \in Nat /\ a <= Len(t)  BY <1>2, <1>3 DEF n
    <3>. QED BY <3>1, RestAppend
  <2>. QED BY <1>3, <1>4, <2>1 DEF n, t
<1>6. HasCommand(l)  BY <1>1, CommandIs DEF t
<1>7. HasCommand(k)
  <2>1. CASE ~open \/ b = SP
    <3>1. FirstWord(Text(k), w, FALSE)  BY <2>1, WordKept
    <3>. QED BY <3>1, WordIs
  <2>2. CASE open /\ b # SP
    <3>1. FirstWord(t, w, TRUE)  BY <1>1, <2>2 DEF FirstWord, n
    <3>2. FirstWord(Text(k), Append(w, b), TRUE)  BY <2>2, <3>1, WordMore DEF t
    <3>. QED BY <3>2, WordIs
  <2>. QED BY <2>1, <2>2
<1>. QED BY <1>5, <1>6, <1>7

(* While the command itself is being read there is no argument.            *)
LEMMA NoArgText ==
    ASSUME NEW l, NEW w, FirstWord(Text(l), w, TRUE), Len(w) <= NameCells + 1
    PROVE  ArgText(l) = <<>> /\ ArgWords(l) = <<>>
<1>. DEFINE t == Text(l)
            n == Len(t)
<1>1. PICK i, j : Leads(t, i, j) /\ w = SubSeq(t, i, j) /\ j = n
  BY DEF FirstWord
<1>2. /\ t \in Seq(Octets) /\ i \in Nat \ {0} /\ n \in Nat /\ i <= n
      /\ Len(w) = n + 1 - i /\ NameCells \in Nat \ {0}
  BY <1>1, LeadsFacts, Layout DEF Leads
<1>3. n <= i + NameCells  BY <1>2
<1>4. ArgText(l) = SubSeq(t, n + 1, n)  BY <1>1, <1>3, ArgTextIs
<1>5. SubSeq(t, n + 1, n) = <<>>
  <2>1. n \in Nat /\ n + 1 \in Nat  BY <1>2
  <2>. HIDE DEF t, n
  <2>. QED BY <2>1
<1>6. ArgWords(l) = <<>>  BY <1>4, <1>5, WordsEmpty DEF ArgWords
<1>. QED BY <1>4, <1>5, <1>6

(* A blank line has no arguments.                                          *)
LEMMA NoArgWords ==
    ASSUME NEW l, Blank(Text(l))
    PROVE  ArgWords(l) = <<>>
<1>1. Text(l) \in Seq(Nat)  BY ByteSeq DEF Blank
<1>2. ~HasCommand(l)
  <2>1. SUFFICES ASSUME NEW p \in Spans(Text(l)) PROVE FALSE  BY DEF HasCommand
  <2>2. IsSpan(Text(l), p[1], p[2])  BY <1>1, SpansAre
  <2>. QED BY <2>2 DEF IsSpan, Blank
<1>. QED BY <1>2 DEF ArgWords

(* The words of bytes are sentences.                                       *)
LEMMA WordsSentence ==
    ASSUME NEW s \in Seq(Octets)
    PROVE  Sentence(Words(s)) /\ IsSeq(Words(s))
<1>1. s \in Seq(Nat) /\ Len(s) \in Nat  BY ByteSeq
<1>2. PICK m, from, to : Listed(s, m, from, to)  BY <1>1, ListingExists
<1>3. Words(s) = [i \in 1 .. m |-> SubSeq(s, from[i], to[i])]  BY <1>1, <1>2, WordsAre
<1>4. m \in Nat  BY <1>2 DEF Listed
<1>5. ASSUME NEW i \in 1 .. m
      PROVE  /\ SubSeq(s, from[i], to[i]) \in Seq(Octets)
             /\ Len(SubSeq(s, from[i], to[i])) \in Nat /\ Len(SubSeq(s, from[i], to[i])) >= 1
  <2>1. from[i] \in 1 .. Len(s) /\ to[i] \in 1 .. Len(s) /\ from[i] <= to[i]
    BY <1>2 DEF Listed, IsSpan
  <2>2. /\ from[i] \in Nat \ {0} /\ to[i] \in Nat /\ to[i] <= Len(s) /\ from[i] <= to[i] + 1
        /\ to[i] + 1 - from[i] >= 1 /\ to[i] + 1 - from[i] \in Nat
    BY <1>1, <2>1
  <2>. QED BY <1>1, <2>2, SubSeqFacts, OctetSub
<1>6. Len(Words(s)) = m /\ \A i \in 1 .. m : Words(s)[i] = SubSeq(s, from[i], to[i])
  <2>. DEFINE f == [i \in 1 .. m |-> SubSeq(s, from[i], to[i])]
              S == {SubSeq(s, from[i], to[i]) : i \in 1 .. m}
  <2>1. f \in [1 .. m -> S] /\ \A i \in 1 .. m : f[i] = SubSeq(s, from[i], to[i])  OBVIOUS
  <2>. HIDE DEF f, S
  <2>2. f \in Seq(S) /\ Len(f) = m  BY <1>4, <2>1
  <2>. QED BY <1>3, <2>1, <2>2 DEF f
<1>7. IsSeq(Words(s))  BY <1>1, WordsFacts
<1>8. Sentence(Words(s))
  <2>. DEFINE W == Words(s)
  <2>1. \A i \in 1 .. m : W[i] \in Seq(Octets) /\ Len(W[i]) \in Nat /\ Len(W[i]) >= 1
    BY <1>5, <1>6
  <2>2. Len(W) = m  BY <1>6
  <2>. HIDE DEF W
  <2>3. Sentence(W)  BY <1>4, <2>1, <2>2 DEF Sentence
  <2>. QED BY <2>3 DEF W
<1>. QED BY <1>7, <1>8

(* No words are a sentence.                                                *)
LEMMA EmptySentence == Sentence(<<>>) /\ IsSeq(<<>>) /\ Len(<<>>) = 0
<1>1. <<>> \in Seq(Octets)  OBVIOUS
<1>2. Sentence(<<>>)  BY <1>1, WordsSentence, WordsEmpty
<1>. QED BY <1>2, EmptyFacts

(* u is v with a new word of one byte,                                     *)
Begins(v, u, b) ==
    /\ Len(u) = Len(v) + 1
    /\ \A i \in 1 .. Len(v) : u[i] = v[i]
    /\ u[Len(v) + 1] = <<b>>
(* or with a byte more in its last word.                                   *)
Extends(v, u, b) ==
    /\ Len(v) >= 1 /\ Len(u) = Len(v)
    /\ \A i \in 1 .. Len(v) - 1 : u[i] = v[i]
    /\ u[Len(v)] = Append(v[Len(v)], b)

(* Only a space closes the last word.                                      *)
LEMMA OpenAppend ==
    ASSUME NEW s \in Seq(Octets), NEW b \in Octets
    PROVE  Open(Append(s, b)) <=> b # SP
<1>1. /\ Len(s) \in Nat /\ Len(Append(s, b)) = Len(s) + 1
      /\ Append(s, b)[Len(s) + 1] = b
  BY AppendByte
<1>. QED BY <1>1 DEF Open

(* A byte behind the command: a space adds nothing, another byte begins an *)
(* argument or lengthens the open one.                                     *)
LEMMA ArgWordsStep ==
    ASSUME NEW l, NEW k, NEW w, NEW open, FirstWord(Text(l), w, open), NEW b \in Octets,
           Text(k) = Append(Text(l), b), open => Len(w) > NameCells \/ b = SP
    PROVE  /\ Sentence(ArgWords(l)) /\ Sentence(ArgWords(k))
           /\ b = SP => ArgWords(k) = ArgWords(l)
           /\ b # SP /\ ~Open(ArgText(l)) => Begins(ArgWords(l), ArgWords(k), b)
           /\ b # SP /\ Open(ArgText(l)) => Extends(ArgWords(l), ArgWords(k), b)
           /\ Open(ArgText(k)) <=> b # SP
<1>. DEFINE s == ArgText(l)
<1>1. /\ s \in Seq(Octets) /\ ArgText(k) = Append(s, b)
      /\ HasCommand(l) /\ HasCommand(k)
  BY ArgTextStep
<1>2. ArgWords(l) = Words(s) /\ ArgWords(k) = Words(Append(s, b))  BY <1>1 DEF ArgWords
<1>. HIDE DEF s
<1>3. s \in Seq(Nat) /\ b \in Nat /\ Append(s, b) \in Seq(Octets)  BY <1>1, AppendByte
<1>4. Sentence(Words(s)) /\ Sentence(Words(Append(s, b)))  BY <1>1, <1>3, WordsSentence
<1>5. /\ b = SP => Words(Append(s, b)) = Words(s)
      /\ b # SP /\ ~Open(s) => Begins(Words(s), Words(Append(s, b)), b)
      /\ b # SP /\ Open(s) => Extends(Words(s), Words(Append(s, b)), b)
  BY <1>3, WordsAppend DEF Begins, Extends
<1>6. Open(Append(s, b)) <=> b # SP  BY <1>1, OpenAppend
<1>. QED BY <1>1, <1>2, <1>4, <1>5, <1>6 DEF s

(* The words of a line with a command, and of one without.                 *)
LEMMA ArgWordsSentence ==
    ASSUME NEW l, NEW w, NEW open, FirstWord(Text(l), w, open)
    PROVE  Sentence(ArgWords(l)) /\ IsSeq(ArgWords(l))
<1>1. PICK i, j : Leads(Text(l), i, j)  BY DEF FirstWord
<1>2. ArgText(l) \in Seq(Octets)
  <2>. DEFINE a == IF j <= i + NameCells THEN j ELSE i + NameCells
  <2>1. ArgText(l) = SubSeq(Text(l), a + 1, Len(Text(l))) /\ a \in Nat /\ a <= Len(Text(l))
    BY <1>1, ArgTextIs
  <2>2. Text(l) \in Seq(Octets) /\ Len(Text(l)) \in Nat  BY <1>1, LeadsFacts DEF Leads
  <2>. HIDE DEF a
  <2>3. a + 1 \in Nat \ {0} /\ a + 1 <= Len(Text(l)) + 1 /\ Len(Text(l)) <= Len(Text(l))
    BY <2>1, <2>2
  <2>. QED BY <2>1, <2>2, <2>3, OctetSub
<1>3. HasCommand(l)  BY WordIs
<1>4. ArgWords(l) = Words(ArgText(l))  BY <1>3 DEF ArgWords
<1>. QED BY <1>2, <1>4, WordsSentence

----------------------------------------------------------------------------
(* The invariant of the arguments.                                         *)

(* Argument i of v lies in arg_buf behind the i - 1 before it, and its     *)
(* slot points there.                                                      *)
Held(m, s, v, i) ==
    /\ m[exec_args + i - 1] = s + Need(v, i - 1)
    /\ \A j \in 1 .. Len(v[i]) : m[s + Need(v, i - 1) + j - 1] = v[i][j]
(* Its NUL follows.                                                        *)
Ended(m, s, v, i) == m[s + Need(v, i - 1) + Len(v[i])] = 0
(* The first k arguments of v are held and ended.                          *)
Stored(m, s, v, k) == \A i \in 1 .. k : Held(m, s, v, i) /\ Ended(m, s, v, i)

(* Where the line found arg_buf, and the cursor n cells on.                *)
Start == exec_argv - room
(* The cursor n cells behind the start.                                    *)
After(n) == IF n = room THEN 0 ELSE Start + n
(* The slots a line has used.                                              *)
Used == IF xcur = 0 THEN Slots ELSE xcur - exec_args

(* Every argument so far is stored and ended.                              *)
WholeSoFar(v) ==
    /\ Used = Len(v) /\ Need(v, Len(v)) <= room
    /\ Stored(mem, Start, v, Len(v))
    /\ arg_cur = After(Need(v, Len(v)))
(* The last one is being read.                                             *)
OpenSoFar(v) ==
    /\ Used = Len(v) /\ Len(v) >= 1 /\ Need(v, Len(v)) <= room + 1
    /\ Stored(mem, Start, v, Len(v) - 1) /\ Held(mem, Start, v, Len(v))
    /\ arg_cur = After(Need(v, Len(v)) - 1)
(* Argument k + 1 found no slot or no room.                                *)
Dropped(v) ==
    \E k \in 0 .. Len(v) - 1 :
        /\ k <= Slots /\ Need(v, k) <= room /\ Stored(mem, Start, v, k)
        /\ k = Slots \/ Need(v, k + 1) > room
        /\ Used = k \/ (Used = k + 1 /\ mem[exec_args + k] = 0)
        /\ arg_cur # 0 => arg_cur >= Start + Need(v, k)

(* While a line is read: what has become of its arguments so far.          *)
ArgsReading ==
    pc \in Reading =>
        /\ room \in 1 .. ArgCells
        /\ pc \in {"rp_space", "rp_cmd"} => WholeSoFar(ArgWords(line))
        /\ pc = "rp_space" /\ cmd_done => ~Open(ArgText(line))
        /\ pc = "rp_arg" => OpenSoFar(ArgWords(line)) /\ Open(ArgText(line))
        /\ pc = "rp_drain" => Dropped(ArgWords(line))
        /\ pc = "rp_finish" =>
               \/ WholeSoFar(ArgWords(line))
               \/ OpenSoFar(ArgWords(line)) /\ Open(ArgText(line))
               \/ Dropped(ArgWords(line))

(* The vector of a line that was read: the arguments that fit,             *)
VectorFits(m, v) ==
    \E k \in 0 .. Len(v) :
        /\ k <= Slots /\ Need(v, k) <= room /\ Stored(m, Start, v, k)
        /\ m[exec_args + k] = 0
        /\ k = Len(v) \/ k = Slots \/ Need(v, k + 1) > room
(* or all of them, the last without its NUL.                               *)
VectorBrims(m, v) ==
    /\ Len(v) \in 1 .. Slots /\ Need(v, Len(v)) = room + 1
    /\ Stored(m, Start, v, Len(v) - 1) /\ Held(m, Start, v, Len(v))
    /\ m[exec_args + Len(v)] = 0

(* Labels from which the arguments will still be used: mfsls takes none.   *)
ArgsOwed ==
    \/ ReadWell
    \/ pc \in Handlers \cup {"do_external"}
    \/ pc \in {"run_external", "fork"} /\ cmd_image_ptr # mfs_ls_image
(* From the end of the line to its act: the vector that execve and cd      *)
(* read.                                                                   *)
ArgsRead ==
    ArgsOwed =>
        /\ room \in 1 .. ArgCells
        /\ \/ VectorFits(mem, ArgWords(line))
           \/ VectorBrims(mem, ArgWords(line)) /\ Open(ArgText(line))

(* The invariant behind the arguments a line hands over.                   *)
ArgumentsInv == ArgsReading /\ ArgsRead /\ ArgvFaithful /\ CdTarget

(* Where the first k arguments lie.                                        *)
LEMMA ArgCellsIn ==
    ASSUME NEW v, Sentence(v), NEW s \in ArgAddr, NEW k \in 0 .. Len(v),
           s + Need(v, k) <= exec_argv, NEW i \in 1 .. k
    PROVE  /\ s + Need(v, i - 1) \in ArgAddr
           /\ \A j \in 1 .. Len(v[i]) : /\ s + Need(v, i - 1) + j - 1 \in ArgAddr
                                        /\ s + Need(v, i - 1) + j - 1 < s + Need(v, k)
           /\ s + Need(v, i - 1) + Len(v[i]) \in ArgAddr
           /\ s + Need(v, i - 1) + Len(v[i]) < s + Need(v, k)
           /\ Need(v, i - 1) \in Nat /\ Len(v[i]) \in Nat /\ Len(v[i]) >= 1
           /\ v[i] \in Seq(Octets)
<1>. DEFINE p == Need(v, i - 1)
            q == Need(v, i)
            r == Need(v, k)
            n == Len(v[i])
<1>1. /\ i \in 1 .. Len(v) /\ k \in 0 .. Len(v) /\ i <= k
      /\ n \in Nat /\ n >= 1 /\ v[i] \in Seq(Octets)
  BY DEF Sentence
<1>2. q = p + n + 1 /\ p \in Nat /\ q \in Nat /\ q <= r  BY <1>1, NeedGrows
<1>3. r \in Nat  BY NeedNat
<1>4. s + r <= exec_argv  OBVIOUS
<1>. HIDE DEF p, q, r, n
<1>5. s \in Nat /\ arg_buf \in Nat /\ exec_argv \in Nat /\ arg_buf <= s  BY Layout DEF ArgAddr
<1>6. \A j \in 1 .. n : s + p + j - 1 \in ArgAddr /\ s + p + j - 1 < s + r
  BY <1>1, <1>2, <1>3, <1>4, <1>5 DEF ArgAddr
<1>7. s + p \in ArgAddr /\ s + p + n \in ArgAddr /\ s + p + n < s + r
  BY <1>1, <1>2, <1>3, <1>4, <1>5 DEF ArgAddr
<1>. QED BY <1>1, <1>2, <1>6, <1>7 DEF p, r, n

(* What two memories and two sentences share up to the k-th argument.      *)
SameUpTo(n, m, s, u, v, k) ==
    /\ \A i \in 1 .. k : u[i] = v[i]
    /\ \A a \in ArgAddr : a < s + Need(v, k) => n[a] = m[a]
    /\ \A i \in 1 .. k : n[exec_args + i - 1] = m[exec_args + i - 1]

(* Arguments stay stored while their cells and slots are left alone.       *)
LEMMA StoredSame ==
    ASSUME NEW v, Sentence(v), NEW u, NEW s \in ArgAddr, NEW k \in 0 .. Len(v),
           s + Need(v, k) <= exec_argv, NEW m, NEW n, SameUpTo(n, m, s, u, v, k),
           Stored(m, s, v, k)
    PROVE  Stored(n, s, u, k) /\ Need(u, k) = Need(v, k)
<1>0. /\ \A i \in 1 .. k : u[i] = v[i]
      /\ \A a \in ArgAddr : a < s + Need(v, k) => n[a] = m[a]
      /\ \A i \in 1 .. k : n[exec_args + i - 1] = m[exec_args + i - 1]
  BY DEF SameUpTo
<1>1. ASSUME NEW i \in 1 .. k PROVE Held(n, s, u, i) /\ Ended(n, s, u, i)
  <2>1. /\ s + Need(v, i - 1) \in ArgAddr
        /\ \A j \in 1 .. Len(v[i]) : /\ s + Need(v, i - 1) + j - 1 \in ArgAddr
                                     /\ s + Need(v, i - 1) + j - 1 < s + Need(v, k)
        /\ s + Need(v, i - 1) + Len(v[i]) \in ArgAddr
        /\ s + Need(v, i - 1) + Len(v[i]) < s + Need(v, k)
    BY ArgCellsIn
  <2>2. u[i] = v[i]  BY <1>0
  <2>3. Need(u, i - 1) = Need(v, i - 1)
    <3>1. Len(v) \in Nat  BY DEF Sentence
    <3>2. i - 1 \in Nat /\ \A x \in 1 .. i - 1 : u[x] = v[x]  BY <1>0, <3>1
    <3>. QED BY <3>2, NeedSame
  <2>4. Held(m, s, v, i) /\ Ended(m, s, v, i)  BY DEF Stored
  <2>5. Held(n, s, u, i)  BY <1>0, <2>1, <2>2, <2>3, <2>4 DEF Held
  <2>6. Ended(n, s, u, i)  BY <1>0, <2>1, <2>2, <2>3, <2>4 DEF Ended
  <2>. QED BY <2>5, <2>6
<1>2. k \in Nat  BY DEF Sentence
<1>3. Need(u, k) = Need(v, k)  BY <1>0, <1>2, NeedSame
<1>. QED BY <1>1, <1>3 DEF Stored

(* So does the open one.                                                   *)
LEMMA HeldKept ==
    ASSUME NEW v, Sentence(v), NEW u, NEW s \in ArgAddr, NEW k \in 1 .. Len(v),
           s + Need(v, k) <= exec_argv + 1, \A i \in 1 .. k : u[i] = v[i],
           NEW m, NEW n, \A a \in ArgAddr : a + 1 < s + Need(v, k) => n[a] = m[a],
           n[exec_args + k - 1] = m[exec_args + k - 1],
           Held(m, s, v, k)
    PROVE  Held(n, s, u, k)
<1>. DEFINE p == Need(v, k - 1)
            l == Len(v[k])
<1>1. /\ Need(v, k) = p + l + 1 /\ p \in Nat /\ l \in Nat /\ l >= 1
  BY NeedGrows DEF Sentence
<1>2. Need(u, k - 1) = p
  <2>1. Len(v) \in Nat  BY DEF Sentence
  <2>2. k - 1 \in Nat /\ \A x \in 1 .. k - 1 : u[x] = v[x]  BY <2>1
  <2>. QED BY <2>2, NeedSame
<1>3. u[k] = v[k]
  <2>1. Len(v) \in Nat  BY DEF Sentence
  <2>. QED BY <2>1
<1>4. /\ s + p + l <= exec_argv
      /\ \A a \in ArgAddr : a < s + p + l => n[a] = m[a]
  <2>1. s \in Nat /\ exec_argv \in Nat /\ \A a \in ArgAddr : a \in Nat  BY Layout DEF ArgAddr
  <2>2. s + (p + l + 1) <= exec_argv + 1  BY <1>1
  <2>3. \A a \in ArgAddr : a + 1 < s + (p + l + 1) => n[a] = m[a]  BY <1>1
  <2>. HIDE DEF p, l
  <2>. QED BY <1>1, <2>1, <2>2, <2>3
<1>5. /\ m[exec_args + k - 1] = s + p
      /\ \A j \in 1 .. l : m[s + p + j - 1] = v[k][j]
  BY DEF Held
<1>. HIDE DEF p, l
<1>6. \A j \in 1 .. l : s + p + j - 1 \in ArgAddr /\ s + p + j - 1 < s + p + l
  BY <1>1, <1>4, Layout DEF ArgAddr
<1>7. \A j \in 1 .. l : n[s + p + j - 1] = v[k][j]  BY <1>4, <1>5, <1>6
<1>. QED BY <1>2, <1>3, <1>5, <1>7 DEF Held, p, l

(* A line starts at a cell of arg_buf.                                     *)
LEMMA StartIn ==
    ASSUME room \in 1 .. ArgCells
    PROVE  /\ Start \in ArgAddr /\ Start \in Nat /\ Start + room = exec_argv /\ room \in Nat
           /\ arg_buf <= Start
  BY Layout DEF Start, ArgAddr

(* The slot cursor stands behind the slots in use.                         *)
LEMMA UsedIs ==
    ASSUME TypeOK
    PROVE  /\ Used \in 0 .. Slots
           /\ xcur # 0 => xcur = exec_args + Used /\ Used < Slots
           /\ xcur = 0 => Used = Slots
  BY Layout DEF TypeOK, Used, SlotAddr

(* The slots of arguments are addresses.                                   *)
LEMMA SlotIn ==
    ASSUME NEW i \in 1 .. Slots
    PROVE  exec_args + i - 1 \in SlotAddr /\ exec_args + i - 1 \in Addr
           /\ exec_args + i - 1 \notin ArgAddr
  BY Layout DEF SlotAddr, Addr, ArgAddr

(* The cells and cursors of the arguments are left alone.                  *)
ArgsAlone ==
    /\ \A a \in ArgAddr \cup SlotAddr : mem'[a] = mem[a]
    /\ UNCHANGED <<arg_cur, xcur, room>>

(* Then so is what they hold.                                              *)
LEMMA AloneKeeps ==
    ASSUME TypeOK, ArgsAlone, room \in 1 .. ArgCells, NEW v, Sentence(v)
    PROVE  /\ WholeSoFar(v) => WholeSoFar(v)'
           /\ OpenSoFar(v) => OpenSoFar(v)'
           /\ Dropped(v) => Dropped(v)'
<1>1. /\ Start \in ArgAddr /\ Start \in Nat /\ Start + room = exec_argv /\ room \in Nat
      /\ Used \in 0 .. Slots /\ Slots \in Nat /\ Len(v) \in Nat
      /\ \A k \in 0 .. Len(v) : Need(v, k) \in Nat
      /\ \A i \in 1 .. Len(v) : v[i] = v[i]
  BY StartIn, UsedIs, Layout, NeedNat DEF Sentence
<1>2. Start' = Start /\ Used' = Used /\ \A n : After(n)' = After(n)
  BY DEF ArgsAlone, Start, Used, After
<1>3. ASSUME NEW k \in 0 .. Len(v), k <= Slots, Need(v, k) <= room, Stored(mem, Start, v, k)
      PROVE  Stored(mem', Start, v, k)
  <2>1. Start + Need(v, k) <= exec_argv  BY <1>1, <1>3
  <2>2. \A i \in 1 .. k : v[i] = v[i] /\ i \in 1 .. Slots  BY <1>1, <1>3
  <2>3. \A i \in 1 .. k : mem'[exec_args + i - 1] = mem[exec_args + i - 1]
    BY <2>2, SlotIn DEF ArgsAlone
  <2>4. \A a \in ArgAddr : a < Start + Need(v, k) => mem'[a] = mem[a]  BY DEF ArgsAlone
  <2>5. SameUpTo(mem', mem, Start, v, v, k)  BY <2>3, <2>4 DEF SameUpTo
  <2>. QED BY <1>1, <1>3, <2>1, <2>5, StoredSame
<1>4. ASSUME NEW k \in 1 .. Len(v), k <= Slots, Need(v, k) <= room + 1, Held(mem, Start, v, k)
      PROVE  Held(mem', Start, v, k)
  <2>1. k \in 0 .. Len(v)  BY <1>1
  <2>2. Start + Need(v, k) <= exec_argv + 1  BY <1>1, <1>4, <2>1
  <2>3. k \in 1 .. Slots  BY <1>1, <1>4
  <2>4. mem'[exec_args + k - 1] = mem[exec_args + k - 1]  BY <2>3, SlotIn DEF ArgsAlone
  <2>5. \A a \in ArgAddr : a + 1 < Start + Need(v, k) => mem'[a] = mem[a]  BY DEF ArgsAlone
  <2>6. \A i \in 1 .. k : v[i] = v[i]  OBVIOUS
  <2>. QED BY <1>1, <1>4, <2>2, <2>4, <2>5, <2>6, HeldKept
<1>5. WholeSoFar(v) => WholeSoFar(v)'
  <2>1. Len(v) \in 0 .. Len(v)  BY <1>1
  <2>. QED BY <1>1, <1>2, <1>3, <2>1 DEF WholeSoFar, ArgsAlone
<1>6. OpenSoFar(v) => OpenSoFar(v)'
  <2>. SUFFICES ASSUME OpenSoFar(v) PROVE OpenSoFar(v)'  OBVIOUS
  <2>. DEFINE z == Len(v) - 1
  <2>1. /\ Used = Len(v) /\ Len(v) >= 1 /\ Need(v, Len(v)) <= room + 1
        /\ Stored(mem, Start, v, z) /\ Held(mem, Start, v, Len(v))
        /\ arg_cur = After(Need(v, Len(v)) - 1)
    BY DEF OpenSoFar
  <2>2. Len(v) \in 1 .. Len(v) /\ Len(v) <= Slots /\ z \in 0 .. Len(v) /\ z <= Slots
    BY <1>1, <2>1
  <2>3. Need(v, z) <= room
    <3>1. Need(v, Len(v)) = Need(v, Len(v) - 1) + Len(v[Len(v)]) + 1 /\ Len(v[Len(v)]) \in Nat
      BY <2>2, NeedGrows DEF Sentence
    <3>2. Need(v, z) \in Nat /\ Need(v, Len(v)) \in Nat  BY <1>1, <2>2
    <3>. QED BY <1>1, <2>1, <3>1, <3>2
  <2>. HIDE DEF z
  <2>4. Stored(mem', Start, v, z)  BY <1>3, <2>1, <2>2, <2>3
  <2>5. Held(mem', Start, v, Len(v))  BY <1>4, <2>1, <2>2
  <2>. QED BY <1>2, <2>1, <2>4, <2>5 DEF OpenSoFar, ArgsAlone, z
<1>7. Dropped(v) => Dropped(v)'
  <2>. SUFFICES ASSUME Dropped(v) PROVE Dropped(v)'  OBVIOUS
  <2>1. PICK k \in 0 .. Len(v) - 1 :
            /\ k <= Slots /\ Need(v, k) <= room /\ Stored(mem, Start, v, k)
            /\ k = Slots \/ Need(v, k + 1) > room
            /\ Used = k \/ (Used = k + 1 /\ mem[exec_args + k] = 0)
            /\ arg_cur # 0 => arg_cur >= Start + Need(v, k)
    BY DEF Dropped
  <2>2. Stored(mem', Start, v, k)  BY <1>1, <1>3, <2>1
  <2>3. Used = k + 1 => mem'[exec_args + k] = mem[exec_args + k]
    <3>1. Used = k + 1 => exec_args + k \in SlotAddr
      BY <1>1, <2>1, Layout DEF SlotAddr
    <3>. QED BY <3>1 DEF ArgsAlone
  <2>4. Used' = k \/ (Used' = k + 1 /\ mem'[exec_args + k] = 0)  BY <1>2, <2>1, <2>3
  <2>5. arg_cur' # 0 => arg_cur' >= Start' + Need(v, k)  BY <1>2, <2>1 DEF ArgsAlone
  <2>6. room' = room  BY DEF ArgsAlone
  <2>. QED BY <1>2, <2>1, <2>2, <2>4, <2>5, <2>6 DEF Dropped
<1>. QED BY <1>5, <1>6, <1>7

----------------------------------------------------------------------------
(* The reader, cell by cell.                                               *)

(* The cells that the first byte of an argument writes.                    *)
LEMMA ArgStartCells ==
    ASSUME Inv, pc = "rp_space", NEW b \in 0 .. 255, RpArgStart(b), xcur # 0, arg_cur # 0
    PROVE  /\ \A a \in Addr : mem'[a] = IF a = arg_cur THEN b
                                        ELSE IF a = xcur THEN arg_cur ELSE mem[a]
           /\ arg_cur' = IF arg_cur = exec_argv - 1 THEN 0 ELSE arg_cur + 1
           /\ xcur' = IF xcur = exec_argv_term - 1 THEN 0 ELSE xcur + 1
<1>. DEFINE m == Put(mem, xcur, arg_cur)
<1>1. /\ mem \in [Addr -> Word] /\ xcur \in Addr \cup {0} /\ arg_cur \in Word
      /\ b \in Word /\ TypeOK /\ ReaderInv
  BY Layout DEF Inv, TypeOK, Addr, Word, SlotAddr, ArgAddr
<1>2. /\ m \in [Addr -> Word]
      /\ \A a \in Addr : m[a] = IF a = xcur THEN arg_cur ELSE mem[a]
  BY <1>1, PutChase
<1>3. mem' = Put(m, arg_cur, b) /\ arg_cur' = Chase(m, arg_cur) /\ xcur' = Chase(mem, xcur)
  BY DEF RpArgStart, RpArgWrite
<1>. HIDE DEF m
<1>4. \A a \in ArgAddr : m[a] = mem[a]
  BY <1>1, <1>2, Layout DEF TypeOK, Addr, ArgAddr, SlotAddr
<1>5. /\ \A a \in Addr : mem'[a] = IF a = arg_cur THEN b ELSE m[a]
      /\ arg_cur' = IF arg_cur = exec_argv - 1 THEN 0 ELSE arg_cur + 1
  BY <1>1, <1>2, <1>3, <1>4, ArgChase
<1>6. xcur' = IF xcur = exec_argv_term - 1 THEN 0 ELSE xcur + 1
  BY <1>1, <1>3, Layout DEF ReaderInv, ChainsIntact, Chained, Chase, Link, Reading,
     TypeOK, SlotAddr, Addr
<1>. QED BY <1>2, <1>5, <1>6

(* The cell that a byte or the NUL of the open argument writes.            *)
LEMMA ArgWriteCell ==
    ASSUME Inv, arg_cur # 0, NEW w \in Word
    PROVE  /\ \A a \in Addr : Put(mem, arg_cur, w)[a] = IF a = arg_cur THEN w ELSE mem[a]
           /\ Chase(mem, arg_cur) = IF arg_cur = exec_argv - 1 THEN 0 ELSE arg_cur + 1
<1>1. TypeOK /\ ReaderInv /\ mem \in [Addr -> Word] /\ \A a \in ArgAddr : mem[a] = mem[a]
  BY DEF Inv, TypeOK
<1>. QED BY <1>1, ArgChase

(* rp_arg_start opens an argument,                                         *)
LEMMA StartOpens ==
    ASSUME Inv, pc = "rp_space", NEW b \in 0 .. 255, RpArgStart(b), xcur # 0, arg_cur # 0,
           UNCHANGED room, room \in 1 .. ArgCells,
           NEW v, NEW u, Sentence(v), Sentence(u), Begins(v, u, b), WholeSoFar(v)
    PROVE  OpenSoFar(u)'
<1>. DEFINE N == Len(v)
            s == Start
<1>1. /\ s \in ArgAddr /\ s \in Nat /\ s + room = exec_argv /\ room \in Nat
      /\ N \in Nat /\ Need(v, N) \in Nat /\ TypeOK
  BY StartIn, NeedNat DEF Sentence, Inv
<1>2. /\ Used = N /\ Need(v, N) <= room /\ Stored(mem, s, v, N)
      /\ arg_cur = After(Need(v, N))
  BY DEF WholeSoFar
<1>3. xcur = exec_args + N /\ N < Slots /\ Slots \in Nat  BY <1>1, <1>2, UsedIs, Layout
<1>4. arg_cur = s + Need(v, N) /\ Need(v, N) < room  BY <1>1, <1>2 DEF After
<1>5. Len(u) = N + 1 /\ (\A i \in 1 .. N : u[i] = v[i]) /\ u[N+1] = <<b>>  BY DEF Begins
<1>6. /\ \A a \in Addr : mem'[a] = IF a = arg_cur THEN b
                                   ELSE IF a = xcur THEN arg_cur ELSE mem[a]
      /\ arg_cur' = IF arg_cur = exec_argv - 1 THEN 0 ELSE arg_cur + 1
      /\ xcur' = IF xcur = exec_argv_term - 1 THEN 0 ELSE xcur + 1
  BY ArgStartCells
<1>7. s' = s /\ room' = room  BY DEF Start
<1>. HIDE DEF N, s
<1>8. /\ xcur \in SlotAddr /\ arg_cur \in ArgAddr /\ xcur # arg_cur
      /\ xcur \in Addr /\ arg_cur \in Addr /\ ArgAddr \subseteq Addr
      /\ \A a \in ArgAddr : a # xcur
  BY <1>1, <1>3, <1>4, Layout DEF TypeOK, SlotAddr, ArgAddr, Addr
<1>9. Stored(mem', s, u, N) /\ Need(u, N) = Need(v, N)
  <2>1. s + Need(v, N) <= exec_argv  BY <1>1, <1>4
  <2>2. \A a \in ArgAddr : a < s + Need(v, N) => mem'[a] = mem[a]
    <3>1. \A a \in ArgAddr : a < s + Need(v, N) => a # arg_cur
      BY <1>1, <1>4, Layout DEF ArgAddr
    <3>. QED BY <1>6, <1>8, <3>1
  <2>3. \A i \in 1 .. N : mem'[exec_args + i - 1] = mem[exec_args + i - 1]
    <3>1. \A i \in 1 .. N : i \in 1 .. Slots /\ exec_args + i - 1 # xcur
      BY <1>1, <1>3, Layout
    <3>2. \A i \in 1 .. N : exec_args + i - 1 \in Addr /\ exec_args + i - 1 # arg_cur
      BY <1>8, <3>1, SlotIn
    <3>. QED BY <1>6, <3>1, <3>2
  <2>4. N \in 0 .. Len(v)  BY <1>1 DEF N
  <2>5. \A i \in 1 .. N : u[i] = v[i]  BY <1>5
  <2>6. Stored(mem, s, v, N) /\ s \in ArgAddr  BY <1>1, <1>2
  <2>7. SameUpTo(mem', mem, s, u, v, N)  BY <2>2, <2>3, <2>5 DEF SameUpTo
  <2>. QED BY <1>1, <2>1, <2>4, <2>6, <2>7, StoredSame
<1>10. Need(u, N + 1) = Need(v, N) + 2
  <2>1. Need(u, N + 1) = Need(u, N) + Len(u[N+1]) + 1  BY <1>1, NeedStep
  <2>2. Len(<<b>>) = 1  BY OneFacts
  <2>. QED BY <1>1, <1>5, <1>9, <2>1, <2>2
<1>11. Held(mem', s, u, N + 1)
  <2>1. mem'[xcur] = arg_cur /\ mem'[arg_cur] = b  BY <1>6, <1>8
  <2>. DEFINE z == N + 1
  <2>2. z - 1 = N /\ exec_args + z - 1 = xcur  BY <1>1, <1>3, Layout
  <2>3. u[z] = <<b>> /\ Len(<<b>>) = 1 /\ <<b>>[1] = b  BY <1>5, OneFacts
  <2>. HIDE DEF z
  <2>4. mem'[exec_args + z - 1] = s + Need(u, z - 1)  BY <1>4, <1>9, <2>1, <2>2
  <2>5. ASSUME NEW j \in 1 .. Len(u[z]) PROVE mem'[s + Need(u, z - 1) + j - 1] = u[z][j]
    <3>1. j = 1  BY <2>3
    <3>2. s + Need(u, z - 1) + j - 1 = arg_cur  BY <1>1, <1>4, <1>9, <2>2, <3>1
    <3>. QED BY <2>1, <2>3, <3>1, <3>2
  <2>6. Held(mem', s, u, z)  BY <2>4, <2>5 DEF Held
  <2>. QED BY <2>6 DEF z
<1>12. Used' = N + 1
  <2>1. xcur' = 0 => N + 1 = Slots  BY <1>1, <1>3, <1>6, Layout
  <2>2. xcur' # 0 => xcur' = exec_args + N + 1  BY <1>3, <1>6
  <2>. QED BY <1>1, <2>1, <2>2, Layout DEF Used
<1>13. arg_cur' = After(Need(u, N + 1) - 1)'
  <2>1. arg_cur = exec_argv - 1 <=> Need(v, N) + 1 = room  BY <1>1, <1>4, Layout
  <2>2. Need(u, N + 1) - 1 = Need(v, N) + 1  BY <1>1, <1>10
  <2>3. arg_cur + 1 = s + (Need(v, N) + 1)  BY <1>1, <1>4
  <2>. QED BY <1>6, <1>7, <2>1, <2>2, <2>3 DEF After, s
<1>14. Need(u, N + 1) <= room + 1  BY <1>1, <1>4, <1>10
<1>15. Len(u) >= 1 /\ Len(u) - 1 = N  BY <1>1, <1>5
<1>. QED BY <1>5, <1>7, <1>9, <1>11, <1>12, <1>13, <1>14, <1>15 DEF OpenSoFar, s

(* or finds no slot or no cell left.                                       *)
LEMMA StartDrops ==
    ASSUME Inv, xcur = 0 \/ arg_cur = 0, UNCHANGED <<mem, arg_cur, xcur, room>>,
           room \in 1 .. ArgCells, NEW b,
           NEW v, NEW u, Sentence(v), Sentence(u), Begins(v, u, b), WholeSoFar(v)
    PROVE  Dropped(u)'
<1>. DEFINE N == Len(v)
            s == Start
<1>1. /\ s \in ArgAddr /\ s \in Nat /\ s + room = exec_argv /\ room \in Nat
      /\ N \in Nat /\ Need(v, N) \in Nat /\ TypeOK
      /\ Used \in 0 .. Slots /\ Slots \in Nat /\ s # 0
  <2>1. TypeOK /\ N \in Nat /\ Need(v, N) \in Nat  BY NeedNat DEF Sentence, Inv
  <2>2. s \in ArgAddr /\ s + room = exec_argv  BY <2>1, StartIn
  <2>3. Used \in 0 .. Slots  BY <2>1, UsedIs
  <2>4. s \in Nat /\ s # 0 /\ room \in Nat /\ Slots \in Nat  BY <2>2, Layout DEF ArgAddr
  <2>. QED BY <2>1, <2>2, <2>3, <2>4
<1>2. /\ Used = N /\ Need(v, N) <= room /\ Stored(mem, s, v, N)
      /\ arg_cur = After(Need(v, N))
  BY DEF WholeSoFar
<1>3. Len(u) = N + 1 /\ (\A i \in 1 .. N : u[i] = v[i]) /\ u[N+1] = <<b>>  BY DEF Begins
<1>4. mem' = mem /\ s' = s /\ room' = room /\ Used' = Used /\ arg_cur' = arg_cur
  BY DEF Start, Used
<1>5. xcur = 0 => N = Slots  BY <1>1, <1>2, UsedIs
<1>. HIDE DEF N, s
<1>6. arg_cur = 0 => Need(v, N) = room  BY <1>1, <1>2, Layout DEF After, s, ArgAddr
<1>7. Stored(mem, s, u, N) /\ Need(u, N) = Need(v, N)
  <2>1. s + Need(v, N) <= exec_argv  BY <1>1, <1>2
  <2>2. N \in 0 .. Len(v)  BY <1>1 DEF N
  <2>3. SameUpTo(mem, mem, s, u, v, N)  BY <1>3 DEF SameUpTo
  <2>. QED BY <1>1, <1>2, <2>1, <2>2, <2>3, StoredSame
<1>8. Need(u, N + 1) = Need(v, N) + 2
  <2>1. Need(u, N + 1) = Need(u, N) + Len(u[N+1]) + 1  BY <1>1, NeedStep
  <2>2. Len(<<b>>) = 1  BY OneFacts
  <2>. QED BY <1>1, <1>3, <1>7, <2>1, <2>2
<1>9. N = Slots \/ Need(u, N + 1) > room  BY <1>1, <1>5, <1>6, <1>8
<1>10. arg_cur # 0 => arg_cur >= s + Need(u, N)
  BY <1>1, <1>2, <1>7 DEF After, s
<1>11. N \in 0 .. Len(u) - 1 /\ N <= Slots /\ Need(u, N) <= room  BY <1>1, <1>2, <1>3, <1>7
<1>. QED BY <1>2, <1>4, <1>7, <1>9, <1>10, <1>11 DEF Dropped, s

(* The open argument, on a memory n that has the cells before the cursor   *)
(* and the slots.                                                          *)
LEMMA OpenArg ==
    ASSUME TypeOK, room \in 1 .. ArgCells, NEW v, Sentence(v), OpenSoFar(v), NEW n,
           \A a \in ArgAddr : a + 1 < Start + Need(v, Len(v)) => n[a] = mem[a],
           \A i \in 1 .. Len(v) : n[exec_args + i - 1] = mem[exec_args + i - 1]
    PROVE  LET N == Len(v)
               p == Need(v, N - 1)
               l == Len(v[N]) IN
           /\ N \in 1 .. Slots /\ N \in 1 .. Len(v) /\ Used = N /\ N - 1 \in 0 .. Len(v)
           /\ p \in Nat /\ l \in Nat /\ l >= 1 /\ v[N] \in Seq(Octets)
           /\ Need(v, N) = p + l + 1 /\ p + l <= room /\ p <= room
           /\ Stored(n, Start, v, N - 1) /\ Held(n, Start, v, N)
           /\ arg_cur = IF p + l = room THEN 0 ELSE Start + p + l
<1>. DEFINE N == Len(v)
            p == Need(v, N - 1)
            l == Len(v[N])
            s == Start
<1>1. /\ s \in ArgAddr /\ s \in Nat /\ s + room = exec_argv /\ room \in Nat
      /\ N \in Nat /\ Used \in 0 .. Slots /\ Slots \in Nat /\ exec_argv \in Nat
  BY StartIn, UsedIs, Layout DEF Sentence
<1>2. /\ Used = N /\ N >= 1 /\ Need(v, N) <= room + 1
      /\ Stored(mem, s, v, N - 1) /\ Held(mem, s, v, N)
      /\ arg_cur = After(Need(v, N) - 1)
  BY DEF OpenSoFar
<1>3. N \in 1 .. Len(v) /\ N \in 1 .. Slots  BY <1>1, <1>2
<1>4. Need(v, N) = p + l + 1 /\ p \in Nat /\ l \in Nat /\ l >= 1 /\ v[N] \in Seq(Octets)
  BY <1>3, NeedGrows DEF Sentence
<1>. DEFINE z == N - 1
<1>5. z \in 0 .. Len(v) /\ z \in Nat /\ \A i \in 1 .. z : i \in 1 .. Len(v)  BY <1>1, <1>3
<1>. HIDE DEF s, p, l
<1>6. Need(v, z) = p  BY DEF p
<1>. HIDE DEF z
<1>7. Stored(n, s, v, z)
  <2>1. s + Need(v, z) <= exec_argv  BY <1>1, <1>2, <1>4, <1>6
  <2>2. \A a \in ArgAddr : a < s + Need(v, z) => n[a] = mem[a]
    <3>1. \A a \in ArgAddr : a < s + p => a + 1 < s + (p + l + 1)
      BY <1>1, <1>4, Layout DEF ArgAddr
    <3>. QED BY <1>4, <1>6, <3>1 DEF s
  <2>3. \A i \in 1 .. z : v[i] = v[i] /\ n[exec_args + i - 1] = mem[exec_args + i - 1]
    BY <1>5
  <2>4. Stored(mem, s, v, z)  BY <1>2 DEF z
  <2>5. SameUpTo(n, mem, s, v, v, z)  BY <2>2, <2>3 DEF SameUpTo
  <2>. QED BY <1>1, <1>5, <2>1, <2>4, <2>5, StoredSame
<1>8. Held(n, s, v, N)
  <2>1. s + Need(v, N) <= exec_argv + 1  BY <1>1, <1>2, <1>4
  <2>2. \A a \in ArgAddr : a + 1 < s + Need(v, N) => n[a] = mem[a]  BY DEF s
  <2>3. n[exec_args + N - 1] = mem[exec_args + N - 1]  BY <1>3
  <2>4. \A i \in 1 .. N : v[i] = v[i]  OBVIOUS
  <2>. QED BY <1>1, <1>2, <1>3, <2>1, <2>2, <2>3, <2>4, HeldKept
<1>9. arg_cur = IF p + l = room THEN 0 ELSE s + p + l
  <2>1. Need(v, N) - 1 = p + l  BY <1>4
  <2>2. s + (p + l) = s + p + l  BY <1>1, <1>4
  <2>. QED BY <1>2, <2>1, <2>2 DEF After, s
<1>10. p + l <= room /\ p <= room  BY <1>1, <1>2, <1>4
<1>. QED BY <1>2, <1>3, <1>4, <1>5, <1>7, <1>8, <1>9, <1>10 DEF s, z, p, l

(* One cell is written at the cursor.                                      *)
LEMMA CellKeepsOpen ==
    ASSUME Inv, room \in 1 .. ArgCells, NEW v, Sentence(v), OpenSoFar(v), arg_cur # 0,
           NEW n, NEW w, \A a \in Addr : n[a] = IF a = arg_cur THEN w ELSE mem[a]
    PROVE  LET N == Len(v)
               p == Need(v, N - 1)
               l == Len(v[N]) IN
           /\ Stored(n, Start, v, N - 1) /\ Held(n, Start, v, N)
           /\ arg_cur = Start + p + l /\ n[arg_cur] = w /\ p + l < room
           /\ arg_cur = exec_argv - 1 <=> p + l + 1 = room
<1>. DEFINE N == Len(v)
            p == Need(v, N - 1)
            l == Len(v[N])
            s == Start
<1>1. /\ s \in Nat /\ s + room = exec_argv /\ room \in Nat /\ TypeOK /\ exec_argv \in Nat
  BY StartIn, Layout DEF Inv
<1>2. /\ N \in 1 .. Slots /\ p \in Nat /\ l \in Nat /\ Need(v, N) = p + l + 1 /\ p + l <= room
      /\ arg_cur = IF p + l = room THEN 0 ELSE s + p + l
  BY <1>1, OpenArg
<1>3. arg_cur \in ArgAddr /\ arg_cur \in Addr /\ ArgAddr \subseteq Addr
  BY <1>1, Layout DEF TypeOK, ArgAddr, Addr
<1>. HIDE DEF s, p, l
<1>4. arg_cur = s + p + l /\ p + l < room /\ n[arg_cur] = w  BY <1>1, <1>2, <1>3
<1>5. \A a \in ArgAddr : a + 1 < s + Need(v, N) => n[a] = mem[a]
  <2>1. \A a \in ArgAddr : a + 1 < s + (p + l + 1) => a # arg_cur
    BY <1>1, <1>2, <1>4, Layout DEF ArgAddr
  <2>. QED BY <1>2, <1>3, <2>1
<1>6. \A i \in 1 .. N : n[exec_args + i - 1] = mem[exec_args + i - 1]
  <2>1. \A i \in 1 .. N : i \in 1 .. Slots
      <3>1. N \in 1 .. Slots /\ Slots \in Nat  BY <1>2, Layout
      <3>. HIDE DEF N
      <3>. QED BY <3>1
  <2>. QED BY <1>3, <2>1, SlotIn
<1>7. Stored(n, s, v, N - 1) /\ Held(n, s, v, N)
  BY <1>1, <1>5, <1>6, OpenArg DEF s
<1>8. arg_cur = exec_argv - 1 <=> p + l + 1 = room  BY <1>1, <1>2, <1>4
<1>. QED BY <1>4, <1>7, <1>8 DEF s, p, l

(* The same, with the write and what it keeps in one formula each.         *)
CellWritten(n, w) == \A a \in Addr : n[a] = IF a = arg_cur THEN w ELSE mem[a]

OpenCell(n, v, w) ==
    LET N == Len(v)
        p == Need(v, N - 1)
        l == Len(v[N]) IN
    /\ Stored(n, Start, v, N - 1) /\ Held(n, Start, v, N)
    /\ arg_cur = Start + p + l /\ n[arg_cur] = w /\ p + l < room
    /\ arg_cur = exec_argv - 1 <=> p + l + 1 = room

LEMMA OpenCellKept ==
    ASSUME Inv, room \in 1 .. ArgCells, NEW v, Sentence(v), OpenSoFar(v), arg_cur # 0,
           NEW n, NEW w, CellWritten(n, w)
    PROVE  OpenCell(n, v, w)
<1>1. \A a \in Addr : n[a] = IF a = arg_cur THEN w ELSE mem[a]  BY DEF CellWritten
<1>. QED BY <1>1, CellKeepsOpen DEF OpenCell

(* rp_arg_write: a byte more of the open argument,                         *)
LEMMA ByteKeepsOpen ==
    ASSUME Inv, NEW b \in Octets, arg_cur # 0,
           mem' = Put(mem, arg_cur, b), arg_cur' = Chase(mem, arg_cur),
           UNCHANGED <<xcur, room>>, room \in 1 .. ArgCells,
           NEW v, NEW u, Sentence(v), Sentence(u), Extends(v, u, b), OpenSoFar(v)
    PROVE  OpenSoFar(u)'
<1>. DEFINE N == Len(v)
            p == Need(v, N - 1)
            l == Len(v[N])
            s == Start
            z == N - 1
<1>1. /\ s \in ArgAddr /\ s \in Nat /\ s + room = exec_argv /\ room \in Nat /\ TypeOK
      /\ exec_argv \in Nat
  BY StartIn, Layout DEF Inv
<1>2. b \in Word  BY Layout DEF Octets, Word
<1>3. /\ \A a \in Addr : mem'[a] = IF a = arg_cur THEN b ELSE mem[a]
      /\ arg_cur' = IF arg_cur = exec_argv - 1 THEN 0 ELSE arg_cur + 1
  BY <1>2, ArgWriteCell
<1>4. /\ Stored(mem', s, v, N - 1) /\ Held(mem', s, v, N)
      /\ arg_cur = s + p + l /\ mem'[arg_cur] = b /\ p + l < room
      /\ arg_cur = exec_argv - 1 <=> p + l + 1 = room
  <2>. DEFINE c == mem'
  <2>1. CellWritten(c, b)  BY <1>3 DEF CellWritten
  <2>. HIDE DEF c
  <2>2. OpenCell(c, v, b)  BY <2>1, OpenCellKept
  <2>. QED BY <2>2 DEF OpenCell, c
<1>5. /\ N \in 1 .. Slots /\ N \in 1 .. Len(v) /\ Used = N /\ z \in 0 .. Len(v)
      /\ p \in Nat /\ l \in Nat /\ v[N] \in Seq(Octets) /\ Need(v, N) = p + l + 1
  BY <1>1, OpenArg
<1>6. Len(u) = N /\ (\A i \in 1 .. z : u[i] = v[i]) /\ u[N] = Append(v[N], b)
  BY DEF Extends
<1>. DEFINE x == u[N]
<1>7. Len(x) = l + 1 /\ (\A j \in 1 .. l : x[j] = v[N][j]) /\ x[l + 1] = b
  BY <1>5, <1>6, AppendByte
<1>8. z \in Nat /\ z + 1 = N /\ z <= Len(v)  BY <1>5
<1>9. s' = s /\ Used' = Used  BY DEF Start, Used
<1>. HIDE DEF s, p, l, z, x
<1>10. Stored(mem', s, u, z) /\ Need(u, z) = p
  <2>1. s + Need(v, z) <= exec_argv
    <3>1. Need(v, z) = p  BY DEF p, z
    <3>. QED BY <1>1, <1>4, <1>5, <3>1
  <2>4. Stored(mem', s, v, z)  BY <1>4 DEF z
  <2>5. SameUpTo(mem', mem', s, u, v, z)  BY <1>6 DEF SameUpTo
  <2>6. Stored(mem', s, u, z) /\ Need(u, z) = Need(v, z)
    BY <1>1, <1>5, <2>1, <2>4, <2>5, StoredSame
  <2>. QED BY <2>6 DEF p, z
<1>11. Need(u, N) = p + l + 2
  <2>1. Need(u, z + 1) = Need(u, z) + Len(u[z+1]) + 1  BY <1>8, NeedStep
  <2>2. Need(u, N) = p + Len(x) + 1  BY <1>8, <1>10, <2>1 DEF x
  <2>. QED BY <1>5, <1>7, <2>2
<1>12. Held(mem', s, u, N)
  <2>1. /\ mem'[exec_args + N - 1] = s + p
        /\ \A j \in 1 .. l : mem'[s + p + j - 1] = v[N][j]
    BY <1>4 DEF Held, p, l
  <2>2. ASSUME NEW j \in 1 .. l + 1 PROVE mem'[s + p + j - 1] = x[j]
    <3>1. CASE j \in 1 .. l  BY <1>7, <2>1, <3>1
    <3>2. CASE j = l + 1
      <4>1. s + p + j - 1 = arg_cur  BY <1>1, <1>4, <1>5, <3>2
      <4>. QED BY <1>4, <1>7, <3>2, <4>1
    <3>. QED BY <1>5, <3>1, <3>2
  <2>3. Need(u, N - 1) = p  BY <1>10 DEF z
  <2>4. \A j \in 1 .. Len(x) : mem'[s + p + j - 1] = x[j]  BY <1>7, <2>2
  <2>. QED BY <2>1, <2>3, <2>4 DEF Held, x
<1>13. arg_cur' = After(Need(u, N) - 1)'
  <2>1. Need(u, N) - 1 = p + l + 1  BY <1>5, <1>11
  <2>2. arg_cur + 1 = s + (p + l + 1)  BY <1>1, <1>4, <1>5
  <2>. QED BY <1>3, <1>4, <1>9, <2>1, <2>2 DEF After, s
<1>14. Need(u, N) <= room + 1 /\ N >= 1  BY <1>1, <1>4, <1>5, <1>11
<1>. QED BY <1>5, <1>6, <1>9, <1>10, <1>12, <1>13, <1>14 DEF OpenSoFar, s, z

(* rp_arg_end: the NUL of the open argument,                               *)
LEMMA NulCloses ==
    ASSUME Inv, arg_cur # 0, mem' = Put(mem, arg_cur, 0), arg_cur' = Chase(mem, arg_cur),
           UNCHANGED <<xcur, room>>, room \in 1 .. ArgCells,
           NEW v, Sentence(v), OpenSoFar(v)
    PROVE  WholeSoFar(v)'
<1>. DEFINE N == Len(v)
            p == Need(v, N - 1)
            l == Len(v[N])
            s == Start
<1>1. /\ s \in ArgAddr /\ s \in Nat /\ s + room = exec_argv /\ room \in Nat /\ TypeOK
      /\ exec_argv \in Nat /\ 0 \in Word
  BY StartIn, Layout DEF Inv, Word
<1>3. /\ \A a \in Addr : mem'[a] = IF a = arg_cur THEN 0 ELSE mem[a]
      /\ arg_cur' = IF arg_cur = exec_argv - 1 THEN 0 ELSE arg_cur + 1
  BY <1>1, ArgWriteCell
<1>4. /\ Stored(mem', s, v, N - 1) /\ Held(mem', s, v, N)
      /\ arg_cur = s + p + l /\ mem'[arg_cur] = 0 /\ p + l < room
      /\ arg_cur = exec_argv - 1 <=> p + l + 1 = room
  <2>. DEFINE c == mem'
  <2>1. CellWritten(c, 0)  BY <1>3 DEF CellWritten
  <2>. HIDE DEF c
  <2>2. OpenCell(c, v, 0)  BY <2>1, OpenCellKept
  <2>. QED BY <2>2 DEF OpenCell, c
<1>5. /\ N \in 1 .. Slots /\ N \in 1 .. Len(v) /\ Used = N
      /\ p \in Nat /\ l \in Nat /\ Need(v, N) = p + l + 1
  BY <1>1, OpenArg
<1>6. s' = s /\ Used' = Used  BY DEF Start, Used
<1>7. Ended(mem', s, v, N)  BY <1>4 DEF Ended
<1>. HIDE DEF s, p, l
<1>8. Stored(mem', s, v, N)
  <2>1. \A i \in 1 .. N : i \in 1 .. N - 1 \/ i = N  BY <1>5
  <2>. QED BY <1>4, <1>7, <2>1 DEF Stored
<1>9. arg_cur' = After(Need(v, N))'
  <2>1. arg_cur + 1 = s + (p + l + 1)  BY <1>1, <1>4, <1>5
  <2>. QED BY <1>3, <1>4, <1>5, <1>6, <2>1 DEF After, s
<1>10. Need(v, N) <= room  BY <1>1, <1>4, <1>5
<1>. QED BY <1>5, <1>6, <1>8, <1>9, <1>10 DEF WholeSoFar, s

(* rp_arg_drop: the open argument does not fit, and its slot is cleared.   *)
LEMMA OverflowDrops ==
    ASSUME Inv, pc = "rp_arg", arg_cur = 0, mem' = Store(mem, x_slot, 0),
           UNCHANGED <<arg_cur, xcur, room>>, room \in 1 .. ArgCells,
           NEW b \in Octets, NEW v, NEW u, Sentence(v), Sentence(u), OpenSoFar(v),
           u = v \/ Extends(v, u, b)
    PROVE  Dropped(u)'
<1>. DEFINE N == Len(v)
            p == Need(v, N - 1)
            l == Len(v[N])
            s == Start
            z == N - 1
<1>1. /\ s \in ArgAddr /\ s \in Nat /\ s + room = exec_argv /\ room \in Nat /\ TypeOK
      /\ s # 0 /\ Slots \in Nat
  BY StartIn, Layout DEF Inv
<1>2. /\ N \in 1 .. Slots /\ N \in 1 .. Len(v) /\ Used = N /\ z \in 0 .. Len(v)
      /\ p \in Nat /\ l \in Nat /\ v[N] \in Seq(Octets)
      /\ Stored(mem, s, v, z) /\ p + l <= room /\ p <= room
      /\ arg_cur = IF p + l = room THEN 0 ELSE s + p + l
  BY <1>1, OpenArg
<1>3. /\ Len(u) = N /\ (\A i \in 1 .. z : u[i] = v[i])
      /\ Len(u[N]) \in Nat /\ Len(u[N]) >= l
  <2>1. CASE u = v
    <3>1. \A i \in 1 .. z : v[i] = v[i]  OBVIOUS
    <3>2. Len(v[N]) >= l  BY <1>2
    <3>. QED BY <1>2, <2>1, <3>1, <3>2
  <2>2. CASE Extends(v, u, b)
    <3>1. Len(u) = N /\ (\A i \in 1 .. z : u[i] = v[i]) /\ u[N] = Append(v[N], b)
      BY <2>2 DEF Extends
    <3>2. Len(Append(v[N], b)) = l + 1  BY <1>2, AppendByte
    <3>. QED BY <1>2, <3>1, <3>2
  <2>. QED BY <2>1, <2>2
<1>4. z \in Nat /\ z + 1 = N /\ z <= Slots  BY <1>1, <1>2
<1>5. s' = s /\ Used' = Used /\ room' = room  BY DEF Start, Used
<1>. HIDE DEF s, p, l, z
<1>6. p + l = room
  <2>1. s + p + l # 0  BY <1>1, <1>2
  <2>. QED BY <1>2, <2>1
<1>7. x_slot = exec_args + z /\ x_slot \in Addr /\ x_slot \notin ArgAddr
  <2>1. /\ x_slot = (IF xcur = 0 THEN exec_argv_term ELSE xcur) - 1 /\ x_slot \in SlotAddr
    BY DEF Inv, ReaderInv, SlotsInv, OpenSlot
  <2>2. xcur = 0 => N = Slots  BY <1>1, <1>2, UsedIs
  <2>3. xcur # 0 => xcur = exec_args + N  BY <1>1, <1>2, UsedIs
  <2>4. x_slot = exec_args + z  BY <1>1, <1>2, <1>4, <2>1, <2>2, <2>3, Layout
  <2>. QED BY <2>1, <2>4, Layout DEF SlotAddr, Addr, ArgAddr
<1>8. \A a \in Addr : mem'[a] = IF a = x_slot THEN 0 ELSE mem[a]
  BY <1>7 DEF Inv, TypeOK, Store
<1>9. Stored(mem', s, u, z) /\ Need(u, z) = p
  <2>1. s + Need(v, z) <= exec_argv
    <3>1. Need(v, z) = p  BY DEF p, z
    <3>. QED BY <1>1, <1>2, <3>1
  <2>2. \A a \in ArgAddr : a < s + Need(v, z) => mem'[a] = mem[a]
    <3>1. \A a \in ArgAddr : a \in Addr /\ a # x_slot  BY <1>7, Layout DEF ArgAddr, Addr
    <3>. QED BY <1>8, <3>1
  <2>3. \A i \in 1 .. z : mem'[exec_args + i - 1] = mem[exec_args + i - 1]
    <3>1. \A i \in 1 .. z : i \in 1 .. Slots /\ exec_args + i - 1 # x_slot
      BY <1>1, <1>4, <1>7, Layout
    <3>2. \A i \in 1 .. z : exec_args + i - 1 \in Addr  BY <3>1, SlotIn
    <3>. QED BY <1>8, <3>1, <3>2
  <2>4. \A i \in 1 .. z : u[i] = v[i]  BY <1>3
  <2>5. Stored(mem, s, v, z)  BY <1>2
  <2>6. s \in ArgAddr /\ z \in 0 .. Len(v)  BY <1>1, <1>2
  <2>. DEFINE c == mem'
  <2>7. \A a \in ArgAddr : a < s + Need(v, z) => c[a] = mem[a]  BY <2>2
  <2>8. \A i \in 1 .. z : c[exec_args + i - 1] = mem[exec_args + i - 1]  BY <2>3
  <2>. HIDE DEF c
  <2>9. Stored(c, s, u, z) /\ Need(u, z) = Need(v, z)
    <3>1. SameUpTo(c, mem, s, u, v, z)  BY <2>4, <2>7, <2>8 DEF SameUpTo
    <3>. HIDE DEF z, s
    <3>. QED BY <2>1, <2>5, <2>6, <3>1, StoredSame
  <2>. QED BY <2>9 DEF p, z, c
<1>10. Need(u, z + 1) > room
  <2>1. Need(u, z + 1) = Need(u, z) + Len(u[z+1]) + 1  BY <1>4, NeedStep
  <2>2. Need(u, z + 1) = p + Len(u[N]) + 1  BY <1>4, <1>9, <2>1
  <2>. QED BY <1>1, <1>2, <1>3, <1>6, <2>2
<1>11. mem'[exec_args + z] = 0  BY <1>7, <1>8
<1>12. z \in 0 .. Len(u) - 1 /\ Need(u, z) <= room /\ Used' = z + 1 /\ arg_cur' = 0
  BY <1>2, <1>3, <1>4, <1>5, <1>9
<1>. QED BY <1>4, <1>5, <1>9, <1>10, <1>11, <1>12 DEF Dropped, s

(* rp_drain: what follows the dropped argument changes nothing.            *)
LEMMA DrainDrops ==
    ASSUME TypeOK, room \in 1 .. ArgCells, UNCHANGED <<mem, arg_cur, xcur, room>>,
           NEW b \in Octets, NEW v, NEW u, Sentence(v), Sentence(u), Dropped(v),
           u = v \/ Begins(v, u, b) \/ Extends(v, u, b)
    PROVE  Dropped(u)'
<1>. DEFINE N == Len(v)
            s == Start
<1>1. s \in ArgAddr /\ s \in Nat /\ s + room = exec_argv /\ room \in Nat /\ N \in Nat
  BY StartIn DEF Sentence
<1>2. PICK k \in 0 .. N - 1 :
          /\ k <= Slots /\ Need(v, k) <= room /\ Stored(mem, s, v, k)
          /\ k = Slots \/ Need(v, k + 1) > room
          /\ Used = k \/ (Used = k + 1 /\ mem[exec_args + k] = 0)
          /\ arg_cur # 0 => arg_cur >= s + Need(v, k)
  BY DEF Dropped
<1>. DEFINE z == k + 1
<1>3. k \in Nat /\ z \in 1 .. N /\ k \in 0 .. N /\ k < N  BY <1>1, <1>2
<1>4. /\ Len(u) >= N /\ \A i \in 1 .. k : u[i] = v[i]
      /\ Len(u[z]) \in Nat /\ Len(v[z]) \in Nat /\ Len(u[z]) >= Len(v[z])
  <2>0. Len(v[z]) \in Nat /\ v[z] \in Seq(Octets)  BY <1>3 DEF Sentence
  <2>1. CASE u = v
    <3>1. /\ Len(v) >= N /\ \A i \in 1 .. k : v[i] = v[i]
          /\ Len(v[z]) \in Nat /\ Len(v[z]) >= Len(v[z])
      BY <1>1, <2>0
    <3>. QED BY <2>0, <2>1, <3>1
  <2>2. CASE Begins(v, u, b)
    <3>1. Len(u) = N + 1 /\ \A i \in 1 .. N : u[i] = v[i]  BY <2>2 DEF Begins
    <3>2. \A i \in 1 .. k : i \in 1 .. N  BY <1>1, <1>3
    <3>3. u[z] = v[z]  BY <1>3, <3>1
    <3>4. Len(v[z]) >= Len(v[z]) /\ N + 1 >= N  BY <1>1, <2>0
    <3>. QED BY <2>0, <3>1, <3>2, <3>3, <3>4
  <2>3. CASE Extends(v, u, b)
    <3>1. /\ Len(u) = N /\ \A i \in 1 .. N - 1 : u[i] = v[i]
          /\ u[N] = Append(v[N], b)
      BY <2>3 DEF Extends
    <3>2. \A i \in 1 .. k : i \in 1 .. N - 1  BY <1>1, <1>3
    <3>3. CASE z = N
      <4>1. Len(u[z]) = Len(v[z]) + 1  BY <2>0, <3>1, <3>3, AppendByte
      <4>. QED BY <1>1, <2>0, <3>1, <3>2, <4>1
    <3>4. CASE z # N
      <4>1. z \in 1 .. N - 1  BY <1>1, <1>3, <3>4
      <4>2. u[z] = v[z]  BY <3>1, <4>1
      <4>3. Len(v[z]) >= Len(v[z]) /\ N >= N  BY <1>1, <2>0
      <4>. QED BY <2>0, <3>1, <3>2, <4>2, <4>3
    <3>. QED BY <3>3, <3>4
  <2>. QED BY <2>1, <2>2, <2>3
<1>5. s' = s /\ Used' = Used /\ room' = room /\ arg_cur' = arg_cur /\ mem' = mem
  BY DEF Start, Used
<1>6. Need(v, z) = Need(v, k) + Len(v[z]) + 1 /\ Need(u, z) = Need(u, k) + Len(u[z]) + 1
  BY <1>3, NeedStep
<1>7. Need(v, k) \in Nat  BY <1>3, NeedNat
<1>. HIDE DEF s, z
<1>8. Stored(mem, s, u, k) /\ Need(u, k) = Need(v, k)
  <2>1. s + Need(v, k) <= exec_argv  BY <1>1, <1>2, <1>7
  <2>2. Stored(mem, s, v, k) /\ \A i \in 1 .. k : u[i] = v[i]  BY <1>2, <1>4
  <2>3. SameUpTo(mem, mem, s, u, v, k)  BY <2>2 DEF SameUpTo
  <2>. QED BY <1>1, <1>3, <2>1, <2>2, <2>3, StoredSame
<1>9. k = Slots \/ Need(u, z) > room
  <2>1. k = Slots \/ Need(v, z) > room  BY <1>2 DEF z
  <2>. QED BY <1>1, <1>4, <1>6, <1>7, <1>8, <2>1
<1>10. k \in 0 .. Len(u) - 1
  <2>1. Len(u) \in Nat  BY DEF Sentence
  <2>. QED BY <1>1, <1>3, <1>4, <2>1
<1>11. Need(u, k) <= room /\ (arg_cur # 0 => arg_cur >= s + Need(u, k))  BY <1>2, <1>8
<1>. QED BY <1>2, <1>5, <1>8, <1>9, <1>10, <1>11 DEF Dropped, s, z

(* What rp_finish does to the arguments, from mem to n.                    *)
Finishes(n) ==
    /\ \A a \in ArgAddr : a # arg_cur => n[a] = mem[a]
    /\ arg_cur # 0 => n[arg_cur] = 0
    /\ \A a \in SlotAddr : a # xcur => n[a] = mem[a]
    /\ xcur # 0 => n[xcur] = 0
    /\ n[exec_argv_term] = 0

(* The word behind the slots in use is 0.                                  *)
LEMMA FinishEnds ==
    ASSUME Inv, NEW n, Finishes(n)
    PROVE  n[exec_args + Used] = 0
<1>1. TypeOK  BY DEF Inv
<1>2. CASE xcur = 0
  <2>1. exec_args + Used = exec_argv_term  BY <1>1, <1>2, UsedIs, Layout
  <2>. QED BY <2>1 DEF Finishes
<1>3. CASE xcur # 0
  <2>1. exec_args + Used = xcur  BY <1>1, <1>3, UsedIs
  <2>. QED BY <1>3, <2>1 DEF Finishes
<1>. QED BY <1>2, <1>3

(* The slots in use are not the one that rp_finish clears.                 *)
LEMMA FinishSlots ==
    ASSUME Inv, NEW n, Finishes(n), NEW k \in 0 .. Used
    PROVE  \A i \in 1 .. k : n[exec_args + i - 1] = mem[exec_args + i - 1]
<1>1. TypeOK /\ Slots \in Nat  BY Layout DEF Inv
<1>2. Used \in 0 .. Slots /\ (xcur # 0 => xcur = exec_args + Used)  BY <1>1, UsedIs
<1>. SUFFICES ASSUME NEW i \in 1 .. k PROVE n[exec_args + i - 1] = mem[exec_args + i - 1]
  OBVIOUS
<1>3. i \in 1 .. Slots /\ i <= Used  BY <1>1, <1>2
<1>4. exec_args + i - 1 # xcur
  <2>1. exec_args + i - 1 < exec_args + Used /\ exec_args + i - 1 # 0
    BY <1>2, <1>3, Layout
  <2>. QED BY <1>2, <2>1, Layout
<1>. QED BY <1>3, <1>4, SlotIn DEF Finishes

(* Ended arguments become a vector,                                        *)
LEMMA WholeFinishes ==
    ASSUME Inv, room \in 1 .. ArgCells, NEW n, Finishes(n),
           NEW v, Sentence(v), WholeSoFar(v)
    PROVE  VectorFits(n, v)
<1>. DEFINE N == Len(v)
            s == Start
<1>1. /\ s \in ArgAddr /\ s \in Nat /\ s + room = exec_argv /\ room \in Nat
      /\ N \in Nat /\ Need(v, N) \in Nat /\ TypeOK /\ Used \in 0 .. Slots /\ Slots \in Nat
  BY StartIn, UsedIs, NeedNat, Layout DEF Sentence, Inv
<1>2. /\ Used = N /\ Need(v, N) <= room /\ Stored(mem, s, v, N)
      /\ arg_cur = After(Need(v, N))
  BY DEF WholeSoFar
<1>. DEFINE c == arg_cur
<1>3. c = 0 \/ c = s + Need(v, N)  BY <1>2 DEF After
<1>. HIDE DEF s, N, c
<1>4. \A a \in ArgAddr : a < s + Need(v, N) => n[a] = mem[a]
  <2>1. \A a \in ArgAddr : a < s + Need(v, N) => a # c
    BY <1>1, <1>3, Layout DEF ArgAddr
  <2>. QED BY <2>1 DEF Finishes, c
<1>5. N \in 0 .. Used /\ N \in 0 .. Len(v) /\ N <= Slots  BY <1>1, <1>2 DEF N
<1>6. \A i \in 1 .. N : n[exec_args + i - 1] = mem[exec_args + i - 1]
  BY <1>5, FinishSlots
<1>7. Stored(n, s, v, N)
  <2>1. s + Need(v, N) <= exec_argv  BY <1>1, <1>2
  <2>2. SameUpTo(n, mem, s, v, v, N)  BY <1>4, <1>6 DEF SameUpTo
  <2>3. s \in ArgAddr /\ Stored(mem, s, v, N)  BY <1>1, <1>2
  <2>4. Sentence(v)  BY <1>1
  <2>. QED BY <1>5, <2>1, <2>2, <2>3, <2>4, StoredSame
<1>8. n[exec_args + N] = 0  BY <1>2, FinishEnds
<1>. QED BY <1>2, <1>5, <1>7, <1>8 DEF VectorFits, N, s

(* so do they with an open one, which may be left without its NUL,         *)
LEMMA OpenFinishes ==
    ASSUME Inv, room \in 1 .. ArgCells, NEW n, Finishes(n),
           NEW v, Sentence(v), OpenSoFar(v)
    PROVE  VectorFits(n, v) \/ VectorBrims(n, v)
<1>. DEFINE N == Len(v)
            p == Need(v, N - 1)
            l == Len(v[N])
            s == Start
            c == arg_cur
<1>1. /\ s \in ArgAddr /\ s \in Nat /\ s + room = exec_argv /\ room \in Nat /\ TypeOK
      /\ exec_argv \in Nat /\ Slots \in Nat /\ s # 0
  BY StartIn, Layout DEF Inv
<1>2. /\ N \in 1 .. Slots /\ N \in 1 .. Len(v) /\ Used = N
      /\ p \in Nat /\ l \in Nat /\ Need(v, N) = p + l + 1 /\ p + l <= room
      /\ c = IF p + l = room THEN 0 ELSE s + p + l
  BY <1>1, OpenArg
<1>. HIDE DEF s, p, l, c
<1>3. \A a \in ArgAddr : a + 1 < s + Need(v, N) => n[a] = mem[a]
  <2>1. \A a \in ArgAddr : a + 1 < s + (p + l + 1) => a # c
    BY <1>1, <1>2, Layout DEF ArgAddr
  <2>. QED BY <1>2, <2>1 DEF Finishes, c
<1>4. \A i \in 1 .. N : n[exec_args + i - 1] = mem[exec_args + i - 1]
  <2>1. N \in 0 .. Used  BY <1>1, <1>2
  <2>. QED BY <2>1, FinishSlots
<1>5. Stored(n, s, v, N - 1) /\ Held(n, s, v, N)
  BY <1>1, <1>3, <1>4, OpenArg DEF s
<1>6. n[exec_args + N] = 0  BY <1>2, FinishEnds
<1>7. CASE p + l = room
  <2>1. Need(v, N) = room + 1  BY <1>2, <1>7
  <2>. QED BY <1>2, <1>5, <1>6, <2>1 DEF VectorBrims, s
<1>8. CASE p + l # room
  <2>1. c = s + p + l /\ c # 0  BY <1>1, <1>2, <1>8
  <2>2. n[s + p + l] = 0  BY <2>1 DEF Finishes, c
  <2>3. Ended(n, s, v, N)  BY <2>2 DEF Ended, p, l
  <2>4. Stored(n, s, v, N)
    <3>1. \A i \in 1 .. N : i \in 1 .. N - 1 \/ i = N  BY <1>2
    <3>. QED BY <1>5, <2>3, <3>1 DEF Stored
  <2>5. Need(v, N) <= room  BY <1>1, <1>2, <1>8
  <2>6. N \in 0 .. Len(v) /\ N <= Slots  BY <1>1, <1>2
  <2>. QED BY <1>6, <2>4, <2>5, <2>6 DEF VectorFits, s
<1>. QED BY <1>7, <1>8

(* and so do the arguments before a dropped one.                           *)
LEMMA DroppedFinishes ==
    ASSUME Inv, room \in 1 .. ArgCells, NEW n, Finishes(n),
           NEW v, Sentence(v), Dropped(v)
    PROVE  VectorFits(n, v)
<1>. DEFINE N == Len(v)
            s == Start
            c == arg_cur
<1>1. /\ s \in ArgAddr /\ s \in Nat /\ s + room = exec_argv /\ room \in Nat /\ N \in Nat
      /\ TypeOK /\ Used \in 0 .. Slots /\ Slots \in Nat
  BY StartIn, UsedIs, Layout DEF Sentence, Inv
<1>2. PICK k \in 0 .. N - 1 :
          /\ k <= Slots /\ Need(v, k) <= room /\ Stored(mem, s, v, k)
          /\ k = Slots \/ Need(v, k + 1) > room
          /\ Used = k \/ (Used = k + 1 /\ mem[exec_args + k] = 0)
          /\ c # 0 => c >= s + Need(v, k)
  BY DEF Dropped
<1>3. k \in Nat /\ k \in 0 .. N /\ k \in 0 .. Len(v) /\ Need(v, k) \in Nat  BY <1>1, <1>2, NeedNat
<1>4. c = 0 \/ c \in Nat  BY <1>1, Layout DEF TypeOK, ArgAddr
<1>. HIDE DEF s, N, c
<1>5. \A a \in ArgAddr : a < s + Need(v, k) => n[a] = mem[a]
  <2>1. \A a \in ArgAddr : a < s + Need(v, k) => a # c
    BY <1>1, <1>2, <1>3, <1>4, Layout DEF ArgAddr
  <2>. QED BY <2>1 DEF Finishes, c
<1>6. k \in 0 .. Used  BY <1>1, <1>2, <1>3
<1>7. \A i \in 1 .. k : n[exec_args + i - 1] = mem[exec_args + i - 1]
  BY <1>6, FinishSlots
<1>8. Stored(n, s, v, k)
  <2>1. s + Need(v, k) <= exec_argv  BY <1>1, <1>2, <1>3
  <2>2. SameUpTo(n, mem, s, v, v, k)  BY <1>5, <1>7 DEF SameUpTo
  <2>3. s \in ArgAddr /\ Stored(mem, s, v, k)  BY <1>1, <1>2
  <2>. QED BY <1>3, <2>1, <2>2, <2>3, StoredSame
<1>9. n[exec_args + k] = 0
  <2>1. CASE Used = k  BY <2>1, FinishEnds
  <2>2. CASE Used = k + 1 /\ mem[exec_args + k] = 0
    <3>1. exec_args + k \in SlotAddr  BY <1>1, <1>3, <2>2, Layout DEF SlotAddr
    <3>2. exec_args + k # xcur
      BY <1>1, <1>3, <2>2, UsedIs, Layout
    <3>. QED BY <2>2, <3>1, <3>2 DEF Finishes
  <2>. QED BY <1>2, <2>1, <2>2
<1>. QED BY <1>2, <1>3, <1>8, <1>9 DEF VectorFits, N, s

----------------------------------------------------------------------------
(* The reader, for the arguments.                                          *)

(* The arguments of a line depend on its text alone.                       *)
LEMMA SameTextSameArgs ==
    ASSUME NEW l, NEW k, Text(k) = Text(l)
    PROVE  ArgWords(k) = ArgWords(l) /\ ArgText(k) = ArgText(l)
<1>. DEFINE First(t) == CHOOSE p \in Spans(t) : \A q \in Spans(t) : p[1] <= q[1]
            After1(p) == Min({p[2], p[1] + NameCells})
            Rest(t) == SubSeq(t, After1(First(t)) + 1, Len(t))
<1>1. CommandSpan(l) = First(Text(l)) /\ CommandSpan(k) = First(Text(k))  BY DEF CommandSpan
<1>. HIDE DEF First
<1>2. ArgText(l) = Rest(Text(l)) /\ ArgText(k) = Rest(Text(k))  BY <1>1 DEF ArgText
<1>. HIDE DEF Rest
<1>3. ArgText(k) = ArgText(l)  BY <1>2
<1>4. HasCommand(k) <=> HasCommand(l)  BY DEF HasCommand
<1>. QED BY <1>3, <1>4 DEF ArgWords

(* No argument can have begun before the command has ended.                *)
LEMMA LineArgs ==
    ASSUME NameInv, pc \in Reading
    PROVE  /\ Sentence(ArgWords(line))
           /\ ~cmd_done => ArgWords(line) = <<>>
<1>1. CASE Unnamed
  <2>1. ArgWords(line) = <<>>  BY <1>1, NoArgWords DEF Unnamed
  <2>. QED BY <2>1, EmptySentence
<1>2. CASE Naming
  <2>1. PICK w : NameOpen(w)  BY <1>2 DEF Naming
  <2>2. FirstWord(Text(line), w, TRUE) /\ Len(w) <= NameCells  BY <2>1 DEF NameOpen
  <2>3. Len(w) \in Nat  BY <2>2, WordElements
  <2>4. Len(w) <= NameCells + 1  BY <2>2, <2>3, Layout
  <2>5. ArgWords(line) = <<>>  BY <2>2, <2>4, NoArgText
  <2>. QED BY <2>5, EmptySentence
<1>3. CASE Named
  <2>1. PICK w, open : FirstWord(Text(line), w, open)  BY <1>3 DEF Named, NameEnded
  <2>. QED BY <1>3, <2>1, ArgWordsSentence DEF Named
<1>. QED BY <1>1, <1>2, <1>3 DEF NameInv

(* What the reader owes, for the words of the line after the step.         *)
LEMMA ArgsReadingNext ==
    ASSUME NEW v, v = ArgWords(line'), pc' \in Reading, room' \in 1 .. ArgCells,
           NEW open, open <=> Open(ArgText(line')),
           pc' \in {"rp_space", "rp_cmd"} => WholeSoFar(v)',
           pc' = "rp_space" /\ cmd_done' => ~open,
           pc' = "rp_arg" => OpenSoFar(v)' /\ open,
           pc' = "rp_drain" => Dropped(v)',
           pc' = "rp_finish" => WholeSoFar(v)' \/ (OpenSoFar(v)' /\ open) \/ Dropped(v)'
    PROVE  ArgsReading'
<1>1. /\ WholeSoFar(v)' <=> WholeSoFar(ArgWords(line))'
      /\ OpenSoFar(v)' <=> OpenSoFar(ArgWords(line))'
      /\ Dropped(v)' <=> Dropped(ArgWords(line))'
  BY DEF WholeSoFar, OpenSoFar, Dropped
<1>2. Open(ArgText(line))' <=> open  BY DEF Open
<1>. QED BY <1>1, <1>2 DEF ArgsReading

(* A step that leaves the arguments and the text alone.                    *)
LEMMA QuietArgs ==
    ASSUME TypeOK, NameInv, ArgsReading, ArgsAlone, Text(line') = Text(line),
           pc \in Reading, pc' \in {pc, "rp_finish"}, pc' = "rp_space" => cmd_done' = cmd_done
    PROVE  ArgsReading'
<1>1. PICK v : v = ArgWords(line)  OBVIOUS
<1>2. PICK open : open <=> Open(ArgText(line))  OBVIOUS
<1>3. ArgWords(line') = v /\ (open <=> Open(ArgText(line')))  BY <1>1, <1>2, SameTextSameArgs
<1>4. Sentence(v)  BY <1>1, LineArgs
<1>5. room \in 1 .. ArgCells /\ room' = room  BY DEF ArgsReading, ArgsAlone
<1>6. /\ WholeSoFar(v) => WholeSoFar(v)'
      /\ OpenSoFar(v) => OpenSoFar(v)'
      /\ Dropped(v) => Dropped(v)'
  BY <1>4, <1>5, AloneKeeps
<1>7. /\ pc \in {"rp_space", "rp_cmd"} => WholeSoFar(v)
      /\ pc = "rp_space" /\ cmd_done => ~open
      /\ pc = "rp_arg" => OpenSoFar(v) /\ open
      /\ pc = "rp_drain" => Dropped(v)
      /\ pc = "rp_finish" => WholeSoFar(v) \/ (OpenSoFar(v) /\ open) \/ Dropped(v)
  BY <1>1, <1>2 DEF ArgsReading
<1>8. /\ pc' \in {"rp_space", "rp_cmd"} => WholeSoFar(v)'
      /\ pc' = "rp_space" /\ cmd_done' => ~open
      /\ pc' = "rp_arg" => OpenSoFar(v)' /\ open
      /\ pc' = "rp_drain" => Dropped(v)'
      /\ pc' = "rp_finish" => WholeSoFar(v)' \/ (OpenSoFar(v)' /\ open) \/ Dropped(v)'
  BY <1>6, <1>7 DEF Reading
<1>9. pc' \in Reading  BY DEF Reading
<1>. QED BY <1>3, <1>5, <1>8, <1>9, ArgsReadingNext

(* While only the name is written.                                         *)
LEMMA NameCellsOnly ==
    ASSUME Inv, UNCHANGED <<arg_cur, xcur, room>>, NEW b \in 0 .. 255,
           RpCmdWrite(b) \/ mem' = Put(mem, cmd_cur, 0)
    PROVE  ArgsAlone
<1>. SUFFICES \A a \in ArgAddr \cup SlotAddr : mem'[a] = mem[a]  BY DEF ArgsAlone
<1>1. TypeOK /\ ReaderInv /\ mem \in [Addr -> Word] /\ 0 \in Word /\ cmd_cur \in Addr \cup {0}
  BY Layout DEF Inv, TypeOK, Addr, Word, NameAddr
<1>2. \A a \in ArgAddr \cup SlotAddr : a \in Addr /\ a # cmd_cur /\ a # path_cur
  BY <1>1, Layout DEF TypeOK, ArgAddr, SlotAddr, NameAddr, PathAddr, Addr
<1>3. CASE mem' = Put(mem, cmd_cur, 0)
  <2>1. \A a \in Addr : mem'[a] = IF a = cmd_cur THEN 0 ELSE mem[a]  BY <1>1, <1>3, PutChase
  <2>. QED BY <1>2, <2>1
<1>4. CASE RpCmdWrite(b) /\ cmd_cur # 0 /\ path_cur # 0
  <2>1. \A a \in Addr : mem'[a] = IF a \in {cmd_cur, path_cur} THEN b ELSE mem[a]
    BY <1>1, <1>4, CmdWriteCells
  <2>. QED BY <1>2, <2>1
<1>5. CASE RpCmdWrite(b) /\ (cmd_cur = 0 \/ path_cur = 0)
  BY <1>5 DEF RpCmdWrite
<1>. QED BY <1>3, <1>4, <1>5

(* What a byte does to the arguments of a line whose command has ended.    *)
LEMMA NamedArgs ==
    ASSUME LineInv, NEW b \in Input, line' = Append(line, b), NEW w, NEW open,
           FirstWord(Text(line), w, open), open => Len(w) > NameCells \/ b = SP,
           b \notin {LF, CR}, NEW v, v = ArgWords(line), NEW u, u = ArgWords(line')
    PROVE  /\ Sentence(v) /\ Sentence(u)
           /\ b = SP => u = v
           /\ b # SP /\ ~Open(ArgText(line)) => Begins(v, u, b)
           /\ b # SP /\ Open(ArgText(line)) => Extends(v, u, b)
           /\ Open(ArgText(line')) <=> b # SP
<1>1. b \in Octets /\ Text(line') = Append(Text(line), b)  BY DeliverText
<1>. DEFINE k == line'
<1>2. Text(k) = Append(Text(line), b)  BY <1>1
<1>3. u = ArgWords(k)  OBVIOUS
<1>. HIDE DEF k
<1>4. /\ Sentence(ArgWords(line)) /\ Sentence(ArgWords(k))
      /\ b = SP => ArgWords(k) = ArgWords(line)
      /\ b # SP /\ ~Open(ArgText(line)) => Begins(ArgWords(line), ArgWords(k), b)
      /\ b # SP /\ Open(ArgText(line)) => Extends(ArgWords(line), ArgWords(k), b)
      /\ Open(ArgText(k)) <=> b # SP
  BY <1>1, <1>2, ArgWordsStep
<1>. QED BY <1>3, <1>4 DEF k

(* The same, from the invariant of the command.                            *)
LEMMA NamedWord ==
    ASSUME Named
    PROVE  \E w, open : FirstWord(Text(line), w, open) /\ (open => Len(w) > NameCells)
  BY DEF Named, NameEnded

(* rp_space, for the arguments.                                            *)
LEMMA RpSpaceKeepsArgs ==
    ASSUME Inv, LineInv, NameInv, NameInv', ArgsReading, NEW b \in Input, RpSpace(b)
    PROVE  ArgsReading'
<1>1. /\ pc = "rp_space" /\ line' = Append(line, b) /\ b \in 0 .. 255 /\ b \in Octets
      /\ room' = room /\ TypeOK
      /\ ~cmd_done => Unnamed
      /\ cmd_done => Named
  BY MshAssumption DEF RpSpace, Deliver, NameInv, Reading, Unnamed, Naming, Named, Inv, Octets
<1>2. Text(line') = IF b \in {CR, LF} THEN Text(line) ELSE Append(Text(line), b)
  BY <1>1, DeliverText
<1>3. PICK v : v = ArgWords(line)  OBVIOUS
<1>4. PICK u : u = ArgWords(line')  OBVIOUS
<1>5. PICK open : open <=> Open(ArgText(line'))  OBVIOUS
<1>6. /\ room \in 1 .. ArgCells /\ room' \in 1 .. ArgCells /\ WholeSoFar(v)
      /\ cmd_done => ~Open(ArgText(line))
  BY <1>1, <1>3 DEF ArgsReading, Reading
<1>7. Sentence(v) /\ (~cmd_done => v = <<>>)  BY <1>1, <1>3, LineArgs DEF Reading
<1>8. ASSUME cmd_done, b \notin {LF, CR}
      PROVE  /\ Sentence(u)
             /\ b = SP => u = v
             /\ b # SP => Begins(v, u, b)
             /\ open <=> b # SP
  <2>1. PICK w, o : FirstWord(Text(line), w, o) /\ (o => Len(w) > NameCells)
    BY <1>1, <1>8, NamedWord
  <2>2. /\ Sentence(u)
        /\ b = SP => u = v
        /\ b # SP /\ ~Open(ArgText(line)) => Begins(v, u, b)
        /\ Open(ArgText(line')) <=> b # SP
    BY <1>1, <1>3, <1>4, <1>8, <2>1, NamedArgs
  <2>. QED BY <1>5, <1>6, <1>8, <2>2
<1>9. CASE b \in {LF, CR}
  <2>1. pc' \in {pc, "rp_finish"} /\ cmd_done' = cmd_done /\ ArgsAlone
    BY <1>1, <1>9, ClassIs DEF RpSpace, cursors, ArgsAlone
  <2>2. Text(line') = Text(line)  BY <1>2, <1>9
  <2>. QED BY <1>1, <2>1, <2>2, QuietArgs DEF Reading
<1>10. CASE b = SP
  <2>0. b \notin {LF, CR}  BY <1>10 DEF SP, LF, CR
  <2>1. pc' = "rp_space" /\ cmd_done' = cmd_done /\ cmd_started' = cmd_started /\ ArgsAlone
    BY <1>1, <1>10, ClassIs DEF RpSpace, cursors, ArgsAlone, SP, LF, CR
  <2>2. WholeSoFar(v)'  BY <1>1, <1>6, <1>7, <2>1, AloneKeeps
  <2>3. u = v /\ (cmd_done => ~open)
    <3>1. CASE cmd_done  BY <1>8, <1>10, <2>0, <3>1
    <3>2. CASE ~cmd_done
      <4>1. Unnamed'  BY <1>1, <2>1, <3>2 DEF NameInv, Reading, Unnamed, Naming, Named
      <4>2. Blank(Text(line'))  BY <4>1 DEF Unnamed
      <4>. DEFINE k == line'
      <4>3. Blank(Text(k))  BY <4>2
      <4>. HIDE DEF k
      <4>4. ArgWords(k) = <<>>  BY <4>3, NoArgWords
      <4>. QED BY <1>4, <1>7, <3>2, <4>4 DEF k
    <3>. QED BY <3>1, <3>2
  <2>4. v = ArgWords(line')  BY <1>4, <2>3
  <2>. QED BY <1>5, <1>6, <2>1, <2>2, <2>3, <2>4, ArgsReadingNext DEF Reading
<1>11. CASE b \notin {LF, CR, SP} /\ cmd_done
  <2>1. RpArgStart(b)  BY <1>11, ClassIs DEF RpSpace
  <2>2. Begins(v, u, b) /\ Sentence(u) /\ open  BY <1>8, <1>11
  <2>3. CASE xcur = 0 \/ arg_cur = 0
    <3>1. pc' = "rp_drain" /\ UNCHANGED <<mem, arg_cur, xcur, room>>
      BY <1>1, <2>1, <2>3 DEF RpArgStart
    <3>2. Dropped(u)'  BY <1>6, <1>7, <2>2, <2>3, <3>1, StartDrops
    <3>. QED BY <1>4, <1>5, <1>6, <3>1, <3>2, ArgsReadingNext DEF Reading
  <2>4. CASE xcur # 0 /\ arg_cur # 0
    <3>1. pc' = "rp_arg"  BY <2>1, <2>4 DEF RpArgStart, RpArgWrite
    <3>2. OpenSoFar(u)'  BY <1>1, <1>6, <1>7, <2>1, <2>2, <2>4, StartOpens
    <3>. QED BY <1>4, <1>5, <1>6, <2>2, <3>1, <3>2, ArgsReadingNext DEF Reading
  <2>. QED BY <2>3, <2>4
<1>12. CASE b \notin {LF, CR, SP} /\ ~cmd_done
  <2>1. RpCmdWrite(b) /\ UNCHANGED <<arg_cur, xcur>>  BY <1>12, ClassIs DEF RpSpace
  <2>2. ArgsAlone  BY <1>1, <2>1, NameCellsOnly
  <2>3. pc' = "rp_cmd" /\ cmd_done' = cmd_done /\ \E w : NameOpen(w)'
    BY <1>1, <1>12, <2>1, NameStart DEF Unnamed
  <2>4. PICK w : NameOpen(w)'  BY <2>3
  <2>. DEFINE k == line'
  <2>5. FirstWord(Text(k), w, TRUE) /\ Len(w) <= NameCells  BY <2>4 DEF NameOpen
  <2>. HIDE DEF k
  <2>6. Len(w) <= NameCells + 1  BY <2>5, WordElements, Layout
  <2>7. ArgWords(k) = <<>>  BY <2>5, <2>6, NoArgText
  <2>8. v = ArgWords(line')  BY <1>7, <1>12, <2>7 DEF k
  <2>9. WholeSoFar(v)'  BY <1>1, <1>6, <1>7, <2>2, AloneKeeps
  <2>. QED BY <1>5, <1>6, <2>3, <2>8, <2>9, ArgsReadingNext DEF Reading
<1>. QED BY <1>9, <1>10, <1>11, <1>12

(* rp_cmd, for the arguments: there are none yet.                          *)
LEMMA RpCmdKeepsArgs ==
    ASSUME Inv, LineInv, NameInv, ArgsReading, NEW b \in Input, RpCmd(b)
    PROVE  ArgsReading'
<1>1. /\ pc = "rp_cmd" /\ line' = Append(line, b) /\ b \in 0 .. 255 /\ b \in Octets
      /\ room' = room /\ TypeOK /\ Naming /\ ~cmd_done
      /\ UNCHANGED <<arg_cur, xcur, room>>
  BY MshAssumption DEF RpCmd, Deliver, NameInv, Reading, Unnamed, Naming, Named, Inv, Octets
<1>2. Text(line') = IF b \in {CR, LF} THEN Text(line) ELSE Append(Text(line), b)
  BY <1>1, DeliverText
<1>3. PICK v : v = ArgWords(line)  OBVIOUS
<1>4. PICK u : u = ArgWords(line')  OBVIOUS
<1>5. PICK open : open <=> Open(ArgText(line'))  OBVIOUS
<1>6. room \in 1 .. ArgCells /\ room' \in 1 .. ArgCells /\ WholeSoFar(v)
  BY <1>1, <1>3 DEF ArgsReading, Reading
<1>7. Sentence(v) /\ v = <<>>  BY <1>1, <1>3, LineArgs DEF Reading
<1>8. PICK w : NameOpen(w)  BY <1>1 DEF Naming
<1>9. FirstWord(Text(line), w, TRUE) /\ Len(w) <= NameCells  BY <1>8 DEF NameOpen
<1>10. w \in Seq(Octets) /\ Len(w) \in Nat  BY <1>9, WordElements
<1>11. CASE b \in {LF, CR}
  <2>1. pc' \in {pc, "rp_finish"} /\ cmd_done' = cmd_done /\ ArgsAlone
    BY <1>1, <1>11, ClassIs DEF RpCmd, ArgsAlone
  <2>2. Text(line') = Text(line)  BY <1>2, <1>11
  <2>. QED BY <1>1, <2>1, <2>2, QuietArgs DEF Reading
<1>12. CASE b = SP
  <2>0. b \notin {LF, CR}  BY <1>12 DEF SP, LF, CR
  <2>1. pc' = "rp_space" /\ mem' = Put(mem, cmd_cur, 0)
    BY <1>12, ClassIs DEF RpCmd, RpCmdEnd, SP, LF, CR
  <2>2. ArgsAlone  BY <1>1, <2>1, NameCellsOnly
  <2>3. WholeSoFar(v)'  BY <1>1, <1>6, <1>7, <2>2, AloneKeeps
  <2>4. u = v /\ (Open(ArgText(line')) <=> b # SP)
    BY <1>1, <1>3, <1>4, <1>9, <1>12, <2>0, NamedArgs
  <2>5. v = ArgWords(line') /\ ~open  BY <1>4, <1>5, <1>12, <2>4
  <2>. QED BY <1>5, <1>6, <2>1, <2>3, <2>5, ArgsReadingNext DEF Reading
<1>13. CASE b \notin {LF, CR, SP}
  <2>1. RpCmdWrite(b)  BY <1>13, ClassIs DEF RpCmd
  <2>2. ArgsAlone  BY <1>1, <2>1, NameCellsOnly
  <2>3. WholeSoFar(v)'  BY <1>1, <1>6, <1>7, <2>2, AloneKeeps
  <2>4. pc' \in {"rp_cmd", "rp_space"}  BY <2>1 DEF RpCmdWrite
  <2>. DEFINE k == line'
  <2>5. Text(k) = Append(Text(line), b)  BY <1>2, <1>13
  <2>. HIDE DEF k
  <2>6. FirstWord(Text(k), Append(w, b), TRUE)  BY <1>1, <1>9, <1>13, <2>5, WordMore
  <2>7. Len(Append(w, b)) = Len(w) + 1  BY <1>1, <1>10, AppendByte
  <2>8. Len(Append(w, b)) <= NameCells + 1  BY <1>9, <1>10, <2>7, Layout
  <2>9. ArgText(k) = <<>> /\ ArgWords(k) = <<>>  BY <2>6, <2>8, NoArgText
  <2>10. ~Open(<<>>)  BY DEF Open
  <2>11. v = ArgWords(line') /\ ~open  BY <1>5, <1>7, <2>9, <2>10 DEF k
  <2>. QED BY <1>5, <1>6, <2>3, <2>4, <2>11, ArgsReadingNext DEF Reading
<1>. QED BY <1>11, <1>12, <1>13

(* rp_arg, for the arguments.                                              *)
LEMMA RpArgKeepsArgs ==
    ASSUME Inv, LineInv, NameInv, ArgsReading, NEW b \in Input, RpArg(b)
    PROVE  ArgsReading'
<1>1. /\ pc = "rp_arg" /\ line' = Append(line, b) /\ b \in 0 .. 255 /\ b \in Octets
      /\ room' = room /\ xcur' = xcur /\ TypeOK /\ Named /\ cmd_done' = cmd_done
  BY MshAssumption DEF RpArg, Deliver, NameInv, Reading, Unnamed, Naming, Named, Inv, Octets
<1>2. Text(line') = IF b \in {CR, LF} THEN Text(line) ELSE Append(Text(line), b)
  BY <1>1, DeliverText
<1>3. PICK v : v = ArgWords(line)  OBVIOUS
<1>4. PICK u : u = ArgWords(line')  OBVIOUS
<1>5. PICK open : open <=> Open(ArgText(line'))  OBVIOUS
<1>6. /\ room \in 1 .. ArgCells /\ room' \in 1 .. ArgCells /\ OpenSoFar(v)
      /\ Open(ArgText(line))
  BY <1>1, <1>3 DEF ArgsReading, Reading
<1>7. CASE b \in {LF, CR}
  <2>1. pc' \in {pc, "rp_finish"} /\ ArgsAlone
    BY <1>1, <1>7, ClassIs DEF RpArg, ArgsAlone
  <2>2. Text(line') = Text(line)  BY <1>2, <1>7
  <2>. QED BY <1>1, <2>1, <2>2, QuietArgs DEF Reading
<1>8. ASSUME b \notin {LF, CR}
      PROVE  /\ Sentence(v) /\ Sentence(u)
             /\ b = SP => u = v
             /\ b # SP => Extends(v, u, b)
             /\ open <=> b # SP
  <2>1. PICK w, o : FirstWord(Text(line), w, o) /\ (o => Len(w) > NameCells)
    BY <1>1, NamedWord
  <2>2. /\ Sentence(v) /\ Sentence(u)
        /\ b = SP => u = v
        /\ b # SP /\ Open(ArgText(line)) => Extends(v, u, b)
        /\ Open(ArgText(line')) <=> b # SP
    BY <1>1, <1>3, <1>4, <1>8, <2>1, NamedArgs
  <2>. QED BY <1>5, <1>6, <1>8, <2>2
<1>9. CASE b = SP
  <2>0. b \notin {LF, CR}  BY <1>9 DEF SP, LF, CR
  <2>1. Sentence(v) /\ Sentence(u) /\ u = v /\ ~open  BY <1>8, <1>9, <2>0
  <2>2. CASE arg_cur # 0
    <3>1. /\ mem' = Put(mem, arg_cur, 0) /\ arg_cur' = Chase(mem, arg_cur)
          /\ pc' = "rp_space"
      BY <1>9, <2>0, <2>2, ClassIs DEF RpArg
    <3>2. WholeSoFar(v)'  BY <1>1, <1>6, <2>1, <2>2, <3>1, NulCloses
    <3>3. v = ArgWords(line')  BY <1>4, <2>1
    <3>. QED BY <1>5, <1>6, <2>1, <3>1, <3>2, <3>3, ArgsReadingNext DEF Reading
  <2>3. CASE arg_cur = 0
    <3>1. mem' = Store(mem, x_slot, 0) /\ arg_cur' = arg_cur /\ pc' = "rp_drain"
      BY <1>9, <2>0, <2>3, ClassIs DEF RpArg
    <3>2. Dropped(u)'  BY <1>1, <1>6, <2>1, <2>3, <3>1, OverflowDrops
    <3>. QED BY <1>4, <1>5, <1>6, <3>1, <3>2, ArgsReadingNext DEF Reading
  <2>. QED BY <2>2, <2>3
<1>10. CASE b \notin {LF, CR, SP}
  <2>1. RpArgWrite(mem, x_slot, b)  BY <1>10, ClassIs DEF RpArg
  <2>2. Sentence(v) /\ Sentence(u) /\ Extends(v, u, b) /\ open  BY <1>8, <1>10
  <2>3. CASE arg_cur # 0
    <3>1. /\ mem' = Put(mem, arg_cur, b) /\ arg_cur' = Chase(mem, arg_cur)
          /\ pc' = "rp_arg"
      BY <2>1, <2>3 DEF RpArgWrite
    <3>2. OpenSoFar(u)'  BY <1>1, <1>6, <2>2, <2>3, <3>1, ByteKeepsOpen
    <3>. QED BY <1>4, <1>5, <1>6, <2>2, <3>1, <3>2, ArgsReadingNext DEF Reading
  <2>4. CASE arg_cur = 0
    <3>1. mem' = Store(mem, x_slot, 0) /\ arg_cur' = arg_cur /\ pc' = "rp_drain"
      BY <2>1, <2>4 DEF RpArgWrite
    <3>2. Dropped(u)'  BY <1>1, <1>6, <2>2, <2>4, <3>1, OverflowDrops
    <3>. QED BY <1>4, <1>5, <1>6, <3>1, <3>2, ArgsReadingNext DEF Reading
  <2>. QED BY <2>3, <2>4
<1>. QED BY <1>7, <1>9, <1>10

(* rp_drain, for the arguments.                                            *)
LEMMA RpDrainKeepsArgs ==
    ASSUME Inv, LineInv, NameInv, ArgsReading, NEW b \in Input, RpDrain(b)
    PROVE  ArgsReading'
<1>1. /\ pc = "rp_drain" /\ line' = Append(line, b) /\ b \in Octets /\ TypeOK /\ Named
      /\ UNCHANGED <<mem, arg_cur, xcur, room, cmd_done>> /\ pc' \in {pc, "rp_finish"}
  BY MshAssumption DEF RpDrain, Deliver, cursors, NameInv, Reading, Unnamed, Naming,
     Named, Inv, Octets
<1>2. Text(line') = IF b \in {CR, LF} THEN Text(line) ELSE Append(Text(line), b)
  BY <1>1, DeliverText
<1>3. CASE b \in {LF, CR}
  <2>1. Text(line') = Text(line) /\ ArgsAlone  BY <1>1, <1>2, <1>3 DEF ArgsAlone
  <2>. QED BY <1>1, <2>1, QuietArgs DEF Reading
<1>4. CASE b \notin {LF, CR}
  <2>1. PICK v : v = ArgWords(line)  OBVIOUS
  <2>2. PICK u : u = ArgWords(line')  OBVIOUS
  <2>3. PICK open : open <=> Open(ArgText(line'))  OBVIOUS
  <2>4. room \in 1 .. ArgCells /\ room' \in 1 .. ArgCells /\ Dropped(v)
    BY <1>1, <2>1 DEF ArgsReading, Reading
  <2>5. PICK w, o : FirstWord(Text(line), w, o) /\ (o => Len(w) > NameCells)
    BY <1>1, NamedWord
  <2>6. /\ Sentence(v) /\ Sentence(u)
        /\ b = SP => u = v
        /\ b # SP /\ ~Open(ArgText(line)) => Begins(v, u, b)
        /\ b # SP /\ Open(ArgText(line)) => Extends(v, u, b)
    BY <1>1, <1>4, <2>1, <2>2, <2>5, NamedArgs
  <2>7. u = v \/ Begins(v, u, b) \/ Extends(v, u, b)  BY <2>6
  <2>8. Dropped(u)'  BY <1>1, <2>4, <2>6, <2>7, DrainDrops
  <2>. QED BY <1>1, <2>2, <2>3, <2>4, <2>8, ArgsReadingNext DEF Reading
<1>. QED BY <1>3, <1>4

(* The prompt: no argument yet, and the cursor at the first free cell.     *)
LEMMA ReadParseKeepsArgs ==
    ASSUME Inv, ReadParse
    PROVE  ArgsReading'
<1>1. /\ pc' = "rp_space" /\ line' = <<>> /\ cmd_done' = FALSE /\ xcur' = exec_args
      /\ arg_cur' = IF arg_cur = 0 THEN arg_buf ELSE arg_cur
      /\ room' = exec_argv - arg_cur'
  BY DEF ReadParse
<1>2. arg_cur' \in ArgAddr  BY <1>1, Layout DEF Inv, TypeOK, ArgAddr
<1>3. room' \in 1 .. ArgCells /\ Start' = arg_cur' /\ room' # 0
  <2>. DEFINE c == arg_cur'
              r == room'
  <2>1. c \in ArgAddr /\ r = exec_argv - c  BY <1>1, <1>2
  <2>2. Start' = exec_argv - r  BY DEF Start
  <2>. HIDE DEF c, r
  <2>3. r \in 1 .. ArgCells /\ exec_argv - r = c /\ r # 0  BY <2>1, Layout DEF ArgAddr
  <2>. QED BY <2>2, <2>3 DEF c, r
<1>4. ArgWords(<<>>) = <<>>
  <2>1. Text(<<>>) = <<>>  BY TextEmpty
  <2>2. Len(<<>>) = 0 /\ <<>> \in Seq(Octets)  OBVIOUS
  <2>3. \A k \in 1 .. 0 : FALSE  OBVIOUS
  <2>4. Blank(<<>>)  BY <2>2, <2>3 DEF Blank
  <2>5. Blank(Text(<<>>))  BY <2>1, <2>4
  <2>. QED BY <2>5, NoArgWords
<1>5. PICK v : v = <<>>  OBVIOUS
<1>6. Len(v) = 0 /\ Need(v, 0) = 0
  <2>1. Need(v, 0) = 0  BY NeedStep
  <2>. QED BY <1>5, <2>1
<1>7. WholeSoFar(v)'
  <2>1. Used' = 0  BY <1>1, Layout DEF Used
  <2>2. Stored(mem', Start', v, 0)
    <3>1. \A i \in 1 .. 0 : FALSE  OBVIOUS
    <3>. QED BY <3>1 DEF Stored
  <2>3. After(0)' = arg_cur'
    <3>. DEFINE c == arg_cur'
    <3>1. After(0)' = Start' + 0  BY <1>3 DEF After
    <3>2. Start' = c /\ c \in ArgAddr  BY <1>2, <1>3
    <3>. HIDE DEF c
    <3>3. c + 0 = c  BY <3>2, Layout DEF ArgAddr
    <3>. QED BY <3>1, <3>2, <3>3 DEF c
  <2>4. 0 <= room'  BY <1>3
  <2>. QED BY <1>6, <2>1, <2>2, <2>3, <2>4 DEF WholeSoFar
<1>8. v = ArgWords(line')  BY <1>1, <1>4, <1>5
<1>9. PICK open : open <=> Open(ArgText(line'))  OBVIOUS
<1>. QED BY <1>1, <1>3, <1>7, <1>8, <1>9, ArgsReadingNext DEF Reading

(* End of file leaves the arguments as they are.                           *)
LEMMA ReadEofKeepsArgs ==
    ASSUME TypeOK, NameInv, ArgsReading, ReadEof
    PROVE  ArgsReading'
<1>1. /\ pc \in Reading /\ pc' \in {"rp_finish", "eof"}
      /\ ArgsAlone /\ line' = line
  BY DEF ReadEof, cursors, flags, history, ArgsAlone, Reading
<1>2. CASE pc' = "eof"  BY <1>2 DEF ArgsReading, Reading
<1>3. CASE pc' = "rp_finish"
  <2>1. Text(line') = Text(line)  BY <1>1
  <2>2. pc' \in {pc, "rp_finish"} /\ pc' # "rp_space"  BY <1>3
  <2>. QED BY <1>1, <2>1, <2>2, QuietArgs
<1>. QED BY <1>1, <1>2, <1>3

(* What a line that was read owes, after the step.                         *)
LEMMA ArgsReadNext ==
    ASSUME UNCHANGED <<line, room>>, room \in 1 .. ArgCells, NEW v, v = ArgWords(line),
           VectorFits(mem', v) \/ (VectorBrims(mem', v) /\ Open(ArgText(line)))
    PROVE  ArgsRead'
<1>1. Start' = Start /\ room' = room /\ line' = line  BY DEF Start
<1>2. CASE VectorFits(mem', v)
  <2>1. VectorFits(mem, v)'  BY <1>1, <1>2 DEF VectorFits
  <2>2. VectorFits(mem, ArgWords(line))'  BY <1>1, <2>1 DEF VectorFits
  <2>. QED BY <1>1, <2>2 DEF ArgsRead
<1>3. CASE VectorBrims(mem', v) /\ Open(ArgText(line))
  <2>1. VectorBrims(mem, ArgWords(line))'  BY <1>1, <1>3 DEF VectorBrims
  <2>2. Open(ArgText(line))'  BY <1>1, <1>3
  <2>. QED BY <1>1, <2>1, <2>2 DEF ArgsRead
<1>. QED BY <1>2, <1>3

(* rp_finish turns what was read into a vector.                            *)
LEMMA RpFinishKeepsArgs ==
    ASSUME Inv, NameInv, ArgsReading, RpFinish
    PROVE  ArgsRead'
<1>. DEFINE name == IF cmd_done THEN 0 ELSE cmd_cur
            m1 == Put(mem, name, 0)
            m2 == Put(m1, arg_cur, 0)
<1>1. /\ pc = "rp_finish" /\ mem' = Put(m2, xcur, 0) /\ UNCHANGED <<line, room>>
  BY DEF RpFinish, history
<1>2. /\ mem \in [Addr -> Word] /\ name \in Addr \cup {0} /\ 0 \in Word
      /\ arg_cur \in Addr \cup {0} /\ xcur \in Addr \cup {0}
      /\ name < arg_buf
      /\ arg_cur \in ArgAddr \cup {0} /\ xcur \in SlotAddr \cup {0}
  BY Layout DEF Inv, TypeOK, Addr, Word, NameAddr, ArgAddr, SlotAddr
<1>. HIDE DEF name
<1>3. m1 \in [Addr -> Word] /\ \A a \in Addr : m1[a] = IF a = name THEN 0 ELSE mem[a]
  BY <1>2, PutChase
<1>. HIDE DEF m1
<1>4. m2 \in [Addr -> Word] /\ \A a \in Addr : m2[a] = IF a = arg_cur THEN 0 ELSE m1[a]
  <2>1. m1 \in [Addr -> Word] /\ arg_cur \in Addr \cup {0} /\ 0 \in Word  BY <1>2, <1>3
  <2>2. Written(Put(m1, arg_cur, 0), m1, arg_cur, 0)  BY <2>1, PutWritten
  <2>. QED BY <2>2 DEF Written
<1>. HIDE DEF m2
<1>5. \A a \in Addr : mem'[a] = IF a = xcur THEN 0 ELSE m2[a]
  <2>1. \A a \in Addr : Put(m2, xcur, 0)[a] = IF a = xcur THEN 0 ELSE m2[a]
    <3>1. m2 \in [Addr -> Word] /\ xcur \in Addr \cup {0} /\ 0 \in Word  BY <1>2, <1>4
    <3>2. Written(Put(m2, xcur, 0), m2, xcur, 0)  BY <3>1, PutWritten
    <3>. QED BY <3>2 DEF Written
  <2>. QED BY <1>1, <2>1
<1>6. /\ \A a \in ArgAddr : a \in Addr /\ a # name /\ a # xcur
      /\ \A a \in SlotAddr : a \in Addr /\ a # name /\ a # arg_cur
      /\ exec_argv_term \in Addr /\ exec_argv_term # name
      /\ exec_argv_term # arg_cur /\ exec_argv_term # xcur
      /\ arg_cur # 0 => arg_cur \in ArgAddr
      /\ xcur # 0 => xcur \in SlotAddr
  BY <1>2, Layout DEF Addr, ArgAddr, SlotAddr
<1>7. Finishes(mem')
  <2>1. /\ \A a \in ArgAddr : a # arg_cur => mem'[a] = mem[a]
        /\ arg_cur # 0 => mem'[arg_cur] = 0
        /\ \A a \in SlotAddr : a # xcur => mem'[a] = mem[a]
        /\ xcur # 0 => mem'[xcur] = 0
    BY <1>3, <1>4, <1>5, <1>6
  <2>2. mem'[exec_argv_term] = mem[exec_argv_term]  BY <1>3, <1>4, <1>5, <1>6
  <2>3. mem[exec_argv_term] = 0  BY DEF Inv, ReaderInv, StaticCellsKept
  <2>. QED BY <2>1, <2>2, <2>3 DEF Finishes
<1>8. PICK v : v = ArgWords(line)  OBVIOUS
<1>9. /\ room \in 1 .. ArgCells
      /\ WholeSoFar(v) \/ (OpenSoFar(v) /\ Open(ArgText(line))) \/ Dropped(v)
  BY <1>1, <1>8 DEF ArgsReading, Reading
<1>10. Sentence(v)  BY <1>1, <1>8, LineArgs DEF Reading
<1>11. VectorFits(mem', v) \/ (VectorBrims(mem', v) /\ Open(ArgText(line)))
  <2>. DEFINE n == mem'
  <2>1. Finishes(n)  BY <1>7
  <2>. HIDE DEF n
  <2>2. CASE WholeSoFar(v)
    <3>1. VectorFits(n, v)  BY <1>9, <1>10, <2>1, <2>2, WholeFinishes
    <3>. QED BY <3>1 DEF n
  <2>3. CASE OpenSoFar(v) /\ Open(ArgText(line))
    <3>1. VectorFits(n, v) \/ VectorBrims(n, v)  BY <1>9, <1>10, <2>1, <2>3, OpenFinishes
    <3>. QED BY <2>3, <3>1 DEF n
  <2>4. CASE Dropped(v)
    <3>1. VectorFits(n, v)  BY <1>9, <1>10, <2>1, <2>4, DroppedFinishes
    <3>. QED BY <3>1 DEF n
  <2>. QED BY <1>9, <2>2, <2>3, <2>4
<1>. QED BY <1>1, <1>8, <1>9, <1>11, ArgsReadNext

(* A vector is its arguments, their slots and the word behind them.        *)
LEMMA VectorFrame ==
    ASSUME room \in 1 .. ArgCells, NEW v, Sentence(v), NEW n,
           \A a \in ArgAddr \cup SlotAddr \cup {exec_argv_term} : n[a] = mem[a]
    PROVE  /\ VectorFits(mem, v) => VectorFits(n, v)
           /\ VectorBrims(mem, v) => VectorBrims(n, v)
<1>. DEFINE s == Start
<1>1. /\ s \in ArgAddr /\ s \in Nat /\ s + room = exec_argv /\ room \in Nat
      /\ Len(v) \in Nat /\ Slots \in Nat /\ \A k \in 0 .. Len(v) : Need(v, k) \in Nat
  BY StartIn, NeedNat, Layout DEF Sentence
<1>. HIDE DEF s
<1>2. ASSUME NEW k \in 0 .. Len(v), k <= Slots, Need(v, k) <= room, Stored(mem, s, v, k)
      PROVE  Stored(n, s, v, k)
  <2>1. s + Need(v, k) <= exec_argv  BY <1>1, <1>2
  <2>2. \A a \in ArgAddr : a < s + Need(v, k) => n[a] = mem[a]  OBVIOUS
  <2>3. \A i \in 1 .. k : n[exec_args + i - 1] = mem[exec_args + i - 1]
    <3>1. \A i \in 1 .. k : i \in 1 .. Slots  BY <1>1, <1>2
    <3>. QED BY <3>1, SlotIn
  <2>4. SameUpTo(n, mem, s, v, v, k)  BY <2>2, <2>3 DEF SameUpTo
  <2>. QED BY <1>1, <1>2, <2>1, <2>4, StoredSame
<1>3. \A k \in 0 .. Slots : n[exec_args + k] = mem[exec_args + k]
  <2>1. \A k \in 0 .. Slots : exec_args + k \in SlotAddr \cup {exec_argv_term}
    BY <1>1, Layout DEF SlotAddr
  <2>. QED BY <2>1
<1>4. ASSUME VectorFits(mem, v) PROVE VectorFits(n, v)
  <2>1. PICK k \in 0 .. Len(v) :
            /\ k <= Slots /\ Need(v, k) <= room /\ Stored(mem, s, v, k)
            /\ mem[exec_args + k] = 0
            /\ k = Len(v) \/ k = Slots \/ Need(v, k + 1) > room
    BY <1>4 DEF VectorFits, s
  <2>2. Stored(n, s, v, k)  BY <1>2, <2>1
  <2>3. n[exec_args + k] = 0  BY <1>1, <1>3, <2>1
  <2>. QED BY <2>1, <2>2, <2>3 DEF VectorFits, s
<1>5. ASSUME VectorBrims(mem, v) PROVE VectorBrims(n, v)
  <2>. DEFINE N == Len(v)
              z == N - 1
  <2>1. /\ N \in 1 .. Slots /\ Need(v, N) = room + 1
        /\ Stored(mem, s, v, z) /\ Held(mem, s, v, N) /\ mem[exec_args + N] = 0
    BY <1>5 DEF VectorBrims, s
  <2>2. N \in 1 .. Len(v) /\ z \in 0 .. Len(v) /\ z <= Slots /\ N \in Nat /\ N \in 0 .. Slots
    BY <1>1, <2>1
  <2>3. Need(v, z) <= room
    <3>1. Need(v, N) = Need(v, z) + Len(v[N]) + 1 /\ Len(v[N]) \in Nat
      BY <2>2, NeedGrows DEF Sentence
    <3>2. Need(v, z) \in Nat  BY <1>1, <2>2
    <3>. QED BY <1>1, <2>1, <3>1, <3>2
  <2>4. n[exec_args + N] = 0  BY <1>3, <2>1, <2>2
  <2>5. N \in 1 .. Slots  BY <2>1
  <2>6. n[exec_args + N - 1] = mem[exec_args + N - 1]  BY <2>5, SlotIn
  <2>7. s + Need(v, N) <= exec_argv + 1  BY <1>1, <2>1, Layout
  <2>. HIDE DEF z, N
  <2>8. Stored(n, s, v, z)  BY <1>2, <2>1, <2>2, <2>3
  <2>9. Held(n, s, v, N)
    <3>1. \A a \in ArgAddr : a + 1 < s + Need(v, N) => n[a] = mem[a]  OBVIOUS
    <3>2. \A i \in 1 .. N : v[i] = v[i]  OBVIOUS
    <3>. QED BY <1>1, <2>1, <2>2, <2>6, <2>7, <3>1, <3>2, HeldKept
  <2>. QED BY <2>1, <2>4, <2>8, <2>9 DEF VectorBrims, s, z, N
<1>. QED BY <1>4, <1>5

----------------------------------------------------------------------------
(* What execve and chdir make of the vector.                               *)

(* A word up to its first NUL.                                             *)
LEMMA CutIs ==
    ASSUME NEW w \in Seq(Octets)
    PROVE  \/ CutAtNul(w) = w /\ \A i \in 1 .. Len(w) : w[i] # 0
           \/ \E n \in 1 .. Len(w) : /\ CutAtNul(w) = SubSeq(w, 1, n - 1) /\ w[n] = 0
                                     /\ \A i \in 1 .. n - 1 : w[i] # 0
<1>. DEFINE S == {i \in DOMAIN w : w[i] = 0}
<1>1. Len(w) \in Nat /\ DOMAIN w = 1 .. Len(w)  OBVIOUS
<1>2. CASE S = {}
  <2>1. \A i \in 1 .. Len(w) : w[i] # 0  BY <1>1, <1>2
  <2>2. 0 \notin Range(w)  BY <1>1, <2>1 DEF Range
  <2>. QED BY <2>1, <2>2 DEF CutAtNul
<1>3. CASE S # {}
  <2>1. S \subseteq Nat  BY <1>1
  <2>2. PICK n \in S : \A y \in S : n <= y  BY <1>3, <2>1, LeastNatural
  <2>3. Min(S) = n  BY <2>1, <2>2, MinIs
  <2>4. 0 \in Range(w)  BY <2>2 DEF Range
  <2>5. CutAtNul(w) = SubSeq(w, 1, n - 1)  BY <2>3, <2>4 DEF CutAtNul
  <2>6. n \in 1 .. Len(w) /\ w[n] = 0  BY <1>1, <2>2
  <2>7. ASSUME NEW i \in 1 .. n - 1 PROVE w[i] # 0
    <3>1. i \in DOMAIN w /\ ~(n <= i)  BY <1>1, <2>6
    <3>. QED BY <2>2, <3>1
  <2>. QED BY <2>5, <2>6, <2>7
<1>. QED BY <1>2, <1>3

(* Octets are their own low byte.                                          *)
LEMMA LowByte == \A x \in Octets : x % 256 = x /\ x \in Nat
  BY DEF Octets

(* The C string at a word that a NUL follows.                              *)
LEMMA CStrOfWord ==
    ASSUME NEW m, NEW w \in Seq(Octets), NEW a \in Nat, a + Len(w) <= exec_argv_term,
           \A j \in 1 .. Len(w) : m[a + j - 1] = w[j], m[a + Len(w)] = 0
    PROVE  CStr(m, a) = CutAtNul(w)
<1>. DEFINE l == Len(w)
<1>1. l \in Nat /\ w \in Seq(Nat) /\ exec_argv_term \in Nat /\ \A j \in 1 .. l : w[j] \in Octets
  BY ByteSeq, Layout
<1>. HIDE DEF l
<1>2. /\ a + l <= exec_argv_term /\ m[a + l] = 0 /\ Len(w) = l
      /\ \A j \in 1 .. l : m[a + j - 1] % 256 = w[j]
  BY <1>1, LowByte DEF l
<1>3. ASSUME NEW e \in 0 .. l, \A j \in 1 .. e : w[j] # 0, m[a + e] % 256 = 0
      PROVE  /\ CStr(m, a) \in Seq(Nat) /\ Len(CStr(m, a)) = e
             /\ \A i \in 1 .. e : CStr(m, a)[i] = w[i]
  <2>. DEFINE z == a + e
  <2>1. z \in a .. exec_argv_term /\ z - a = e  BY <1>1, <1>2
  <2>2. ASSUME NEW k \in a .. z - 1 PROVE m[k] % 256 # 0
    <3>. DEFINE j == k - a + 1
    <3>1. j \in 1 .. e /\ j \in 1 .. l /\ a + j - 1 = k  BY <1>1
    <3>. HIDE DEF j
    <3>2. m[a + j - 1] % 256 = w[j] /\ w[j] # 0  BY <1>2, <1>3, <3>1
    <3>. QED BY <3>1, <3>2
  <2>3. m[z] % 256 = 0  BY <1>3
  <2>. HIDE DEF z
  <2>4. CStr(m, a) = [i \in 1 .. z - a |-> m[a + i - 1] % 256]  BY <2>1, <2>2, <2>3, CStrIs
  <2>5. CStr(m, a) = [i \in 1 .. e |-> w[i]]  BY <1>1, <1>2, <2>1, <2>4
  <2>6. \A i \in 1 .. e : w[i] \in Nat /\ e \in Nat  BY <1>1, LowByte
  <2>. QED BY <1>1, <2>5, <2>6
<1>4. CASE CutAtNul(w) = w /\ \A i \in 1 .. Len(w) : w[i] # 0
  <2>1. m[a + l] % 256 = 0 /\ l \in 0 .. l /\ \A j \in 1 .. l : w[j] # 0
    BY <1>1, <1>2, <1>4
  <2>2. /\ CStr(m, a) \in Seq(Nat) /\ Len(CStr(m, a)) = l
        /\ \A i \in 1 .. l : CStr(m, a)[i] = w[i]
    BY <1>3, <2>1
  <2>3. CStr(m, a) = w  BY <1>1, <1>2, <2>2, SameSeq
  <2>. QED BY <1>4, <2>3
<1>5. CASE \E n \in 1 .. Len(w) : /\ CutAtNul(w) = SubSeq(w, 1, n - 1) /\ w[n] = 0
                                  /\ \A i \in 1 .. n - 1 : w[i] # 0
  <2>1. PICK n \in 1 .. l : /\ CutAtNul(w) = SubSeq(w, 1, n - 1) /\ w[n] = 0
                            /\ \A i \in 1 .. n - 1 : w[i] # 0
    BY <1>2, <1>5
  <2>. DEFINE e == n - 1
  <2>2. e \in Nat /\ e \in 0 .. l /\ e <= Len(w) /\ n = e + 1  BY <1>1, <1>2
  <2>3. m[a + e] % 256 = 0
    <3>1. m[a + n - 1] % 256 = 0  BY <1>2, <2>1
    <3>2. a + n - 1 = a + e  BY <1>1
    <3>. QED BY <3>1, <3>2
  <2>4. CutAtNul(w) = SubSeq(w, 1, e) /\ \A i \in 1 .. e : w[i] # 0  BY <2>1
  <2>. HIDE DEF e
  <2>5. /\ CStr(m, a) \in Seq(Nat) /\ Len(CStr(m, a)) = e
        /\ \A i \in 1 .. e : CStr(m, a)[i] = w[i]
    BY <1>3, <2>2, <2>3, <2>4
  <2>6. /\ SubSeq(w, 1, e) \in Seq(Nat) /\ Len(SubSeq(w, 1, e)) = e
        /\ \A i \in 1 .. e : SubSeq(w, 1, e)[i] = w[i]
    BY <1>1, <2>2
  <2>7. \A i \in 1 .. e : CStr(m, a)[i] = SubSeq(w, 1, e)[i]  BY <2>5, <2>6
  <2>8. CStr(m, a) = SubSeq(w, 1, e)  BY <2>5, <2>6, <2>7, SameSeq
  <2>. QED BY <2>4, <2>8
<1>. QED BY <1>4, <1>5, CutIs

(* The longest prefix that fits is the one behind which the next word does *)
(* not.                                                                    *)
LEMMA KeptIs ==
    ASSUME NEW v, Sentence(v), NEW cells \in Nat, NEW k \in 0 .. Len(v), k <= Slots,
           Need(v, k) <= cells, k = Len(v) \/ k = Slots \/ Need(v, k + 1) > cells
    PROVE  Kept(v, cells) = k
<1>. DEFINE N == Len(v)
            M == {N, Slots}
            n == Min(M)
            S == {j \in 0 .. n : Need(v, j) <= cells}
<1>1. N \in Nat /\ Slots \in Nat /\ \A j \in 0 .. N : Need(v, j) \in Nat
  BY NeedNat, Layout DEF Sentence
<1>2. n \in Nat /\ n <= N /\ n <= Slots /\ (n = N \/ n = Slots)
  <2>1. M \subseteq Nat /\ N \in M /\ Slots \in M  BY <1>1
  <2>2. CASE N <= Slots
    <3>1. \A y \in M : N <= y  BY <1>1, <2>2
    <3>. HIDE DEF M
    <3>2. n = N  BY <2>1, <3>1, MinIs
    <3>. QED BY <1>1, <2>2, <3>2
  <2>3. CASE Slots <= N
    <3>1. \A y \in M : Slots <= y  BY <1>1, <2>3
    <3>. HIDE DEF M
    <3>2. n = Slots  BY <2>1, <3>1, MinIs
    <3>. QED BY <1>1, <2>3, <3>2
  <2>. QED BY <1>1, <2>2, <2>3
<1>3. Kept(v, cells) = Max(S)  BY DEF Kept
<1>4. k \in Nat /\ k <= N /\ k <= n /\ (k = N \/ k = Slots \/ Need(v, k + 1) > cells)
  BY <1>1, <1>2
<1>. HIDE DEF n
<1>5. k \in S /\ S \subseteq Nat  BY <1>2, <1>4
<1>6. ASSUME NEW j \in S PROVE j <= k
  <2>. SUFFICES ASSUME ~(j <= k) PROVE FALSE  OBVIOUS
  <2>0. j \in 0 .. n /\ Need(v, j) <= cells  OBVIOUS
  <2>1. j \in Nat /\ j <= N /\ j <= Slots /\ Need(v, j) <= cells /\ k + 1 <= j
    <3>1. n \in Nat /\ n <= N /\ n <= Slots /\ k \in Nat  BY <1>2, <1>4
    <3>. HIDE DEF N, S
    <3>. QED BY <1>1, <2>0, <3>1
  <2>2. k # N /\ k # Slots  BY <1>1, <1>4, <2>1
  <2>. DEFINE z == k + 1
  <2>3. Need(v, z) > cells /\ z \in 1 .. N /\ j \in 0 .. N /\ z <= j  BY <1>1, <1>4, <2>1, <2>2
  <2>. HIDE DEF z
  <2>4. Need(v, z) <= Need(v, j) /\ Need(v, z) \in Nat /\ Need(v, j) \in Nat
    BY <1>1, <2>3, NeedGrows
  <2>. QED BY <2>1, <2>3, <2>4
<1>. HIDE DEF S
<1>7. Max(S) \in S /\ \A y \in S : Max(S) >= y
  <2>1. \A y \in S : k >= y  BY <1>4, <1>5, <1>6
  <2>. QED BY <1>5, <2>1 DEF Max
<1>8. Max(S) <= k /\ Max(S) >= k /\ Max(S) \in Nat  BY <1>5, <1>6, <1>7
<1>9. Max(S) = k  BY <1>4, <1>8
<1>. QED BY <1>3, <1>9

(* execve's vector ends at the first slot that holds 0.                    *)
LEMMA ArgPtrsIs ==
    ASSUME NEW m, NEW k \in 0 .. Slots, m[exec_args + k] = 0,
           \A i \in 1 .. k : m[exec_args + i - 1] # 0
    PROVE  ArgPtrs(m) = [i \in 1 .. k |-> m[exec_args + i - 1]]
<1>. DEFINE Ends(x) == m[x] = 0 /\ \A y \in exec_args .. x - 1 : m[y] # 0
            f == CHOOSE x \in exec_args .. exec_argv_term : Ends(x)
            e == exec_args + k
<1>1. exec_args \in Nat /\ exec_argv_term = exec_args + Slots /\ Slots \in Nat /\ k \in Nat
  BY Layout
<1>2. e \in exec_args .. exec_argv_term /\ e - exec_args = k /\ e \in Nat  BY <1>1
<1>3. Ends(e)
  <2>1. \A y \in exec_args .. e - 1 : /\ y - exec_args + 1 \in 1 .. k
                                      /\ exec_args + (y - exec_args + 1) - 1 = y
    BY <1>1
  <2>. QED BY <2>1
<1>4. f \in exec_args .. exec_argv_term /\ Ends(f)  BY <1>2, <1>3
<1>5. ArgPtrs(m) = [i \in 1 .. f - exec_args |-> m[exec_args + i - 1]]  BY DEF ArgPtrs
<1>. HIDE DEF f, e
<1>6. ~(e < f)
  <2>1. e < f => e \in exec_args .. f - 1  BY <1>1, <1>2, <1>4
  <2>. QED BY <1>3, <1>4, <2>1
<1>7. ~(f < e)
  <2>1. f < e => f \in exec_args .. e - 1  BY <1>1, <1>2, <1>4
  <2>. QED BY <1>3, <1>4, <2>1
<1>8. f = e  BY <1>1, <1>2, <1>4, <1>6, <1>7
<1>. QED BY <1>2, <1>5, <1>8

(* The strings that execve gets from k filled slots.                       *)
LEMMA ArgvIs ==
    ASSUME NEW m, NEW k \in 0 .. Slots, m[exec_args + k] = 0,
           \A i \in 1 .. k : m[exec_args + i - 1] # 0
    PROVE  Argv(m) = [i \in 1 .. k |-> CStr(m, m[exec_args + i - 1])]
<1>1. ArgPtrs(m) = [i \in 1 .. k |-> m[exec_args + i - 1]]  BY ArgPtrsIs
<1>2. DOMAIN ArgPtrs(m) = 1 .. k /\ \A i \in 1 .. k : ArgPtrs(m)[i] = m[exec_args + i - 1]
  BY <1>1
<1>. QED BY <1>2 DEF Argv

(* Each of the first k slots is the string of its word.                    *)
LEMMA StoredStrings ==
    ASSUME room \in 1 .. ArgCells, NEW v, Sentence(v), NEW m, NEW k \in 0 .. Len(v),
           Need(v, k) <= room, Stored(m, Start, v, k), NEW i \in 1 .. k
    PROVE  /\ m[exec_args + i - 1] # 0
           /\ CStr(m, m[exec_args + i - 1]) = CutAtNul(v[i])
<1>. DEFINE s == Start
            p == Need(v, i - 1)
            a == s + p
<1>1. s \in ArgAddr /\ s \in Nat /\ s + room = exec_argv /\ room \in Nat /\ s # 0
  BY StartIn, Layout DEF ArgAddr
<1>2. s + Need(v, k) <= exec_argv  BY <1>1, NeedNat
<1>. HIDE DEF s
<1>3. /\ p \in Nat /\ s + p + Len(v[i]) \in ArgAddr /\ Len(v[i]) \in Nat
      /\ v[i] \in Seq(Octets)
  BY <1>1, <1>2, ArgCellsIn
<1>4. Held(m, s, v, i) /\ Ended(m, s, v, i)  BY DEF Stored, s
<1>5. /\ m[exec_args + i - 1] = a /\ m[a + Len(v[i])] = 0
      /\ \A j \in 1 .. Len(v[i]) : m[a + j - 1] = v[i][j]
  BY <1>4 DEF Held, Ended
<1>. HIDE DEF p
<1>6. a \in Nat /\ a # 0 /\ a + Len(v[i]) <= exec_argv_term
  <2>. DEFINE l == Len(v[i])
  <2>1. s \in Nat /\ s # 0 /\ p \in Nat /\ l \in Nat  BY <1>1, <1>3
  <2>2. a + l \in ArgAddr  BY <1>3
  <2>. HIDE DEF l
  <2>3. \A x \in ArgAddr : x <= exec_argv_term  BY Layout DEF ArgAddr
  <2>4. a \in Nat /\ a # 0  BY <2>1
  <2>. QED BY <2>2, <2>3, <2>4 DEF l
<1>. HIDE DEF a
<1>7. CStr(m, a) = CutAtNul(v[i])  BY <1>3, <1>5, <1>6, CStrOfWord
<1>. QED BY <1>5, <1>6, <1>7

(* A vector that fits hands over the arguments that fit.                   *)
LEMMA FitsArgv ==
    ASSUME room \in 1 .. ArgCells, NEW v, v = ArgWords(line), Sentence(v), NEW m,
           VectorFits(m, v)
    PROVE  /\ Argv(m) = Args(line, room)
           /\ \E k \in 0 .. Slots :
                  /\ Args(line, room) = [i \in 1 .. k |-> CStr(m, m[exec_args + i - 1])]
                  /\ m[exec_args + k] = 0
                  /\ \A i \in 1 .. k : m[exec_args + i - 1] # 0
<1>1. PICK k \in 0 .. Len(v) :
          /\ k <= Slots /\ Need(v, k) <= room /\ Stored(m, Start, v, k)
          /\ m[exec_args + k] = 0
          /\ k = Len(v) \/ k = Slots \/ Need(v, k + 1) > room
  BY DEF VectorFits
<1>2. room \in Nat /\ Len(v) \in Nat /\ Slots \in Nat  BY Layout DEF Sentence
<1>3. k \in 0 .. Slots  BY <1>1, <1>2
<1>4. \A i \in 1 .. k : /\ m[exec_args + i - 1] # 0
                        /\ CStr(m, m[exec_args + i - 1]) = CutAtNul(v[i])
  BY <1>1, StoredStrings
<1>5. Argv(m) = [i \in 1 .. k |-> CStr(m, m[exec_args + i - 1])]
  BY <1>1, <1>3, <1>4, ArgvIs
<1>6. [i \in 1 .. k |-> CStr(m, m[exec_args + i - 1])] = [i \in 1 .. k |-> CutAtNul(v[i])]
  BY <1>4
<1>7. Kept(v, room) = k  BY <1>1, <1>2, KeptIs
<1>8. Args(line, room) = [i \in 1 .. k |-> CutAtNul(v[i])]  BY <1>7 DEF Args
<1>. QED BY <1>1, <1>3, <1>4, <1>5, <1>6, <1>8

(* All but the last of a function on 1 .. n.                               *)
LEMMA FrontIs ==
    ASSUME NEW f, NEW n \in Nat, n >= 1, f = [i \in 1 .. n |-> f[i]]
    PROVE  Len(f) = n /\ Front(f) = [i \in 1 .. n - 1 |-> f[i]]
<1>. DEFINE S == {f[i] : i \in 1 .. n}
<1>1. \A i \in 1 .. n : f[i] \in S  OBVIOUS
<1>. HIDE DEF S
<1>2. f \in Seq(S) /\ Len(f) = n  BY <1>1
<1>3. SubSeq(f, 1, n - 1) = [i \in 1 .. n - 1 |-> f[i]]
  <2>. DEFINE z == n - 1
  <2>1. z \in Nat /\ z <= Len(f)  BY <1>2
  <2>. HIDE DEF z
  <2>2. SubSeq(f, 1, z) = [i \in 1 .. z |-> f[i]]  BY <1>2, <2>1
  <2>. QED BY <2>2 DEF z
<1>. QED BY <1>2, <1>3 DEF Front

(* A vector without room for its last NUL hands over the others.           *)
LEMMA BrimsArgv ==
    ASSUME room \in 1 .. ArgCells, NEW v, v = ArgWords(line), Sentence(v), NEW m,
           VectorBrims(m, v), Open(ArgText(line)),
           NEW w, NEW open, FirstWord(Text(line), w, open)
    PROVE  /\ FilledToTheBrim(line, room)
           /\ Len(Argv(m)) = Len(v) /\ Front(Argv(m)) = Args(line, room)
<1>. DEFINE N == Len(v)
            z == N - 1
<1>1. /\ N \in 1 .. Slots /\ Need(v, N) = room + 1
      /\ Stored(m, Start, v, z) /\ Held(m, Start, v, N) /\ m[exec_args + N] = 0
  BY DEF VectorBrims
<1>2. room \in Nat /\ N \in Nat /\ Slots \in Nat /\ z \in 0 .. Len(v) /\ z <= Slots
      /\ N \in 1 .. Len(v) /\ z + 1 = N /\ N \in 0 .. Slots
  BY <1>1, Layout DEF Sentence
<1>3. /\ Need(v, N) = Need(v, z) + Len(v[N]) + 1 /\ Need(v, z) \in Nat
      /\ Len(v[N]) \in Nat /\ Len(v[N]) >= 1
  BY <1>2, NeedGrows DEF Sentence
<1>. DEFINE p == Need(v, z)
            r == Need(v, N)
            l == Len(v[N])
<1>4. p <= room /\ r > room
  <2>1. r = p + l + 1 /\ r = room + 1 /\ p \in Nat /\ l \in Nat  BY <1>1, <1>3
  <2>. HIDE DEF p, r, l
  <2>. QED BY <1>2, <2>1
<1>5. Kept(v, room) = z
  <2>1. Need(v, z + 1) > room  BY <1>2, <1>4
  <2>2. z \in 0 .. Len(v) /\ z <= Slots /\ Need(v, z) <= room  BY <1>2, <1>4
  <2>. HIDE DEF z
  <2>. QED BY <1>2, <2>1, <2>2, KeptIs
<1>6. Args(line, room) = [i \in 1 .. z |-> CutAtNul(v[i])]  BY <1>5 DEF Args
<1>7. \A i \in 1 .. z : /\ m[exec_args + i - 1] # 0
                        /\ CStr(m, m[exec_args + i - 1]) = CutAtNul(v[i])
  <2>1. z \in 0 .. Len(v) /\ Need(v, z) <= room /\ Stored(m, Start, v, z)
    BY <1>1, <1>2, <1>4
  <2>. HIDE DEF z
  <2>. QED BY <2>1, StoredStrings
<1>8. m[exec_args + N - 1] # 0
  <2>1. m[exec_args + N - 1] = Start + p  BY <1>1 DEF Held
  <2>2. Start \in Nat /\ Start # 0  BY StartIn, Layout DEF ArgAddr
  <2>. HIDE DEF p
  <2>3. p \in Nat  BY <1>3 DEF p
  <2>. QED BY <2>1, <2>2, <2>3
<1>9. \A i \in 1 .. N : m[exec_args + i - 1] # 0
  <2>1. N \in Nat  BY <1>2
  <2>2. \A i \in 1 .. N : i \in 1 .. N - 1 \/ i = N
    <3>. HIDE DEF N
    <3>. QED BY <2>1
  <2>. QED BY <1>7, <1>8, <2>2
<1>. DEFINE f == Argv(m)
<1>10. f = [i \in 1 .. N |-> CStr(m, m[exec_args + i - 1])]
  BY <1>1, <1>2, <1>9, ArgvIs
<1>11. /\ f = [i \in 1 .. N |-> f[i]]
       /\ \A i \in 1 .. z : f[i] = CutAtNul(v[i])
  <2>. HIDE DEF f
  <2>1. \A i \in 1 .. z : i \in 1 .. N  BY <1>2
  <2>. QED BY <1>7, <1>10, <2>1
<1>12. Len(f) = N /\ Front(f) = [i \in 1 .. z |-> f[i]]
  <2>1. N >= 1  BY <1>1
  <2>. HIDE DEF f, N
  <2>. QED BY <1>2, <1>11, <2>1, FrontIs DEF z
<1>13. Front(f) = Args(line, room)
  <2>. HIDE DEF f, z
  <2>. QED BY <1>6, <1>11, <1>12
<1>14. Text(line)[Len(Text(line))] # SP
  <2>. DEFINE t == Text(line)
  <2>1. PICK i, j : Leads(t, i, j)  BY DEF FirstWord
  <2>. DEFINE a == IF j <= i + NameCells THEN j ELSE i + NameCells
  <2>2. ArgText(line) = SubSeq(t, a + 1, Len(t)) /\ a \in Nat /\ a <= Len(t)
    BY <2>1, ArgTextIs
  <2>3. t \in Seq(Nat) /\ Len(t) \in Nat  BY <2>1, LeadsFacts
  <2>. HIDE DEF a, t
  <2>. DEFINE q == ArgText(line)
  <2>4. Len(q) > 0 /\ q[Len(q)] # SP  BY DEF Open
  <2>5. /\ Len(q) = Len(t) - a
        /\ \A x \in 1 .. Len(t) - a : q[x] = t[a + x]
    BY <2>2, <2>3
  <2>. HIDE DEF q
  <2>6. Len(t) - a \in 1 .. Len(t) - a /\ a + (Len(t) - a) = Len(t)  BY <2>2, <2>3, <2>4, <2>5
  <2>7. q[Len(t) - a] = t[a + (Len(t) - a)]  BY <2>5, <2>6
  <2>. QED BY <2>4, <2>5, <2>6, <2>7 DEF t
<1>15. FilledToTheBrim(line, room)  BY <1>1, <1>14 DEF FilledToTheBrim
<1>. QED BY <1>12, <1>13, <1>15

----------------------------------------------------------------------------
(* Every step keeps the arguments.                                         *)

(* While the arguments are owed, the line has a command.                   *)
LEMMA OwedWords ==
    ASSUME EndedInv, ArgsOwed
    PROVE  /\ \E w, open : FirstWord(Text(line), w, open)
           /\ Sentence(ArgWords(line))
<1>1. PICK w, open : FirstWord(Text(line), w, open)
  BY DEF EndedInv, ArgsOwed, Acting, Handlers
<1>. QED BY <1>1, ArgWordsSentence

(* A step that leaves the vector alone.                                    *)
LEMMA OwedStep ==
    ASSUME EndedInv, ArgsRead, ArgsOwed, UNCHANGED <<line, room>>,
           \A a \in ArgAddr \cup SlotAddr \cup {exec_argv_term} : mem'[a] = mem[a]
    PROVE  ArgsRead'
<1>1. PICK v : v = ArgWords(line)  OBVIOUS
<1>2. Sentence(v)  BY <1>1, OwedWords
<1>3. /\ room \in 1 .. ArgCells
      /\ VectorFits(mem, v) \/ (VectorBrims(mem, v) /\ Open(ArgText(line)))
  BY <1>1 DEF ArgsRead
<1>. DEFINE n == mem'
<1>4. \A a \in ArgAddr \cup SlotAddr \cup {exec_argv_term} : n[a] = mem[a]  OBVIOUS
<1>. HIDE DEF n
<1>5. VectorFits(n, v) \/ (VectorBrims(n, v) /\ Open(ArgText(line)))
  BY <1>2, <1>3, <1>4, VectorFrame
<1>6. VectorFits(mem', v) \/ (VectorBrims(mem', v) /\ Open(ArgText(line)))  BY <1>5 DEF n
<1>. QED BY <1>1, <1>3, <1>6, ArgsReadNext

(* The parts of the invariant after a step that the arguments do not       *)
(* depend on.                                                              *)
LEMMA NotReading == ASSUME pc' \notin Reading PROVE ArgsReading'
  BY DEF ArgsReading
(* Labels at which the vector is owed to nobody.                           *)
LEMMA NothingOwed ==
    ASSUME pc' \in Reading \cup Idle \cup {"unknown_command"} \/ (pc' = "after_read" /\ read_status')
    PROVE  ArgsRead'
  BY DEF ArgsRead, ArgsOwed, ReadWell, Reading, Idle, Handlers
(* Observations that show no arguments.                                    *)
LEMMA NothingObserved ==
    ASSUME obs'.kind \notin {"exec", "cd"}
    PROVE  ArgvFaithful' /\ CdTarget'
  BY DEF ArgvFaithful, CdTarget
(* A step inside the line shows nothing yet.                               *)
LEMMA ObservedBefore ==
    ASSUME ObsInv, UNCHANGED obs, pc \notin {"wait4", "external_failed", "msh_loop", "exited"}
    PROVE  ArgvFaithful' /\ CdTarget'
<1>1. obs'.kind = "none"  BY DEF ObsInv
<1>. QED BY <1>1, NothingObserved

(* The reader's steps.                                                     *)
LEMMA ReaderKeepsArguments ==
    ASSUME Inv, CommandInv, CommandInv', ArgumentsInv,
           ReadByte \/ ReadEof \/ ReadFail \/ ReadParse \/ RpFinish
    PROVE  ArgumentsInv'
<1>0. LineInv /\ NameInv /\ NameInv' /\ ArgsReading /\ ObsInv /\ TypeOK
  BY DEF CommandInv, ArgumentsInv, Inv
<1>1. CASE ReadByte
  <2>1. PICK b \in Input : RpSpace(b) \/ RpCmd(b) \/ RpArg(b) \/ RpDrain(b)
    BY <1>1 DEF ReadByte
  <2>2. ArgsReading'
    BY <1>0, <2>1, RpSpaceKeepsArgs, RpCmdKeepsArgs, RpArgKeepsArgs, RpDrainKeepsArgs
  <2>3. pc \in Reading /\ pc' \in Reading
    BY <1>0, <2>1, RpSpaceKeepsName, RpCmdKeepsName, RpArgKeepsName, RpDrainKeepsName
  <2>4. obs' = obs  BY <2>1 DEF RpSpace, RpCmd, RpArg, RpDrain, Deliver
  <2>5. ArgvFaithful' /\ CdTarget'  BY <1>0, <2>3, <2>4, ObservedBefore DEF Reading
  <2>. QED BY <2>2, <2>3, <2>5, NothingOwed DEF ArgumentsInv
<1>2. CASE ReadEof
  <2>1. ArgsReading'  BY <1>0, <1>2, ReadEofKeepsArgs
  <2>2. /\ pc \in Reading /\ pc' \in {"rp_finish", "eof"} /\ obs' = obs
    BY <1>2 DEF ReadEof, history, Reading
  <2>3. ArgvFaithful' /\ CdTarget'  BY <1>0, <2>2, ObservedBefore DEF Reading
  <2>4. ArgsRead'  BY <2>2, NothingOwed DEF Reading, Idle
  <2>. QED BY <2>1, <2>3, <2>4 DEF ArgumentsInv
<1>3. CASE ReadFail
  <2>1. /\ pc \in Reading /\ pc' = "after_read" /\ read_status' /\ obs' = obs
    BY <1>3 DEF ReadFail, history, Reading
  <2>2. ArgvFaithful' /\ CdTarget'  BY <1>0, <2>1, ObservedBefore DEF Reading
  <2>3. ArgsRead'  BY <2>1, NothingOwed
  <2>4. ArgsReading'  BY <2>1, NotReading DEF Reading
  <2>. QED BY <2>2, <2>3, <2>4 DEF ArgumentsInv
<1>4. CASE ReadParse
  <2>1. ArgsReading'  BY <1>4, ReadParseKeepsArgs
  <2>2. pc' = "rp_space" /\ obs'.kind = "none"  BY <1>4 DEF ReadParse, NoObs
  <2>3. ArgvFaithful' /\ CdTarget'  BY <2>2, NothingObserved
  <2>4. ArgsRead'  BY <2>2, NothingOwed DEF Reading
  <2>. QED BY <2>1, <2>3, <2>4 DEF ArgumentsInv
<1>5. CASE RpFinish
  <2>1. ArgsRead'  BY <1>0, <1>5, RpFinishKeepsArgs
  <2>2. /\ pc = "rp_finish" /\ pc' = "after_read" /\ obs' = obs
    BY <1>5 DEF RpFinish, history
  <2>3. ArgvFaithful' /\ CdTarget'  BY <1>0, <2>2, ObservedBefore
  <2>4. ArgsReading'  BY <2>2, NotReading DEF Reading
  <2>. QED BY <2>1, <2>3, <2>4 DEF ArgumentsInv
<1>. QED BY <1>1, <1>2, <1>3, <1>4, <1>5

(* The dispatch and the steps to fork.                                     *)
LEMMA DispatchKeepsArguments ==
    ASSUME Inv, CommandInv, ArgumentsInv,
           AfterRead \/ RunMfsAlias \/ DoExternal \/ RunExternal
    PROVE  ArgumentsInv'
<1>0. EndedInv /\ ObsInv /\ ArgsRead /\ TypeOK
  BY DEF CommandInv, ArgumentsInv, Inv
<1>1. CASE AfterRead
  <2>1. /\ pc = "after_read" /\ UNCHANGED <<mem, line, room, obs>>
        /\ pc' = IF read_status THEN "read_failed" ELSE IF ~cmd_started THEN "msh_loop"
                 ELSE Dispatched
    BY <1>1 DEF AfterRead, history
  <2>2. Dispatched \in Handlers \cup {"do_external"}  BY DispatchedIs, HandlerIs
  <2>3. ArgsReading'  BY <2>1, <2>2, NotReading DEF Reading, Handlers
  <2>4. ArgvFaithful' /\ CdTarget'  BY <1>0, <2>1, ObservedBefore
  <2>5. ArgsRead'
    <3>1. CASE read_status \/ ~cmd_started  BY <2>1, <3>1, NothingOwed DEF Idle
    <3>2. CASE ~read_status /\ cmd_started
      <4>1. ArgsOwed  BY <2>1, <3>2 DEF ArgsOwed, ReadWell
      <4>. QED BY <1>0, <2>1, <4>1, OwedStep
    <3>. QED BY <3>1, <3>2
  <2>. QED BY <2>3, <2>4, <2>5 DEF ArgumentsInv
<1>2. CASE RunMfsAlias
  <2>1. /\ pc \in Handlers /\ pc' = "run_external" /\ UNCHANGED <<line, room, obs>>
        /\ (cmd_image_ptr' = mfs_ls_image \/ mem' = mem)
    BY <1>2 DEF RunMfsAlias, history, Handlers
  <2>2. ArgsReading'  BY <2>1, NotReading DEF Reading
  <2>3. ArgvFaithful' /\ CdTarget'  BY <1>0, <2>1, ObservedBefore DEF Handlers
  <2>4. ArgsRead'
    <3>1. CASE cmd_image_ptr' = mfs_ls_image
      BY <2>1, <3>1 DEF ArgsRead, ArgsOwed, ReadWell, Handlers
    <3>2. CASE mem' = mem
      <4>1. ArgsOwed  BY <2>1 DEF ArgsOwed
      <4>. QED BY <1>0, <2>1, <3>2, <4>1, OwedStep
    <3>. QED BY <2>1, <3>1, <3>2
  <2>. QED BY <2>2, <2>3, <2>4 DEF ArgumentsInv
<1>3. CASE DoExternal
  <2>1. pc = "do_external" /\ pc' = "run_external" /\ UNCHANGED <<line, room, obs>>
    BY <1>3 DEF DoExternal, history
  <2>2. ArgsReading'  BY <2>1, NotReading DEF Reading
  <2>3. ArgvFaithful' /\ CdTarget'  BY <1>0, <2>1, ObservedBefore
  <2>4. PICK c1, c2, c3 :
               /\ c1 = IF path_cur \in {0, cmd_name - 1} THEN 0 ELSE path_cur + 1
               /\ c2 = IF c1 \in {0, cmd_name - 1} THEN 0 ELSE c1 + 1
               /\ c3 = IF c2 \in {0, cmd_name - 1} THEN 0 ELSE c2 + 1
               /\ \A a \in Addr : mem'[a] = IF a = c3 THEN 0 ELSE IF a = c2 THEN 98
                                            ELSE IF a = c1 THEN 109
                                            ELSE IF a = path_cur THEN 46 ELSE mem[a]
    BY <1>3, ExternalCells
  <2>5. path_cur \in PathAddr \cup {0}  BY <1>0 DEF TypeOK
  <2>6. c1 < arg_buf /\ c2 < arg_buf /\ c3 < arg_buf /\ path_cur < arg_buf
    <3>1. \A c \in PathAddr \cup {0} :
              (IF c \in {0, cmd_name - 1} THEN 0 ELSE c + 1) \in PathAddr \cup {0}
      BY Layout DEF PathAddr
    <3>2. c1 \in PathAddr \cup {0}  BY <2>4, <2>5, <3>1
    <3>3. c2 \in PathAddr \cup {0}  BY <2>4, <3>1, <3>2
    <3>4. c3 \in PathAddr \cup {0}  BY <2>4, <3>1, <3>3
    <3>5. \A c \in PathAddr \cup {0} : c < arg_buf  BY Layout DEF PathAddr
    <3>. QED BY <2>5, <3>2, <3>3, <3>4, <3>5
  <2>7. \A a \in ArgAddr \cup SlotAddr \cup {exec_argv_term} :
            a \in Addr /\ ~(a < arg_buf)
    BY Layout DEF ArgAddr, SlotAddr, Addr
  <2>8. \A a \in ArgAddr \cup SlotAddr \cup {exec_argv_term} : mem'[a] = mem[a]
    BY <2>4, <2>6, <2>7
  <2>9. ArgsOwed  BY <2>1 DEF ArgsOwed
  <2>10. ArgsRead'  BY <1>0, <2>1, <2>8, <2>9, OwedStep
  <2>. QED BY <2>2, <2>3, <2>10 DEF ArgumentsInv
<1>4. CASE RunExternal
  <2>1. /\ pc = "run_external" /\ pc' \in {"fork", "unknown_command"}
        /\ UNCHANGED <<line, room, obs, cmd_image_ptr>>
        /\ mem' = Store(mem, exec_argv + 1, cmd_image_ptr)
    BY <1>4 DEF RunExternal, history
  <2>2. ArgsReading'  BY <2>1, NotReading DEF Reading
  <2>3. ArgvFaithful' /\ CdTarget'  BY <1>0, <2>1, ObservedBefore
  <2>4. \A a \in ArgAddr \cup SlotAddr \cup {exec_argv_term} : mem'[a] = mem[a]
    <3>1. \A a \in ArgAddr \cup SlotAddr \cup {exec_argv_term} :
              a \in Addr /\ a # exec_argv + 1
      BY Layout DEF ArgAddr, SlotAddr, Addr
    <3>2. \A a \in Addr : a # exec_argv + 1 => mem'[a] = mem[a]
      BY <1>0, <2>1 DEF TypeOK, Store
    <3>. QED BY <3>1, <3>2
  <2>5. ArgsRead'
    <3>1. CASE pc' = "unknown_command"  BY <3>1, NothingOwed
    <3>2. CASE cmd_image_ptr = mfs_ls_image
      BY <2>1, <3>2 DEF ArgsRead, ArgsOwed, ReadWell, Handlers
    <3>3. CASE cmd_image_ptr # mfs_ls_image
      <4>1. ArgsOwed  BY <2>1, <3>3 DEF ArgsOwed
      <4>. QED BY <1>0, <2>1, <2>4, <4>1, OwedStep
    <3>. QED BY <3>1, <3>2, <3>3
  <2>. QED BY <2>2, <2>3, <2>5 DEF ArgumentsInv
<1>. QED BY <1>1, <1>2, <1>3, <1>4

(* The first of the arguments, if there is one.                            *)
LEMMA FirstArg ==
    ASSUME NEW f, NEW k \in Nat, f = [i \in 1 .. k |-> f[i]]
    PROVE  /\ k = 0 => SubSeq(f, 1, Min({1, Len(f)})) = <<>>
           /\ k >= 1 => SubSeq(f, 1, Min({1, Len(f)})) = <<f[1]>>
<1>. DEFINE S == {f[i] : i \in 1 .. k}
<1>1. \A i \in 1 .. k : f[i] \in S  OBVIOUS
<1>. HIDE DEF S
<1>2. f \in Seq(S) /\ Len(f) = k  BY <1>1
<1>3. CASE k = 0
  <2>. DEFINE M == {1, Len(f)}
  <2>1. M \subseteq Nat /\ 0 \in M /\ \A y \in M : 0 <= y  BY <1>2, <1>3
  <2>. HIDE DEF M
  <2>2. Min(M) = 0  BY <2>1, MinIs
  <2>3. SubSeq(f, 1, 0) = <<>>  BY <1>2
  <2>. QED BY <1>3, <2>2, <2>3 DEF M
<1>4. CASE k >= 1
  <2>. DEFINE M == {1, Len(f)}
  <2>1. M \subseteq Nat /\ 1 \in M /\ \A y \in M : 1 <= y  BY <1>2, <1>4
  <2>. HIDE DEF M
  <2>2. Min(M) = 1  BY <2>1, MinIs
  <2>. DEFINE a == SubSeq(f, 1, 1)
              b == <<f[1]>>
  <2>3. a \in Seq(S) /\ Len(a) = 1 /\ a[1] = f[1]  BY <1>2, <1>4
  <2>4. b \in Seq(S) /\ Len(b) = 1 /\ b[1] = f[1]  BY <1>1, <1>4
  <2>. HIDE DEF a, b
  <2>5. \A i \in 1 .. 1 : a[i] = b[i]  BY <2>3, <2>4
  <2>6. a = b  BY <2>3, <2>4, <2>5
  <2>7. ~(k = 0) /\ SubSeq(f, 1, Min(M)) = b  BY <1>4, <2>2, <2>6 DEF a
  <2>. QED BY <2>7 DEF M, b
<1>. QED BY <1>3, <1>4

(* cd looks at the first slot.                                             *)
LEMMA DoCdKeepsArguments ==
    ASSUME CommandInv, ArgumentsInv, DoCd
    PROVE  ArgumentsInv'
<1>1. /\ pc = "do_cd" /\ pc' = "msh_loop" /\ UNCHANGED <<line, room, mem>>
      /\ obs'.kind = "cd"
      /\ mem[exec_args] = 0 => obs'.args = <<>>
      /\ mem[exec_args] # 0 => obs'.args = <<CStr(mem, mem[exec_args])>>
  BY DEF DoCd, Observe
<1>2. ArgsReading' /\ ArgsRead'  BY <1>1, NotReading, NothingOwed DEF Reading, Idle
<1>3. ArgvFaithful'  BY <1>1 DEF ArgvFaithful
<1>4. PICK v : v = ArgWords(line)  OBVIOUS
<1>5. ArgsOwed /\ EndedInv  BY <1>1 DEF ArgsOwed, Handlers, CommandInv
<1>6. Sentence(v) /\ \E w, open : FirstWord(Text(line), w, open)  BY <1>4, <1>5, OwedWords
<1>7. /\ room \in 1 .. ArgCells
      /\ VectorFits(mem, v) \/ (VectorBrims(mem, v) /\ Open(ArgText(line)))
  BY <1>4, <1>5 DEF ArgumentsInv, ArgsRead
<1>8. CASE VectorFits(mem, v)
  <2>1. PICK k \in 0 .. Slots :
                  /\ Args(line, room) = [i \in 1 .. k |-> CStr(mem, mem[exec_args + i - 1])]
                  /\ mem[exec_args + k] = 0
                  /\ \A i \in 1 .. k : mem[exec_args + i - 1] # 0
    BY <1>4, <1>6, <1>7, <1>8, FitsArgv
  <2>. DEFINE f == Args(line, room)
  <2>2. f = [i \in 1 .. k |-> f[i]]  BY <2>1
  <2>3. k \in Nat /\ exec_args \in Nat  BY Layout
  <2>4. obs'.args = SubSeq(f, 1, Min({1, Len(f)}))
    <3>1. CASE k = 0
      <4>1. exec_args + k = exec_args  BY <2>3, <3>1
      <4>2. mem[exec_args] = 0  BY <2>1, <4>1
      <4>. HIDE DEF f
      <4>. QED BY <1>1, <2>2, <2>3, <3>1, <4>2, FirstArg
    <3>2. CASE k >= 1
      <4>1. exec_args + 1 - 1 = exec_args /\ 1 \in 1 .. k  BY <2>3, <3>2
      <4>2. mem[exec_args] # 0 /\ f[1] = CStr(mem, mem[exec_args])  BY <2>1, <4>1
      <4>. HIDE DEF f
      <4>. QED BY <1>1, <2>2, <2>3, <3>2, <4>2, FirstArg
    <3>3. k = 0 \/ k >= 1  BY <2>3
    <3>. HIDE DEF f
    <3>. QED BY <3>1, <3>2, <3>3
  <2>5. CdTarget'  BY <1>1, <2>4 DEF CdTarget
  <2>. QED BY <1>2, <1>3, <2>5 DEF ArgumentsInv
<1>9. CASE VectorBrims(mem, v) /\ Open(ArgText(line))
  <2>1. FilledToTheBrim(line, room)  BY <1>4, <1>6, <1>7, <1>9, BrimsArgv
  <2>2. FilledToTheBrim(line, room)'  BY <1>1, <2>1
  <2>3. CdTarget'  BY <2>2 DEF CdTarget
  <2>. QED BY <1>2, <1>3, <2>3 DEF ArgumentsInv
<1>. QED BY <1>7, <1>8, <1>9

(* What the child is given.                                                *)
LEMMA ForkKeepsArguments ==
    ASSUME CommandInv, ArgumentsInv, Fork
    PROVE  ArgumentsInv'
<1>1. /\ pc = "fork" /\ pc' \in {"wait4", "external_failed"} /\ UNCHANGED <<line, room, mem>>
      /\ \/ obs'.kind = "exec" /\ obs'.args = Argv(mem)
         \/ obs'.kind = "exec_failed"
         \/ obs' = obs
  BY DEF Fork, Observe
<1>2. ArgsReading' /\ ArgsRead'  BY <1>1, NotReading, NothingOwed DEF Reading, Idle
<1>3. CASE obs'.kind = "exec_failed"
  <2>1. ArgvFaithful' /\ CdTarget'  BY <1>3, NothingObserved
  <2>. QED BY <1>2, <2>1 DEF ArgumentsInv
<1>4. CASE obs' = obs
  <2>1. ArgvFaithful' /\ CdTarget'  BY <1>1, <1>4, ObservedBefore DEF CommandInv
  <2>. QED BY <1>2, <2>1 DEF ArgumentsInv
<1>5. CASE obs'.kind = "exec" /\ obs'.args = Argv(mem)
  <2>1. CdTarget'  BY <1>5 DEF CdTarget
  <2>2. ASSUME mem[exec_argv + 1] # mfs_ls_image
        PROVE  \/ Argv(mem) = Args(line, room)
               \/ /\ FilledToTheBrim(line, room)
                  /\ Len(Argv(mem)) = Len(ArgWords(line))
                  /\ Front(Argv(mem)) = Args(line, room)
    <3>1. cmd_image_ptr # mfs_ls_image  BY <1>1, <2>2 DEF CommandInv, ImageInv
    <3>2. ArgsOwed /\ EndedInv  BY <1>1, <3>1 DEF ArgsOwed, CommandInv
    <3>3. PICK v : v = ArgWords(line)  OBVIOUS
    <3>4. Sentence(v) /\ \E w, open : FirstWord(Text(line), w, open)  BY <3>2, <3>3, OwedWords
    <3>5. /\ room \in 1 .. ArgCells
          /\ VectorFits(mem, v) \/ (VectorBrims(mem, v) /\ Open(ArgText(line)))
      BY <3>2, <3>3 DEF ArgumentsInv, ArgsRead
    <3>6. CASE VectorFits(mem, v)
      <4>1. Argv(mem) = Args(line, room)  BY <3>3, <3>4, <3>5, <3>6, FitsArgv
      <4>. QED BY <4>1
    <3>7. CASE VectorBrims(mem, v) /\ Open(ArgText(line))
      <4>1. /\ FilledToTheBrim(line, room)
            /\ Len(Argv(mem)) = Len(v) /\ Front(Argv(mem)) = Args(line, room)
        BY <3>3, <3>4, <3>5, <3>7, BrimsArgv
      <4>. QED BY <3>3, <4>1
    <3>. QED BY <3>5, <3>6, <3>7
  <2>3. ArgvFaithful'  BY <1>1, <1>5, <2>2 DEF ArgvFaithful
  <2>. QED BY <1>2, <2>1, <2>3 DEF ArgumentsInv
<1>. QED BY <1>1, <1>3, <1>4, <1>5

(* The other acts.                                                         *)
LEMMA QuietActsKeepArguments ==
    ASSUME ArgumentsInv,
           \/ ReadFailed \/ DoHelp \/ DoExit \/ UnknownCommand
           \/ Wait4 \/ ExternalFailed
    PROVE  ArgumentsInv'
<1>1. pc' \in Idle
  BY DEF ReadFailed, DoHelp, DoExit, UnknownCommand, Wait4, ExternalFailed, Idle
<1>2. ArgsReading' /\ ArgsRead'  BY <1>1, NotReading, NothingOwed DEF Reading, Idle
<1>3. CASE ReadFailed \/ DoHelp \/ DoExit \/ UnknownCommand
  <2>1. obs'.kind \in {"read_failed", "help", "exit", "unknown"}
    BY <1>3 DEF ReadFailed, DoHelp, DoExit, UnknownCommand, Observe
  <2>2. ArgvFaithful' /\ CdTarget'  BY <2>1, NothingObserved
  <2>. QED BY <1>2, <2>2 DEF ArgumentsInv
<1>4. CASE Wait4 \/ ExternalFailed
  <2>1. UNCHANGED <<mem, line, room, obs>>  BY <1>4 DEF Wait4, ExternalFailed, history
  <2>2. ArgvFaithful' /\ CdTarget'  BY <2>1 DEF ArgumentsInv, ArgvFaithful, CdTarget
  <2>. QED BY <1>2, <2>2 DEF ArgumentsInv
<1>. QED BY <1>3, <1>4

(* A step that changes nothing.                                            *)
LEMMA StutterKeepsArguments ==
    ASSUME Inv, CommandInv, ArgumentsInv, UNCHANGED vars
    PROVE  ArgumentsInv'
<1>1. UNCHANGED <<pc, mem, arg_cur, xcur, cmd_done, cmd_started, read_status,
                  cmd_image_ptr, line, room, obs>>
  BY DEF vars, cursors, flags, history
<1>2. ArgsReading'
  <2>1. CASE pc \in Reading
    <3>1. ArgsAlone /\ Text(line') = Text(line)  BY <1>1 DEF ArgsAlone
    <3>. QED BY <1>1, <2>1, <3>1, QuietArgs DEF Inv, CommandInv, ArgumentsInv
  <2>2. CASE pc \notin Reading  BY <1>1, <2>2, NotReading
  <2>. QED BY <2>1, <2>2
<1>3. ArgsRead'
  <2>1. CASE ArgsOwed
    BY <1>1, <2>1, OwedStep DEF CommandInv, ArgumentsInv
  <2>2. CASE ~ArgsOwed
    BY <1>1, <2>2 DEF ArgsRead, ArgsOwed, ReadWell
  <2>. QED BY <2>1, <2>2
<1>4. ArgvFaithful' /\ CdTarget'  BY <1>1 DEF ArgumentsInv, ArgvFaithful, CdTarget
<1>. QED BY <1>2, <1>3, <1>4 DEF ArgumentsInv

(* Every step of the shell keeps the arguments.                            *)
LEMMA NextKeepsArguments ==
    Inv /\ CommandInv /\ CommandInv' /\ ArgumentsInv /\ [Next]_vars => ArgumentsInv'
<1>. SUFFICES ASSUME Inv, CommandInv, CommandInv', ArgumentsInv, [Next]_vars
              PROVE  ArgumentsInv'
  OBVIOUS
<1>1. CASE ReadByte \/ ReadEof \/ ReadFail \/ ReadParse \/ RpFinish
  BY <1>1, ReaderKeepsArguments
<1>2. CASE AfterRead \/ RunMfsAlias \/ DoExternal \/ RunExternal
  BY <1>2, DispatchKeepsArguments
<1>3. CASE DoCd  BY <1>3, DoCdKeepsArguments
<1>4. CASE Fork  BY <1>4, ForkKeepsArguments
<1>5. CASE ReadFailed \/ DoHelp \/ DoExit \/ UnknownCommand \/ Wait4 \/ ExternalFailed
  BY <1>5, QuietActsKeepArguments
<1>6. CASE UNCHANGED vars  BY <1>6, StutterKeepsArguments
<1>. QED BY <1>1, <1>2, <1>3, <1>4, <1>5, <1>6 DEF Next, Shell, Exited

(* From the prompt to the act of the line, arg_buf and exec_args hold the  *)
(* arguments typed: whole, open in the last one, or up to one that was     *)
(* dropped (rp_space, rp_arg, rp_arg_drop, rp_drain, rp_finish).           *)
THEOREM MshArgumentsCorrect == Spec => []ArgumentsInv
<1>1. Init => ArgumentsInv
  <2>. SUFFICES ASSUME Init PROVE ArgumentsInv  OBVIOUS
  <2>1. pc = "msh_loop" /\ obs.kind = "none"  BY DEF Init, NoObs
  <2>2. ArgsReading /\ ArgsRead
    BY <2>1 DEF ArgsReading, ArgsRead, ArgsOwed, ReadWell, Reading, Handlers
  <2>. QED BY <2>1, <2>2 DEF ArgumentsInv, ArgvFaithful, CdTarget
<1>2. Spec => []Inv
  <2>1. Init => Inv  BY InitInv
  <2>2. Inv /\ [Next]_vars => Inv'  BY NextKeepsInv
  <2>. QED BY <2>1, <2>2, PTL DEF Spec
<1>3. Inv /\ CommandInv /\ CommandInv' /\ ArgumentsInv /\ [Next]_vars => ArgumentsInv'
  BY NextKeepsArguments
<1>. QED BY <1>1, <1>2, <1>3, MshCommandCorrect, PTL DEF Spec

(* execve gets the arguments typed that fit, each up to its own NUL and in *)
(* order, for every buffer size and whatever the lines before left in      *)
(* arg_buf; only an argument that ends the line and fills the buffer to    *)
(* its last cell is not handed over as typed.                              *)
THEOREM MshArgvFaithful == Spec => []ArgvFaithful
<1>1. ArgumentsInv => ArgvFaithful  BY DEF ArgumentsInv
<1>. QED BY <1>1, MshArgumentsCorrect, PTL

(* cd goes to the first argument typed, and to / only if there is none     *)
(* that fits, with the same exception.                                     *)
THEOREM MshCdTarget == Spec => []CdTarget
<1>1. ArgumentsInv => CdTarget  BY DEF ArgumentsInv
<1>. QED BY <1>1, MshArgumentsCorrect, PTL
=============================================================================
