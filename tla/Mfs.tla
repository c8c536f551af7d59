-------------------------------- MODULE Mfs --------------------------------
(***************************************************************************)
(* MFS v1: the image and the manifest that tools/mkmfs.py makes of a       *)
(* directory, and mfs.cat, which takes a file out of the image by the      *)
(* bounds the manifest gave it when it was assembled.                      *)
(*                                                                         *)
(* A directory is a sequence of files, in the order of their paths; a file *)
(* has a name (bytes, none 0) and data.  A number of the header or of an   *)
(* entry takes one cell here.                                              *)
(***************************************************************************)
EXTENDS Integers, Sequences, SequencesExt

CONSTANTS
    BLOCK_SIZE, HEADER_SIZE, ENTRY_SIZE, NAME_SIZE, SLOTS,  \* 512, 512, 128, 96, 16
    MfsBuf      \* cells of mfs_buf in the MFS tools (8192)

(* The parts fit: the header its seven numbers, an entry its name and two  *)
(* numbers, and mfs_buf at least the header and the table.                 *)
ASSUME MfsAssumption ==
    /\ BLOCK_SIZE \in Nat \ {0} /\ HEADER_SIZE \in Nat /\ HEADER_SIZE >= 7
    /\ NAME_SIZE \in Nat \ {0} /\ ENTRY_SIZE \in Nat /\ ENTRY_SIZE >= NAME_SIZE + 2
    /\ SLOTS \in Nat \ {0}
    /\ MfsBuf \in Nat /\ MfsBuf >= HEADER_SIZE + SLOTS * ENTRY_SIZE

MAGIC == 77

Zeros(n) == [k \in 1 .. n |-> 0]
Padded(s, n) == s \o Zeros(n - Len(s))

align(n) == ((n + BLOCK_SIZE - 1) \div BLOCK_SIZE) * BLOCK_SIZE

----------------------------------------------------------------------------
(* mkmfs.py *)

(* What rglob finds: paths, not empty, without NUL, each once. *)
IsDirectory(root) ==
    /\ root \in Seq([name : Seq(1 .. 255), data : Seq(0 .. 255)])
    /\ \A k \in DOMAIN root : root[k].name # <<>>
    /\ \A j, k \in DOMAIN root : root[j].name = root[k].name => j = k

(* collect refuses a long path, build more files than slots. *)
Rejected(root) == Len(root) > SLOTS \/ \E k \in DOMAIN root : Len(root[k].name) >= NAME_SIZE

data_offset == HEADER_SIZE + SLOTS * ENTRY_SIZE

Offsets(root) ==
    LET offset[k \in DOMAIN root] ==
            align(IF k = 1 THEN data_offset ELSE offset[k-1] + Len(root[k-1].data))
    IN  offset

Payload(root) ==
    LET payload[k \in 0 .. Len(root)] ==
            IF k = 0 THEN <<>>
            ELSE Padded(payload[k-1], Offsets(root)[k] - data_offset) \o root[k].data
    IN  payload[Len(root)]

Header(root) ==
    Padded(<<MAGIC, BLOCK_SIZE, Len(root), HEADER_SIZE, data_offset,
             data_offset + Len(Payload(root)), ENTRY_SIZE>>, HEADER_SIZE)

Table(root) ==
    FlattenSeq([k \in 1 .. SLOTS |->
        IF k > Len(root) THEN Zeros(ENTRY_SIZE)
        ELSE Padded(Padded(root[k].name, NAME_SIZE) \o <<Offsets(root)[k], Len(root[k].data)>>,
                    ENTRY_SIZE)])

build(root) == Header(root) \o Table(root) \o Payload(root)

(* The words of each slot, as offsets into mfs_buf. *)
manifest(root) ==
    [k \in 1 .. SLOTS |->
        IF k > Len(root) THEN [src |-> 0, end |-> 0, size |-> 0, offset |-> 0]
        ELSE LET size == Len(root[k].data)
                 offset == Offsets(root)[k]
             IN  [src |-> offset, end |-> offset + size, size |-> size, offset |-> offset]]

----------------------------------------------------------------------------
(* mfs.cat.m8a, with the manifest it was assembled with. *)

Foreign == -1       \* what stands behind mfs_buf in the tool's memory
Failed == <<Foreign>>

(* mfs_load reads as much of the image as mfs_buf takes. *)
Buffer(image) == [a \in 0 .. MfsBuf - 1 |-> IF a < Len(image) THEN image[a + 1] ELSE 0]

(* mfs_name_matches_path on the entry of a slot. *)
Matches(buf, slot, path) ==
    LET at == HEADER_SIZE + (slot - 1) * ENTRY_SIZE IN
    \A i \in 1 .. Len(path) + 1 : buf[at + i - 1] = (IF i <= Len(path) THEN path[i] ELSE 0)

(* The first slot with the name decides where the payload is. *)
mfs_cat(slots, image, path) ==
    LET buf == Buffer(image)
        found == {k \in 1 .. SLOTS : Matches(buf, k, path)}
        slot == slots[CHOOSE k \in found : \A j \in found : k <= j]
    IN  IF found = {} THEN Failed
        ELSE [i \in 1 .. slot.end - slot.src |->
                 IF slot.src + i - 1 < MfsBuf THEN buf[slot.src + i - 1] ELSE Foreign]
=============================================================================
