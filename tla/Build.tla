------------------------------- MODULE Build -------------------------------
(***************************************************************************)
(* `make distro': from the sources to the bundle that is booted, pass by   *)
(* pass, with edits between the passes and with interrupts inside them.    *)
(* GNU make compares times; the tools overwrite their outputs in place.    *)
(*                                                                         *)
(* Of the images only mfs.cat.mb is kept, the one with a generated         *)
(* dependency: it includes the manifest of the MFS image.  The content of  *)
(* a file is the version of the source it was made from (0: no file).      *)
(***************************************************************************)
EXTENDS Mfs

CONSTANTS
    Roots,          \* the contents src/mfs/root may have, by version
    PeersRemake,    \* a grouped rule runs when any of its targets is old (GNU make 4.4)
    MaxEdits, MaxInterrupts     \* bounds

(* The first version is the one a checkout has the generated files of.     *)
ASSUME RootsAssumption ==
    /\ 1 \in DOMAIN Roots /\ ~Rejected(Roots[1])
    /\ \A v \in DOMAIN Roots : v \in Nat \ {0} /\ IsDirectory(Roots[v])

ASSUME PeersAssumption == PeersRemake \in BOOLEAN

VARIABLES
    now,            \* the clock: one tick per write
    root, scroll, kernel,   \* sources: src/mfs/root, mfs.cat.m8a, /boot/vmlinuz-*
    unseen,         \* root.mfs was not old after the last edit of src/mfs/root
    img, man,       \* root.mfs and mfs-manifest.m8a
    tool,           \* mfs.cat.mb
    rootfs,         \* build/rootfs and its stamp
    initramfs,
    bundle,         \* build/distro
    at,             \* where make is
    target,         \* $@ of the MFS rule
    grouped,        \* the MFS rule has run in this pass
    busy,           \* a recipe has run in this pass
    ended,          \* how the last pass ended
    passes,         \* passes ended since the last edit or interrupt, up to 2
    edits, interrupts

sources == <<root, unseen, scroll, kernel>>
generated == <<img, man>>
products == <<generated, tool, rootfs, initramfs, bundle>>
pass == <<target, grouped, ended, passes, edits, interrupts>>
vars == <<now, sources, generated, tool, rootfs, initramfs, bundle, at, busy, pass>>

File(v) == [v |-> v, t |-> 0]
NoFile == File(0)
Gone(file) == file.v = 0
NoTool == [v |-> 0, man |-> 0, t |-> 0]
NoTree == [mfs |-> 0, tool |-> 0, man |-> 0, stamp |-> 0]
NoInitramfs == [mfs |-> 0, tool |-> 0, man |-> 0, whole |-> FALSE, t |-> 0]
NoBundle == [kernel |-> 0, initramfs |-> NoInitramfs, sums |-> <<>>]

(* A checkout has the generated userland of the first version. *)
Init ==
    /\ now = 1
    /\ root = File(1) /\ scroll = File(1) /\ kernel = 1 /\ unseen = FALSE
    /\ img = [v |-> 1, t |-> 1] /\ man = [v |-> 1, t |-> 1]
    /\ tool = [v |-> 1, man |-> 1, t |-> 1]
    /\ rootfs = NoTree /\ initramfs = NoInitramfs /\ bundle = NoBundle
    /\ at = "idle" /\ target = "man" /\ grouped = FALSE /\ busy = FALSE
    /\ ended = "not" /\ passes = 0 /\ edits = 0 /\ interrupts = 0

(* make has the times of the files that find sees now, and of no other.    *)
MfsOld(file) == Gone(file) \/ file.t < root.t

Tick == now' = now + 1
Stamped(v) == [v |-> v, t |-> now + 1]

----------------------------------------------------------------------------
(* Between the passes. *)

Edited ==
    /\ at = "idle" /\ edits < MaxEdits /\ Tick
    /\ edits' = edits + 1 /\ passes' = 0 /\ ended' = "not"
    /\ UNCHANGED <<at, busy, target, grouped, interrupts>>

(* The time of src/mfs/root is that of its newest file.  A file written is *)
(* the newest; one removed, or moved in with its old time, leaves any time *)
(* there has been.                                                         *)
EditRoot ==
    /\ Edited
    /\ \E v \in DOMAIN Roots \ {root.v}, t \in 0 .. now + 1 : root' = [v |-> v, t |-> t]
    /\ UNCHANGED <<scroll, kernel, products>>
    /\ unseen' = ~MfsOld(img)'

EditScroll ==
    /\ Edited
    /\ scroll' = Stamped(scroll.v + 1)
    /\ UNCHANGED <<root, unseen, kernel, products>>

NewKernel == Edited /\ kernel' = kernel + 1 /\ UNCHANGED <<root, unseen, scroll, products>>

(* A generated file is deleted by hand. *)
RemoveGenerated ==
    /\ Edited
    /\ img' = NoFile /\ man' \in {man, NoFile} /\ unseen' = FALSE
    /\ UNCHANGED <<root, scroll, kernel, tool, rootfs, initramfs, bundle>>

(* distclean: everything but the manifest, which is not in its list. *)
Distclean ==
    /\ Edited
    /\ img' = NoFile /\ tool' = NoTool /\ unseen' = FALSE
    /\ rootfs' = NoTree /\ initramfs' = NoInitramfs /\ bundle' = NoBundle
    /\ UNCHANGED <<root, scroll, kernel, man>>

----------------------------------------------------------------------------
(* A pass: make takes the prerequisites in the order of the Makefile, each *)
(* when its turn comes; a target that is not newer is not made.            *)

StartMake ==
    /\ at = "idle"
    /\ at' = "man" /\ busy' = FALSE /\ grouped' = FALSE
    /\ UNCHANGED <<now, sources, generated, tool, rootfs, initramfs, bundle, target,
                   ended, passes, edits, interrupts>>

(* Up to make 4.3 a target of a grouped rule is old by itself.             *)
RuleOld(file) == MfsOld(file) \/ (PeersRemake /\ (MfsOld(img) \/ MfsOld(man)))

(* The manifest comes first, for mfs.cat.mb, root.mfs afterwards; one run  *)
(* of the recipe counts for both, with $@ the one it is run for.           *)
ConsiderMfs(name, file, next) ==
    /\ at = name
    /\ IF RuleOld(file) /\ ~grouped
       THEN at' = "mkmfs" /\ target' = name /\ grouped' = TRUE /\ busy' = TRUE
       ELSE at' = next /\ UNCHANGED <<target, grouped, busy>>
    /\ UNCHANGED <<now, sources, generated, tool, rootfs, initramfs, bundle,
                   ended, passes, edits, interrupts>>

Failure ==
    /\ at' = "idle" /\ ended' = "error"
    /\ passes' = IF passes < 2 THEN passes + 1 ELSE 2
    /\ UNCHANGED <<target, grouped, edits, interrupts>>

MfsRejected ==
    /\ at = "mkmfs" /\ Rejected(Roots[root.v])
    /\ Failure
    /\ UNCHANGED <<now, sources, generated, tool, rootfs, initramfs, bundle, busy>>

(* mkmfs.py -o $@ *)
WriteImage ==
    /\ at = "mkmfs" /\ ~Rejected(Roots[root.v])
    /\ Tick /\ at' = "mkmfs_manifest"
    /\ IF target = "img" THEN img' = Stamped(root.v) /\ UNCHANGED man
       ELSE man' = Stamped(root.v) /\ UNCHANGED img
    /\ UNCHANGED <<sources, tool, rootfs, initramfs, bundle, busy, pass>>

(* mkmfs.py --manifest: over the image, if $@ was the manifest. *)
WriteManifest ==
    /\ at = "mkmfs_manifest"
    /\ Tick /\ man' = Stamped(root.v)
    /\ at' = IF target = "img" THEN "rootfs" ELSE "tool"
    /\ UNCHANGED <<sources, img, tool, rootfs, initramfs, bundle, busy, pass>>

(* Mutant: the rule of the image does not name the manifest. *)
AssembleWithoutManifest ==
    /\ at = "tool"
    /\ IF Gone(tool) \/ tool.t < scroll.t
       THEN Tick /\ tool' = [v |-> scroll.v, man |-> man.v, t |-> now + 1] /\ busy' = TRUE
       ELSE UNCHANGED <<now, tool, busy>>
    /\ at' = "img"
    /\ UNCHANGED <<sources, generated, rootfs, initramfs, bundle, pass>>

(* mfs.cat.mb: m8asm.py reads the scroll and the manifest it includes. *)
Assemble ==
    /\ at = "tool"
    /\ IF Gone(tool) \/ tool.t < scroll.t \/ tool.t < man.t
       THEN Tick /\ tool' = [v |-> scroll.v, man |-> man.v, t |-> now + 1] /\ busy' = TRUE
       ELSE UNCHANGED <<now, tool, busy>>
    /\ at' = "img"
    /\ UNCHANGED <<sources, generated, rootfs, initramfs, bundle, pass>>

ConsiderRootfs ==
    /\ at = "rootfs"
    /\ IF rootfs.stamp < tool.t \/ rootfs.stamp < img.t \/ (Gone(img) /\ grouped)
          \/ rootfs.stamp = 0
       THEN at' = "clear" /\ busy' = TRUE
       ELSE at' = "initramfs" /\ UNCHANGED busy
    /\ UNCHANGED <<now, sources, generated, tool, rootfs, initramfs, bundle, pass>>

(* A tree without one of the parts it has. *)
Stripped(tree) ==
    {[tree EXCEPT !.mfs = 0], [tree EXCEPT !.tool = 0, !.man = 0],
     [tree EXCEPT !.stamp = 0]} \ {tree}

(* Mutant: the stamp is touched when the tree is begun. *)
StampFirst ==
    /\ at = "clear"
    /\ \/ rootfs' \in Stripped(rootfs) /\ UNCHANGED <<at, now>>
       \/ /\ Stripped(rootfs) = {} /\ Tick /\ at' = "copy"
          /\ rootfs' = [rootfs EXCEPT !.stamp = now + 1]
    /\ UNCHANGED <<sources, generated, tool, initramfs, bundle, busy, pass>>

(* build_rootfs.py: the old tree goes first, file by file in the order of  *)
(* the directory; the stamp comes last.                                    *)
ClearRootfs ==
    /\ at = "clear"
    /\ \/ rootfs' \in Stripped(rootfs) /\ UNCHANGED at
       \/ Stripped(rootfs) = {} /\ at' = "copy" /\ UNCHANGED rootfs
    /\ UNCHANGED <<now, sources, generated, tool, initramfs, bundle, busy, pass>>

CopyTool ==
    /\ at = "copy"
    /\ rootfs' = [rootfs EXCEPT !.tool = tool.v, !.man = tool.man]
    /\ at' = "copy_mfs"
    /\ UNCHANGED <<now, sources, generated, tool, initramfs, bundle, busy, pass>>

CopyMfs ==
    /\ at = "copy_mfs"
    /\ IF Gone(img) THEN Failure /\ UNCHANGED rootfs
       ELSE rootfs' = [rootfs EXCEPT !.mfs = img.v] /\ at' = "stamp" /\ UNCHANGED pass
    /\ UNCHANGED <<now, sources, generated, tool, initramfs, bundle, busy>>

TouchStamp ==
    /\ at = "stamp"
    /\ Tick /\ rootfs' = [rootfs EXCEPT !.stamp = now + 1]
    /\ at' = "initramfs"
    /\ UNCHANGED <<sources, generated, tool, initramfs, bundle, busy, pass>>

(* mkinitramfs.py: the tree is read, then the output opened and written.   *)
OpenInitramfs ==
    /\ at = "initramfs"
    /\ IF initramfs.t < rootfs.stamp
       THEN /\ Tick /\ at' = "gzip" /\ busy' = TRUE
            /\ initramfs' = [NoInitramfs EXCEPT !.t = now + 1]
       ELSE at' = "distro" /\ UNCHANGED <<now, initramfs, busy>>
    /\ UNCHANGED <<sources, generated, tool, rootfs, bundle, pass>>

WriteInitramfs ==
    /\ at = "gzip"
    /\ initramfs' = [mfs |-> rootfs.mfs, tool |-> rootfs.tool, man |-> rootfs.man,
                     whole |-> TRUE, t |-> initramfs.t]
    /\ at' = "distro"
    /\ UNCHANGED <<now, sources, generated, tool, rootfs, bundle, busy, pass>>

(* Mutant: an old bundle is written over. *)
KeepBundle ==
    /\ at = "distro"
    /\ at' = "copy_kernel"
    /\ UNCHANGED <<now, sources, generated, tool, rootfs, initramfs, bundle, busy, pass>>

(* mkdistro.py, which make runs every time: the old bundle goes first,     *)
(* file by file; the sums are taken of the copies and written last.        *)
ClearBundle ==
    /\ at = "distro"
    /\ \/ /\ bundle' \in {[bundle EXCEPT !.kernel = 0], [bundle EXCEPT !.initramfs = NoInitramfs],
                          [bundle EXCEPT !.sums = <<>>]} \ {bundle}
          /\ UNCHANGED at
       \/ bundle = NoBundle /\ at' = "copy_kernel" /\ UNCHANGED bundle
    /\ UNCHANGED <<now, sources, generated, tool, rootfs, initramfs, busy, pass>>

CopyKernel ==
    /\ at = "copy_kernel"
    /\ bundle' = [bundle EXCEPT !.kernel = kernel] /\ at' = "copy_initramfs"
    /\ UNCHANGED <<now, sources, generated, tool, rootfs, initramfs, busy, pass>>

CopyInitramfs ==
    /\ at = "copy_initramfs"
    /\ bundle' = [bundle EXCEPT !.initramfs = initramfs] /\ at' = "sums"
    /\ UNCHANGED <<now, sources, generated, tool, rootfs, initramfs, busy, pass>>

WriteSums ==
    /\ at = "sums"
    /\ bundle' = [bundle EXCEPT !.sums = <<bundle.kernel, bundle.initramfs>>]
    /\ at' = "idle" /\ ended' = "ok"
    /\ passes' = IF passes < 2 THEN passes + 1 ELSE 2
    /\ UNCHANGED <<now, sources, generated, tool, rootfs, initramfs, busy,
                   target, grouped, edits, interrupts>>

(* A signal: make deletes the targets the recipe has begun to write.  The  *)
(* tree of the rootfs and the bundle are not targets.                      *)
Interrupt ==
    /\ at # "idle" /\ interrupts < MaxInterrupts
    /\ img' = IF at = "mkmfs_manifest" /\ target = "img" THEN NoFile ELSE img
    /\ man' = IF at = "mkmfs_manifest" /\ target = "man" THEN NoFile ELSE man
    /\ initramfs' = IF at = "gzip" THEN NoInitramfs ELSE initramfs
    /\ at' = "idle" /\ ended' = "interrupted" /\ passes' = 0 /\ interrupts' = interrupts + 1
    /\ UNCHANGED <<now, sources, tool, rootfs, bundle, busy, target, grouped, edits>>

ConsiderManifest == ConsiderMfs("man", man, "tool")
ConsiderImage == ConsiderMfs("img", img, "rootfs")

MakeStep ==
    \/ StartMake \/ ConsiderManifest \/ ConsiderImage \/ MfsRejected \/ WriteImage
    \/ WriteManifest \/ Assemble \/ ConsiderRootfs \/ ClearRootfs \/ CopyTool \/ CopyMfs \/ TouchStamp
    \/ OpenInitramfs \/ WriteInitramfs
    \/ ClearBundle \/ CopyKernel \/ CopyInitramfs \/ WriteSums

Edit == EditRoot \/ EditScroll \/ NewKernel \/ RemoveGenerated \/ Distclean

Next == MakeStep \/ Edit \/ Interrupt

Spec == Init /\ [][Next]_vars

(* Whoever builds runs make again; edits and interrupts come to an end. *)
FairSpec == Spec /\ WF_vars(MakeStep)

----------------------------------------------------------------------------
(* Properties. *)

(* What a system booted from the initramfs shows of src/mfs/root: mfs.cat  *)
(* prints each file, as far as it lies within mfs_buf, and no other.       *)
Shows(files) ==
    LET slots == manifest(Roots[initramfs.man])
        image == build(Roots[initramfs.mfs])
        names == UNION {{Roots[v][k].name : k \in DOMAIN Roots[v]} : v \in DOMAIN Roots}
        Cat(name) == mfs_cat(slots, image, name)
    IN  /\ initramfs.whole /\ {initramfs.man, initramfs.mfs} \subseteq DOMAIN Roots
        /\ \A k \in DOMAIN files :
               Offsets(files)[k] + Len(files[k].data) <= MfsBuf =>
                   Cat(files[k].name) = files[k].data
        /\ \A name \in names \ {files[k].name : k \in DOMAIN files} : Cat(name) = Failed

Current == Shows(Roots[root.v]) /\ initramfs.tool = scroll.v

Finished == at = "idle" /\ ended = "ok"

(* When make finds nothing to do, and after two passes of make 4.3 in any  *)
(* case, whatever was edited, removed or interrupted before them, the      *)
(* initramfs is whole, made of the sources as they are, and the manifest   *)
(* assembled into mfs.cat fits the MFS image beside it.  Only a change of  *)
(* src/mfs/root that left no file newer than root.mfs stays unseen.        *)
UpToDateIsCurrent ==
    (Finished /\ (~busy \/ (passes = 2 /\ ~PeersRemake))) => Current \/ unseen

(* README: "MFS v1 image built from src/mfs/root/ and shipped as           *)
(* /mfs/root.mfs, with a generated scroll manifest next to it."  After     *)
(* make the system that is booted shows what src/mfs/root holds, as far as *)
(* make can see that it has changed.                                       *)
ShippedIsCurrent == Finished => Current \/ unseen

(* No bundle says of a file what is not so: while there is a manifest.txt, *)
(* what it has the sum of is what was summed, all of it, or has been       *)
(* removed, wherever an interrupt comes; and after a make that ended well  *)
(* nothing is missing.                                                     *)
BundleIsWhole ==
    /\ bundle.sums # <<>> =>
           /\ bundle.kernel \in {0, bundle.sums[1]}
           /\ bundle.initramfs \in {NoInitramfs, bundle.sums[2]}
           /\ bundle.sums[2].whole
    /\ Finished =>
           bundle.kernel # 0 /\ bundle.sums = <<bundle.kernel, bundle.initramfs>>

(* Run again and again, make comes to the end of it and stays there,       *)
(* unless mkmfs.py refuses the directory, make does not see the change, or *)
(* it is make 4.4, which never writes the root.mfs that is old again.      *)
MakeConverges == <>[](Rejected(Roots[root.v]) \/ Current \/ unseen \/ PeersRemake)
=============================================================================
