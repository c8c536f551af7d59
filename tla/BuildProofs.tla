----------------------------- MODULE BuildProofs -----------------------------
(***************************************************************************)
(* `make distro' never leaves a bundle whose sums do not match, and when   *)
(* it has nothing to do, or after two passes of make 4.3, what is booted   *)
(* shows what src/mfs/root holds, if make could see the last change: for   *)
(* any contents of that directory, any number of edits and interrupts, any *)
(* geometry of the image, and grouped rules as in make 4.3 or 4.4.         *)
(***************************************************************************)
EXTENDS Build, DataFacts, TLAPS

(* A step that takes longer than the usual limits is given more time, so   *)
(* that what is proved does not depend on how fast the machine is.         *)
USE SMT, Zenon, SMTT(60), ZenonT(60)

(***************************************************************************)
(* Times and versions                                                      *)
(***************************************************************************)

Mkmfs == {"mkmfs", "mkmfs_manifest"}
Bundling == {"distro", "copy_kernel", "copy_initramfs", "sums"}
AfterTree == {"initramfs", "gzip"} \cup Bundling
AfterImage == {"rootfs", "clear", "copy", "copy_mfs", "stamp"} \cup AfterTree
Places == {"idle", "man", "tool", "img"} \cup Mkmfs \cup AfterImage

Shapes ==
    /\ at \in Places /\ target \in {"man", "img"} /\ passes \in 0 .. 2
    /\ root.v \in DOMAIN Roots /\ scroll.v \in Nat \ {0} /\ kernel \in Nat \ {0}
    /\ rootfs = [mfs |-> rootfs.mfs, tool |-> rootfs.tool, man |-> rootfs.man,
                 stamp |-> rootfs.stamp]
    /\ bundle = [kernel |-> bundle.kernel, initramfs |-> bundle.initramfs, sums |-> bundle.sums]

(* No file is newer than the clock. *)
Clock ==
    /\ now \in Nat \ {0}
    /\ root.t \in 0 .. now /\ scroll.t \in 0 .. now /\ img.t \in 0 .. now /\ man.t \in 0 .. now
    /\ tool.t \in 0 .. now /\ rootfs.stamp \in 0 .. now /\ initramfs.t \in 0 .. now

(* What a newer time says: the file was made of the version that is there, *)
(* if the change was seen.  A manifest newer than an old image may still   *)
(* be that of another version; it is written again with the image.         *)
Fresh(file) == ~MfsOld(file)
Made(file) == Gone(file) \/ (file.v \in DOMAIN Roots /\ ~Rejected(Roots[file.v]))

SameTool == rootfs.tool = tool.v /\ rootfs.man = tool.man
SameTree ==
    /\ initramfs.whole /\ initramfs.mfs = rootfs.mfs
    /\ initramfs.tool = rootfs.tool /\ initramfs.man = rootfs.man

(* The tree is newer than all it is made of.  One that is being cleared is *)
(* not, although its stamp may be there still.                             *)
TreeInTime ==
    /\ rootfs.stamp # 0 /\ rootfs.stamp >= tool.t /\ rootfs.stamp >= img.t
    /\ ~Gone(tool) /\ ~Gone(img)

Dated ==
    /\ Made(img) /\ (Fresh(img) /\ ~unseen => img.v = root.v)
    /\ Made(man)
    /\ Fresh(img) /\ Fresh(man) /\ ~unseen /\ at # "mkmfs_manifest" => man.v = root.v
    /\ ~Gone(tool) /\ tool.t >= scroll.t => tool.v = scroll.v
    /\ ~Gone(tool) /\ ~Gone(man) /\ tool.t >= man.t => tool.man = man.v
    /\ TreeInTime => SameTool /\ rootfs.mfs = img.v
    /\ TreeInTime /\ initramfs.t >= rootfs.stamp /\ at # "gzip" => SameTree

(* What a pass has seen to by the time it is somewhere.  A pass in which   *)
(* the manifest was the target that was old leaves the image as it is.     *)
ForManifest == grouped /\ target = "man"
ForImage == at \in Mkmfs /\ target = "img"

Reached ==
    /\ at = "man" => ~grouped
    /\ at \in {"tool", "img"} /\ grouped => target = "man"
    /\ at = "clear" => ~TreeInTime
    /\ at \in {"copy", "copy_mfs", "stamp"} => rootfs.stamp = 0
    /\ at \in Mkmfs => grouped
    /\ at = "mkmfs_manifest" =>
           ~Rejected(Roots[root.v]) /\ Fresh(IF target = "man" THEN man ELSE img)
    /\ at \notin {"idle", "man"} /\ grouped => busy
    /\ at \in {"tool", "img"} \cup AfterImage \/ ForImage => Fresh(man)
    /\ at \in {"tool", "img", "mkmfs_manifest"} \cup AfterImage /\ ForManifest => man.v = root.v
    /\ at \in {"img"} \cup AfterImage \/ ForImage => ~Gone(tool) /\ tool.v = scroll.v
    /\ at = "img" \/ ForImage => tool.man = man.v
    /\ at \in AfterImage /\ ~unseen /\ (passes >= 1 \/ ~grouped \/ target = "man") =>
           tool.man = root.v
    /\ at \in AfterImage /\ ~ForManifest => Fresh(img)
    /\ at \in {"copy_mfs", "stamp"} \cup AfterTree => SameTool
    /\ at \in {"stamp"} \cup AfterTree => rootfs.mfs = img.v
    /\ at = "stamp" => ~Gone(img)
    /\ at \in AfterTree => TreeInTime
    /\ at \in Bundling => SameTree

(* What one pass leaves to the next, and the pass that counts. *)
Versions ==
    /\ initramfs.whole /\ initramfs.mfs = root.v
    /\ initramfs.man = root.v /\ initramfs.tool = scroll.v

Passed ==
    /\ passes >= 1 /\ ~Rejected(Roots[root.v]) =>
           Fresh(man) /\ (at # "idle" /\ ~PeersRemake => ~ForManifest)
    /\ passes >= 1 /\ ~Rejected(Roots[root.v]) /\ ~unseen => man.v = root.v
    /\ Finished => unseen \/ ~Rejected(Roots[root.v])
    /\ Finished /\ (~busy \/ (passes = 2 /\ ~PeersRemake)) => unseen \/ Versions

VersionInv == Shapes /\ Clock /\ Dated /\ Reached /\ Passed

LEMMA VersionInit == Init => VersionInv
<1>. SUFFICES ASSUME Init PROVE VersionInv  OBVIOUS
<1>1. Shapes
  BY RootsAssumption DEF Init, Shapes, File, NoTree, NoBundle, Places
<1>2. Clock
  BY DEF Init, Clock, File, NoTree, NoInitramfs
<1>3. Dated
  BY RootsAssumption DEF Init, Dated, Made, Fresh, MfsOld, Gone, File, NoTree, TreeInTime
<1>4. Reached
  BY DEF Init, Reached, ForImage, AfterImage, AfterTree, Bundling, Mkmfs
<1>5. Passed
  BY DEF Init, Passed, Finished
<1>. QED BY <1>1, <1>2, <1>3, <1>4, <1>5 DEF VersionInv

(* What is left of a tree that is being cleared. *)
LEMMA ClearFacts ==
    ASSUME Shapes, ClearRootfs
    PROVE  /\ at = "clear" /\ at' \in {"clear", "copy"} /\ (at' = "copy" => rootfs'.stamp = 0)
           /\ rootfs'.stamp \in {0, rootfs.stamp}
           /\ rootfs' = [mfs |-> rootfs'.mfs, tool |-> rootfs'.tool, man |-> rootfs'.man,
                         stamp |-> rootfs'.stamp]
<1>. DEFINE r == rootfs
            s == rootfs'
<1>1. r = [mfs |-> r.mfs, tool |-> r.tool, man |-> r.man, stamp |-> r.stamp] /\ at = "clear"
  BY DEF Shapes, ClearRootfs
<1>. HIDE DEF r, s
<1>2. ASSUME s \in Stripped(r)
      PROVE  /\ s.stamp \in {0, r.stamp}
             /\ s = [mfs |-> s.mfs, tool |-> s.tool, man |-> s.man, stamp |-> s.stamp]
  BY <1>1, <1>2 DEF Stripped
<1>3. ASSUME Stripped(r) = {} PROVE r.stamp = 0
  <2>1. [r EXCEPT !.stamp = 0] = r  BY <1>3 DEF Stripped
  <2>2. [r EXCEPT !.stamp = 0].stamp = 0  BY <1>1
  <2>. QED BY <2>1, <2>2
<1>4. CASE s \in Stripped(r) /\ at' = at  BY <1>1, <1>2, <1>4 DEF r, s
<1>5. CASE Stripped(r) = {} /\ at' = "copy" /\ s = r  BY <1>1, <1>3, <1>5 DEF r, s
<1>. QED BY <1>4, <1>5 DEF ClearRootfs, r, s

LEMMA ShapesNext == VersionInv /\ [Next]_vars => Shapes'
<1>. SUFFICES ASSUME VersionInv, [Next]_vars PROVE Shapes'  OBVIOUS
<1>0. Shapes /\ Clock /\ Dated /\ Reached /\ Passed  BY DEF VersionInv
<1>. USE DEF Shapes, Places, Mkmfs, AfterImage, AfterTree, Bundling, vars,
            sources, generated, products, pass, Tick, Stamped, NoFile, File,
            NoTool, NoTree, NoInitramfs, NoBundle
<1>1. CASE StartMake  BY <1>0, <1>1 DEF StartMake
<1>2. CASE ConsiderManifest  BY <1>0, <1>2 DEF ConsiderManifest, ConsiderMfs, RuleOld
<1>3. CASE ConsiderImage  BY <1>0, <1>3 DEF ConsiderImage, ConsiderMfs, RuleOld
<1>4. CASE MfsRejected  BY <1>0, <1>4 DEF MfsRejected, Failure
<1>5. CASE WriteImage  BY <1>0, <1>5 DEF WriteImage
<1>6. CASE WriteManifest  BY <1>0, <1>6 DEF WriteManifest
<1>7. CASE Assemble  BY <1>0, <1>7 DEF Assemble
<1>8. CASE ConsiderRootfs  BY <1>0, <1>8 DEF ConsiderRootfs
<1>9. CASE CopyTool  BY <1>0, <1>9 DEF CopyTool
<1>10. CASE CopyMfs  BY <1>0, <1>10 DEF CopyMfs, Failure
<1>11. CASE TouchStamp  BY <1>0, <1>11 DEF TouchStamp
<1>12. CASE OpenInitramfs  BY <1>0, <1>12 DEF OpenInitramfs
<1>13. CASE WriteInitramfs  BY <1>0, <1>13 DEF WriteInitramfs
<1>14. CASE ClearBundle  BY <1>0, <1>14 DEF ClearBundle
<1>15. CASE CopyKernel  BY <1>0, <1>15 DEF CopyKernel
<1>16. CASE CopyInitramfs  BY <1>0, <1>16 DEF CopyInitramfs
<1>17. CASE WriteSums  BY <1>0, <1>17 DEF WriteSums
<1>18. CASE EditRoot  BY <1>0, <1>18, RootsAssumption DEF EditRoot, Edited
<1>19. CASE EditScroll  BY <1>0, <1>19 DEF EditScroll, Edited
<1>20. CASE NewKernel  BY <1>0, <1>20 DEF NewKernel, Edited
<1>21. CASE RemoveGenerated  BY <1>0, <1>21 DEF RemoveGenerated, Edited
<1>22. CASE Distclean  BY <1>0, <1>22 DEF Distclean, Edited
<1>23. CASE Interrupt  BY <1>0, <1>23 DEF Interrupt
<1>24. CASE UNCHANGED vars  BY <1>0, <1>24
<1>25. CASE ClearRootfs  BY <1>0, <1>25, ClearFacts DEF ClearRootfs
<1>. QED BY <1>1, <1>2, <1>3, <1>4, <1>5, <1>6, <1>7, <1>8, <1>9, <1>10,
            <1>11, <1>12, <1>13, <1>14, <1>15, <1>16, <1>17, <1>18, <1>19,
            <1>20, <1>21, <1>22, <1>23, <1>24, <1>25 DEF Next, MakeStep, Edit

LEMMA ClockNext == VersionInv /\ [Next]_vars => Clock'
<1>. SUFFICES ASSUME VersionInv, [Next]_vars PROVE Clock'  OBVIOUS
<1>0. Shapes /\ Clock /\ Dated /\ Reached /\ Passed  BY DEF VersionInv
<1>. USE DEF Clock, Shapes, vars, sources, generated, products, pass, Tick,
            Stamped, NoFile, File, NoTool, NoTree, NoInitramfs, NoBundle
<1>1. CASE StartMake  BY <1>0, <1>1 DEF StartMake
<1>2. CASE ConsiderManifest  BY <1>0, <1>2 DEF ConsiderManifest, ConsiderMfs, RuleOld
<1>3. CASE ConsiderImage  BY <1>0, <1>3 DEF ConsiderImage, ConsiderMfs, RuleOld
<1>4. CASE MfsRejected  BY <1>0, <1>4 DEF MfsRejected, Failure
<1>5. CASE WriteImage  BY <1>0, <1>5 DEF WriteImage
<1>6. CASE WriteManifest  BY <1>0, <1>6 DEF WriteManifest
<1>7. CASE Assemble  BY <1>0, <1>7 DEF Assemble
<1>8. CASE ConsiderRootfs  BY <1>0, <1>8 DEF ConsiderRootfs
<1>9. CASE CopyTool  BY <1>0, <1>9 DEF CopyTool
<1>10. CASE CopyMfs  BY <1>0, <1>10 DEF CopyMfs, Failure
<1>11. CASE TouchStamp  BY <1>0, <1>11 DEF TouchStamp
<1>12. CASE OpenInitramfs  BY <1>0, <1>12 DEF OpenInitramfs
<1>13. CASE WriteInitramfs  BY <1>0, <1>13 DEF WriteInitramfs
<1>14. CASE ClearBundle  BY <1>0, <1>14 DEF ClearBundle
<1>15. CASE CopyKernel  BY <1>0, <1>15 DEF CopyKernel
<1>16. CASE CopyInitramfs  BY <1>0, <1>16 DEF CopyInitramfs
<1>17. CASE WriteSums  BY <1>0, <1>17 DEF WriteSums
<1>18. CASE EditRoot  BY <1>0, <1>18, RootsAssumption DEF EditRoot, Edited
<1>19. CASE EditScroll  BY <1>0, <1>19 DEF EditScroll, Edited
<1>20. CASE NewKernel  BY <1>0, <1>20 DEF NewKernel, Edited
<1>21. CASE RemoveGenerated  BY <1>0, <1>21 DEF RemoveGenerated, Edited
<1>22. CASE Distclean  BY <1>0, <1>22 DEF Distclean, Edited
<1>23. CASE Interrupt  BY <1>0, <1>23 DEF Interrupt
<1>24. CASE UNCHANGED vars  BY <1>0, <1>24
<1>25. CASE ClearRootfs  BY <1>0, <1>25, ClearFacts DEF ClearRootfs
<1>. QED BY <1>1, <1>2, <1>3, <1>4, <1>5, <1>6, <1>7, <1>8, <1>9, <1>10,
            <1>11, <1>12, <1>13, <1>14, <1>15, <1>16, <1>17, <1>18, <1>19,
            <1>20, <1>21, <1>22, <1>23, <1>24, <1>25 DEF Next, MakeStep, Edit

LEMMA DatedNext == VersionInv /\ [Next]_vars => Dated'
<1>. SUFFICES ASSUME VersionInv, [Next]_vars PROVE Dated'  OBVIOUS
<1>0. Shapes /\ Clock /\ Dated /\ Reached /\ Passed  BY DEF VersionInv
<1>. USE DEF Dated, Clock, Shapes, Reached, Made, Fresh, MfsOld, Gone,
            TreeInTime, SameTool, SameTree, ForImage, Places, Mkmfs, AfterImage,
            AfterTree, Bundling, vars, sources, generated, products, pass,
            Tick, Stamped, NoFile, File, NoTool, NoTree, NoInitramfs, NoBundle
<1>1. CASE StartMake  BY <1>0, <1>1 DEF StartMake
<1>2. CASE ConsiderManifest  BY <1>0, <1>2 DEF ConsiderManifest, ConsiderMfs, RuleOld
<1>3. CASE ConsiderImage  BY <1>0, <1>3 DEF ConsiderImage, ConsiderMfs, RuleOld
<1>4. CASE MfsRejected  BY <1>0, <1>4 DEF MfsRejected, Failure
<1>5. CASE WriteImage  BY <1>0, <1>5 DEF WriteImage
<1>6. CASE WriteManifest  BY <1>0, <1>6 DEF WriteManifest
<1>7. CASE Assemble  BY <1>0, <1>7 DEF Assemble
<1>8. CASE ConsiderRootfs  BY <1>0, <1>8 DEF ConsiderRootfs
<1>9. CASE CopyTool  BY <1>0, <1>9 DEF CopyTool
<1>10. CASE CopyMfs  BY <1>0, <1>10 DEF CopyMfs, Failure
<1>11. CASE TouchStamp  BY <1>0, <1>11 DEF TouchStamp
<1>12. CASE OpenInitramfs  BY <1>0, <1>12 DEF OpenInitramfs
<1>13. CASE WriteInitramfs  BY <1>0, <1>13 DEF WriteInitramfs
<1>14. CASE ClearBundle  BY <1>0, <1>14 DEF ClearBundle
<1>15. CASE CopyKernel  BY <1>0, <1>15 DEF CopyKernel
<1>16. CASE CopyInitramfs  BY <1>0, <1>16 DEF CopyInitramfs
<1>17. CASE WriteSums  BY <1>0, <1>17 DEF WriteSums
<1>18. CASE EditRoot  BY <1>0, <1>18, RootsAssumption DEF EditRoot, Edited
<1>19. CASE EditScroll  BY <1>0, <1>19 DEF EditScroll, Edited
<1>20. CASE NewKernel  BY <1>0, <1>20 DEF NewKernel, Edited
<1>21. CASE RemoveGenerated  BY <1>0, <1>21 DEF RemoveGenerated, Edited
<1>22. CASE Distclean  BY <1>0, <1>22 DEF Distclean, Edited
<1>23. CASE Interrupt  BY <1>0, <1>23 DEF Interrupt
<1>24. CASE UNCHANGED vars  BY <1>0, <1>24
<1>25. CASE ClearRootfs  BY <1>0, <1>25, ClearFacts DEF ClearRootfs
<1>. QED BY <1>1, <1>2, <1>3, <1>4, <1>5, <1>6, <1>7, <1>8, <1>9, <1>10,
            <1>11, <1>12, <1>13, <1>14, <1>15, <1>16, <1>17, <1>18, <1>19,
            <1>20, <1>21, <1>22, <1>23, <1>24, <1>25 DEF Next, MakeStep, Edit

LEMMA ReachedNext == VersionInv /\ [Next]_vars => Reached'
<1>. SUFFICES ASSUME VersionInv, [Next]_vars PROVE Reached'  OBVIOUS
<1>0. Shapes /\ Clock /\ Dated /\ Reached /\ Passed  BY DEF VersionInv
<1>a. root.v # 0  BY <1>0, RootsAssumption DEF Shapes
<1>. USE DEF Reached, Dated, Clock, Shapes, Passed, ForImage, ForManifest,
            Made, Fresh, MfsOld, Gone, TreeInTime, SameTool, SameTree, Places,
            Mkmfs, AfterImage, AfterTree, Bundling, vars, sources, generated,
            products, pass, Tick, Stamped, NoFile, File, NoTool, NoTree,
            NoInitramfs, NoBundle
<1>1. CASE StartMake  BY <1>0, <1>1 DEF StartMake
<1>2. CASE ConsiderManifest  BY <1>0, <1>2 DEF ConsiderManifest, ConsiderMfs, RuleOld
<1>3. CASE ConsiderImage  BY <1>0, <1>3 DEF ConsiderImage, ConsiderMfs, RuleOld
<1>4. CASE MfsRejected  BY <1>0, <1>4 DEF MfsRejected, Failure
<1>5. CASE WriteImage
  <2>. USE <1>0, <1>a, <1>5 DEF WriteImage
  <2>1. CASE target = "img"  BY <2>1
  <2>2. CASE target = "man"  BY <2>2
  <2>. QED BY <2>1, <2>2
<1>6. CASE WriteManifest
  <2>. USE <1>0, <1>a, <1>6 DEF WriteManifest
  <2>1. CASE target = "img"  BY <2>1
  <2>2. CASE target = "man"  BY <2>2
  <2>. QED BY <2>1, <2>2
<1>7. CASE Assemble  BY <1>0, <1>7 DEF Assemble
<1>8. CASE ConsiderRootfs  BY <1>0, <1>8 DEF ConsiderRootfs
<1>9. CASE CopyTool  BY <1>0, <1>9 DEF CopyTool
<1>10. CASE CopyMfs  BY <1>0, <1>10 DEF CopyMfs, Failure
<1>11. CASE TouchStamp  BY <1>0, <1>11 DEF TouchStamp
<1>12. CASE OpenInitramfs
  <2>1. at = "initramfs" /\ TreeInTime  BY <1>0, <1>12 DEF OpenInitramfs
  <2>2. CASE initramfs.t < rootfs.stamp  BY <1>0, <1>12, <2>2 DEF OpenInitramfs
  <2>3. CASE ~(initramfs.t < rootfs.stamp)  BY <1>0, <1>12, <2>1, <2>3 DEF OpenInitramfs
  <2>. QED BY <2>2, <2>3
<1>13. CASE WriteInitramfs  BY <1>0, <1>13 DEF WriteInitramfs
<1>14. CASE ClearBundle  BY <1>0, <1>14 DEF ClearBundle
<1>15. CASE CopyKernel  BY <1>0, <1>15 DEF CopyKernel
<1>16. CASE CopyInitramfs  BY <1>0, <1>16 DEF CopyInitramfs
<1>17. CASE WriteSums  BY <1>0, <1>17 DEF WriteSums
<1>18. CASE EditRoot  BY <1>0, <1>18, RootsAssumption DEF EditRoot, Edited
<1>19. CASE EditScroll  BY <1>0, <1>19 DEF EditScroll, Edited
<1>20. CASE NewKernel  BY <1>0, <1>20 DEF NewKernel, Edited
<1>21. CASE RemoveGenerated  BY <1>0, <1>21 DEF RemoveGenerated, Edited
<1>22. CASE Distclean  BY <1>0, <1>22 DEF Distclean, Edited
<1>23. CASE Interrupt  BY <1>0, <1>23 DEF Interrupt
<1>24. CASE UNCHANGED vars  BY <1>0, <1>24
<1>25. CASE ClearRootfs  BY <1>0, <1>25, ClearFacts DEF ClearRootfs
<1>. QED BY <1>1, <1>2, <1>3, <1>4, <1>5, <1>6, <1>7, <1>8, <1>9, <1>10,
            <1>11, <1>12, <1>13, <1>14, <1>15, <1>16, <1>17, <1>18, <1>19,
            <1>20, <1>21, <1>22, <1>23, <1>24, <1>25 DEF Next, MakeStep, Edit

LEMMA PassedNext == VersionInv /\ [Next]_vars => Passed'
<1>. SUFFICES ASSUME VersionInv, [Next]_vars PROVE Passed'  OBVIOUS
<1>0. Shapes /\ Clock /\ Dated /\ Reached /\ Passed  BY DEF VersionInv
<1>a. root.v # 0  BY <1>0, RootsAssumption DEF Shapes
<1>. USE DEF Passed, Versions, Finished, Reached, Dated, Clock, Shapes,
            ForImage, ForManifest, Made, Fresh, MfsOld, Gone,
            TreeInTime, SameTool, SameTree, Places, Mkmfs, AfterImage, AfterTree,
            Bundling, vars, sources, generated, products, pass, Tick, Stamped,
            NoFile, File, NoTool, NoTree, NoInitramfs, NoBundle
<1>1. CASE StartMake  BY <1>0, <1>1 DEF StartMake
<1>2. CASE ConsiderManifest  BY <1>0, <1>2 DEF ConsiderManifest, ConsiderMfs, RuleOld
<1>3. CASE ConsiderImage  BY <1>0, <1>3 DEF ConsiderImage, ConsiderMfs, RuleOld
<1>4. CASE MfsRejected  BY <1>0, <1>4 DEF MfsRejected, Failure
<1>5. CASE WriteImage
  <2>. USE <1>0, <1>a, <1>5 DEF WriteImage
  <2>1. CASE target = "img"  BY <2>1
  <2>2. CASE target = "man"  BY <2>2
  <2>. QED BY <2>1, <2>2
<1>6. CASE WriteManifest
  <2>. USE <1>0, <1>a, <1>6 DEF WriteManifest
  <2>1. CASE target = "img"  BY <2>1
  <2>2. CASE target = "man"  BY <2>2
  <2>. QED BY <2>1, <2>2
<1>7. CASE Assemble  BY <1>0, <1>7 DEF Assemble
<1>8. CASE ConsiderRootfs  BY <1>0, <1>8 DEF ConsiderRootfs
<1>9. CASE CopyTool  BY <1>0, <1>9 DEF CopyTool
<1>10. CASE CopyMfs  BY <1>0, <1>10 DEF CopyMfs, Failure
<1>11. CASE TouchStamp  BY <1>0, <1>11 DEF TouchStamp
<1>12. CASE OpenInitramfs  BY <1>0, <1>12 DEF OpenInitramfs
<1>13. CASE WriteInitramfs  BY <1>0, <1>13 DEF WriteInitramfs
<1>14. CASE ClearBundle  BY <1>0, <1>14 DEF ClearBundle
<1>15. CASE CopyKernel  BY <1>0, <1>15 DEF CopyKernel
<1>16. CASE CopyInitramfs  BY <1>0, <1>16 DEF CopyInitramfs
<1>17. CASE WriteSums  BY <1>0, <1>17 DEF WriteSums
<1>18. CASE EditRoot  BY <1>0, <1>18, RootsAssumption DEF EditRoot, Edited
<1>19. CASE EditScroll  BY <1>0, <1>19 DEF EditScroll, Edited
<1>20. CASE NewKernel  BY <1>0, <1>20 DEF NewKernel, Edited
<1>21. CASE RemoveGenerated  BY <1>0, <1>21 DEF RemoveGenerated, Edited
<1>22. CASE Distclean  BY <1>0, <1>22 DEF Distclean, Edited
<1>23. CASE Interrupt  BY <1>0, <1>23 DEF Interrupt
<1>24. CASE UNCHANGED vars  BY <1>0, <1>24
<1>25. CASE ClearRootfs  BY <1>0, <1>25, ClearFacts DEF ClearRootfs
<1>. QED BY <1>1, <1>2, <1>3, <1>4, <1>5, <1>6, <1>7, <1>8, <1>9, <1>10,
            <1>11, <1>12, <1>13, <1>14, <1>15, <1>16, <1>17, <1>18, <1>19,
            <1>20, <1>21, <1>22, <1>23, <1>24, <1>25 DEF Next, MakeStep, Edit

LEMMA VersionNext == VersionInv /\ [Next]_vars => VersionInv'
BY ShapesNext, ClockNext, DatedNext, ReachedNext, PassedNext DEF VersionInv

(***************************************************************************)
(* The bundle                                                              *)
(***************************************************************************)

(* The sums come last, of a bundle that is complete by then. *)
BundleInv ==
    /\ BundleIsWhole
    /\ at \in {"copy_kernel", "copy_initramfs", "sums"} => bundle.sums = <<>>
    /\ at \in {"copy_initramfs", "sums"} => bundle.kernel # 0
    /\ at = "sums" => bundle.initramfs.whole

LEMMA BundleInit == Init => BundleInv
BY DEF Init, BundleInv, BundleIsWhole, Finished, NoBundle

LEMMA BundleNext == VersionInv /\ BundleInv /\ [Next]_vars => BundleInv'
<1>. SUFFICES ASSUME VersionInv, BundleInv, [Next]_vars PROVE BundleInv'  OBVIOUS
<1>0. Shapes /\ Reached  BY DEF VersionInv
<1>. USE DEF BundleInv, BundleIsWhole, Finished, NoBundle, vars, sources, generated, products, pass
<1>1. CASE StartMake  BY <1>1 DEF StartMake
<1>2. CASE ConsiderManifest  BY <1>2 DEF ConsiderManifest, ConsiderMfs
<1>3. CASE ConsiderImage  BY <1>3 DEF ConsiderImage, ConsiderMfs
<1>4. CASE MfsRejected  BY <1>4 DEF MfsRejected, Failure
<1>5. CASE WriteImage  BY <1>5 DEF WriteImage
<1>6. CASE WriteManifest  BY <1>6 DEF WriteManifest
<1>7. CASE Assemble  BY <1>7 DEF Assemble
<1>8. CASE ConsiderRootfs  BY <1>8 DEF ConsiderRootfs
<1>9. CASE CopyTool  BY <1>9 DEF CopyTool
<1>10. CASE CopyMfs  BY <1>10 DEF CopyMfs, Failure
<1>11. CASE TouchStamp  BY <1>11 DEF TouchStamp
<1>12. CASE OpenInitramfs  BY <1>12 DEF OpenInitramfs
<1>13. CASE WriteInitramfs  BY <1>13 DEF WriteInitramfs
<1>14. CASE EditRoot  BY <1>14 DEF EditRoot, Edited
<1>15. CASE EditScroll  BY <1>15 DEF EditScroll, Edited
<1>16. CASE NewKernel  BY <1>16 DEF NewKernel, Edited
<1>17. CASE RemoveGenerated  BY <1>17 DEF RemoveGenerated, Edited
<1>18. CASE Interrupt  BY <1>18 DEF Interrupt
<1>19. CASE UNCHANGED vars  BY <1>19
<1>20. CASE ClearBundle
  <2>1. CASE bundle = NoBundle  BY <1>0, <1>20, <2>1 DEF ClearBundle, Shapes
  <2>2. CASE bundle # NoBundle  BY <1>0, <1>20, <2>2 DEF ClearBundle, Shapes
  <2>. QED BY <2>1, <2>2
<1>21. CASE CopyKernel  BY <1>0, <1>21 DEF CopyKernel, Shapes
<1>22. CASE CopyInitramfs  BY <1>0, <1>22 DEF CopyInitramfs, Shapes, Reached, SameTree, Bundling
<1>23. CASE WriteSums  BY <1>0, <1>23 DEF WriteSums, Shapes
<1>24. CASE Distclean  BY <1>24 DEF Distclean, Edited
<1>25. CASE ClearRootfs  BY <1>25 DEF ClearRootfs
<1>. QED BY <1>1, <1>2, <1>3, <1>4, <1>5, <1>6, <1>7, <1>8, <1>9, <1>10,
            <1>11, <1>12, <1>13, <1>14, <1>15, <1>16, <1>17, <1>18, <1>19,
            <1>20, <1>21, <1>22, <1>23, <1>24, <1>25 DEF Next, MakeStep, Edit

(* What a manifest.txt has the sums of is what was summed, whole, or has   *)
(* been removed, wherever an interrupt comes, the removal of the old       *)
(* bundle included; after a make that ended well nothing is missing.       *)
THEOREM BundlesAreWhole == Spec => []BundleIsWhole
<1>1. BundleInv => BundleIsWhole  BY DEF BundleInv
<1>. QED BY <1>1, VersionInit, VersionNext, BundleInit, BundleNext, PTL DEF Spec

(***************************************************************************)
(* The image                                                               *)
(***************************************************************************)

LEMMA PaddedFacts ==
    ASSUME NEW s, IsSeq(s), NEW n \in Nat, Len(s) <= n
    PROVE  /\ IsSeq(Padded(s, n)) /\ Len(Padded(s, n)) = n
           /\ \A i \in 1 .. Len(s) : Padded(s, n)[i] = s[i]
           /\ \A i \in Len(s) + 1 .. n : Padded(s, n)[i] = 0
<1>. DEFINE z == Zeros(n - Len(s))
<1>1. Len(s) \in Nat /\ n - Len(s) \in Nat  BY SeqFacts
<1>2. z \in Seq({0}) /\ Len(z) = n - Len(s) /\ \A i \in 1 .. n - Len(s) : z[i] = 0
  BY <1>1 DEF Zeros
<1>. HIDE DEF z
<1>3. IsSeq(z)  BY <1>2, IntoSeq
<1>4. /\ IsSeq(s \o z) /\ Len(s \o z) = Len(s) + Len(z)
      /\ \A k \in 1 .. Len(s) : (s \o z)[k] = s[k]
      /\ \A k \in 1 .. Len(s) + Len(z) : k > Len(s) => (s \o z)[k] = z[k - Len(s)]
  BY <1>3, ConcatFacts
<1>5. Len(s \o z) = n  BY <1>1, <1>2, <1>4
<1>6. ASSUME NEW i \in Len(s) + 1 .. n PROVE (s \o z)[i] = 0
  <2>1. i \in 1 .. Len(s) + Len(z) /\ i > Len(s) /\ i - Len(s) \in 1 .. n - Len(s)
    BY <1>1, <1>2
  <2>. QED BY <1>2, <1>4, <2>1
<1>. QED BY <1>4, <1>5, <1>6 DEF Padded, z

LEMMA AlignFacts ==
    ASSUME NEW n \in Nat
    PROVE  align(n) \in Nat /\ align(n) >= n
<1>. DEFINE x == n + BLOCK_SIZE - 1
            q == x \div BLOCK_SIZE
<1>1. BLOCK_SIZE \in Nat \ {0}  BY MfsAssumption
<1>2. x \in Nat  BY <1>1
<1>. HIDE DEF x
<1>3. q \in Int /\ q >= 0 /\ x < BLOCK_SIZE * q + BLOCK_SIZE  BY <1>1, <1>2
<1>. HIDE DEF q
<1>4. q * BLOCK_SIZE \in Nat  BY <1>1, <1>3
<1>5. q * BLOCK_SIZE >= n  BY <1>1, <1>3, <1>4 DEF x
<1>. QED BY <1>4, <1>5 DEF align, x, q

(* Times a size. *)
LEMMA RowBounds ==
    ASSUME NEW a \in Nat, NEW b \in Nat, a < b, NEW e \in Nat
    PROVE  a * e \in Nat /\ b * e \in Nat /\ a * e + e <= b * e
<1>1. b - a - 1 \in Nat  OBVIOUS
<1>2. (b - a - 1) * e \in Nat  BY <1>1
<1>3. b * e = (b - a - 1) * e + a * e + e  OBVIOUS
<1>. QED BY <1>2, <1>3

LEMMA DirectoryFacts ==
    ASSUME NEW dir, IsDirectory(dir)
    PROVE  /\ Len(dir) \in Nat /\ DOMAIN dir = 1 .. Len(dir)
           /\ \A k \in 1 .. Len(dir) :
                  /\ dir[k].data \in Seq(0 .. 255) /\ Len(dir[k].data) \in Nat
                  /\ IsSeq(dir[k].data)
                  /\ dir[k].name \in Seq(1 .. 255) /\ Len(dir[k].name) \in Nat \ {0}
                  /\ IsSeq(dir[k].name)
<1>. DEFINE Member == [name : Seq(1 .. 255), data : Seq(0 .. 255)]
<1>1. dir \in Seq(Member)  BY DEF IsDirectory
<1>2. \A f \in Member : f.name \in Seq(1 .. 255) /\ f.data \in Seq(0 .. 255)  OBVIOUS
<1>. HIDE DEF Member
<1>3. Len(dir) \in Nat /\ DOMAIN dir = 1 .. Len(dir)  BY <1>1
<1>4. ASSUME NEW k \in 1 .. Len(dir)
      PROVE  /\ dir[k].data \in Seq(0 .. 255) /\ Len(dir[k].data) \in Nat
             /\ IsSeq(dir[k].data)
             /\ dir[k].name \in Seq(1 .. 255) /\ Len(dir[k].name) \in Nat \ {0}
             /\ IsSeq(dir[k].name)
  <2>1. dir[k] \in Member  BY <1>1
  <2>. DEFINE d == dir[k].data
              m == dir[k].name
  <2>2. d \in Seq(0 .. 255) /\ m \in Seq(1 .. 255) /\ m # <<>>
    BY <1>2, <1>3, <2>1 DEF IsDirectory
  <2>. HIDE DEF d, m
  <2>3. Len(d) \in Nat /\ Len(m) \in Nat /\ Len(m) # 0  BY <2>2
  <2>4. IsSeq(d) /\ IsSeq(m)  BY <2>2, IntoSeq
  <2>. QED BY <2>2, <2>3, <2>4 DEF d, m
<1>. QED BY <1>3, <1>4

(* The offsets build gives the files, as a table. *)
IsOffsets(dir, h, m) ==
    h = [k \in 1 .. m |-> align(IF k = 1 THEN data_offset ELSE h[k-1] + Len(dir[k-1].data))]

LEMMA OffsetsExist ==
    ASSUME NEW dir, NEW m \in Nat
    PROVE  \E h : IsOffsets(dir, h, m)
<1>. DEFINE Ok == {k \in Nat : \E h : IsOffsets(dir, h, k)}
            At(h, k) == align(IF k = 1 THEN data_offset ELSE h[k-1] + Len(dir[k-1].data))
<1>1. 0 \in Ok
  <2>. DEFINE h == [k \in 1 .. 0 |-> 0]
  <2>1. h = [k \in 1 .. 0 |-> align(IF k = 1 THEN data_offset ELSE h[k-1] + Len(dir[k-1].data))]
    OBVIOUS
  <2>. QED BY <2>1 DEF IsOffsets
<1>2. ASSUME NEW k \in Nat, k \in Ok PROVE k + 1 \in Ok
  <2>1. PICK h : IsOffsets(dir, h, k)  BY <1>2
  <2>. DEFINE g == [i \in 1 .. k+1 |-> IF i = k+1 THEN At(h, k+1) ELSE h[i]]
  <2>2. ASSUME NEW i \in 1 .. k+1 PROVE g[i] = At(g, i)
    <3>1. i # 1 => i - 1 \in 1 .. k+1 /\ i - 1 # k+1  OBVIOUS
    <3>2. i # 1 => g[i-1] = h[i-1]  BY <3>1
    <3>3. At(g, i) = At(h, i)  BY <3>2
    <3>4. CASE i = k + 1  BY <3>3, <3>4
    <3>5. CASE i \in 1 .. k
      <4>1. g[i] = h[i]  BY <3>5
      <4>2. h[i] = At(h, i)  BY <2>1, <3>5 DEF IsOffsets
      <4>. QED BY <3>3, <4>1, <4>2
    <3>. QED BY <3>4, <3>5
  <2>3. g = [i \in 1 .. k+1 |-> g[i]]  OBVIOUS
  <2>. HIDE DEF g
  <2>4. IsOffsets(dir, g, k + 1)  BY <2>2, <2>3 DEF IsOffsets
  <2>. QED BY <2>4
<1>. HIDE DEF Ok
<1>3. m \in Ok  BY <1>1, <1>2, SetInduction
<1>. QED BY <1>3 DEF Ok

LEMMA DataOffset == data_offset \in Nat /\ data_offset = HEADER_SIZE + SLOTS * ENTRY_SIZE
<1>1. SLOTS * ENTRY_SIZE \in Nat  BY MfsAssumption
<1>. QED BY <1>1, MfsAssumption DEF data_offset

(* Every file begins behind the table and behind the file before it. *)
LEMMA OffsetFacts ==
    ASSUME NEW dir, IsDirectory(dir)
    PROVE  \A k \in 1 .. Len(dir) :
               /\ Offsets(dir)[k] \in Nat /\ Offsets(dir)[k] >= data_offset
               /\ k > 1 => Offsets(dir)[k] >= Offsets(dir)[k-1] + Len(dir[k-1].data)
<1>1. /\ Len(dir) \in Nat /\ DOMAIN dir = 1 .. Len(dir)
      /\ \A k \in 1 .. Len(dir) : Len(dir[k].data) \in Nat
  BY DirectoryFacts
<1>. DEFINE H == Offsets(dir)
<1>2. H = CHOOSE h : h = [k \in 1 .. Len(dir) |->
                align(IF k = 1 THEN data_offset ELSE h[k-1] + Len(dir[k-1].data))]
  BY <1>1 DEF Offsets
<1>3. IsOffsets(dir, H, Len(dir))  BY <1>1, <1>2, OffsetsExist DEF IsOffsets
<1>. HIDE DEF H
<1>4. \A k \in 1 .. Len(dir) :
          H[k] = align(IF k = 1 THEN data_offset ELSE H[k-1] + Len(dir[k-1].data))
  BY <1>3 DEF IsOffsets
<1>. DEFINE Ok(k) == /\ H[k] \in Nat /\ H[k] >= data_offset
                     /\ k > 1 => H[k] >= H[k-1] + Len(dir[k-1].data)
            S == {k \in 0 .. Len(dir) : k > 0 => Ok(k)}
<1>5. 0 \in S  BY <1>1
<1>6. ASSUME NEW k \in 0 .. Len(dir) - 1, k \in S PROVE k + 1 \in S
  <2>1. k + 1 \in 1 .. Len(dir) /\ (k + 1) - 1 = k  BY <1>1
  <2>2. CASE k = 0
    <3>1. H[1] = align(data_offset)  BY <1>4, <2>1, <2>2
    <3>2. Ok(1)  BY <3>1, AlignFacts, DataOffset
    <3>. QED BY <2>1, <2>2, <3>2
  <2>3. CASE k > 0
    <3>. DEFINE x == H[k] + Len(dir[k].data)
    <3>1. k \in 1 .. Len(dir) /\ Ok(k) /\ k + 1 # 1  BY <1>1, <1>6, <2>3
    <3>2. H[k+1] = align(x)  BY <1>4, <2>1, <3>1
    <3>3. x \in Nat /\ x >= data_offset
      <4>1. H[k] \in Nat /\ H[k] >= data_offset /\ Len(dir[k].data) \in Nat  BY <1>1, <3>1
      <4>2. data_offset \in Nat  BY DataOffset
      <4>3. \A a, b, c \in Nat : a >= c => a + b \in Nat /\ a + b >= c  OBVIOUS
      <4>. HIDE DEF x
      <4>4. x = H[k] + Len(dir[k].data)  BY DEF x
      <4>. QED BY <4>1, <4>2, <4>3, <4>4
    <3>. HIDE DEF x
    <3>4. H[k+1] \in Nat /\ H[k+1] >= x  BY <3>2, <3>3, AlignFacts
    <3>5. Ok(k+1)  BY <2>1, <3>3, <3>4, DataOffset DEF x
    <3>. QED BY <2>1, <3>5
  <2>. QED BY <2>2, <2>3
<1>. HIDE DEF S
<1>7. 0 .. Len(dir) \subseteq S  BY <1>1, <1>5, <1>6, BoundedInduction
<1>8. ASSUME NEW k \in 1 .. Len(dir) PROVE Ok(k)
  <2>1. k \in S /\ k > 0  BY <1>1, <1>7
  <2>. QED BY <2>1 DEF S
<1>. QED BY <1>8 DEF H

(* The payload, file by file. *)
MorePayload(dir, p, k) == Padded(p, Offsets(dir)[k] - data_offset) \o dir[k].data
IsPayload(dir, h, m) ==
    h = [k \in 0 .. m |-> IF k = 0 THEN <<>> ELSE MorePayload(dir, h[k-1], k)]

LEMMA PayloadExists ==
    ASSUME NEW dir, NEW m \in Nat
    PROVE  \E h : IsPayload(dir, h, m)
<1>. DEFINE Ok == {k \in Nat : \E h : IsPayload(dir, h, k)}
            At(h, k) == IF k = 0 THEN <<>> ELSE MorePayload(dir, h[k-1], k)
<1>1. 0 \in Ok
  <2>. DEFINE h == [k \in 0 .. 0 |-> <<>>]
  <2>1. h = [k \in 0 .. 0 |-> IF k = 0 THEN <<>> ELSE MorePayload(dir, h[k-1], k)]  OBVIOUS
  <2>. QED BY <2>1 DEF IsPayload
<1>2. ASSUME NEW k \in Nat, k \in Ok PROVE k + 1 \in Ok
  <2>1. PICK h : IsPayload(dir, h, k)  BY <1>2
  <2>. DEFINE g == [i \in 0 .. k+1 |-> IF i = k+1 THEN At(h, k+1) ELSE h[i]]
  <2>2. ASSUME NEW i \in 0 .. k+1 PROVE g[i] = At(g, i)
    <3>1. i # 0 => i - 1 \in 0 .. k+1 /\ i - 1 # k+1  OBVIOUS
    <3>2. i # 0 => g[i-1] = h[i-1]  BY <3>1
    <3>3. At(g, i) = At(h, i)  BY <3>2
    <3>4. CASE i = k + 1  BY <3>3, <3>4
    <3>5. CASE i \in 0 .. k
      <4>1. g[i] = h[i]  BY <3>5
      <4>2. h[i] = At(h, i)  BY <2>1, <3>5 DEF IsPayload
      <4>. QED BY <3>3, <4>1, <4>2
    <3>. QED BY <3>4, <3>5
  <2>3. g = [i \in 0 .. k+1 |-> g[i]]  OBVIOUS
  <2>. HIDE DEF g
  <2>4. IsPayload(dir, g, k + 1)  BY <2>2, <2>3 DEF IsPayload
  <2>. QED BY <2>4
<1>. HIDE DEF Ok
<1>3. m \in Ok  BY <1>1, <1>2, SetInduction
<1>. QED BY <1>3 DEF Ok

(* The data of each file are in the payload, where its offset says. *)
LEMMA PayloadFacts ==
    ASSUME NEW dir, IsDirectory(dir)
    PROVE  /\ IsSeq(Payload(dir))
           /\ \A j \in 1 .. Len(dir) :
                  /\ Offsets(dir)[j] - data_offset + Len(dir[j].data) <= Len(Payload(dir))
                  /\ \A i \in 1 .. Len(dir[j].data) :
                         Payload(dir)[Offsets(dir)[j] - data_offset + i] = dir[j].data[i]
<1>1. /\ Len(dir) \in Nat
      /\ \A k \in 1 .. Len(dir) : IsSeq(dir[k].data) /\ Len(dir[k].data) \in Nat
  BY DirectoryFacts
<1>. DEFINE off(k) == Offsets(dir)[k] - data_offset
            size(k) == Len(dir[k].data)
<1>2. /\ \A k \in 1 .. Len(dir) : off(k) \in Nat /\ size(k) \in Nat
      /\ \A k \in 1 .. Len(dir) : k > 1 => off(k) >= off(k-1) + size(k-1)
  <2>1. data_offset \in Nat  BY DataOffset
  <2>2. ASSUME NEW k \in 1 .. Len(dir) PROVE off(k) \in Nat /\ size(k) \in Nat
    <3>1. Offsets(dir)[k] \in Nat /\ Offsets(dir)[k] >= data_offset  BY OffsetFacts
    <3>. QED BY <1>1, <2>1, <3>1
  <2>3. ASSUME NEW k \in 1 .. Len(dir), k > 1 PROVE off(k) >= off(k-1) + size(k-1)
    <3>1. k - 1 \in 1 .. Len(dir)  BY <1>1, <2>3
    <3>2. /\ Offsets(dir)[k] \in Nat /\ Offsets(dir)[k-1] \in Nat /\ size(k-1) \in Nat
          /\ Offsets(dir)[k] >= Offsets(dir)[k-1] + size(k-1)
      BY <1>1, <2>3, <3>1, OffsetFacts
    <3>3. \A a, b, c, d \in Nat : a >= b + c => a - d >= b - d + c  OBVIOUS
    <3>. HIDE DEF size
    <3>4. Offsets(dir)[k] - data_offset >= Offsets(dir)[k-1] - data_offset + size(k-1)
      BY <2>1, <3>2, <3>3
    <3>. QED BY <3>4
  <2>. QED BY <2>2, <2>3
<1>. DEFINE H == CHOOSE h : h = [k \in 0 .. Len(dir) |->
                     IF k = 0 THEN <<>> ELSE MorePayload(dir, h[k-1], k)]
<1>3. Payload(dir) = H[Len(dir)]  BY DEF Payload, MorePayload
<1>4. IsPayload(dir, H, Len(dir))  BY <1>1, PayloadExists DEF IsPayload
<1>. HIDE DEF H
<1>5. /\ H[0] = <<>>
      /\ \A k \in 1 .. Len(dir) : H[k] = Padded(H[k-1], off(k)) \o dir[k].data
  <2>1. H[0] = <<>>  BY <1>1, <1>4 DEF IsPayload
  <2>2. ASSUME NEW k \in 1 .. Len(dir)
        PROVE  H[k] = Padded(H[k-1], off(k)) \o dir[k].data
    <3>1. k \in 0 .. Len(dir) /\ k # 0  BY <1>1
    <3>2. H[k] = MorePayload(dir, H[k-1], k)  BY <1>4, <3>1 DEF IsPayload
    <3>. QED BY <3>2 DEF MorePayload
  <2>. QED BY <2>1, <2>2
<1>. HIDE DEF off, size
<1>. DEFINE Holds(p, j) == /\ off(j) + size(j) <= Len(p)
                           /\ \A i \in 1 .. size(j) : p[off(j) + i] = dir[j].data[i]
            Ok(k) == /\ IsSeq(H[k])
                     /\ Len(H[k]) = IF k = 0 THEN 0 ELSE off(k) + size(k)
                     /\ \A j \in 1 .. k : Holds(H[k], j)
            S == {k \in 0 .. Len(dir) : Ok(k)}
<1>6. 0 \in S
  <2>1. IsSeq(H[0]) /\ Len(H[0]) = 0  BY <1>5, EmptyFacts
  <2>. QED BY <1>1, <2>1
<1>7. ASSUME NEW k \in 0 .. Len(dir) - 1, k \in S PROVE k + 1 \in S
  <2>1. k + 1 \in 1 .. Len(dir) /\ (k + 1) - 1 = k /\ k + 1 # 0 /\ k \in Nat  BY <1>1
  <2>. DEFINE p == H[k]
              q == Padded(p, off(k+1))
              d == dir[k+1].data
  <2>2. /\ IsSeq(p) /\ Len(p) = (IF k = 0 THEN 0 ELSE off(k) + size(k))
        /\ \A j \in 1 .. k : Holds(p, j)
    BY <1>7
  <2>3. Len(p) \in Nat /\ off(k+1) \in Nat /\ size(k+1) \in Nat /\ Len(p) <= off(k+1)
    <3>1. Len(p) \in Nat  BY <2>2, SeqFacts
    <3>2. off(k+1) \in Nat /\ size(k+1) \in Nat  BY <1>2, <2>1
    <3>3. k > 0 => off(k+1) >= off(k) + size(k)  BY <1>2, <2>1
    <3>. QED BY <2>1, <2>2, <3>1, <3>2, <3>3
  <2>4. IsSeq(d) /\ Len(d) = size(k+1)  BY <1>1, <2>1 DEF size
  <2>5. H[k+1] = q \o d  BY <1>5, <2>1
  <2>. HIDE DEF p
  <2>6. /\ IsSeq(q) /\ Len(q) = off(k+1)
        /\ \A i \in 1 .. Len(p) : q[i] = p[i]
    BY <2>2, <2>3, PaddedFacts
  <2>. HIDE DEF q, d
  <2>7. /\ IsSeq(q \o d) /\ Len(q \o d) = Len(q) + Len(d)
        /\ \A i \in 1 .. Len(q) : (q \o d)[i] = q[i]
        /\ \A i \in 1 .. Len(q) + Len(d) : i > Len(q) => (q \o d)[i] = d[i - Len(q)]
    BY <2>4, <2>6, ConcatFacts
  <2>8. Len(q \o d) = off(k+1) + size(k+1)  BY <2>4, <2>6, <2>7
  <2>. HIDE DEF Holds
  <2>9. ASSUME NEW j \in 1 .. k + 1 PROVE Holds(q \o d, j)
    <3>1. CASE j = k + 1
      <4>1. ASSUME NEW i \in 1 .. size(k+1) PROVE (q \o d)[off(k+1) + i] = d[i]
        <5>1. /\ off(k+1) + i \in 1 .. Len(q) + Len(d) /\ off(k+1) + i > Len(q)
              /\ (off(k+1) + i) - Len(q) = i
          BY <2>3, <2>4, <2>6
        <5>. QED BY <2>7, <5>1
      <4>2. off(k+1) + size(k+1) <= Len(q \o d)  BY <2>3, <2>8
      <4>. QED BY <3>1, <4>1, <4>2 DEF d, Holds
    <3>2. CASE j \in 1 .. k
      <4>1. /\ off(j) + size(j) <= Len(p) /\ off(j) \in Nat /\ size(j) \in Nat
            /\ \A i \in 1 .. size(j) : p[off(j) + i] = dir[j].data[i]
        <5>1. j \in 1 .. Len(dir)  BY <2>1, <3>2
        <5>. QED BY <1>2, <2>2, <3>2, <5>1 DEF Holds
      <4>2. off(j) + size(j) <= Len(q \o d)  BY <2>3, <2>8, <4>1
      <4>3. ASSUME NEW i \in 1 .. size(j) PROVE (q \o d)[off(j) + i] = dir[j].data[i]
        <5>1. off(j) + i \in 1 .. Len(p) /\ off(j) + i \in 1 .. Len(q)  BY <2>3, <2>6, <4>1
        <5>. QED BY <2>6, <2>7, <4>1, <5>1
      <4>. QED BY <4>2, <4>3 DEF Holds
    <3>. QED BY <2>1, <3>1, <3>2
  <2>10. Ok(k+1)  BY <2>1, <2>5, <2>7, <2>8, <2>9
  <2>. QED BY <2>1, <2>10
<1>. HIDE DEF S
<1>8. 0 .. Len(dir) \subseteq S  BY <1>1, <1>6, <1>7, BoundedInduction
<1>9. Len(dir) \in S  BY <1>1, <1>8
<1>10. Ok(Len(dir))  BY <1>9 DEF S
<1>. QED BY <1>3, <1>10 DEF off, size, Holds

(* Rows of one length, one behind the other. *)
IsFlat(seqs, h, m) == h = [i \in 1 .. m |-> IF i = 1 THEN seqs[i] ELSE h[i-1] \o seqs[i]]

LEMMA FlatExists ==
    ASSUME NEW seqs, NEW m \in Nat
    PROVE  \E h : IsFlat(seqs, h, m)
<1>. DEFINE Ok == {k \in Nat : \E h : IsFlat(seqs, h, k)}
            At(h, i) == IF i = 1 THEN seqs[i] ELSE h[i-1] \o seqs[i]
<1>1. 0 \in Ok
  <2>. DEFINE h == [i \in 1 .. 0 |-> 0]
  <2>1. h = [i \in 1 .. 0 |-> IF i = 1 THEN seqs[i] ELSE h[i-1] \o seqs[i]]  OBVIOUS
  <2>. QED BY <2>1 DEF IsFlat
<1>2. ASSUME NEW k \in Nat, k \in Ok PROVE k + 1 \in Ok
  <2>1. PICK h : IsFlat(seqs, h, k)  BY <1>2
  <2>. DEFINE g == [i \in 1 .. k+1 |-> IF i = k+1 THEN At(h, k+1) ELSE h[i]]
  <2>2. ASSUME NEW i \in 1 .. k+1 PROVE g[i] = At(g, i)
    <3>1. i # 1 => i - 1 \in 1 .. k+1 /\ i - 1 # k+1  OBVIOUS
    <3>2. i # 1 => g[i-1] = h[i-1]  BY <3>1
    <3>3. At(g, i) = At(h, i)  BY <3>2
    <3>4. CASE i = k + 1  BY <3>3, <3>4
    <3>5. CASE i \in 1 .. k
      <4>1. g[i] = h[i]  BY <3>5
      <4>2. h[i] = At(h, i)  BY <2>1, <3>5 DEF IsFlat
      <4>. QED BY <3>3, <4>1, <4>2
    <3>. QED BY <3>4, <3>5
  <2>3. g = [i \in 1 .. k+1 |-> g[i]]  OBVIOUS
  <2>. HIDE DEF g
  <2>4. IsFlat(seqs, g, k + 1)  BY <2>2, <2>3 DEF IsFlat
  <2>. QED BY <2>4
<1>. HIDE DEF Ok
<1>3. m \in Ok  BY <1>1, <1>2, SetInduction
<1>. QED BY <1>3 DEF Ok

LEMMA FlatFacts ==
    ASSUME NEW seqs, NEW n \in Nat \ {0}, NEW e \in Nat, IsSeq(seqs), Len(seqs) = n,
           \A k \in 1 .. n : IsSeq(seqs[k]) /\ Len(seqs[k]) = e
    PROVE  /\ IsSeq(FlattenSeq(seqs)) /\ Len(FlattenSeq(seqs)) = n * e
           /\ \A k \in 1 .. n : \A i \in 1 .. e : FlattenSeq(seqs)[(k-1) * e + i] = seqs[k][i]
<1>. DEFINE H == CHOOSE h : h = [i \in 1 .. n |-> IF i = 1 THEN seqs[i] ELSE h[i-1] \o seqs[i]]
<1>1. FlattenSeq(seqs) = H[n]  BY DEF FlattenSeq
<1>2. IsFlat(seqs, H, n)
  <2>1. n \in Nat  OBVIOUS
  <2>2. \E h : IsFlat(seqs, h, n)  BY <2>1, FlatExists
  <2>3. H = CHOOSE h : IsFlat(seqs, h, n)  BY DEF IsFlat
  <2>. HIDE DEF H
  <2>. QED BY <2>2, <2>3
<1>. HIDE DEF H
<1>3. \A i \in 1 .. n : H[i] = IF i = 1 THEN seqs[i] ELSE H[i-1] \o seqs[i]  BY <1>2 DEF IsFlat
<1>. DEFINE Ok(m) == /\ IsSeq(H[m]) /\ Len(H[m]) = m * e
                     /\ \A k \in 1 .. m : \A i \in 1 .. e : H[m][(k-1) * e + i] = seqs[k][i]
            S == {m \in 0 .. n : m > 0 => Ok(m)}
<1>4. 0 \in S  OBVIOUS
<1>5. ASSUME NEW m \in 0 .. n - 1, m \in S PROVE m + 1 \in S
  <2>1. m + 1 \in 1 .. n /\ (m + 1) - 1 = m /\ m \in Nat  OBVIOUS
  <2>2. CASE m = 0
    <3>1. H[1] = seqs[1]  BY <1>3, <2>1, <2>2
    <3>2. 1 * e = e /\ (1 - 1) * e = 0 /\ 1 \in 1 .. n  OBVIOUS
    <3>3. \A i \in 1 .. e : 0 + i = i  OBVIOUS
    <3>4. \A k \in 1 .. 1 : k = 1  OBVIOUS
    <3>5. Ok(1)  BY <3>1, <3>2, <3>3, <3>4
    <3>. QED BY <2>1, <2>2, <3>5
  <2>3. CASE m > 0
    <3>. DEFINE p == H[m]
                r == seqs[m+1]
    <3>1. /\ IsSeq(p) /\ Len(p) = m * e
          /\ \A k \in 1 .. m : \A i \in 1 .. e : p[(k-1) * e + i] = seqs[k][i]
      BY <1>5, <2>3
    <3>2. IsSeq(r) /\ Len(r) = e  BY <2>1
    <3>3. H[m+1] = p \o r
      <4>1. m + 1 # 1  BY <2>1, <2>3
      <4>2. H[m+1] = H[(m+1)-1] \o seqs[m+1]  BY <1>3, <2>1, <4>1
      <4>. QED BY <2>1, <4>2
    <3>. HIDE DEF p, r
    <3>4. /\ IsSeq(p \o r) /\ Len(p \o r) = Len(p) + Len(r)
          /\ \A i \in 1 .. Len(p) : (p \o r)[i] = p[i]
          /\ \A i \in 1 .. Len(p) + Len(r) : i > Len(p) => (p \o r)[i] = r[i - Len(p)]
      BY <3>1, <3>2, ConcatFacts
    <3>5. m * e \in Nat /\ (m + 1) * e = m * e + e  BY <2>1
    <3>6. ASSUME NEW k \in 1 .. m + 1, NEW i \in 1 .. e
          PROVE  (p \o r)[(k-1) * e + i] = seqs[k][i]
      <4>1. CASE k = m + 1
        <5>1. m * e + i \in 1 .. Len(p) + Len(r) /\ m * e + i > Len(p) /\ (m * e + i) - Len(p) = i
          BY <3>1, <3>2, <3>5
        <5>2. (p \o r)[m * e + i] = r[i]  BY <3>4, <5>1
        <5>3. k - 1 = m  BY <2>1, <4>1
        <5>. QED BY <4>1, <5>2, <5>3 DEF r
      <4>2. CASE k # m + 1
        <5>1. k \in 1 .. m /\ k - 1 \in Nat /\ k - 1 < m  BY <2>1, <4>2
        <5>2. (k-1) * e \in Nat /\ (k-1) * e + e <= m * e  BY <2>1, <5>1, RowBounds
        <5>. DEFINE x == (k-1) * e
        <5>. HIDE DEF x
        <5>3. x \in Nat /\ x + e <= Len(p) /\ Len(p) \in Nat  BY <3>1, <3>5, <5>2 DEF x
        <5>4. x + i \in 1 .. Len(p)  BY <5>3
        <5>5. (p \o r)[x + i] = p[x + i]  BY <3>4, <5>4
        <5>6. p[x + i] = seqs[k][i]  BY <3>1, <5>1 DEF x
        <5>. QED BY <5>5, <5>6 DEF x
      <4>. QED BY <4>1, <4>2
    <3>7. Len(p \o r) = (m + 1) * e  BY <3>1, <3>2, <3>4, <3>5
    <3>8. Ok(m + 1)  BY <3>3, <3>4, <3>6, <3>7
    <3>. QED BY <2>1, <3>8
  <2>. QED BY <2>1, <2>2, <2>3
<1>. HIDE DEF S
<1>6. 0 .. n \subseteq S  BY <1>4, <1>5, BoundedInduction
<1>7. n \in S /\ n > 0  BY <1>6
<1>8. Ok(n)  BY <1>7 DEF S
<1>. QED BY <1>1, <1>8

(* The entry of a slot: the name, zeros, its two numbers; an empty slot    *)
(* has zeros.                                                              *)
Row(dir, k) ==
    IF k > Len(dir) THEN Zeros(ENTRY_SIZE)
    ELSE Padded(Padded(dir[k].name, NAME_SIZE) \o <<Offsets(dir)[k], Len(dir[k].data)>>,
                ENTRY_SIZE)

LEMMA RowFacts ==
    ASSUME NEW dir, IsDirectory(dir), ~Rejected(dir), NEW k \in 1 .. SLOTS
    PROVE  /\ IsSeq(Row(dir, k)) /\ Len(Row(dir, k)) = ENTRY_SIZE
           /\ k > Len(dir) => Row(dir, k)[1] = 0
           /\ k <= Len(dir) =>
                  /\ k \in 1 .. Len(dir) /\ Len(dir[k].name) < NAME_SIZE
                  /\ \A i \in 1 .. Len(dir[k].name) : Row(dir, k)[i] = dir[k].name[i]
                  /\ Row(dir, k)[Len(dir[k].name) + 1] = 0
<1>1. ENTRY_SIZE \in Nat /\ NAME_SIZE \in Nat \ {0} /\ ENTRY_SIZE >= NAME_SIZE + 2 /\ SLOTS \in Nat
  BY MfsAssumption
<1>2. Len(dir) \in Nat /\ DOMAIN dir = 1 .. Len(dir)  BY DirectoryFacts
<1>3. CASE k > Len(dir)
  <2>. DEFINE z == Zeros(ENTRY_SIZE)
  <2>1. Row(dir, k) = z  BY <1>3 DEF Row
  <2>2. z \in Seq({0}) /\ Len(z) = ENTRY_SIZE /\ z[1] = 0  BY <1>1 DEF Zeros
  <2>. HIDE DEF z
  <2>. QED BY <1>1, <1>2, <1>3, <2>1, <2>2, IntoSeq
<1>4. CASE k <= Len(dir)
  <2>1. k \in 1 .. Len(dir)  BY <1>1, <1>2, <1>4
  <2>. DEFINE name == dir[k].name
              p == Padded(name, NAME_SIZE)
              t == <<Offsets(dir)[k], Len(dir[k].data)>>
              u == p \o t
  <2>2. IsSeq(name) /\ Len(name) \in Nat /\ Len(name) < NAME_SIZE
    BY <1>1, <1>2, <2>1, DirectoryFacts DEF Rejected
  <2>3. Row(dir, k) = Padded(u, ENTRY_SIZE)  BY <1>1, <1>2, <1>4 DEF Row
  <2>4. t \in Seq({Offsets(dir)[k], Len(dir[k].data)}) /\ Len(t) = 2  OBVIOUS
  <2>. HIDE DEF name, t, u
  <2>5. IsSeq(t)  BY <2>4, IntoSeq
  <2>6. /\ IsSeq(p) /\ Len(p) = NAME_SIZE
        /\ \A i \in 1 .. Len(name) : p[i] = name[i]
        /\ \A i \in Len(name) + 1 .. NAME_SIZE : p[i] = 0
    BY <1>1, <2>2, PaddedFacts
  <2>. HIDE DEF p
  <2>7. IsSeq(u) /\ Len(u) = NAME_SIZE + 2 /\ \A i \in 1 .. NAME_SIZE : u[i] = p[i]
    <3>1. /\ IsSeq(p \o t) /\ Len(p \o t) = Len(p) + Len(t)
          /\ \A i \in 1 .. Len(p) : (p \o t)[i] = p[i]
      BY <2>5, <2>6, ConcatFacts
    <3>. QED BY <2>4, <2>6, <3>1 DEF u
  <2>8. /\ IsSeq(Row(dir, k)) /\ Len(Row(dir, k)) = ENTRY_SIZE
        /\ \A i \in 1 .. NAME_SIZE + 2 : Row(dir, k)[i] = u[i]
    BY <1>1, <2>3, <2>7, PaddedFacts
  <2>9. \A i \in 1 .. NAME_SIZE : Row(dir, k)[i] = p[i]  BY <1>1, <2>7, <2>8
  <2>10. \A i \in 1 .. Len(name) : Row(dir, k)[i] = name[i]  BY <1>1, <2>2, <2>6, <2>9
  <2>11. Row(dir, k)[Len(name) + 1] = 0  BY <1>1, <2>2, <2>6, <2>9
  <2>. QED BY <1>1, <1>2, <1>4, <2>1, <2>2, <2>8, <2>10, <2>11 DEF name
<1>. QED BY <1>1, <1>2, <1>3, <1>4

LEMMA ImageFacts ==
    ASSUME NEW dir, IsDirectory(dir), ~Rejected(dir)
    PROVE  /\ Len(build(dir)) = data_offset + Len(Payload(dir))
           /\ \A k \in 1 .. SLOTS : \A i \in 1 .. ENTRY_SIZE :
                  build(dir)[HEADER_SIZE + ((k-1) * ENTRY_SIZE + i)] = Row(dir, k)[i]
           /\ \A i \in 1 .. Len(Payload(dir)) :
                  build(dir)[data_offset + i] = Payload(dir)[i]
<1>1. /\ ENTRY_SIZE \in Nat /\ HEADER_SIZE \in Nat /\ HEADER_SIZE >= 7 /\ SLOTS \in Nat \ {0}
      /\ SLOTS * ENTRY_SIZE \in Nat
  BY MfsAssumption
<1>. DEFINE H == Header(dir)
            T == Table(dir)
            P == Payload(dir)
            rows == [k \in 1 .. SLOTS |-> Row(dir, k)]
<1>2. IsSeq(H) /\ Len(H) = HEADER_SIZE
  <2>. DEFINE s == <<MAGIC, BLOCK_SIZE, Len(dir), HEADER_SIZE, data_offset,
                     data_offset + Len(Payload(dir)), ENTRY_SIZE>>
              S == {MAGIC, BLOCK_SIZE, Len(dir), HEADER_SIZE, data_offset,
                    data_offset + Len(Payload(dir)), ENTRY_SIZE}
  <2>1. s \in Seq(S) /\ Len(s) = 7  OBVIOUS
  <2>2. H = Padded(s, HEADER_SIZE)  BY DEF Header
  <2>. HIDE DEF s, S, H
  <2>3. IsSeq(s)  BY <2>1, IntoSeq
  <2>. QED BY <1>1, <2>1, <2>2, <2>3, PaddedFacts
<1>3. /\ IsSeq(T) /\ Len(T) = SLOTS * ENTRY_SIZE
      /\ \A k \in 1 .. SLOTS : \A i \in 1 .. ENTRY_SIZE :
             T[(k-1) * ENTRY_SIZE + i] = Row(dir, k)[i]
  <2>1. T = FlattenSeq(rows)  BY DEF Table, Row
  <2>2. rows \in Seq({Row(dir, k) : k \in 1 .. SLOTS}) /\ Len(rows) = SLOTS  BY <1>1
  <2>3. \A k \in 1 .. SLOTS : rows[k] = Row(dir, k)  OBVIOUS
  <2>4. \A k \in 1 .. SLOTS : IsSeq(rows[k]) /\ Len(rows[k]) = ENTRY_SIZE  BY <2>3, RowFacts
  <2>. HIDE DEF rows, T
  <2>5. IsSeq(rows)  BY <2>2, IntoSeq
  <2>6. /\ IsSeq(FlattenSeq(rows)) /\ Len(FlattenSeq(rows)) = SLOTS * ENTRY_SIZE
        /\ \A k \in 1 .. SLOTS : \A i \in 1 .. ENTRY_SIZE :
               FlattenSeq(rows)[(k-1) * ENTRY_SIZE + i] = rows[k][i]
    BY <1>1, <2>2, <2>4, <2>5, FlatFacts
  <2>. QED BY <2>1, <2>3, <2>6
<1>4. IsSeq(P) /\ Len(P) \in Nat  BY PayloadFacts, SeqFacts
<1>5. build(dir) = (H \o T) \o P  BY DEF build
<1>. HIDE DEF H, T, P
<1>. DEFINE HT == H \o T
<1>6. /\ IsSeq(HT) /\ Len(HT) = Len(H) + Len(T)
      /\ \A k \in 1 .. Len(H) + Len(T) : k > Len(H) => HT[k] = T[k - Len(H)]
  BY <1>2, <1>3, ConcatFacts
<1>. HIDE DEF HT
<1>7. Len(HT) = data_offset  BY <1>2, <1>3, <1>6, DataOffset
<1>8. /\ Len(HT \o P) = Len(HT) + Len(P)
      /\ \A k \in 1 .. Len(HT) : (HT \o P)[k] = HT[k]
      /\ \A k \in 1 .. Len(HT) + Len(P) : k > Len(HT) => (HT \o P)[k] = P[k - Len(HT)]
  BY <1>4, <1>6, ConcatFacts
<1>9. ASSUME NEW k \in 1 .. SLOTS, NEW i \in 1 .. ENTRY_SIZE
      PROVE  build(dir)[HEADER_SIZE + ((k-1) * ENTRY_SIZE + i)] = Row(dir, k)[i]
  <2>. DEFINE x == (k-1) * ENTRY_SIZE
  <2>1. x \in Nat /\ x + ENTRY_SIZE <= SLOTS * ENTRY_SIZE
    <3>1. k - 1 \in Nat /\ SLOTS \in Nat /\ k - 1 < SLOTS  BY <1>1
    <3>. QED BY <1>1, <3>1, RowBounds
  <2>2. T[x + i] = Row(dir, k)[i]  BY <1>3
  <2>. HIDE DEF x
  <2>3. x + i \in 1 .. Len(T) /\ x + i \in Nat  BY <1>1, <1>3, <2>1
  <2>4. /\ HEADER_SIZE + (x + i) \in 1 .. Len(H) + Len(T) /\ HEADER_SIZE + (x + i) > Len(H)
        /\ (HEADER_SIZE + (x + i)) - Len(H) = x + i
    BY <1>1, <1>2, <1>3, <2>3
  <2>5. HT[HEADER_SIZE + (x + i)] = T[x + i]  BY <1>6, <2>4
  <2>6. (HT \o P)[HEADER_SIZE + (x + i)] = HT[HEADER_SIZE + (x + i)]  BY <1>6, <1>8, <2>4
  <2>. QED BY <1>5, <2>2, <2>5, <2>6 DEF HT, x
<1>10. ASSUME NEW i \in 1 .. Len(P) PROVE build(dir)[data_offset + i] = P[i]
  <2>1. /\ data_offset + i \in 1 .. Len(HT) + Len(P) /\ data_offset + i > Len(HT)
        /\ (data_offset + i) - Len(HT) = i
    <3>1. data_offset \in Nat  BY DataOffset
    <3>. QED BY <1>4, <1>7, <3>1
  <2>. QED BY <1>5, <1>8, <2>1 DEF HT
<1>. QED BY <1>5, <1>7, <1>8, <1>9, <1>10 DEF HT, P

(* What mfs.cat has in mfs_buf: the entries, and the payload as far as the *)
(* buffer goes.                                                            *)
LEMMA BufferFacts ==
    ASSUME NEW dir, IsDirectory(dir), ~Rejected(dir)
    PROVE  /\ \A k \in 1 .. SLOTS : \A i \in 1 .. ENTRY_SIZE :
                  Buffer(build(dir))[HEADER_SIZE + (k-1) * ENTRY_SIZE + i - 1] = Row(dir, k)[i]
           /\ \A i \in 1 .. Len(Payload(dir)) :
                  data_offset + i - 1 < MfsBuf =>
                      Buffer(build(dir))[data_offset + i - 1] = Payload(dir)[i]
<1>1. /\ ENTRY_SIZE \in Nat /\ HEADER_SIZE \in Nat /\ SLOTS \in Nat
      /\ SLOTS * ENTRY_SIZE \in Nat /\ MfsBuf \in Nat
      /\ MfsBuf >= HEADER_SIZE + SLOTS * ENTRY_SIZE
  BY MfsAssumption
<1>2. Len(build(dir)) = data_offset + Len(Payload(dir)) /\ Len(Payload(dir)) \in Nat
  BY ImageFacts, PayloadFacts, SeqFacts
<1>3. data_offset \in Nat /\ data_offset = HEADER_SIZE + SLOTS * ENTRY_SIZE  BY DataOffset
<1>. DEFINE image == build(dir)
<1>4. ASSUME NEW a \in Nat, a < MfsBuf, a < Len(image)
      PROVE  Buffer(image)[a] = image[a + 1]
  BY <1>1, <1>4 DEF Buffer
<1>5. ASSUME NEW k \in 1 .. SLOTS, NEW i \in 1 .. ENTRY_SIZE
      PROVE  Buffer(image)[HEADER_SIZE + (k-1) * ENTRY_SIZE + i - 1] = Row(dir, k)[i]
  <2>. DEFINE x == (k-1) * ENTRY_SIZE
  <2>1. x \in Nat /\ x + ENTRY_SIZE <= SLOTS * ENTRY_SIZE
    <3>1. k - 1 \in Nat /\ k - 1 < SLOTS  BY <1>1
    <3>. QED BY <1>1, <3>1, RowBounds
  <2>2. image[HEADER_SIZE + (x + i)] = Row(dir, k)[i]  BY ImageFacts
  <2>. HIDE DEF x, image
  <2>. DEFINE a == HEADER_SIZE + x + i - 1
  <2>3. a \in Nat /\ a + 1 = HEADER_SIZE + (x + i) /\ a < data_offset  BY <1>1, <1>3, <2>1
  <2>4. a < MfsBuf /\ a < Len(image)  BY <1>1, <1>2, <1>3, <2>3 DEF image
  <2>. HIDE DEF a
  <2>5. Buffer(image)[a] = image[a + 1]  BY <1>4, <2>3, <2>4
  <2>. QED BY <2>2, <2>3, <2>5 DEF a, x
<1>6. ASSUME NEW i \in 1 .. Len(Payload(dir)), data_offset + i - 1 < MfsBuf
      PROVE  Buffer(image)[data_offset + i - 1] = Payload(dir)[i]
  <2>1. image[data_offset + i] = Payload(dir)[i]  BY ImageFacts
  <2>. HIDE DEF image
  <2>. DEFINE a == data_offset + i - 1
  <2>2. a \in Nat /\ a + 1 = data_offset + i /\ a < Len(image)  BY <1>2, <1>3 DEF image
  <2>. HIDE DEF a
  <2>3. Buffer(image)[a] = image[a + 1]  BY <1>4, <1>6, <2>2 DEF a
  <2>. QED BY <2>1, <2>2, <2>3 DEF a
<1>. QED BY <1>5, <1>6

LEMMA ByteStrings ==
    ASSUME NEW s \in Seq(1 .. 255)
    PROVE  /\ Len(s) \in Nat /\ s \in [1 .. Len(s) -> 1 .. 255]
           /\ s # <<>> => Len(s) # 0
           /\ \A i \in 1 .. Len(s) : s[i] \in 1 .. 255 /\ s[i] # 0
<1>. DEFINE B == 1 .. 255
<1>1. 0 \notin B  OBVIOUS
<1>. HIDE DEF B
<1>2. s \in Seq(B)  BY DEF B
<1>3. Len(s) \in Nat /\ s \in [1 .. Len(s) -> B] /\ (s # <<>> => Len(s) # 0)  BY <1>2
<1>4. \A i \in 1 .. Len(s) : s[i] \in B /\ s[i] # 0  BY <1>1, <1>3
<1>. QED BY <1>3, <1>4 DEF B

(* mfs_name_matches_path finds the slot of the file with the name, and     *)
(* none for a name no file has.                                            *)
LEMMA MatchesFacts ==
    ASSUME NEW dir, IsDirectory(dir), ~Rejected(dir), NEW path \in Seq(1 .. 255), path # <<>>,
           NEW k \in 1 .. SLOTS
    PROVE  Matches(Buffer(build(dir)), k, path) <=> k \in 1 .. Len(dir) /\ dir[k].name = path
<1>. DEFINE buf == Buffer(build(dir))
            pos(i) == HEADER_SIZE + (k-1) * ENTRY_SIZE + i - 1
            name == dir[k].name
<1>1. \A i \in 1 .. ENTRY_SIZE : buf[pos(i)] = Row(dir, k)[i]  BY BufferFacts
<1>2. Matches(buf, k, path)
      <=> \A i \in 1 .. Len(path) + 1 : buf[pos(i)] = IF i <= Len(path) THEN path[i] ELSE 0
  BY DEF Matches
<1>3. /\ Len(path) \in Nat \ {0} /\ path \in [1 .. Len(path) -> 1 .. 255]
      /\ \A i \in 1 .. Len(path) : path[i] # 0
  BY ByteStrings
<1>4. ENTRY_SIZE \in Nat /\ NAME_SIZE \in Nat /\ ENTRY_SIZE >= NAME_SIZE + 2  BY MfsAssumption
<1>. HIDE DEF buf, pos, name
<1>5. CASE k > Len(dir)
  <2>1. buf[pos(1)] = 0  BY <1>1, <1>4, <1>5, RowFacts
  <2>2. 1 \in 1 .. Len(path) /\ 1 \in 1 .. Len(path) + 1 /\ 1 <= Len(path)  BY <1>3
  <2>3. ~Matches(buf, k, path)  BY <1>2, <1>3, <2>1, <2>2
  <2>4. k \notin 1 .. Len(dir)  BY <1>5, DirectoryFacts
  <2>. QED BY <2>3, <2>4 DEF buf
<1>6. CASE k <= Len(dir)
  <2>1. /\ k \in 1 .. Len(dir) /\ Len(name) < NAME_SIZE
        /\ \A i \in 1 .. Len(name) : Row(dir, k)[i] = name[i]
        /\ Row(dir, k)[Len(name) + 1] = 0
    BY <1>6, RowFacts DEF name
  <2>2. /\ Len(name) \in Nat /\ name \in [1 .. Len(name) -> 1 .. 255]
        /\ \A i \in 1 .. Len(name) : name[i] # 0
    <3>1. name \in Seq(1 .. 255)  BY <2>1, DirectoryFacts DEF name
    <3>. QED BY <3>1, ByteStrings
  <2>3. /\ \A i \in 1 .. Len(name) : buf[pos(i)] = name[i]
        /\ buf[pos(Len(name) + 1)] = 0
    BY <1>1, <1>4, <2>1, <2>2
  <2>4. ASSUME name = path PROVE Matches(buf, k, path)
    <3>1. \A i \in 1 .. Len(path) + 1 : i \in 1 .. Len(name) \/ (i = Len(name) + 1 /\ ~(i <= Len(path)))
      BY <1>3, <2>4
    <3>. QED BY <1>2, <1>3, <2>3, <2>4, <3>1
  <2>5. ASSUME Matches(buf, k, path) PROVE name = path
    <3>1. \A i \in 1 .. Len(path) + 1 : buf[pos(i)] = IF i <= Len(path) THEN path[i] ELSE 0
      BY <1>2, <2>5
    <3>2. Len(path) = Len(name)
      <4>1. CASE Len(path) < Len(name)
        <5>1. /\ Len(path) + 1 \in 1 .. Len(path) + 1 /\ ~(Len(path) + 1 <= Len(path))
              /\ Len(path) + 1 \in 1 .. Len(name)
          BY <1>3, <2>2, <4>1
        <5>2. name[Len(path) + 1] = 0  BY <2>3, <3>1, <5>1
        <5>. QED BY <2>2, <5>1, <5>2
      <4>2. CASE Len(path) > Len(name)
        <5>1. /\ Len(name) + 1 \in 1 .. Len(path) + 1 /\ Len(name) + 1 <= Len(path)
              /\ Len(name) + 1 \in 1 .. Len(path)
          BY <1>3, <2>2, <4>2
        <5>2. path[Len(name) + 1] = 0  BY <2>3, <3>1, <5>1
        <5>. QED BY <1>3, <5>1, <5>2
      <4>3. \A a, b \in Nat : a < b \/ a > b \/ a = b  OBVIOUS
      <4>4. Len(path) \in Nat /\ Len(name) \in Nat  BY <1>3, <2>2
      <4>. QED BY <4>1, <4>2, <4>3, <4>4
    <3>3. ASSUME NEW i \in 1 .. Len(path) PROVE name[i] = path[i]
      <4>1. i \in 1 .. Len(path) + 1 /\ i <= Len(path) /\ i \in 1 .. Len(name)  BY <1>3, <3>2
      <4>. QED BY <2>3, <3>1, <4>1
    <3>. QED BY <1>3, <2>2, <3>2, <3>3
  <2>. QED BY <2>1, <2>4, <2>5 DEF buf, name
<1>7. Len(dir) \in Nat /\ SLOTS \in Nat  BY DirectoryFacts, MfsAssumption
<1>. QED BY <1>5, <1>6, <1>7

(* mfs.cat prints the file of the name, if the payload lies within         *)
(* mfs_buf, and fails for any other name: the manifest and the image of    *)
(* one directory fit each other.                                           *)
THEOREM CatPrintsTheFile ==
    ASSUME NEW dir, IsDirectory(dir), ~Rejected(dir), NEW path \in Seq(1 .. 255), path # <<>>
    PROVE  /\ (\A k \in 1 .. Len(dir) : dir[k].name # path) =>
                  mfs_cat(manifest(dir), build(dir), path) = Failed
           /\ \A k \in 1 .. Len(dir) :
                  /\ dir[k].name = path
                  /\ Offsets(dir)[k] + Len(dir[k].data) <= MfsBuf
                  => mfs_cat(manifest(dir), build(dir), path) = dir[k].data
<1>. DEFINE buf == Buffer(build(dir))
            found == {k \in 1 .. SLOTS : Matches(buf, k, path)}
            first == CHOOSE k \in found : \A j \in found : k <= j
            slot == manifest(dir)[first]
<1>1. mfs_cat(manifest(dir), build(dir), path)
      = IF found = {} THEN Failed
        ELSE [i \in 1 .. slot.end - slot.src |->
                 IF slot.src + i - 1 < MfsBuf THEN buf[slot.src + i - 1] ELSE Foreign]
  BY DEF mfs_cat
<1>2. found = {k \in 1 .. SLOTS : k \in 1 .. Len(dir) /\ dir[k].name = path}
  BY MatchesFacts
<1>3. /\ Len(dir) \in Nat /\ DOMAIN dir = 1 .. Len(dir) /\ Len(dir) <= SLOTS /\ SLOTS \in Nat
      /\ \A k \in 1 .. Len(dir) : k \in 1 .. SLOTS
  BY DirectoryFacts, MfsAssumption DEF Rejected
<1>. HIDE DEF found
<1>4. (\A k \in 1 .. Len(dir) : dir[k].name # path) => found = {}  BY <1>2
<1>5. ASSUME NEW k \in 1 .. Len(dir), dir[k].name = path,
             Offsets(dir)[k] + Len(dir[k].data) <= MfsBuf
      PROVE  mfs_cat(manifest(dir), build(dir), path) = dir[k].data
  <2>. DEFINE d == dir[k].data
              o == Offsets(dir)[k]
  <2>1. found = {k}
    <3>1. \A j \in found : j = k  BY <1>2, <1>3, <1>5 DEF IsDirectory
    <3>2. k \in found  BY <1>2, <1>3, <1>5
    <3>. QED BY <3>1, <3>2
  <2>2. first = k
    <3>1. k \in found /\ \A j \in found : j = k  BY <2>1
    <3>2. \A j \in found : k <= j  BY <1>3, <3>1
    <3>3. \E j \in found : \A l \in found : j <= l  BY <3>1, <3>2
    <3>4. first \in found  BY <3>3
    <3>. QED BY <3>1, <3>4
  <2>. HIDE DEF first
  <2>3. /\ o \in Nat /\ o >= data_offset /\ data_offset \in Nat /\ Len(d) \in Nat
        /\ d \in Seq(0 .. 255) /\ k \in 1 .. SLOTS /\ ~(k > Len(dir))
    BY <1>3, OffsetFacts, DirectoryFacts, DataOffset
  <2>4. slot.src = o /\ slot.end = o + Len(d)
    <3>1. manifest(dir)[k] = [src |-> o, end |-> o + Len(d), size |-> Len(d), offset |-> o]
      BY <2>3 DEF manifest
    <3>. QED BY <2>2, <3>1
  <2>. HIDE DEF slot
  <2>5. /\ o - data_offset + Len(d) <= Len(Payload(dir))
        /\ \A i \in 1 .. Len(d) : Payload(dir)[o - data_offset + i] = d[i]
        /\ Len(Payload(dir)) \in Nat
    BY PayloadFacts, SeqFacts
  <2>6. o + Len(d) <= MfsBuf  BY <1>5
  <2>7. MfsBuf \in Nat  BY MfsAssumption
  <2>8. \A i \in 1 .. Len(Payload(dir)) :
            data_offset + i - 1 < MfsBuf => buf[data_offset + i - 1] = Payload(dir)[i]
    BY BufferFacts
  <2>. HIDE DEF d, o, buf
  <2>9. ASSUME NEW i \in 1 .. Len(d) PROVE o + i - 1 < MfsBuf /\ buf[o + i - 1] = d[i]
    <3>. DEFINE j == o - data_offset + i
    <3>1. j \in 1 .. Len(Payload(dir)) /\ data_offset + j - 1 = o + i - 1 /\ o + i - 1 < MfsBuf
      BY <2>3, <2>5, <2>6, <2>7
    <3>2. Payload(dir)[j] = d[i]  BY <2>5
    <3>. HIDE DEF j
    <3>. QED BY <2>8, <3>1, <3>2
  <2>10. mfs_cat(manifest(dir), build(dir), path) = [i \in 1 .. Len(d) |-> d[i]]
    <3>1. slot.end - slot.src = Len(d)  BY <2>3, <2>4
    <3>2. mfs_cat(manifest(dir), build(dir), path)
          = [i \in 1 .. Len(d) |-> IF o + i - 1 < MfsBuf THEN buf[o + i - 1] ELSE Foreign]
      BY <1>1, <2>1, <2>4, <3>1
    <3>. QED BY <2>9, <3>2
  <2>11. d = [i \in 1 .. Len(d) |-> d[i]]
    <3>. DEFINE B == 0 .. 255
    <3>. HIDE DEF B
    <3>1. d \in Seq(B)  BY <2>3 DEF B
    <3>. QED BY <3>1
  <2>. QED BY <2>10, <2>11 DEF d
<1>. QED BY <1>1, <1>4, <1>5

(***************************************************************************)
(* What is shown                                                           *)
(***************************************************************************)

LEMMA ShownIsCurrent ==
    ASSUME Shapes, Versions, ~Rejected(Roots[root.v])
    PROVE  Current
<1>. DEFINE files == Roots[root.v]
            names == UNION {{Roots[v][k].name : k \in DOMAIN Roots[v]} : v \in DOMAIN Roots}
            Cat(name) == mfs_cat(manifest(files), build(files), name)
<1>1. /\ root.v \in DOMAIN Roots /\ IsDirectory(files) /\ ~Rejected(files)
  BY RootsAssumption DEF Shapes
<1>2. \A name \in names : name \in Seq(1 .. 255) /\ name # <<>>
  <2>. SUFFICES ASSUME NEW v \in DOMAIN Roots, NEW k \in DOMAIN Roots[v]
                PROVE  Roots[v][k].name \in Seq(1 .. 255) /\ Roots[v][k].name # <<>>
    OBVIOUS
  <2>1. IsDirectory(Roots[v])  BY RootsAssumption
  <2>2. Roots[v][k].name \in Seq(1 .. 255)  BY <2>1, DirectoryFacts
  <2>3. Roots[v][k].name # <<>>  BY <2>1 DEF IsDirectory
  <2>. QED BY <2>2, <2>3
<1>3. \A k \in DOMAIN files : files[k].name \in names  BY <1>1
<1>4. DOMAIN files = 1 .. Len(files)  BY <1>1, DirectoryFacts
<1>. HIDE DEF files, names
<1>5. \A k \in DOMAIN files :
          Offsets(files)[k] + Len(files[k].data) <= MfsBuf => Cat(files[k].name) = files[k].data
  <2>. TAKE k \in DOMAIN files
  <2>1. files[k].name \in Seq(1 .. 255) /\ files[k].name # <<>>  BY <1>2, <1>3
  <2>. QED BY <1>1, <1>4, <2>1, CatPrintsTheFile
<1>6. \A name \in names \ {files[k].name : k \in DOMAIN files} : Cat(name) = Failed
  <2>. TAKE name \in names \ {files[k].name : k \in DOMAIN files}
  <2>1. name \in Seq(1 .. 255) /\ name # <<>> /\ \A k \in 1 .. Len(files) : files[k].name # name
    BY <1>2, <1>4
  <2>. QED BY <1>1, <2>1, CatPrintsTheFile
<1>. QED BY <1>1, <1>5, <1>6 DEF Current, Shows, Versions, files, names

(* When make has nothing to do, and after two passes of make 4.3 in any    *)
(* case, what is booted shows src/mfs/root as it is, unless the last       *)
(* change of it left no file newer than root.mfs: for any contents of the  *)
(* directory, any geometry of the image and any number of edits,           *)
(* removals and interrupts.                                                *)
THEOREM UpToDateShowsTheSources == Spec => []UpToDateIsCurrent
<1>1. VersionInv => UpToDateIsCurrent
  BY ShownIsCurrent DEF VersionInv, Passed, UpToDateIsCurrent
<1>. QED BY <1>1, VersionInit, VersionNext, PTL DEF Spec

=============================================================================
