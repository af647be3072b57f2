-------------------------- MODULE HostBuildProofs ---------------------------
(***************************************************************************)
(* What module HostBuild promises about the bind mounts of qemubootstrap,  *)
(* for every number of jobs and every combination of failures and signals. *)
(***************************************************************************)
EXTENDS HostBuild, TLAPS

\* copy-files has written wpa_supplicant.conf in this invocation.
Past == {"editor", "modules", "debs", "done"}

\* The script has run its mount commands and not yet its EXIT trap.
Bootstrapping == Active("qemu-install") /\ pc["qemu-install"] # "mount"

\* Between two invocations no recipe runs; the bootstrap runs after debroot
\* and copy-files are made, the archive is written after the bootstrap.
Ordered ==
    /\ Idle => \A t \in Target : ~Active(t)
    /\ Active("qemu-install") => pc["debroot"] = "done" /\ pc["copy-files"] = "done"
    /\ Active("debroot.tar") => pc["qemu-install"] = "done"

\* Nothing is ever mounted under a debroot that copy-files would accept.
Guarded ==
    /\ "skel" \in debroot => "dir" \in debroot
    /\ Mounted => /\ "dir" \in debroot
                  /\ "skel" \in debroot => "conf" \in debroot

\* Once copy-files is past its guard there are no mounts until the bootstrap,
\* and the debroot it went through is the one the bootstrap will mount under,
\* whatever the recipe of debroot does meanwhile in another job.
Accepted ==
    /\ pc["copy-files"] \in Past /\ pc["qemu-install"] \in {"todo", "mount"} => ~Mounted
    /\ Active("debroot") => ~Mounted
    /\ pc["debroot"] \in {"rm", "debootstrap"} => "skel" \notin debroot
    /\ ~Idle /\ pc["copy-files"] \in Past =>
          /\ pc["debroot"] \notin {"rm", "debootstrap"}
          /\ pc["debroot"] = "todo" => "dir" \in debroot
          /\ pc["debroot"] = "first stage" => "conf" \in debroot
          /\ "skel" \in debroot => "conf" \in debroot

\* A mount outside a bootstrap is one that was left behind.
Leaked ==
    /\ Mounted => Bootstrapping \/ "leak" \in mishap
    /\ SingleMount /\ HostUntouched /\ NoHostFilesShipped

MountInv == Ordered /\ Guarded /\ Accepted /\ Leaked
-----------------------------------------------------------------------------
\* FirstStep and the steps of make's own bookkeeping stay among the labels.
LEMMA FirstStepType == FirstStep \in [Target -> Labels]
  BY DEF FirstStep, Labels

\* The types of files written by a recipe.
LEMMA BuiltType ==
  ASSUME TypeOK, NEW a \in Art, NEW w \in BOOLEAN
  PROVE  Built(a, w) \in File
<1>1. a \in {"initrd.img", "boot.img", "bananui-base.deb", "device-startup.deb"}
  BY DEF Art, Debs
<1>2. /\ ver["ramdisk"] \in Nat /\ ver["bananui-base"] \in Nat
      /\ ver["device-startup"] \in Nat /\ art["initrd.img"].ver \in Nat
  BY DEF TypeOK, Dir, Pkg, Art, File
<1> QED
  BY <1>1, <1>2 DEF Built, File

LEMMA TarTypes == NoTar \in TarFile /\ TornTar \in TarFile
  BY DEF NoTar, TornTar, TarFile

LEMMA TarParts == NoTar.parts = {} /\ TornTar.parts = {}
  BY DEF NoTar, TornTar

\* The variables of the invocation keep their types.
MakeTyped == /\ phase' \in {"idle", "run", "failing"} /\ qemu' \in BOOLEAN
             /\ pc' \in [Target -> Labels] /\ fault' \in BOOLEAN
             /\ prev' \in {"none", "ok", "fail"} /\ result' \in {"none", "ok", "fail"}

\* A recipe that goes on to its next step, or ends.
LEMMA GotoType ==
  ASSUME TypeOK, NEW t \in Target, NEW l \in Labels, NEW f \in BOOLEAN,
         Goto(t, l, f)
  PROVE  MakeTyped
  BY DEF TypeOK, Goto, MakeTyped

\* A recipe that fails.
LEMMA AbortType ==
  ASSUME TypeOK, NEW t \in Target, NEW f \in BOOLEAN, Abort(t, f)
  PROVE  MakeTyped
  BY Zenon DEF TypeOK, Abort, Labels, MakeTyped

LEMMA WriteType ==
  ASSUME TypeOK, NEW a \in Art, NEW w \in BOOLEAN, Write(a, w)
  PROVE  art' \in [Art -> File] /\ outdated' \in SUBSET Art
<1>1. Built(a, w) \in File
  BY BuiltType
<1>2. "boot.img" \in Art
  BY DEF Art
<1> QED
  BY <1>1, <1>2 DEF TypeOK, Write, Stamped

LEMMA RmType ==
  ASSUME TypeOK, RmDebroot
  PROVE  /\ debroot' \in SUBSET Part /\ wiped' \in BOOLEAN
         /\ mnt' = mnt
  BY Zenon DEF TypeOK, RmDebroot, Part

\* Writing an image keeps the mishaps among the known ones.
LEMMA ImageMishap ==
  ASSUME TypeOK, NEW a, NEW w, WriteImage(a, w)
  PROVE  mishap' \in SUBSET Mishap
  BY DEF TypeOK, WriteImage, Mishap

-----------------------------------------------------------------------------
LEMMA TypeInit == Init => TypeOK
<1> SUFFICES ASSUME Init PROVE TypeOK
  OBVIOUS
<1>1. tools \in SUBSET Tool /\ sources \in SUBSET Source
  BY HostAssumption DEF Init
<1>2. ver \in [Dir -> Nat] /\ stamp \in [Dir -> Nat] /\ mnt \in [Mnt -> Nat]
  BY DEF Init
<1>3. art \in [Art -> File] /\ outdated \in SUBSET Art /\ debroot \in SUBSET Part
  BY DEF Init, Absent, File
<1>4. tar \in TarFile
  BY TarTypes DEF Init
<1>5. pc \in [Target -> Labels]
  BY DEF Init, Labels
<1> QED BY Zenon, <1>1, <1>2, <1>3, <1>4, <1>5 DEF Init, TypeOK

\* The recipes of check, of the images and of the packages.
LEMMA FilesType ==
  ASSUME TypeOK,
         \/ CheckPackages \/ CheckTools \/ PackInitrd \/ MakeBootImg
         \/ \E a \in Debs : BuildDeb(a)
  PROVE  TypeOK'
<1> USE DEF inputs, images, tree, host
<1>1. CASE CheckPackages
  <2>1. "check" \in Target /\ "tools" \in Labels
    BY DEF Target, Labels
  <2>2. CASE UNCHANGED <<images, mishap>> /\ Goto("check", "tools", FALSE)
    <3>1. MakeTyped
      BY Zenon, <2>1, <2>2, GotoType
    <3> QED BY <1>1, <2>2, <3>1 DEF CheckPackages, TypeOK, MakeTyped
  <2>3. CASE UNCHANGED <<images, mishap>> /\ Abort("check", TRUE)
    <3>1. MakeTyped
      BY Zenon, <2>1, <2>3, AbortType
    <3> QED BY <1>1, <2>3, <3>1 DEF CheckPackages, TypeOK, MakeTyped
  <2>4. ASSUME NEW got \in SUBSET PREBUILT, NEW torn \in SUBSET PREBUILT,
               NEW old \in SUBSET PREBUILT, Fetch(got, torn, old)
        PROVE  TypeOK'
    <3>1. art' \in [Art -> File]
      <4>1. ASSUME NEW a \in Art
            PROVE  [there |-> TRUE, whole |-> a \in DebsOf(got), ver |-> 0] \in File
        BY DEF File
      <4> QED BY <2>4, <4>1 DEF Fetch, TypeOK
    <3>2. outdated' \in SUBSET Art
      <4>1. DebsOf(old) \in SUBSET Art
        BY Zenon DEF DebsOf, PREBUILT, Deb, Art, Debs, Pkg
      <4> QED BY <2>4, <4>1 DEF Fetch, TypeOK
    <3>3. mishap' \in SUBSET Mishap
      BY <2>4 DEF Fetch, TypeOK, Mishap
    <3>4. MakeTyped
      <4>1. (got # PREBUILT) \in BOOLEAN
        OBVIOUS
      <4>2. CASE Goto("check", "tools", got # PREBUILT)
        BY Zenon, <2>1, <4>1, <4>2, GotoType
      <4>3. CASE Abort("check", TRUE)
        BY Zenon, <2>1, <4>3, AbortType
      <4> QED BY Zenon, <2>4, <4>2, <4>3 DEF Fetch
    <3> QED
      BY <1>1, <3>1, <3>2, <3>3, <3>4 DEF CheckPackages, TypeOK, MakeTyped
  <2> QED
    BY Zenon, <1>1, <2>2, <2>3, <2>4 DEF CheckPackages
<1>2. CASE CheckTools
  <2>1. "check" \in Target /\ "done" \in Labels
    BY DEF Target, Labels
  <2>2. MakeTyped
    BY Zenon, <1>2, <2>1, GotoType, AbortType DEF CheckTools
  <2> QED BY <1>2, <2>2 DEF CheckTools, TypeOK, MakeTyped
<1>3. CASE PackInitrd
  <2>1. "initrd.img" \in Target /\ "initrd.img" \in Art /\ "done" \in Labels
    BY DEF Target, Art, Labels
  <2>2. MakeTyped /\ art' \in [Art -> File] /\ outdated' \in SUBSET Art
    BY Zenon, <1>3, <2>1, GotoType, AbortType, WriteType DEF PackInitrd, WriteImage
  <2>3. mishap' \in SUBSET Mishap
    BY Zenon, <1>3, ImageMishap DEF PackInitrd
  <2> QED BY <1>3, <2>2, <2>3 DEF PackInitrd, TypeOK, MakeTyped
<1>4. CASE MakeBootImg
  <2>1. /\ "boot.img" \in Target /\ "boot.img" \in Art /\ "done" \in Labels
        /\ "initrd.img" \in Art
    BY DEF Target, Art, Labels
  <2>2. art["initrd.img"].whole \in BOOLEAN
    BY <2>1 DEF TypeOK, File
  <2>3. MakeTyped
    BY Zenon, <1>4, <2>1, GotoType, AbortType DEF MakeBootImg
  <2>4. art' \in [Art -> File] /\ outdated' \in SUBSET Art
    BY Zenon, <1>4, <2>1, <2>2, WriteType DEF MakeBootImg, WriteImage, TypeOK
  <2>5. mishap' \in SUBSET Mishap
    BY Zenon, <1>4, ImageMishap DEF MakeBootImg, TypeOK
  <2> QED BY <1>4, <2>3, <2>4, <2>5 DEF MakeBootImg, TypeOK, MakeTyped
<1>5. ASSUME NEW a \in Debs, BuildDeb(a) PROVE TypeOK'
  <2>1. a \in Target /\ a \in Art /\ "done" \in Labels
    BY DEF Target, Art, Labels
  <2>2. MakeTyped
    BY Zenon, <1>5, <2>1, GotoType, AbortType DEF BuildDeb
  <2>3. art' \in [Art -> File] /\ outdated' \in SUBSET Art
    BY Zenon, <1>5, <2>1, WriteType DEF BuildDeb, TypeOK
  <2> QED BY <1>5, <2>2, <2>3 DEF BuildDeb, TypeOK, MakeTyped
<1> QED BY <1>1, <1>2, <1>3, <1>4, <1>5

\* The recipes that work in debroot.
LEMMA TreeType ==
  ASSUME TypeOK,
         \/ Debootstrap \/ CopyFiles \/ QemuMount \/ QemuChroot \/ QemuUmount
         \/ MakeTar \/ AllDone \/ Install
  PROVE  TypeOK'
<1> USE DEF inputs, images, tree, host
<1>1. CASE Debootstrap
  <2>1. /\ "debroot" \in Target
        /\ {"debootstrap", "first stage", "|| rm", "done"} \subseteq Labels
    BY DEF Target, Labels
  <2>2. MakeTyped
    BY Zenon, <1>1, <2>1, GotoType, AbortType DEF Debootstrap, DebrootStep
  <2>3. debroot' \in SUBSET Part
    <3>1. {"dir", "skel", "base"} \subseteq Part
      BY DEF Part
    <3> QED BY Zenon, <1>1, <3>1, RmType DEF Debootstrap, DebrootStep, TypeOK
  <2>4. /\ mnt' \in [Mnt -> Nat] /\ wiped' \in BOOLEAN
        /\ mishap' \in SUBSET Mishap
    BY Zenon, <1>1, RmType DEF Debootstrap, DebrootStep, TypeOK
  <2> QED BY <1>1, <2>2, <2>3, <2>4 DEF Debootstrap, TypeOK, MakeTyped
<1>2. CASE CopyFiles
  <2>1. /\ "copy-files" \in Target
        /\ {"editor", "modules", "debs", "done"} \subseteq Labels
    BY DEF Target, Labels
  <2>2. MakeTyped
    BY Zenon, <1>2, <2>1, GotoType, AbortType DEF CopyFiles, CopyStep
  <2>3. debroot' \in SUBSET Part
    <3>1. {"dir", "conf", "modules", "debs", "bad debs"} \subseteq Part
      BY DEF Part
    <3> QED BY Zenon, <1>2, <3>1 DEF CopyFiles, CopyStep, TypeOK
  <2> QED BY <1>2, <2>2, <2>3 DEF CopyFiles, TypeOK, MakeTyped
<1>3. CASE QemuMount
  <2>1. /\ "qemu-install" \in Target
        /\ {"second stage", "umount, fail"} \subseteq Labels
    BY DEF Target, Labels
  <2>2. MakeTyped
    BY Zenon, <1>3, <2>1, GotoType DEF QemuMount
  <2>3. mnt' \in [Mnt -> Nat]
    <3>1. PICK S \in SUBSET {m \in Mnt : "skel" \in debroot} :
            mnt' = [m \in Mnt |-> IF m \in S THEN mnt[m] + 1 ELSE mnt[m]]
      BY Zenon, <1>3 DEF QemuMount
    <3>2. \A m \in Mnt : mnt[m] \in Nat
      BY DEF TypeOK
    <3> QED BY <3>1, <3>2
  <2> QED BY Zenon, <1>3, <2>2, <2>3 DEF QemuMount, TypeOK, MakeTyped
<1>4. CASE QemuChroot
  <2>1. /\ "qemu-install" \in Target
        /\ {"dpkg", "rm debs", "adduser", "sudo", "umount, ok", "umount, fail"}
             \subseteq Labels
    BY DEF Target, Labels
  <2>2. MakeTyped
    <3>1. \E l \in Labels, f \in BOOLEAN : Goto("qemu-install", l, f)
      BY Zenon, <1>4, <2>1 DEF QemuChroot, Chain
    <3> QED BY Zenon, <2>1, <3>1, GotoType
  <2>3. debroot' \in SUBSET Part
    <3>1. {"second", "pkgs", "user", "sudo"} \subseteq Part
      BY DEF Part
    <3> QED BY Zenon, <1>4, <3>1 DEF QemuChroot, Chain, TypeOK
  <2>4. mishap' \in SUBSET Mishap
    BY Zenon, <1>4 DEF QemuChroot, TypeOK, Mishap
  <2> QED BY Zenon, <1>4, <2>2, <2>3, <2>4 DEF QemuChroot, TypeOK, MakeTyped
<1>5. CASE QemuUmount
  <2>1. "qemu-install" \in Target /\ "done" \in Labels
    BY DEF Target, Labels
  <2>2. MakeTyped
    BY Zenon, <1>5, <2>1, GotoType, AbortType DEF QemuUmount
  <2>3. PICK busy \in SUBSET Mnt :
          /\ mnt' = Umount(busy)
          /\ mishap' = IF busy = {} THEN mishap ELSE mishap \cup {"leak"}
    BY Zenon, <1>5 DEF QemuUmount
  <2>4. mnt' \in [Mnt -> Nat]
    <3>1. \A m \in Mnt : mnt[m] \in Nat
      BY DEF TypeOK
    <3> QED BY <2>3, <3>1 DEF Umount
  <2>5. mishap' \in SUBSET Mishap
    BY <2>3 DEF TypeOK, Mishap
  <2> QED BY Zenon, <1>5, <2>2, <2>4, <2>5 DEF QemuUmount, TypeOK, MakeTyped
<1>6. CASE MakeTar
  <2>1. "debroot.tar" \in Target /\ "done" \in Labels
    BY DEF Target, Labels
  <2>2. MakeTyped
    BY Zenon, <1>6, <2>1, GotoType, AbortType DEF MakeTar, TarFails
  <2>3. [there |-> TRUE, whole |-> TRUE,
         parts |-> debroot \cup {h \in {"host"} : Mounted}] \in TarFile
    BY DEF TarFile, TypeOK
  <2>4. tar' \in TarFile
    BY Zenon, <1>6, <2>3, TarTypes DEF MakeTar, TarFails
  <2> QED BY <1>6, <2>2, <2>4 DEF MakeTar, TypeOK, MakeTyped
<1>7. CASE AllDone \/ Install
  <2>1. {"all", "install-to-device"} \subseteq Target /\ "done" \in Labels
    BY DEF Target, Labels
  <2>2. MakeTyped
    BY Zenon, <1>7, <2>1, GotoType, AbortType DEF AllDone, Install
  <2> QED BY Zenon, <1>7, <2>2 DEF AllDone, Install, TypeOK, MakeTyped
<1> QED BY <1>1, <1>2, <1>3, <1>4, <1>5, <1>6, <1>7

\* make itself, the user and the signals.
LEMMA OthersType ==
  ASSUME TypeOK,
         \/ \E t \in Target : NoRule(t) \/ Visit(t)
         \/ MakeExit \/ User \/ \E s \in Signals : Signal(s)
  PROVE  TypeOK'
<1> USE DEF inputs, images, tree, host, make
<1>1. ASSUME NEW t \in Target, NoRule(t) PROVE TypeOK'
  <2>1. ("zImage" \in SrcOf[t]) \in BOOLEAN
    OBVIOUS
  <2>2. MakeTyped
    BY Zenon, <1>1, <2>1, AbortType DEF NoRule
  <2> QED BY <1>1, <2>2 DEF NoRule, TypeOK, MakeTyped
<1>2. ASSUME NEW t \in Target, Visit(t) PROVE TypeOK'
  <2>1. FirstStep[t] \in Labels /\ "done" \in Labels
    BY Zenon, FirstStepType DEF Labels
  <2>2. (IF OutOfDate(t) THEN FirstStep[t] ELSE "done") \in Labels
    BY <2>1
  <2>3. MakeTyped
    BY Zenon, <1>2, <2>2, GotoType DEF Visit
  <2> QED BY <1>2, <2>3 DEF Visit, TypeOK, MakeTyped
<1>3. CASE MakeExit
  BY <1>3 DEF MakeExit, TypeOK
<1>4. ASSUME NEW g, NEW q \in QemuModes, StartMake(g, q) PROVE TypeOK'
  <2>1. q \in BOOLEAN
    BY HostAssumption
  <2>2. pc' \in [Target -> Labels]
    BY <1>4 DEF StartMake, Labels
  <2> QED BY Zenon, <1>4, <2>1, <2>2 DEF StartMake, TypeOK
<1>5. ASSUME NEW p \in Pkg, Package(p) PROVE TypeOK'
  <2>1. Deb[p] \in Art
    BY DEF Deb, Art, Debs
  <2> QED BY Zenon, <1>5, <2>1, WriteType DEF Package, TypeOK
<1>6. ASSUME NEW d \in EditDirs, NEW entry \in BOOLEAN, Edit(d, entry) PROVE TypeOK'
  <2>1. d \in Dir
    BY HostAssumption
  <2>2. ver' \in [Dir -> Nat] /\ stamp' \in [Dir -> Nat]
    BY <1>6, <2>1 DEF Edit, TypeOK
  <2>3. (IF d \in Pkg THEN {Deb[d]} ELSE {"initrd.img"}) \subseteq Art
    BY DEF Deb, Art, Debs
  <2>4. outdated' \in SUBSET Art
    BY <1>6, <2>3 DEF Edit, TypeOK
  <2> QED BY <1>6, <2>2, <2>4 DEF Edit, TypeOK
<1>7. CASE Clean
  <2>1. art' \in [Art -> File]
    BY <1>7 DEF Clean, Absent, File
  <2>2. tar' \in TarFile
    BY <1>7, TarTypes DEF Clean
  <2> QED BY <1>7, <2>1, <2>2, RmType DEF Clean, TypeOK
<1>8. CASE Reboot
  BY <1>8 DEF Reboot, TypeOK
<1>9. ASSUME NEW s \in Signals, Signal(s) PROVE TypeOK'
  <2>1. PICK hit \in SUBSET {a \in Art : Active(a)} :
          /\ art' = [a \in Art |-> IF a \in hit THEN Remnant(a, s) ELSE art[a]]
          /\ outdated' = IF s = "KILL" THEN Stamped(hit) ELSE outdated
    BY Zenon, <1>9 DEF Signal
  <2>2. art' \in [Art -> File]
    <3>1. \A a \in Art : Built(a, FALSE) \in File
      BY Zenon, BuiltType
    <3>2. Absent \in File
      BY DEF Absent, File
    <3> QED BY Zenon, <2>1, <3>1, <3>2 DEF TypeOK, Remnant
  <2>3. outdated' \in SUBSET Art
    <3>1. "boot.img" \in Art
      BY DEF Art
    <3> QED BY <2>1, <3>1 DEF Stamped, TypeOK
  <2>4. mishap' \in SUBSET Mishap
    BY Zenon, <1>9 DEF Signal, TypeOK, Mishap
  <2>5. tar' \in TarFile
    BY Zenon, <1>9, TarTypes DEF Signal, TypeOK
  <2>6. pc' \in [Target -> Labels]
    <3>1. {"umount, fail", "failed"} \subseteq Labels
      BY DEF Labels
    <3> QED BY Zenon, <1>9, <3>1 DEF Signal, TypeOK
  <2> QED BY Zenon, <1>9, <2>2, <2>3, <2>4, <2>5, <2>6 DEF Signal, TypeOK
<1> QED BY <1>1, <1>2, <1>3, <1>4, <1>5, <1>6, <1>7, <1>8, <1>9 DEF User

\* The types are an inductive invariant of their own.
LEMMA TypeStep == TypeOK /\ [Next]_vars => TypeOK'
<1> SUFFICES ASSUME TypeOK, [Next]_vars PROVE TypeOK'
  OBVIOUS
<1>1. CASE Recipe
  BY <1>1, FilesType, TreeType DEF Recipe, Local
<1>2. CASE UNCHANGED vars
  BY <1>2 DEF vars, inputs, images, tree, host, make, TypeOK
<1> QED BY <1>1, <1>2, OthersType DEF Next, Make

\* Every variable keeps its type, for every number of jobs, every set of
\* programs that may fail and every set of signals.
THEOREM TypeCorrect == Spec => []TypeOK
  BY TypeInit, TypeStep, PTL DEF Spec
-----------------------------------------------------------------------------
Key == {"debroot", "copy-files", "qemu-install", "debroot.tar"}

\* What Goto and Abort do to the place of each target.
LEMMA PcAfter ==
  ASSUME TypeOK, NEW t \in Target,
         NEW l, NEW f, Goto(t, l, f) \/ (Abort(t, f) /\ l = "failed")
  PROVE  /\ pc'[t] = l
         /\ \A u \in Target \ {t} : pc'[u] = pc[u]
         /\ ~Idle => ~Idle'
  BY DEF TypeOK, Goto, Abort, Idle

\* A recipe runs only during an invocation of make.
LEMMA Running ==
  ASSUME MountInv, NEW t \in Target, Active(t)
  PROVE  ~Idle
  BY SMTT(30) DEF MountInv, Ordered

\* A step that leaves debroot, the mounts and the recipes that work there
\* alone preserves the invariant.
LEMMA Frame ==
  ASSUME MountInv, ~Idle, ~Idle', UNCHANGED <<debroot, tar, mnt, wiped>>,
         "leak" \in mishap => "leak" \in mishap', \A k \in Key : pc'[k] = pc[k]
  PROVE  MountInv'
<1>1. Mounted' <=> Mounted
  BY SMTT(30) DEF Mounted
<1>2. \A k \in Key : Active(k)' <=> Active(k)
  BY DEF Active
<1>3. Ordered'
  BY <1>2 DEF Key, MountInv, Ordered
<1>4. Guarded'
  BY <1>1 DEF MountInv, Guarded
<1>5. Accepted'
  BY Zenon, <1>1, <1>2 DEF Key, MountInv, Accepted
<1>6. Leaked'
  BY <1>1, <1>2 DEF Key, MountInv, Leaked, Bootstrapping, SingleMount,
                    HostUntouched, NoHostFilesShipped
<1> QED BY Zenon, <1>3, <1>4, <1>5, <1>6 DEF MountInv

\* check, the images, the packages, all and install-to-device.
LEMMA FilesMount ==
  ASSUME TypeOK, MountInv,
         \/ CheckPackages \/ CheckTools \/ PackInitrd \/ MakeBootImg
         \/ \E a \in Debs : BuildDeb(a)
         \/ AllDone \/ Install
  PROVE  MountInv'
<1> USE DEF inputs, images, tree, host
<1>1. PICK t \in Target \ Key :
        /\ Active(t)
        /\ \E l, f : Goto(t, l, f) \/ (Abort(t, f) /\ l = "failed")
  <2>1. CASE CheckPackages
    <3>1. "check" \in Target \ Key
      BY DEF Target, Key
    <3> QED BY Zenon, <2>1, <3>1 DEF CheckPackages, Fetch, Active
  <2>2. CASE CheckTools
    <3>1. "check" \in Target \ Key
      BY DEF Target, Key
    <3> QED BY Zenon, <2>2, <3>1 DEF CheckTools, Active
  <2>3. CASE PackInitrd
    <3>1. "initrd.img" \in Target \ Key
      BY DEF Target, Art, Key
    <3> QED BY Zenon, <2>3, <3>1 DEF PackInitrd, Active
  <2>4. CASE MakeBootImg
    <3>1. "boot.img" \in Target \ Key
      BY DEF Target, Art, Key
    <3> QED BY Zenon, <2>4, <3>1 DEF MakeBootImg, Active
  <2>5. ASSUME NEW a \in Debs, BuildDeb(a)
        PROVE  /\ a \in Target \ Key /\ Active(a)
               /\ \E l, f : Goto(a, l, f) \/ (Abort(a, f) /\ l = "failed")
    BY Zenon, <2>5 DEF BuildDeb, Active, Debs, Art, Target, Key
  <2>6. CASE AllDone \/ Install
    <3>1. {"all", "install-to-device"} \subseteq Target \ Key
      BY DEF Target, Key
    <3> QED BY Zenon, <2>6, <3>1 DEF AllDone, Install, Active
  <2> QED BY SMTT(30), <2>1, <2>2, <2>3, <2>4, <2>5, <2>6
<1>2. ~Idle
  BY <1>1, Running
<1>3. Key \subseteq Target
  BY DEF Key, Target
<1>4. ~Idle' /\ \A k \in Key : pc'[k] = pc[k]
  BY <1>1, <1>2, <1>3, PcAfter
<1>5. /\ UNCHANGED <<debroot, tar, mnt, wiped>>
      /\ "leak" \in mishap => "leak" \in mishap'
  BY Zenon DEF CheckPackages, Fetch, CheckTools, PackInitrd, MakeBootImg, WriteImage,
         BuildDeb, AllDone, Install
<1> QED BY <1>2, <1>4, <1>5, Frame

\* make gives up on a target: none of the recipes moves on.
LEMMA NoRuleMount ==
  ASSUME TypeOK, MountInv, NEW t \in Target, NoRule(t)
  PROVE  MountInv'
<1> USE DEF inputs, images, tree, host
<1>1. t \notin Key
  <2>1. \A k \in Key : SrcOf[k] = {}
    BY DEF SrcOf, Key, Target
  <2> QED BY <2>1 DEF NoRule
<1>2. Key \subseteq Target
  BY DEF Key, Target
<1>3. ~Idle /\ ~Idle' /\ \A k \in Key : pc'[k] = pc[k]
  BY <1>1, <1>2, PcAfter DEF NoRule, Ready, Idle
<1> QED BY <1>3, Frame DEF NoRule

\* make considers a target.  debroot is remade only when it is not there,
\* copy-files and qemu-install always.
LEMMA VisitMount ==
  ASSUME TypeOK, MountInv, NEW t \in Target, Visit(t)
  PROVE  MountInv'
<1> USE DEF inputs, images, tree, host
<1> DEFINE first == IF OutOfDate(t) THEN FirstStep[t] ELSE "done"
<1>0. Key \subseteq Target
  BY DEF Key, Target
<1>1. /\ ~Idle /\ ~Idle' /\ pc[t] = "todo" /\ pc'[t] = first
      /\ \A u \in Target \ {t} : pc'[u] = pc[u]
      /\ \A u \in Prereq[t] : pc[u] = "done"
  BY Zenon, PcAfter DEF Visit, Ready, Idle
<1>2. UNCHANGED <<debroot, tar, mnt, wiped, mishap>> /\ (Mounted' <=> Mounted)
  BY DEF Visit, Mounted
<1>3. CASE t \notin Key
  BY <1>0, <1>1, <1>2, <1>3, Frame
<1>4. CASE t = "debroot"
  <2>1. first \in {"rm", "done"} /\ (first = "rm" => "dir" \notin debroot)
    <3>1. FirstStep["debroot"] = "rm" /\ Prereq["debroot"] = {}
      BY DEF FirstStep, Prereq, Target
    <3>2. "debroot" \notin outdated
      BY DEF TypeOK, Art, Debs
    <3> QED BY <1>4, <3>1, <3>2 DEF OutOfDate, Exists
  <2> HIDE DEF first
  <2>2. Ordered' /\ Guarded'
    BY <1>0, <1>1, <1>2, <1>4, <2>1 DEF MountInv, Ordered, Guarded, Active, Key
  <2>3. Accepted'
    BY Zenon, <1>0, <1>1, <1>2, <1>4, <2>1 DEF MountInv, Accepted, Guarded, Active, Key, Past
  <2>4. Leaked'
    BY <1>0, <1>1, <1>2, <1>4 DEF MountInv, Leaked, Bootstrapping, Active, Key,
         SingleMount, HostUntouched, NoHostFilesShipped
  <2> QED BY <2>2, <2>3, <2>4 DEF MountInv
<1>5. CASE t = "copy-files"
  <2>1. first = "conf"
    <3>1. FirstStep["copy-files"] = "conf"
      BY DEF FirstStep, Target
    <3>2. ~Exists("copy-files")
      BY DEF Exists, Art, Debs
    <3> QED BY <1>5, <3>1, <3>2 DEF OutOfDate
  <2> HIDE DEF first
  <2>2. Ordered' /\ Guarded'
    BY <1>0, <1>1, <1>2, <1>5, <2>1 DEF MountInv, Ordered, Guarded, Active, Key
  <2>3. Accepted'
    BY Zenon, <1>0, <1>1, <1>2, <1>5, <2>1 DEF MountInv, Accepted, Active, Key, Past
  <2>4. Leaked'
    BY <1>0, <1>1, <1>2, <1>5 DEF MountInv, Leaked, Bootstrapping, Active, Key,
         SingleMount, HostUntouched, NoHostFilesShipped
  <2> QED BY <2>2, <2>3, <2>4 DEF MountInv
<1>6. CASE t = "qemu-install"
  <2>1. first = "mount" /\ pc["debroot"] = "done" /\ pc["copy-files"] = "done"
    <3>1. /\ FirstStep["qemu-install"] = "mount"
          /\ Prereq["qemu-install"] = {"debroot", "copy-files"}
      BY DEF FirstStep, Prereq, Target
    <3>2. ~Exists("qemu-install")
      BY DEF Exists, Art, Debs
    <3> QED BY <1>1, <1>6, <3>1, <3>2 DEF OutOfDate
  <2> HIDE DEF first
  <2>2. Ordered' /\ Guarded'
    BY <1>0, <1>1, <1>2, <1>6, <2>1 DEF MountInv, Ordered, Guarded, Active, Key
  <2>3. Accepted'
    BY Zenon, <1>0, <1>1, <1>2, <1>6, <2>1 DEF MountInv, Accepted, Active, Key, Past
  <2>4. Leaked'
    BY <1>0, <1>1, <1>2, <1>6, <2>1 DEF MountInv, Leaked, Bootstrapping, Active,
         Key, SingleMount, HostUntouched, NoHostFilesShipped
  <2> QED BY <2>2, <2>3, <2>4 DEF MountInv
<1>7. CASE t = "debroot.tar"
  <2>1. pc["qemu-install"] = "done"
    <3>1. "qemu-install" \in Prereq["debroot.tar"]
      BY DEF Prereq, Target
    <3> QED BY <1>1, <1>7, <3>1
  <2> HIDE DEF first
  <2>2. Ordered' /\ Guarded'
    BY <1>0, <1>1, <1>2, <1>7, <2>1 DEF MountInv, Ordered, Guarded, Active, Key
  <2>3. Accepted'
    BY Zenon, <1>0, <1>1, <1>2, <1>7 DEF MountInv, Accepted, Active, Key, Past
  <2>4. Leaked'
    BY <1>0, <1>1, <1>2, <1>7 DEF MountInv, Leaked, Bootstrapping, Active, Key,
         SingleMount, HostUntouched, NoHostFilesShipped
  <2> QED BY <2>2, <2>3, <2>4 DEF MountInv
<1> QED BY SMTT(30), <1>3, <1>4, <1>5, <1>6, <1>7 DEF Key

\* The recipe of debroot: it starts without mounts, and none are made while
\* it runs, so its rm -rf stays within debroot.
LEMMA DebrootMount ==
  ASSUME TypeOK, MountInv, Debootstrap
  PROVE  MountInv'
<1> USE DEF inputs, images, tree, host
<1>0. Key \subseteq Target /\ "debroot" \in Key
  BY DEF Key, Target
<1>1. Active("debroot") /\ ~Idle /\ ~Mounted
  BY Zenon, <1>0, Running DEF Debootstrap, DebrootStep, Active, MountInv, Accepted
<1>2. /\ ~Idle' /\ \A u \in Target \ {"debroot"} : pc'[u] = pc[u]
      /\ pc'["debroot"] \in {"debootstrap", "first stage", "|| rm", "done"}
  BY Zenon, <1>0, <1>1, PcAfter DEF Debootstrap, DebrootStep
<1>3. UNCHANGED <<mnt, tar, wiped>> /\ ~Mounted' /\ mishap \ {"cut", "second"} \subseteq mishap'
  BY Zenon, <1>1 DEF Debootstrap, DebrootStep, RmDebroot, Mounted, TypeOK
<1>4. Ordered'
  BY Zenon, <1>0, <1>1, <1>2 DEF MountInv, Ordered, Active, Key
<1>5. Guarded'
  BY Zenon, <1>1, <1>3 DEF Debootstrap, DebrootStep, RmDebroot, MountInv, Guarded
<1>6. Accepted'
  <2>1. CASE pc["copy-files"] \in Past
    <3>1. /\ pc["debroot"] \in {"first stage", "|| rm"}
          /\ pc["debroot"] = "first stage" => "conf" \in debroot
          /\ "skel" \in debroot => "conf" \in debroot
      BY Zenon, <1>1, <2>1 DEF Debootstrap, DebrootStep, MountInv, Accepted
    <3>2. \/ pc'["debroot"] = "done" /\ ("skel" \in debroot' => "conf" \in debroot')
          \/ pc'["debroot"] = "|| rm" /\ debroot' = debroot
      BY Zenon, <1>0, <1>1, <3>1, PcAfter DEF Debootstrap, DebrootStep, RmDebroot
    <3> QED BY Zenon, <1>0, <1>2, <1>3, <3>1, <3>2 DEF Accepted, Key
  <2>2. CASE pc["copy-files"] \notin Past
    <3>1. pc'["debroot"] = "debootstrap" => "skel" \notin debroot'
      <4>1. pc'["debroot"] = "debootstrap" => RmDebroot
        BY Zenon, <1>0 DEF Debootstrap, DebrootStep, Goto, TypeOK
      <4> QED BY SMTT(30), <1>1, <4>1 DEF RmDebroot
    <3> QED BY Zenon, <1>0, <1>2, <1>3, <2>2, <3>1 DEF Accepted, Key
  <2> QED BY <2>1, <2>2
<1>7. Leaked'
  BY Zenon, <1>0, <1>2, <1>3 DEF MountInv, Leaked, SingleMount, HostUntouched,
         NoHostFilesShipped
<1> QED BY <1>4, <1>5, <1>6, <1>7 DEF MountInv

\* copy-files: its guard is where a debroot with leftover mounts is refused.
LEMMA CopyMount ==
  ASSUME TypeOK, MountInv, CopyFiles
  PROVE  MountInv'
<1> USE DEF inputs, images, tree, host
<1>0. Key \subseteq Target /\ "copy-files" \in Key
  BY DEF Key, Target
<1>1. Active("copy-files") /\ ~Idle
  BY Zenon, <1>0, Running DEF CopyFiles, CopyStep, Active
<1>2. /\ ~Idle' /\ \A u \in Target \ {"copy-files"} : pc'[u] = pc[u]
      /\ pc'["copy-files"] \in {"editor", "modules", "debs", "done", "failed"}
  BY Zenon, <1>0, <1>1, PcAfter DEF CopyFiles, CopyStep
<1>3. UNCHANGED <<mnt, tar, wiped, mishap>> /\ (Mounted' <=> Mounted)
  BY DEF CopyFiles, Mounted
<1>4. /\ "dir" \in debroot => "dir" \in debroot'
      /\ "conf" \in debroot => "conf" \in debroot'
      /\ "skel" \in debroot <=> "skel" \in debroot'
  <2>1. \/ \E new \in {{"conf"}, {"dir"}, {"dir", "modules"}, {}} :
                debroot' = debroot \cup new
        \/ debroot' = (debroot \cup {"dir"}) \ {"modules"}
        \/ \E x \in {"debs", "bad debs"} :
                debroot' = (debroot \ {"debs", "bad debs"}) \cup {x}
    BY Zenon DEF CopyFiles, CopyStep
  <2> QED BY Zenon, <2>1
<1>5. pc["copy-files"] = "conf" =>
        \/ pc'["copy-files"] = "failed"
        \/ ConfWritable /\ "conf" \in debroot'
  BY Zenon, <1>0, PcAfter DEF CopyFiles, CopyStep
<1>6. pc["copy-files"] \in Past \cup {"conf"}
  BY Zenon DEF CopyFiles, CopyStep, Past
<1>7. ~Active("qemu-install") /\ ~Active("qemu-install")'
  BY <1>0, <1>1, <1>2 DEF MountInv, Ordered, Active, Key
<1>8. Ordered'
  BY <1>0, <1>1, <1>2, <1>7 DEF MountInv, Ordered, Active, Key
<1>9. Guarded'
  BY <1>3, <1>4 DEF MountInv, Guarded
<1>10. Accepted'
  <2>1. CASE pc'["copy-files"] = "failed"
    BY Zenon, <1>0, <1>2, <1>3, <1>4, <2>1 DEF MountInv, Accepted, Past, Active, Key
  <2>2. CASE pc["copy-files"] = "conf" /\ ConfWritable /\ "conf" \in debroot'
    <3>1. ~Mounted /\ "dir" \in debroot
      BY <2>2 DEF MountInv, Guarded, ConfWritable
    <3>2. pc["debroot"] \notin {"rm", "debootstrap"}
      BY Zenon, <2>2 DEF MountInv, Accepted, ConfWritable
    <3> QED BY Zenon, <1>0, <1>2, <1>3, <1>4, <2>2, <3>1, <3>2
            DEF MountInv, Accepted, Active, Key
  <2>3. CASE pc["copy-files"] \in Past
    BY Zenon, <1>0, <1>1, <1>2, <1>3, <1>4, <2>3 DEF MountInv, Accepted, Past, Active, Key
  <2> QED BY <1>5, <1>6, <2>1, <2>2, <2>3
<1>11. Leaked'
  BY <1>3, <1>7 DEF MountInv, Leaked, Bootstrapping, SingleMount,
         HostUntouched, NoHostFilesShipped
<1> QED BY <1>8, <1>9, <1>10, <1>11 DEF MountInv

\* mount: nothing is mounted yet, and debroot has been through copy-files.
LEMMA QemuMountMount ==
  ASSUME TypeOK, MountInv, QemuMount
  PROVE  MountInv'
<1> USE DEF inputs, images, tree, host
<1>0. Key \subseteq Target /\ "qemu-install" \in Key
  BY DEF Key, Target
<1>1. /\ Active("qemu-install") /\ ~Idle
      /\ pc["debroot"] = "done" /\ pc["copy-files"] = "done" /\ ~Mounted
  <2>1. Active("qemu-install") /\ ~Idle
    BY Zenon, <1>0, Running DEF QemuMount, Active
  <2> QED BY Zenon, <2>1 DEF QemuMount, MountInv, Ordered, Accepted, Past
<1>2. /\ ~Idle' /\ \A u \in Target \ {"qemu-install"} : pc'[u] = pc[u]
      /\ pc'["qemu-install"] \in {"second stage", "umount, fail"}
  BY Zenon, <1>0, <1>1, PcAfter DEF QemuMount
<1>3. UNCHANGED <<debroot, tar, wiped, mishap>>
  BY Zenon DEF QemuMount
<1>4. \A m \in Mnt : mnt[m] = 0
  BY <1>1 DEF Mounted, TypeOK
<1>5. /\ SingleMount'
      /\ Mounted' => "skel" \in debroot
  <2>1. PICK S \in SUBSET {m \in Mnt : "skel" \in debroot} :
          mnt' = [m \in Mnt |-> IF m \in S THEN mnt[m] + 1 ELSE mnt[m]]
    BY Zenon DEF QemuMount
  <2>2. \A m \in Mnt : mnt'[m] = IF m \in S THEN 1 ELSE 0
    BY <1>4, <2>1
  <2> QED BY <2>1, <2>2 DEF SingleMount, Mounted
<1>6. Ordered'
  BY Zenon, <1>0, <1>1, <1>2 DEF MountInv, Ordered, Active, Key
<1>7. Guarded'
  BY <1>1, <1>3, <1>5 DEF MountInv, Guarded, Accepted, Past
<1>8. Accepted'
  BY Zenon, <1>0, <1>1, <1>2, <1>3 DEF MountInv, Accepted, Past, Active, Key
<1>9. Leaked'
  BY Zenon, <1>2, <1>3, <1>5 DEF MountInv, Leaked, Bootstrapping, Active,
         HostUntouched, NoHostFilesShipped
<1> QED BY <1>6, <1>7, <1>8, <1>9 DEF MountInv

\* The commands in the chroot leave the mounts alone.
LEMMA ChrootMount ==
  ASSUME TypeOK, MountInv, QemuChroot
  PROVE  MountInv'
<1> USE DEF inputs, images, tree, host
<1>0. Key \subseteq Target /\ "qemu-install" \in Key
  BY DEF Key, Target
<1>1. /\ Active("qemu-install") /\ ~Idle
      /\ pc["debroot"] = "done" /\ pc["copy-files"] = "done"
  <2>1. Active("qemu-install") /\ ~Idle
    BY Zenon, <1>0, Running DEF QemuChroot, Chain, Active
  <2> QED BY SMTT(30), <2>1 DEF MountInv, Ordered
<1>2. /\ ~Idle' /\ \A u \in Target \ {"qemu-install"} : pc'[u] = pc[u]
      /\ pc'["qemu-install"] \in {"dpkg", "rm debs", "adduser", "sudo",
                                  "umount, ok", "umount, fail"}
  BY Zenon, <1>0, <1>1, PcAfter DEF QemuChroot, Chain
<1>3. UNCHANGED <<mnt, tar, wiped>> /\ (Mounted' <=> Mounted) /\ mishap \subseteq mishap'
  BY Zenon DEF QemuChroot, Mounted
<1>4. /\ "dir" \in debroot <=> "dir" \in debroot'
      /\ "conf" \in debroot <=> "conf" \in debroot'
      /\ "skel" \in debroot <=> "skel" \in debroot'
  <2>1. \/ \E new \in {{"second"}, {"pkgs"}, {"user"}, {"sudo"}, {}} :
                debroot' = debroot \cup new
        \/ debroot' = debroot \ {"debs", "bad debs"}
    BY Zenon DEF QemuChroot, Chain
  <2> QED BY Zenon, <2>1
<1>5. Ordered'
  BY Zenon, <1>0, <1>1, <1>2 DEF MountInv, Ordered, Active, Key
<1>6. Guarded'
  BY <1>3, <1>4 DEF MountInv, Guarded
<1>7. Accepted'
  BY Zenon, <1>0, <1>1, <1>2, <1>3, <1>4 DEF MountInv, Accepted, Past, Active, Key
<1>8. Leaked'
  BY Zenon, <1>2, <1>3 DEF MountInv, Leaked, Bootstrapping, Active, SingleMount,
         HostUntouched, NoHostFilesShipped
<1> QED BY <1>5, <1>6, <1>7, <1>8 DEF MountInv

\* The EXIT trap: one umount is enough, and one that fails is a leak.
LEMMA UmountMount ==
  ASSUME TypeOK, MountInv, QemuUmount
  PROVE  MountInv'
<1> USE DEF inputs, images, tree, host
<1>0. Key \subseteq Target /\ "qemu-install" \in Key
  BY DEF Key, Target
<1>1. /\ Active("qemu-install") /\ ~Idle
      /\ pc["debroot"] = "done" /\ pc["copy-files"] = "done"
  <2>1. Active("qemu-install") /\ ~Idle
    BY Zenon, <1>0, Running DEF QemuUmount, Active
  <2> QED BY <2>1 DEF MountInv, Ordered
<1>2. /\ ~Idle' /\ \A u \in Target \ {"qemu-install"} : pc'[u] = pc[u]
      /\ pc'["qemu-install"] \in {"done", "failed"}
  BY Zenon, <1>0, <1>1, PcAfter DEF QemuUmount
<1>3. UNCHANGED <<debroot, tar, wiped>>
  BY Zenon DEF QemuUmount
<1>4. PICK busy \in SUBSET Mnt :
        /\ mnt' = Umount(busy)
        /\ mishap' = IF busy = {} THEN mishap ELSE mishap \cup {"leak"}
  BY Zenon DEF QemuUmount
<1>5. /\ \A m \in Mnt : mnt[m] \in {0, 1}
      /\ \A m \in Mnt : mnt'[m] = IF m \in busy THEN mnt[m] ELSE 0
  <2>1. \A m \in Mnt : mnt[m] \in {0, 1}
    BY DEF TypeOK, MountInv, Leaked, SingleMount
  <2> QED BY <1>4, <2>1 DEF Umount
<1>6. /\ Mounted' => Mounted
      /\ Mounted' => "leak" \in mishap'
      /\ mishap \subseteq mishap' /\ SingleMount'
  BY <1>4, <1>5 DEF Mounted, SingleMount
<1>7. Ordered'
  <2>1. ~Active("debroot.tar")
    BY <1>1 DEF MountInv, Ordered, Active
  <2> QED BY <1>0, <1>2, <2>1 DEF Ordered, Active, Key
<1>8. Guarded'
  BY SMTT(30), <1>3, <1>6 DEF MountInv, Guarded
<1>9. Accepted'
  BY Zenon, <1>0, <1>1, <1>2, <1>3, <1>6 DEF MountInv, Accepted, Past, Active, Key
<1>10. Leaked'
  BY <1>3, <1>6 DEF MountInv, Leaked, HostUntouched, NoHostFilesShipped
<1> QED BY <1>7, <1>8, <1>9, <1>10 DEF MountInv

\* The archive is written with the bootstrap over: what is mounted then was
\* left behind.
LEMMA TarMount ==
  ASSUME TypeOK, MountInv, MakeTar
  PROVE  MountInv'
<1> USE DEF inputs, images, tree, host
<1>0. Key \subseteq Target /\ "debroot.tar" \in Key
  BY DEF Key, Target
<1>1. Active("debroot.tar") /\ ~Idle /\ pc["qemu-install"] = "done"
  BY SMTT(30), <1>0, Running DEF MakeTar, Active, MountInv, Ordered
<1>2. /\ ~Idle' /\ \A u \in Target \ {"debroot.tar"} : pc'[u] = pc[u]
      /\ pc'["debroot.tar"] \in {"done", "failed"}
  BY Zenon, <1>0, <1>1, PcAfter DEF MakeTar, TarFails
<1>3. UNCHANGED <<debroot, mnt, wiped, mishap>> /\ (Mounted' <=> Mounted)
  BY DEF MakeTar, Mounted
<1>4. "host" \in tar'.parts => Mounted
  <2>1. "host" \notin debroot
    BY Zenon DEF TypeOK, Part
  <2>2. tar'.parts \in {{}, debroot \cup {h \in {"host"} : Mounted}}
    <3>1. \/ tar' \in {NoTar, TornTar}
          \/ tar' = [there |-> TRUE, whole |-> TRUE,
                     parts |-> debroot \cup {h \in {"host"} : Mounted}]
      BY Zenon DEF MakeTar, TarFails
    <3> QED BY <3>1, TarParts
  <2> QED BY <2>1, <2>2
<1>5. Ordered' /\ Guarded'
  BY <1>0, <1>2, <1>3 DEF MountInv, Ordered, Guarded, Active, Key
<1>6. Accepted'
  BY Zenon, <1>0, <1>1, <1>2, <1>3 DEF MountInv, Accepted, Active, Key
<1>7. Leaked'
  BY <1>0, <1>1, <1>2, <1>3, <1>4 DEF MountInv, Leaked, Bootstrapping, Active,
         Key, SingleMount, HostUntouched, NoHostFilesShipped
<1> QED BY <1>5, <1>6, <1>7 DEF MountInv

\* A signal ends the recipes.  INT leaves the bootstrap its EXIT trap; HUP
\* and KILL do not, and what is mounted then is a leak.
LEMMA SignalMount ==
  ASSUME TypeOK, MountInv, NEW s, Signal(s)
  PROVE  MountInv'
<1> USE DEF inputs, images, tree, host
<1>0. Key \subseteq Target
  BY SMTT(30) DEF Key, Target
<1>1. ~Idle /\ ~Idle'
  BY Zenon, Running DEF Signal, Idle
<1>2. UNCHANGED <<debroot, mnt, wiped>> /\ (Mounted' <=> Mounted)
  BY Zenon DEF Signal, Mounted
<1>3. \A t \in Target :
        pc'[t] = IF ~Active(t) THEN pc[t]
                 ELSE IF t = "qemu-install" /\ s = "INT" /\ pc[t] # "mount"
                      THEN "umount, fail" ELSE "failed"
  BY Zenon DEF Signal
<1>4. /\ mishap \subseteq mishap'
      /\ Bootstrapping /\ s # "INT" /\ Mounted => "leak" \in mishap'
  BY Zenon DEF Signal, Bootstrapping
<1>5. "host" \in tar'.parts => "host" \in tar.parts
  <2>1. tar'.parts \in {tar.parts, {}}
    <3>1. tar' \in {tar, NoTar, TornTar}
      BY Zenon DEF Signal
    <3> QED BY SMTT(30), <3>1, TarParts
  <2> QED BY <2>1
<1>6. /\ \A k \in {"debroot", "copy-files", "debroot.tar"} :
            pc'[k] = IF Active(k) THEN "failed" ELSE pc[k]
      /\ ~Active("debroot")' /\ ~Active("copy-files")' /\ ~Active("debroot.tar")'
  BY Zenon, <1>0, <1>3 DEF Key, Active
<1>7. \/ Active("qemu-install") /\ pc'["qemu-install"] \in {"umount, fail", "failed"}
      \/ ~Active("qemu-install") /\ pc'["qemu-install"] = pc["qemu-install"]
  BY Zenon, <1>0, <1>3 DEF Key
<1>8. Ordered'
  BY Zenon, <1>1, <1>6, <1>7 DEF MountInv, Ordered, Active
<1>9. Guarded'
  BY SMTT(30), <1>2 DEF MountInv, Guarded
<1>10. Accepted'
  BY Zenon, <1>1, <1>2, <1>6, <1>7 DEF MountInv, Accepted, Past, Active
<1>11. Leaked'
  <2>1. Mounted => Bootstrapping' \/ "leak" \in mishap'
    <3>1. CASE Bootstrapping /\ s = "INT"
      BY Zenon, <1>0, <1>3, <3>1 DEF Bootstrapping, Active, Key
    <3> QED BY <1>4, <3>1 DEF MountInv, Leaked
  <2> QED BY <1>2, <1>4, <1>5, <2>1 DEF MountInv, Leaked, SingleMount,
         HostUntouched, NoHostFilesShipped
<1> QED BY <1>8, <1>9, <1>10, <1>11 DEF MountInv

\* Starting and ending an invocation, and what the user does between two.
\* make clean may reach the host only through mounts left behind.
LEMMA UserMount ==
  ASSUME TypeOK, MountInv, User \/ MakeExit
  PROVE  MountInv'
<1> USE DEF inputs, images, tree, host, make
<1>0. Key \subseteq Target
  BY DEF Key, Target
<1>1. ASSUME NEW g, NEW q, StartMake(g, q) PROVE MountInv'
  <2>1. Idle /\ ~Idle' /\ \A t \in Target : pc'[t] \in {"todo", "done"}
    BY <1>1 DEF StartMake, Idle
  <2>2. pc'["copy-files"] = "todo"
    <3>1. "copy-files" \in Needed(g, q)
      BY DEF Needed, Target
    <3> QED BY <1>0, <1>1, <3>1 DEF StartMake, Key
  <2>3. UNCHANGED <<debroot, tar, mnt, wiped, mishap>> /\ (Mounted' <=> Mounted)
    BY <1>1 DEF StartMake, Mounted
  <2>4. ~Bootstrapping /\ ~Bootstrapping'
    BY SMTT(30), <1>0, <2>1 DEF MountInv, Ordered, Bootstrapping, Active, Key
  <2>5. Ordered' /\ Guarded'
    BY <1>0, <2>1, <2>3 DEF MountInv, Ordered, Guarded, Active, Key
  <2>6. Accepted'
    BY <1>0, <2>1, <2>2, <2>3 DEF Accepted, Active, Key, Past
  <2>7. Leaked'
    BY <2>3, <2>4 DEF MountInv, Leaked, SingleMount, HostUntouched,
         NoHostFilesShipped
  <2> QED BY <2>5, <2>6, <2>7 DEF MountInv
<1>2. CASE MakeExit
  <2>1. /\ UNCHANGED <<debroot, tar, mnt, wiped, mishap, pc>> /\ Idle'
        /\ \A t \in Target : ~Active(t)
    BY <1>2 DEF MakeExit, Idle
  <2>2. (Mounted' <=> Mounted) /\ \A t \in Target : Active(t)' <=> Active(t)
    BY SMTT(30), <2>1 DEF Mounted, Active
  <2>3. Ordered' /\ Guarded' /\ Accepted'
    BY Zenon, <1>0, <2>1, <2>2 DEF MountInv, Ordered, Guarded, Accepted, Key
  <2>4. Leaked'
    BY SMTT(30), <1>0, <2>1, <2>2 DEF MountInv, Leaked, Bootstrapping, Key, SingleMount,
         HostUntouched, NoHostFilesShipped
  <2> QED BY SMTT(30), <2>3, <2>4 DEF MountInv
<1>3. CASE (\E p \in Pkg : Package(p)) \/ (\E d \in EditDirs, e \in BOOLEAN : Edit(d, e))
  <2>1. UNCHANGED <<debroot, tar, mnt, wiped, mishap, pc, phase>>
    BY Zenon, <1>3 DEF Package, Edit
  <2> QED BY Zenon, <2>1 DEF MountInv, Ordered, Guarded, Accepted, Leaked, Bootstrapping,
         Active, Idle, Mounted, SingleMount, HostUntouched, NoHostFilesShipped
<1>4. CASE Clean
  <2>1. /\ Idle /\ Idle' /\ UNCHANGED <<pc, mnt>>
        /\ (Mounted' <=> Mounted) /\ tar' = NoTar
        /\ debroot' = IF Mounted THEN {"dir"} ELSE {}
        /\ wiped' = (wiped \/ Mounted) /\ mishap' = mishap \cap {"leak"}
    BY <1>4 DEF Clean, RmDebroot, Idle, Mounted
  <2>2. \A t \in Target : ~Active(t) /\ ~Active(t)'
    BY <2>1 DEF MountInv, Ordered, Active
  <2>3. Ordered' /\ Guarded'
    BY <1>0, <2>1, <2>2 DEF Ordered, Guarded, Key
  <2>4. Accepted'
    BY <1>0, <2>1, <2>2 DEF MountInv, Accepted, Key
  <2>5. Mounted \/ wiped => "leak" \in mishap'
    BY <1>0, <2>1, <2>2 DEF MountInv, Leaked, Bootstrapping, HostUntouched, Key
  <2>6. "host" \notin tar'.parts
    BY SMTT(30), <2>1 DEF NoTar
  <2> QED BY Zenon, <2>1, <2>3, <2>4, <2>5, <2>6 DEF MountInv, Leaked, SingleMount,
         HostUntouched, NoHostFilesShipped
<1>5. CASE Reboot
  <2>1. /\ UNCHANGED <<debroot, tar, wiped, mishap, pc, phase>>
        /\ ~Mounted' /\ SingleMount'
    BY SMTT(30), <1>5 DEF Reboot, Mounted, SingleMount
  <2> QED BY Zenon, <2>1 DEF MountInv, Ordered, Guarded, Accepted, Leaked, Active, Idle,
         HostUntouched, NoHostFilesShipped
<1> QED BY <1>1, <1>2, <1>3, <1>4, <1>5 DEF User

LEMMA MountInit == Init => MountInv
<1> SUFFICES ASSUME Init PROVE MountInv
  OBVIOUS
<1>1. ~Mounted /\ SingleMount /\ \A t \in Target : ~Active(t)
  BY DEF Init, Mounted, SingleMount, Active
<1>2. Key \subseteq Target
  BY DEF Key, Target
<1> QED BY <1>1, <1>2 DEF Init, MountInv, Ordered, Guarded, Accepted, Leaked, Idle,
         HostUntouched, NoHostFilesShipped, NoTar, Key

LEMMA MountStep == TypeOK /\ MountInv /\ [Next]_vars => MountInv'
<1> SUFFICES ASSUME TypeOK, MountInv, [Next]_vars PROVE MountInv'
  OBVIOUS
<1>1. CASE Recipe
  BY SMTT(30), <1>1, FilesMount, DebrootMount, CopyMount, QemuMountMount, ChrootMount,
     UmountMount, TarMount DEF Recipe, Local
<1>2. CASE UNCHANGED vars
  BY Zenon, <1>2 DEF vars, inputs, images, tree, host, make, MountInv, Ordered, Guarded,
         Accepted, Leaked, Bootstrapping, Active, Idle, Mounted, SingleMount,
         HostUntouched, NoHostFilesShipped
<1> QED BY <1>1, <1>2, NoRuleMount, VisitMount, UserMount, SignalMount DEF Next, Make

\* The bind mounts of qemubootstrap never pile up, for every number of jobs
\* and whatever fails or is interrupted, because copy-files refuses a debroot
\* that holds wpa_supplicant.conf.
THEOREM MountsNeverStack == Spec => []SingleMount
<1>1. MountInv => SingleMount
  BY DEF MountInv, Leaked
<1> QED BY <1>1, TypeInit, TypeStep, MountInit, MountStep, PTL DEF Spec

\* rm -rf debroot, in make clean or in debroot's own recipe, reaches the build
\* machine's /dev only after a bootstrap left its mounts behind.
THEOREM HostSafe == Spec => []HostUntouched
<1>1. MountInv => HostUntouched
  BY DEF MountInv, Leaked
<1> QED BY <1>1, TypeInit, TypeStep, MountInit, MountStep, PTL DEF Spec

\* debroot.tar holds files of the build machine only after a bootstrap left
\* its mounts behind.
THEOREM ArchiveClean == Spec => []NoHostFilesShipped
<1>1. MountInv => NoHostFilesShipped
  BY DEF MountInv, Leaked
<1> QED BY <1>1, TypeInit, TypeStep, MountInit, MountStep, PTL DEF Spec
=============================================================================
