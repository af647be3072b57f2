---------------------------- MODULE BuildProofs -----------------------------
(***************************************************************************)
(* What a successful make has made: the archive is complete and current,   *)
(* and the image is whole.                                                 *)
(***************************************************************************)
EXTENDS HostBuildProofs

\* What make has finished before t: its prerequisites and, with one job slot,
\* every target before it in the walk.
Before(t) == Prereq[t] \cup {u \in Target : Jobs = 1 /\ Pos[u] < Pos[t]}

\* make has started t in this invocation and not given up on it.
Begun(t) == \/ Active(t)
            \/ /\ pc[t] = "done" /\ t # "install-to-device"
               /\ t = "qemu-install" => qemu

Sequenced ==
    ~Idle => /\ \A t \in Target : Begun(t) => \A u \in Before(t) : pc[u] = "done"
             /\ ~qemu => pc["qemu-install"] = "done"

\* A debroot with a skeleton that no interrupted debootstrap left has the
\* whole first stage; packages that no mishap tore are complete.
Sound ==
    /\ "skel" \in debroot /\ "cut" \notin mishap
       /\ pc["debroot"] \notin {"first stage", "|| rm"} => "base" \in debroot
    /\ "torn" \notin mishap => \A a \in Debs : art[a].there => art[a].whole

\* What copy-files has put into debroot, unless the recipe of debroot has
\* removed the tree in another job: then there is no debroot at all.
Copied ==
    ~Idle /\ pc["copy-files"] \in Past =>
        /\ Jobs = 1 \/ Active("debroot") => "skel" \in debroot
        /\ pc["copy-files"] \in {"debs", "done"} /\ "skel" \in debroot
              => "modules" \in debroot
        /\ pc["copy-files"] = "done" /\ "dir" \in debroot =>
              /\ "skel" \in debroot
              /\ ~qemu /\ "torn" \notin mishap => "debs" \in debroot

\* What the commands of the chroot have put there, step by step.
Bootstrapped ==
    ~Idle /\ qemu =>
        /\ pc["qemu-install"] \in {"dpkg", "rm debs", "adduser", "sudo",
                                   "umount, ok", "done"}
              => "second" \in debroot \cup mishap
        /\ pc["qemu-install"] \in {"rm debs", "adduser", "sudo", "umount, ok", "done"}
              => "pkgs" \in debroot
        /\ pc["qemu-install"] \in {"sudo", "umount, ok", "done"} => "user" \in debroot
        /\ pc["qemu-install"] \in {"umount, ok", "done"} => "sudo" \in debroot

\* The archive, once made, is debroot as it then stays.
Archived ==
    ~Idle /\ pc["debroot.tar"] = "done" =>
        /\ tar.there <=> "dir" \in debroot
        /\ tar.there => tar.whole /\ tar.parts \ {"host"} = debroot

\* An image that no mishap cut short is whole; boot.img is there once made.
Imaged ==
    /\ "image" \notin mishap =>
          \A a \in {"initrd.img", "boot.img"} : art[a].there => art[a].whole
    /\ ~Idle /\ pc["boot.img"] = "done" => art["boot.img"].there

BuildInv == /\ Sequenced /\ Sound /\ Copied /\ Bootstrapped /\ Archived /\ Imaged
            /\ TarballComplete /\ ImageWhole

-----------------------------------------------------------------------------
\* Whole packages, the second half of Sound.
DebsWhole == "torn" \notin mishap => \A a \in Debs : art[a].there => art[a].whole

LEMMA BeforeType == \A t \in Target : Before(t) \subseteq Target
<1>1. \A t \in Target : Prereq[t] \subseteq Target
  BY Zenon DEF Prereq, Target, Art, Debs
<1> QED BY Zenon, <1>1 DEF Before

\* make's order is kept by a step that undoes no target and starts only what
\* it may start.
LEMMA SequencedStep ==
  ASSUME Sequenced, ~Idle, UNCHANGED qemu,
         \A u \in Target : pc[u] = "done" => pc'[u] = "done",
         \A v \in Target : Begun(v)' => Begun(v) \/ \A u \in Before(v) : pc[u] = "done"
  PROVE  Sequenced'
<1>1. "qemu-install" \in Target
  BY DEF Target
<1>2. \A v \in Target : Before(v)' = Before(v)
  BY Zenon DEF Before
<1>3. ASSUME NEW v \in Target, Begun(v)', NEW u \in Before(v) PROVE pc'[u] = "done"
  <2>1. pc[u] = "done"
    BY Zenon, <1>3 DEF Sequenced
  <2> QED BY Zenon, <2>1, BeforeType
<1> QED BY Zenon, <1>1, <1>2, <1>3 DEF Sequenced

\* A running recipe goes on, ends or fails.
LEMMA RecipeSequenced ==
  ASSUME TypeOK, Sequenced, ~Idle, UNCHANGED qemu, NEW t \in Target, Active(t),
         \A u \in Target \ {t} : pc'[u] = pc[u]
  PROVE  Sequenced'
<1>1. \A u \in Target : pc[u] = "done" => pc'[u] = "done"
  BY Zenon DEF Active
<1>2. \A v \in Target : Begun(v)' => Begun(v)
  BY Zenon DEF Active, Begun
<1> QED BY Zenon, <1>1, <1>2, SequencedStep

\* What concerns neither debroot, the archive nor the recipes that make them.
LEMMA BuildFrame ==
  ASSUME BuildInv, ~Idle, ~Idle', UNCHANGED <<debroot, tar, qemu>>,
         mishap \ {"image"} \subseteq mishap', \A k \in Key : pc'[k] = pc[k],
         Sequenced', DebsWhole', Imaged'
  PROVE  BuildInv'
<1>1. Sound'
  BY Zenon DEF BuildInv, Sound, DebsWhole, Key
<1>2. Copied'
  BY Zenon DEF BuildInv, Copied, Active, Key
<1>3. Bootstrapped'
  BY Zenon DEF BuildInv, Bootstrapped, Key
<1>4. Archived'
  BY Zenon DEF BuildInv, Archived, Key
<1>5. TarballComplete' /\ ImageWhole'
  BY Zenon DEF TarballComplete, ImageWhole
<1> QED BY Zenon, <1>1, <1>2, <1>3, <1>4, <1>5 DEF BuildInv

\* The images keep their state.
LEMMA ImagesFrame ==
  ASSUME Imaged, \A a \in {"initrd.img", "boot.img"} : art'[a] = art[a],
         "image" \in mishap => "image" \in mishap',
         ~Idle' => ~Idle /\ (pc'["boot.img"] = "done" =>
                               pc["boot.img"] = "done" \/ art["boot.img"].there)
  PROVE  Imaged'
  BY Zenon DEF Imaged

LEMMA BuiltWhole ==
  ASSUME NEW a, NEW w \in BOOLEAN
  PROVE  Built(a, w).there /\ Built(a, w).whole = w
  BY Zenon DEF Built

\* The files that writing an image changes, and the mishaps.
LEMMA ImageWritten ==
  ASSUME TypeOK, NEW a \in Art, NEW w \in BOOLEAN, WriteImage(a, w)
  PROVE  /\ art'[a].there /\ art'[a].whole = w
         /\ \A b \in Art \ {a} : art'[b] = art[b]
         /\ w /\ a # "boot.img" => mishap' = mishap
         /\ w /\ a = "boot.img" => mishap' = mishap \ {"image"}
         /\ ~w => mishap' = mishap \cup {"image"}
<1>1. Built(a, w).there /\ Built(a, w).whole = w
  BY Zenon, BuiltWhole
<1>2. art' = [art EXCEPT ![a] = Built(a, w)]
  BY Zenon DEF WriteImage, Write
<1>3. art'[a] = Built(a, w) /\ \A b \in Art \ {a} : art'[b] = art[b]
  BY Zenon, <1>2 DEF TypeOK
<1>4. mishap' = IF w THEN mishap \ {x \in {"image"} : a = "boot.img"}
                     ELSE mishap \cup {"image"}
  BY Zenon DEF WriteImage
<1>5. /\ a # "boot.img" => mishap \ {x \in {"image"} : a = "boot.img"} = mishap
      /\ a = "boot.img" => {x \in {"image"} : a = "boot.img"} = {"image"}
  OBVIOUS
<1> QED BY Zenon, <1>1, <1>3, <1>4, <1>5

\* A running recipe, its target and the others.
LEMMA RecipeStep ==
  ASSUME TypeOK, MountInv, Sequenced, NEW t \in Target, Active(t),
         \E l, f : Goto(t, l, f) \/ (Abort(t, f) /\ l = "failed")
  PROVE  /\ ~Idle /\ ~Idle' /\ UNCHANGED qemu /\ Sequenced'
         /\ \A u \in Target \ {t} : pc'[u] = pc[u]
<1>1. ~Idle
  BY Zenon, Running
<1>2. ~Idle' /\ \A u \in Target \ {t} : pc'[u] = pc[u]
  BY Zenon, <1>1, PcAfter
<1>3. UNCHANGED qemu
  BY Zenon DEF Goto, Abort
<1> QED BY Zenon, <1>1, <1>2, <1>3, RecipeSequenced

\* check, the images, the packages, all and install-to-device.
LEMMA FilesBuild ==
  ASSUME TypeOK, MountInv, BuildInv,
         \/ CheckPackages \/ CheckTools \/ PackInitrd \/ MakeBootImg
         \/ \E a \in Debs : BuildDeb(a)
         \/ AllDone \/ Install
  PROVE  BuildInv'
<1> USE DEF inputs, images, tree, host
<1>0. Key \subseteq Target /\ {"initrd.img", "boot.img"} \cap Debs = {}
  BY DEF Key, Target, Debs
<1>1. CASE CheckPackages
  <2>1. "check" \in Target /\ "check" \notin Key /\ "boot.img" \in Target
    BY DEF Target, Art, Key
  <2>2. /\ ~Idle /\ ~Idle' /\ UNCHANGED qemu /\ Sequenced'
        /\ \A u \in Target \ {"check"} : pc'[u] = pc[u]
    <3>1. \E l, f : Goto("check", l, f) \/ (Abort("check", f) /\ l = "failed")
      BY Zenon, <1>1 DEF CheckPackages, Fetch
    <3> QED BY Zenon, <1>1, <2>1, <3>1, RecipeStep DEF CheckPackages, Active, BuildInv
  <2>3. /\ UNCHANGED <<debroot, tar>> /\ mishap \subseteq mishap'
        /\ "image" \in mishap' => "image" \in mishap
    BY Zenon, <1>1 DEF CheckPackages, Fetch
  <2>4. /\ \A a \in {"initrd.img", "boot.img"} : art'[a] = art[a]
        /\ DebsWhole'
    <3>1. CASE UNCHANGED <<images, mishap>>
      BY Zenon, <3>1 DEF BuildInv, Sound, DebsWhole
    <3>2. ASSUME NEW got \in SUBSET PREBUILT, NEW torn \in SUBSET PREBUILT,
                 NEW old \in SUBSET PREBUILT, Fetch(got, torn, old)
          PROVE  /\ \A a \in {"initrd.img", "boot.img"} : art'[a] = art[a]
                 /\ DebsWhole'
      <4>1. DebsOf(got \cup torn) \subseteq Debs
        BY Zenon DEF DebsOf, PREBUILT, Deb, Debs, Pkg
      <4>2. {"initrd.img", "boot.img"} \subseteq Art /\ Debs \subseteq Art
        BY Zenon DEF Art
      <4>3. \A a \in Art : art'[a] = IF a \in DebsOf(got \cup torn)
                             THEN [there |-> TRUE, whole |-> a \in DebsOf(got), ver |-> 0]
                             ELSE art[a]
        BY Zenon, <3>2 DEF Fetch
      <4>4. \A a \in {"initrd.img", "boot.img"} : art'[a] = art[a]
        BY Zenon, <1>0, <4>1, <4>2, <4>3
      <4>5. ASSUME "torn" \notin mishap' PROVE \A a \in Debs : art'[a].there => art'[a].whole
        <5>1. torn = {} /\ "torn" \notin mishap
          BY Zenon, <3>2, <4>5 DEF Fetch
        <5>2. ASSUME NEW a \in Debs, a \in DebsOf(got \cup torn) PROVE art'[a].whole
          <6>1. got \cup torn = got
            BY <5>1
          <6>2. a \in DebsOf(got)
            BY Zenon, <5>2, <6>1
          <6>3. (a \in DebsOf(got)) = TRUE
            BY Zenon, <6>2
          <6>4. art'[a] = [there |-> TRUE, whole |-> TRUE, ver |-> 0]
            BY Zenon, <4>2, <4>3, <5>2, <6>3
          <6> QED BY SMTT(30), <6>4
        <5> QED BY Zenon, <4>2, <4>3, <5>1, <5>2 DEF BuildInv, Sound
      <4> QED BY Zenon, <4>4, <4>5 DEF DebsWhole
    <3> QED BY Zenon, <1>1, <3>1, <3>2 DEF CheckPackages
  <2>5. Imaged'
    BY Zenon, <2>1, <2>2, <2>3, <2>4, ImagesFrame DEF BuildInv
  <2> QED BY Zenon, <1>0, <2>1, <2>2, <2>3, <2>4, <2>5, BuildFrame
<1>2. ASSUME NEW t \in Target \ (Key \cup {"boot.img"}), Active(t),
             \E l, f : Goto(t, l, f) \/ (Abort(t, f) /\ l = "failed"),
             UNCHANGED <<images, tree, host>>
      PROVE  BuildInv'
  <2>1. "boot.img" \in Target
    BY DEF Target, Art
  <2>2. /\ ~Idle /\ ~Idle' /\ UNCHANGED qemu /\ Sequenced'
        /\ \A u \in Target \ {t} : pc'[u] = pc[u]
    BY Zenon, <1>2, RecipeStep DEF BuildInv
  <2>3. Imaged' /\ DebsWhole'
    BY Zenon, <1>2, <2>1, <2>2 DEF BuildInv, Sound, Imaged, DebsWhole
  <2> QED BY Zenon, <1>0, <1>2, <2>2, <2>3, BuildFrame
<1>3. CASE CheckTools
  <2>1. "check" \in Target \ (Key \cup {"boot.img"})
    BY DEF Target, Key
  <2> QED BY Zenon, <1>2, <1>3, <2>1 DEF CheckTools, Active
<1>4. CASE AllDone \/ Install
  <2>1. {"all", "install-to-device"} \subseteq Target \ (Key \cup {"boot.img"})
    BY DEF Target, Key
  <2> QED BY Zenon, <1>2, <1>4, <2>1 DEF AllDone, Install, Active
<1>5. CASE PackInitrd
  <2>1. "initrd.img" \in Target \ Key /\ "boot.img" \in Target /\ "initrd.img" \in Art
    BY DEF Target, Art, Key
  <2>2. /\ ~Idle /\ ~Idle' /\ UNCHANGED qemu /\ Sequenced'
        /\ \A u \in Target \ {"initrd.img"} : pc'[u] = pc[u]
    BY Zenon, <1>5, <2>1, RecipeStep DEF PackInitrd, Active, BuildInv
  <2>3. PICK w \in BOOLEAN : WriteImage("initrd.img", w)
    BY Zenon, <1>5 DEF PackInitrd
  <2>4. /\ art'["initrd.img"].whole = w /\ \A a \in Art \ {"initrd.img"} : art'[a] = art[a]
        /\ w => mishap' = mishap
        /\ ~w => mishap' = mishap \cup {"image"}
    <3>1. "initrd.img" # "boot.img"
      OBVIOUS
    <3> QED BY Zenon, <2>1, <2>3, <3>1, ImageWritten
  <2>5. DebsWhole'
    <3>1. Debs \subseteq Art \ {"initrd.img"}
      BY <1>0 DEF Art
    <3> QED BY Zenon, <2>4, <3>1 DEF BuildInv, Sound, DebsWhole
  <2>6. Imaged'
    <3>1. "boot.img" \in Art \ {"initrd.img"}
      BY DEF Art
    <3> QED BY Zenon, <2>1, <2>2, <2>4, <3>1 DEF BuildInv, Imaged
  <2>7. UNCHANGED <<debroot, tar>> /\ mishap \ {"image"} \subseteq mishap'
    BY Zenon, <1>5, <2>4 DEF PackInitrd
  <2> QED BY Zenon, <1>0, <2>1, <2>2, <2>5, <2>6, <2>7, BuildFrame
<1>6. CASE MakeBootImg
  <2>1. "boot.img" \in Target \ Key /\ "boot.img" \in Art /\ "initrd.img" \in Art
    BY DEF Target, Art, Key
  <2>2. /\ ~Idle /\ ~Idle' /\ UNCHANGED qemu /\ Sequenced'
        /\ \A u \in Target \ {"boot.img"} : pc'[u] = pc[u]
    BY Zenon, <1>6, <2>1, RecipeStep DEF MakeBootImg, Active, BuildInv
  <2>3. \/ UNCHANGED <<images, mishap>> /\ pc'["boot.img"] = "failed"
        \/ \E w \in BOOLEAN : WriteImage("boot.img", w) /\ (w => art["initrd.img"].whole)
    <3>1. art["initrd.img"].whole \in BOOLEAN
      BY <2>1 DEF TypeOK, File
    <3>2. Abort("boot.img", TRUE) => pc'["boot.img"] = "failed"
      BY Zenon, <2>1, PcAfter
    <3> QED BY Zenon, <1>6, <3>1, <3>2 DEF MakeBootImg
  <2>4. CASE UNCHANGED <<images, mishap>> /\ pc'["boot.img"] = "failed"
    <3>1. Imaged' /\ DebsWhole'
      BY Zenon, <2>4 DEF BuildInv, Sound, Imaged, DebsWhole
    <3> QED BY Zenon, <1>0, <1>6, <2>1, <2>2, <2>4, <3>1, BuildFrame DEF MakeBootImg
  <2>5. ASSUME NEW w \in BOOLEAN, WriteImage("boot.img", w), w => art["initrd.img"].whole
        PROVE  BuildInv'
    <3>1. /\ art'["boot.img"].whole = w /\ art'["boot.img"].there
          /\ \A a \in Art \ {"boot.img"} : art'[a] = art[a]
          /\ w => mishap' = mishap \ {"image"}
          /\ ~w => mishap' = mishap \cup {"image"}
      BY Zenon, <2>1, <2>5, ImageWritten
    <3>2. DebsWhole'
      <4>1. Debs \subseteq Art \ {"boot.img"}
        BY <1>0 DEF Art
      <4> QED BY Zenon, <3>1, <4>1 DEF BuildInv, Sound, DebsWhole
    <3>3. Imaged'
      <4>1. "initrd.img" \in Art \ {"boot.img"}
        BY DEF Art
      <4> QED BY Zenon, <2>5, <3>1, <4>1 DEF Imaged
    <3>4. UNCHANGED <<debroot, tar>> /\ mishap \ {"image"} \subseteq mishap'
      BY Zenon, <1>6, <3>1 DEF MakeBootImg
    <3> QED BY Zenon, <1>0, <2>1, <2>2, <3>2, <3>3, <3>4, BuildFrame
  <2> QED BY Zenon, <2>3, <2>4, <2>5
<1>7. ASSUME NEW t \in Debs, BuildDeb(t) PROVE BuildInv'
  <2>1. t \in Target \ Key /\ t \in Art /\ t \notin {"initrd.img", "boot.img"} /\ "boot.img" \in Target
    BY <1>0 DEF Target, Art, Key, Debs
  <2>2. /\ ~Idle /\ ~Idle' /\ UNCHANGED qemu /\ Sequenced'
        /\ \A u \in Target \ {t} : pc'[u] = pc[u]
    BY Zenon, <1>7, <2>1, RecipeStep DEF BuildDeb, Active, BuildInv
  <2>3. \/ UNCHANGED art
        \/ art'[t].whole /\ \A a \in Art \ {t} : art'[a] = art[a]
    <3>1. CASE Write(t, TRUE)
      BY SMTT(30), <2>1, <3>1 DEF Write, Built, TypeOK
    <3> QED BY Zenon, <1>7, <3>1 DEF BuildDeb
  <2>4. DebsWhole' /\ \A a \in {"initrd.img", "boot.img"} : art'[a] = art[a]
    <3>1. Debs \subseteq Art /\ {"initrd.img", "boot.img"} \subseteq Art \ {t}
      BY <2>1 DEF Art
    <3> QED BY Zenon, <1>7, <2>3, <3>1 DEF BuildDeb, BuildInv, Sound, DebsWhole
  <2>5. Imaged'
    BY Zenon, <1>7, <2>1, <2>2, <2>4, ImagesFrame DEF BuildDeb, BuildInv
  <2> QED BY Zenon, <1>0, <1>7, <2>1, <2>2, <2>4, <2>5, BuildFrame DEF BuildDeb
<1> QED BY Zenon, <1>1, <1>3, <1>4, <1>5, <1>6, <1>7

LEMMA NoRuleBuild ==
  ASSUME TypeOK, MountInv, BuildInv, NEW t \in Target, NoRule(t)
  PROVE  BuildInv'
<1> USE DEF inputs, images, tree, host
<1>1. t \notin Key
  <2>1. \A k \in Key : SrcOf[k] = {}
    BY DEF SrcOf, Key, Target
  <2> QED BY <2>1 DEF NoRule
<1>2. Key \subseteq Target /\ "boot.img" \in Target
  BY DEF Key, Target, Art
<1>3. /\ ~Idle /\ ~Idle' /\ pc[t] = "todo" /\ pc'[t] = "failed"
      /\ \A u \in Target \ {t} : pc'[u] = pc[u]
  BY Zenon, PcAfter DEF NoRule, Ready, Idle
<1>4. UNCHANGED <<art, debroot, tar, mishap, qemu>>
  BY Zenon DEF NoRule, Abort
<1>5. Sequenced'
  <2>1. \A u \in Target : pc[u] = "done" => pc'[u] = "done"
    BY Zenon, <1>3
  <2>2. \A v \in Target : Begun(v)' => Begun(v)
    BY Zenon, <1>3, <1>4 DEF Begun, Active
  <2> QED BY Zenon, <1>3, <1>4, <2>1, <2>2, SequencedStep DEF BuildInv
<1>6. Imaged' /\ DebsWhole'
  BY Zenon, <1>2, <1>3, <1>4 DEF BuildInv, Sound, Imaged, DebsWhole
<1> QED BY Zenon, <1>1, <1>2, <1>3, <1>4, <1>5, <1>6, BuildFrame

\* make considers a target: a recipe that names no file always runs, and so
\* does the one of the archive, which depends on such a target.
LEMMA VisitBuild ==
  ASSUME TypeOK, MountInv, BuildInv, NEW t \in Target, Visit(t)
  PROVE  BuildInv'
<1> USE DEF inputs, images, tree, host
<1> DEFINE first == IF OutOfDate(t) THEN FirstStep[t] ELSE "done"
<1>0. Key \subseteq Target /\ "boot.img" \in Target
  BY DEF Key, Target, Art
<1>1. /\ ~Idle /\ ~Idle' /\ pc[t] = "todo" /\ pc'[t] = first
      /\ \A u \in Target \ {t} : pc'[u] = pc[u]
      /\ \A u \in Before(t) : pc[u] = "done"
  BY Zenon, PcAfter DEF Visit, Ready, Idle, Before
<1>2. UNCHANGED <<art, debroot, tar, mishap, qemu>>
  BY Zenon DEF Visit, Goto
<1>3. MountInv'
  BY Zenon, VisitMount
<1>4. /\ t = "debroot" => first \in {"rm", "done"}
      /\ t = "copy-files" => first = "conf"
      /\ t = "qemu-install" => first = "mount"
      /\ t = "debroot.tar" => first = "run"
      /\ t = "boot.img" /\ first = "done" => art["boot.img"].there
  <2>1. /\ FirstStep["debroot"] = "rm" /\ FirstStep["copy-files"] = "conf"
        /\ FirstStep["qemu-install"] = "mount" /\ FirstStep["debroot.tar"] = "run"
        /\ FirstStep["boot.img"] = "run" /\ "copy-files" \in Prereq["debroot.tar"]
    BY DEF FirstStep, Target, Art, Prereq
  <2>2. ~Exists("copy-files") /\ ~Exists("qemu-install")
    BY DEF Exists, Art, Debs
  <2>3. Exists("boot.img") => art["boot.img"].there
    BY DEF Exists
  <2> QED BY Zenon, <2>1, <2>2, <2>3 DEF OutOfDate
<1> HIDE DEF first
<1>5. Sequenced'
  <2>1. \A u \in Target : pc[u] = "done" => pc'[u] = "done"
    BY Zenon, <1>1
  <2>2. \A v \in Target : Begun(v)' => Begun(v) \/ v = t
    BY Zenon, <1>1, <1>2 DEF Begun, Active
  <2> QED BY Zenon, <1>1, <1>2, <2>1, <2>2, SequencedStep DEF BuildInv
<1>6. Imaged' /\ DebsWhole'
  BY Zenon, <1>0, <1>1, <1>2, <1>4 DEF BuildInv, Sound, Imaged, DebsWhole
<1>7. CASE t \notin Key
  BY Zenon, <1>0, <1>1, <1>2, <1>5, <1>6, <1>7, BuildFrame
<1>8. CASE t \in Key
  <2>1. Sound'
    BY Zenon, <1>0, <1>1, <1>2, <1>4, <1>6 DEF BuildInv, Sound, DebsWhole, Key
  <2>2. Copied'
    <3>1. CASE t = "debroot" /\ pc["copy-files"] \in Past
      <4>1. pc'["copy-files"] = pc["copy-files"] /\ pc'["debroot"] # "rm"
        BY Zenon, <1>0, <1>1, <1>3, <3>1 DEF Key, MountInv, Accepted
      <4>2. pc'["debroot"] = "done"
        BY Zenon, <1>1, <1>4, <3>1, <4>1
      <4> QED BY Zenon, <1>1, <1>2, <3>1, <4>1, <4>2 DEF BuildInv, Copied, Active
    <3>2. CASE t # "debroot" /\ pc'["copy-files"] \in Past
      <4>1. t # "copy-files"
        BY Zenon, <1>1, <1>4, <3>2 DEF Past
      <4>2. pc'["copy-files"] = pc["copy-files"] /\ pc'["debroot"] = pc["debroot"]
        BY Zenon, <1>0, <1>1, <3>2, <4>1 DEF Key
      <4> QED BY Zenon, <1>1, <1>2, <3>2, <4>2 DEF BuildInv, Copied, Active
    <3>3. t = "debroot" => pc'["copy-files"] = pc["copy-files"]
      BY Zenon, <1>0, <1>1 DEF Key
    <3> QED BY Zenon, <3>1, <3>2, <3>3 DEF Copied
  <2>3. Bootstrapped'
    BY Zenon, <1>0, <1>1, <1>2, <1>4 DEF BuildInv, Bootstrapped, Key
  <2>4. Archived'
    BY Zenon, <1>0, <1>1, <1>2, <1>4 DEF BuildInv, Archived, Key
  <2>5. TarballComplete' /\ ImageWhole'
    BY Zenon, <1>1 DEF TarballComplete, ImageWhole
  <2> QED BY Zenon, <1>5, <1>6, <2>1, <2>2, <2>3, <2>4, <2>5 DEF BuildInv
<1> QED BY Zenon, <1>7, <1>8

\* What make has not begun while one of its prerequisites is being made.
LEMMA NotBegun ==
  ASSUME Sequenced, ~Idle, NEW t \in Target, NEW u \in Target, u \in Before(t),
         pc[u] # "done"
  PROVE  ~Begun(t)
  BY Zenon DEF Sequenced

LEMMA Order ==
  /\ "copy-files" \in Before("qemu-install") /\ "debroot" \in Before("qemu-install")
  /\ {"debroot", "copy-files", "qemu-install"} \subseteq Before("debroot.tar")
  /\ Jobs = 1 => "debroot" \in Before("copy-files")
<1>1. /\ {"debroot", "copy-files"} \subseteq Prereq["qemu-install"]
      /\ {"debroot", "copy-files", "qemu-install"} \subseteq Prereq["debroot.tar"]
      /\ Pos["debroot"] < Pos["copy-files"] /\ "debroot" \in Target
  BY DEF Prereq, Pos, Target
<1> QED BY Zenon, <1>1 DEF Before

\* While debroot or copy-files is being made, nothing has been put into the
\* tree by the bootstrap, and there is no archive of this invocation.
LEMMA TreeEarly ==
  ASSUME TypeOK, Sequenced, ~Idle, ~Idle', UNCHANGED qemu,
         NEW t \in {"debroot", "copy-files"}, Active(t),
         \A u \in Target \ {t} : pc'[u] = pc[u]
  PROVE  Bootstrapped' /\ Archived'
<1>0. Key \subseteq Target /\ t \in Key
  BY DEF Key, Target
<1>1. ~Begun("qemu-install") /\ ~Begun("debroot.tar")
  BY Zenon, <1>0, NotBegun, Order DEF Key, Active
<1>2. /\ qemu => pc["qemu-install"] \in {"todo", "failed"}
      /\ pc["debroot.tar"] # "done"
  BY Zenon, <1>1 DEF Begun, Active
<1>3. /\ pc'["qemu-install"] = pc["qemu-install"]
      /\ pc'["debroot.tar"] = pc["debroot.tar"]
  BY Zenon, <1>0 DEF Key
<1> QED BY Zenon, <1>2, <1>3 DEF Bootstrapped, Archived

\* The packages and images are not touched.
LEMMA FilesKept ==
  ASSUME Sound, Imaged, ~Idle, UNCHANGED art, pc'["boot.img"] = pc["boot.img"],
         {"torn", "image"} \cap mishap \subseteq mishap'
  PROVE  DebsWhole' /\ Imaged'
<1>1. /\ "torn" \in mishap => "torn" \in mishap'
      /\ "image" \in mishap => "image" \in mishap'
  BY Zenon
<1> QED BY Zenon, <1>1 DEF Sound, DebsWhole, Imaged

LEMMA DebrootBuild ==
  ASSUME TypeOK, MountInv, BuildInv, Debootstrap
  PROVE  BuildInv'
<1> USE DEF inputs, images, tree, host
<1>0. Key \subseteq Target /\ "debroot" \in Key /\ "boot.img" \in Target \ {"debroot"}
  BY DEF Key, Target, Art
<1>1. Active("debroot") /\ ~Mounted
  BY Zenon DEF Debootstrap, DebrootStep, Active, MountInv, Accepted
<1>2. /\ ~Idle /\ ~Idle' /\ UNCHANGED qemu /\ Sequenced'
      /\ \A u \in Target \ {"debroot"} : pc'[u] = pc[u]
  <2>1. \E l, f : Goto("debroot", l, f) \/ (Abort("debroot", f) /\ l = "failed")
    BY Zenon DEF Debootstrap, DebrootStep
  <2> QED BY Zenon, <1>0, <1>1, <2>1, RecipeStep DEF BuildInv
<1>3. UNCHANGED <<art, tar>> /\ mishap \ {"cut", "second"} \subseteq mishap'
  BY Zenon DEF Debootstrap, DebrootStep
<1>4. \/ pc'["debroot"] \in {"debootstrap", "done"} /\ debroot' = {}
      \/ /\ pc["debroot"] = "debootstrap" /\ pc'["debroot"] = "first stage"
      \/ /\ pc["debroot"] = "first stage" /\ pc'["debroot"] = "done"
         /\ debroot' = debroot \cup {"dir", "skel", "base"}
      \/ pc'["debroot"] = "|| rm" /\ debroot' = debroot
  <2>1. \A l, f : Goto("debroot", l, f) => pc'["debroot"] = l
    BY Zenon, <1>0, PcAfter
  <2> QED BY Zenon, <1>1, <2>1 DEF Debootstrap, DebrootStep, RmDebroot
<1>5. Bootstrapped' /\ Archived'
  BY Zenon, <1>0, <1>1, <1>2, TreeEarly DEF BuildInv
<1>6. DebsWhole' /\ Imaged'
  <2>1. {"torn", "image"} \cap mishap \subseteq mishap'
    BY <1>3
  <2> QED BY Zenon, <1>0, <1>2, <1>3, <2>1, FilesKept DEF BuildInv
<1>7. Sound'
  <2>1. "skel" \in debroot' /\ pc'["debroot"] \notin {"first stage", "|| rm"}
           => "base" \in debroot'
    BY Zenon, <1>4
  <2> QED BY Zenon, <1>6, <2>1 DEF Sound, DebsWhole
<1>8. Copied'
  <2> SUFFICES ASSUME pc["copy-files"] \in Past PROVE Copied'
    BY Zenon, <1>0, <1>2 DEF Copied, Key
  <2>1. Jobs # 1
    <3>1. Begun("copy-files")
      BY Zenon DEF Begun, Active, Past
    <3> QED BY Zenon, <1>0, <1>1, <1>2, <3>1, Order, NotBegun DEF Key, Active, BuildInv
  <2>2. pc["debroot"] # "debootstrap" /\ "skel" \in debroot /\ "dir" \in debroot
    BY Zenon, <1>1, <1>2 DEF MountInv, Accepted, Guarded, BuildInv, Copied
  <2>3. UNCHANGED qemu /\ pc'["copy-files"] = pc["copy-files"]
    BY Zenon, <1>0, <1>2 DEF Key
  <2>4. "torn" \in mishap => "torn" \in mishap'
    BY Zenon, <1>3
  <2>5. CASE debroot' = {} /\ pc'["debroot"] \in {"debootstrap", "done"}
    <3>1. pc'["debroot"] = "done"
      BY Zenon, <1>2, <2>3, <2>5, DebrootMount DEF MountInv, Accepted
    <3> QED BY Zenon, <2>1, <2>5, <3>1 DEF Copied, Active
  <2>6. CASE debroot \subseteq debroot'
    <3>1. /\ "skel" \in debroot'
          /\ "modules" \in debroot => "modules" \in debroot'
          /\ "debs" \in debroot => "debs" \in debroot'
      BY SMTT(30), <2>2, <2>6
    <3>2. /\ pc["copy-files"] \in {"debs", "done"} => "modules" \in debroot
          /\ pc["copy-files"] = "done" /\ ~qemu /\ "torn" \notin mishap => "debs" \in debroot
      BY Zenon, <1>2, <2>2 DEF BuildInv, Copied
    <3> QED BY Zenon, <2>3, <2>4, <3>1, <3>2 DEF Copied
  <2> QED BY Zenon, <1>4, <2>2, <2>5, <2>6
<1>9. TarballComplete' /\ ImageWhole'
  BY Zenon, <1>2 DEF TarballComplete, ImageWhole
<1> QED BY Zenon, <1>2, <1>5, <1>6, <1>7, <1>8, <1>9 DEF BuildInv

\* copy-files puts into the tree what the archive is to hold.
LEMMA CopyBuild ==
  ASSUME TypeOK, MountInv, BuildInv, CopyFiles
  PROVE  BuildInv'
<1> USE DEF inputs, images, tree, host
<1>0. Key \subseteq Target /\ "copy-files" \in Key /\ "boot.img" \in Target \ {"copy-files"}
  BY DEF Key, Target, Art
<1>1. Active("copy-files")
  BY Zenon DEF CopyFiles, CopyStep, Active
<1>2. /\ ~Idle /\ ~Idle' /\ UNCHANGED qemu /\ Sequenced'
      /\ \A u \in Target \ {"copy-files"} : pc'[u] = pc[u]
  <2>1. \E l, f : Goto("copy-files", l, f) \/ (Abort("copy-files", f) /\ l = "failed")
    BY Zenon DEF CopyFiles, CopyStep
  <2> QED BY Zenon, <1>0, <1>1, <2>1, RecipeStep DEF BuildInv
<1>3. UNCHANGED <<art, tar, mishap>>
  BY Zenon DEF CopyFiles
<1>4. \/ /\ pc["copy-files"] = "conf" /\ pc'["copy-files"] = "editor"
         /\ "skel" \in debroot /\ debroot' = debroot \cup {"conf"}
      \/ /\ pc["copy-files"] = "editor" /\ pc'["copy-files"] = "modules"
         /\ debroot' = debroot
      \/ /\ pc["copy-files"] = "modules" /\ pc'["copy-files"] = "debs"
         /\ debroot' = debroot \cup {"dir", "modules"}
      \/ /\ pc["copy-files"] = "debs" /\ pc'["copy-files"] = "done"
         /\ "skel" \in debroot /\ \A a \in Debs : Exists(a)
         /\ debroot' = (debroot \ {"debs", "bad debs"}) \cup
                    {IF \A a \in Debs : art[a].whole THEN "debs" ELSE "bad debs"}
      \/ /\ pc'["copy-files"] = "failed"
         /\ debroot' = debroot \/ debroot' = (debroot \cup {"dir"}) \ {"modules"}
  <2>1. \A l, f : Goto("copy-files", l, f) => pc'["copy-files"] = l
    BY Zenon, <1>0, PcAfter
  <2>2. \A f : Abort("copy-files", f) => pc'["copy-files"] = "failed"
    BY Zenon, <1>0, PcAfter
  <2> QED BY Zenon, <2>1, <2>2 DEF CopyFiles, CopyStep, ConfWritable
<1>5. /\ "skel" \in debroot' <=> "skel" \in debroot
      /\ "base" \in debroot => "base" \in debroot'
  <2>1. \/ \E new \in {{"conf"}, {"dir", "modules"}, {}} : debroot' = debroot \cup new
        \/ debroot' = (debroot \cup {"dir"}) \ {"modules"}
        \/ \E x \in {"debs", "bad debs"} :
                debroot' = (debroot \ {"debs", "bad debs"}) \cup {x}
    BY Zenon DEF CopyFiles, CopyStep
  <2> QED BY Zenon, <2>1
<1>6. Bootstrapped' /\ Archived'
  BY Zenon, <1>0, <1>1, <1>2, TreeEarly DEF BuildInv
<1>7. DebsWhole' /\ Imaged'
  BY Zenon, <1>0, <1>2, <1>3, FilesKept DEF BuildInv
<1>8. Sound'
  BY Zenon, <1>0, <1>2, <1>3, <1>5, <1>7 DEF Sound, DebsWhole, BuildInv, Key
<1>9. Copied'
  <2>0. pc'["debroot"] = pc["debroot"]
    BY Zenon, <1>0, <1>2 DEF Key
  <2>1. CASE pc["copy-files"] = "conf" /\ pc'["copy-files"] = "editor" /\ "skel" \in debroot
    BY Zenon, <1>5, <2>1 DEF Copied
  <2>2. CASE pc["copy-files"] = "editor" /\ pc'["copy-files"] = "modules"
    BY Zenon, <1>2, <1>5, <2>0, <2>2 DEF BuildInv, Copied, Active, Past
  <2>3. CASE /\ pc["copy-files"] = "modules" /\ pc'["copy-files"] = "debs"
             /\ debroot' = debroot \cup {"dir", "modules"}
    BY Zenon, <1>2, <1>5, <2>0, <2>3 DEF BuildInv, Copied, Active, Past
  <2>4. CASE /\ pc["copy-files"] = "debs" /\ pc'["copy-files"] = "done"
             /\ "skel" \in debroot /\ \A a \in Debs : Exists(a)
             /\ debroot' = (debroot \ {"debs", "bad debs"}) \cup
                    {IF \A a \in Debs : art[a].whole THEN "debs" ELSE "bad debs"}
    <3>1. "torn" \notin mishap => \A a \in Debs : art[a].whole
      <4>1. \A a \in Debs : Exists(a) => art[a].there
        BY DEF Exists, Debs
      <4> QED BY Zenon, <2>4, <4>1 DEF BuildInv, Sound
    <3>2. "torn" \notin mishap => "debs" \in debroot'
      BY Zenon, <2>4, <3>1
    <3>3. "modules" \in debroot
      BY Zenon, <1>2, <2>4 DEF BuildInv, Copied, Past
    <3>4. "modules" \in debroot'
      BY Zenon, <2>4, <3>3
    <3> QED BY Zenon, <1>3, <1>5, <2>4, <3>2, <3>4 DEF Copied
  <2>5. CASE pc'["copy-files"] = "failed"
    BY Zenon, <2>5 DEF Copied, Past
  <2> QED BY Zenon, <1>4, <2>1, <2>2, <2>3, <2>4, <2>5
<1>10. TarballComplete' /\ ImageWhole'
  BY Zenon, <1>2 DEF TarballComplete, ImageWhole
<1> QED BY Zenon, <1>2, <1>6, <1>7, <1>8, <1>9, <1>10 DEF BuildInv

\* The bootstrap on the build machine: what its steps have in common.
LEMMA BootstrapBuild ==
  ASSUME TypeOK, MountInv, BuildInv, Active("qemu-install"),
         \E l, f : \/ Goto("qemu-install", l, f)
                   \/ Abort("qemu-install", f) /\ l = "failed",
         UNCHANGED <<art, tar>>, mishap \subseteq mishap',
         \A p \in {"dir", "skel", "base", "modules"} : p \in debroot <=> p \in debroot',
         Bootstrapped'
  PROVE  BuildInv'
<1>0. Key \subseteq Target /\ "qemu-install" \in Key /\ "boot.img" \in Target \ {"qemu-install"}
  BY DEF Key, Target, Art
<1>1. /\ ~Idle /\ ~Idle' /\ UNCHANGED qemu /\ Sequenced'
      /\ \A u \in Target \ {"qemu-install"} : pc'[u] = pc[u]
  BY Zenon, <1>0, RecipeStep DEF BuildInv
<1>2. qemu
  BY Zenon, <1>1 DEF BuildInv, Sequenced, Active
<1>3. Archived'
  <2>1. ~Begun("debroot.tar")
    BY Zenon, <1>0, <1>1, Order, NotBegun DEF Key, Active, BuildInv
  <2> QED BY Zenon, <1>0, <1>1, <2>1 DEF Archived, Begun, Key
<1>4. DebsWhole' /\ Imaged'
  <2>1. {"torn", "image"} \cap mishap \subseteq mishap'
    OBVIOUS
  <2> QED BY Zenon, <1>0, <1>1, <2>1, FilesKept DEF BuildInv
<1>5. Sound'
  BY Zenon, <1>0, <1>1, <1>4 DEF Sound, DebsWhole, BuildInv, Key
<1>6. Copied'
  <2>1. pc'["debroot"] = pc["debroot"] /\ pc'["copy-files"] = pc["copy-files"]
    BY Zenon, <1>0, <1>1 DEF Key
  <2> QED BY Zenon, <1>1, <1>2, <2>1 DEF Copied, BuildInv, Active
<1>7. TarballComplete' /\ ImageWhole'
  BY Zenon, <1>1 DEF TarballComplete, ImageWhole
<1> QED BY Zenon, <1>1, <1>3, <1>4, <1>5, <1>6, <1>7 DEF BuildInv

LEMMA QemuBuild ==
  ASSUME TypeOK, MountInv, BuildInv, QemuMount \/ QemuChroot \/ QemuUmount
  PROVE  BuildInv'
<1> USE DEF inputs, images, tree, host
<1>0. "qemu-install" \in Target
  BY DEF Target
<1>1. Active("qemu-install")
  BY Zenon DEF QemuMount, QemuChroot, Chain, QemuUmount, Active
<1>2. ~Idle
  BY Zenon, <1>0, <1>1, Running
<1>3. \A l, f : Goto("qemu-install", l, f) => pc'["qemu-install"] = l /\ UNCHANGED qemu
  BY Zenon, <1>0, PcAfter DEF Goto
<1>4. \A f : Abort("qemu-install", f) => pc'["qemu-install"] = "failed"
  BY Zenon, <1>0, PcAfter
<1>5. CASE QemuMount
  <2>1. /\ \E l, f : Goto("qemu-install", l, f) /\ l \in {"second stage", "umount, fail"}
        /\ UNCHANGED <<art, tar, debroot, mishap>>
    BY Zenon, <1>5 DEF QemuMount
  <2>2. Bootstrapped'
    BY Zenon, <1>3, <2>1 DEF Bootstrapped
  <2> QED BY Zenon, <1>1, <2>1, <2>2, BootstrapBuild
<1>6. CASE QemuUmount
  <2>1. /\ \E l, f : \/ Goto("qemu-install", l, f)
                     \/ Abort("qemu-install", f) /\ l = "failed"
        /\ UNCHANGED <<art, tar, debroot>> /\ mishap \subseteq mishap'
        /\ \/ pc["qemu-install"] = "umount, ok" /\ Goto("qemu-install", "done", FALSE)
           \/ Abort("qemu-install", TRUE)
    BY Zenon, <1>6 DEF QemuUmount
  <2>2. Bootstrapped'
    <3>1. "second" \in debroot \cup mishap => "second" \in debroot' \cup mishap'
      BY Zenon, <2>1
    <3> QED BY Zenon, <1>2, <1>3, <1>4, <2>1, <3>1 DEF Bootstrapped, BuildInv
  <2> QED BY Zenon, <1>1, <2>1, <2>2, BootstrapBuild
<1>7. CASE QemuChroot
  <2>1. /\ \E l, f : Goto("qemu-install", l, f)
        /\ UNCHANGED <<art, tar, qemu>> /\ mishap \subseteq mishap'
    BY Zenon, <1>7 DEF QemuChroot, Chain, Goto
  <2>2. \/ \E new \in {{"second"}, {"pkgs"}, {"user"}, {"sudo"}, {}} :
                debroot' = debroot \cup new
        \/ debroot' = debroot \ {"debs", "bad debs"}
    BY Zenon, <1>7 DEF QemuChroot, Chain
  <2>3. /\ \A p \in {"dir", "skel", "base", "modules"} : p \in debroot <=> p \in debroot'
        /\ \A p \in {"second", "pkgs", "user", "sudo"} : p \in debroot => p \in debroot'
    BY Zenon, <2>2
  <2>4. "second" \in debroot \cup mishap => "second" \in debroot' \cup mishap'
    BY Zenon, <2>1, <2>3
  <2>5. \/ pc'["qemu-install"] = "umount, fail"
        \/ /\ pc["qemu-install"] = "second stage" /\ pc'["qemu-install"] = "dpkg"
           /\ "second" \in debroot' \cup mishap'
        \/ /\ pc["qemu-install"] = "dpkg" /\ pc'["qemu-install"] = "rm debs"
           /\ "pkgs" \in debroot'
        \/ pc["qemu-install"] = "rm debs" /\ pc'["qemu-install"] = "adduser"
        \/ /\ pc["qemu-install"] = "adduser" /\ pc'["qemu-install"] = "sudo"
           /\ "user" \in debroot'
        \/ /\ pc["qemu-install"] = "sudo" /\ pc'["qemu-install"] = "umount, ok"
           /\ "sudo" \in debroot'
    BY Zenon, <1>3, <1>7 DEF QemuChroot, Chain
  <2>6. Bootstrapped'
    BY Zenon, <1>2, <2>1, <2>3, <2>4, <2>5 DEF Bootstrapped, BuildInv
  <2> QED BY Zenon, <1>1, <2>1, <2>3, <2>6, BootstrapBuild
<1> QED BY Zenon, <1>5, <1>6, <1>7

\* The archive is debroot at that moment, and nothing changes debroot later.
LEMMA TarBuild ==
  ASSUME TypeOK, MountInv, BuildInv, MakeTar
  PROVE  BuildInv'
<1> USE DEF inputs, images, tree, host
<1>0. Key \subseteq Target /\ "debroot.tar" \in Key /\ "boot.img" \in Target \ {"debroot.tar"}
  BY DEF Key, Target, Art
<1>1. Active("debroot.tar")
  BY Zenon DEF MakeTar, Active
<1>2. /\ ~Idle /\ ~Idle' /\ UNCHANGED qemu /\ Sequenced'
      /\ \A u \in Target \ {"debroot.tar"} : pc'[u] = pc[u]
  <2>1. \E l, f : Goto("debroot.tar", l, f) \/ (Abort("debroot.tar", f) /\ l = "failed")
    BY Zenon DEF MakeTar, TarFails
  <2> QED BY Zenon, <1>0, <1>1, <2>1, RecipeStep DEF BuildInv
<1>3. UNCHANGED <<art, debroot, mishap>>
  BY Zenon DEF MakeTar
<1>4. /\ pc'["debroot"] = pc["debroot"] /\ pc'["copy-files"] = pc["copy-files"]
      /\ pc'["qemu-install"] = pc["qemu-install"] /\ pc'["boot.img"] = pc["boot.img"]
  BY Zenon, <1>0, <1>2 DEF Key
<1>5. DebsWhole' /\ Imaged'
  BY Zenon, <1>2, <1>3, <1>4, FilesKept DEF BuildInv
<1>6. Sound'
  BY Zenon, <1>3, <1>4, <1>5 DEF Sound, DebsWhole, BuildInv
<1>7. Copied'
  BY Zenon, <1>2, <1>3, <1>4 DEF Copied, BuildInv, Active
<1>8. Bootstrapped'
  BY Zenon, <1>2, <1>3, <1>4 DEF Bootstrapped, BuildInv
<1>9. Archived'
  <2>1. CASE "dir" \notin debroot /\ tar' = NoTar
    <3>1. ~tar'.there
      BY SMTT(30), <2>1 DEF NoTar
    <3> QED BY Zenon, <1>3, <2>1, <3>1 DEF Archived
  <2>2. CASE /\ "dir" \in debroot
             /\ tar' = [there |-> TRUE, whole |-> TRUE,
                        parts |-> debroot \cup {h \in {"host"} : Mounted}]
    <3>1. tar'.there /\ tar'.whole /\ tar'.parts = debroot \cup {h \in {"host"} : Mounted}
      BY SMTT(30), <2>2
    <3>2. "host" \notin debroot
      BY Zenon DEF TypeOK, Part
    <3>3. (debroot \cup {h \in {"host"} : Mounted}) \ {"host"} = debroot
      BY SMTT(30), <3>2
    <3> QED BY Zenon, <1>3, <2>2, <3>1, <3>3 DEF Archived
  <2>3. CASE TarFails
    <3>1. pc'["debroot.tar"] = "failed"
      BY Zenon, <1>0, <2>3, PcAfter DEF TarFails
    <3> QED BY Zenon, <3>1 DEF Archived
  <2> QED BY Zenon, <2>1, <2>2, <2>3 DEF MakeTar
<1>10. TarballComplete' /\ ImageWhole'
  BY Zenon, <1>2 DEF TarballComplete, ImageWhole
<1> QED BY Zenon, <1>2, <1>5, <1>6, <1>7, <1>8, <1>9, <1>10 DEF BuildInv

\* A signal: what it cuts short is removed, or is one of the mishaps.
LEMMA SignalBuild ==
  ASSUME TypeOK, MountInv, BuildInv, NEW s, Signal(s)
  PROVE  BuildInv'
<1> USE DEF inputs, images, tree, host
<1>0. /\ Key \subseteq Target /\ Debs \subseteq Art /\ Art \subseteq Target
      /\ {"initrd.img", "boot.img"} \subseteq Art /\ {"initrd.img", "boot.img"} \cap Debs = {}
  BY SMTT(30) DEF Key, Target, Art, Debs
<1>1. ~Idle /\ ~Idle'
  BY Zenon, Running DEF Signal, Idle
<1>2. UNCHANGED <<debroot, qemu>> /\ mishap \subseteq mishap'
      /\ (pc["debroot"] \in {"first stage", "|| rm"} => "cut" \in mishap')
  BY Zenon DEF Signal
<1>3. \A t \in Target :
        pc'[t] = IF ~Active(t) THEN pc[t]
                 ELSE IF t = "qemu-install" /\ s = "INT" /\ pc[t] # "mount"
                      THEN "umount, fail" ELSE "failed"
  BY Zenon DEF Signal
<1>4. /\ \A t \in Target : pc'[t] = "done" <=> pc[t] = "done"
      /\ \A t \in Target : t # "qemu-install" => ~Active(t)'
      /\ \A t \in Target : Active(t)' => Active(t)
      /\ pc'["qemu-install"] \in {pc["qemu-install"], "umount, fail", "failed"}
  BY Zenon, <1>0, <1>3 DEF Active, Key
<1>5. PICK hit \in SUBSET {a \in Art : Active(a)} :
        /\ \A a \in Art : art'[a] = IF a \in hit THEN Remnant(a, s) ELSE art[a]
        /\ s = "KILL" /\ hit \cap Debs # {} => "torn" \in mishap'
        /\ s = "KILL" /\ ~(hit \subseteq Debs) => "image" \in mishap'
  BY Zenon DEF Signal
<1>6. s # "KILL" => \A a \in Art : ~Remnant(a, s).there
  <2>1. ~Absent.there
    BY DEF Absent
  <2> QED BY Zenon, <2>1 DEF Remnant
<1>7. Sequenced'
  <2>1. \A v \in Target : Begun(v)' => Begun(v)
    BY Zenon, <1>2, <1>4 DEF Begun
  <2> QED BY Zenon, <1>1, <1>2, <1>4, <2>1, SequencedStep DEF BuildInv
<1>8. DebsWhole'
  <2> SUFFICES ASSUME "torn" \notin mishap', NEW a \in Debs, art'[a].there
               PROVE  art'[a].whole
    BY Zenon DEF DebsWhole
  <2>1. a \notin hit
    BY Zenon, <1>0, <1>5, <1>6
  <2> QED BY Zenon, <1>0, <1>2, <1>5, <2>1 DEF BuildInv, Sound
<1>9. Imaged'
  <2>1. ASSUME "image" \notin mishap', NEW a \in {"initrd.img", "boot.img"}, art'[a].there
        PROVE  art'[a].whole
    <3>1. a \notin hit
      BY Zenon, <1>0, <1>5, <1>6, <2>1
    <3> QED BY Zenon, <1>0, <1>2, <1>5, <2>1, <3>1 DEF BuildInv, Imaged
  <2>2. ASSUME pc'["boot.img"] = "done" PROVE art'["boot.img"].there
    <3>1. pc["boot.img"] = "done" /\ "boot.img" \notin hit
      BY Zenon, <1>0, <1>4, <1>5, <2>2 DEF Active
    <3> QED BY Zenon, <1>0, <1>1, <1>5, <3>1 DEF BuildInv, Imaged
  <2> QED BY Zenon, <2>1, <2>2 DEF Imaged
<1>10. Sound'
  BY Zenon, <1>2, <1>8 DEF Sound, DebsWhole, BuildInv
<1>11. Copied'
  <2>1. /\ pc'["copy-files"] \in Past => pc["copy-files"] = "done" /\ pc'["copy-files"] = "done"
        /\ ~Active("debroot")'
    <3>1. "copy-files" \in Target /\ "debroot" \in Target
      BY Zenon, <1>0 DEF Key
    <3>2. ~Active("debroot")' /\ ~Active("copy-files")'
      BY Zenon, <1>4, <3>1
    <3> QED BY Zenon, <1>4, <3>1, <3>2 DEF Past, Active
  <2>2. "torn" \in mishap => "torn" \in mishap'
    BY Zenon, <1>2
  <2> QED BY Zenon, <1>1, <1>2, <2>1, <2>2 DEF Copied, BuildInv, Past
<1>12. Bootstrapped'
  <2>1. "second" \in debroot \cup mishap => "second" \in debroot' \cup mishap'
    BY Zenon, <1>2
  <2> QED BY Zenon, <1>1, <1>2, <1>4, <2>1 DEF Bootstrapped, BuildInv
<1>13. Archived'
  <2> SUFFICES ASSUME pc'["debroot.tar"] = "done" PROVE Archived'
    BY Zenon DEF Archived
  <2>1. pc["debroot.tar"] = "done"
    BY Zenon, <1>0, <1>4 DEF Key
  <2>2. tar' = tar
    BY Zenon, <2>1 DEF Signal, Active
  <2> QED BY Zenon, <1>1, <1>2, <2>1, <2>2 DEF Archived, BuildInv
<1>14. TarballComplete' /\ ImageWhole'
  BY Zenon, <1>1 DEF TarballComplete, ImageWhole
<1> QED BY Zenon, <1>7, <1>9, <1>10, <1>11, <1>12, <1>13, <1>14 DEF BuildInv

\* Between two invocations nothing is said of the recipes.
LEMMA IdleBuild ==
  ASSUME Idle', Sound', Imaged', TarballComplete', ImageWhole'
  PROVE  BuildInv'
  BY Zenon DEF BuildInv, Sequenced, Copied, Bootstrapped, Archived

\* With every recipe done, the archive is debroot, and debroot holds what the
\* recipes put there.
LEMMA AllMade ==
  ASSUME MountInv, BuildInv, ~Idle, \A k \in Key : pc[k] = "done"
  PROVE  {"cut", "torn"} \cap mishap = {} =>
           /\ Jobs = 1 => tar.there
           /\ tar.there => /\ tar.whole
                           /\ {"base", "conf", "modules"} \subseteq tar.parts
                           /\ IF qemu THEN ({"second"} \ mishap) \cup {"pkgs", "user", "sudo"}
                                               \subseteq tar.parts
                                      ELSE "debs" \in tar.parts
<1> SUFFICES ASSUME {"cut", "torn"} \cap mishap = {}
             PROVE  /\ Jobs = 1 => tar.there
                    /\ tar.there =>
                         /\ tar.whole
                         /\ {"base", "conf", "modules"} \subseteq tar.parts
                         /\ qemu => ({"second"} \ mishap) \cup {"pkgs", "user", "sudo"}
                                        \subseteq tar.parts
                         /\ ~qemu => "debs" \in tar.parts
  BY Zenon
<1>0. "cut" \notin mishap /\ "torn" \notin mishap
  BY Zenon
<1>1. /\ tar.there <=> "dir" \in debroot
      /\ tar.there => tar.whole /\ tar.parts \ {"host"} = debroot
  BY Zenon DEF BuildInv, Archived, Key
<1>2. Jobs = 1 => tar.there
  BY Zenon, <1>1 DEF BuildInv, Copied, Past, Key, MountInv, Guarded
<1>3. ASSUME tar.there
      PROVE  /\ {"base", "conf", "modules"} \subseteq tar.parts
             /\ qemu => ({"second"} \ mishap) \cup {"pkgs", "user", "sudo"} \subseteq tar.parts
             /\ ~qemu => "debs" \in tar.parts
  <2>1. debroot \subseteq tar.parts
    BY SMTT(30), <1>1, <1>3
  <2>2. "skel" \in debroot /\ "modules" \in debroot /\ (~qemu => "debs" \in debroot)
    BY Zenon, <1>0, <1>1, <1>3 DEF BuildInv, Copied, Past, Key
  <2>3. "base" \in debroot /\ "conf" \in debroot
    BY Zenon, <1>0, <2>2 DEF BuildInv, Sound, MountInv, Accepted, Past, Key
  <2>4. qemu => /\ "second" \in debroot \cup mishap
                /\ {"pkgs", "user", "sudo"} \subseteq debroot
    BY Zenon DEF BuildInv, Bootstrapped, Key
  <2> QED BY SMTT(30), <2>1, <2>2, <2>3, <2>4
<1> QED BY Zenon, <1>1, <1>2, <1>3

\* A make that succeeds has made every target.
LEMMA ExitBuild ==
  ASSUME TypeOK, MountInv, BuildInv, MakeExit
  PROVE  BuildInv'
<1> USE DEF inputs, images, tree, host
<1>0. Key \subseteq Target /\ "boot.img" \in Target
  BY DEF Key, Target, Art
<1>1. /\ ~Idle /\ Idle' /\ UNCHANGED <<art, debroot, tar, mishap, pc, qemu>>
      /\ result' = "ok" => \A t \in Target : pc[t] = "done"
  BY Zenon DEF MakeExit, Idle
<1>2. Sound' /\ Imaged'
  BY Zenon, <1>1 DEF BuildInv, Sound, Imaged
<1>3. ImageWhole'
  BY Zenon, <1>0, <1>1 DEF BuildInv, Imaged, ImageWhole
<1>4. TarballComplete'
  BY Zenon, <1>0, <1>1, AllMade DEF TarballComplete
<1> QED BY Zenon, <1>1, <1>2, <1>3, <1>4, IdleBuild

\* What the user does between two invocations.
LEMMA UserBuild ==
  ASSUME TypeOK, MountInv, BuildInv, User
  PROVE  BuildInv'
<1> USE DEF inputs, images, tree, host, make
<1>0. /\ Key \subseteq Target /\ "boot.img" \in Target /\ "qemu-install" \in Target
      /\ Debs \subseteq Art /\ {"initrd.img", "boot.img"} \subseteq Art
      /\ {"initrd.img", "boot.img"} \cap Debs = {}
  BY DEF Key, Target, Art, Debs
<1>1. ASSUME NEW g \in {"all", "install-to-device"}, NEW q \in QemuModes, StartMake(g, q)
      PROVE  BuildInv'
  <2>1. /\ Idle /\ ~Idle' /\ qemu' = q /\ UNCHANGED <<art, debroot, tar, mishap>>
        /\ \A t \in Target : pc'[t] = IF t \in Needed(g, q) THEN "todo" ELSE "done"
    BY Zenon, <1>1 DEF StartMake, Idle
  <2>2. /\ \A k \in Key \cup {"boot.img"} : pc'[k] = "todo" \/ (k = "qemu-install" /\ ~q)
        /\ ~q => pc'["qemu-install"] = "done"
        /\ \A t \in Target : ~Begun(t)'
    <3>1. \A t \in Target : ~Active(t)'
      BY Zenon, <2>1 DEF Active
    <3> QED BY Zenon, <1>0, <2>1, <3>1 DEF Needed, Key, Begun
  <2>3. ~Active("debroot")
    BY Zenon, <1>0, <2>1 DEF MountInv, Ordered, Key
  <2>4. /\ pc'["debroot"] = "todo" /\ pc'["copy-files"] = "todo" /\ pc'["boot.img"] = "todo"
        /\ pc'["debroot.tar"] = "todo" /\ (q => pc'["qemu-install"] = "todo")
    BY SMTT(30), <2>2 DEF Key
  <2>5. Sequenced' /\ Archived'
    BY Zenon, <2>1, <2>2, <2>4 DEF Sequenced, Archived
  <2>6. Bootstrapped' /\ Copied'
    BY Zenon, <2>1, <2>4 DEF Bootstrapped, Copied, Past
  <2>7. Sound' /\ Imaged'
    BY Zenon, <2>1, <2>3, <2>4 DEF BuildInv, Sound, Imaged, Active
  <2>8. TarballComplete' /\ ImageWhole'
    BY Zenon, <2>1 DEF TarballComplete, ImageWhole
  <2> QED BY Zenon, <2>7, <2>8, <2>5, <2>6 DEF BuildInv
<1>2. ASSUME NEW p \in Pkg, Package(p) PROVE BuildInv'
  <2>1. /\ Idle /\ Idle' /\ UNCHANGED <<debroot, tar, mishap, pc, qemu, result>>
        /\ art' = [art EXCEPT ![Deb[p]] = Built(Deb[p], TRUE)]
    BY Zenon, <1>2 DEF Package, Write, Idle
  <2>2. Deb[p] \in Debs
    BY DEF Deb, Debs, Pkg
  <2>3. Built(Deb[p], TRUE).whole
    BY Zenon, BuiltWhole
  <2>4. art'[Deb[p]].whole /\ \A a \in Art \ {Deb[p]} : art'[a] = art[a]
    <3>1. Deb[p] \in Art
      BY Zenon, <1>0, <2>2
    <3>2. /\ art'[Deb[p]] = Built(Deb[p], TRUE)
          /\ \A a \in Art \ {Deb[p]} : art'[a] = art[a]
      BY Zenon, <2>1, <3>1 DEF TypeOK
    <3> QED BY Zenon, <2>3, <3>2
  <2>5. Sound'
    BY Zenon, <1>0, <2>1, <2>4 DEF BuildInv, Sound
  <2>6. \A a \in {"initrd.img", "boot.img"} : art'[a] = art[a]
    BY Zenon, <1>0, <2>2, <2>4
  <2>7. Imaged' /\ TarballComplete' /\ ImageWhole'
    BY Zenon, <2>1, <2>6 DEF BuildInv, Imaged, TarballComplete, ImageWhole
  <2> QED BY Zenon, <2>1, <2>5, <2>7, IdleBuild
<1>3. CASE Reboot \/ \E d \in EditDirs, e \in BOOLEAN : Edit(d, e)
  <2>1. Idle /\ Idle' /\ UNCHANGED <<art, debroot, tar, mishap, pc, qemu, result>>
    BY Zenon, <1>3 DEF Reboot, Edit, Idle
  <2>2. Sound' /\ Imaged' /\ TarballComplete' /\ ImageWhole'
    BY Zenon, <2>1 DEF BuildInv, Sound, Imaged, TarballComplete, ImageWhole
  <2> QED BY Zenon, <2>1, <2>2, IdleBuild
<1>4. CASE Clean
  <2>1. /\ Idle' /\ result' = "none" /\ "skel" \notin debroot'
        /\ \A a \in Art : ~art'[a].there
    <3>1. ~Absent.there
      BY DEF Absent
    <3> QED BY Zenon, <1>4, <3>1 DEF Clean, RmDebroot, Idle
  <2>2. Sound' /\ Imaged' /\ TarballComplete' /\ ImageWhole'
    BY Zenon, <1>0, <2>1 DEF Sound, Imaged, TarballComplete, ImageWhole
  <2> QED BY Zenon, <2>1, <2>2, IdleBuild
<1> QED BY Zenon, <1>1, <1>2, <1>3, <1>4 DEF User

LEMMA BuildInit == Init => BuildInv
<1> SUFFICES ASSUME Init PROVE BuildInv
  OBVIOUS
<1>1. Idle /\ debroot = {} /\ result = "none" /\ \A a \in Art : ~art[a].there
  BY DEF Init, Idle, Absent
<1>2. Debs \subseteq Art /\ {"initrd.img", "boot.img"} \subseteq Art
  BY DEF Art
<1> QED BY Zenon, <1>1, <1>2 DEF BuildInv, Sequenced, Sound, Copied, Bootstrapped,
         Archived, Imaged, TarballComplete, ImageWhole

LEMMA BuildStep == TypeOK /\ MountInv /\ BuildInv /\ [Next]_vars => BuildInv'
<1> SUFFICES ASSUME TypeOK, MountInv, BuildInv, [Next]_vars PROVE BuildInv'
  OBVIOUS
<1>1. CASE Recipe
  BY Zenon, <1>1, FilesBuild, DebrootBuild, CopyBuild, QemuBuild, TarBuild DEF Recipe, Local
<1>2. CASE UNCHANGED vars
  <2>1. UNCHANGED <<art, debroot, tar, mishap, phase, qemu, pc, result>>
    BY Zenon, <1>2 DEF vars, inputs, images, tree, host, make
  <2>2. /\ Idle' <=> Idle
        /\ \A t : Active(t)' <=> Active(t)
        /\ \A t : Begun(t)' <=> Begun(t)
        /\ \A t : Before(t)' = Before(t)
    BY Zenon, <2>1 DEF Idle, Active, Begun, Before
  <2>3. Sequenced' /\ Sound' /\ Imaged'
    BY Zenon, <2>1, <2>2 DEF BuildInv, Sequenced, Sound, Imaged
  <2>4. Copied' /\ Bootstrapped' /\ Archived'
    BY Zenon, <2>1, <2>2 DEF BuildInv, Copied, Bootstrapped, Archived
  <2>5. TarballComplete' /\ ImageWhole'
    BY Zenon, <2>1, <2>2 DEF BuildInv, TarballComplete, ImageWhole
  <2> QED BY Zenon, <2>3, <2>4, <2>5 DEF BuildInv
<1> QED BY Zenon, <1>1, <1>2, NoRuleBuild, VisitBuild, ExitBuild, UserBuild, SignalBuild
         DEF Next, Make

\* The strengthened invariant: types, mounts, and what each recipe has made.
LEMMA BuildInvariant == Spec => [](TypeOK /\ MountInv /\ BuildInv)
  BY TypeInit, TypeStep, MountInit, MountStep, BuildInit, BuildStep, PTL DEF Spec

\* When make succeeds, what there is of debroot.tar holds all that the
\* recipes of debroot, copy-files and qemu-install put there, and a serial
\* make has it, for every number of jobs, set of tools and order of failures,
\* signals and repeated builds, but for an interrupted debootstrap or a
\* broken-off download.
THEOREM ArchiveComplete == Spec => []TarballComplete
<1>1. BuildInv => TarballComplete
  BY Zenon DEF BuildInv
<1> QED BY <1>1, BuildInvariant, PTL

\* When make succeeds, boot.img is there and whole, unless a program failed
\* or was killed while it wrote an image.
THEOREM BootImageWhole == Spec => []ImageWhole
<1>1. BuildInv => ImageWhole
  BY Zenon DEF BuildInv
<1> QED BY <1>1, BuildInvariant, PTL

\* What a serial install-to-device pushes is debroot as it stands.
THEOREM NoStaleTar == Spec => []PushedTarIsCurrent
<1>1. TypeOK /\ MountInv /\ BuildInv => PushedTarIsCurrent
  <2> SUFFICES ASSUME TypeOK, MountInv, BuildInv, Jobs = 1,
                      pc["install-to-device"] = "run"
               PROVE  tar.there /\ tar.whole /\ tar.parts \ {"host"} = debroot
    BY Zenon DEF PushedTarIsCurrent
  <2>0. Key \subseteq Target /\ "install-to-device" \in Target
    BY DEF Key, Target
  <2>1. ~Idle /\ Begun("install-to-device")
    BY Zenon, <2>0, Running DEF Begun, Active
  <2>2. Key \subseteq Before("install-to-device")
    <3>1. \A k \in Key : Pos[k] < Pos["install-to-device"]
      BY DEF Pos, Key, Target
    <3> QED BY Zenon, <2>0, <3>1 DEF Before
  <2>3. \A k \in Key : pc[k] = "done"
    BY Zenon, <2>0, <2>1, <2>2 DEF BuildInv, Sequenced
  <2>4. "dir" \in debroot
    BY Zenon, <2>1, <2>3 DEF BuildInv, Copied, Past, Key, MountInv, Guarded
  <2> QED BY Zenon, <2>1, <2>3, <2>4 DEF BuildInv, Archived, Key
<1> QED BY <1>1, BuildInvariant, PTL
=============================================================================
