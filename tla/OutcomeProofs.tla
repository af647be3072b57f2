--------------------------- MODULE OutcomeProofs ----------------------------
(***************************************************************************)
(* How an invocation of make ends: why a serial one can fail although none *)
(* of its programs does; when it succeeds, that what it found up to date   *)
(* is up to date, through any mix of edits, failures, signals and repeated *)
(* builds; that every step brings it nearer to its end, and none is ever   *)
(* missing; and that it succeeds once, and only with the sources.          *)
(***************************************************************************)
EXTENDS BuildProofs, FiniteSetTheorems

Reason == "conf" \in debroot \/ mishap # {} \/ ~(Pkg \subseteq sources)

\* The debroot that make finds, or has made, is one with a skeleton, unless
\* something was left behind; a failed debootstrap is a failing program.
Rooted ==
    /\ {"cut", "leak"} \cap mishap = {} /\ "dir" \in debroot /\ ~Active("debroot")
          => "skel" \in debroot
    /\ pc["debroot"] \in {"todo", "done", "failed", "rm", "debootstrap", "first stage", "|| rm"}
    /\ pc["debroot"] \in {"rm", "debootstrap"} => "dir" \notin debroot
    /\ ~Idle /\ pc["debroot"] = "done" /\ ~fault => "dir" \in debroot
    /\ ~Idle /\ pc["debroot"] = "|| rm" => fault

Stopped == phase = "failing" /\ ~fault => Reason /\ \A t \in Target : ~Active(t)

Explained == Rooted /\ Stopped /\ FailureExplained
-----------------------------------------------------------------------------
\* With one job slot, make works on one target at a time.
LEMMA OneActive ==
  ASSUME Jobs = 1, BuildInv, ~Idle, NEW t \in Target, pc[t] # "done",
         \A u \in Target : Pos[u] < Pos[t] => pc[u] = "done"
  PROVE  \A u \in Target \ {t} : ~Active(u)
<1> SUFFICES ASSUME NEW u \in Target \ {t}, Active(u) PROVE FALSE
  BY Zenon
<1>1. pc[u] # "done" /\ Begun(u)
  BY Zenon DEF Active, Begun
<1>2. ~(Pos[u] < Pos[t]) /\ ~(Pos[t] < Pos[u])
  BY Zenon, <1>1 DEF BuildInv, Sequenced, Before
<1>3. \A x, y \in Target : Pos[x] = Pos[y] => x = y
  BY DEF Pos, Target, Art, Debs
<1>4. Pos[u] \in Nat /\ Pos[t] \in Nat
  BY DEF Pos, Target, Art, Debs
<1> QED BY SMTT(30), <1>2, <1>3, <1>4

LEMMA Alone ==
  ASSUME Jobs = 1, BuildInv, ~Idle, NEW t \in Target, Active(t)
  PROVE  \A u \in Target \ {t} : ~Active(u)
<1>1. pc[t] # "done" /\ \A u \in Target : Pos[u] < Pos[t] => pc[u] = "done"
  BY Zenon DEF Active, Begun, BuildInv, Sequenced, Before
<1> QED BY Zenon, <1>1, OneActive

\* A recipe that goes on, or fails because a program of its own does.
LEMMA RecipeExplained ==
  ASSUME TypeOK, MountInv, Explained, NEW t \in Target, Active(t),
         \/ \E l, f : Goto(t, l, f) /\ f \in BOOLEAN
         \/ Abort(t, TRUE),
         Rooted'
  PROVE  Explained'
<1>1. ~Idle
  BY Zenon, Running
<1>2. fault \/ phase # "failing"
  BY Zenon DEF Explained, Stopped
<1>3. ~Idle' /\ (fault' \/ phase' # "failing")
  BY Zenon, <1>1, <1>2, PcAfter DEF Goto, Abort
<1> QED BY Zenon, <1>3 DEF Explained, Stopped, FailureExplained

\* What does not concern debroot.
LEMMA RootedFrame ==
  ASSUME Rooted, ~Idle, pc'["debroot"] = pc["debroot"], fault => fault',
         UNCHANGED debroot, {"cut", "leak"} \cap mishap \subseteq mishap'
  PROVE  Rooted'
<1>1. {"cut", "leak"} \cap mishap' = {} => {"cut", "leak"} \cap mishap = {}
  BY Zenon
<1> QED BY Zenon, <1>1 DEF Rooted, Active

\* The recipes that leave debroot alone.
LEMMA FilesExplained ==
  ASSUME TypeOK, MountInv, Explained,
         \/ CheckPackages \/ CheckTools \/ PackInitrd \/ MakeBootImg
         \/ \E a \in Debs : BuildDeb(a)
         \/ QemuMount \/ QemuUmount \/ MakeTar \/ AllDone \/ Install
  PROVE  Explained'
<1> USE DEF inputs, images, tree, host
<1>0. /\ {"check", "initrd.img", "boot.img", "qemu-install", "debroot.tar", "all",
         "install-to-device"} \subseteq Target \ {"debroot"}
      /\ Debs \subseteq Target \ {"debroot"} /\ "debroot" \in Target
  BY DEF Target, Art, Debs
<1>1. PICK t \in Target \ {"debroot"} :
        Active(t) /\ ((\E l, f : Goto(t, l, f) /\ f \in BOOLEAN) \/ Abort(t, TRUE))
  <2>1. CASE CheckPackages
    <3>1. \A got : (got # PREBUILT) \in BOOLEAN
      BY Zenon
    <3> QED BY Zenon, <1>0, <2>1, <3>1 DEF CheckPackages, Fetch, Active
  <2>2. CASE CheckTools
    BY Zenon, <1>0, <2>2 DEF CheckTools, Active
  <2>3. CASE PackInitrd \/ MakeBootImg \/ \E a \in Debs : BuildDeb(a)
    BY Zenon, <1>0, <2>3 DEF PackInitrd, MakeBootImg, BuildDeb, Active
  <2>4. CASE QemuMount \/ QemuUmount
    BY Zenon, <1>0, <2>4 DEF QemuMount, QemuUmount, Active
  <2>5. CASE MakeTar \/ AllDone \/ Install
    BY Zenon, <1>0, <2>5 DEF MakeTar, TarFails, AllDone, Install, Active
  <2> QED BY Zenon, <2>1, <2>2, <2>3, <2>4, <2>5
<1>2. ~Idle /\ pc'["debroot"] = pc["debroot"] /\ (fault => fault')
  BY Zenon, <1>0, <1>1, Running, PcAfter DEF Goto, Abort
<1>3. UNCHANGED debroot /\ {"cut", "leak"} \cap mishap \subseteq mishap'
  <2>1. CASE CheckPackages
    BY Zenon, <2>1 DEF CheckPackages, Fetch
  <2>2. CASE PackInitrd \/ MakeBootImg
    <3>1. UNCHANGED mishap \/ \E a, w : WriteImage(a, w)
      BY Zenon, <2>2 DEF PackInitrd, MakeBootImg
    <3>2. {"cut", "leak"} \cap mishap \subseteq mishap'
      BY SMTT(30), <3>1 DEF WriteImage
    <3> QED BY Zenon, <2>2, <3>2 DEF PackInitrd, MakeBootImg
  <2>3. CASE CheckTools \/ (\E a \in Debs : BuildDeb(a)) \/ AllDone \/ Install
    BY Zenon, <2>3 DEF CheckTools, BuildDeb, AllDone, Install
  <2>4. CASE QemuMount \/ QemuUmount \/ MakeTar
    BY Zenon, <2>4 DEF QemuMount, QemuUmount, MakeTar
  <2> QED BY Zenon, <2>1, <2>2, <2>3, <2>4
<1>4. Rooted'
  BY Zenon, <1>2, <1>3, RootedFrame DEF Explained
<1> QED BY Zenon, <1>1, <1>4, RecipeExplained

\* The recipe of debroot.
LEMMA DebrootExplained ==
  ASSUME TypeOK, MountInv, Explained, Debootstrap
  PROVE  Explained'
<1> USE DEF inputs, images, tree, host
<1>0. "debroot" \in Target
  BY DEF Target
<1>1. Active("debroot") /\ ~Mounted
  BY Zenon DEF Debootstrap, DebrootStep, Active, MountInv, Accepted
<1>2. \E l, f : Goto("debroot", l, f) /\ f \in BOOLEAN
  BY Zenon, <1>1 DEF Debootstrap, DebrootStep
<1>3. ~Idle
  BY Zenon, <1>0, <1>1, Running
<1>4. \/ pc'["debroot"] = "debootstrap" /\ debroot' = {}
      \/ pc'["debroot"] = "first stage"
      \/ pc'["debroot"] = "done" /\ {"dir", "skel"} \subseteq debroot'
      \/ pc'["debroot"] = "|| rm" /\ fault'
      \/ pc'["debroot"] = "done" /\ debroot' = {} /\ fault'
  <2>1. \A l, f : Goto("debroot", l, f) => pc'["debroot"] = l /\ fault' = (fault \/ f)
    BY Zenon, <1>0, PcAfter DEF Goto
  <2> QED BY Zenon, <1>1, <1>3, <2>1 DEF Debootstrap, DebrootStep, RmDebroot, Explained, Rooted
<1>5. Rooted'
  BY Zenon, <1>4 DEF Rooted, Active
<1> QED BY Zenon, <1>0, <1>1, <1>2, <1>5, RecipeExplained

\* copy-files: where make stops although no program failed.  The tree has no
\* skeleton only when something was left behind.
LEMMA CopyExplained ==
  ASSUME Jobs = 1, TypeOK, MountInv, BuildInv, Explained, CopyFiles
  PROVE  Explained'
<1> USE DEF inputs, images, tree, host
<1>0. "copy-files" \in Target /\ "debroot" \in Target \ {"copy-files"}
  BY DEF Target
<1>1. Active("copy-files")
  BY Zenon DEF CopyFiles, CopyStep, Active
<1>2. ~Idle /\ pc["debroot"] = "done"
  <2>1. ~Idle
    BY Zenon, <1>0, <1>1, Running
  <2> QED BY Zenon, <1>0, <1>1, <2>1, Order DEF BuildInv, Sequenced, Begun
<1>3. \/ \E l, f : Goto("copy-files", l, f) /\ f \in BOOLEAN
      \/ Abort("copy-files", TRUE)
      \/ Abort("copy-files", FALSE) /\ ~ConfWritable /\ UNCHANGED debroot
  BY Zenon DEF CopyFiles, CopyStep
<1>4. UNCHANGED <<sources, mishap>> /\ pc'["debroot"] = "done" /\ (fault => fault')
  BY Zenon, <1>0, <1>2, <1>3, PcAfter DEF CopyFiles, Goto, Abort
<1>5. /\ "dir" \in debroot => "dir" \in debroot'
      /\ "skel" \in debroot <=> "skel" \in debroot'
      /\ "dir" \in debroot' => "dir" \in debroot \/ "skel" \in debroot
  <2>1. pc["copy-files"] = "modules" => "skel" \in debroot
    BY Zenon, <1>2 DEF BuildInv, Copied, Past
  <2>2. \/ \E new \in {{"conf"}, {}} : debroot' = debroot \cup new
        \/ pc["copy-files"] = "modules" /\ debroot' = debroot \cup {"dir", "modules"}
        \/ pc["copy-files"] = "modules" /\ debroot' = (debroot \cup {"dir"}) \ {"modules"}
        \/ \E x \in {"debs", "bad debs"} :
                debroot' = (debroot \ {"debs", "bad debs"}) \cup {x}
    BY Zenon DEF CopyFiles, CopyStep
  <2> QED BY Zenon, <2>1, <2>2
<1>6. Rooted'
  BY Zenon, <1>2, <1>4, <1>5 DEF Explained, Rooted, Active
<1>7. CASE Abort("copy-files", FALSE) /\ ~ConfWritable /\ UNCHANGED debroot
  <2>1. ~Idle' /\ (fault' => fault)
    BY Zenon, <1>0, <1>2, <1>7, PcAfter DEF Abort
  <2>2. \A u \in Target : ~Active(u)'
    <3>1. \A u \in Target \ {"copy-files"} : ~Active(u)
      BY Zenon, <1>0, <1>1, <1>2, Alone
    <3>2. pc'["copy-files"] = "failed" /\ \A u \in Target \ {"copy-files"} : pc'[u] = pc[u]
      BY Zenon, <1>0, <1>7, PcAfter
    <3> QED BY Zenon, <3>1, <3>2 DEF Active
  <2>3. ~fault => Reason'
    <3>1. ~fault => "conf" \in debroot \/ mishap # {}
      <4>1. ~fault => "dir" \in debroot
        BY Zenon, <1>2 DEF Explained, Rooted
      <4>2. "conf" \in debroot \/ "skel" \notin debroot
        BY Zenon, <1>7 DEF ConfWritable
      <4>3. ~Active("debroot")
        BY Zenon, <1>2 DEF Active
      <4>4. mishap = {} => {"cut", "leak"} \cap mishap = {}
        BY SMTT(30)
      <4> QED BY Zenon, <4>1, <4>2, <4>3, <4>4 DEF Explained, Rooted
    <3> QED BY Zenon, <1>4, <1>7, <3>1 DEF Reason
  <2> QED BY Zenon, <1>4, <1>6, <2>1, <2>2, <2>3 DEF Explained, Stopped, FailureExplained
<1> QED BY Zenon, <1>0, <1>1, <1>3, <1>6, <1>7, RecipeExplained

LEMMA ChrootExplained ==
  ASSUME TypeOK, MountInv, Explained, QemuChroot
  PROVE  Explained'
<1> USE DEF inputs, images, tree, host
<1>0. "qemu-install" \in Target /\ "debroot" \in Target \ {"qemu-install"}
  BY DEF Target
<1>1. Active("qemu-install") /\ \E l, f : Goto("qemu-install", l, f) /\ f \in BOOLEAN
  BY Zenon DEF QemuChroot, Chain, Active
<1>2. ~Idle /\ pc'["debroot"] = pc["debroot"] /\ (fault => fault') /\ mishap \subseteq mishap'
  <2>1. mishap \subseteq mishap'
    BY Zenon DEF QemuChroot
  <2> QED BY Zenon, <1>0, <1>1, <2>1, Running, PcAfter DEF Goto
<1>3. /\ "dir" \in debroot <=> "dir" \in debroot'
      /\ "skel" \in debroot <=> "skel" \in debroot'
  <2>1. \/ \E new \in {{"second"}, {"pkgs"}, {"user"}, {"sudo"}, {}} :
                debroot' = debroot \cup new
        \/ debroot' = debroot \ {"debs", "bad debs"}
    BY Zenon DEF QemuChroot, Chain
  <2> QED BY Zenon, <2>1
<1>4. {"cut", "leak"} \cap mishap' = {} => {"cut", "leak"} \cap mishap = {}
  BY SMTT(30), <1>2
<1>5. Rooted'
  BY Zenon, <1>2, <1>3, <1>4 DEF Explained, Rooted, Active
<1> QED BY Zenon, <1>0, <1>1, <1>5, RecipeExplained

\* make's own steps: a package whose source was not cloned stops it.
LEMMA WalkExplained ==
  ASSUME Jobs = 1, TypeOK, MountInv, BuildInv, Explained, NEW t \in Target,
         NoRule(t) \/ Visit(t)
  PROVE  Explained'
<1> USE DEF inputs, images, tree, host
<1>0. "debroot" \in Target
  BY DEF Target
<1>1. /\ ~Idle /\ phase = "run" /\ pc[t] = "todo"
      /\ UNCHANGED <<sources, debroot, mishap>>
  BY Zenon DEF NoRule, Visit, Ready, Idle
<1>2. /\ ~Idle' /\ (fault => fault')
      /\ \A u \in Target \ {t} : pc'[u] = pc[u]
  BY Zenon, <1>1, PcAfter DEF NoRule, Visit, Goto, Abort
<1>3. CASE NoRule(t)
  <2>1. t # "debroot"
    <3>1. SrcOf["debroot"] = {}
      BY DEF SrcOf, Target
    <3> QED BY SMTT(30), <1>3, <3>1 DEF NoRule
  <2>2. Rooted'
    BY Zenon, <1>0, <1>1, <1>2, <2>1, RootedFrame DEF Explained
  <2>3. \A u \in Target : ~Active(u)'
    <3>1. \A u \in Target \ {t} : ~Active(u)
      BY Zenon, <1>1, <1>3, OneActive DEF NoRule, Ready
    <3>2. pc'[t] = "failed"
      BY Zenon, <1>3, PcAfter DEF NoRule
    <3> QED BY Zenon, <1>2, <3>1, <3>2 DEF Active
  <2>4. ~fault' => Reason'
    <3>1. ~fault' => "zImage" \notin SrcOf[t]
      BY Zenon, <1>3 DEF NoRule, Abort
    <3>2. "zImage" \notin SrcOf[t] => SrcOf[t] \subseteq Pkg
      BY DEF SrcOf, Pkg
    <3>3. "zImage" \notin SrcOf[t] => ~(Pkg \subseteq sources)
      BY Zenon, <1>3, <3>2 DEF NoRule
    <3> QED BY Zenon, <1>1, <3>1, <3>3 DEF Reason
  <2> QED BY Zenon, <1>2, <2>2, <2>3, <2>4 DEF Explained, Stopped, FailureExplained
<1>4. CASE Visit(t)
  <2>1. Rooted'
    <3>1. CASE t # "debroot"
      BY Zenon, <1>0, <1>1, <1>2, <3>1, RootedFrame DEF Explained
    <3>2. CASE t = "debroot"
      <4>1. pc'["debroot"] = IF OutOfDate("debroot") THEN FirstStep["debroot"] ELSE "done"
        BY Zenon, <1>4, <3>2, PcAfter DEF Visit
      <4>2. /\ pc'["debroot"] \in {"rm", "done"}
            /\ pc'["debroot"] = "rm" <=> "dir" \notin debroot
        <5>1. FirstStep["debroot"] = "rm" /\ Prereq["debroot"] = {}
          BY DEF FirstStep, Prereq, Target
        <5>2. "debroot" \notin outdated
          BY DEF TypeOK, Art, Debs
        <5>3. Exists("debroot") <=> "dir" \in debroot
          BY DEF Exists, Art, Debs
        <5> QED BY SMTT(30), <4>1, <5>1, <5>2, <5>3 DEF OutOfDate
      <4>3. ~Active("debroot")
        BY Zenon, <1>1, <3>2 DEF Active
      <4> QED BY Zenon, <1>1, <4>2, <4>3 DEF Explained, Rooted
    <3> QED BY Zenon, <3>1, <3>2
  <2>2. phase' = "run"
    BY Zenon, <1>1, <1>4 DEF Visit, Goto
  <2>3. Stopped'
    BY SMTT(30), <2>2 DEF Stopped
  <2> QED BY Zenon, <1>2, <2>1, <2>3 DEF Explained, FailureExplained
<1> QED BY Zenon, <1>3, <1>4

LEMMA SignalExplained ==
  ASSUME TypeOK, MountInv, Explained, NEW s, Signal(s)
  PROVE  Explained'
<1> USE DEF inputs, images, tree, host
<1>0. "debroot" \in Target
  BY DEF Target
<1>1. /\ fault' /\ ~Idle' /\ UNCHANGED debroot /\ mishap \subseteq mishap'
      /\ pc["debroot"] \in {"first stage", "|| rm"} => "cut" \in mishap'
  BY Zenon DEF Signal, Idle
<1>2. \/ Active("debroot") /\ pc'["debroot"] = "failed"
      \/ ~Active("debroot") /\ pc'["debroot"] = pc["debroot"]
  BY Zenon, <1>0 DEF Signal
<1>3. /\ {"cut", "leak"} \cap mishap' = {} => {"cut", "leak"} \cap mishap = {}
      /\ {"cut", "leak"} \cap mishap' = {} => "cut" \notin mishap'
  BY Zenon, <1>1
<1>4. ASSUME ~Active("debroot") PROVE Rooted'
  <2>1. pc'["debroot"] = pc["debroot"] /\ pc["debroot"] \in {"todo", "done", "failed"}
    BY Zenon, <1>2, <1>4 DEF Active
  <2>2. {"cut", "leak"} \cap mishap' = {} /\ "dir" \in debroot' => "skel" \in debroot'
    BY Zenon, <1>1, <1>3, <1>4 DEF Explained, Rooted
  <2> QED BY Zenon, <1>1, <2>1, <2>2 DEF Rooted
<1>5. ASSUME pc["debroot"] \in {"rm", "debootstrap"}, pc'["debroot"] = "failed" PROVE Rooted'
  BY Zenon, <1>1, <1>5 DEF Explained, Rooted
<1>6. ASSUME pc["debroot"] \in {"first stage", "|| rm"}, pc'["debroot"] = "failed" PROVE Rooted'
  BY Zenon, <1>1, <1>3, <1>6 DEF Rooted
<1>7. Rooted'
  <2>1. Active("debroot") => pc["debroot"] \in {"rm", "debootstrap", "first stage", "|| rm"}
    BY Zenon DEF Explained, Rooted, Active
  <2> QED BY Zenon, <1>2, <1>4, <1>5, <1>6, <2>1
<1> QED BY Zenon, <1>1, <1>7 DEF Explained, Stopped, FailureExplained

\* make exits, and what the user does between two invocations.
LEMMA IdleExplained ==
  ASSUME TypeOK, MountInv, Explained, MakeExit \/ User
  PROVE  Explained'
<1> USE DEF inputs, images, tree, host, make
<1>0. "debroot" \in Target
  BY DEF Target
<1>1. CASE MakeExit
  <2>1. /\ Idle' /\ phase' = "idle" /\ UNCHANGED <<sources, debroot, mishap, pc, fault>>
        /\ result' = "fail" => phase = "failing"
    BY Zenon, <1>1 DEF MakeExit, Idle
  <2>2. Rooted'
    BY Zenon, <2>1 DEF Explained, Rooted, Active
  <2>3. Stopped'
    BY Zenon, <2>1 DEF Stopped
  <2>4. FailureExplained'
    BY Zenon, <2>1 DEF Explained, Stopped, Reason, FailureExplained
  <2> QED BY Zenon, <2>2, <2>3, <2>4 DEF Explained
<1>2. ASSUME NEW g, NEW q, StartMake(g, q) PROVE Explained'
  <2>1. /\ Idle /\ ~Idle' /\ phase' = "run" /\ UNCHANGED <<debroot, mishap>>
        /\ pc'["debroot"] = "todo"
    BY Zenon, <1>0, <1>2 DEF StartMake, Idle, Needed
  <2>2. ~Active("debroot")
    BY Zenon, <1>0, <2>1 DEF MountInv, Ordered
  <2> QED BY Zenon, <2>1, <2>2 DEF Explained, Rooted, Stopped, FailureExplained
<1>3. CASE \/ \E p \in Pkg : Package(p) \/ Reboot
           \/ \E d \in EditDirs, e \in BOOLEAN : Edit(d, e)
  <2>1. UNCHANGED <<sources, debroot, mishap, pc, phase, fault, result>>
    BY Zenon, <1>3 DEF Package, Reboot, Edit
  <2> QED BY Zenon, <2>1 DEF Explained, Rooted, Stopped, Reason, FailureExplained, Active, Idle
<1>4. CASE Clean \/ Reboot
  <2>0. ~Active("debroot") /\ Idle
    BY Zenon, <1>0, <1>4 DEF Clean, Reboot, MountInv, Ordered
  <2>1. CASE Reboot
    <3>1. UNCHANGED <<sources, debroot, mishap, pc, phase, fault, result>>
      BY Zenon, <2>1 DEF Reboot
    <3> QED BY Zenon, <3>1 DEF Explained, Rooted, Stopped, Reason, FailureExplained, Active, Idle
  <2>2. CASE Clean
    <3>1. /\ Idle' /\ phase' = phase /\ pc' = pc /\ result' = "none"
          /\ debroot' = IF Mounted THEN {"dir"} ELSE {}
          /\ mishap' = mishap \cap {"leak"}
      BY Zenon, <2>2 DEF Clean, RmDebroot, Idle
    <3>2. Mounted => "leak" \in mishap'
      BY Zenon, <1>0, <2>0, <3>1 DEF MountInv, Leaked, Bootstrapping, Ordered, Active, Target
    <3>3. {"cut", "leak"} \cap mishap' = {} => "dir" \notin debroot'
      BY Zenon, <3>1, <3>2
    <3>4. Rooted'
      BY Zenon, <2>0, <3>1, <3>3 DEF Explained, Rooted, Active
    <3>5. phase' = "idle"
      BY Zenon, <2>0, <3>1 DEF Idle
    <3> QED BY Zenon, <3>1, <3>4, <3>5 DEF Explained, Stopped, FailureExplained
  <2> QED BY Zenon, <1>4, <2>1, <2>2
<1> QED BY Zenon, <1>1, <1>2, <1>3, <1>4 DEF User

LEMMA ExplainedStep ==
  ASSUME Jobs = 1, TypeOK, MountInv, BuildInv, Explained, [Next]_vars
  PROVE  Explained'
<1>1. CASE Recipe
  BY Zenon, <1>1, FilesExplained, DebrootExplained, CopyExplained, ChrootExplained DEF Recipe, Local
<1>2. CASE UNCHANGED vars
  <2>1. UNCHANGED <<sources, debroot, mishap, pc, phase, fault, result>>
    BY Zenon, <1>2 DEF vars, inputs, images, tree, host, make
  <2> QED BY Zenon, <2>1 DEF Explained, Rooted, Stopped, Reason, FailureExplained, Active, Idle
<1> QED BY Zenon, <1>1, <1>2, WalkExplained, SignalExplained, IdleExplained DEF Next, Make

\* When a serial make fails although no program failed, the cause is a
\* debroot that copy-files has been through, one left by a mishap, or package
\* sources that were not cloned, whatever happened in earlier invocations.
THEOREM FailuresExplained == Spec => []FailureExplained
<1>1. Init => Explained
  BY DEF Init, Explained, Rooted, Stopped, FailureExplained, Idle, Target
<1>2. CASE Jobs = 1
  <2>1. TypeOK /\ MountInv /\ BuildInv /\ Explained /\ [Next]_vars => Explained'
    BY Zenon, <1>2, ExplainedStep
  <2>2. Explained => FailureExplained
    BY Zenon DEF Explained
  <2> QED BY <1>1, <2>1, <2>2, BuildInvariant, PTL DEF Spec
<1>3. CASE Jobs # 1
  <2>1. FailureExplained
    BY Zenon, <1>3 DEF FailureExplained
  <2> QED BY <2>1, PTL
<1> QED BY <1>2, <1>3
-----------------------------------------------------------------------------
\* The files made from a directory, and that directory.
Plain == {"initrd.img"} \cup Debs
DirOf == [a \in Plain |-> CASE a = "initrd.img"         -> "ramdisk"
                            [] a = "bananui-base.deb"   -> "bananui-base"
                            [] a = "device-startup.deb" -> "device-startup"]

\* What make takes for up to date.
Current(a) == art[a].there /\ a \notin outdated

\* Whether a is built here and not downloaded.
Own(a) == "debuild" \in tools \/ a \notin Debs

\* Only sources that are there are edited.
Dated == /\ \A d \in Dir : stamp[d] <= ver[d]
         /\ \A p \in Pkg \ sources : stamp[p] = 0

\* A current file is as new as its directory; a boot.img that is newer than a
\* current initrd.img is as new as the ramdisk.
Lasting ==
    /\ \A a \in Plain : Current(a) /\ Own(a) => art[a].ver >= stamp[DirOf[a]]
    /\ Current("boot.img") /\ Current("initrd.img")
          => art["boot.img"].ver >= stamp["ramdisk"]

\* What this make is done with is current, and the packages it has begun are
\* those whose sources are there.
Made ==
    ~Idle => /\ \A a \in Art : pc[a] = "done" /\ Own(a) => Current(a)
             /\ \A p \in Pkg : pc[Deb[p]] \notin {"todo", "failed"} => p \in sources

FreshInv == Dated /\ Lasting /\ Made
-----------------------------------------------------------------------------
LEMMA Names ==
  /\ "boot.img" \in Art /\ "initrd.img" \in Art /\ "initrd.img" \in Plain
  /\ Plain \subseteq Art /\ Debs \subseteq Plain /\ Art \subseteq Target
  /\ Art = Plain \cup {"boot.img"} /\ "boot.img" \notin Plain
  /\ "initrd.img" \notin Debs /\ "boot.img" \notin Debs
  /\ "ramdisk" \in Dir /\ Pkg \subseteq Dir
  BY SMTT(30) DEF Plain, Art, Debs, Target, Dir, Pkg

LEMMA Dirs ==
  /\ \A a \in Plain : DirOf[a] \in Dir
  /\ DirOf["initrd.img"] = "ramdisk"
  /\ \A p \in Pkg : Deb[p] \in Debs /\ DirOf[Deb[p]] = p
  BY SMTT(30) DEF Plain, Debs, DirOf, Dir, Pkg, Deb

\* The versions are numbers.
LEMMA VerTypes ==
  ASSUME TypeOK
  PROVE  /\ \A d \in Dir : ver[d] \in Nat /\ stamp[d] \in Nat
         /\ \A a \in Art : art[a].ver \in Nat
  BY SMTT(30) DEF TypeOK, File

\* What a recipe writes is made from its directory as it is now.
LEMMA BuiltFresh ==
  ASSUME TypeOK, Dated, NEW w \in BOOLEAN
  PROVE  /\ \A a \in Plain : Built(a, w).ver >= stamp[DirOf[a]]
         /\ Built("boot.img", w).ver = art["initrd.img"].ver
<1>1. ASSUME NEW a \in Plain PROVE Built(a, w).ver = ver[DirOf[a]]
  BY SMTT(30) DEF Built, DirOf, Plain, Debs
<1>2. \A d \in Dir : ver[d] >= stamp[d]
  BY SMTT(30), VerTypes DEF Dated
<1>3. Built("boot.img", w).ver = art["initrd.img"].ver
  BY SMTT(30) DEF Built
<1> QED BY Zenon, <1>1, <1>2, <1>3, Dirs

\* Writing the files A.
Wrote(A) == /\ \A a \in A : \E w \in BOOLEAN : art'[a] = Built(a, w)
            /\ \A a \in Art \ A : art'[a] = art[a]
            /\ outdated' = Stamped(A)

\* What is current after that: what was written, and what was current before,
\* but for boot.img after initrd.img.
LEMMA WroteCurrent ==
  ASSUME TypeOK, NEW A \in SUBSET Art, Wrote(A)
  PROVE  /\ \A a \in A \ {"boot.img"} : Current(a)'
         /\ "initrd.img" \notin A =>
               /\ \A a \in A : Current(a)'
               /\ Current("boot.img")' => "boot.img" \in A \/ Current("boot.img")
         /\ \A a \in Art \ (A \cup {"boot.img"}) : Current(a)' <=> Current(a)
         /\ "initrd.img" \notin A /\ Current("boot.img") => Current("boot.img")'
         /\ "initrd.img" \in A => ~Current("boot.img")'
<1>1. \A a \in A : art'[a].there
  BY Zenon, BuiltWhole DEF Wrote
<1>2. /\ \A a \in A \ {"boot.img"} : a \notin outdated'
      /\ \A a \in Art \ (A \cup {"boot.img"}) : a \in outdated' <=> a \in outdated
      /\ "initrd.img" \notin A => outdated' = outdated \ A
      /\ "initrd.img" \in A => "boot.img" \in outdated'
  BY SMTT(30) DEF Wrote, Stamped
<1>3. \A a \in Art \ A : art'[a] = art[a]
  BY Zenon DEF Wrote
<1> QED BY Zenon, <1>1, <1>2, <1>3, Names DEF Current

LEMMA WroteFresh ==
  ASSUME TypeOK, Dated, Lasting, UNCHANGED inputs, NEW A \in SUBSET Art, Wrote(A)
  PROVE  Dated' /\ Lasting'
<1>1. UNCHANGED <<tools, sources, ver, stamp>>
  BY Zenon DEF inputs
<1>2. Dated'
  BY Zenon, <1>1 DEF Dated
<1>3. ASSUME NEW a \in Plain, Current(a)', Own(a)'
      PROVE  art'[a].ver >= stamp'[DirOf[a]]
  <2>1. CASE a \in A
    BY Zenon, <1>1, <2>1, BuiltFresh DEF Wrote
  <2>2. CASE a \notin A
    <3>1. a \in Art \ (A \cup {"boot.img"})
      BY Zenon, <2>2, Names
    <3>2. Current(a) /\ Own(a) /\ art'[a] = art[a]
      BY Zenon, <1>1, <1>3, <3>1, WroteCurrent DEF Own, Wrote
    <3> QED BY Zenon, <1>1, <3>2 DEF Lasting
  <2> QED BY Zenon, <2>1, <2>2
<1>4. ASSUME Current("boot.img")', Current("initrd.img")'
      PROVE  art'["boot.img"].ver >= stamp'["ramdisk"]
  <2>1. "initrd.img" \notin A
    BY Zenon, <1>4, WroteCurrent
  <2>2. Current("initrd.img") /\ Own("initrd.img")
    <3>1. "initrd.img" \in Art \ (A \cup {"boot.img"})
      BY Zenon, <2>1, Names
    <3> QED BY Zenon, <1>4, <3>1, WroteCurrent, Names DEF Own
  <2>3. art["initrd.img"].ver >= stamp["ramdisk"]
    BY Zenon, <2>2, Names, Dirs DEF Lasting
  <2>4. CASE "boot.img" \in A
    <3>1. PICK w \in BOOLEAN : art'["boot.img"] = Built("boot.img", w)
      BY Zenon, <2>4 DEF Wrote
    <3>2. art'["boot.img"].ver = art["initrd.img"].ver
      BY Zenon, <3>1, BuiltFresh
    <3> QED BY Zenon, <1>1, <2>3, <3>2
  <2>5. CASE "boot.img" \notin A
    <3>1. Current("boot.img") /\ art'["boot.img"] = art["boot.img"]
      BY Zenon, <1>4, <2>1, <2>5, WroteCurrent, Names DEF Wrote
    <3> QED BY Zenon, <1>1, <2>2, <3>1 DEF Lasting
  <2> QED BY Zenon, <2>4, <2>5
<1> QED BY Zenon, <1>2, <1>3, <1>4 DEF Lasting
-----------------------------------------------------------------------------
\* A step that writes no file and finishes none.
LEMMA Still ==
  ASSUME FreshInv, UNCHANGED <<tools, sources, ver, stamp, art, outdated>>,
         ~Idle' => ~Idle /\ \A a \in Art : pc'[a] \in {pc[a], "failed"}
  PROVE  FreshInv'
<1>1. \A a : (Current(a)' <=> Current(a)) /\ (Own(a)' <=> Own(a))
  BY Zenon DEF Current, Own
<1>2. Dated' /\ Lasting'
  BY Zenon, <1>1 DEF FreshInv, Dated, Lasting
<1>3. Made'
  BY Zenon, <1>1, Dirs, Names DEF FreshInv, Made
<1> QED BY Zenon, <1>2, <1>3 DEF FreshInv

\* A recipe that is none of a file's.
LEMMA OtherRecipe ==
  ASSUME TypeOK, MountInv, FreshInv, NEW t \in Target \ Art, Active(t),
         \E l, f : Goto(t, l, f) \/ (Abort(t, f) /\ l = "failed"),
         UNCHANGED <<tools, sources, ver, stamp, art, outdated>>
  PROVE  FreshInv'
<1>1. ~Idle
  BY Zenon, Running
<1>2. \A u \in Target \ {t} : pc'[u] = pc[u]
  BY Zenon, PcAfter
<1> QED BY Zenon, <1>1, <1>2, Still, Names

LEMMA OthersFresh ==
  ASSUME TypeOK, MountInv, FreshInv,
         \/ CheckTools \/ Debootstrap \/ CopyFiles
         \/ QemuMount \/ QemuChroot \/ QemuUmount
         \/ MakeTar \/ AllDone \/ Install
  PROVE  FreshInv'
<1> USE DEF inputs, images, tree, host
<1>0. {"check", "debroot", "copy-files", "qemu-install", "debroot.tar", "all",
       "install-to-device"} \subseteq Target \ Art
  BY SMTT(30) DEF Target, Art, Debs
<1>1. CASE CheckTools
  BY Zenon, <1>0, <1>1, OtherRecipe DEF CheckTools, Active
<1>2. CASE Debootstrap
  <2>1. Active("debroot")
    BY Zenon, <1>2 DEF Debootstrap, DebrootStep, Active
  <2>2. \E l, f : Goto("debroot", l, f) \/ (Abort("debroot", f) /\ l = "failed")
    BY Zenon, <1>2 DEF Debootstrap, DebrootStep
  <2>3. UNCHANGED <<tools, sources, ver, stamp, art, outdated>>
    BY Zenon, <1>2 DEF Debootstrap
  <2> QED BY Zenon, <1>0, <2>1, <2>2, <2>3, OtherRecipe
<1>3. CASE CopyFiles
  <2>1. Active("copy-files")
    BY Zenon, <1>3 DEF CopyFiles, CopyStep, Active
  <2>2. \E l, f : Goto("copy-files", l, f) \/ (Abort("copy-files", f) /\ l = "failed")
    BY Zenon, <1>3 DEF CopyFiles, CopyStep
  <2>3. UNCHANGED <<tools, sources, ver, stamp, art, outdated>>
    BY Zenon, <1>3 DEF CopyFiles
  <2> QED BY Zenon, <1>0, <2>1, <2>2, <2>3, OtherRecipe
<1>4. CASE QemuMount \/ QemuChroot \/ QemuUmount
  <2>1. Active("qemu-install")
    BY Zenon, <1>4 DEF QemuMount, QemuChroot, Chain, QemuUmount, Active
  <2>2. \E l, f : Goto("qemu-install", l, f) \/ (Abort("qemu-install", f) /\ l = "failed")
    BY Zenon, <1>4 DEF QemuMount, QemuChroot, Chain, QemuUmount
  <2>3. UNCHANGED <<tools, sources, ver, stamp, art, outdated>>
    BY Zenon, <1>4 DEF QemuMount, QemuChroot, QemuUmount
  <2> QED BY Zenon, <1>0, <2>1, <2>2, <2>3, OtherRecipe
<1>5. CASE MakeTar
  <2>1. \E l, f : Goto("debroot.tar", l, f) \/ (Abort("debroot.tar", f) /\ l = "failed")
    BY Zenon, <1>5 DEF MakeTar, TarFails
  <2>2. Active("debroot.tar") /\ UNCHANGED <<tools, sources, ver, stamp, art, outdated>>
    BY Zenon, <1>5 DEF MakeTar, Active
  <2> QED BY Zenon, <1>0, <2>1, <2>2, OtherRecipe
<1>6. CASE AllDone
  BY Zenon, <1>0, <1>6, OtherRecipe DEF AllDone, Active
<1>7. CASE Install
  BY Zenon, <1>0, <1>7, OtherRecipe DEF Install, Active
<1> QED BY Zenon, <1>1, <1>2, <1>3, <1>4, <1>5, <1>6, <1>7

\* make looks at a target, or exits.
LEMMA MakeFresh ==
  ASSUME TypeOK, FreshInv, \/ \E t \in Target : NoRule(t) \/ Visit(t)
                           \/ MakeExit
  PROVE  FreshInv'
<1> USE DEF inputs, images, tree, host
<1>1. CASE MakeExit
  BY Zenon, <1>1, Still DEF MakeExit, Idle
<1>2. ASSUME NEW t \in Target, NoRule(t) PROVE FreshInv'
  <2>1. pc'[t] = "failed" /\ \A u \in Target \ {t} : pc'[u] = pc[u]
    BY Zenon, <1>2, PcAfter DEF NoRule
  <2>2. ~Idle
    BY Zenon, <1>2 DEF NoRule, Ready, Idle
  <2>3. \A a \in Art : pc'[a] \in {pc[a], "failed"}
    BY Zenon, <2>1, Names
  <2> QED BY Zenon, <1>2, <2>2, <2>3, Still DEF NoRule
<1>3. ASSUME NEW t \in Target, Visit(t) PROVE FreshInv'
  <2>1. /\ pc'[t] = IF OutOfDate(t) THEN FirstStep[t] ELSE "done"
        /\ \A u \in Target \ {t} : pc'[u] = pc[u]
    BY Zenon, <1>3, PcAfter DEF Visit
  <2>2. UNCHANGED <<tools, sources, ver, stamp, art, outdated>> /\ ~Idle
    BY Zenon, <1>3 DEF Visit, Ready, Idle
  <2>3. \A a : (Current(a)' <=> Current(a)) /\ (Own(a)' <=> Own(a))
    BY Zenon, <2>2 DEF Current, Own
  <2>4. Dated' /\ Lasting'
    BY Zenon, <2>2, <2>3 DEF FreshInv, Dated, Lasting
  <2>5. ASSUME t \in Art, pc'[t] = "done" PROVE Current(t)
    <3>1. FirstStep[t] # "done"
      BY SMTT(30) DEF FirstStep
    <3>2. Exists(t) /\ t \notin outdated
      BY Zenon, <2>1, <2>5, <3>1 DEF OutOfDate
    <3>3. t # "debroot" /\ t # "debroot.tar"
      BY SMTT(30), <2>5 DEF Art, Debs
    <3> QED BY Zenon, <3>2, <3>3 DEF Exists, Current
  <2>6. ASSUME NEW p \in Pkg, pc'[Deb[p]] \notin {"todo", "failed"} PROVE p \in sources
    <3>1. CASE t = Deb[p]
      <4>1. p \in SrcOf[Deb[p]]
        BY SMTT(30) DEF SrcOf, Deb, Pkg, Target, Art, Debs
      <4> QED BY Zenon, <1>3, <3>1, <4>1 DEF Visit
    <3>2. CASE t # Deb[p]
      BY Zenon, <2>1, <2>2, <2>6, <3>2, Dirs, Names DEF FreshInv, Made
    <3> QED BY Zenon, <3>1, <3>2
  <2>7. Made'
    BY Zenon, <2>1, <2>2, <2>3, <2>5, <2>6, Names DEF FreshInv, Made
  <2> QED BY Zenon, <2>4, <2>7 DEF FreshInv
<1> QED BY Zenon, <1>1, <1>2, <1>3

\* The recipe of a file.
LEMMA FileRecipe ==
  ASSUME TypeOK, MountInv, BuildInv, FreshInv, NEW a \in Art, Active(a),
         \E l, f : Goto(a, l, f) \/ (Abort(a, f) /\ l = "failed"),
         UNCHANGED inputs, NEW w \in BOOLEAN, Write(a, w)
  PROVE  FreshInv'
<1>1. ~Idle /\ \A u \in Target \ {a} : pc'[u] = pc[u]
  BY Zenon, Running, PcAfter, Names
<1>2. Wrote({a})
  <2>1. art' = [art EXCEPT ![a] = Built(a, w)] /\ outdated' = Stamped({a})
    BY Zenon DEF Write
  <2>2. art'[a] = Built(a, w) /\ \A b \in Art \ {a} : art'[b] = art[b]
    BY Zenon, <2>1 DEF TypeOK
  <2> QED BY Zenon, <2>1, <2>2 DEF Wrote
<1>3. Dated' /\ Lasting'
  BY Zenon, <1>2, WroteFresh DEF FreshInv
<1>4. \A b : Own(b)' <=> Own(b)
  BY Zenon DEF Own, inputs
<1>5. Current(a)'
  <2>1. a = "boot.img" => "initrd.img" \notin {a}
    OBVIOUS
  <2> QED BY Zenon, <1>2, <2>1, WroteCurrent
<1>6. ASSUME NEW b \in Art \ {a}, pc[b] = "done", Current(b) PROVE Current(b)'
  <2>1. CASE b # "boot.img"
    BY Zenon, <1>2, <1>6, <2>1, WroteCurrent
  <2>2. CASE b = "boot.img"
    <3>1. "initrd.img" \in Before("boot.img")
      BY SMTT(30) DEF Before, Prereq, Target, Art
    <3>2. Begun("boot.img")
      BY SMTT(30), <1>6, <2>2 DEF Begun
    <3>3. pc["initrd.img"] = "done"
      BY Zenon, <1>1, <3>1, <3>2, Names DEF BuildInv, Sequenced
    <3>4. a # "initrd.img"
      BY Zenon, <3>3 DEF Active
    <3>5. "initrd.img" \notin {a}
      BY Zenon, <3>4
    <3> QED BY Zenon, <1>2, <1>6, <2>2, <3>5, WroteCurrent
  <2> QED BY Zenon, <2>1, <2>2
<1>7. ASSUME NEW b \in Art, pc'[b] = "done", Own(b) PROVE Current(b)'
  BY Zenon, <1>1, <1>5, <1>6, <1>7, Names DEF FreshInv, Made
<1>8. ASSUME NEW p \in Pkg, pc'[Deb[p]] \notin {"todo", "failed"} PROVE p \in sources
  <2>1. pc[Deb[p]] \notin {"todo", "failed"}
    BY Zenon, <1>1, <1>8, Dirs, Names DEF Active
  <2> QED BY Zenon, <1>1, <2>1 DEF FreshInv, Made
<1>9. Made'
  BY Zenon, <1>4, <1>7, <1>8 DEF Made, inputs
<1> QED BY Zenon, <1>3, <1>9 DEF FreshInv

LEMMA FilesFresh ==
  ASSUME TypeOK, MountInv, BuildInv, FreshInv,
         PackInitrd \/ MakeBootImg \/ \E a \in Debs : BuildDeb(a)
  PROVE  FreshInv'
<1>0. ASSUME NEW a \in Art, Active(a), NEW f, Abort(a, f), UNCHANGED <<inputs, images>>
      PROVE  FreshInv'
  <2>1. ~Idle
    BY Zenon, <1>0, Running, Names
  <2>2. pc'[a] = "failed" /\ \A u \in Target \ {a} : pc'[u] = pc[u]
    BY Zenon, <1>0, PcAfter, Names
  <2>3. \A b \in Art : pc'[b] \in {pc[b], "failed"}
    BY Zenon, <2>2, Names
  <2>4. UNCHANGED <<tools, sources, ver, stamp, art, outdated>>
    BY Zenon, <1>0 DEF inputs, images
  <2> QED BY Zenon, <2>1, <2>3, <2>4, Still
<1>1. CASE PackInitrd
  <2>1. Active("initrd.img") /\ UNCHANGED inputs
    BY Zenon, <1>1 DEF PackInitrd, Active
  <2>2. \E l, f : Goto("initrd.img", l, f) \/ (Abort("initrd.img", f) /\ l = "failed")
    BY Zenon, <1>1 DEF PackInitrd
  <2>3. PICK w \in BOOLEAN : Write("initrd.img", w)
    BY Zenon, <1>1 DEF PackInitrd, WriteImage
  <2> QED BY Zenon, <2>1, <2>2, <2>3, FileRecipe, Names
<1>2. CASE MakeBootImg
  <2>1. Active("boot.img") /\ UNCHANGED inputs
    BY Zenon, <1>2 DEF MakeBootImg, Active
  <2>2. \E l, f : Goto("boot.img", l, f) \/ (Abort("boot.img", f) /\ l = "failed")
    BY Zenon, <1>2 DEF MakeBootImg
  <2>3. CASE \E w \in BOOLEAN : Write("boot.img", w)
    BY Zenon, <2>1, <2>2, <2>3, FileRecipe, Names
  <2>4. CASE UNCHANGED images /\ Abort("boot.img", TRUE)
    BY Zenon, <1>0, <2>1, <2>4, Names
  <2>5. art["initrd.img"].whole \in BOOLEAN
    BY SMTT(30), Names DEF TypeOK, File
  <2> QED BY Zenon, <1>2, <2>3, <2>4, <2>5 DEF MakeBootImg, WriteImage, images
<1>3. ASSUME NEW a \in Debs, BuildDeb(a) PROVE FreshInv'
  <2>1. Active(a) /\ UNCHANGED inputs /\ a \in Art
    BY Zenon, <1>3, Names DEF BuildDeb, Active
  <2>2. CASE Write(a, TRUE) /\ Goto(a, "done", FALSE)
    BY Zenon, <2>1, <2>2, FileRecipe
  <2>3. CASE Abort(a, TRUE) /\ UNCHANGED images
    BY Zenon, <1>0, <2>1, <2>3
  <2> QED BY Zenon, <1>3, <2>2, <2>3 DEF BuildDeb
<1> QED BY Zenon, <1>1, <1>2, <1>3

\* What is downloaded beside debuild is what has no sources here.
LEMMA FetchFresh ==
  ASSUME TypeOK, MountInv, FreshInv, CheckPackages
  PROVE  FreshInv'
<1> USE DEF inputs, images
<1>0. "check" \in Target \ Art
  BY SMTT(30) DEF Target, Art, Debs
<1>1. Active("check") /\ UNCHANGED <<tools, sources, ver, stamp>>
  BY Zenon DEF CheckPackages, Active
<1>2. \E l, f : Goto("check", l, f) \/ (Abort("check", f) /\ l = "failed")
  BY Zenon DEF CheckPackages, Fetch
<1>3. CASE UNCHANGED images
  BY Zenon, <1>0, <1>1, <1>2, <1>3, OtherRecipe
<1>4. ASSUME NEW got \in SUBSET PREBUILT, NEW torn \in SUBSET PREBUILT,
             NEW old \in SUBSET PREBUILT, Fetch(got, torn, old)
      PROVE  FreshInv'
  <2> DEFINE D == DebsOf(got \cup torn)
             E == DebsOf(old)
  <2>1. ~Idle /\ \A a \in Art : pc'[a] = pc[a]
    BY Zenon, <1>0, <1>1, <1>2, Running, PcAfter, Names
  <2>2. /\ \A a \in Art : art'[a] = IF a \in D
                            THEN [there |-> TRUE, whole |-> a \in DebsOf(got), ver |-> 0]
                            ELSE art[a]
        /\ outdated' = (outdated \ D) \cup E
    BY Zenon, <1>4 DEF Fetch
  <2>3. ASSUME NEW a \in D \cup E, "debuild" \in tools
        PROVE  \E p \in Pkg \ sources : a = Deb[p]
    BY Zenon, <2>3 DEF DebsOf, PREBUILT
  <2>4. D \cup E \subseteq Debs
    BY Zenon, Dirs DEF DebsOf, PREBUILT
  <2>5. \A a \in Art \ D : art'[a] = art[a] /\ (Current(a)' => Current(a))
    <3>1. \A a \in Art \ D : art'[a] = art[a]
      BY Zenon, <2>2
    <3> HIDE DEF D, E
    <3>2. \A a \in Art \ D : a \notin outdated' => a \notin outdated
      BY SMTT(30), <2>2
    <3> QED BY Zenon, <3>1, <3>2 DEF Current
  <2>6. \A a \in Art \ (D \cup E) : Current(a) => Current(a)'
    <3>1. \A a \in Art \ (D \cup E) : art'[a] = art[a]
      BY Zenon, <2>2
    <3> HIDE DEF D, E
    <3>2. \A a \in Art \ (D \cup E) : a \notin outdated => a \notin outdated'
      BY SMTT(30), <2>2
    <3> QED BY Zenon, <3>1, <3>2 DEF Current
  <2> HIDE DEF D, E
  <2>7. ASSUME NEW a \in D, "debuild" \in tools PROVE art'[a].ver >= stamp[DirOf[a]]
    <3>1. PICK p \in Pkg \ sources : a = Deb[p]
      BY Zenon, <2>3, <2>7
    <3> stamp[DirOf[a]] = 0
      BY Zenon, <3>1, Dirs DEF FreshInv, Dated
    <3>2. a \in Art
      BY Zenon, <2>4, Names
    <3>3. art'[a] = [there |-> TRUE, whole |-> a \in DebsOf(got), ver |-> 0]
      BY Zenon, <2>2, <3>2
    <3>4. \A b : [there |-> TRUE, whole |-> b, ver |-> 0].ver = 0
      OBVIOUS
    <3>5. 0 >= 0
      OBVIOUS
    <3> QED BY Zenon, <3>3, <3>4, <3>5
  <2>8. Dated' /\ \A a : Own(a)' <=> Own(a)
    BY Zenon, <1>1 DEF FreshInv, Dated, Own
  <2>9. Lasting'
    <3>1. ASSUME NEW a \in Plain, Current(a)', Own(a)
          PROVE  art'[a].ver >= stamp[DirOf[a]]
      <4>1. CASE a \in D
        BY Zenon, <2>4, <2>7, <3>1, <4>1 DEF Own
      <4>2. CASE a \notin D
        BY Zenon, <2>5, <3>1, <4>2, Names DEF FreshInv, Lasting
      <4> QED BY Zenon, <4>1, <4>2
    <3>2. {"boot.img", "initrd.img"} \subseteq Art \ D
      BY Zenon, <2>4, Names
    <3>3. Current("boot.img")' /\ Current("initrd.img")'
             => art'["boot.img"].ver >= stamp["ramdisk"]
      BY Zenon, <2>5, <3>2 DEF FreshInv, Lasting
    <3> QED BY Zenon, <1>1, <2>8, <3>1, <3>3 DEF Lasting
  <2>10. Made'
    <3>1. ASSUME NEW a \in Art, pc[a] = "done", Own(a) PROVE a \notin D \cup E
      <4> SUFFICES ASSUME a \in D \cup E PROVE FALSE
        OBVIOUS
      <4>1. "debuild" \in tools
        BY Zenon, <2>4, <3>1 DEF Own
      <4>2. PICK p \in Pkg \ sources : a = Deb[p]
        BY Zenon, <2>3, <4>1
      <4> QED BY Zenon, <2>1, <3>1, <4>2 DEF FreshInv, Made
    <3> QED BY Zenon, <1>1, <2>1, <2>6, <2>8, <3>1, Dirs, Names DEF FreshInv, Made
  <2> QED BY Zenon, <2>8, <2>9, <2>10 DEF FreshInv
<1> QED BY Zenon, <1>3, <1>4 DEF CheckPackages

LEMMA SignalFresh ==
  ASSUME TypeOK, MountInv, BuildInv, FreshInv, NEW s, Signal(s)
  PROVE  FreshInv'
<1>1. ~Idle /\ UNCHANGED <<tools, sources, ver, stamp>>
  BY Zenon, Running DEF Signal, inputs
<1>2. \A a \in Art : pc'[a] = IF ~Active(a) THEN pc[a] ELSE "failed"
  <2>1. "qemu-install" \notin Art
    BY SMTT(30) DEF Art, Debs
  <2> QED BY Zenon, <2>1, Names DEF Signal
<1>3. PICK hit \in SUBSET {a \in Art : Active(a)} :
        /\ art' = [a \in Art |-> IF a \in hit THEN Remnant(a, s) ELSE art[a]]
        /\ outdated' = IF s = "KILL" THEN Stamped(hit) ELSE outdated
  BY Zenon DEF Signal
<1>4. \A a \in Art : art'[a] = IF a \in hit THEN Remnant(a, s) ELSE art[a]
  BY Zenon, <1>3
<1>5. \A a : Own(a)' <=> Own(a)
  BY Zenon, <1>1 DEF Own
<1>6. "initrd.img" \in hit => pc["boot.img"] # "done"
  <2>1. "initrd.img" \in Before("boot.img")
    BY SMTT(30) DEF Before, Prereq, Target, Art
  <2>2. pc["boot.img"] = "done" => Begun("boot.img")
    BY SMTT(30) DEF Begun
  <2> QED BY Zenon, <1>1, <2>1, <2>2, Names DEF BuildInv, Sequenced, Active
<1>7. /\ Dated' /\ Lasting'
      /\ \A a \in Art \ hit : pc[a] = "done" /\ Current(a) => Current(a)'
  <2>1. CASE s = "KILL"
    <3>1. Wrote(hit)
      BY Zenon, <1>3, <1>4, <2>1 DEF Wrote, Remnant
    <3>2. hit \in SUBSET Art /\ UNCHANGED inputs
      BY Zenon, <1>1 DEF inputs
    <3>3. Dated' /\ Lasting'
      BY Zenon, <3>1, <3>2, WroteFresh DEF FreshInv
    <3>4. \A a \in Art \ hit : pc[a] = "done" /\ Current(a) => Current(a)'
      BY Zenon, <1>6, <3>1, <3>2, WroteCurrent
    <3> QED BY Zenon, <3>3, <3>4
  <2>2. CASE s # "KILL"
    <3>1. ~Absent.there
      BY DEF Absent
    <3>2. \A a \in Art : a \in hit => ~Current(a)'
      BY Zenon, <1>4, <2>2, <3>1 DEF Remnant, Current
    <3>3. \A a \in Art \ hit : art'[a] = art[a] /\ (Current(a)' <=> Current(a))
      BY Zenon, <1>3, <1>4, <2>2 DEF Current
    <3>4. Dated'
      BY Zenon, <1>1 DEF FreshInv, Dated
    <3>5. Lasting'
      BY Zenon, <1>1, <1>5, <3>2, <3>3, Names DEF FreshInv, Lasting
    <3> QED BY Zenon, <3>3, <3>4, <3>5
  <2> QED BY Zenon, <2>1, <2>2
<1>8. Made'
  <2>1. \A a \in Art : pc'[a] = "done" => pc[a] = "done" /\ a \notin hit
    BY Zenon, <1>2 DEF Active
  <2>2. \A a \in Art : pc'[a] \notin {"todo", "failed"} => pc[a] \notin {"todo", "failed"}
    BY Zenon, <1>2
  <2> QED BY Zenon, <1>1, <1>5, <1>7, <2>1, <2>2, Dirs, Names DEF FreshInv, Made
<1> QED BY Zenon, <1>7, <1>8 DEF FreshInv

LEMMA EditFresh ==
  ASSUME TypeOK, FreshInv, NEW d \in EditDirs, NEW entry \in BOOLEAN, Edit(d, entry)
  PROVE  FreshInv'
<1>0. d \in Dir
  BY Zenon, HostAssumption DEF HostAssumption
<1>1. Idle' /\ UNCHANGED <<tools, sources, art>> /\ d \in sources \cup {"ramdisk"}
  BY Zenon DEF Edit, Idle, make
<1>2. /\ ver'[d] = ver[d] + 1 /\ \A e \in Dir \ {d} : ver'[e] = ver[e]
  BY SMTT(30), <1>0 DEF Edit, TypeOK
<1>3. \A a : Own(a)' <=> Own(a)
  BY Zenon, <1>1 DEF Own
<1>4. CASE ~entry
  <2>1. UNCHANGED <<stamp, outdated>>
    BY Zenon, <1>4 DEF Edit
  <2>2. Dated'
    BY SMTT(30), <1>0, <1>1, <1>2, <2>1, VerTypes DEF FreshInv, Dated
  <2>3. Lasting'
    BY Zenon, <1>1, <1>3, <2>1 DEF FreshInv, Lasting, Current
  <2> QED BY Zenon, <1>1, <2>2, <2>3 DEF FreshInv, Made
<1>5. CASE entry
  <2>1. /\ stamp' = [stamp EXCEPT ![d] = ver[d] + 1]
        /\ outdated' = outdated \cup (IF d \in Pkg THEN {Deb[d]} ELSE {"initrd.img"})
    BY Zenon, <1>5 DEF Edit
  <2>2. stamp'[d] = ver[d] + 1 /\ \A e \in Dir \ {d} : stamp'[e] = stamp[e]
    BY SMTT(30), <1>0, <2>1 DEF TypeOK
  <2>3. Dated'
    <3>1. \A e \in Dir : stamp'[e] <= ver'[e]
      BY SMTT(30), <1>0, <1>2, <2>2, VerTypes DEF FreshInv, Dated
    <3>2. "ramdisk" \notin Pkg
      BY DEF Pkg
    <3>3. \A p \in Pkg \ sources : p # d
      BY Zenon, <1>1, <3>2
    <3>4. \A p \in Pkg \ sources : stamp'[p] = 0
      BY Zenon, <2>2, <3>3, Names DEF FreshInv, Dated
    <3> QED BY Zenon, <1>1, <3>1, <3>4 DEF Dated
  <2>4. \A a \in Plain : DirOf[a] = d => a \in outdated'
    BY SMTT(30), <2>1 DEF Plain, Debs, DirOf, Pkg, Deb
  <2>5. \A a : Current(a)' => Current(a)
    BY Zenon, <1>1, <2>1 DEF Current
  <2>6. \A a \in Plain : Current(a)' => stamp'[DirOf[a]] = stamp[DirOf[a]]
    BY Zenon, <2>2, <2>4, Dirs DEF Current
  <2>7. Current("initrd.img")' => stamp'["ramdisk"] = stamp["ramdisk"]
    BY Zenon, <2>6, Names, Dirs
  <2>8. Lasting'
    <3>1. ASSUME NEW a \in Plain, Current(a)', Own(a)'
          PROVE  art'[a].ver >= stamp'[DirOf[a]]
      <4>1. art[a].ver >= stamp[DirOf[a]]
        BY Zenon, <1>3, <2>5, <3>1 DEF FreshInv, Lasting
      <4> QED BY Zenon, <1>1, <2>6, <3>1, <4>1
    <3>2. ASSUME Current("boot.img")', Current("initrd.img")'
          PROVE  art'["boot.img"].ver >= stamp'["ramdisk"]
      <4>1. art["boot.img"].ver >= stamp["ramdisk"]
        BY Zenon, <2>5, <3>2 DEF FreshInv, Lasting
      <4> QED BY Zenon, <1>1, <2>7, <3>2, <4>1
    <3> QED BY Zenon, <3>1, <3>2 DEF Lasting
  <2> QED BY Zenon, <1>1, <2>3, <2>8 DEF FreshInv, Made
<1> QED BY Zenon, <1>4, <1>5

LEMMA UserFresh ==
  ASSUME TypeOK, FreshInv, User
  PROVE  FreshInv'
<1> USE DEF inputs, images, tree, host, make
<1>1. ASSUME NEW g, NEW q, StartMake(g, q) PROVE FreshInv'
  <2>1. UNCHANGED <<tools, sources, ver, stamp, art, outdated>>
    BY Zenon, <1>1 DEF StartMake
  <2>2. \A a \in Art : pc'[a] = "todo"
    <3>1. \A a \in Art : a \in Needed(g, q)
      BY SMTT(30) DEF Needed, Target, Art, Debs
    <3> QED BY Zenon, <1>1, <3>1, Names DEF StartMake
  <2>3. \A a : (Current(a)' <=> Current(a)) /\ (Own(a)' <=> Own(a))
    BY Zenon, <2>1 DEF Current, Own
  <2>4. Dated' /\ Lasting'
    BY Zenon, <2>1, <2>3 DEF FreshInv, Dated, Lasting
  <2>5. Made'
    <3>1. \A a \in Art : pc'[a] # "done"
      BY Zenon, <2>2
    <3> QED BY Zenon, <2>2, <3>1, Dirs, Names DEF Made
  <2> QED BY Zenon, <2>4, <2>5 DEF FreshInv
<1>2. ASSUME NEW p \in Pkg, Package(p) PROVE FreshInv'
  <2>1. Idle' /\ UNCHANGED inputs /\ Write(Deb[p], TRUE)
    BY Zenon, <1>2 DEF Package, Idle
  <2>2. Deb[p] \in Art
    BY Zenon, Dirs, Names
  <2>3. Wrote({Deb[p]})
    <3>1. art' = [art EXCEPT ![Deb[p]] = Built(Deb[p], TRUE)] /\ outdated' = Stamped({Deb[p]})
      BY Zenon, <2>1 DEF Write
    <3>2. /\ art'[Deb[p]] = Built(Deb[p], TRUE)
          /\ \A b \in Art \ {Deb[p]} : art'[b] = art[b]
      BY Zenon, <2>2, <3>1 DEF TypeOK
    <3> QED BY Zenon, <3>1, <3>2 DEF Wrote
  <2>4. {Deb[p]} \in SUBSET Art
    BY Zenon, <2>2
  <2>5. Dated' /\ Lasting'
    BY Zenon, <2>1, <2>3, <2>4, WroteFresh DEF FreshInv
  <2> QED BY Zenon, <2>1, <2>5 DEF FreshInv, Made
<1>3. CASE Clean
  <2>1. Idle' /\ UNCHANGED <<tools, sources, ver, stamp>>
    BY Zenon, <1>3 DEF Clean, Idle
  <2>2. \A a \in Art : ~Current(a)'
    <3>1. ~Absent.there
      BY DEF Absent
    <3> QED BY Zenon, <1>3, <3>1 DEF Clean, Current
  <2>3. Dated' /\ Lasting'
    BY Zenon, <2>1, <2>2, Names DEF FreshInv, Dated, Lasting
  <2> QED BY Zenon, <2>1, <2>3 DEF FreshInv, Made
<1>4. CASE Reboot
  <2>1. Idle' /\ UNCHANGED <<tools, sources, ver, stamp, art, outdated>>
    BY Zenon, <1>4 DEF Reboot, Idle
  <2> QED BY Zenon, <2>1, Still
<1> QED BY Zenon, <1>1, <1>2, <1>3, <1>4, EditFresh DEF User
-----------------------------------------------------------------------------
LEMMA FreshInit == Init => FreshInv
<1> SUFFICES ASSUME Init PROVE FreshInv
  OBVIOUS
<1>1. \A d \in Dir : stamp[d] = 0 /\ ver[d] = 0
  BY Zenon DEF Init
<1>2. Dated
  <2>1. \A d \in Dir : stamp[d] <= ver[d]
    BY SMTT(30), <1>1
  <2> QED BY Zenon, <1>1, <2>1, Names DEF Dated
<1>3. \A a \in Art : ~Current(a)
  <2>1. ~Absent.there
    BY DEF Absent
  <2> QED BY Zenon, <2>1 DEF Init, Current
<1>4. Lasting
  BY Zenon, <1>3, Names DEF Lasting
<1>5. Made
  BY Zenon DEF Init, Made, Idle
<1> QED BY Zenon, <1>2, <1>4, <1>5 DEF FreshInv

LEMMA FreshStep ==
  TypeOK /\ MountInv /\ BuildInv /\ FreshInv /\ [Next]_vars => FreshInv'
<1> SUFFICES ASSUME TypeOK, MountInv, BuildInv, FreshInv, [Next]_vars PROVE FreshInv'
  OBVIOUS
<1>1. CASE Recipe
  BY Zenon, <1>1, FetchFresh, FilesFresh, OthersFresh DEF Recipe, Local
<1>2. CASE UNCHANGED vars
  <2>1. UNCHANGED <<tools, sources, ver, stamp, art, outdated, phase, pc>>
    BY Zenon, <1>2 DEF vars, inputs, images, make
  <2> QED BY Zenon, <2>1, Still DEF Idle
<1> QED BY Zenon, <1>1, <1>2, MakeFresh, UserFresh, SignalFresh DEF Next, Make

\* Only the exit of make reports a success.
LEMMA Succeeded ==
  ASSUME TypeOK, MountInv, [Next]_vars, ~Idle, phase' = "idle", result' = "ok"
  PROVE  UNCHANGED <<tools, stamp, art>> /\ \A t \in Target : pc[t] = "done"
<1>1. ~User
  BY Zenon DEF User, StartMake, Package, Edit, Clean, Reboot
<1>2. \A s : ~Signal(s)
  <2>1. "failing" # "idle"
    OBVIOUS
  <2> QED BY Zenon, <2>1 DEF Signal
<1>3. \A t \in Target : ~NoRule(t) /\ ~Visit(t)
  BY Zenon, PcAfter DEF NoRule, Visit, Idle
<1>4. ~Recipe
  <2>1. \A t, l, f : ~Goto(t, l, f) /\ ~Abort(t, f)
    <3>1. "failing" # "idle"
      OBVIOUS
    <3> QED BY Zenon, <3>1 DEF Goto, Abort, Idle
  <2>2. ~CheckPackages /\ ~CheckTools /\ ~PackInitrd /\ ~MakeBootImg
    BY Zenon, <2>1 DEF CheckPackages, Fetch, CheckTools, PackInitrd, MakeBootImg
  <2>3. (\A a \in Debs : ~BuildDeb(a)) /\ ~Debootstrap /\ ~CopyFiles
    BY Zenon, <2>1 DEF BuildDeb, Debootstrap, DebrootStep, CopyFiles, CopyStep
  <2>4. ~QemuMount /\ ~QemuChroot /\ ~QemuUmount
    BY Zenon, <2>1 DEF QemuMount, QemuChroot, Chain, QemuUmount
  <2>5. ~MakeTar /\ ~AllDone /\ ~Install
    BY Zenon, <2>1 DEF MakeTar, TarFails, AllDone, Install
  <2> QED BY Zenon, <2>2, <2>3, <2>4, <2>5 DEF Recipe, Local
<1>5. phase' # phase
  BY Zenon DEF Idle
<1>6. MakeExit
  BY Zenon, <1>1, <1>2, <1>3, <1>4, <1>5 DEF Next, Make, vars, make
<1>7. "fail" # "ok"
  OBVIOUS
<1> QED BY Zenon, <1>6, <1>7 DEF MakeExit, inputs, images

\* A make that succeeds leaves a boot.img and packages no older than the last
\* change make can see, for every number of jobs and edits, every directory
\* edited, and every order of failures, signals and repeated builds.
THEOREM OutputsFresh == Spec => FreshOutputs
<1>1. TypeOK /\ MountInv /\ FreshInv /\ [Next]_vars =>
        [~Idle /\ phase' = "idle" /\ result' = "ok" /\ "debuild" \in tools
         => /\ art["boot.img"].ver >= stamp["ramdisk"]
            /\ \A p \in Pkg : art[Deb[p]].ver >= stamp[p]]_vars
  <2> SUFFICES ASSUME TypeOK, MountInv, FreshInv, [Next]_vars,
                      ~Idle, phase' = "idle", result' = "ok", "debuild" \in tools
               PROVE  /\ art["boot.img"].ver >= stamp["ramdisk"]
                      /\ \A p \in Pkg : art[Deb[p]].ver >= stamp[p]
    BY Zenon
  <2>1. \A a \in Art : pc[a] = "done"
    BY Zenon, Succeeded, Names
  <2>2. \A a \in Art : Own(a) /\ Current(a)
    BY Zenon, <2>1 DEF Own, FreshInv, Made
  <2> QED BY Zenon, <2>2, Names, Dirs DEF FreshInv, Lasting
<1> QED BY <1>1, BuildInvariant, FreshInit, FreshStep, PTL DEF Spec, FreshOutputs
-----------------------------------------------------------------------------
\* The labels that the recipe of qemu-install goes through.
Chroot == {"todo", "done", "failed", "mount", "second stage", "dpkg", "rm debs",
           "adduser", "sudo", "umount, ok", "umount, fail"}

\* A running make has seen no target fail, it has found the sources of every
\* target it began, and qemubootstrap is in one of its own steps.
Walking ==
    /\ phase = "run" => \A t \in Target : pc[t] # "failed"
    /\ ~Idle => \A t \in Target : pc[t] \notin {"todo", "failed"} => SrcOf[t] \subseteq sources
    /\ pc["qemu-install"] \in Chroot
    /\ SourcesNeeded

\* A step of target t that brings it nearer to its end.
Onwards(t) ==
    /\ UNCHANGED sources
    /\ \E l, f : /\ (Goto(t, l, f) /\ l # "failed") \/ (Abort(t, f) /\ l = "failed")
                 /\ Left[l] < Left[pc[t]]
                 /\ Active(t) \/ l = "failed" \/ SrcOf[t] \subseteq sources
                 /\ t = "qemu-install" => l \in Chroot

\* The order of the steps in each recipe.
LEMMA LeftIs ==
  /\ Left["done"] = 0 /\ Left["failed"] = 0 /\ Left["run"] = 1 /\ Left["tools"] = 1
  /\ Left["|| rm"] = 1 /\ Left["debs"] = 1 /\ Left["umount, ok"] = 1
  /\ Left["umount, fail"] = 1 /\ Left["packages"] = 2 /\ Left["first stage"] = 2
  /\ Left["modules"] = 2 /\ Left["sudo"] = 2 /\ Left["debootstrap"] = 3
  /\ Left["editor"] = 3 /\ Left["adduser"] = 3 /\ Left["rm"] = 4 /\ Left["conf"] = 4
  /\ Left["rm debs"] = 4 /\ Left["dpkg"] = 5 /\ Left["second stage"] = 6
  /\ Left["mount"] = 7 /\ Left["todo"] = 8
  BY SMTT(60) DEF Left, Labels

LEMMA LeftNat == \A l \in Labels : Left[l] \in Nat /\ Left[l] <= Left[l]
<1>1. \A n \in {0, 1, 2, 3, 4, 5, 6, 7, 8} : n \in Nat /\ n <= n
  BY SMTT(30)
<1>2. \A l \in Labels : Left[l] \in {0, 1, 2, 3, 4, 5, 6, 7, 8}
  BY Zenon, LeftIs DEF Labels
<1> QED BY Zenon, <1>1, <1>2

LEMMA Nearer ==
  /\ \A l \in Labels \ {"todo", "done", "failed"} :
        Left["done"] < Left[l] /\ Left["failed"] < Left[l] /\ Left[l] < Left["todo"]
  /\ Left["done"] < Left["todo"] /\ Left["failed"] < Left["todo"]
  /\ Left["tools"] < Left["packages"]
  /\ Left["debootstrap"] < Left["rm"] /\ Left["first stage"] < Left["debootstrap"]
  /\ Left["|| rm"] < Left["debootstrap"] /\ Left["|| rm"] < Left["first stage"]
  /\ Left["editor"] < Left["conf"] /\ Left["modules"] < Left["editor"]
  /\ Left["debs"] < Left["modules"]
  /\ Left["second stage"] < Left["mount"] /\ Left["dpkg"] < Left["second stage"]
  /\ Left["rm debs"] < Left["dpkg"] /\ Left["adduser"] < Left["rm debs"]
  /\ Left["sudo"] < Left["adduser"] /\ Left["umount, ok"] < Left["sudo"]
  /\ \A l \in {"mount", "second stage", "dpkg", "rm debs", "adduser", "sudo"} :
        Left["umount, fail"] < Left[l]
<1>1. 0 < 1 /\ \A n \in {1, 2, 3, 4, 5, 6, 7} : 0 < n /\ n < 8
  BY SMTT(30)
<1>2. 0 < 8 /\ \A n \in {2, 3, 4, 5, 6, 7} : 1 < n
  BY SMTT(30)
<1>3. \A l \in Labels \ {"todo", "done", "failed"} : Left[l] \in {1, 2, 3, 4, 5, 6, 7}
  BY Zenon, LeftIs DEF Labels
<1>4. \A l \in {"mount", "second stage", "dpkg", "rm debs", "adduser", "sudo"} :
        Left[l] \in {2, 3, 4, 5, 6, 7}
  BY Zenon, LeftIs
<1>5. \A l \in Labels \ {"todo", "done", "failed"} :
        Left["done"] < Left[l] /\ Left["failed"] < Left[l] /\ Left[l] < Left["todo"]
  BY Zenon, <1>1, <1>3, LeftIs
<1>6. \A l \in {"mount", "second stage", "dpkg", "rm debs", "adduser", "sudo"} :
        Left["umount, fail"] < Left[l]
  BY Zenon, <1>2, <1>4, LeftIs
<1>7. 1 < 2 /\ 1 < 3 /\ 2 < 3 /\ 3 < 4 /\ 4 < 5 /\ 5 < 6 /\ 6 < 7
  BY SMTT(30)
<1> QED BY Zenon, <1>2, <1>5, <1>6, <1>7, LeftIs

\* Every step of a recipe is nearer to its end than the one before it.
LEMMA RecipeOnwards ==
  ASSUME Recipe
  PROVE  \E t \in Target : Active(t) /\ Onwards(t)
<1> USE DEF inputs
<1>0. /\ {"check", "initrd.img", "boot.img", "debroot", "copy-files", "qemu-install",
         "debroot.tar", "all", "install-to-device"} \subseteq Target
      /\ Debs \subseteq Target /\ "qemu-install" \notin Debs
  BY DEF Target, Art, Debs
<1>1. \A l \in {"packages", "tools", "run", "rm", "debootstrap", "first stage", "|| rm",
                "conf", "editor", "modules", "debs", "umount, ok", "umount, fail"} :
         Left["done"] < Left[l] /\ Left["failed"] < Left[l]
  BY Zenon, Nearer DEF Labels
<1>2. CASE CheckPackages \/ CheckTools
  <2>1. \/ pc["check"] = "packages" /\ \E f : Goto("check", "tools", f)
        \/ pc["check"] = "tools" /\ Goto("check", "done", FALSE)
        \/ pc["check"] \in {"packages", "tools"} /\ Abort("check", TRUE)
    BY Zenon, <1>2 DEF CheckPackages, Fetch, CheckTools
  <2>2. UNCHANGED sources
    BY Zenon, <1>2 DEF CheckPackages, CheckTools
  <2>3. PICK l, f : /\ (Goto("check", l, f) /\ l # "failed")
                          \/ (Abort("check", f) /\ l = "failed")
                    /\ Left[l] < Left[pc["check"]]
    BY Zenon, <1>1, <2>1, Nearer
  <2>4. Active("check")
    BY Zenon, <2>1 DEF Active
  <2> QED BY Zenon, <1>0, <2>2, <2>3, <2>4 DEF Onwards
<1>3. CASE PackInitrd \/ MakeBootImg
  BY Zenon, <1>0, <1>1, <1>3 DEF PackInitrd, MakeBootImg, Onwards, Active
<1>4. CASE \E a \in Debs : BuildDeb(a)
  BY Zenon, <1>0, <1>1, <1>4 DEF BuildDeb, Onwards, Active
<1>5. CASE Debootstrap
  <2>1. /\ pc["debroot"] \in {"rm", "debootstrap", "first stage", "|| rm"}
        /\ \/ Abort("debroot", TRUE)
           \/ Goto("debroot", "done", FALSE)
           \/ pc["debroot"] = "rm" /\ Goto("debroot", "debootstrap", FALSE)
           \/ pc["debroot"] = "debootstrap" /\ Goto("debroot", "first stage", FALSE)
           \/ /\ pc["debroot"] \in {"debootstrap", "first stage"}
              /\ Goto("debroot", "|| rm", TRUE)
    BY Zenon, <1>5 DEF Debootstrap, DebrootStep
  <2>2. UNCHANGED sources
    BY Zenon, <1>5 DEF Debootstrap
  <2>3. PICK l, f : /\ (Goto("debroot", l, f) /\ l # "failed")
                          \/ (Abort("debroot", f) /\ l = "failed")
                    /\ Left[l] < Left[pc["debroot"]]
    BY Zenon, <1>1, <2>1, Nearer
  <2>4. Active("debroot")
    BY Zenon, <2>1 DEF Active
  <2> QED BY Zenon, <1>0, <2>2, <2>3, <2>4 DEF Onwards
<1>6. CASE CopyFiles
  <2>1. /\ pc["copy-files"] \in {"conf", "editor", "modules", "debs"}
        /\ \/ \E f : Abort("copy-files", f)
           \/ pc["copy-files"] = "conf" /\ Goto("copy-files", "editor", FALSE)
           \/ pc["copy-files"] = "editor" /\ Goto("copy-files", "modules", FALSE)
           \/ pc["copy-files"] = "modules" /\ Goto("copy-files", "debs", FALSE)
           \/ pc["copy-files"] = "debs" /\ Goto("copy-files", "done", FALSE)
    BY Zenon, <1>6 DEF CopyFiles, CopyStep
  <2>2. UNCHANGED sources
    BY Zenon, <1>6 DEF CopyFiles
  <2>3. PICK l, f : /\ (Goto("copy-files", l, f) /\ l # "failed")
                          \/ (Abort("copy-files", f) /\ l = "failed")
                    /\ Left[l] < Left[pc["copy-files"]]
    BY Zenon, <1>1, <2>1, Nearer
  <2>4. Active("copy-files")
    BY Zenon, <2>1 DEF Active
  <2> QED BY Zenon, <1>0, <2>2, <2>3, <2>4 DEF Onwards
<1>7. CASE QemuMount \/ QemuUmount
  BY Zenon, <1>0, <1>1, <1>7, Nearer DEF QemuMount, QemuUmount, Onwards, Active, Chroot
<1>8. CASE QemuChroot
  BY Zenon, <1>0, <1>8, Nearer DEF QemuChroot, Chain, Onwards, Active, Chroot
<1>9. CASE MakeTar \/ AllDone \/ Install
  BY Zenon, <1>0, <1>1, <1>9 DEF MakeTar, TarFails, AllDone, Install, Onwards, Active
<1> QED BY Zenon, <1>2, <1>3, <1>4, <1>5, <1>6, <1>7, <1>8, <1>9 DEF Recipe, Local

LEMMA WalkOnwards ==
  ASSUME NEW t \in Target, NoRule(t) \/ Visit(t)
  PROVE  phase = "run" /\ Onwards(t)
<1>1. phase = "run" /\ pc[t] = "todo" /\ UNCHANGED sources
  BY Zenon DEF NoRule, Visit, Ready, inputs
<1>2. /\ FirstStep[t] \in Labels \ {"todo", "done", "failed"}
      /\ t = "qemu-install" => FirstStep[t] = "mount"
  BY DEF FirstStep, Labels, Target
<1>3. CASE NoRule(t)
  BY Zenon, <1>1, <1>3, Nearer DEF NoRule, Onwards, Chroot
<1>4. CASE Visit(t)
  <2> DEFINE l == IF OutOfDate(t) THEN FirstStep[t] ELSE "done"
  <2>1. l # "failed" /\ Left[l] < Left["todo"] /\ (t = "qemu-install" => l \in Chroot)
    BY Zenon, <1>2, Nearer DEF Chroot
  <2> QED BY Zenon, <1>1, <1>4, <2>1 DEF Visit, Onwards
<1> QED BY Zenon, <1>1, <1>3, <1>4

\* What OnlyForward says of one step.
Forward ==
    /\ \A t \in Target : Left[pc'[t]] <= Left[pc[t]]
    /\ \/ \E t \in Target : Left[pc'[t]] < Left[pc[t]]
       \/ /\ pc["qemu-install"] \in {"umount, ok", "umount, fail"}
          /\ pc'["qemu-install"] = "umount, fail"

LEMMA OnwardsForward ==
  ASSUME TypeOK, TypeOK', NEW t \in Target, Onwards(t)
  PROVE  Forward
<1>1. PICK l, f : /\ Goto(t, l, f) \/ (Abort(t, f) /\ l = "failed")
                  /\ Left[l] < Left[pc[t]]
  BY Zenon DEF Onwards
<1>2. pc'[t] = l /\ \A u \in Target \ {t} : pc'[u] = pc[u]
  BY Zenon, <1>1, PcAfter
<1>3. \A u \in Target : pc[u] \in Labels /\ pc'[u] \in Labels
  BY Zenon DEF TypeOK
<1>4. Left[pc'[t]] <= Left[pc[t]]
  <2>1. Left[pc'[t]] \in Nat /\ Left[pc[t]] \in Nat
    BY Zenon, <1>3, LeftNat
  <2>2. Left[pc'[t]] < Left[pc[t]]
    BY Zenon, <1>1, <1>2
  <2> QED BY SMTT(30), <2>1, <2>2
<1>5. \A u \in Target \ {t} : Left[pc'[u]] <= Left[pc[u]]
  BY Zenon, <1>2, <1>3, LeftNat
<1> QED BY Zenon, <1>1, <1>2, <1>4, <1>5 DEF Forward

\* A signal ends every recipe but qemubootstrap, which goes on to unmount.
LEMMA SignalForward ==
  ASSUME TypeOK, Walking, NEW s, Signal(s)
  PROVE  Forward
<1>1. PICK t \in Target : Active(t)
  BY Zenon DEF Signal
<1>2. \A u \in Target : \/ ~Active(u) /\ pc'[u] = pc[u]
                        \/ Active(u) /\ pc'[u] = "failed"
                        \/ /\ Active(u) /\ u = "qemu-install"
                           /\ pc'[u] = "umount, fail"
  BY Zenon DEF Signal
<1>3. \A u \in Target : /\ pc[u] \in Labels
                        /\ Active(u) => pc[u] \in Labels \ {"todo", "done", "failed"}
  BY Zenon DEF TypeOK, Active
<1>4. \A u \in Target : pc'[u] = pc[u] => Left[pc'[u]] <= Left[pc[u]]
  BY Zenon, <1>3, LeftNat
<1>5. \A u \in Target : Active(u) /\ pc'[u] = "failed" => Left[pc'[u]] < Left[pc[u]]
  BY Zenon, <1>3, Nearer
<1>6. Active("qemu-install") =>
        \/ Left["umount, fail"] < Left[pc["qemu-install"]]
        \/ pc["qemu-install"] \in {"umount, ok", "umount, fail"}
  BY Zenon, Nearer DEF Walking, Chroot, Active
<1>7. \A x, y \in Labels : Left[x] < Left[y] => Left[x] <= Left[y]
  <2>1. \A i, j \in Nat : i < j => i <= j
    BY SMTT(30)
  <2> QED BY Zenon, <2>1, LeftNat
<1>8. \A u \in Target : Left[pc'[u]] <= Left[pc[u]]
  <2>1. \A u \in Target : Active(u) /\ pc'[u] = "failed" => Left[pc'[u]] <= Left[pc[u]]
    <3>1. "failed" \in Labels
      BY DEF Labels
    <3> QED BY Zenon, <1>3, <1>5, <1>7, <3>1
  <2>2. Active("qemu-install") => Left["umount, fail"] <= Left[pc["qemu-install"]]
    <3>1. "qemu-install" \in Target /\ "umount, fail" \in Labels
      BY DEF Target, Labels
    <3>2. 1 <= 1
      BY SMTT(30)
    <3>3. \A l \in {"umount, ok", "umount, fail"} : Left["umount, fail"] <= Left[l]
      BY Zenon, <3>2, LeftIs
    <3> QED BY Zenon, <1>3, <1>6, <1>7, <3>1, <3>3
  <2> QED BY Zenon, <1>2, <1>4, <2>1, <2>2
<1> QED BY Zenon, <1>1, <1>2, <1>5, <1>6, <1>8 DEF Forward

\* The steps that are neither the user's nor make's exit.
LEMMA ForwardStep ==
  ASSUME TypeOK, TypeOK', MountInv, Walking, [Next]_vars, ~Idle, phase' # "idle",
         vars' # vars
  PROVE  Forward
<1>1. ~User
  BY Zenon DEF User, StartMake, Package, Edit, Clean, Reboot
<1>2. ~MakeExit
  BY Zenon DEF MakeExit
<1> QED BY Zenon, <1>1, <1>2, RecipeOnwards, WalkOnwards, OnwardsForward, SignalForward
         DEF Next, Make
-----------------------------------------------------------------------------
LEMMA WalkingInit == Init => Walking
<1>1. "none" # "ok" /\ "idle" # "run"
  OBVIOUS
<1>2. "qemu-install" \in Target
  BY DEF Target
<1> QED BY Zenon, <1>1, <1>2 DEF Init, Walking, SourcesNeeded, Idle, Chroot

\* Which target needs which source.
LEMMA SourceOf ==
  /\ SrcOf["install-to-device"] = {} /\ SrcOf["qemu-install"] = {}
  /\ \A x \in Source : \E t \in Target : x \in SrcOf[t]
<1>1. SrcOf["install-to-device"] = {} /\ SrcOf["qemu-install"] = {}
  BY DEF SrcOf, Target
<1>2. /\ SrcOf["boot.img"] = {"zImage"} /\ SrcOf["bananui-base.deb"] = {"bananui-base"}
      /\ SrcOf["device-startup.deb"] = {"device-startup"}
  BY DEF SrcOf, Target, Art, Debs
<1>3. {"boot.img", "bananui-base.deb", "device-startup.deb"} \subseteq Target
  BY DEF Target, Art, Debs
<1>4. Source = {"bananui-base", "device-startup", "zImage"}
  BY DEF Source, Pkg
<1> QED BY Zenon, <1>1, <1>2, <1>3, <1>4

LEMMA OnwardsWalking ==
  ASSUME TypeOK, Walking, ~Idle, NEW t \in Target, Onwards(t), Active(t) \/ phase = "run"
  PROVE  Walking'
<1>0. "qemu-install" \in Target
  BY DEF Target
<1>1. PICK l, f : /\ (Goto(t, l, f) /\ l # "failed") \/ (Abort(t, f) /\ l = "failed")
                  /\ Active(t) \/ l = "failed" \/ SrcOf[t] \subseteq sources
                  /\ t = "qemu-install" => l \in Chroot
  BY Zenon DEF Onwards
<1>2. /\ pc'[t] = l /\ ~Idle' /\ UNCHANGED sources
      /\ \A u \in Target \ {t} : pc'[u] = pc[u]
  BY Zenon, <1>1, PcAfter DEF Onwards
<1>3. phase' = "run" => \A u \in Target : pc'[u] # "failed"
  <2>1. phase' = "run" => phase = "run" /\ l # "failed"
    <3>1. "failing" # "run"
      OBVIOUS
    <3> QED BY Zenon, <1>1, <3>1 DEF Goto, Abort
  <2> QED BY Zenon, <1>2, <2>1 DEF Walking
<1>4. \A u \in Target : pc'[u] \notin {"todo", "failed"} => SrcOf[u] \subseteq sources
  <2>1. Active(t) => SrcOf[t] \subseteq sources
    BY Zenon DEF Active, Walking
  <2> QED BY Zenon, <1>1, <1>2, <2>1 DEF Walking
<1>5. pc'["qemu-install"] \in Chroot
  BY Zenon, <1>0, <1>1, <1>2 DEF Walking
<1> QED BY Zenon, <1>2, <1>3, <1>4, <1>5 DEF Walking, SourcesNeeded

LEMMA SignalWalking ==
  ASSUME TypeOK, Walking, ~Idle, NEW s, Signal(s)
  PROVE  Walking'
<1>0. "qemu-install" \in Target
  BY DEF Target
<1>1. phase' = "failing" /\ ~Idle' /\ UNCHANGED sources
  BY Zenon DEF Signal, Idle, inputs
<1>2. \A u \in Target : \/ pc'[u] = pc[u]
                        \/ Active(u) /\ pc'[u] = "failed"
                        \/ Active(u) /\ pc'[u] = "umount, fail"
  BY Zenon DEF Signal
<1>3. \A u \in Target : pc'[u] \notin {"todo", "failed"} => SrcOf[u] \subseteq sources
  BY Zenon, <1>2 DEF Walking, Active
<1>4. pc'["qemu-install"] \in Chroot
  BY Zenon, <1>0, <1>2 DEF Walking, Chroot
<1>5. "failing" # "run"
  OBVIOUS
<1> QED BY Zenon, <1>1, <1>3, <1>4, <1>5 DEF Walking, SourcesNeeded

\* make exits, and what the user does between two invocations.
LEMMA IdleWalking ==
  ASSUME TypeOK, Walking, MakeExit \/ User
  PROVE  Walking'
<1> USE DEF inputs, images, tree, host, make
<1>0. "qemu-install" \in Target /\ "idle" # "run" /\ "none" # "ok" /\ "fail" # "ok"
  BY DEF Target
<1>1. CASE MakeExit
  <2>1. ~Idle /\ Idle' /\ UNCHANGED <<sources, pc>>
    BY Zenon, <1>1 DEF MakeExit, Idle
  <2>2. result' = "ok" => \A t \in Target : pc[t] = "done"
    BY Zenon, <1>0, <1>1 DEF MakeExit
  <2>3. result' = "ok" => Source \subseteq sources
    <3>1. "done" \notin {"todo", "failed"}
      BY Zenon
    <3>2. result' = "ok" => \A t \in Target : SrcOf[t] \subseteq sources
      BY Zenon, <2>1, <2>2, <3>1 DEF Walking
    <3> QED BY Zenon, <3>2, SourceOf
  <2> QED BY Zenon, <1>0, <2>1, <2>3 DEF Walking, SourcesNeeded, Idle
<1>2. ASSUME NEW g, NEW q, StartMake(g, q) PROVE Walking'
  <2>1. /\ ~Idle' /\ UNCHANGED sources
        /\ \A t \in Target : pc'[t] = IF t \in Needed(g, q) THEN "todo" ELSE "done"
    BY Zenon, <1>2 DEF StartMake, Idle
  <2>2. \A t \in Target : t \notin Needed(g, q) => SrcOf[t] = {}
    BY Zenon, SourceOf DEF Needed
  <2>3. \A t \in Target : pc'[t] \notin {"todo", "failed"} => SrcOf[t] \subseteq sources
    BY Zenon, <2>1, <2>2
  <2>4. \A t \in Target : pc'[t] # "failed" /\ pc'[t] \in Chroot
    BY Zenon, <2>1 DEF Chroot
  <2> QED BY Zenon, <1>0, <2>1, <2>3, <2>4 DEF Walking, SourcesNeeded
<1>3. CASE Clean \/ Reboot \/ (\E p \in Pkg : Package(p))
             \/ \E d \in EditDirs, e \in BOOLEAN : Edit(d, e)
  <2>1. /\ Idle' /\ phase' = "idle" /\ UNCHANGED <<sources, pc>> /\ Idle
        /\ UNCHANGED result \/ result' = "none"
    BY Zenon, <1>3 DEF Clean, Reboot, Package, Edit, Idle
  <2> QED BY Zenon, <1>0, <2>1 DEF Walking, SourcesNeeded
<1> QED BY Zenon, <1>1, <1>2, <1>3 DEF User

LEMMA WalkingStep == TypeOK /\ MountInv /\ Walking /\ [Next]_vars => Walking'
<1> SUFFICES ASSUME TypeOK, MountInv, Walking, [Next]_vars PROVE Walking'
  OBVIOUS
<1>1. CASE Recipe
  <2>1. PICK t \in Target : Active(t) /\ Onwards(t)
    BY Zenon, <1>1, RecipeOnwards
  <2> QED BY Zenon, <2>1, Running, OnwardsWalking
<1>2. ASSUME NEW t \in Target, NoRule(t) \/ Visit(t) PROVE Walking'
  <2>1. "run" # "idle"
    OBVIOUS
  <2> QED BY Zenon, <1>2, <2>1, WalkOnwards, OnwardsWalking DEF Idle
<1>3. ASSUME NEW s \in Signals, Signal(s) PROVE Walking'
  BY Zenon, <1>3, Running, SignalWalking DEF Signal
<1>4. CASE UNCHANGED vars
  BY Zenon, <1>4 DEF vars, inputs, make, Walking, SourcesNeeded, Idle
<1> QED BY Zenon, <1>1, <1>2, <1>3, <1>4, IdleWalking DEF Next, Make

LEMMA WalkingInvariant == Spec => [](TypeOK /\ MountInv /\ BuildInv /\ Walking)
  BY BuildInvariant, WalkingInit, WalkingStep, PTL DEF Spec

\* make succeeds only where the kernel and the package sources are, with any
\* number of jobs and whatever scripts/check downloads.
THEOREM NoBuildWithoutSources == Spec => []SourcesNeeded
<1>1. Walking => SourcesNeeded
  BY Zenon DEF Walking
<1> QED BY <1>1, WalkingInvariant, PTL

\* Every step of a running make brings a recipe nearer to its end and takes
\* none back: a make, whatever fails in it, takes at most as many steps as
\* its recipes have, but for signals to a qemubootstrap that is unmounting.
THEOREM MakeGoesForward == Spec => OnlyForward
<1>1. TypeOK /\ TypeOK' /\ MountInv /\ Walking /\ [Next]_vars =>
        [~Idle /\ phase' # "idle" => Forward]_vars
  BY Zenon, ForwardStep
<1>2. [~Idle /\ phase' # "idle" => Forward]_vars =>
        [~Idle /\ phase' # "idle" =>
          /\ \A t \in Target : Left[pc'[t]] <= Left[pc[t]]
          /\ \/ \E t \in Target : Left[pc'[t]] < Left[pc[t]]
             \/ /\ pc["qemu-install"] \in {"umount, ok", "umount, fail"}
                /\ pc'["qemu-install"] = "umount, fail"]_vars
  BY Zenon DEF Forward
<1> QED BY <1>1, <1>2, WalkingInvariant, PTL DEF Spec, OnlyForward
-----------------------------------------------------------------------------
\* The walk of a serial make comes to the prerequisites first.
LEMMA WalkOrder ==
  /\ \A t \in Target : Pos[t] \in 1..11
  /\ \A t \in Target : \A u \in Prereq[t] : u \in Target /\ Pos[u] < Pos[t]
<1>1. \A t \in Target : Pos[t] \in 1..11
  BY DEF Pos, Target, Art, Debs
<1>2. \A t \in Target : Prereq[t] \subseteq Before(t)
  BY Zenon DEF Before
<1>3. ASSUME NEW t \in Target, NEW u \in Prereq[t] PROVE Pos[u] < Pos[t]
  BY SMTT(60) DEF Pos, Prereq, Target, Art, Debs
<1> QED BY Zenon, <1>1, <1>2, <1>3, BeforeType

\* Among the targets left to do, one comes first in the walk.
LEMMA FirstTodo ==
  ASSUME NEW S \in SUBSET Target, S # {}
  PROVE  \E t \in S : \A u \in Target : Pos[u] < Pos[t] => u \notin S
<1> DEFINE P == {Pos[t] : t \in S}
<1>1. P \subseteq 1..11 /\ P # {}
  BY Zenon, WalkOrder
<1>2. \E n \in P : \A m \in P : n <= m
  <2> HIDE DEF P
  <2> SUFFICES ASSUME \A n \in P : \E m \in P : ~(n <= m) PROVE FALSE
    BY Zenon
  <2>1. 1 \notin P /\ 2 \notin P /\ 3 \notin P
    BY SMTT(30), <1>1
  <2>2. 4 \notin P /\ 5 \notin P /\ 6 \notin P
    BY SMTT(30), <1>1, <2>1
  <2>3. 7 \notin P /\ 8 \notin P /\ 9 \notin P
    BY SMTT(30), <1>1, <2>1, <2>2
  <2>4. 10 \notin P /\ 11 \notin P
    BY SMTT(30), <1>1, <2>1, <2>2, <2>3
  <2>5. 1..11 = {1, 2, 3, 4, 5, 6, 7, 8, 9, 10, 11}
    BY SMTT(30)
  <2> QED BY Zenon, <1>1, <2>1, <2>2, <2>3, <2>4, <2>5
<1>3. PICK n \in P : \A m \in P : n <= m
  BY Zenon, <1>2
<1>4. PICK t \in S : n = Pos[t]
  BY Zenon, <1>3
<1>5. \A u \in S : Pos[t] <= Pos[u] /\ Pos[u] \in Nat /\ Pos[t] \in Nat
  BY SMTT(30), <1>3, <1>4, WalkOrder
<1>6. \A i, j \in Nat : ~(i <= j /\ j < i)
  BY SMTT(30)
<1> QED BY Zenon, <1>5, <1>6

\* A make that runs, with no recipe at work and a target left to do, can start
\* the first one.
LEMMA SomeReady ==
  ASSUME TypeOK, Walking, phase = "run", \A t \in Target : ~Active(t),
         ~(\A t \in Target : pc[t] = "done")
  PROVE  \E t \in Target : Ready(t)
<1>1. \A t \in Target : pc[t] \in {"todo", "done"}
  BY Zenon DEF Walking, Active
<1> DEFINE S == {t \in Target : pc[t] = "todo"}
<1>2. S \in SUBSET Target /\ S # {}
  BY Zenon, <1>1
<1>3. PICK t \in S : \A u \in Target : Pos[u] < Pos[t] => u \notin S
  BY Zenon, <1>2, FirstTodo
<1>4. t \in Target /\ pc[t] = "todo" /\ \A u \in Target : Pos[u] < Pos[t] => pc[u] = "done"
  BY Zenon, <1>1, <1>3
<1>5. \A u \in Prereq[t] : pc[u] = "done"
  BY Zenon, <1>4, WalkOrder
<1>6. Cardinality({u \in Target : Active(u)}) < Jobs
  <2>1. {u \in Target : Active(u)} = {}
    BY Zenon
  <2>2. Cardinality({u \in Target : Active(u)}) = 0
    BY Zenon, <2>1, FS_EmptySet
  <2> QED BY SMTT(30), <2>2, HostAssumption
<1> QED BY Zenon, <1>4, <1>5, <1>6 DEF Ready

\* make never waits for what nobody will make, with any number of jobs and
\* after any failure or signal.
THEOREM MakeNeverWaits == Spec => []NeverStuck
<1>1. TypeOK /\ Walking => NeverStuck
  <2> SUFFICES ASSUME TypeOK, Walking, ~Idle, phase # "failing",
                      \A t \in Target : ~Active(t), ~(\A t \in Target : pc[t] = "done")
               PROVE  \E t \in Target : Ready(t)
    BY Zenon DEF NeverStuck
  <2>1. phase = "run"
    BY Zenon DEF TypeOK, Idle
  <2> QED BY Zenon, <2>1, SomeReady
<1> QED BY <1>1, WalkingInvariant, PTL
-----------------------------------------------------------------------------
\* A debroot that went through a successful serial make keeps its directory
\* and its wpa_supplicant.conf, and copy-files does not get past them again.
Spent ==
    Jobs = 1 =>
        /\ Idle /\ result = "ok" => prev # "ok" /\ {"dir", "conf"} \subseteq debroot
        /\ ~Idle /\ prev = "ok" =>
              /\ {"dir", "conf"} \subseteq debroot /\ ~Active("debroot")
              /\ pc["copy-files"] \in {"todo", "conf", "failed"}

\* The recipes.
LEMMA RecipeSpent ==
  ASSUME Jobs = 1, TypeOK, MountInv, BuildInv, Spent, prev = "ok", Recipe
  PROVE  Spent'
<1> USE DEF inputs, images, tree, host
<1>0. {"debroot", "copy-files", "qemu-install"} \subseteq Target
  BY DEF Target
<1>1. PICK t \in Target : Active(t) /\ Onwards(t)
  BY Zenon, RecipeOnwards
<1>2. PICK l, f : (Goto(t, l, f) /\ l # "failed") \/ (Abort(t, f) /\ l = "failed")
  BY Zenon, <1>1 DEF Onwards
<1>3. /\ ~Idle /\ ~Idle' /\ UNCHANGED prev /\ pc'[t] = l
      /\ \A u \in Target \ {t} : pc'[u] = pc[u]
  BY Zenon, <1>1, <1>2, Running, PcAfter DEF Goto, Abort
<1>4. /\ {"dir", "conf"} \subseteq debroot /\ ~Active("debroot")
      /\ pc["copy-files"] \in {"todo", "conf", "failed"}
  BY Zenon, <1>3 DEF Spent
<1>5. ~Active("qemu-install") /\ t # "debroot" /\ t # "qemu-install"
  <2>1. pc["copy-files"] # "done"
    BY Zenon, <1>4
  <2> QED BY Zenon, <1>1, <1>4, <2>1 DEF MountInv, Ordered
<1>6. CASE CopyFiles
  <2>1. UNCHANGED debroot /\ \E g : Abort("copy-files", g)
    BY Zenon, <1>4, <1>6 DEF CopyFiles, CopyStep, ConfWritable
  <2>2. pc'["copy-files"] = "failed" /\ pc'["debroot"] = pc["debroot"]
    BY Zenon, <1>0, <2>1, PcAfter
  <2> QED BY Zenon, <1>3, <1>4, <2>1, <2>2 DEF Spent, Active
<1>7. CASE ~CopyFiles
  <2>1. ~Debootstrap /\ ~QemuMount /\ ~QemuChroot /\ ~QemuUmount
    BY Zenon, <1>4, <1>5 DEF Debootstrap, DebrootStep, QemuMount, QemuChroot, Chain,
                             QemuUmount, Active
  <2>2. UNCHANGED debroot /\ pc'["copy-files"] = pc["copy-files"]
    <3>1. UNCHANGED debroot
      BY Zenon, <1>7, <2>1 DEF Recipe, Local, CheckPackages, CheckTools, PackInitrd,
               MakeBootImg, BuildDeb, MakeTar, AllDone, Install
    <3>2. \A x \in {"check", "initrd.img", "boot.img", "debroot.tar", "all",
                    "install-to-device"} \cup Debs :
             x \in Target \ {"copy-files"}
      BY DEF Target, Art, Debs
    <3>3. PICK x \in Target \ {"copy-files"} :
             \E m, g : Goto(x, m, g) \/ (Abort(x, g) /\ m = "failed")
      BY Zenon, <1>7, <2>1, <3>2 DEF Recipe, Local, CheckPackages, Fetch, CheckTools,
               PackInitrd, MakeBootImg, BuildDeb, MakeTar, TarFails, AllDone, Install
    <3> QED BY Zenon, <1>0, <3>1, <3>3, PcAfter
  <2>3. pc'["debroot"] = pc["debroot"]
    BY Zenon, <1>0, <1>3, <1>5
  <2> QED BY Zenon, <1>3, <1>4, <2>2, <2>3 DEF Spent, Active
<1> QED BY Zenon, <1>6, <1>7

LEMMA WalkSpent ==
  ASSUME Jobs = 1, TypeOK, Spent, prev = "ok", NEW t \in Target, NoRule(t) \/ Visit(t)
  PROVE  Spent'
<1> USE DEF inputs, images, tree, host
<1>0. {"debroot", "copy-files"} \subseteq Target
  BY DEF Target
<1>1. ~Idle /\ pc[t] = "todo" /\ UNCHANGED <<debroot, prev>>
  BY Zenon DEF NoRule, Visit, Ready, Idle, Goto, Abort
<1>2. /\ ~Idle' /\ \A u \in Target \ {t} : pc'[u] = pc[u]
      /\ pc'[t] = "failed" \/ pc'[t] = IF OutOfDate(t) THEN FirstStep[t] ELSE "done"
  BY Zenon, <1>1, PcAfter DEF NoRule, Visit
<1>3. /\ {"dir", "conf"} \subseteq debroot /\ ~Active("debroot")
      /\ pc["copy-files"] \in {"todo", "conf", "failed"}
  BY Zenon, <1>1 DEF Spent
<1>4. OutOfDate("copy-files") /\ FirstStep["copy-files"] = "conf"
  <2>1. ~Exists("copy-files")
    BY DEF Exists, Art, Debs
  <2>2. FirstStep["copy-files"] = "conf"
    BY DEF FirstStep, Target
  <2> QED BY Zenon, <2>1, <2>2 DEF OutOfDate
<1>5. ~OutOfDate("debroot")
  <2>1. Prereq["debroot"] = {}
    BY DEF Prereq, Target
  <2>2. "debroot" \notin outdated
    BY DEF TypeOK, Art, Debs
  <2>3. Exists("debroot")
    BY Zenon, <1>3 DEF Exists
  <2> QED BY SMTT(30), <2>1, <2>2, <2>3 DEF OutOfDate
<1>6. pc'["copy-files"] \in {"todo", "conf", "failed"}
  BY Zenon, <1>0, <1>2, <1>3, <1>4
<1>7. ~Active("debroot")'
  BY Zenon, <1>0, <1>2, <1>3, <1>5 DEF Active
<1> QED BY Zenon, <1>1, <1>2, <1>3, <1>6, <1>7 DEF Spent

LEMMA SpentStep ==
  TypeOK /\ MountInv /\ BuildInv /\ Spent /\ [Next]_vars => Spent'
<1> SUFFICES ASSUME Jobs = 1, TypeOK, MountInv, BuildInv, Spent, [Next]_vars PROVE Spent'
  BY Zenon DEF Spent
<1> USE DEF inputs, images, tree, host, make
<1>0. {"debroot", "copy-files"} \subseteq Target /\ Key \subseteq Target
      /\ "none" # "ok" /\ "fail" # "ok"
  BY DEF Target, Art, Key
<1>1. CASE Recipe \/ \E t \in Target : NoRule(t) \/ Visit(t)
  <2>1. PICK t \in Target : Onwards(t) /\ (Active(t) \/ phase = "run")
    BY Zenon, <1>1, RecipeOnwards, WalkOnwards
  <2>2. "run" # "idle"
    OBVIOUS
  <2>3. ~Idle
    BY Zenon, <2>1, <2>2, Running DEF Idle
  <2>4. ~Idle' /\ UNCHANGED prev
    BY Zenon, <2>1, <2>3, PcAfter DEF Onwards, Goto, Abort
  <2>5. CASE prev = "ok"
    BY Zenon, <1>1, <2>5, RecipeSpent, WalkSpent
  <2>6. CASE prev # "ok"
    BY Zenon, <2>4, <2>6 DEF Spent
  <2> QED BY Zenon, <2>5, <2>6
<1>2. ASSUME NEW s \in Signals, Signal(s) PROVE Spent'
  <2>1. ~Idle /\ ~Idle' /\ UNCHANGED <<debroot, prev>>
    BY Zenon, <1>2, Running DEF Signal, Idle
  <2>2. \A u \in Target : u # "qemu-install" =>
           \/ ~Active(u) /\ pc'[u] = pc[u]
           \/ pc'[u] = "failed"
    BY Zenon, <1>2 DEF Signal
  <2> QED BY Zenon, <1>0, <2>1, <2>2 DEF Spent, Active
<1>3. CASE MakeExit
  <2>1. /\ ~Idle /\ Idle' /\ UNCHANGED <<debroot, prev>>
        /\ result' = "ok" => \A t \in Target : pc[t] = "done"
    BY Zenon, <1>0, <1>3 DEF MakeExit, Idle
  <2>2. ASSUME result' = "ok" PROVE prev # "ok" /\ {"dir", "conf"} \subseteq debroot
    <3>1. pc["copy-files"] = "done" /\ pc["copy-files"] \in Past
      BY Zenon, <1>0, <2>1, <2>2 DEF Past
    <3>2. prev # "ok"
      BY Zenon, <2>1, <3>1 DEF Spent
    <3>3. "skel" \in debroot
      BY Zenon, <2>1, <3>1 DEF BuildInv, Copied
    <3>4. "dir" \in debroot /\ "conf" \in debroot
      BY Zenon, <2>1, <3>1, <3>3 DEF MountInv, Guarded, Accepted
    <3> QED BY Zenon, <3>2, <3>4
  <2> QED BY Zenon, <2>1, <2>2 DEF Spent
<1>4. ASSUME NEW g, NEW q, StartMake(g, q) PROVE Spent'
  <2>1. /\ Idle /\ ~Idle' /\ UNCHANGED debroot /\ prev' = result
        /\ \A t \in Target : pc'[t] = IF t \in Needed(g, q) THEN "todo" ELSE "done"
    BY Zenon, <1>4 DEF StartMake, Idle
  <2>2. pc'["debroot"] = "todo" /\ pc'["copy-files"] = "todo"
    BY Zenon, <1>0, <2>1 DEF Needed
  <2> QED BY Zenon, <2>1, <2>2 DEF Spent, Active
<1>5. CASE Clean
  BY Zenon, <1>0, <1>5 DEF Clean, Spent, Idle
<1>6. CASE Reboot \/ (\E p \in Pkg : Package(p)) \/ \E d \in EditDirs, e \in BOOLEAN : Edit(d, e)
  <2>1. Idle /\ Idle' /\ UNCHANGED <<debroot, prev, result>>
    BY Zenon, <1>6 DEF Reboot, Package, Edit, Idle
  <2> QED BY Zenon, <2>1 DEF Spent
<1>7. CASE UNCHANGED vars
  BY Zenon, <1>7 DEF vars, Spent, Idle, Active
<1> QED BY Zenon, <1>1, <1>2, <1>3, <1>4, <1>5, <1>6, <1>7 DEF Next, Make, User

\* No two serial makes in a row succeed without make clean in between, for
\* every goal and USE_QEMU, and whatever fails or is edited: the second one
\* stops at copy-files.
THEOREM MakeSucceedsOnce == Spec => []OnceOnly
<1>1. Init => Spent
  <2>1. "none" # "ok"
    OBVIOUS
  <2> QED BY Zenon, <2>1 DEF Init, Spent, Idle
<1>2. Spent => OnceOnly
  BY Zenon DEF Spent, OnceOnly
<1> QED BY <1>1, <1>2, SpentStep, BuildInvariant, PTL DEF Spec
=============================================================================
