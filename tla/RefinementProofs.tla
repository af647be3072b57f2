-------------------------- MODULE RefinementProofs --------------------------
(***************************************************************************)
(* A make implements module Build, for every number of jobs and every set  *)
(* of tools, sources, failing programs and signals.                        *)
(***************************************************************************)
EXTENDS BuildProofs

\* The outputs have their type.
OutTyped == Out \in Archive /\ Out.qemu = qemu

LEMMA OutType == TypeOK => OutTyped
<1> SUFFICES ASSUME TypeOK PROVE OutTyped
  OBVIOUS
<1> DEFINE whole == art["boot.img"].there /\ art["boot.img"].whole
           parts == IF ~(tar.there /\ tar.whole) THEN {}
                    ELSE (tar.parts \cap Content) \cup {x \in {"pw"} : "user" \in tar.parts}
<1>1. Out = [qemu |-> qemu, there |-> tar.there, whole |-> whole, parts |-> parts]
  BY Zenon DEF Out
<1>2. qemu \in BOOLEAN /\ whole \in BOOLEAN /\ tar.there \in BOOLEAN
  BY Zenon DEF TypeOK, TarFile
<1>3. parts \in SUBSET Content
  BY SMTT(30) DEF Content
<1> HIDE DEF whole, parts
<1> QED BY SMTT(30), <1>1, <1>2, <1>3 DEF Archive, OutTyped

\* What the outputs depend on.
LEMMA OutFrame ==
  ASSUME UNCHANGED <<tar, qemu>>, art'["boot.img"] = art["boot.img"]
  PROVE  Out' = Out
  BY Zenon DEF Out

\* A step of the recipes, of make itself or of a signal while targets of all
\* are still to be made.
LEMMA Producing ==
  ASSUME OutTyped, OutTyped', ~Idle, ~Idle', pc["all"] # "done", pc'["all"] # "done",
         UNCHANGED <<qemu, result>>
  PROVE  B!Produce
<1>1. Stage = "making" /\ Stage' = "making"
  BY Zenon DEF Stage
<1>2. Out' \in B!Archive /\ Out'.qemu = Out.qemu
  BY Zenon DEF OutTyped, Archive, B!Archive, Content, B!Content
<1>3. Excused' \in BOOLEAN
  BY Zenon DEF Excused
<1> QED BY Zenon, <1>1, <1>2, <1>3 DEF B!Produce, Stage, Excused

LEMMA Last ==
  /\ {"all", "install-to-device", "boot.img"} \subseteq Target /\ Key \subseteq Target
  /\ {"all", "install-to-device", "boot.img"} \cap Key = {}
  BY DEF Target, Key, Art, Debs

\* Everything else is done, with any number of jobs, once make has begun all:
\* its list of prerequisites leads to every target.
LEMMA DoneBefore ==
  ASSUME BuildInv, ~Idle, Begun("all")
  PROVE  \A u \in Target \ {"all", "install-to-device"} : pc[u] = "done"
<1>0. {"all", "debroot.tar", "copy-files"} \subseteq Target
  BY DEF Target
<1>1. /\ Prereq["all"] = {"check", "initrd.img", "boot.img", "debroot", "debroot.tar"}
      /\ Prereq["debroot.tar"] = {"debroot", "copy-files", "qemu-install"}
      /\ Prereq["copy-files"] = Debs
  BY Zenon, <1>0 DEF Prereq
<1>2. \A t \in Target : Begun(t) => \A u \in Prereq[t] : pc[u] = "done"
  BY Zenon DEF BuildInv, Sequenced, Before
<1>3. \A u \in {"check", "initrd.img", "boot.img", "debroot", "debroot.tar"} : pc[u] = "done"
  BY Zenon, <1>0, <1>1, <1>2
<1>4. Begun("debroot.tar")
  BY Zenon, <1>3 DEF Begun
<1>5. \A u \in {"copy-files", "qemu-install"} : pc[u] = "done"
  BY Zenon, <1>0, <1>1, <1>2, <1>4
<1>6. Begun("copy-files")
  BY Zenon, <1>5 DEF Begun
<1>7. \A u \in Debs : pc[u] = "done"
  BY Zenon, <1>0, <1>1, <1>2, <1>6
<1>8. Target \ {"all", "install-to-device"} =
        {"check", "initrd.img", "boot.img", "debroot", "debroot.tar"}
          \cup {"copy-files", "qemu-install"} \cup Debs
  BY Zenon DEF Target, Art, Debs
<1> QED BY Zenon, <1>3, <1>5, <1>7, <1>8

\* make reaches all only with good outputs, one of the mishaps, or no archive.
LEMMA Finishing ==
  ASSUME TypeOK, MountInv, BuildInv, AllDone
  PROVE  B!Finish
<1> USE DEF inputs, images, tree, host
<1>1. "all" \in Target /\ Active("all") /\ Begun("all")
  BY Zenon, Last DEF AllDone, Begun, Active
<1>2. ~Idle /\ ~Idle' /\ pc'["all"] = "done" /\ UNCHANGED <<art, tar, mishap, qemu, result>>
  <2>1. ~Idle
    BY Zenon, <1>1, Running
  <2> QED BY Zenon, <1>1, <2>1, PcAfter DEF AllDone, Goto
<1>3. \A u \in Key \cup {"boot.img"} : pc[u] = "done"
  BY Zenon, <1>1, <1>2, Last, DoneBefore
<1>4. Stage = "making" /\ Stage' = "ready"
  BY Zenon, <1>2 DEF Stage, AllDone
<1>5. Out' = Out /\ Excused' = Excused
  BY Zenon, <1>2, OutFrame DEF Excused
<1>6. ASSUME Out.there, ~Excused PROVE B!Good(Out)
  <2>0. tar.there
    BY Zenon, <1>6 DEF Out
  <2>1. \A x \in {"cut", "torn", "image", "second"} : x \notin mishap
    BY SMTT(30), <1>6 DEF Excused
  <2>2. art["boot.img"].there /\ art["boot.img"].whole
    BY Zenon, <1>2, <1>3, <2>1 DEF BuildInv, Imaged
  <2>3. {"cut", "torn"} \cap mishap = {} /\ {"second"} \ mishap = {"second"}
    BY SMTT(30), <2>1
  <2>4. tar.whole /\ {"base", "conf", "modules"} \subseteq tar.parts
    BY Zenon, <1>2, <1>3, <2>0, <2>3, AllMade
  <2>5. /\ qemu => {"second"} \cup {"pkgs", "user", "sudo"} \subseteq tar.parts
        /\ ~qemu => "debs" \in tar.parts
    BY Zenon, <1>2, <1>3, <2>0, <2>3, AllMade
  <2>6. /\ Out.whole = (art["boot.img"].there /\ art["boot.img"].whole)
        /\ Out.qemu = qemu
        /\ Out.parts = (tar.parts \cap Content) \cup {x \in {"pw"} : "user" \in tar.parts}
    BY Zenon, <2>0, <2>4 DEF Out
  <2>7. /\ {"base", "conf", "modules"} \subseteq Out.parts
        /\ qemu => {"second", "pkgs", "user", "sudo", "pw"} \subseteq Out.parts
        /\ ~qemu => "debs" \in Out.parts
    BY SMTT(30), <2>4, <2>5, <2>6 DEF Content
  <2>8. Out.whole
    BY Zenon, <2>2, <2>6
  <2> QED BY Zenon, <2>6, <2>7, <2>8 DEF B!Good
<1>7. Out' = Out /\ UNCHANGED result /\ (Out.there => B!Good(Out) \/ Excused)
  BY Zenon, <1>2, <1>5, <1>6
<1> QED BY Zenon, <1>4, <1>5, <1>7 DEF B!Finish, Stage, Excused

\* Every other recipe works on a target of its own.
LEMMA RecipeOwn ==
  ASSUME Recipe, ~AllDone
  PROVE  \E t \in Target \ {"all"} : /\ Active(t)
                                     /\ \E l, f : \/ Goto(t, l, f)
                                                  \/ Abort(t, f) /\ l = "failed"
<1>0. /\ {"check", "initrd.img", "boot.img", "debroot", "copy-files", "qemu-install",
         "debroot.tar", "install-to-device"} \subseteq Target \ {"all"}
      /\ Debs \subseteq Target \ {"all"}
  BY DEF Target, Art, Debs
<1>1. CASE CheckPackages \/ CheckTools
  BY Zenon, <1>0, <1>1 DEF CheckPackages, Fetch, CheckTools, Active
<1>2. CASE PackInitrd \/ MakeBootImg \/ \E a \in Debs : BuildDeb(a)
  BY Zenon, <1>0, <1>2 DEF PackInitrd, MakeBootImg, BuildDeb, Active
<1>3. CASE Debootstrap
  BY Zenon, <1>0, <1>3 DEF Debootstrap, DebrootStep, Active
<1>4. CASE CopyFiles
  BY Zenon, <1>0, <1>4 DEF CopyFiles, CopyStep, Active
<1>5. CASE QemuMount \/ QemuChroot \/ QemuUmount
  BY Zenon, <1>0, <1>5 DEF QemuMount, QemuChroot, Chain, QemuUmount, Active
<1>6. CASE MakeTar \/ Install
  BY Zenon, <1>0, <1>6 DEF MakeTar, TarFails, Install, Active
<1> QED BY Zenon, <1>1, <1>2, <1>3, <1>4, <1>5, <1>6 DEF Recipe, Local

\* The invocation before all is made.
LEMMA Making ==
  ASSUME TypeOK, MountInv, BuildInv, OutTyped, OutTyped',
         ~Idle, pc["all"] # "done",
         \/ Recipe \/ \E t \in Target : NoRule(t) \/ Visit(t)
         \/ \E s \in Signals : Signal(s)
  PROVE  B!Produce \/ B!Finish
<1>0. "all" \in Target
  BY Zenon, Last
<1>1. CASE AllDone
  BY Zenon, <1>1, Finishing
<1>2. ASSUME NEW t \in Target \ {"all"}, NEW l, NEW f,
             Goto(t, l, f) \/ (Abort(t, f) /\ l = "failed")
      PROVE  B!Produce
  <2>1. ~Idle' /\ pc'["all"] = pc["all"] /\ UNCHANGED <<qemu, result>>
    BY Zenon, <1>0, <1>2, PcAfter DEF Goto, Abort
  <2> QED BY Zenon, <2>1, Producing
<1>3. CASE Recipe /\ ~AllDone
  BY Zenon, <1>2, <1>3, RecipeOwn
<1>4. ASSUME NEW t \in Target, NoRule(t) \/ Visit(t) PROVE B!Produce
  <2>1. CASE t # "all"
    <3>1. \E l, f : Goto(t, l, f) \/ (Abort(t, f) /\ l = "failed")
      BY Zenon, <1>4 DEF NoRule, Visit
    <3> QED BY Zenon, <1>2, <2>1, <3>1
  <2>2. CASE t = "all"
    <3>1. FirstStep["all"] = "run" /\ ~Exists("all")
      BY DEF FirstStep, Target, Exists, Art, Debs
    <3>2. Goto("all", "run", FALSE) \/ \E f : Abort("all", f)
      BY Zenon, <1>4, <2>2, <3>1 DEF NoRule, Visit, OutOfDate
    <3>3. ~Idle' /\ pc'["all"] # "done" /\ UNCHANGED <<qemu, result>>
      BY Zenon, <1>0, <3>2, PcAfter DEF Goto, Abort
    <3> QED BY Zenon, <3>3, Producing
  <2> QED BY Zenon, <2>1, <2>2
<1>5. ASSUME NEW s, Signal(s) PROVE B!Produce
  <2>1. ~Idle' /\ UNCHANGED <<qemu, result>>
    BY Zenon, <1>5 DEF Signal, Idle
  <2>2. pc'["all"] # "done"
    BY Zenon, <1>0, <1>5 DEF Signal
  <2> QED BY Zenon, <2>1, <2>2, Producing
<1> QED BY Zenon, <1>1, <1>3, <1>4, <1>5

Unseen == UNCHANGED <<Stage, Out, Excused, result>>

\* Once all is made only install-to-device is left, which reads the outputs;
\* a signal then finds no file that is being written.
LEMMA Pushing ==
  ASSUME TypeOK, MountInv, BuildInv, ~Idle, pc["all"] = "done",
         \/ Recipe \/ \E t \in Target : NoRule(t) \/ Visit(t)
         \/ \E s \in Signals : Signal(s)
  PROVE  Unseen
<1> USE DEF inputs, images, tree, host
<1>0. "all" \in Target /\ "install-to-device" \in Target /\ "boot.img" \in Art
      /\ Art \subseteq Target \ {"install-to-device"}
  BY Zenon, Last DEF Art, Debs, Target
<1>1. \A u \in Target \ {"install-to-device"} : pc[u] = "done"
  <2>1. Begun("all")
    BY Zenon DEF Begun
  <2> QED BY Zenon, <1>0, <2>1, Last, DoneBefore
<1>2. \A u \in Target \ {"install-to-device"} : ~Active(u)
  BY Zenon, <1>1 DEF Active
<1>3. ASSUME \E l, f : \/ Goto("install-to-device", l, f)
                       \/ Abort("install-to-device", f) /\ l = "failed",
             UNCHANGED <<art, tar, mishap>>
      PROVE  Unseen
  <2>1. ~Idle' /\ pc'["all"] = pc["all"] /\ UNCHANGED <<qemu, result>>
    BY Zenon, <1>0, <1>3, PcAfter DEF Goto, Abort
  <2> QED BY Zenon, <1>3, <2>1, OutFrame DEF Unseen, Stage, Excused
<1>4. CASE Recipe
  <2>1. ~AllDone
    BY Zenon DEF AllDone
  <2>2. PICK t \in Target \ {"all"} : Active(t)
    BY Zenon, <1>4, <2>1, RecipeOwn
  <2>3. Install
    <3>1. /\ \A u \in {"check", "initrd.img", "boot.img", "debroot", "copy-files",
                      "qemu-install", "debroot.tar"} : pc[u] = "done"
          /\ \A a \in Debs : pc[a] = "done"
      <4>1. /\ {"check", "initrd.img", "boot.img", "debroot", "copy-files", "qemu-install",
                "debroot.tar"} \subseteq Target \ {"install-to-device"}
            /\ Debs \subseteq Target \ {"install-to-device"}
        BY DEF Target, Art, Debs
      <4> QED BY Zenon, <1>1, <4>1
    <3>2. ~CheckPackages /\ ~CheckTools /\ ~PackInitrd /\ ~MakeBootImg
      BY Zenon, <3>1 DEF CheckPackages, CheckTools, PackInitrd, MakeBootImg
    <3>3. (\A a \in Debs : ~BuildDeb(a)) /\ ~Debootstrap /\ ~CopyFiles /\ ~MakeTar
      BY Zenon, <3>1 DEF BuildDeb, Debootstrap, DebrootStep, CopyFiles, CopyStep, MakeTar
    <3>4. ~QemuMount /\ ~QemuChroot /\ ~QemuUmount
      BY Zenon, <3>1 DEF QemuMount, QemuChroot, Chain, QemuUmount
    <3> QED BY Zenon, <1>4, <2>1, <3>2, <3>3, <3>4 DEF Recipe, Local
  <2> QED BY Zenon, <1>3, <2>3 DEF Install
<1>5. ASSUME NEW t \in Target, NoRule(t) \/ Visit(t) PROVE Unseen
  <2>1. t = "install-to-device"
    BY Zenon, <1>1, <1>5 DEF NoRule, Visit, Ready
  <2> QED BY Zenon, <1>3, <1>5, <2>1 DEF NoRule, Visit
<1>6. ASSUME NEW s, Signal(s) PROVE Unseen
  <2>1. PICK hit \in SUBSET {a \in Art : Active(a)} :
          /\ art' = [a \in Art |-> IF a \in hit THEN Remnant(a, s) ELSE art[a]]
          /\ \A x \in mishap' : \/ x \in mishap \/ x = "leak"
                                \/ pc["debroot"] \in {"first stage", "|| rm"}
                                \/ hit \cap Debs # {} \/ ~(hit \subseteq Debs)
          /\ mishap \subseteq mishap'
    BY Zenon, <1>6 DEF Signal
  <2>2. hit = {}
    BY Zenon, <1>0, <1>2, <2>1
  <2>3. art'["boot.img"] = art["boot.img"]
    BY Zenon, <1>0, <2>1, <2>2
  <2>4. "debroot" \in Target \ {"install-to-device"}
        /\ "debroot.tar" \in Target \ {"install-to-device"}
    BY DEF Target
  <2>5. Excused' = Excused
    <3>1. \A x \in mishap' : x \in mishap \/ x = "leak"
      BY Zenon, <1>1, <2>1, <2>2, <2>4
    <3>2. mishap' \ {"leak"} = mishap \ {"leak"}
      BY Zenon, <2>1, <3>1
    <3> QED BY Zenon, <3>2 DEF Excused
  <2>6. UNCHANGED <<tar, qemu, result>> /\ ~Idle'
    BY Zenon, <1>2, <1>6, <2>4 DEF Signal, Idle
  <2>7. pc'["all"] = "done"
    BY Zenon, <1>0, <1>6 DEF Signal, Active
  <2> QED BY Zenon, <2>3, <2>5, <2>6, <2>7, OutFrame DEF Unseen, Stage
<1> QED BY Zenon, <1>4, <1>5, <1>6

\* make ends: successfully only when all is made.
LEMMA Exiting ==
  ASSUME TypeOK, MakeExit
  PROVE  \E r \in {"ok", "fail"} : B!Exit(r)
<1> USE DEF inputs, images, tree, host
<1>0. "all" \in Target
  BY Zenon, Last
<1>1. /\ ~Idle /\ Idle' /\ UNCHANGED <<art, tar, mishap, qemu>>
      /\ \/ result' = "fail"
         \/ result' = "ok" /\ pc["all"] = "done"
  BY Zenon, <1>0 DEF MakeExit, Idle
<1>2. Out' = Out /\ Excused' = Excused /\ Stage' = "idle"
  BY Zenon, <1>1, OutFrame DEF Excused, Stage
<1>3. Stage \in {"making", "ready"} /\ (pc["all"] = "done" => Stage = "ready")
  BY Zenon, <1>1 DEF Stage
<1>4. B!Exit(result')
  BY Zenon, <1>1, <1>2, <1>3 DEF B!Exit, Stage, Excused
<1> QED BY Zenon, <1>1, <1>4

\* What the user does between two invocations.
LEMMA Between ==
  ASSUME TypeOK, OutTyped, OutTyped', User
  PROVE  (\E q \in BOOLEAN : B!Start(q)) \/ B!Wipe \/ Unseen
<1> USE DEF inputs, images, tree, host, make
<1>0. "all" \in Target /\ "boot.img" \in Art /\ "boot.img" \notin Debs
  BY Zenon, Last DEF Art, Debs
<1>1. ASSUME NEW g \in {"all", "install-to-device"}, NEW q \in QemuModes, StartMake(g, q)
      PROVE  \E b \in BOOLEAN : B!Start(b)
  <2>1. /\ Idle /\ ~Idle' /\ qemu' = q /\ result' = "none"
        /\ UNCHANGED <<art, tar, mishap>>
    BY Zenon, <1>1 DEF StartMake, Idle
  <2>2. pc'["all"] = "todo"
    BY Zenon, <1>0, <1>1 DEF StartMake, Needed
  <2>3. Out' = [Out EXCEPT !.qemu = q]
    <3> DEFINE whole == art["boot.img"].there /\ art["boot.img"].whole
               parts == IF ~(tar.there /\ tar.whole) THEN {}
                        ELSE (tar.parts \cap Content) \cup
                             {x \in {"pw"} : "user" \in tar.parts}
    <3>1. /\ Out = [qemu |-> qemu, there |-> tar.there, whole |-> whole, parts |-> parts]
          /\ Out' = [qemu |-> q, there |-> tar.there, whole |-> whole, parts |-> parts]
      BY Zenon, <2>1 DEF Out
    <3> HIDE DEF whole, parts
    <3> QED BY SMTT(30), <3>1
  <2>4. Stage = "idle" /\ Stage' = "making" /\ Excused' = Excused
    BY Zenon, <2>1, <2>2 DEF Stage, Excused
  <2>5. q \in BOOLEAN
    BY HostAssumption
  <2> QED BY Zenon, <2>1, <2>3, <2>4, <2>5 DEF B!Start, Stage, Excused
<1>2. ASSUME NEW p \in Pkg, Package(p) PROVE Unseen
  <2>1. /\ UNCHANGED <<tar, mishap, phase, pc, qemu, result>>
        /\ art' = [art EXCEPT ![Deb[p]] = Built(Deb[p], TRUE)]
    BY Zenon, <1>2 DEF Package, Write
  <2>2. Deb[p] \in Debs
    BY DEF Deb, Debs, Pkg
  <2>3. art'["boot.img"] = art["boot.img"]
    BY Zenon, <1>0, <2>1, <2>2 DEF TypeOK
  <2> QED BY Zenon, <2>1, <2>3, OutFrame DEF Unseen, Stage, Idle, Excused
<1>3. CASE Reboot \/ \E d \in EditDirs, e \in BOOLEAN : Edit(d, e)
  <2>1. UNCHANGED <<art, tar, mishap, phase, pc, qemu, result>>
    BY Zenon, <1>3 DEF Reboot, Edit
  <2> QED BY Zenon, <2>1, OutFrame DEF Unseen, Stage, Idle, Excused
<1>4. CASE Clean
  <2>1. /\ Idle /\ Idle' /\ UNCHANGED qemu /\ result' = "none" /\ tar' = NoTar
        /\ art'["boot.img"] = Absent
    BY Zenon, <1>0, <1>4 DEF Clean, Idle
  <2>2. Out' = [qemu |-> qemu, there |-> FALSE, whole |-> FALSE, parts |-> {}]
    <3>1. ~tar'.there /\ ~art'["boot.img"].there
      BY SMTT(30), <2>1 DEF NoTar, Absent
    <3>2. (art'["boot.img"].there /\ art'["boot.img"].whole) = FALSE /\ tar'.there = FALSE
      BY Zenon, <2>1, <3>1 DEF NoTar
    <3> QED BY Zenon, <2>1, <3>1, <3>2 DEF Out
  <2>3. Out' = [qemu |-> Out.qemu, there |-> FALSE, whole |-> FALSE, parts |-> {}]
    BY Zenon, <2>2 DEF OutTyped
  <2>4. Stage = "idle" /\ Stage' = "idle" /\ Excused' \in BOOLEAN
    BY Zenon, <2>1 DEF Stage, Excused
  <2> QED BY Zenon, <2>1, <2>3, <2>4 DEF B!Wipe, Stage, Excused
<1> QED BY Zenon, <1>1, <1>2, <1>3, <1>4 DEF User

LEMMA NothingSeen ==
  ASSUME UNCHANGED vars PROVE Unseen
<1>1. UNCHANGED <<art, tar, mishap, phase, pc, qemu, result>>
  BY Zenon DEF vars, inputs, images, tree, host, make
<1> QED BY Zenon, <1>1, OutFrame DEF Unseen, Stage, Idle, Excused

LEMMA RefineInit == Init => B!BInit
<1> SUFFICES ASSUME Init PROVE B!BInit
  OBVIOUS
<1>1. Idle /\ ~Excused /\ qemu = FALSE /\ result = "none"
  BY DEF Init, Idle, Excused
<1>2. ~tar.there /\ ~art["boot.img"].there
  BY DEF Init, NoTar, Absent, Art
<1>3. (art["boot.img"].there /\ art["boot.img"].whole) = FALSE /\ tar.there = FALSE
  BY Zenon, <1>2 DEF Init, NoTar
<1>4. Out = B!Nothing
  BY Zenon, <1>1, <1>2, <1>3 DEF Out, B!Nothing
<1> QED BY Zenon, <1>1, <1>4 DEF B!BInit, Stage, Excused

LEMMA RefineStep ==
  ASSUME TypeOK, MountInv, BuildInv, OutTyped, OutTyped', [Next]_vars
  PROVE  [B!BNext]_(B!bvars)
<1>1. CASE Unseen
  BY Zenon, <1>1 DEF Unseen, Stage, Excused, B!bvars
<1>2. CASE UNCHANGED vars
  BY Zenon, <1>1, <1>2, NothingSeen
<1>3. CASE User
  BY Zenon, <1>1, <1>3, Between DEF B!BNext
<1>4. CASE MakeExit
  BY Zenon, <1>4, Exiting DEF B!BNext
<1>5. CASE \/ Recipe \/ \E t \in Target : NoRule(t) \/ Visit(t)
           \/ \E s \in Signals : Signal(s)
  <2>1. ~Idle
    <3>1. Recipe => ~Idle
      <4>1. AllDone => "all" \in Target /\ Active("all")
        BY Zenon, Last DEF AllDone, Active
      <4> QED BY Zenon, <4>1, RecipeOwn, Running
    <3>2. \A t \in Target : NoRule(t) \/ Visit(t) => ~Idle
      BY Zenon DEF NoRule, Visit, Ready, Idle
    <3>3. \A s \in Signals : Signal(s) => ~Idle
      BY Zenon, Running DEF Signal
    <3> QED BY Zenon, <1>5, <3>1, <3>2, <3>3
  <2>2. CASE pc["all"] = "done"
    BY Zenon, <1>1, <1>5, <2>1, <2>2, Pushing
  <2>3. CASE pc["all"] # "done"
    BY Zenon, <1>5, <2>1, <2>3, Making DEF B!BNext
  <2> QED BY Zenon, <2>2, <2>3
<1> QED BY Zenon, <1>2, <1>3, <1>4, <1>5 DEF Next, Make

\* make, with any -j, implements module Build: it succeeds, or lets
\* install-to-device push, only with good outputs, one of the mishaps, or no
\* archive at all, and nothing changes them from there to the next make or
\* make clean.
THEOREM MakeImplements == Spec => Implements
<1>1. Init => B!BInit
  BY RefineInit
<1>2. TypeOK /\ MountInv /\ BuildInv /\ OutTyped /\ OutTyped' /\ [Next]_vars
        => [B!BNext]_(B!bvars)
  BY Zenon, RefineStep
<1> QED BY <1>1, <1>2, OutType, BuildInvariant, PTL DEF Spec, Implements, B!BSpec
=============================================================================
