---------------------------- MODULE SystemProofs ----------------------------
(***************************************************************************)
(* The build machine and the phone together: they implement Installer, so  *)
(* that what is proved there of any build machine that keeps the promise   *)
(* of module Build holds of make and its recipes.                          *)
(***************************************************************************)
EXTENDS System, RefinementProofs, InstallerProofs

\* Where make is while the recipe of install-to-device runs, and after it.
Linked ==
    /\ recipe \in {"no", "busy", "ok", "fail"}
    /\ recipe = "busy" => pc["install-to-device"] = "run"
    /\ pc["install-to-device"] = "run" => phase = "run"
    /\ ~Idle /\ recipe = "ok" => phase = "run" /\ \A t \in Target : pc[t] = "done"
    /\ ~Idle /\ recipe = "fail" => phase = "failing"

HostInv == TypeOK /\ MountInv /\ BuildInv /\ OutTyped
SysInv == HostInv /\ View /\ Linked /\ IInv
-----------------------------------------------------------------------------
\* Every step is one of the build machine's or leaves it alone.
LEMMA HostStep == [SNext]_svars => [Next]_vars
<1>1. Return => Install \/ UNCHANGED vars
  BY Zenon DEF Return
<1>2. HostSide => Next
  BY Zenon DEF HostSide, Next, Make, Recipe
<1>3. AtHost => Next
  BY Zenon DEF AtHost, Next
<1>4. Reach \/ FormatCard => UNCHANGED vars
  BY Zenon DEF Reach, FormatCard
<1>5. PushLine \/ ShellLine \/ AtPhone => Return
  BY Zenon DEF PushLine, ShellLine, AtPhone
<1>6. Install => Next
  BY Zenon DEF Next, Make, Recipe
<1>7. \A s \in Signals : Interrupt(s) => Next
  BY Zenon DEF Interrupt, Next
<1>8. UNCHANGED svars => UNCHANGED vars
  BY Zenon DEF svars
<1> QED BY Zenon, <1>1, <1>2, <1>3, <1>4, <1>5, <1>6, <1>7, <1>8 DEF SNext

\* The composition does nothing on the build machine that HostBuild does not:
\* every property proved of HostBuild holds of it.
THEOREM SystemBuilds == SSpec => Spec
<1>1. SInit => Init
  BY Zenon DEF SInit
<1> QED BY <1>1, HostStep, PTL DEF SSpec, Spec

LEMMA SystemHost == SSpec => []HostInv
<1>1. TypeOK /\ MountInv /\ BuildInv => HostInv
  BY Zenon, OutType DEF HostInv
<1> QED BY <1>1, SystemBuilds, BuildInvariant, PTL

\* Build's variables show the build machine.
LEMMA Viewed == SSpec => []View
<1>1. SInit => View
  BY Zenon DEF SInit
<1>2. SNext => View'
  <2>1. ShowView => View'
    BY Zenon DEF ShowView, View
  <2> QED BY Zenon, <2>1 DEF SNext, HostSide, AtHost, Reach, PushLine, ShellLine, AtPhone,
                            FormatCard, Interrupt
<1>3. View /\ UNCHANGED svars => View'
  <2>1. UNCHANGED svars => UNCHANGED vars /\ UNCHANGED bvars
    BY Zenon DEF svars, ivars
  <2> QED BY Zenon, <2>1, NothingSeen DEF View, Unseen, bvars
<1> QED BY <1>1, <1>2, <1>3, PTL DEF SSpec

\* A step of the build machine as Build sees it.
LEMMA Shown ==
  ASSUME View, View'
  PROVE  /\ \A q \in BOOLEAN : B!Start(q) => Start(q)
         /\ B!Produce => Produce
         /\ B!Finish => Finish
         /\ B!Wipe => Wipe
         /\ \A r : B!Exit(r) => Exit(r)
         /\ Unseen => UNCHANGED bvars
<1> USE DEF View, Stage, Excused
<1>1. \A q \in BOOLEAN : B!Start(q) => Start(q)
  BY Zenon DEF B!Start, Start
<1>2. B!Produce => Produce
  BY Zenon DEF B!Produce, Produce, B!Archive, Archive, B!Content, Content
<1>3. B!Finish => Finish
  BY Zenon DEF B!Finish, Finish, B!Good, Good
<1>4. B!Wipe => Wipe
  BY Zenon DEF B!Wipe, Wipe
<1>5. \A r : B!Exit(r) => Exit(r)
  BY Zenon DEF B!Exit, Exit
<1>6. Unseen => UNCHANGED bvars
  BY Zenon DEF Unseen, bvars
<1> QED BY Zenon, <1>1, <1>2, <1>3, <1>4, <1>5, <1>6

\* While the recipe of install-to-device runs every other target is done.
LEMMA AtInstall ==
  ASSUME HostInv, pc["install-to-device"] = "run"
  PROVE  /\ ~Idle /\ "install-to-device" \in Target /\ Active("install-to-device")
         /\ \A u \in Target \ {"install-to-device"} : pc[u] = "done"
<1>0. /\ "install-to-device" \in Target /\ "all" \in Target
      /\ Prereq["install-to-device"] = {"all"}
  BY Zenon DEF Target, Prereq
<1>1. Active("install-to-device")
  BY Zenon DEF Active
<1>2. ~Idle
  BY Zenon, <1>0, <1>1, Running DEF HostInv
<1>3. pc["all"] = "done"
  BY Zenon, <1>0, <1>1, <1>2 DEF HostInv, BuildInv, Sequenced, Before, Begun
<1>4. Begun("all")
  BY Zenon, <1>3 DEF Begun
<1> QED BY Zenon, <1>0, <1>1, <1>2, <1>3, <1>4, DoneBefore DEF HostInv

\* make at work on the other targets, a signal there included.
LEMMA Onward ==
  ASSUME HostInv, OutTyped', View, View', ~Idle,
         \/ Recipe \/ \E t \in Target : NoRule(t) \/ Visit(t)
         \/ \E s \in Signals : Signal(s)
  PROVE  Produce \/ Finish \/ UNCHANGED bvars
<1>1. CASE pc["all"] = "done"
  BY Zenon, <1>1, Pushing, Shown DEF HostInv
<1>2. CASE pc["all"] # "done"
  BY Zenon, <1>2, Making, Shown DEF HostInv
<1> QED BY Zenon, <1>1, <1>2

\* make has nothing to show while it waits for the recipe.
LEMMA Waiting ==
  ASSUME HostInv, View, View',
         \/ UNCHANGED vars
         \/ pc["install-to-device"] = "run" /\ (Install \/ \E s \in Signals : Signal(s))
  PROVE  UNCHANGED bvars
<1>1. CASE UNCHANGED vars
  BY Zenon, <1>1, NothingSeen, Shown
<1>2. CASE pc["install-to-device"] = "run" /\ (Install \/ \E s \in Signals : Signal(s))
  <2>1. ~Idle /\ pc["all"] = "done"
    BY Zenon, <1>2, AtInstall, Last
  <2> QED BY Zenon, <1>2, <2>1, Pushing, Shown DEF HostInv, Recipe
<1> QED BY Zenon, <1>1, <1>2

\* A recipe of another target.
LEMMA LocalOwn ==
  ASSUME Local
  PROVE  \E t \in Target \ {"install-to-device"} :
            Active(t) /\ \E l, f : Goto(t, l, f) \/ (Abort(t, f) /\ l = "failed")
<1>0. /\ {"check", "initrd.img", "boot.img", "debroot", "copy-files", "qemu-install",
         "debroot.tar", "all"} \subseteq Target \ {"install-to-device"}
      /\ Debs \subseteq Target \ {"install-to-device"}
  BY DEF Target, Art, Debs
<1>1. CASE CheckPackages \/ CheckTools
  BY Zenon, <1>0, <1>1 DEF CheckPackages, Fetch, CheckTools, Active
<1>2. CASE PackInitrd \/ MakeBootImg \/ \E a \in Debs : BuildDeb(a)
  BY Zenon, <1>0, <1>2 DEF PackInitrd, MakeBootImg, BuildDeb, Active
<1>3. CASE Debootstrap \/ CopyFiles
  BY Zenon, <1>0, <1>3 DEF Debootstrap, DebrootStep, CopyFiles, CopyStep, Active
<1>4. CASE QemuMount \/ QemuChroot \/ QemuUmount
  BY Zenon, <1>0, <1>4 DEF QemuMount, QemuChroot, Chain, QemuUmount, Active
<1>5. CASE MakeTar \/ AllDone
  BY Zenon, <1>0, <1>5 DEF MakeTar, TarFails, AllDone, Active
<1> QED BY Zenon, <1>1, <1>2, <1>3, <1>4, <1>5 DEF Local
-----------------------------------------------------------------------------
LEMMA MapHostSide ==
  ASSUME SysInv, OutTyped', View', HostSide
  PROVE  BuildMachine \/ UNCHANGED ivars
<1>1. UNCHANGED <<dvars, recipe, blame>>
  BY Zenon DEF HostSide
<1>2. CASE MakeExit
  <2>1. PICK r \in {"ok", "fail"} : B!Exit(r)
    BY Zenon, <1>2, Exiting DEF SysInv, HostInv
  <2>2. result' = r /\ Exit(r)
    BY Zenon, <2>1, Shown DEF B!Exit, SysInv
  <2>3. recipe # "busy"
    BY Zenon, <1>2, AtInstall DEF SysInv, Linked, MakeExit
  <2>4. ~Idle /\ (phase = "run" => result' = "ok") /\ (phase = "failing" => result' = "fail")
    BY Zenon, <1>2 DEF MakeExit
  <2>5. recipe \in {"no", r}
    BY Zenon, <2>2, <2>3, <2>4 DEF SysInv, Linked
  <2> QED BY Zenon, <1>1, <2>2, <2>5 DEF BuildMachine
<1>3. CASE Local \/ \E t \in Target : NoRule(t) \/ Visit(t)
  <2>1. ~Idle
    <3>1. Local => ~Idle
      BY Zenon, LocalOwn, Running DEF SysInv, HostInv
    <3> QED BY Zenon, <1>3, <3>1 DEF NoRule, Visit, Ready, Idle
  <2>2. Produce \/ Finish \/ UNCHANGED bvars
    BY Zenon, <1>3, <2>1, Onward DEF SysInv, Recipe
  <2> QED BY Zenon, <1>1, <2>2 DEF BuildMachine, ivars
<1> QED BY Zenon, <1>2, <1>3 DEF HostSide

LEMMA MapAtHost ==
  ASSUME SysInv, OutTyped', View', AtHost
  PROVE  BuildMachine \/ UNCHANGED ivars
<1>1. UNCHANGED <<dvars, blame>> /\ recipe' = IF Idle /\ ~Idle' THEN "no" ELSE recipe
  BY Zenon DEF AtHost
<1>2. CASE User
  <2>1. (\E q \in BOOLEAN : B!Start(q)) \/ B!Wipe \/ Unseen
    BY Zenon, <1>2, Between DEF SysInv, HostInv
  <2>2. Idle
    BY Zenon, <1>2 DEF User, StartMake, Package, Edit, Clean, Reboot
  <2>3. ASSUME NEW q \in BOOLEAN, B!Start(q) PROVE BuildMachine
    <3>1. ~Idle'
      BY Zenon, <2>3 DEF B!Start, Stage
    <3>2. Start(q)
      BY Zenon, <2>3, Shown DEF SysInv
    <3> QED BY Zenon, <1>1, <2>2, <3>1, <3>2 DEF BuildMachine
  <2>4. ASSUME B!Wipe \/ Unseen PROVE BuildMachine \/ UNCHANGED ivars
    <3>1. Stage' = Stage /\ (Wipe \/ UNCHANGED bvars)
      BY Zenon, <2>4, Shown DEF B!Wipe, Stage, Unseen, SysInv
    <3>2. Idle'
      BY Zenon, <2>2, <3>1 DEF Stage
    <3> QED BY Zenon, <1>1, <3>1, <3>2 DEF BuildMachine, ivars
  <2> QED BY Zenon, <2>1, <2>3, <2>4
<1>3. CASE \E s \in Signals : Signal(s)
  <2>1. ~Idle
    BY Zenon, <1>3, Running DEF Signal, SysInv, HostInv
  <2>2. Produce \/ Finish \/ UNCHANGED bvars
    BY Zenon, <1>3, <2>1, Onward DEF SysInv
  <2> QED BY Zenon, <1>1, <2>1, <2>2 DEF BuildMachine, ivars
<1> QED BY Zenon, <1>2, <1>3 DEF AtHost

\* The steps of the recipe and of the phone.
LEMMA MapPhone ==
  ASSUME SysInv, View',
         \/ Reach \/ PushLine \/ ShellLine \/ AtPhone \/ FormatCard
         \/ \E s \in Signals : Interrupt(s)
  PROVE  INext
<1>1. recipe = "busy" => pc["install-to-device"] = "run"
  BY Zenon DEF SysInv, Linked
<1>2. line # "idle" <=> recipe = "busy"
  BY Zenon DEF SysInv, IInv, InStep
<1>3. out = Out /\ (blame \/ excused) = (blame \/ Excused)
  BY Zenon DEF SysInv, View
<1>4. Return => Joined
  <2>1. Return => UNCHANGED bvars
    BY Zenon, <1>1, <1>2, Waiting DEF Return, SysInv
  <2> QED BY Zenon, <2>1 DEF Return, Joined
<1>5. CASE Reach
  <2>1. UNCHANGED bvars
    BY Zenon, <1>5, Waiting DEF Reach, SysInv
  <2>2. stage = "ready"
    BY Zenon, <1>5, AtInstall, Last DEF Reach, SysInv, View, Stage
  <2> QED BY Zenon, <1>5, <2>1, <2>2 DEF Reach, Deliver, INext
<1>6. CASE PushLine
  BY Zenon, <1>3, <1>4, <1>6 DEF PushLine, Hand, INext
<1>7. CASE ShellLine \/ AtPhone
  BY Zenon, <1>4, <1>7 DEF ShellLine, Lines, AtPhone, Phone, INext
<1>8. CASE FormatCard
  <2>1. UNCHANGED bvars
    BY Zenon, <1>8, Waiting DEF FormatCard, SysInv
  <2> QED BY Zenon, <1>8, <2>1 DEF FormatCard, NewCard, INext
<1>9. ASSUME NEW s \in Signals, Interrupt(s) PROVE INext
  <2>1. UNCHANGED bvars
    BY Zenon, <1>1, <1>9, Waiting DEF Interrupt, SysInv
  <2>2. Joined
    BY Zenon, <1>2, <1>9, <2>1 DEF Interrupt, StopInstall, Joined
  <2> QED BY Zenon, <1>3, <1>9, <2>2 DEF Interrupt, Hand, Lines, Phone, INext
<1> QED BY Zenon, <1>5, <1>6, <1>7, <1>8, <1>9

LEMMA MapStep == SysInv /\ OutTyped' /\ View' /\ [SNext]_svars => [INext]_ivars
<1>1. SysInv /\ OutTyped' /\ View' /\ SNext => [INext]_ivars
  BY Zenon, MapHostSide, MapAtHost, MapPhone DEF SNext, INext
<1>2. UNCHANGED svars => UNCHANGED ivars
  BY Zenon DEF svars
<1> QED BY Zenon, <1>1, <1>2
-----------------------------------------------------------------------------
\* make goes on with another target, which it can do only before the recipe
\* of install-to-device.
LEMMA LinkedOther ==
  ASSUME HostInv, Linked, ~Idle, UNCHANGED recipe,
         NEW t \in Target \ {"install-to-device"}, pc[t] # "done", NEW l, NEW f,
         Goto(t, l, f) \/ (Abort(t, f) /\ l = "failed")
  PROVE  Linked'
<1>1. recipe \in {"no", "fail"} /\ pc["install-to-device"] # "run"
  BY Zenon, AtInstall DEF Linked
<1>2. "install-to-device" \in Target
  BY DEF Target
<1>3. pc'["install-to-device"] = pc["install-to-device"]
  BY Zenon, <1>2 DEF Goto, Abort, HostInv, TypeOK
<1>4. phase = "failing" => phase' = "failing"
  BY Zenon DEF Goto, Abort
<1> QED BY Zenon, <1>1, <1>3, <1>4 DEF Linked

LEMMA LinkedHostSide ==
  ASSUME HostInv, Linked, HostSide
  PROVE  Linked'
<1>0. "install-to-device" \in Target /\ FirstStep["install-to-device"] = "run"
  BY Zenon DEF Target, FirstStep
<1>1. UNCHANGED recipe
  BY Zenon DEF HostSide
<1>2. CASE Local
  <2>1. PICK t \in Target \ {"install-to-device"} :
          Active(t) /\ \E l, f : Goto(t, l, f) \/ (Abort(t, f) /\ l = "failed")
    BY Zenon, <1>2, LocalOwn
  <2>2. ~Idle /\ pc[t] # "done"
    BY Zenon, <2>1, Running DEF Active, HostInv
  <2> QED BY Zenon, <1>1, <2>1, <2>2, LinkedOther
<1>3. ASSUME NEW t \in Target, NoRule(t) \/ Visit(t) PROVE Linked'
  <2>1. phase = "run" /\ pc[t] = "todo" /\ ~Idle
    BY Zenon, <1>3 DEF NoRule, Visit, Ready, Idle
  <2>2. \E l, f : Goto(t, l, f) \/ (Abort(t, f) /\ l = "failed")
    BY Zenon, <1>3 DEF NoRule, Visit
  <2>3. CASE t # "install-to-device"
    BY Zenon, <1>1, <2>1, <2>2, <2>3, LinkedOther
  <2>4. CASE t = "install-to-device"
    <3>1. recipe = "no"
      BY Zenon, <1>0, <2>1, <2>4 DEF Linked
    <3>2. pc'[t] = "run" => phase' = "run"
      BY Zenon, <1>3, <2>1, <2>4 DEF NoRule, Visit, Goto, Abort, HostInv, TypeOK
    <3> QED BY Zenon, <1>1, <2>4, <3>1, <3>2 DEF Linked
  <2> QED BY Zenon, <2>3, <2>4
<1>4. CASE MakeExit
  <2>1. pc["install-to-device"] # "run" /\ pc' = pc /\ Idle'
    BY Zenon, <1>0, <1>4 DEF MakeExit, Active, Idle
  <2> QED BY Zenon, <1>1, <2>1 DEF Linked
<1> QED BY Zenon, <1>2, <1>3, <1>4 DEF HostSide

LEMMA LinkedAtHost ==
  ASSUME HostInv, Linked, AtHost
  PROVE  Linked'
<1>0. "install-to-device" \in Target
  BY Zenon DEF Target
<1>1. recipe' = IF Idle /\ ~Idle' THEN "no" ELSE recipe
  BY Zenon DEF AtHost
<1>2. CASE User
  <2>1. Idle /\ pc["install-to-device"] # "run" /\ recipe # "busy"
    <3>1. Idle
      BY Zenon, <1>2 DEF User, StartMake, Package, Edit, Clean, Reboot
    <3> QED BY Zenon, <3>1, AtInstall DEF Linked
  <2>2. \/ phase' = "run" /\ pc'["install-to-device"] # "run"
        \/ UNCHANGED <<phase, pc>>
    BY Zenon, <1>0, <1>2 DEF User, StartMake, Package, Edit, Clean, Reboot, make
  <2>3. CASE phase' = "run" /\ pc'["install-to-device"] # "run"
    BY Zenon, <1>1, <2>1, <2>3 DEF Linked, Idle
  <2>4. CASE UNCHANGED <<phase, pc>>
    BY Zenon, <1>1, <2>1, <2>4 DEF Linked, Idle
  <2> QED BY Zenon, <2>2, <2>3, <2>4
<1>3. ASSUME NEW s \in Signals, Signal(s), recipe # "busy" PROVE Linked'
  <2>1. ~Idle /\ phase' = "failing" /\ \E t \in Target : pc[t] # "done"
    BY Zenon, <1>3, Running DEF Signal, Active, HostInv
  <2>2. pc'["install-to-device"] # "run"
    BY Zenon, <1>0, <1>3 DEF Signal, Active
  <2> QED BY Zenon, <1>1, <1>3, <2>1, <2>2 DEF Linked
<1> QED BY Zenon, <1>2, <1>3 DEF AtHost

\* The recipe ends, and make with it.
LEMMA LinkedPhone ==
  ASSUME SysInv,
         \/ Reach \/ PushLine \/ ShellLine \/ AtPhone \/ FormatCard
         \/ \E s \in Signals : Interrupt(s)
  PROVE  Linked'
<1>0. "install-to-device" \in Target
  BY Zenon DEF Target
<1>1. ASSUME UNCHANGED vars, recipe' = recipe PROVE Linked'
  BY Zenon, <1>1 DEF SysInv, Linked, Idle, vars, make
<1>2. CASE Reach
  BY Zenon, <1>2 DEF Reach, SysInv, Linked, Idle, vars, make
<1>3. ASSUME Return, line # "idle" /\ line' = "idle" => ending' \in {"ok", "fail"}
      PROVE  Linked'
  <2>1. CASE line # "idle" /\ line' = "idle"
    <3>1. /\ Install /\ recipe' = ending'
          /\ pc'["install-to-device"] = IF ending' = "ok" THEN "done" ELSE "failed"
      BY Zenon, <1>3, <2>1 DEF Return
    <3>2. /\ pc["install-to-device"] = "run" /\ phase = "run"
          /\ \A u \in Target \ {"install-to-device"} : pc[u] = "done"
      BY Zenon, <3>1, AtInstall DEF Install, SysInv, Linked
    <3>3. \A u \in Target \ {"install-to-device"} : pc'[u] = pc[u]
      BY Zenon, <3>1 DEF Install, Goto, Abort, SysInv, HostInv, TypeOK
    <3>4. /\ pc'["install-to-device"] = "done" => phase' = phase
          /\ pc'["install-to-device"] = "failed" => phase' = "failing"
      BY Zenon, <1>0, <3>1 DEF Install, Goto, Abort, SysInv, HostInv, TypeOK
    <3>5. recipe' \in {"ok", "fail"}
      BY Zenon, <1>3, <2>1, <3>1
    <3> QED BY Zenon, <3>1, <3>2, <3>3, <3>4, <3>5 DEF Linked
  <2>2. CASE ~(line # "idle" /\ line' = "idle")
    BY Zenon, <1>1, <1>3, <2>2 DEF Return
  <2> QED BY Zenon, <2>1, <2>2
<1>4. CASE PushLine \/ ShellLine \/ AtPhone
  <2>1. CASE PushLine
    BY Zenon, <1>3, <2>1 DEF PushLine, Push, StopInstall
  <2>2. CASE ShellLine \/ AtPhone
    BY Zenon, <1>3, <2>2, LineOrder DEF ShellLine, AtPhone, SysInv, IInv, DevInv
  <2> QED BY Zenon, <1>4, <2>1, <2>2
<1>5. CASE FormatCard
  BY Zenon, <1>1, <1>5 DEF FormatCard
<1>6. ASSUME NEW s \in Signals, Interrupt(s) PROVE Linked'
  <2>1. phase' = "failing" /\ recipe' = "fail"
    BY Zenon, <1>6 DEF Interrupt, Signal
  <2>2. pc'["install-to-device"] # "run"
    BY Zenon, <1>0, <1>6 DEF Interrupt, Signal, Active
  <2> QED BY Zenon, <2>1, <2>2 DEF Linked
<1> QED BY Zenon, <1>2, <1>4, <1>5, <1>6
-----------------------------------------------------------------------------
LEMMA SystemInit == HostInv /\ SInit => SysInv /\ IInit
<1> SUFFICES ASSUME HostInv, SInit PROVE SysInv /\ IInit
  OBVIOUS
<1>1. B!BInit
  BY Zenon, RefineInit DEF SInit
<1>2. BInit
  BY Zenon, <1>1 DEF SInit, View, B!BInit, BInit, B!Nothing, Nothing, Stage, Excused
<1>3. IInit
  BY Zenon, <1>2 DEF SInit, IInit
<1>4. Linked
  BY DEF SInit, Init, Linked, Target
<1> QED BY Zenon, <1>3, <1>4, InstallerInit DEF SInit, SysInv

LEMMA SystemStep ==
  SysInv /\ HostInv' /\ View' /\ [SNext]_svars => SysInv' /\ [INext]_ivars
<1> SUFFICES ASSUME SysInv, HostInv', View', [SNext]_svars
             PROVE  SysInv' /\ [INext]_ivars
  OBVIOUS
<1>1. [INext]_ivars
  BY Zenon, MapStep DEF HostInv
<1>2. IInv'
  BY Zenon, <1>1, InstallerStep DEF SysInv
<1>3. Linked'
  <2>1. CASE SNext
    BY Zenon, <2>1, LinkedHostSide, LinkedAtHost, LinkedPhone DEF SNext, SysInv
  <2>2. CASE UNCHANGED svars
    BY Zenon, <2>2 DEF svars, ivars, vars, make, SysInv, Linked, Idle
  <2> QED BY Zenon, <2>1, <2>2
<1> QED BY Zenon, <1>1, <1>2, <1>3 DEF SysInv

\* make with its recipes and the phone with its scripts do what Installer
\* says, for every -j, every set of tools, sources, failing programs and
\* signals.
THEOREM SystemInstalls == SSpec => Composed
  BY SystemInit, SystemStep, SystemHost, Viewed, PTL DEF SSpec, ISpec, Composed

\* From the sources to a running phone, recipe by recipe: a make
\* install-to-device that succeeds, with no mishap of the build excusing what
\* was pushed and none on the phone unseen, leaves a Debian that boots.
THEOREM MakeToPhone == SSpec => []EndToEnd
  BY SystemInstalls, SourcesToPhone, PTL DEF Composed

\* make waits for the scripts it started on the phone, which work on the
\* files it still has, and exits with their status.
THEOREM MakeAndPhoneInStep == SSpec => []InStep
  BY SystemInstalls, MakeWaits, PTL DEF Composed

\* What Device promises of a phone holds of one that make installs on.
THEOREM PhoneInSystem ==
  SSpec => /\ []InstalledOnCard /\ []BootsAfterInstall /\ []BindsOnce /\ []LogComplete
           /\ UnpackAlone /\ InstallForward
<1>1. IInv => InstalledOnCard /\ BootsAfterInstall /\ BindsOnce /\ LogComplete
  BY Zenon, InstalledSafe, BoundSafe DEF IInv, DevInv, Course
<1>2. IInv => [ \A p, o \in {"fg", "bg"} :
                  AdbStatus /\ p # o /\ proc[p].run = "mount" /\ proc'[p].run = "tar"
                  => proc[o].run \notin Inside ]_dvars
  BY Zenon DEF IInv, DevInv, Claimed
<1>3. ASSUME IInv, [INext]_ivars
      PROVE  [ line # "idle" /\ line' # "idle" =>
                 \/ LinesLeft[line'] < LinesLeft[line]
                 \/ /\ line' = line
                    /\ \/ proc'["fg"] = proc["fg"]
                       \/ StepsLeft[proc'["fg"].run] < StepsLeft[proc["fg"].run] ]_dvars
  <2>1. Step \/ UNCHANGED dvars
    BY Zenon, <1>3, Sides DEF IInv, ivars, dvars
  <2> QED BY Zenon, <1>3, <2>1, NearerStep DEF IInv, DevInv, InstallNearer
<1> QED BY <1>1, <1>2, <1>3, SystemInstalls, InstallerInvariant, PTL
         DEF Composed, ISpec, UnpackAlone, InstallForward
=============================================================================
