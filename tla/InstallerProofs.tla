-------------------------- MODULE InstallerProofs ---------------------------
(***************************************************************************)
(* From the sources to a running phone, for every build that is as module  *)
(* Build has it: what the installer as a whole promises.                   *)
(***************************************************************************)
EXTENDS Installer, DeviceProofs

\* The inductive invariant: the phone's; what is ready is good or excused; and
\* a bad archive got onto the phone only by way of an excuse.
IInv == /\ DevInv /\ InStep /\ out \in Archive
        /\ stage = "ready" /\ out.there => Good(out) \/ excused
        /\ "archive" \in unseen => blame
-----------------------------------------------------------------------------
LEMMA OutputsTyped ==
  ASSUME out \in Archive, BNext
  PROVE  out' \in Archive
<1>1. CASE \E q \in BOOLEAN : Start(q)
  BY Zenon, <1>1 DEF Start, Archive
<1>2. CASE Produce
  BY Zenon, <1>2 DEF Produce
<1>3. CASE Wipe
  <2>1. out.qemu \in BOOLEAN
    BY Zenon DEF Archive
  <2>2. \A q \in BOOLEAN :
          [qemu |-> q, there |-> FALSE, whole |-> FALSE, parts |-> {}] \in Archive
    BY SMTT(30) DEF Archive
  <2> QED BY Zenon, <1>3, <2>1, <2>2 DEF Wipe
<1>4. CASE Finish \/ \E r \in {"ok", "fail"} : Exit(r)
  BY Zenon, <1>4 DEF Finish, Exit
<1> QED BY Zenon, <1>1, <1>2, <1>3, <1>4 DEF BNext

\* What is ready stays as it is until make exits.
LEMMA ReadyGood ==
  ASSUME stage = "ready" /\ out.there => Good(out) \/ excused, BNext
  PROVE  stage' = "ready" /\ out'.there => Good(out') \/ excused'
<1>1. CASE \E q \in BOOLEAN : Start(q)
  BY Zenon, <1>1 DEF Start
<1>2. CASE Produce
  BY Zenon, <1>2 DEF Produce
<1>3. CASE Wipe
  BY Zenon, <1>3 DEF Wipe
<1>4. CASE Finish \/ \E r \in {"ok", "fail"} : Exit(r)
  BY Zenon, <1>4 DEF Finish, Exit
<1> QED BY Zenon, <1>1, <1>2, <1>3, <1>4 DEF BNext

\* Every step is one of the build machine or leaves it alone, and one of the
\* phone or leaves that alone.
LEMMA Sides ==
  ASSUME out \in Archive, INext
  PROVE  /\ BNext \/ UNCHANGED bvars
         /\ Step \/ UNCHANGED dvars
<1>1. Joined => UNCHANGED bvars
  BY Zenon DEF Joined
<1>2. CASE BuildMachine
  BY Zenon, <1>2 DEF BuildMachine, BNext
<1>3. CASE Deliver
  BY Zenon, <1>3 DEF Deliver, Step, PhoneNext
<1>4. CASE Hand
  BY Zenon, <1>1, <1>4 DEF Hand, Step
<1>5. CASE Lines
  BY Zenon, <1>1, <1>5 DEF Lines, Step, PhoneNext, Work
<1>6. CASE Phone
  BY Zenon, <1>1, <1>6 DEF Phone, Step, PhoneNext
<1>7. CASE NewCard
  BY Zenon, <1>7 DEF NewCard, Step, PhoneNext
<1> QED BY Zenon, <1>2, <1>3, <1>4, <1>5, <1>6, <1>7 DEF INext

\* The recipe's next line, and the line that pushes.
LEMMA LineOrder ==
  ASSUME PhoneTypeOK, InLine,
         \/ AdbReturn \/ Remove \/ Script("fg") \/ Script("bg") \/ Reap \/ StartShell
         \/ Disconnect \/ Restart \/ BootRecovery \/ Unmount \/ Delete \/ Format
  PROVE  /\ pushed' = pushed
         /\ line = "idle" => line' = "idle"
         /\ line # "idle" /\ line' = "idle" => ending' \in {"ok", "fail"}
         /\ line' \in {"flash", "unpack", "bootstrap", "rm"}
               => line \in {"flash", "unpack", "bootstrap", "rm"}
<1> USE DEF trees, mounts, adb, booted
<1>1. CASE AdbReturn
  BY Zenon, <1>1, Returns DEF StopInstall
<1>2. CASE Remove \/ Disconnect
  BY Zenon, <1>2 DEF Remove, Disconnect, StopInstall
<1>3. CASE Script("fg") \/ Script("bg")
  BY Zenon, <1>3, ScriptMoves
<1>4. CASE Reap \/ StartShell
  BY Zenon, <1>4 DEF Reap, StartShell
<1>5. CASE Restart \/ BootRecovery
  BY Zenon, <1>5 DEF Restart, BootRecovery, Down, StopInstall
<1>6. CASE Unmount \/ Delete \/ Format
  BY Zenon, <1>6 DEF Unmount, Delete, Format, Quiet
<1> QED BY Zenon, <1>1, <1>2, <1>3, <1>4, <1>5, <1>6

\* make waits while its recipe runs, and exits with it.
LEMMA StepInStep ==
  ASSUME PhoneTypeOK, InLine, InStep, INext
  PROVE  InStep'
<1> DEFINE Busy == {"flash", "unpack", "bootstrap", "rm"}
<1>0. Joined => /\ UNCHANGED <<out, stage, made>>
                /\ line' # "idle" \/ line = "idle" => recipe' = recipe
                /\ line' = "idle" /\ line # "idle" => recipe' = ending'
  BY Zenon DEF Joined, bvars
<1>1. CASE BuildMachine
  <2>1. UNCHANGED <<line, pushed>>
    BY Zenon, <1>1 DEF BuildMachine, dvars, adb
  <2>2. CASE line = "idle"
    <3>1. recipe # "busy" /\ recipe' # "busy"
      BY Zenon, <1>1, <2>2 DEF BuildMachine, InStep
    <3>2. stage' = "idle" => made' \in {"none", recipe'} \/ recipe' = "no"
      <4>1. CASE \E q \in BOOLEAN : Start(q)
        BY Zenon, <4>1 DEF Start
      <4>2. CASE Produce \/ Finish \/ Wipe
        BY Zenon, <4>2 DEF Produce, Finish, Wipe
      <4>3. CASE \E r \in {"ok", "fail"} :
                    Exit(r) /\ recipe \in {"no", r} /\ UNCHANGED recipe
        BY Zenon, <4>3 DEF Exit
      <4> QED BY Zenon, <1>1, <4>1, <4>2, <4>3 DEF BuildMachine
    <3> QED BY Zenon, <2>1, <2>2, <3>1, <3>2 DEF InStep
  <2>3. CASE line # "idle"
    <3>1. stage = "ready" /\ recipe = "busy"
      BY Zenon, <2>3 DEF InStep
    <3>2. ~(\E q \in BOOLEAN : Start(q)) /\ ~Produce /\ ~Finish /\ ~Wipe
      BY Zenon, <3>1 DEF Start, Produce, Finish, Wipe
    <3> QED BY Zenon, <1>1, <3>1, <3>2 DEF BuildMachine
  <2> QED BY Zenon, <2>2, <2>3
<1>2. CASE Deliver
  BY Zenon, <1>2 DEF Deliver, StartInstall, bvars, InStep
<1>3. CASE Hand
  <2>1. /\ Joined /\ line = "push"
        /\ \/ line' = "idle" /\ ending' = "fail"
           \/ line' = "flash" /\ pushed' = out
    BY Zenon, <1>3 DEF Hand, Push, StopInstall
  <2>2. stage = "ready" /\ recipe = "busy"
    BY Zenon, <2>1 DEF InStep
  <2> QED BY Zenon, <1>0, <2>1, <2>2 DEF InStep
<1>4. CASE Lines \/ Phone
  <2>1. /\ Joined /\ pushed' = pushed /\ (line = "idle" => line' = "idle")
        /\ line # "idle" /\ line' = "idle" => ending' \in {"ok", "fail"}
        /\ line' \in Busy => line \in Busy
    BY Zenon, <1>4, LineOrder DEF Lines, Phone
  <2>2. CASE line = "idle"
    BY Zenon, <1>0, <2>1, <2>2 DEF InStep
  <2>3. CASE line # "idle"
    <3>1. stage = "ready" /\ recipe = "busy"
      BY Zenon, <2>3 DEF InStep
    <3> QED BY Zenon, <1>0, <2>1, <2>3, <3>1 DEF InStep
  <2> QED BY Zenon, <2>2, <2>3
<1>5. CASE NewCard
  <2>1. UNCHANGED <<line, pushed, out, stage, made, recipe>>
    BY Zenon, <1>5 DEF NewCard, Format, bvars
  <2> QED BY Zenon, <2>1 DEF InStep
<1> QED BY Zenon, <1>1, <1>2, <1>3, <1>4, <1>5 DEF INext

\* Only the push of a bad archive counts as one.
LEMMA TarMishap ==
  ASSUME NEW p, StartTar(p) PROVE unseen' \subseteq unseen \cup {"no card"}
  BY Zenon DEF StartTar

LEMMA SecondMishap ==
  ASSUME NEW p, SecondStage(p) PROVE unseen' \subseteq unseen \cup {"second"}
  BY Zenon DEF SecondStage

LEMMA CableMishap ==
  ASSUME Disconnect PROVE unseen' \subseteq unseen \cup {"orphan"}
  BY Zenon DEF Disconnect

LEMMA ArchiveMishap ==
  ASSUME \/ AdbReturn \/ Remove \/ Script("fg") \/ Script("bg") \/ Reap \/ StartShell
         \/ Disconnect \/ Restart \/ BootRecovery \/ Unmount \/ Delete
  PROVE  unseen' \subseteq unseen \cup {"no card", "second", "orphan"}
<1>1. ASSUME NEW p \in {"fg", "bg"}, Script(p)
      PROVE  unseen' \subseteq unseen \cup {"no card", "second", "orphan"}
  <2>1. CASE StartTar(p) \/ SecondStage(p)
    BY Zenon, <2>1, TarMishap, SecondMishap
  <2>2. CASE Flash(p) \/ MakeDir(p) \/ EndTar(p) \/ Enter(p) \/ Setup(p) \/ EndShell(p)
    BY Zenon, <2>2 DEF Flash, MakeDir, EndTar, Enter, Setup, EndShell
  <2> QED BY Zenon, <1>1, <2>1, <2>2 DEF Script
<1>2. CASE Disconnect
  BY Zenon, <1>2, CableMishap
<1>3. CASE AdbReturn \/ Remove \/ Reap \/ StartShell
  BY Zenon, <1>3 DEF AdbReturn, Remove, Reap, StartShell
<1>4. CASE Restart \/ BootRecovery \/ Unmount \/ Delete
  BY Zenon, <1>4 DEF Restart, BootRecovery, Down, Unmount, Delete
<1> QED BY Zenon, <1>1, <1>2, <1>3, <1>4

LEMMA BlameStep ==
  ASSUME InStep, stage = "ready" /\ out.there => Good(out) \/ excused, "archive" \in unseen => blame,
         INext, "archive" \in unseen'
  PROVE  blame'
<1>1. CASE BuildMachine
  BY Zenon, <1>1 DEF BuildMachine, dvars
<1>2. CASE Deliver
  BY Zenon, <1>2 DEF Deliver, StartInstall
<1>3. CASE Hand
  <2>1. blame' = (blame \/ excused) /\ line = "push"
    BY Zenon, <1>3 DEF Hand, Push
  <2>2. out.there => Good(out) \/ excused
    BY Zenon, <2>1 DEF InStep
  <2>3. "archive" \in unseen \/ (out.there /\ ~Good(out))
    BY Zenon, <1>3 DEF Hand, Push
  <2> QED BY Zenon, <2>1, <2>2, <2>3
<1>4. CASE Lines \/ Phone
  <2>1. unseen' \subseteq unseen \cup {"no card", "second", "orphan"} /\ blame' = blame
    BY Zenon, <1>4, ArchiveMishap DEF Lines, Phone
  <2> QED BY Zenon, <2>1
<1>5. CASE NewCard
  BY Zenon, <1>5 DEF NewCard, Format
<1> QED BY Zenon, <1>1, <1>2, <1>3, <1>4, <1>5 DEF INext
-----------------------------------------------------------------------------
LEMMA InstallerInit == IInit => IInv
<1> SUFFICES ASSUME IInit PROVE IInv
  OBVIOUS
<1>1. DevInv
  BY Zenon, DevInit DEF IInit
<1>2. Nothing \in Archive
  BY SMTT(30) DEF Nothing, Archive
<1>3. InStep
  BY Zenon DEF IInit, PhoneInit, BInit, InStep
<1> QED BY Zenon, <1>1, <1>2, <1>3 DEF IInit, PhoneInit, BInit, IInv

LEMMA InstallerStep == IInv /\ [INext]_ivars => IInv'
<1>1. ASSUME IInv, INext PROVE IInv'
  <2>1. out' \in Archive
    BY Zenon, <1>1, Sides, OutputsTyped DEF IInv, bvars
  <2>2. DevInv'
    BY Zenon, <1>1, Sides, DevStep, DevStutter DEF IInv
  <2>3. stage' = "ready" /\ out'.there => Good(out') \/ excused'
    BY Zenon, <1>1, Sides, ReadyGood DEF IInv, bvars
  <2>4. InStep'
    BY Zenon, <1>1, StepInStep DEF IInv, DevInv
  <2>5. "archive" \in unseen' => blame'
    BY Zenon, <1>1, BlameStep DEF IInv
  <2> QED BY Zenon, <2>1, <2>2, <2>3, <2>4, <2>5 DEF IInv
<1>2. ASSUME IInv, UNCHANGED ivars PROVE IInv'
  <2>1. UNCHANGED dvars /\ UNCHANGED <<line, pushed, unseen, stage, out, excused, made,
                                          recipe, blame>>
    BY Zenon, <1>2 DEF ivars, dvars, adb, bvars
  <2>2. DevInv'
    BY Zenon, <1>2, <2>1, DevStutter DEF IInv
  <2>3. InStep'
    BY Zenon, <1>2, <2>1 DEF IInv, InStep
  <2> QED BY Zenon, <1>2, <2>1, <2>2, <2>3 DEF IInv
<1> QED BY Zenon, <1>1, <1>2

LEMMA InstallerInvariant == ISpec => []IInv
  BY InstallerInit, InstallerStep, PTL DEF ISpec

LEMMA WholeWay == IInv => EndToEnd
<1> SUFFICES ASSUME IInv, AdbStatus, ending = "ok", unseen \subseteq {"archive"}, ~blame
             PROVE  /\ recovery = "whole" /\ boot \notin {"no kernel", "no init"}
                    /\ {"base", "conf", "modules", "second", "pkgs", "user", "sudo", "pw"}
                          \subseteq sd
  BY Zenon DEF EndToEnd
<1>1. unseen = {}
  BY Zenon DEF IInv
<1>2. Unharmed
  BY Zenon, <1>1 DEF Unharmed
<1>3. recovery = "whole" /\ boot \notin {"no kernel", "no init"}
  BY Zenon, <1>1, <1>2 DEF IInv, DevInv, Course, Flashed, Written, BootsAfterInstall
<1>4. /\ "second" \in sd \cup unseen
      /\ {"base", "conf", "modules", "pkgs", "user", "sudo", "pw"} \subseteq sd
  BY Zenon, <1>2 DEF IInv, DevInv, Course, SetUp
<1> QED BY Zenon, <1>1, <1>3, <1>4

\* make install-to-device on whatever build machine is as module Build says:
\* success without an unseen mishap means a card with a Debian that is set up
\* and that the flashed image boots.
THEOREM SourcesToPhone == ISpec => []EndToEnd
  BY WholeWay, InstallerInvariant, PTL

\* make is at its recipe while the phone's scripts run, and those work on the
\* files the build machine still has.
THEOREM MakeWaits == ISpec => []InStep
<1>1. IInv => InStep
  BY Zenon DEF IInv
<1> QED BY <1>1, InstallerInvariant, PTL
=============================================================================
