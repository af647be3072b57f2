---------------------------- MODULE DeviceProofs ----------------------------
(***************************************************************************)
(* What module Device promises, for every set of build outputs and failing *)
(* programs, with scripts that outlive their connection or without.        *)
(***************************************************************************)
EXTENDS Device, TLAPS

\* A step of the phone, with any build output.
Step == PhoneNext \/ \E a \in Archive : Push(a)
-----------------------------------------------------------------------------
\* Where the script that adb waits for can be, by the recipe's line; and a
\* recipe at work has not ended yet and finds the stock system running.
Chroot == {"second", "dpkg", "rm debs", "adduser", "addgroup", "chpasswd"}
Exits == {"exit 0", "exit 1"}
InLine ==
    /\ line \in {"idle", "push", "rm"} => proc["fg"] = NoProc
    /\ line = "flash" => proc["fg"].run \in {"dd", "dd ends"} \cup Exits
    /\ line = "unpack" => proc["fg"].run \in {"test", "mkdir", "mount", "tar"} \cup Exits
    /\ line = "bootstrap" => proc["fg"].run \in {"enter"} \cup Chroot \cup Exits
    /\ line # "idle" => ending = "none" /\ boot = "off"

\* Process p has made /data/debian and may still go on to bind.
Claim(p) == \/ proc[p].run \in {"mount", "tar", "enter"}
            \/ p = "fg" /\ line = "unpack" /\ proc[p].run = "exit 0"

\* One process at a time holds a claim, and nothing is bound besides what was
\* bound by hand until it gives it up; whoever is at work in the tree has the
\* directory, and whoever just made that directory is alone.
Claimed ==
    /\ ~dir => binds = 0 /\ own = {} /\ ~over
    /\ hand <= binds /\ binds <= hand + 1
    /\ \A p \in {"fg", "bg"} : Claim(p) => dir /\ binds = hand
    /\ ~(Claim("fg") /\ Claim("bg"))
    /\ \A p \in {"fg", "bg"} : proc[p].run \in Inside => dir
    /\ proc["fg"].run = "mount" => proc["bg"].run \notin Inside
    /\ proc["bg"].run = "mount" => proc["fg"].run \notin Inside

\* Without an orphan, only the user's shell runs besides the installation.
Alone == "orphan" \notin unseen =>
            proc["bg"].run \in {"none", "enter by hand", "shell"} \cup Exits

\* The recipe works on a good archive, once it is pushed.
Supplied == line \in {"flash", "unpack", "bootstrap", "rm"} /\ "archive" \notin unseen
            => Good(pushed)

Unharmed == AdbStatus /\ {"orphan", "no card", "archive"} \cap unseen = {}

\* dd has written the image.
Written == \/ line \in {"unpack", "bootstrap", "rm"} \/ ending = "ok"
           \/ line = "flash" /\ proc["fg"].run = "exit 0"
Flashed == Unharmed /\ Written => recovery = "whole"

\* What the tree on the card holds after each line of unpack-debian.sh and
\* of bootstrap-debian.sh.
Unpacked ==
    Unharmed /\ line = "unpack" =>
      /\ proc["fg"].run = "tar" => proc["fg"].at = "sd" /\ dir /\ over
      /\ proc["fg"].run = "exit 0" =>
            dir /\ over /\ "part" \notin sd /\ pushed.parts \subseteq sd

\* The steps of the chain from which on the tree holds x.
Since(x) == CASE x = "second" -> {"dpkg", "rm debs", "adduser", "addgroup", "chpasswd", "exit 0"}
              [] x = "pkgs" -> {"rm debs", "adduser", "addgroup", "chpasswd", "exit 0"}
              [] x = "user" -> {"addgroup", "chpasswd", "exit 0"}
              [] x = "sudo" -> {"chpasswd", "exit 0"}
              [] x = "pw" -> {"exit 0"}

InChain ==
    Unharmed /\ line = "bootstrap" /\ proc["fg"].run # "exit 1" =>
      /\ "part" \notin sd /\ {"base", "conf", "modules"} \subseteq sd
      /\ proc["fg"].run = "enter" => dir /\ over
      /\ proc["fg"].run \in Chroot => proc["fg"].at = "sd"
      /\ proc["fg"].run \in Since("second") => "second" \in sd \cup unseen
      /\ \A x \in {"pkgs", "user", "sudo", "pw"} : proc["fg"].run \in Since(x) => x \in sd

SetUp ==
    Unharmed /\ (line = "rm" \/ ending = "ok") =>
      /\ "part" \notin sd /\ "second" \in sd \cup unseen
      /\ {"base", "conf", "modules", "pkgs", "user", "sudo", "pw"} \subseteq sd
-----------------------------------------------------------------------------
ProcType == [run : Steps, at : {"none", "sd", "own"}]

LEMMA ProcTypes ==
  /\ NoProc \in ProcType /\ NoProc.run = "none" /\ NoProc.at = "none"
  /\ \A l \in Steps, at \in {"none", "sd", "own"} :
        /\ [run |-> l, at |-> at] \in ProcType
        /\ [run |-> l, at |-> at].run = l /\ [run |-> l, at |-> at].at = at
<1>1. "none" \in Steps
  BY DEF Steps
<1> QED BY SMTT(30), <1>1 DEF NoProc, ProcType

\* What Go does to the processes.
LEMMA GoProc ==
  ASSUME PhoneTypeOK, NEW p \in {"fg", "bg"}, NEW l \in Steps, NEW at \in {"none", "sd", "own"},
         Go(p, l, at)
  PROVE  /\ proc' \in [{"fg", "bg"} -> ProcType]
         /\ proc'[p].run = l /\ proc'[p].at = at
         /\ \A o \in {"fg", "bg"} \ {p} : proc'[o] = proc[o]
<1>1. /\ [run |-> l, at |-> at] \in ProcType
      /\ [run |-> l, at |-> at].run = l /\ [run |-> l, at |-> at].at = at
  BY Zenon, ProcTypes
<1>2. proc \in [{"fg", "bg"} -> ProcType]
  BY Zenon DEF PhoneTypeOK, ProcType
<1>3. /\ proc'[p] = [run |-> l, at |-> at]
      /\ \A o \in {"fg", "bg"} \ {p} : proc'[o] = proc[o]
  BY Zenon, <1>2 DEF Go
<1>4. proc' \in [{"fg", "bg"} -> ProcType]
  BY SMTT(30), <1>1, <1>2 DEF Go
<1> QED BY Zenon, <1>1, <1>3, <1>4

\* Every step label that a script goes to is one.
LEMMA StepLabels ==
  /\ {"none", "dd", "dd ends", "test", "mkdir", "mount", "tar", "enter", "enter by hand",
      "shell", "second", "dpkg", "rm debs", "adduser", "addgroup", "chpasswd", "exit 0",
      "exit 1"} = Steps
  /\ {"fg", "bg"} \ {"fg"} = {"bg"} /\ {"fg", "bg"} \ {"bg"} = {"fg"}
  BY DEF Steps

LEMMA SetTreeType ==
  ASSUME PhoneTypeOK, NEW at, NEW T \in SUBSET TreePart, SetTree(at, T)
  PROVE  sd' \in SUBSET TreePart /\ own' \in SUBSET TreePart
  BY Zenon DEF PhoneTypeOK, SetTree

LEMMA TreesTyped ==
  ASSUME PhoneTypeOK, NEW at PROVE Tree(at) \in SUBSET TreePart
  BY Zenon DEF PhoneTypeOK, Tree

\* What a script does to the processes, in general.
Moved(p) ==
    \E l \in Steps, at \in {"none", "sd", "own"} : Go(p, l, at)

LEMMA MovedType ==
  ASSUME PhoneTypeOK, NEW p \in {"fg", "bg"}, Moved(p)
  PROVE  proc' \in [{"fg", "bg"} -> [run : Steps, at : {"none", "sd", "own"}]]
  BY Zenon, GoProc DEF Moved, ProcType

LEMMA AtType ==
  ASSUME PhoneTypeOK, NEW p \in {"fg", "bg"}
  PROVE  proc[p].at \in {"none", "sd", "own"} /\ proc[p].run \in Steps
<1>1. proc[p] \in ProcType
  BY Zenon DEF PhoneTypeOK, ProcType
<1> QED BY SMTT(30), <1>1 DEF ProcType

LEMMA FlashType ==
  ASSUME PhoneTypeOK, NEW p \in {"fg", "bg"}, Flash(p)
  PROVE  PhoneTypeOK'
<1> USE DEF trees, mounts, adb, booted
<1>1. Moved(p)
  <2>1. {"dd ends", "exit 0", "exit 1"} \subseteq Steps
    BY Zenon, StepLabels
  <2> QED BY Zenon, <2>1 DEF Flash, Moved
<1>2. recovery' \in {"stock", "torn", "whole"}
  BY Zenon DEF Flash, PhoneTypeOK
<1> QED
  <2>1. proc' \in [{"fg", "bg"} -> [run : Steps, at : {"none", "sd", "own"}]]
    BY Zenon, <1>1, <1>2, MovedType
  <2> QED BY ZenonT(120), <1>1, <1>2, <2>1 DEF Flash, PhoneTypeOK

LEMMA MakeDirType ==
  ASSUME PhoneTypeOK, NEW p \in {"fg", "bg"}, MakeDir(p)
  PROVE  PhoneTypeOK'
<1> USE DEF trees, mounts, adb, booted
<1>1. Moved(p)
  <2>1. {"mkdir", "mount", "exit 1"} \subseteq Steps
    BY Zenon, StepLabels
  <2> QED BY Zenon, <2>1 DEF MakeDir, Moved
<1>2. dir' \in BOOLEAN
  BY Zenon DEF MakeDir, PhoneTypeOK
<1> QED
  <2>1. proc' \in [{"fg", "bg"} -> [run : Steps, at : {"none", "sd", "own"}]]
    BY Zenon, <1>1, <1>2, MovedType
  <2> QED BY ZenonT(120), <1>1, <1>2, <2>1 DEF MakeDir, PhoneTypeOK

LEMMA StartTarType ==
  ASSUME PhoneTypeOK, NEW p \in {"fg", "bg"}, StartTar(p)
  PROVE  PhoneTypeOK'
<1> USE DEF trees, mounts, adb, booted
<1>1. PICK ok \in {TRUE} \cup {b \in {FALSE} : "mount" \in Faulty} :
        LET at == IF ok \/ over THEN "sd" ELSE "own"
            old == Tree(at)
        IN /\ over' = (ok \/ over) /\ Go(p, "tar", at)
           /\ SetTree(at, old \cup {"part"} \cup {x \in {"mixed"} : old # {}})
           /\ unseen' = unseen \cup {x \in {"no card"} : at = "own"}
  BY Zenon DEF StartTar
<1> DEFINE at == IF ok \/ over THEN "sd" ELSE "own"
<1>2. at \in {"none", "sd", "own"} /\ "tar" \in Steps
  BY Zenon, StepLabels
<1>3. over' \in BOOLEAN /\ Moved(p)
  BY Zenon, <1>1, <1>2 DEF Moved
<1>4. Tree(at) \cup {"part"} \cup {x \in {"mixed"} : Tree(at) # {}} \in SUBSET TreePart
  <2>1. {"part", "mixed"} \subseteq TreePart
    BY Zenon DEF TreePart
  <2> QED BY Zenon, <2>1, TreesTyped
<1>5. sd' \in SUBSET TreePart /\ own' \in SUBSET TreePart
  BY Zenon, <1>1, <1>4, SetTreeType
<1>6. unseen' \in SUBSET {"no card", "second", "orphan", "archive"}
  BY Zenon, <1>1 DEF PhoneTypeOK
<1>7. UNCHANGED <<recovery, dir, binds, hand, adb, booted>>
  BY Zenon DEF StartTar
<1> QED
  <2>1. proc' \in [{"fg", "bg"} -> [run : Steps, at : {"none", "sd", "own"}]]
    BY Zenon, <1>3, <1>5, <1>6, <1>7, MovedType
  <2> QED BY ZenonT(120), <1>3, <1>5, <1>6, <1>7, <2>1 DEF PhoneTypeOK


LEMMA EndTarType ==
  ASSUME PhoneTypeOK, NEW p \in {"fg", "bg"}, EndTar(p)
  PROVE  PhoneTypeOK'
<1> USE DEF trees, mounts, adb, booted
<1>1. Moved(p)
  <2>1. {"exit 0", "exit 1"} \subseteq Steps
    BY Zenon, StepLabels
  <2> QED BY Zenon, <2>1 DEF EndTar, Moved
<1>2. pushed.parts \in SUBSET TreePart
  <2>1. pushed.parts \in SUBSET Content
    BY Zenon DEF PhoneTypeOK, Archive
  <2> QED BY Zenon, <2>1 DEF TreePart
<1>3. (Tree(proc[p].at) \ {"part"}) \cup pushed.parts \in SUBSET TreePart
  BY Zenon, <1>2, TreesTyped
<1>4. sd' \in SUBSET TreePart /\ own' \in SUBSET TreePart
  BY Zenon, <1>3, SetTreeType DEF EndTar, PhoneTypeOK
<1>5. UNCHANGED <<recovery, mounts, adb, booted, unseen>>
  BY Zenon DEF EndTar
<1> QED
  <2>1. proc' \in [{"fg", "bg"} -> [run : Steps, at : {"none", "sd", "own"}]]
    BY Zenon, <1>1, <1>4, <1>5, MovedType
  <2> QED BY ZenonT(120), <1>1, <1>4, <1>5, <2>1 DEF PhoneTypeOK

LEMMA EnterType ==
  ASSUME PhoneTypeOK, NEW p \in {"fg", "bg"}, Enter(p)
  PROVE  PhoneTypeOK' /\ binds' \in {binds, binds + 1}
<1> USE DEF trees, mounts, adb, booted
<1>1. PICK ok \in {TRUE} \cup {b \in {FALSE} : "mount" \in Faulty} :
        LET at == IF dir /\ (ok \/ over) THEN "sd" ELSE "own" IN
        /\ over' = (at = "sd")
        /\ \/ /\ {"base", "part"} \cap Tree(at) # {} /\ binds' = binds + 1
              /\ Go(p, IF proc[p].run = "enter" THEN "second" ELSE "shell", at)
           \/ /\ "base" \notin Tree(at) /\ Go(p, "exit 1", "none")
              /\ binds' \in {binds} \cup {b \in {binds + 1} : Tree(at) # {}}
  BY Zenon DEF Enter
<1> DEFINE at == IF dir /\ (ok \/ over) THEN "sd" ELSE "own"
<1>2. at \in {"none", "sd", "own"} /\ {"second", "shell", "exit 1"} \subseteq Steps
  BY Zenon, StepLabels
<1>3. over' \in BOOLEAN /\ Moved(p)
  BY Zenon, <1>1, <1>2 DEF Moved
<1>4. binds' \in {binds, binds + 1}
  BY Zenon, <1>1
<1>5. binds' \in Nat /\ hand' \in Nat
  <2>1. binds \in Nat /\ hand \in Nat
    BY Zenon DEF PhoneTypeOK
  <2>2. hand' = hand \/ hand' = hand + (binds' - binds)
    BY Zenon DEF Enter
  <2> QED BY SMTT(30), <1>4, <2>1, <2>2
<1>6. UNCHANGED <<recovery, dir, trees, adb, booted, unseen>>
  BY Zenon DEF Enter
<1> QED
  <2>1. proc' \in [{"fg", "bg"} -> [run : Steps, at : {"none", "sd", "own"}]]
    BY Zenon, <1>3, <1>4, <1>5, <1>6, MovedType
  <2> QED BY ZenonT(120), <1>3, <1>4, <1>5, <1>6, <2>1 DEF PhoneTypeOK

LEMMA SecondType ==
  ASSUME PhoneTypeOK, NEW p \in {"fg", "bg"}, SecondStage(p)
  PROVE  PhoneTypeOK'
<1> USE DEF trees, mounts, adb, booted
<1>1. Moved(p)
  <2>1. {"dpkg"} \subseteq Steps
    BY Zenon, StepLabels
  <2> QED BY Zenon, <2>1, AtType DEF SecondStage, Moved
<1>2. Tree(proc[p].at) \cup {"second"} \in SUBSET TreePart
  <2>1. "second" \in TreePart
    BY Zenon DEF TreePart, Content
  <2> QED BY Zenon, <2>1, TreesTyped
<1>3. sd' \in SUBSET TreePart /\ own' \in SUBSET TreePart
  BY Zenon, <1>2, SetTreeType DEF SecondStage, PhoneTypeOK
<1>4. unseen' \in SUBSET {"no card", "second", "orphan", "archive"}
  BY Zenon DEF SecondStage, PhoneTypeOK
<1>5. UNCHANGED <<recovery, mounts, adb, booted>>
  BY Zenon DEF SecondStage
<1> QED
  <2>1. proc' \in [{"fg", "bg"} -> [run : Steps, at : {"none", "sd", "own"}]]
    BY Zenon, <1>1, <1>3, <1>4, <1>5, MovedType
  <2> QED BY ZenonT(120), <1>1, <1>3, <1>4, <1>5, <2>1 DEF PhoneTypeOK

LEMMA LinkType ==
  ASSUME PhoneTypeOK, NEW p \in {"fg", "bg"}, NEW l, NEW guard, NEW add \in SUBSET TreePart,
         NEW next \in Steps, Link(p, l, guard, add, next)
  PROVE  Moved(p) /\ sd' \in SUBSET TreePart /\ own' \in SUBSET TreePart
<1>1. Moved(p)
  <2>1. "exit 1" \in Steps
    BY Zenon, StepLabels
  <2> QED BY Zenon, <2>1, AtType DEF Link, Moved
<1>2. Tree(proc[p].at) \cup add \in SUBSET TreePart
  BY Zenon, TreesTyped
<1>3. sd' \in SUBSET TreePart /\ own' \in SUBSET TreePart
  BY Zenon, <1>2, SetTreeType DEF Link, PhoneTypeOK, trees
<1> QED BY Zenon, <1>1, <1>3

LEMMA SetupType ==
  ASSUME PhoneTypeOK, NEW p \in {"fg", "bg"}, Setup(p)
  PROVE  PhoneTypeOK'
<1> USE DEF trees, mounts, adb, booted
<1>1. /\ {"pkgs"} \in SUBSET TreePart /\ {"user"} \in SUBSET TreePart
      /\ {"sudo"} \in SUBSET TreePart /\ {"pw"} \in SUBSET TreePart
  BY Zenon DEF TreePart, Content
<1>2. {"rm debs", "adduser", "addgroup", "chpasswd", "exit 0"} \subseteq Steps
  BY Zenon, StepLabels
<1>3. Moved(p) /\ sd' \in SUBSET TreePart /\ own' \in SUBSET TreePart
  <2>1. CASE /\ proc[p].run = "rm debs" /\ SetTree(proc[p].at, Tree(proc[p].at) \ {"debs"})
             /\ Go(p, "adduser", proc[p].at)
    <3>1. Tree(proc[p].at) \ {"debs"} \in SUBSET TreePart
      BY Zenon, TreesTyped
    <3>2. Moved(p)
      BY Zenon, <1>2, <2>1, AtType DEF Moved
    <3> QED BY Zenon, <2>1, <3>1, <3>2, SetTreeType
  <2>2. CASE \/ Link(p, "dpkg", "debs" \in Tree(proc[p].at), {"pkgs"}, "rm debs")
             \/ Link(p, "adduser", "user" \notin Tree(proc[p].at), {"user"}, "addgroup")
             \/ Link(p, "addgroup", TRUE, {"sudo"}, "chpasswd")
             \/ Link(p, "chpasswd", TRUE, {"pw"}, "exit 0")
    BY Zenon, <1>1, <1>2, <2>2, LinkType
  <2> QED BY Zenon, <2>1, <2>2 DEF Setup
<1>4. UNCHANGED <<recovery, mounts, adb, booted, unseen>>
  BY Zenon DEF Setup
<1> QED
  <2>1. proc' \in [{"fg", "bg"} -> [run : Steps, at : {"none", "sd", "own"}]]
    BY Zenon, <1>3, <1>4, MovedType
  <2> QED BY ZenonT(120), <1>3, <1>4, <2>1 DEF PhoneTypeOK

LEMMA ShellType ==
  ASSUME PhoneTypeOK, NEW p \in {"fg", "bg"}, EndShell(p)
  PROVE  PhoneTypeOK'
<1> USE DEF trees, mounts, adb, booted
<1>1. Moved(p)
  BY Zenon, StepLabels DEF EndShell, Moved
<1> QED
  <2>1. proc' \in [{"fg", "bg"} -> [run : Steps, at : {"none", "sd", "own"}]]
    BY Zenon, <1>1, MovedType
  <2> QED BY ZenonT(120), <1>1, <2>1 DEF EndShell, PhoneTypeOK

LEMMA ScriptType ==
  ASSUME PhoneTypeOK, NEW p \in {"fg", "bg"}, Script(p)
  PROVE  PhoneTypeOK'
  BY Zenon, FlashType, MakeDirType, StartTarType, EndTarType, EnterType, SecondType,
     SetupType, ShellType DEF Script

\* The recipe.
LEMMA PushType ==
  ASSUME PhoneTypeOK, NEW a \in Archive, Push(a)
  PROVE  PhoneTypeOK'
<1> USE DEF trees, mounts, adb, booted
<1>1. proc' \in [{"fg", "bg"} -> [run : Steps, at : {"none", "sd", "own"}]]
  <2>1. CASE Go("fg", "dd", "none")
    BY Zenon, <2>1, StepLabels, MovedType DEF Moved
  <2>2. CASE UNCHANGED proc
    BY Zenon, <2>2 DEF PhoneTypeOK
  <2> QED BY Zenon, <2>1, <2>2 DEF Push
<1>2. unseen' \in SUBSET {"no card", "second", "orphan", "archive"}
  BY Zenon DEF Push, PhoneTypeOK
<1> QED BY ZenonT(120), <1>1, <1>2 DEF Push, StopInstall, PhoneTypeOK

\* AdbReturn, case by case.
LEMMA Returns ==
  ASSUME PhoneTypeOK, InLine, AdbReturn
  PROVE  /\ \/ /\ line = "flash" /\ line' = "unpack" /\ Go("fg", "test", "none")
               /\ ending' = ending /\ Succeeds(proc["fg"].run)
            \/ /\ line = "unpack" /\ ~pushed.qemu /\ line' = "bootstrap"
               /\ Go("fg", "enter", "none") /\ ending' = ending /\ Succeeds(proc["fg"].run)
            \/ /\ \/ line = "unpack" /\ pushed.qemu
                  \/ line = "bootstrap"
               /\ line' = "rm" /\ ending' = ending /\ Succeeds(proc["fg"].run)
               /\ Go("fg", "none", "none")
            \/ /\ StopInstall("fail") /\ Go("fg", "none", "none")
         /\ proc["fg"].run \in {"exit 0", "exit 1"}
         /\ UNCHANGED <<recovery, mounts, trees, pushed, booted, unseen>>
<1>1. NoProc = [run |-> "none", at |-> "none"]
  BY Zenon DEF NoProc
<1>2. line \in {"flash", "unpack", "bootstrap"}
  <2>1. "none" \notin {"exit 0", "exit 1"}
    BY Zenon
  <2> QED BY ZenonT(120), <2>1, ProcTypes DEF AdbReturn, InLine, PhoneTypeOK
<1>3. CASE Succeeds(proc["fg"].run)
  <2>1. CASE line = "flash"
    <3>1. After(line) = "unpack"
      BY Zenon, <2>1 DEF After
    <3> QED BY Zenon, <1>3, <2>1, <3>1 DEF AdbReturn, Go
  <2>2. CASE line = "unpack" /\ ~pushed.qemu
    <3>1. After(line) = "bootstrap"
      BY Zenon, <2>2 DEF After
    <3> QED BY Zenon, <1>3, <2>2, <3>1 DEF AdbReturn, Go
  <2>3. CASE (line = "unpack" /\ pushed.qemu) \/ line = "bootstrap"
    <3>1. After(line) = "rm"
      BY Zenon, <2>3 DEF After
    <3> QED BY Zenon, <1>1, <1>3, <2>3, <3>1 DEF AdbReturn, Go
  <2> QED BY Zenon, <1>2, <2>1, <2>2, <2>3
<1>4. CASE ~Succeeds(proc["fg"].run)
  BY Zenon, <1>1, <1>4 DEF AdbReturn, Go
<1> QED BY Zenon, <1>3, <1>4

LEMMA ReturnType ==
  ASSUME PhoneTypeOK, InLine, AdbReturn
  PROVE  PhoneTypeOK'
<1> USE DEF trees, mounts, adb, booted
<1>1. Moved("fg")
  <2>1. {"test", "enter", "none"} \subseteq Steps
    BY Zenon, StepLabels
  <2> QED BY Zenon, <2>1, Returns DEF Moved
<1>2. /\ line' \in {"idle", "push", "flash", "unpack", "bootstrap", "rm"}
      /\ ending' \in {"none", "ok", "fail"}
  BY Zenon, Returns DEF StopInstall, PhoneTypeOK
<1> QED BY ZenonT(120), <1>1, <1>2, MovedType, Returns DEF PhoneTypeOK

LEMMA DisconnectType ==
  ASSUME PhoneTypeOK, Disconnect
  PROVE  PhoneTypeOK'
<1> USE DEF trees, mounts, adb, booted
<1>1. proc \in [{"fg", "bg"} -> ProcType] /\ NoProc \in ProcType
  BY Zenon, ProcTypes DEF PhoneTypeOK, ProcType
<1>2. proc' \in [{"fg", "bg"} -> ProcType]
  BY SMTT(30), <1>1 DEF Disconnect
<1>3. unseen' \in SUBSET {"no card", "second", "orphan", "archive"}
  BY Zenon DEF Disconnect, PhoneTypeOK
<1> QED BY Zenon, <1>2, <1>3 DEF Disconnect, StopInstall, PhoneTypeOK, ProcType

LEMMA ZeroNat == 0 \in Nat
  OBVIOUS

LEMMA DownType ==
  ASSUME PhoneTypeOK, Down, boot' \in {"off", "no kernel", "no root", "no init", "up"},
         log' \in BOOLEAN
  PROVE  PhoneTypeOK'
<1> USE DEF trees, mounts, adb, booted
<1>1. proc' \in [{"fg", "bg"} -> ProcType]
  <2>1. NoProc \in ProcType
    BY Zenon, ProcTypes
  <2>2. proc' = [p \in {"fg", "bg"} |-> NoProc]
    BY Zenon DEF Down
  <2> QED BY Zenon, <2>1, <2>2
<1>2. binds' \in Nat /\ hand' \in Nat
  <2>1. binds' = 0 /\ hand' = 0
    BY Zenon DEF Down
  <2> QED BY Zenon, <2>1, ZeroNat
<1>3. over' \in BOOLEAN
  BY Zenon DEF Down
<1>4. /\ line' \in {"idle", "push", "flash", "unpack", "bootstrap", "rm"}
      /\ ending' \in {"none", "ok", "fail"}
  BY Zenon DEF Down, StopInstall, PhoneTypeOK
<1> QED BY Zenon, <1>1, <1>2, <1>3, <1>4 DEF Down, PhoneTypeOK, ProcType

LEMMA BootValues ==
  ASSUME PhoneTypeOK, BootRecovery
  PROVE  /\ boot' \in {"off", "no kernel", "no root", "no init", "up"} /\ log' \in BOOLEAN
         /\ boot' \in {"up", "no init"} => log'
         /\ recovery = "whole" /\ {"base", "second"} \subseteq sd
               => boot' \notin {"no kernel", "no init"}
<1>1. PICK works \in {{"dev", "root", "log"}} \cup
                     {w \in SUBSET {"dev", "root", "log"} : "boot" \in Faulty} :
         IF recovery # "whole" THEN boot' = "no kernel" /\ UNCHANGED log
         ELSE /\ boot' = IF ~Rooted(works) THEN "no root"
                         ELSE IF {"base", "second"} \subseteq sd THEN "up" ELSE "no init"
              /\ log' = ("log" \in works)
  BY Zenon DEF BootRecovery
<1>2. Rooted(works) => "log" \in works
  BY Zenon DEF Rooted
<1>3. boot' \in {"off", "no kernel", "no root", "no init", "up"} /\ log' \in BOOLEAN
  <2>1. log' = log \/ log' = ("log" \in works)
    BY Zenon, <1>1
  <2>2. log' \in BOOLEAN
    <3>1. CASE log' = log
      BY Zenon, <3>1 DEF PhoneTypeOK
    <3>2. CASE log' = ("log" \in works)
      BY SMTT(30), <3>2
    <3> QED BY Zenon, <2>1, <3>1, <3>2
  <2>3. boot' \in {"no kernel", "no root", "no init", "up"}
    BY Zenon, <1>1
  <2> QED BY Zenon, <2>2, <2>3
<1>4. ASSUME boot' \in {"up", "no init"} PROVE log'
  <2>1. recovery = "whole" /\ Rooted(works)
    BY Zenon, <1>1, <1>4
  <2>2. log' = ("log" \in works)
    BY Zenon, <1>1, <2>1
  <2> QED BY Zenon, <1>2, <2>1, <2>2
<1>5. recovery = "whole" /\ {"base", "second"} \subseteq sd
         => boot' \notin {"no kernel", "no init"}
  BY Zenon, <1>1
<1> QED BY Zenon, <1>3, <1>4, <1>5

LEMMA PlainType ==
  ASSUME PhoneTypeOK,
         \/ Remove \/ Reap \/ StartInstall \/ StartShell \/ Unmount \/ Delete \/ Format
  PROVE  PhoneTypeOK'
<1> USE DEF trees, mounts, adb, booted
<1>1. CASE Reap
  <2>1. Go("bg", "none", "none")
    BY Zenon, <1>1 DEF Reap, Go, NoProc
  <2>2. Moved("bg")
    BY Zenon, <2>1, StepLabels DEF Moved
  <2> QED
    <3>1. proc' \in [{"fg", "bg"} -> [run : Steps, at : {"none", "sd", "own"}]]
      BY Zenon, <1>1, <2>2, MovedType
    <3> QED BY ZenonT(120), <1>1, <2>2, <3>1 DEF Reap, PhoneTypeOK
<1>2. CASE StartShell
  <2>1. Moved("bg")
    BY Zenon, <1>2, StepLabels DEF StartShell, Moved
  <2> QED
    <3>1. proc' \in [{"fg", "bg"} -> [run : Steps, at : {"none", "sd", "own"}]]
      BY Zenon, <1>2, <2>1, MovedType
    <3> QED BY ZenonT(120), <1>2, <2>1, <3>1 DEF StartShell, PhoneTypeOK
<1>3. CASE Remove
  BY Zenon, <1>3 DEF Remove, StopInstall, PhoneTypeOK
<1>4. CASE StartInstall
  BY Zenon, <1>4 DEF StartInstall, PhoneTypeOK
<1>5. CASE Unmount
  BY Zenon, <1>5 DEF Unmount, PhoneTypeOK
<1>6. CASE Delete
  BY Zenon, <1>6 DEF Delete, PhoneTypeOK
<1>7. CASE Format
  BY Zenon, <1>7 DEF Format, PhoneTypeOK
<1> QED BY Zenon, <1>1, <1>2, <1>3, <1>4, <1>5, <1>6, <1>7

\* The disjuncts of a step.
LEMMA StepCases ==
  ASSUME Step
  PROVE  \/ \E a \in Archive : Push(a)
         \/ AdbReturn \/ Remove \/ Disconnect \/ Reap
         \/ \E p \in {"fg", "bg"} : Script(p)
         \/ StartInstall \/ StartShell \/ Restart \/ BootRecovery
         \/ Unmount \/ Delete \/ Format
  BY Zenon, DeviceAssumption DEF Step, PhoneNext, Work, DeviceAssumption

LEMMA PhoneTypeStep ==
  ASSUME PhoneTypeOK, InLine, Step
  PROVE  PhoneTypeOK'
<1>1. CASE \E a \in Archive : Push(a)
  BY Zenon, <1>1, PushType
<1>2. CASE AdbReturn
  BY Zenon, <1>2, ReturnType
<1>3. CASE Disconnect
  BY Zenon, <1>3, DisconnectType
<1>4. CASE \E p \in {"fg", "bg"} : Script(p)
  BY Zenon, <1>4, ScriptType
<1>5. CASE Restart
  <2>1. boot' \in {"off", "no kernel", "no root", "no init", "up"} /\ log' \in BOOLEAN
    BY Zenon, <1>5 DEF Restart, PhoneTypeOK
  <2> QED BY Zenon, <1>5, <2>1, DownType DEF Restart
<1>6. CASE BootRecovery
  BY Zenon, <1>6, BootValues, DownType DEF BootRecovery
<1>7. CASE Remove \/ Reap \/ StartInstall \/ StartShell \/ Unmount \/ Delete \/ Format
  BY Zenon, <1>7, PlainType
<1> QED BY Zenon, <1>1, <1>2, <1>3, <1>4, <1>5, <1>6, <1>7, StepCases
-----------------------------------------------------------------------------
\* Which steps lead to which: a script stays within its own.
Moves(a, b) ==
    \/ a \in {"dd", "dd ends"} /\ b \in {"dd ends"} \cup Exits
    \/ a \in {"test", "mkdir", "mount", "tar"} /\ b \in {"mkdir", "mount", "tar"} \cup Exits
    \/ a \in {"enter"} \cup Chroot /\ b \in Chroot \cup Exits
    \/ a \in {"enter by hand", "shell"} /\ b \in {"shell"} \cup Exits

\* A script does not touch the other process, the recipe or the boot.
LEMMA ScriptMoves ==
  ASSUME PhoneTypeOK, NEW p \in {"fg", "bg"}, Script(p)
  PROVE  /\ Moves(proc[p].run, proc'[p].run)
         /\ \A o \in {"fg", "bg"} \ {p} : proc'[o] = proc[o]
         /\ UNCHANGED <<line, pushed, ending, boot, log>>
<1> USE DEF trees, mounts, adb, booted
<1> DEFINE Goes(l) == \E at \in {"none", "sd", "own"} : Go(p, l, at)
           Rest == \A o \in {"fg", "bg"} \ {p} : proc'[o] = proc[o]
<1>0. ASSUME NEW l \in Steps, Goes(l)
      PROVE  proc'[p].run = l /\ Rest
  <2>1. PICK at \in {"none", "sd", "own"} : Go(p, l, at)
    BY Zenon, <1>0
  <2> QED BY ZenonT(60), <2>1, GoProc
<1>1. CASE Flash(p)
  <2>1. Goes("exit 0") \/ Goes("exit 1") \/ (proc[p].run = "dd" /\ Goes("dd ends"))
    BY Zenon, <1>1 DEF Flash
  <2>2. proc[p].run \in {"dd", "dd ends"}
    BY Zenon, <1>1 DEF Flash
  <2>3. Rest /\ proc'[p].run \in {"dd ends", "exit 0", "exit 1"}
    BY Zenon, <1>0, <2>1, StepLabels
  <2> QED BY Zenon, <1>1, <2>2, <2>3 DEF Flash, Moves, Exits
<1>2. CASE MakeDir(p)
  <2>1. Goes("mkdir") \/ Goes("mount") \/ Goes("exit 1")
    BY Zenon, <1>2 DEF MakeDir
  <2>2. proc[p].run \in {"test", "mkdir"}
    BY Zenon, <1>2 DEF MakeDir
  <2>3. Rest /\ proc'[p].run \in {"mkdir", "mount", "exit 1"}
    BY Zenon, <1>0, <2>1, StepLabels
  <2> QED BY Zenon, <1>2, <2>2, <2>3 DEF MakeDir, Moves, Exits
<1>3. CASE StartTar(p)
  <2>1. Goes("tar") /\ proc[p].run = "mount"
    BY Zenon, <1>3 DEF StartTar
  <2>2. Rest /\ proc'[p].run = "tar"
    BY Zenon, <1>0, <2>1, StepLabels
  <2> QED BY Zenon, <1>3, <2>1, <2>2 DEF StartTar, Moves
<1>4. CASE EndTar(p)
  <2>1. (Goes("exit 0") \/ Goes("exit 1")) /\ proc[p].run = "tar"
    BY Zenon, <1>4 DEF EndTar
  <2>2. Rest /\ proc'[p].run \in {"exit 0", "exit 1"}
    BY Zenon, <1>0, <2>1, StepLabels
  <2> QED BY Zenon, <1>4, <2>1, <2>2 DEF EndTar, Moves, Exits
<1>5. CASE Enter(p)
  <2>1. \/ proc[p].run = "enter" /\ Goes("second")
        \/ proc[p].run = "enter by hand" /\ Goes("shell")
        \/ proc[p].run \in {"enter", "enter by hand"} /\ Goes("exit 1")
    <3>1. \A ok \in BOOLEAN :
            (IF dir /\ (ok \/ over) THEN "sd" ELSE "own") \in {"none", "sd", "own"}
      BY Zenon
    <3> QED BY Zenon, <1>5, <3>1 DEF Enter
  <2>2. /\ Rest
        /\ \/ proc[p].run = "enter" /\ proc'[p].run = "second"
           \/ proc[p].run = "enter by hand" /\ proc'[p].run = "shell"
           \/ proc[p].run \in {"enter", "enter by hand"} /\ proc'[p].run = "exit 1"
    BY Zenon, <1>0, <2>1, StepLabels
  <2> QED BY Zenon, <1>5, <2>2 DEF Enter, Moves, Chroot, Exits
<1>6. CASE SecondStage(p)
  <2>1. Goes("dpkg") /\ proc[p].run = "second"
    BY Zenon, <1>6, AtType DEF SecondStage
  <2>2. Rest /\ proc'[p].run = "dpkg"
    BY Zenon, <1>0, <2>1, StepLabels
  <2> QED BY Zenon, <1>6, <2>1, <2>2 DEF SecondStage, Moves, Chroot
<1>7. CASE Setup(p)
  <2>1. /\ proc[p].run \in Chroot
        /\ \/ Goes("rm debs") \/ Goes("adduser") \/ Goes("addgroup") \/ Goes("chpasswd")
           \/ Goes("exit 0") \/ Goes("exit 1")
    BY Zenon, <1>7, AtType DEF Setup, Link, Chroot
  <2>2. /\ Rest
        /\ proc'[p].run \in {"rm debs", "adduser", "addgroup", "chpasswd", "exit 0", "exit 1"}
    BY Zenon, <1>0, <2>1, StepLabels
  <2> QED BY Zenon, <1>7, <2>1, <2>2 DEF Setup, Moves, Chroot, Exits
<1>8. CASE EndShell(p)
  <2>1. Goes("exit 0") /\ proc[p].run = "shell"
    BY Zenon, <1>8 DEF EndShell
  <2>2. Rest /\ proc'[p].run = "exit 0"
    BY Zenon, <1>0, <2>1, StepLabels
  <2> QED BY Zenon, <1>8, <2>1, <2>2 DEF EndShell, Moves, Exits
<1> QED BY Zenon, <1>1, <1>2, <1>3, <1>4, <1>5, <1>6, <1>7, <1>8 DEF Script

\* A process that Go has sent to "none" is gone.
LEMMA Gone ==
  ASSUME PhoneTypeOK, NEW p \in {"fg", "bg"}, Go(p, "none", "none")
  PROVE  proc'[p] = NoProc
  BY Zenon DEF PhoneTypeOK, Go, NoProc

LEMMA LineStep ==
  ASSUME PhoneTypeOK, InLine, Step
  PROVE  InLine'
<1> USE DEF trees, mounts, adb, booted
<1>0. NoProc.run = "none"
  BY Zenon, ProcTypes
<1>1. ASSUME NEW a \in Archive, Push(a) PROVE InLine'
  <2>1. CASE line' = "flash" /\ Go("fg", "dd", "none") /\ UNCHANGED ending
    <3>1. proc'["fg"].run = "dd"
      BY Zenon, <2>1, GoProc, StepLabels
    <3> QED BY Zenon, <1>1, <2>1, <3>1 DEF InLine, Push
  <2>2. CASE StopInstall("fail") /\ UNCHANGED proc
    BY Zenon, <1>1, <2>2 DEF InLine, Push, StopInstall
  <2> QED BY Zenon, <1>1, <2>1, <2>2 DEF Push
<1>2. CASE AdbReturn
  <2>1. line \in {"flash", "unpack", "bootstrap"}
    <3>1. "none" \notin {"exit 0", "exit 1"}
      BY Zenon
    <3> QED BY ZenonT(120), <1>0, <1>2, <3>1 DEF AdbReturn, InLine, PhoneTypeOK
  <2>2. ending = "none" /\ boot = "off" /\ boot' = "off"
    BY Zenon, <1>2, <2>1 DEF InLine, AdbReturn
  <2>3. CASE line' = "unpack" /\ Go("fg", "test", "none") /\ ending' = ending
    <3>1. proc'["fg"].run = "test"
      BY Zenon, <2>3, GoProc, StepLabels
    <3> QED BY Zenon, <2>2, <2>3, <3>1 DEF InLine
  <2>4. CASE line' = "bootstrap" /\ Go("fg", "enter", "none") /\ ending' = ending
    <3>1. proc'["fg"].run = "enter"
      BY Zenon, <2>4, GoProc, StepLabels
    <3> QED BY Zenon, <2>2, <2>4, <3>1 DEF InLine
  <2>5. CASE line' = "rm" /\ ending' = ending /\ Go("fg", "none", "none")
    BY Zenon, <2>2, <2>5, Gone DEF InLine
  <2>6. CASE StopInstall("fail") /\ Go("fg", "none", "none")
    BY Zenon, <2>6, Gone DEF InLine, StopInstall
  <2> QED BY Zenon, <1>2, <2>3, <2>4, <2>5, <2>6, Returns
<1>3. CASE Disconnect
  <2>1. proc'["fg"] = NoProc
    BY Zenon, <1>3 DEF Disconnect, PhoneTypeOK
  <2> QED BY Zenon, <1>3, <2>1 DEF Disconnect, StopInstall, InLine
<1>4. ASSUME NEW p \in {"fg", "bg"}, Script(p) PROVE InLine'
  <2>1. UNCHANGED <<line, ending, boot>>
    BY Zenon, <1>4, ScriptMoves
  <2>2. CASE p = "bg"
    <3>1. proc'["fg"] = proc["fg"]
      BY Zenon, <1>4, <2>2, ScriptMoves, StepLabels
    <3> QED BY Zenon, <2>1, <3>1 DEF InLine
  <2>3. CASE p = "fg"
    <3>1. Moves(proc["fg"].run, proc'["fg"].run)
      BY Zenon, <1>4, <2>3, ScriptMoves
    <3>2. ("none" \notin {"dd", "dd ends", "test", "mkdir", "mount", "tar", "enter by hand",
             "shell"} \cup ({"enter"} \cup Chroot))
      BY Zenon DEF Chroot
    <3>3. line \in {"flash", "unpack", "bootstrap"}
      BY Zenon, <1>0, <3>1, <3>2 DEF InLine, Moves, PhoneTypeOK
    <3>4. CASE line = "flash"
      <4>1. proc'["fg"].run \in {"dd", "dd ends"} \cup Exits
        BY Zenon, <3>1, <3>4 DEF InLine, Moves, Chroot, Exits
      <4> QED BY Zenon, <2>1, <3>4, <4>1 DEF InLine
    <3>5. CASE line = "unpack"
      <4>1. proc'["fg"].run \in {"test", "mkdir", "mount", "tar"} \cup Exits
        BY Zenon, <3>1, <3>5 DEF InLine, Moves, Chroot, Exits
      <4> QED BY Zenon, <2>1, <3>5, <4>1 DEF InLine
    <3>6. CASE line = "bootstrap"
      <4>1. proc'["fg"].run \in {"enter"} \cup Chroot \cup Exits
        BY Zenon, <3>1, <3>6 DEF InLine, Moves, Chroot, Exits
      <4> QED BY Zenon, <2>1, <3>6, <4>1 DEF InLine
    <3> QED BY Zenon, <3>3, <3>4, <3>5, <3>6
  <2> QED BY Zenon, <2>2, <2>3
<1>5. CASE Restart \/ BootRecovery
  <2>1. proc'["fg"] = NoProc /\ line' = "idle"
    BY Zenon, <1>5 DEF Restart, BootRecovery, Down, StopInstall
  <2> QED BY Zenon, <2>1 DEF InLine
<1>6. CASE Reap
  <2>1. proc'["fg"] = proc["fg"]
    BY Zenon, <1>6 DEF Reap, PhoneTypeOK
  <2> QED BY Zenon, <1>6, <2>1 DEF Reap, InLine
<1>7. CASE StartShell
  <2>1. proc'["fg"] = proc["fg"]
    BY Zenon, <1>7 DEF StartShell, Go, PhoneTypeOK
  <2> QED BY Zenon, <1>7, <2>1 DEF StartShell, InLine
<1>8. CASE Remove
  BY Zenon, <1>8 DEF Remove, StopInstall, InLine
<1>9. CASE StartInstall
  BY Zenon, <1>9 DEF StartInstall, InLine
<1>10. CASE Unmount \/ Delete \/ Format
  BY Zenon, <1>10 DEF Unmount, Delete, Format, Quiet, InLine
<1> QED BY Zenon, <1>1, <1>2, <1>3, <1>4, <1>5, <1>6, <1>7, <1>8, <1>9, <1>10, StepCases

LEMMA AloneStep ==
  ASSUME PhoneTypeOK, InLine, Alone, Step
  PROVE  Alone'
<1> USE DEF trees, mounts, adb, booted
<1>0. NoProc.run = "none"
  BY Zenon, ProcTypes
<1> DEFINE Idle == {"none", "enter by hand", "shell"} \cup Exits
<1>1. ASSUME NEW a \in Archive, Push(a) PROVE Alone'
  <2>1. proc'["bg"] = proc["bg"] /\ unseen \subseteq unseen'
    BY Zenon, <1>1 DEF Push, Go, PhoneTypeOK
  <2> QED BY Zenon, <2>1 DEF Alone
<1>2. CASE AdbReturn
  <2>1. proc'["bg"] = proc["bg"] /\ unseen' = unseen
    BY Zenon, <1>2 DEF AdbReturn, PhoneTypeOK
  <2> QED BY Zenon, <2>1 DEF Alone
<1>3. CASE Disconnect
  <2>1. CASE "orphan" \in unseen'
    BY Zenon, <2>1 DEF Alone
  <2>2. CASE "orphan" \notin unseen'
    <3>1. proc'["bg"] = proc["bg"] /\ unseen' = unseen
      BY Zenon, <1>3, <2>2 DEF Disconnect, PhoneTypeOK
    <3> QED BY Zenon, <3>1 DEF Alone
  <2> QED BY Zenon, <2>1, <2>2
<1>4. ASSUME NEW p \in {"fg", "bg"}, Script(p) PROVE Alone'
  <2>1. unseen \subseteq unseen'
    BY Zenon, <1>4 DEF Script, Flash, MakeDir, StartTar, EndTar, Enter, SecondStage, Setup, EndShell
  <2>2. CASE p = "fg"
    <3>1. proc'["bg"] = proc["bg"]
      BY Zenon, <1>4, <2>2, ScriptMoves, StepLabels
    <3> QED BY Zenon, <2>1, <3>1 DEF Alone
  <2>3. CASE p = "bg"
    <3>1. ASSUME proc["bg"].run \in Idle PROVE proc'["bg"].run \in Idle
      BY Zenon, <1>4, <2>3, <3>1, ScriptMoves DEF Moves, Exits, Chroot
    <3> QED BY Zenon, <2>1, <3>1 DEF Alone
  <2> QED BY Zenon, <2>2, <2>3
<1>5. CASE Restart \/ BootRecovery
  <2>1. proc'["bg"] = NoProc
    BY Zenon, <1>5 DEF Restart, BootRecovery, Down
  <2> QED BY Zenon, <1>0, <2>1 DEF Alone
<1>6. CASE Reap
  <2>1. proc'["bg"] = NoProc
    BY Zenon, <1>6 DEF Reap, PhoneTypeOK
  <2> QED BY Zenon, <1>0, <2>1 DEF Alone
<1>7. CASE StartShell
  <2>1. proc'["bg"].run = "enter by hand"
    BY Zenon, <1>7, GoProc, StepLabels DEF StartShell
  <2> QED BY Zenon, <2>1 DEF Alone
<1>8. CASE Remove \/ StartInstall \/ Unmount \/ Delete
  BY Zenon, <1>8 DEF Remove, StartInstall, Unmount, Delete, Alone
<1>9. CASE Format
  BY Zenon, <1>0, <1>9 DEF Format, Quiet, Alone
<1> QED BY Zenon, <1>1, <1>2, <1>3, <1>4, <1>5, <1>6, <1>7, <1>8, <1>9, StepCases

LEMMA SupplyStep ==
  ASSUME PhoneTypeOK, InLine, Supplied, Step
  PROVE  Supplied'
<1> USE DEF trees, mounts, adb, booted
<1> DEFINE Busy == {"flash", "unpack", "bootstrap", "rm"}
<1>1. ASSUME NEW a \in Archive, Push(a) PROVE Supplied'
  <2>1. "archive" \in unseen' \/ Good(a) \/ line' = "idle"
    BY Zenon, <1>1 DEF Push, StopInstall
  <2>2. pushed' = a \/ line' = "idle"
    BY Zenon, <1>1 DEF Push, StopInstall
  <2> QED BY Zenon, <2>1, <2>2 DEF Supplied
<1>2. CASE AdbReturn
  <2>1. line' \in Busy => line \in Busy
    BY Zenon, <1>2, Returns DEF StopInstall
  <2> QED BY Zenon, <1>2, <2>1 DEF AdbReturn, Supplied
<1>3. CASE Disconnect \/ Restart \/ BootRecovery
  <2>1. line' = "idle"
    BY Zenon, <1>3 DEF Disconnect, Restart, BootRecovery, Down, StopInstall
  <2> QED BY Zenon, <2>1 DEF Supplied
<1>4. ASSUME NEW p \in {"fg", "bg"}, Script(p) PROVE Supplied'
  <2>1. unseen \subseteq unseen'
    BY Zenon, <1>4 DEF Script, Flash, MakeDir, StartTar, EndTar, Enter, SecondStage, Setup, EndShell
  <2> QED BY Zenon, <1>4, <2>1, ScriptMoves DEF Supplied
<1>5. CASE StartInstall \/ Remove
  BY Zenon, <1>5 DEF StartInstall, Remove, StopInstall, Supplied
<1>6. CASE Reap \/ StartShell
  BY Zenon, <1>6 DEF Reap, StartShell, Supplied
<1>7. CASE Unmount \/ Delete \/ Format
  BY Zenon, <1>7 DEF Unmount, Delete, Format, Quiet, Supplied
<1> QED BY Zenon, <1>1, <1>2, <1>3, <1>4, <1>5, <1>6, <1>7, StepCases
-----------------------------------------------------------------------------
\* Claimed survives a step that makes no claim and leaves the mounts alone.
LEMMA NoNewClaim ==
  ASSUME Claimed, UNCHANGED mounts, dir \/ own' = own,
         \A p \in {"fg", "bg"} :
            /\ Claim(p)' => Claim(p)
            /\ proc'[p].run \in Inside => proc[p].run \in Inside
            /\ proc'[p].run = "mount" => proc[p].run = "mount"
  PROVE  Claimed'
  BY Zenon DEF Claimed, mounts

\* One script moves, to a step without a claim and outside the tree, or on
\* from the tree.
LEMMA OneMoves ==
  ASSUME Claimed, UNCHANGED mounts, dir \/ own' = own, UNCHANGED line,
         NEW p \in {"fg", "bg"}, \A o \in {"fg", "bg"} \ {p} : proc'[o] = proc[o],
         Claim(p)' => Claim(p),
         proc'[p].run \in Inside => proc[p].run \in Inside,
         proc'[p].run # "mount"
  PROVE  Claimed'
<1>1. ASSUME NEW o \in {"fg", "bg"}
      PROVE  /\ Claim(o)' => Claim(o)
             /\ proc'[o].run \in Inside => proc[o].run \in Inside
             /\ proc'[o].run = "mount" => proc[o].run = "mount"
  <2>1. CASE o = p
    BY Zenon, <2>1
  <2>2. CASE o # p
    BY Zenon, <2>2 DEF Claim
  <2> QED BY Zenon, <2>1, <2>2
<1> QED BY Zenon, <1>1, NoNewClaim

LEMMA FlashClaim ==
  ASSUME PhoneTypeOK, InLine, Claimed, NEW p \in {"fg", "bg"}, Flash(p)
  PROVE  Claimed'
<1> USE DEF trees, mounts, adb, booted
<1>1. /\ proc[p].run \in {"dd", "dd ends"} /\ proc'[p].run \in {"dd ends", "exit 0", "exit 1"}
      /\ \A o \in {"fg", "bg"} \ {p} : proc'[o] = proc[o]
  BY Zenon, ScriptMoves DEF Script, Flash, Moves, Exits, Chroot
<1>2. p = "fg" => line # "unpack"
  BY Zenon, <1>1 DEF InLine, Exits
<1>3. ~Claim(p)'
  BY Zenon, <1>1, <1>2 DEF Claim, Flash
<1>4. proc'[p].run \notin Inside /\ proc'[p].run # "mount"
  BY Zenon, <1>1 DEF Inside
<1> QED BY Zenon, <1>1, <1>3, <1>4, OneMoves DEF Flash

LEMMA TarClaim ==
  ASSUME PhoneTypeOK, InLine, Claimed, NEW p \in {"fg", "bg"}, EndTar(p)
  PROVE  Claimed'
<1> USE DEF trees, mounts, adb, booted
<1>1. /\ proc[p].run = "tar" /\ proc'[p].run \in {"exit 0", "exit 1"}
      /\ \A o \in {"fg", "bg"} \ {p} : proc'[o] = proc[o]
  <2>1. Go(p, "exit 0", "none") \/ Go(p, "exit 1", "none")
    BY Zenon DEF EndTar
  <2> QED BY Zenon, <2>1, GoProc, StepLabels DEF EndTar
<1>2. dir /\ Claim(p)
  BY Zenon, <1>1 DEF Claimed, Claim
<1>3. proc'[p].run \notin Inside /\ proc'[p].run # "mount"
  BY Zenon, <1>1 DEF Inside
<1> QED BY Zenon, <1>1, <1>2, <1>3, OneMoves DEF EndTar

LEMMA ChrootClaim ==
  ASSUME PhoneTypeOK, InLine, Claimed, NEW p \in {"fg", "bg"}, SecondStage(p) \/ Setup(p)
  PROVE  Claimed'
<1> USE DEF trees, mounts, adb, booted
<1>1. proc[p].run \in Chroot
  BY Zenon DEF SecondStage, Setup, Link, Chroot
<1>2. Moves(proc[p].run, proc'[p].run) /\ \A o \in {"fg", "bg"} \ {p} : proc'[o] = proc[o]
  BY Zenon, ScriptMoves DEF Script
<1>3. proc'[p].run \in Chroot \cup Exits
  BY Zenon, <1>1, <1>2 DEF Moves, Chroot, Exits
<1>4. proc[p].run \in Inside /\ dir
  BY Zenon, <1>1 DEF Chroot, Inside, Claimed
<1>5. p = "fg" => line # "unpack"
  BY Zenon, <1>1 DEF InLine, Exits, Chroot
<1>6. ~Claim(p)'
  BY Zenon, <1>3, <1>5 DEF Claim, SecondStage, Setup, Chroot, Exits
<1>7. proc'[p].run # "mount"
  BY Zenon, <1>3 DEF Chroot, Exits
<1> QED BY Zenon, <1>2, <1>4, <1>6, <1>7, OneMoves DEF SecondStage, Setup

LEMMA ShellClaim ==
  ASSUME PhoneTypeOK, InLine, Claimed, NEW p \in {"fg", "bg"}, EndShell(p)
  PROVE  Claimed'
<1> USE DEF trees, mounts, adb, booted
<1>1. proc[p].run = "shell" /\ proc'[p].run = "exit 0"
      /\ \A o \in {"fg", "bg"} \ {p} : proc'[o] = proc[o]
  BY Zenon, GoProc, StepLabels DEF EndShell
<1>2. p = "fg" => line # "unpack"
  BY Zenon, <1>1 DEF InLine, Exits
<1>3. ~Claim(p)'
  BY Zenon, <1>1, <1>2 DEF Claim, EndShell
<1>4. proc'[p].run \notin Inside /\ proc'[p].run # "mount"
  BY Zenon, <1>1 DEF Inside
<1> QED BY Zenon, <1>1, <1>3, <1>4, OneMoves DEF EndShell

\* The directory is free: no claim, nobody at work, nothing bound.
LEMMA MakeDirClaim ==
  ASSUME PhoneTypeOK, InLine, Claimed, NEW p \in {"fg", "bg"}, MakeDir(p)
  PROVE  Claimed'
<1> USE DEF trees, mounts, adb, booted
<1>1. CASE dir' = dir
  <2>1. Go(p, "exit 1", "none") \/ Go(p, "mkdir", "none") \/ (dir' = TRUE /\ ~dir)
    BY Zenon DEF MakeDir, DirFree
  <2>2. Go(p, "exit 1", "none") \/ Go(p, "mkdir", "none")
    BY Zenon, <1>1, <2>1
  <2>3. /\ proc'[p].run \in {"mkdir", "exit 1"}
        /\ \A o \in {"fg", "bg"} \ {p} : proc'[o] = proc[o]
    BY Zenon, <2>2, GoProc, StepLabels
  <2>4. ~Claim(p)' /\ proc'[p].run \notin Inside /\ proc'[p].run # "mount"
    BY Zenon, <2>3 DEF Claim, Inside
  <2> QED BY Zenon, <1>1, <2>3, <2>4, OneMoves DEF MakeDir
<1>2. CASE dir' # dir
  <2>1. Go(p, "mount", "none") /\ dir' /\ ~dir
    BY Zenon, <1>2 DEF MakeDir, DirFree
  <2>2. /\ proc'[p].run = "mount"
        /\ \A o \in {"fg", "bg"} \ {p} : proc'[o] = proc[o]
    BY Zenon, <2>1, GoProc, StepLabels
  <2>3. UNCHANGED <<binds, hand, line>>
    BY Zenon DEF MakeDir
  <2>4. binds = 0 /\ hand <= binds /\ hand \in Nat
    BY Zenon, <2>1 DEF Claimed, PhoneTypeOK
  <2>5. binds = hand /\ hand <= binds /\ binds <= hand + 1
    BY SMTT(30), <2>4
  <2>6. \A o \in {"fg", "bg"} : ~Claim(o) /\ proc[o].run \notin Inside
    BY Zenon, <2>1 DEF Claimed
  <2>7. \A o \in {"fg", "bg"} \ {p} : ~Claim(o)' /\ proc'[o].run \notin Inside
    BY Zenon, <2>2, <2>3, <2>6 DEF Claim
  <2>8. proc'[p].run \notin Inside
    BY Zenon, <2>2 DEF Inside
  <2>9. ~(Claim("fg")' /\ Claim("bg")')
    BY Zenon, <2>7
  <2>10. \A o \in {"fg", "bg"} : proc'[o].run \notin Inside
    BY Zenon, <2>7, <2>8
  <2> QED BY Zenon, <2>1, <2>3, <2>5, <2>9, <2>10 DEF Claimed
<1> QED BY Zenon, <1>1, <1>2

LEMMA StartTarClaim ==
  ASSUME PhoneTypeOK, InLine, Claimed, NEW p \in {"fg", "bg"}, StartTar(p)
  PROVE  Claimed'
<1> USE DEF trees, mounts, adb, booted
<1>1. proc[p].run = "mount" /\ dir /\ binds = hand
  BY Zenon DEF Claimed, Claim, StartTar
<1>2. Moves(proc[p].run, proc'[p].run) /\ \A o \in {"fg", "bg"} \ {p} : proc'[o] = proc[o]
  BY Zenon, ScriptMoves DEF Script
<1>3. UNCHANGED <<dir, binds, hand, line>>
  BY Zenon DEF StartTar
<1>4. \A o \in {"fg", "bg"} \ {p} : ~Claim(o) /\ proc[o].run \notin Inside
  BY Zenon, <1>1 DEF Claimed, Claim
<1>5. \A o \in {"fg", "bg"} \ {p} : ~Claim(o)' /\ proc'[o].run \notin Inside
  BY Zenon, <1>2, <1>3, <1>4 DEF Claim
<1>6. \A o \in {"fg", "bg"} \ {p} : proc'[o].run # "mount"
  BY Zenon, <1>5 DEF Claim
<1>7. proc'[p].run = "tar"
  <2>1. PICK at \in {"none", "sd", "own"} : Go(p, "tar", at)
    BY Zenon DEF StartTar
  <2> QED BY Zenon, <2>1, GoProc, StepLabels
<1>8. \A o \in {"fg", "bg"} : proc'[o].run # "mount"
  BY Zenon, <1>6, <1>7
<1>9. ~(Claim("fg")' /\ Claim("bg")')
  BY Zenon, <1>5
<1> QED BY Zenon, <1>1, <1>3, <1>8, <1>9 DEF Claimed

LEMMA HandCount ==
  \A b, h \in Nat : \A bn \in {b, b + 1} : h <= b /\ b <= h + 1 =>
     /\ h + (bn - b) <= bn /\ bn <= (h + (bn - b)) + 1
     /\ b = h => bn = h + (bn - b)
  BY SMTT(30)

LEMMA EnterClaim ==
  ASSUME PhoneTypeOK, InLine, Claimed, NEW p \in {"fg", "bg"}, Enter(p)
  PROVE  Claimed'
<1> USE DEF trees, mounts, adb, booted
<1>0. PICK ok \in {TRUE} \cup {b \in {FALSE} : "mount" \in Faulty} :
        LET at == IF dir /\ (ok \/ over) THEN "sd" ELSE "own" IN
        /\ over' = (at = "sd")
        /\ \/ /\ {"base", "part"} \cap Tree(at) # {} /\ binds' = binds + 1
              /\ Go(p, IF proc[p].run = "enter" THEN "second" ELSE "shell", at)
           \/ /\ "base" \notin Tree(at) /\ Go(p, "exit 1", "none")
              /\ binds' \in {binds} \cup {b \in {binds + 1} : Tree(at) # {}}
  BY Zenon DEF Enter
<1>1. /\ proc[p].run \in {"enter", "enter by hand"} /\ UNCHANGED <<dir, own, line>>
      /\ \A o \in {"fg", "bg"} \ {p} : proc'[o] = proc[o]
  BY Zenon, ScriptMoves DEF Script, Enter
<1>2. ~dir => binds' = binds /\ ~over' /\ Go(p, "exit 1", "none")
  <2> SUFFICES ASSUME ~dir PROVE binds' = binds /\ ~over' /\ Go(p, "exit 1", "none")
    OBVIOUS
  <2>1. own = {}
    BY Zenon DEF Claimed
  <2>2. (IF dir /\ (ok \/ over) THEN "sd" ELSE "own") = "own"
    BY Zenon
  <2>3. "own" # "sd"
    BY Zenon
  <2>4. Tree("own") = {}
    BY Zenon, <2>1, <2>3 DEF Tree
  <2>5. ~over'
    BY Zenon, <1>0, <2>2, <2>3
  <2>6. binds' = binds /\ Go(p, "exit 1", "none")
    BY Zenon, <1>0, <2>2, <2>4
  <2> QED BY Zenon, <2>5, <2>6
<1>3. Moves(proc[p].run, proc'[p].run)
  BY Zenon, ScriptMoves DEF Script
<1>4. proc'[p].run \in Chroot \cup Exits \cup {"shell"}
  BY Zenon, <1>1, <1>3 DEF Moves, Chroot, Exits
<1>5. p = "fg" => line # "unpack"
  BY Zenon, <1>1 DEF InLine, Exits
<1>6. ~Claim(p)' /\ proc'[p].run # "mount"
  BY Zenon, <1>1, <1>4, <1>5 DEF Claim, Chroot, Exits
<1>7. proc'[p].run \in Inside => dir
  <2>1. ~dir => proc'[p].run = "exit 1"
    BY Zenon, <1>2, GoProc, StepLabels
  <2> QED BY Zenon, <2>1 DEF Inside
<1>8. proc[p].run = "enter" =>
        \A o \in {"fg", "bg"} \ {p} : ~Claim(o) /\ binds = hand /\ proc[o].run # "mount"
  BY Zenon DEF Claimed, Claim
<1>9. binds' \in {binds, binds + 1} /\ binds \in Nat /\ hand \in Nat
  BY Zenon, EnterType DEF PhoneTypeOK
<1>10. hand <= binds /\ binds <= hand + 1
  BY Zenon DEF Claimed
<1>11. CASE proc[p].run = "enter"
  <2>1. hand' = hand /\ binds = hand
    BY Zenon, <1>11 DEF Enter, Claimed, Claim
  <2>2. hand' <= binds' /\ binds' <= hand' + 1
    BY SMTT(30), <1>9, <2>1
  <2>3. \A o \in {"fg", "bg"} \ {p} : ~Claim(o)' /\ proc'[o].run # "mount"
    BY Zenon, <1>1, <1>8, <1>11 DEF Claim
  <2>4. \A o \in {"fg", "bg"} : ~Claim(o)' /\ proc'[o].run # "mount"
    BY Zenon, <1>6, <2>3
  <2>5. \A o \in {"fg", "bg"} : proc'[o].run \in Inside => dir'
    BY Zenon, <1>1, <1>7 DEF Claimed
  <2> QED BY Zenon, <1>1, <1>2, <2>2, <2>4, <2>5 DEF Claimed
<1>12. CASE proc[p].run = "enter by hand"
  <2>0. "enter by hand" # "enter"
    BY Zenon
  <2>1. hand' = hand + (binds' - binds)
    BY Zenon, <1>12, <2>0 DEF Enter
  <2>2. hand' <= binds' /\ binds' <= hand' + 1 /\ (binds = hand => binds' = hand')
    BY Zenon, <1>9, <1>10, <2>1, HandCount
  <2>3. proc'[p].run \in {"shell", "exit 0", "exit 1"}
    BY Zenon, <1>3, <1>12 DEF Moves, Chroot, Exits
  <2>4. proc'[p].run \notin Inside
    BY Zenon, <2>3 DEF Inside
  <2>5. \A o \in {"fg", "bg"} : /\ Claim(o)' => Claim(o)
                                /\ proc'[o].run \in Inside => proc[o].run \in Inside
                                /\ proc'[o].run = "mount" => proc[o].run = "mount"
    <3> SUFFICES ASSUME NEW o \in {"fg", "bg"}
                 PROVE  /\ Claim(o)' => Claim(o)
                        /\ proc'[o].run \in Inside => proc[o].run \in Inside
                        /\ proc'[o].run = "mount" => proc[o].run = "mount"
      OBVIOUS
    <3>1. CASE o = p
      BY Zenon, <3>1, <1>6, <2>4
    <3>2. CASE o # p
      BY Zenon, <3>2, <1>1 DEF Claim
    <3> QED BY Zenon, <3>1, <3>2
  <2>6. ~dir => binds' = 0
    BY Zenon, <1>2 DEF Claimed
  <2> QED BY Zenon, <1>1, <1>2, <2>2, <2>5, <2>6 DEF Claimed
<1> QED BY Zenon, <1>1, <1>11, <1>12

LEMMA ClaimedStep ==
  ASSUME AdbStatus, PhoneTypeOK, InLine, Claimed, Step
  PROVE  Claimed'
<1> USE DEF trees, mounts, adb, booted
<1>0. NoProc.run = "none" /\ ("none" \notin Inside)
  BY Zenon, ProcTypes DEF Inside
<1>1. ASSUME NEW a \in Archive, Push(a) PROVE Claimed'
  <2>1. UNCHANGED mounts /\ own' = own /\ line = "push" /\ line' \in {"flash", "idle"}
    BY Zenon, <1>1 DEF Push, StopInstall
  <2>2. proc["fg"] = NoProc
    BY Zenon, <2>1 DEF InLine
  <2>3. (proc'["fg"].run = "dd" \/ proc'["fg"] = NoProc) /\ proc'["bg"] = proc["bg"]
    <3>1. CASE Go("fg", "dd", "none")
      BY Zenon, <3>1, GoProc, StepLabels
    <3>2. CASE UNCHANGED proc
      BY Zenon, <2>2, <3>2
    <3> QED BY Zenon, <1>1, <3>1, <3>2 DEF Push
  <2>4. /\ ~Claim("fg")' /\ proc'["fg"].run \notin Inside /\ proc'["fg"].run # "mount"
        /\ (Claim("bg")' <=> Claim("bg"))
    BY Zenon, <1>0, <2>3 DEF Claim, Inside
  <2> QED BY Zenon, <2>1, <2>3, <2>4, NoNewClaim
<1>2. CASE AdbReturn
  <2>1. proc'["bg"] = proc["bg"]
    BY Zenon, <1>2 DEF AdbReturn, PhoneTypeOK
  <2>2. proc["fg"].run = "exit 0" \/ line' = "idle"
    BY Zenon, <1>2, Returns DEF Succeeds, StopInstall
  <2>3. CASE line = "unpack" /\ line' = "bootstrap" /\ Go("fg", "enter", "none")
    <3>1. Claim("fg")
      BY Zenon, <2>2, <2>3 DEF Claim
    <3>2. proc'["fg"].run = "enter"
      BY Zenon, <2>3, GoProc, StepLabels
    <3>3. proc'["fg"].run \notin Inside /\ proc'["fg"].run # "mount"
      BY Zenon, <3>2 DEF Inside
    <3>4. Claim("bg")' <=> Claim("bg")
      BY Zenon, <2>1 DEF Claim
    <3> QED BY Zenon, <1>2, <2>1, <3>1, <3>3, <3>4, NoNewClaim DEF AdbReturn
  <2>4. CASE Go("fg", "test", "none") \/ Go("fg", "none", "none")
    <3>1. proc'["fg"].run \in {"test", "none"}
      BY Zenon, <2>4, GoProc, StepLabels
    <3>2. ~Claim("fg")' /\ proc'["fg"].run \notin Inside /\ proc'["fg"].run # "mount"
      BY Zenon, <3>1 DEF Claim, Inside
    <3>3. Claim("bg")' <=> Claim("bg")
      BY Zenon, <2>1 DEF Claim
    <3> QED BY Zenon, <1>2, <2>1, <3>2, <3>3, NoNewClaim DEF AdbReturn
  <2> QED BY Zenon, <1>2, <2>3, <2>4, Returns
<1>3. CASE Disconnect
  <2>1. proc'["fg"] = NoProc /\ UNCHANGED mounts /\ own' = own
    BY Zenon, <1>3 DEF Disconnect, PhoneTypeOK
  <2>2. ~Claim("fg")' /\ proc'["fg"].run \notin Inside /\ proc'["fg"].run # "mount"
    BY Zenon, <1>0, <2>1 DEF Claim
  <2>3. CASE proc'["bg"] = proc["bg"]
    <3>1. Claim("bg")' <=> Claim("bg")
      BY Zenon, <2>3 DEF Claim
    <3> QED BY Zenon, <2>1, <2>2, <2>3, <3>1, NoNewClaim
  <2>4. CASE proc'["bg"] = proc["fg"]
    <3>1. Claim("bg")' => Claim("fg")
      BY Zenon, <2>4 DEF Claim
    <3> QED BY Zenon, <2>1, <2>2, <2>4, <3>1 DEF Claimed
  <2>5. proc'["bg"] = proc["bg"] \/ proc'["bg"] = proc["fg"]
    BY Zenon, <1>3 DEF Disconnect, PhoneTypeOK
  <2> QED BY Zenon, <2>3, <2>4, <2>5
<1>4. ASSUME NEW p \in {"fg", "bg"}, Script(p) PROVE Claimed'
  BY Zenon, <1>4, FlashClaim, MakeDirClaim, StartTarClaim, TarClaim, EnterClaim,
     ChrootClaim, ShellClaim DEF Script
<1>5. CASE Restart \/ BootRecovery
  <2>1. /\ proc' = [p \in {"fg", "bg"} |-> NoProc] /\ over' = FALSE /\ binds' = 0 /\ hand' = 0
        /\ UNCHANGED <<dir, own>>
    BY Zenon, <1>5 DEF Restart, BootRecovery, Down
  <2>2. hand' <= binds' /\ binds' <= hand' + 1
    <3>1. 0 <= 0 /\ 0 <= 0 + 1
      BY SMTT(30)
    <3> QED BY Zenon, <2>1, <3>1
  <2>3. \A p \in {"fg", "bg"} : proc'[p] = NoProc
    BY Zenon, <2>1
  <2>4. \A p \in {"fg", "bg"} : ~Claim(p)' /\ proc'[p].run \notin Inside
    BY Zenon, <1>0, <2>3 DEF Claim
  <2> QED BY Zenon, <2>1, <2>2, <2>4 DEF Claimed
<1>6. CASE Reap
  <2>1. proc'["bg"] = NoProc /\ proc'["fg"] = proc["fg"]
    BY Zenon, <1>6 DEF Reap, PhoneTypeOK
  <2>2. \A p \in {"fg", "bg"} : /\ Claim(p)' => Claim(p)
                                /\ proc'[p].run \in Inside => proc[p].run \in Inside
                                /\ proc'[p].run = "mount" => proc[p].run = "mount"
    BY Zenon, <1>0, <1>6, <2>1 DEF Reap, Claim
  <2> QED BY Zenon, <1>6, <2>2, NoNewClaim DEF Reap
<1>7. CASE StartShell
  <2>1. proc'["bg"].run = "enter by hand" /\ proc'["fg"] = proc["fg"]
    BY Zenon, <1>7, GoProc, StepLabels DEF StartShell
  <2>2. \A p \in {"fg", "bg"} : /\ Claim(p)' => Claim(p)
                                /\ proc'[p].run \in Inside => proc[p].run \in Inside
                                /\ proc'[p].run = "mount" => proc[p].run = "mount"
    BY Zenon, <1>7, <2>1 DEF StartShell, Claim, Inside
  <2> QED BY Zenon, <1>7, <2>2, NoNewClaim DEF StartShell
<1>8. CASE Remove \/ StartInstall
  <2>1. \A p \in {"fg", "bg"} : Claim(p)' => Claim(p)
    BY Zenon, <1>8 DEF Remove, StartInstall, StopInstall, Claim
  <2> QED BY Zenon, <1>8, <2>1, NoNewClaim DEF Remove, StartInstall
<1>9. CASE Format
  <2>1. \A p \in {"fg", "bg"} : Claim(p)' => Claim(p)
    BY Zenon, <1>9 DEF Format, Claim
  <2> QED BY Zenon, <1>9, <2>1, NoNewClaim DEF Format
<1>10. CASE Unmount \/ Delete
  <2>1. \A p \in {"fg", "bg"} : proc'[p] = NoProc
    BY Zenon, <1>10 DEF Unmount, Delete, Quiet
  <2>2. \A p \in {"fg", "bg"} : ~Claim(p)' /\ proc'[p].run \notin Inside
    BY Zenon, <1>0, <2>1 DEF Claim
  <2>3. UNCHANGED <<binds, hand>> /\ binds = 0
    BY Zenon, <1>10 DEF Unmount, Delete
  <2>4. ~dir' => own' = {} /\ ~over'
    BY Zenon, <1>10 DEF Unmount, Delete, Claimed
  <2>5. hand' <= binds' /\ binds' <= hand' + 1
    BY Zenon, <2>3 DEF Claimed
  <2> QED BY Zenon, <2>2, <2>3, <2>4, <2>5 DEF Claimed
<1> QED BY Zenon, <1>1, <1>2, <1>3, <1>4, <1>5, <1>6, <1>7, <1>8, <1>9, <1>10, StepCases
-----------------------------------------------------------------------------
\* The course of an installation in which nothing goes wrong unseen; and the
\* inductive invariant.
Course == Flashed /\ Unpacked /\ InChain /\ SetUp /\ BootsAfterInstall
DevInv == /\ PhoneTypeOK /\ InLine /\ (AdbStatus => Claimed) /\ Alone /\ Supplied
          /\ Course /\ LogComplete

\* mishap only grows, but for a new file system.
LEMMA CleanBefore ==
  ASSUME unseen \subseteq unseen', Unharmed'
  PROVE  Unharmed
  BY Zenon DEF Unharmed

LEMMA CleanFacts ==
  ASSUME Unharmed
  PROVE  AdbStatus /\ "orphan" \notin unseen /\ "no card" \notin unseen /\ "archive" \notin unseen
  BY Zenon DEF Unharmed

\* A step after which no installation is under way or has succeeded.
LEMMA CourseOff ==
  ASSUME ending' # "ok", \/ line' \in {"idle", "push"}
                         \/ line' = "flash" /\ proc'["fg"].run # "exit 0"
  PROVE  Course'
<1>1. Flashed'
  BY Zenon DEF Flashed, Written
<1>2. Unpacked' /\ InChain' /\ SetUp' /\ BootsAfterInstall'
  BY Zenon DEF Unpacked, InChain, SetUp, BootsAfterInstall
<1> QED BY Zenon, <1>1, <1>2 DEF Course

\* A step that does not touch the installation.
LEMMA CourseSame ==
  ASSUME Course, UNCHANGED <<recovery, sd, pushed, line, ending, unseen>>,
         boot' \in {boot, "off"}, proc'["fg"] = proc["fg"],
         line \in {"unpack", "bootstrap"} /\ dir /\ over => dir' /\ over'
  PROVE  Course'
<1>1. Unharmed' <=> Unharmed
  BY Zenon DEF Unharmed
<1>2. Flashed'
  BY Zenon, <1>1 DEF Course, Flashed, Written
<1>3. Unpacked'
  BY Zenon, <1>1 DEF Course, Unpacked
<1>4. InChain'
  <2> SUFFICES ASSUME Unharmed, line = "bootstrap", proc["fg"].run # "exit 1"
               PROVE  InChain'
    BY Zenon, <1>1 DEF InChain
  <2> QED BY Zenon DEF Course, InChain
<1>5. SetUp'
  BY Zenon, <1>1 DEF Course, SetUp
<1>6. BootsAfterInstall'
  BY Zenon DEF Course, BootsAfterInstall
<1> QED BY Zenon, <1>2, <1>3, <1>4, <1>5, <1>6 DEF Course

\* Without an orphan the other process is the user's shell.
LEMMA HandCourse ==
  ASSUME PhoneTypeOK, InLine, Alone, Course, Script("bg"), Unharmed'
  PROVE  Course'
<1> USE DEF trees, mounts, adb, booted
<1>1. unseen \subseteq unseen'
  BY Zenon DEF Script, Flash, MakeDir, StartTar, EndTar, Enter, SecondStage, Setup, EndShell
<1>2. proc["bg"].run \in {"none", "enter by hand", "shell"} \cup Exits
  BY Zenon, <1>1, CleanBefore, CleanFacts DEF Alone
<1>3. (Enter("bg") /\ proc["bg"].run = "enter by hand") \/ EndShell("bg")
  <2>1. ~Flash("bg") /\ ~MakeDir("bg") /\ ~StartTar("bg") /\ ~EndTar("bg")
    BY Zenon, <1>2 DEF Flash, MakeDir, StartTar, EndTar, Exits
  <2>2. ~SecondStage("bg") /\ ~Setup("bg")
    BY Zenon, <1>2 DEF SecondStage, Setup, Link, Exits
  <2>3. Enter("bg") => proc["bg"].run = "enter by hand"
    BY Zenon, <1>2 DEF Enter, Exits
  <2> QED BY Zenon, <2>1, <2>2, <2>3 DEF Script
<1>4. /\ UNCHANGED <<recovery, sd, pushed, line, ending, boot, unseen, dir>>
      /\ dir /\ over => over'
  <2>1. CASE EndShell("bg")
    BY Zenon, <2>1 DEF EndShell
  <2>2. CASE Enter("bg")
    <3>1. UNCHANGED <<recovery, sd, pushed, line, ending, boot, unseen, dir>>
      BY Zenon, <2>2 DEF Enter
    <3>2. \E ok \in BOOLEAN : over' = ((IF dir /\ (ok \/ over) THEN "sd" ELSE "own") = "sd")
      BY Zenon, <2>2 DEF Enter
    <3>3. dir /\ over => over'
      BY Zenon, <3>2
    <3> QED BY Zenon, <3>1, <3>3
  <2> QED BY Zenon, <1>3, <2>1, <2>2
<1>5. proc'["fg"] = proc["fg"]
  BY Zenon, ScriptMoves, StepLabels
<1> QED BY Zenon, <1>4, <1>5, CourseSame

\* install-bootimage.sh flashes a complete image.
LEMMA FlashCourse ==
  ASSUME PhoneTypeOK, InLine, Supplied, Flash("fg"), Unharmed'
  PROVE  Course'
<1> USE DEF trees, mounts, adb, booted
<1>1. proc["fg"].run \in {"dd", "dd ends"} /\ UNCHANGED <<line, ending, unseen, pushed>>
  BY Zenon DEF Flash
<1>2. line = "flash"
  BY Zenon, <1>1, ProcTypes DEF InLine, PhoneTypeOK, Exits, Chroot
<1>3. ending' = "none" /\ line' = "flash"
  BY Zenon, <1>1, <1>2 DEF InLine
<1>4. Good(pushed)
  <2>1. "archive" \notin unseen
    BY Zenon, <1>1, CleanBefore, CleanFacts
  <2> QED BY Zenon, <1>2, <2>1 DEF Supplied
<1>5. proc'["fg"].run = "exit 0" => recovery' = "whole"
  <2>1. ASSUME Go("fg", "dd ends", "none") PROVE proc'["fg"].run # "exit 0"
    <3>1. proc'["fg"].run = "dd ends"
      BY Zenon, <2>1, GoProc, StepLabels
    <3> QED BY Zenon, <3>1
  <2>2. ASSUME Go("fg", "exit 1", "none") PROVE proc'["fg"].run # "exit 0"
    <3>1. proc'["fg"].run = "exit 1"
      BY Zenon, <2>2, GoProc, StepLabels
    <3> QED BY Zenon, <3>1
  <2>3. pushed.whole
    BY Zenon, <1>4 DEF Good
  <2> QED BY Zenon, <2>1, <2>2, <2>3 DEF Flash
<1>6. Flashed'
  BY Zenon, <1>3, <1>5 DEF Flashed, Written
<1>7. Unpacked' /\ InChain' /\ SetUp' /\ BootsAfterInstall'
  BY Zenon, <1>3 DEF Unpacked, InChain, SetUp, BootsAfterInstall
<1> QED BY Zenon, <1>6, <1>7 DEF Course

\* unpack-debian.sh, with the card mounted, leaves all of the archive there.
LEMMA UnpackCourse ==
  ASSUME PhoneTypeOK, InLine, Claimed, Course, Unharmed', MakeDir("fg") \/ StartTar("fg") \/ EndTar("fg")
  PROVE  Course'
<1> USE DEF trees, mounts, adb, booted
<1>1. /\ proc["fg"].run \in {"test", "mkdir", "mount", "tar"}
      /\ UNCHANGED <<line, ending, pushed, recovery, boot>> /\ unseen \subseteq unseen'
  BY Zenon DEF MakeDir, StartTar, EndTar
<1>2. line = "unpack"
  BY Zenon, <1>1, ProcTypes DEF InLine, PhoneTypeOK, Exits, Chroot
<1>3. ending' = "none" /\ line' = "unpack"
  BY Zenon, <1>1, <1>2 DEF InLine
<1>4. Unharmed
  BY Zenon, <1>1, CleanBefore
<1>5. Flashed'
  BY Zenon, <1>1, <1>2, <1>4 DEF Course, Flashed, Written
<1>6. InChain' /\ SetUp' /\ BootsAfterInstall'
  BY Zenon, <1>3 DEF InChain, SetUp, BootsAfterInstall
<1>7. Unpacked'
  <2>1. CASE MakeDir("fg")
    <3>1. Go("fg", "mkdir", "none") \/ Go("fg", "mount", "none") \/ Go("fg", "exit 1", "none")
      BY Zenon, <2>1 DEF MakeDir
    <3>2. proc'["fg"].run \in {"mkdir", "mount", "exit 1"}
      BY Zenon, <3>1, GoProc, StepLabels
    <3> QED BY Zenon, <3>2 DEF Unpacked
  <2>2. CASE StartTar("fg")
    <3>1. PICK ok \in {TRUE} \cup {b \in {FALSE} : "mount" \in Faulty} :
            LET at == IF ok \/ over THEN "sd" ELSE "own"
            IN /\ over' = (ok \/ over) /\ Go("fg", "tar", at)
               /\ unseen' = unseen \cup {x \in {"no card"} : at = "own"}
      BY Zenon, <2>2 DEF StartTar
    <3>2. ok \/ over
      <4>1. "no card" \notin unseen'
        BY Zenon DEF Unharmed
      <4> QED BY Zenon, <3>1, <4>1
    <3>3. over' /\ Go("fg", "tar", "sd")
      BY Zenon, <3>1, <3>2
    <3>4. proc'["fg"].run = "tar" /\ proc'["fg"].at = "sd"
      BY Zenon, <3>3, GoProc, StepLabels
    <3>5. dir'
      BY Zenon, <2>2 DEF StartTar, Claimed, Claim
    <3> QED BY Zenon, <3>3, <3>4, <3>5 DEF Unpacked
  <2>3. CASE EndTar("fg")
    <3>1. proc["fg"].run = "tar" /\ proc["fg"].at = "sd" /\ dir /\ over
      BY Zenon, <1>2, <1>4, <2>3 DEF EndTar, Course, Unpacked
    <3>2. CASE Go("fg", "exit 1", "none")
      <4>1. proc'["fg"].run = "exit 1"
        BY Zenon, <3>2, GoProc, StepLabels
      <4> QED BY Zenon, <4>1 DEF Unpacked
    <3>3. CASE /\ SetTree("sd", (Tree("sd") \ {"part"}) \cup pushed.parts)
               /\ Go("fg", "exit 0", "none")
      <4>1. proc'["fg"].run = "exit 0"
        BY Zenon, <3>3, GoProc, StepLabels
      <4>2. sd' = (sd \ {"part"}) \cup pushed.parts
        BY Zenon, <3>3 DEF SetTree, Tree
      <4>3. "part" \notin pushed.parts
        <5>1. pushed.parts \in SUBSET Content
          BY Zenon DEF PhoneTypeOK, Archive
        <5>2. "part" \notin Content
          BY Zenon DEF Content
        <5> QED BY Zenon, <5>1, <5>2
      <4>4. dir' /\ over' /\ pushed' = pushed
        BY Zenon, <2>3, <3>1 DEF EndTar
      <4> QED BY Zenon, <4>1, <4>2, <4>3, <4>4 DEF Unpacked
    <3> QED BY Zenon, <2>3, <3>1, <3>2, <3>3 DEF EndTar
  <2> QED BY Zenon, <2>1, <2>2, <2>3
<1> QED BY Zenon, <1>5, <1>6, <1>7 DEF Course

LEMMA SinceSets ==
  /\ Since("second") = {"dpkg", "rm debs", "adduser", "addgroup", "chpasswd", "exit 0"}
  /\ Since("pkgs") = {"rm debs", "adduser", "addgroup", "chpasswd", "exit 0"}
  /\ Since("user") = {"addgroup", "chpasswd", "exit 0"}
  /\ Since("sudo") = {"chpasswd", "exit 0"}
  /\ Since("pw") = {"exit 0"}
<1>1. Since("second") = {"dpkg", "rm debs", "adduser", "addgroup", "chpasswd", "exit 0"}
  BY Zenon DEF Since
<1>2. Since("pkgs") = {"rm debs", "adduser", "addgroup", "chpasswd", "exit 0"}
  BY Zenon DEF Since
<1>3. Since("user") = {"addgroup", "chpasswd", "exit 0"}
  BY Zenon DEF Since
<1>4. Since("sudo") = {"chpasswd", "exit 0"}
  BY Zenon DEF Since
<1>5. Since("pw") = {"exit 0"}
  BY Zenon DEF Since
<1> QED BY Zenon, <1>1, <1>2, <1>3, <1>4, <1>5

\* In bootstrap-debian.sh only the chain has to be kept up.
LEMMA ChainCourse ==
  ASSUME Course, InLine, line = "bootstrap", UNCHANGED <<line, ending, recovery>>,
         unseen \subseteq unseen', Unharmed', InChain'
  PROVE  Course'
<1>1. ending' = "none"
  BY Zenon DEF InLine
<1>2. Unharmed
  BY Zenon, CleanBefore
<1>3. Flashed'
  BY Zenon, <1>2 DEF Course, Flashed, Written
<1>4. Unpacked' /\ SetUp' /\ BootsAfterInstall'
  BY Zenon, <1>1 DEF Unpacked, SetUp, BootsAfterInstall
<1> QED BY Zenon, <1>3, <1>4 DEF Course

\* The steps of the chain, given what the tree held before.
LEMMA ChainHolds ==
  ASSUME Unharmed, InChain, line = "bootstrap", proc["fg"].run \in {"enter"} \cup Chroot
  PROVE  /\ "part" \notin sd /\ {"base", "conf", "modules"} \subseteq sd
         /\ proc["fg"].run = "enter" => dir /\ over
         /\ proc["fg"].run \in Chroot => proc["fg"].at = "sd"
         /\ proc["fg"].run \in {"dpkg", "rm debs", "adduser", "addgroup", "chpasswd"}
               => "second" \in sd \cup unseen
         /\ proc["fg"].run \in {"rm debs", "adduser", "addgroup", "chpasswd"} => "pkgs" \in sd
         /\ proc["fg"].run \in {"addgroup", "chpasswd"} => "user" \in sd
         /\ proc["fg"].run = "chpasswd" => "sudo" \in sd
<1>1. proc["fg"].run # "exit 1"
  BY Zenon DEF Chroot
<1>2. /\ "part" \notin sd /\ {"base", "conf", "modules"} \subseteq sd
      /\ proc["fg"].run = "enter" => dir /\ over
      /\ proc["fg"].run \in Chroot => proc["fg"].at = "sd"
      /\ proc["fg"].run \in Since("second") => "second" \in sd \cup unseen
      /\ proc["fg"].run \in Since("pkgs") => "pkgs" \in sd
      /\ proc["fg"].run \in Since("user") => "user" \in sd
      /\ proc["fg"].run \in Since("sudo") => "sudo" \in sd
  BY Zenon, <1>1 DEF InChain
<1> QED BY Zenon, <1>2, SinceSets

LEMMA EnterCourse ==
  ASSUME PhoneTypeOK, InLine, Course, Unharmed', Enter("fg")
  PROVE  Course'
<1> USE DEF trees, mounts, adb, booted
<1>1. /\ proc["fg"].run \in {"enter", "enter by hand"} /\ UNCHANGED <<line, ending, recovery, sd>>
      /\ unseen' = unseen
  BY Zenon DEF Enter
<1>2. line = "bootstrap" /\ proc["fg"].run = "enter"
  BY Zenon, <1>1, ProcTypes DEF InLine, PhoneTypeOK, Exits, Chroot
<1>3. Unharmed
  BY Zenon, <1>1, CleanBefore
<1>4. /\ "part" \notin sd /\ {"base", "conf", "modules"} \subseteq sd /\ dir /\ over
  BY Zenon, <1>2, <1>3, ChainHolds DEF Course
<1>5. Go("fg", "second", "sd")
  <2>1. PICK ok \in BOOLEAN :
          LET at == IF dir /\ (ok \/ over) THEN "sd" ELSE "own" IN
          \/ Go("fg", IF proc["fg"].run = "enter" THEN "second" ELSE "shell", at)
          \/ "base" \notin Tree(at)
    BY Zenon DEF Enter
  <2>2. "base" \in Tree("sd")
    BY Zenon, <1>4 DEF Tree
  <2> QED BY Zenon, <1>2, <1>4, <2>1, <2>2
<1>6. proc'["fg"].run = "second" /\ proc'["fg"].at = "sd"
  BY Zenon, <1>5, GoProc, StepLabels
<1>7. \A x \in {"second", "pkgs", "user", "sudo", "pw"} : proc'["fg"].run \notin Since(x)
  BY Zenon, <1>6, SinceSets
<1>8. InChain'
  BY Zenon, <1>1, <1>4, <1>6, <1>7 DEF InChain
<1> QED BY Zenon, <1>1, <1>2, <1>8, ChainCourse

LEMMA SecondCourse ==
  ASSUME PhoneTypeOK, InLine, Course, Unharmed', SecondStage("fg")
  PROVE  Course'
<1> USE DEF trees, mounts, adb, booted
<1>1. /\ proc["fg"].run = "second" /\ UNCHANGED <<line, ending, recovery>>
      /\ unseen \subseteq unseen'
  BY Zenon DEF SecondStage
<1>2. line = "bootstrap"
  BY Zenon, <1>1, ProcTypes DEF InLine, PhoneTypeOK, Exits, Chroot
<1>3. Unharmed
  BY Zenon, <1>1, CleanBefore
<1>4. /\ "part" \notin sd /\ {"base", "conf", "modules"} \subseteq sd /\ proc["fg"].at = "sd"
  BY Zenon, <1>1, <1>2, <1>3, ChainHolds DEF Course, Chroot
<1>5. \/ sd' = sd \cup {"second"}
      \/ sd' = sd /\ "second" \in unseen'
  BY Zenon, <1>4 DEF SecondStage, SetTree, Tree
<1>6. proc'["fg"].run = "dpkg" /\ proc'["fg"].at = "sd"
  BY Zenon, <1>4, GoProc, StepLabels DEF SecondStage
<1>7. \A x \in {"pkgs", "user", "sudo", "pw"} : proc'["fg"].run \notin Since(x)
  BY Zenon, <1>6, SinceSets
<1>8. "part" \notin sd' /\ {"base", "conf", "modules"} \subseteq sd' /\ "second" \in sd' \cup unseen'
  BY Zenon, <1>4, <1>5
<1>9. InChain'
  BY Zenon, <1>6, <1>7, <1>8 DEF InChain
<1> QED BY Zenon, <1>1, <1>2, <1>9, ChainCourse

\* What one command of the chain does on the card.
LEMMA LinkCourse ==
  ASSUME PhoneTypeOK, NEW l, NEW guard, NEW add, NEW next \in Steps, proc["fg"].at = "sd",
         Link("fg", l, guard, add, next)
  PROVE  /\ proc["fg"].run = l
         /\ \/ proc'["fg"].run = "exit 1"
            \/ sd' = sd \cup add /\ proc'["fg"].run = next /\ proc'["fg"].at = "sd"
<1>1. CASE Go("fg", "exit 1", "none")
  BY Zenon, <1>1, GoProc, StepLabels DEF Link
<1>2. CASE SetTree("sd", Tree("sd") \cup add) /\ Go("fg", next, "sd")
  <2>1. sd' = sd \cup add
    BY Zenon, <1>2 DEF SetTree, Tree
  <2>2. proc'["fg"].run = next /\ proc'["fg"].at = "sd"
    BY Zenon, <1>2, GoProc
  <2> QED BY Zenon, <2>1, <2>2 DEF Link
<1> QED BY Zenon, <1>1, <1>2 DEF Link

LEMMA SetupCourse ==
  ASSUME PhoneTypeOK, InLine, Course, Unharmed', Setup("fg")
  PROVE  Course'
<1> USE DEF trees, mounts, adb, booted
<1>1. /\ proc["fg"].run \in {"dpkg", "rm debs", "adduser", "addgroup", "chpasswd"}
      /\ UNCHANGED <<line, ending, recovery, unseen>>
  BY Zenon DEF Setup, Link
<1>2. line = "bootstrap"
  BY Zenon, <1>1, ProcTypes DEF InLine, PhoneTypeOK, Exits, Chroot
<1>3. Unharmed
  BY Zenon, <1>1, CleanBefore
<1>4. /\ "part" \notin sd /\ {"base", "conf", "modules"} \subseteq sd
      /\ proc["fg"].at = "sd" /\ "second" \in sd \cup unseen
      /\ proc["fg"].run \in {"rm debs", "adduser", "addgroup", "chpasswd"} => "pkgs" \in sd
      /\ proc["fg"].run \in {"addgroup", "chpasswd"} => "user" \in sd
      /\ proc["fg"].run = "chpasswd" => "sudo" \in sd
  BY Zenon, <1>1, <1>2, <1>3, ChainHolds DEF Course, Chroot
<1>5. CASE proc'["fg"].run = "exit 1"
  <2>1. InChain'
    BY Zenon, <1>5 DEF InChain
  <2> QED BY Zenon, <1>1, <1>2, <2>1, ChainCourse
<1>6. ASSUME "part" \notin sd', {"base", "conf", "modules"} \subseteq sd',
             "second" \in sd' \cup unseen', proc'["fg"].run # "enter",
             proc'["fg"].run \in Chroot => proc'["fg"].at = "sd",
             \A x \in {"pkgs", "user", "sudo", "pw"} : proc'["fg"].run \in Since(x) => x \in sd'
      PROVE  Course'
  <2>1. InChain'
    BY Zenon, <1>6 DEF InChain
  <2> QED BY Zenon, <1>1, <1>2, <2>1, ChainCourse
<1>7. CASE Link("fg", "dpkg", "debs" \in Tree(proc["fg"].at), {"pkgs"}, "rm debs")
  <2>1. \/ proc'["fg"].run = "exit 1"
        \/ sd' = sd \cup {"pkgs"} /\ proc'["fg"].run = "rm debs" /\ proc'["fg"].at = "sd"
    BY Zenon, <1>4, <1>7, LinkCourse, StepLabels
  <2>2. CASE sd' = sd \cup {"pkgs"} /\ proc'["fg"].run = "rm debs" /\ proc'["fg"].at = "sd"
    <3>1. "part" \notin sd' /\ {"base", "conf", "modules"} \subseteq sd' /\ "second" \in sd' \cup unseen'
      BY Zenon, <1>1, <1>4, <2>2
    <3>2. \A x \in {"pkgs", "user", "sudo", "pw"} : proc'["fg"].run \in Since(x) => x \in sd'
      BY Zenon, <2>2, SinceSets
    <3> QED BY Zenon, <1>6, <2>2, <3>1, <3>2
  <2> QED BY Zenon, <1>5, <2>1, <2>2
<1>8. CASE /\ proc["fg"].run = "rm debs"
           /\ SetTree(proc["fg"].at, Tree(proc["fg"].at) \ {"debs"})
           /\ Go("fg", "adduser", proc["fg"].at)
  <2>1. sd' = sd \ {"debs"}
    BY Zenon, <1>4, <1>8 DEF SetTree, Tree
  <2>2. proc'["fg"].run = "adduser" /\ proc'["fg"].at = "sd"
    BY Zenon, <1>4, <1>8, GoProc, StepLabels
  <2>3. "part" \notin sd' /\ {"base", "conf", "modules"} \subseteq sd' /\ "second" \in sd' \cup unseen'
    BY Zenon, <1>1, <1>4, <2>1
  <2>4. \A x \in {"pkgs", "user", "sudo", "pw"} : proc'["fg"].run \in Since(x) => x \in sd'
    BY Zenon, <1>4, <1>8, <2>1, <2>2, SinceSets
  <2> QED BY Zenon, <1>6, <2>2, <2>3, <2>4
<1>9. CASE Link("fg", "adduser", "user" \notin Tree(proc["fg"].at), {"user"}, "addgroup")
  <2>1. /\ proc["fg"].run = "adduser"
        /\ \/ proc'["fg"].run = "exit 1"
           \/ sd' = sd \cup {"user"} /\ proc'["fg"].run = "addgroup" /\ proc'["fg"].at = "sd"
    BY Zenon, <1>4, <1>9, LinkCourse, StepLabels
  <2>2. CASE sd' = sd \cup {"user"} /\ proc'["fg"].run = "addgroup" /\ proc'["fg"].at = "sd"
    <3>1. "part" \notin sd' /\ {"base", "conf", "modules"} \subseteq sd' /\ "second" \in sd' \cup unseen'
      BY Zenon, <1>1, <1>4, <2>2
    <3>2. \A x \in {"pkgs", "user", "sudo", "pw"} : proc'["fg"].run \in Since(x) => x \in sd'
      BY Zenon, <1>4, <2>1, <2>2, SinceSets
    <3> QED BY Zenon, <1>6, <2>2, <3>1, <3>2
  <2> QED BY Zenon, <1>5, <2>1, <2>2
<1>10. CASE Link("fg", "addgroup", TRUE, {"sudo"}, "chpasswd")
  <2>1. /\ proc["fg"].run = "addgroup"
        /\ \/ proc'["fg"].run = "exit 1"
           \/ sd' = sd \cup {"sudo"} /\ proc'["fg"].run = "chpasswd" /\ proc'["fg"].at = "sd"
    BY Zenon, <1>4, <1>10, LinkCourse, StepLabels
  <2>2. CASE sd' = sd \cup {"sudo"} /\ proc'["fg"].run = "chpasswd" /\ proc'["fg"].at = "sd"
    <3>1. "part" \notin sd' /\ {"base", "conf", "modules"} \subseteq sd' /\ "second" \in sd' \cup unseen'
      BY Zenon, <1>1, <1>4, <2>2
    <3>2. \A x \in {"pkgs", "user", "sudo", "pw"} : proc'["fg"].run \in Since(x) => x \in sd'
      BY Zenon, <1>4, <2>1, <2>2, SinceSets
    <3> QED BY Zenon, <1>6, <2>2, <3>1, <3>2
  <2> QED BY Zenon, <1>5, <2>1, <2>2
<1>11. CASE Link("fg", "chpasswd", TRUE, {"pw"}, "exit 0")
  <2>1. /\ proc["fg"].run = "chpasswd"
        /\ \/ proc'["fg"].run = "exit 1"
           \/ sd' = sd \cup {"pw"} /\ proc'["fg"].run = "exit 0" /\ proc'["fg"].at = "sd"
    BY Zenon, <1>4, <1>11, LinkCourse, StepLabels
  <2>2. CASE sd' = sd \cup {"pw"} /\ proc'["fg"].run = "exit 0" /\ proc'["fg"].at = "sd"
    <3>1. "part" \notin sd' /\ {"base", "conf", "modules"} \subseteq sd' /\ "second" \in sd' \cup unseen'
      BY Zenon, <1>1, <1>4, <2>2
    <3>2. \A x \in {"pkgs", "user", "sudo", "pw"} : x \in sd'
      BY Zenon, <1>4, <2>1, <2>2
    <3> QED BY Zenon, <1>6, <2>2, <3>1, <3>2
  <2> QED BY Zenon, <1>5, <2>1, <2>2
<1> QED BY Zenon, <1>7, <1>8, <1>9, <1>10, <1>11 DEF Setup

LEMMA CourseLost ==
  ASSUME ~Unharmed'
  PROVE  Course'
<1>1. AdbStatus => unseen' # {}
  BY Zenon DEF Unharmed
<1> QED BY Zenon, <1>1 DEF Course, Flashed, Unpacked, InChain, SetUp, BootsAfterInstall

\* From one line of the recipe to the next.
LEMMA ReturnCourse ==
  ASSUME PhoneTypeOK, InLine, Supplied, Course, Unharmed', AdbReturn
  PROVE  Course'
<1> USE DEF trees, mounts, adb, booted
<1>1. UNCHANGED <<recovery, mounts, sd, pushed, boot, unseen>>
  BY Zenon DEF AdbReturn
<1>2. Unharmed
  BY Zenon, <1>1, CleanBefore
<1>3. CASE StopInstall("fail")
  <2>1. ending' # "ok" /\ line' = "idle"
    BY Zenon, <1>3 DEF StopInstall
  <2> QED BY Zenon, <2>1, CourseOff
<1>4. CASE ~StopInstall("fail")
  <2>1. Succeeds(proc["fg"].run) /\ ending' = ending
    BY Zenon, <1>4, Returns
  <2>2. proc["fg"].run = "exit 0"
    BY Zenon, <1>2, <2>1, CleanFacts DEF Succeeds
  <2>3. line \in {"flash", "unpack", "bootstrap"}
    BY Zenon, <1>4, Returns
  <2>4. ending' = "none"
    BY Zenon, <2>1, <2>3 DEF InLine
  <2>5. Good(pushed)
    BY Zenon, <1>2, <2>3, CleanFacts DEF Supplied
  <2>6. recovery = "whole"
    BY Zenon, <1>2, <2>2, <2>3 DEF Course, Flashed, Written
  <2>7. Flashed' /\ BootsAfterInstall'
    BY Zenon, <1>1, <2>4, <2>6 DEF Flashed, BootsAfterInstall
  <2>8. CASE line = "flash" /\ line' = "unpack" /\ Go("fg", "test", "none")
    <3>1. proc'["fg"].run = "test"
      BY Zenon, <2>8, GoProc, StepLabels
    <3> QED BY Zenon, <2>4, <2>7, <2>8, <3>1 DEF Course, Unpacked, InChain, SetUp
  <2>9. CASE line = "unpack" /\ ~pushed.qemu /\ line' = "bootstrap" /\ Go("fg", "enter", "none")
    <3>1. proc'["fg"].run = "enter"
      BY Zenon, <2>9, GoProc, StepLabels
    <3>2. dir /\ over /\ "part" \notin sd /\ pushed.parts \subseteq sd
      BY Zenon, <1>2, <2>2, <2>9 DEF Course, Unpacked
    <3>3. {"base", "conf", "modules"} \subseteq sd
      BY Zenon, <2>5, <3>2 DEF Good
    <3>4. \A x \in {"second", "pkgs", "user", "sudo", "pw"} : proc'["fg"].run \notin Since(x)
      BY Zenon, <3>1, SinceSets
    <3>5. proc'["fg"].run \notin Chroot
      BY Zenon, <3>1 DEF Chroot
    <3>6. InChain'
      BY Zenon, <1>1, <3>1, <3>2, <3>3, <3>4, <3>5 DEF InChain
    <3> QED BY Zenon, <2>4, <2>7, <2>9, <3>6 DEF Course, Unpacked, SetUp
  <2>10. CASE line = "unpack" /\ pushed.qemu /\ line' = "rm"
    <3>1. "part" \notin sd /\ pushed.parts \subseteq sd
      BY Zenon, <1>2, <2>2, <2>10 DEF Course, Unpacked
    <3>2. /\ {"base", "conf", "modules"} \subseteq pushed.parts
          /\ {"second", "pkgs", "user", "sudo", "pw"} \subseteq pushed.parts
      BY Zenon, <2>5, <2>10 DEF Good
    <3>3. "second" \in sd /\ {"base", "conf", "modules", "pkgs", "user", "sudo", "pw"} \subseteq sd
      BY Zenon, <3>1, <3>2
    <3>4. SetUp'
      BY Zenon, <1>1, <3>1, <3>3 DEF SetUp
    <3> QED BY Zenon, <2>7, <2>10, <3>4 DEF Course, Unpacked, InChain
  <2>11. CASE line = "bootstrap" /\ line' = "rm"
    <3>1. proc["fg"].run # "exit 1"
      BY Zenon, <2>2
    <3>2. /\ "part" \notin sd /\ {"base", "conf", "modules"} \subseteq sd
          /\ proc["fg"].run \in Since("second") => "second" \in sd \cup unseen
          /\ \A x \in {"pkgs", "user", "sudo", "pw"} : proc["fg"].run \in Since(x) => x \in sd
      BY Zenon, <1>2, <2>11, <3>1 DEF Course, InChain
    <3>3. \A x \in {"second", "pkgs", "user", "sudo", "pw"} : proc["fg"].run \in Since(x)
      BY Zenon, <2>2, SinceSets
    <3>4. /\ "second" \in sd \cup unseen
          /\ {"base", "conf", "modules", "pkgs", "user", "sudo", "pw"} \subseteq sd
      BY Zenon, <3>2, <3>3
    <3>5. SetUp'
      BY Zenon, <1>1, <3>2, <3>4 DEF SetUp
    <3> QED BY Zenon, <2>7, <2>11, <3>5 DEF Course, Unpacked, InChain
  <2> QED BY Zenon, <1>4, <2>8, <2>9, <2>10, <2>11, Returns
<1> QED BY Zenon, <1>3, <1>4

LEMMA DownCourse ==
  ASSUME PhoneTypeOK, InLine, Course, Unharmed', Restart \/ BootRecovery
  PROVE  Course'
<1> USE DEF trees, mounts, adb, booted
<1>1. UNCHANGED <<recovery, sd, pushed, unseen>> /\ line' = "idle"
  BY Zenon DEF Restart, BootRecovery, Down, StopInstall
<1>2. CASE ending' # "ok"
  BY Zenon, <1>1, <1>2, CourseOff
<1>3. CASE ending' = "ok"
  <2>1. ending = "ok" /\ line = "idle"
    BY Zenon, <1>3 DEF Restart, BootRecovery, Down, StopInstall
  <2>2. Unharmed
    BY Zenon, <1>1, CleanBefore
  <2>3. recovery = "whole"
    BY Zenon, <2>1, <2>2 DEF Course, Flashed, Written
  <2>4. /\ "part" \notin sd /\ "second" \in sd \cup unseen
        /\ {"base", "conf", "modules", "pkgs", "user", "sudo", "pw"} \subseteq sd
    BY Zenon, <2>1, <2>2 DEF Course, SetUp
  <2>5. Flashed' /\ SetUp'
    BY Zenon, <1>1, <2>3, <2>4 DEF Flashed, SetUp
  <2>6. Unpacked' /\ InChain'
    BY Zenon, <1>1 DEF Unpacked, InChain
  <2>7. BootsAfterInstall'
    <3>1. CASE Restart
      BY Zenon, <3>1 DEF Restart, BootsAfterInstall
    <3>2. CASE BootRecovery
      <4>1. unseen' = {} => {"base", "second"} \subseteq sd
        BY Zenon, <1>1, <2>4
      <4> QED BY Zenon, <2>3, <3>2, <4>1, BootValues DEF BootsAfterInstall
    <3> QED BY Zenon, <3>1, <3>2
  <2> QED BY Zenon, <2>5, <2>6, <2>7 DEF Course
<1> QED BY Zenon, <1>2, <1>3

LEMMA CourseStep ==
  ASSUME PhoneTypeOK, InLine, AdbStatus => Claimed, Alone, Supplied, Course, Step
  PROVE  Course'
<1> USE DEF trees, mounts, adb, booted
<1> SUFFICES ASSUME Unharmed' PROVE Course'
  BY Zenon, CourseLost
<1>0. Claimed
  BY Zenon DEF Unharmed
<1>1. ASSUME NEW a \in Archive, Push(a) PROVE Course'
  <2>1. ending' # "ok"
    BY Zenon, <1>1 DEF Push, StopInstall, InLine
  <2>2. CASE line' = "flash" /\ Go("fg", "dd", "none")
    <3>1. proc'["fg"].run = "dd"
      BY Zenon, <2>2, GoProc, StepLabels
    <3>2. proc'["fg"].run # "exit 0"
      BY Zenon, <3>1
    <3> QED BY Zenon, <2>1, <2>2, <3>2, CourseOff
  <2>3. CASE line' = "idle"
    BY Zenon, <2>1, <2>3, CourseOff
  <2> QED BY Zenon, <1>1, <2>2, <2>3 DEF Push, StopInstall
<1>2. CASE AdbReturn
  BY Zenon, <1>2, ReturnCourse
<1>3. CASE Disconnect
  <2>1. ending' # "ok" /\ line' = "idle"
    BY Zenon, <1>3 DEF Disconnect, StopInstall
  <2> QED BY Zenon, <2>1, CourseOff
<1>4. ASSUME NEW p \in {"fg", "bg"}, Script(p) PROVE Course'
  <2>1. CASE p = "bg"
    BY Zenon, <1>4, <2>1, HandCourse
  <2>2. CASE p = "fg"
    <3>1. ~EndShell("fg")
      BY Zenon, ProcTypes DEF EndShell, InLine, PhoneTypeOK, Exits, Chroot
    <3> QED BY Zenon, <1>0, <1>4, <2>2, <3>1, FlashCourse, UnpackCourse, EnterCourse, SecondCourse,
               SetupCourse DEF Script
  <2> QED BY Zenon, <2>1, <2>2
<1>5. CASE Restart \/ BootRecovery
  BY Zenon, <1>5, DownCourse
<1>6. CASE Reap
  <2>1. proc'["fg"] = proc["fg"]
    BY Zenon, <1>6 DEF Reap, PhoneTypeOK
  <2> QED BY Zenon, <1>6, <2>1, CourseSame DEF Reap
<1>7. CASE StartShell
  <2>1. proc'["fg"] = proc["fg"]
    BY Zenon, <1>7, GoProc, StepLabels DEF StartShell
  <2> QED BY Zenon, <1>7, <2>1, CourseSame DEF StartShell
<1>8. CASE Remove
  <2>1. CASE ending' # "ok"
    BY Zenon, <1>8, <2>1, CourseOff DEF Remove, StopInstall
  <2>2. CASE ending' = "ok"
    <3>1. /\ UNCHANGED <<recovery, sd, unseen, boot>> /\ line = "rm" /\ line' = "idle"
          /\ boot = "off"
      BY Zenon, <1>8 DEF Remove, StopInstall, InLine
    <3>2. Unharmed
      BY Zenon, <3>1, CleanBefore
    <3>3. Flashed'
      BY Zenon, <3>1, <3>2 DEF Course, Flashed, Written
    <3>4. SetUp'
      BY Zenon, <3>1, <3>2 DEF Course, SetUp
    <3> QED BY Zenon, <3>1, <3>3, <3>4 DEF Course, Unpacked, InChain, BootsAfterInstall
  <2> QED BY Zenon, <2>1, <2>2
<1>9. CASE StartInstall
  <2>1. ending' # "ok" /\ line' = "push"
    BY Zenon, <1>9 DEF StartInstall
  <2> QED BY Zenon, <2>1, CourseOff
<1>10. CASE Unmount
  BY Zenon, <1>10, CourseSame DEF Unmount, Quiet
<1>11. CASE Delete \/ Format
  <2>1. ending' # "ok" /\ line' = "idle"
    BY Zenon, <1>11 DEF Delete, Format, Quiet
  <2> QED BY Zenon, <2>1, CourseOff
<1> QED BY Zenon, <1>1, <1>2, <1>3, <1>4, <1>5, <1>6, <1>7, <1>8, <1>9, <1>10, <1>11, StepCases

LEMMA LogStep ==
  ASSUME PhoneTypeOK, LogComplete, Step
  PROVE  LogComplete'
<1> USE DEF trees, mounts, adb, booted
<1>1. CASE BootRecovery
  BY Zenon, <1>1, BootValues DEF LogComplete
<1>2. CASE Restart
  BY Zenon, <1>2 DEF Restart, LogComplete
<1>3. CASE UNCHANGED <<boot, log>>
  BY Zenon, <1>3 DEF LogComplete
<1>4. ASSUME NEW a \in Archive, Push(a) PROVE UNCHANGED <<boot, log>>
  BY Zenon, <1>4 DEF Push
<1>5. ASSUME NEW p \in {"fg", "bg"}, Script(p) PROVE UNCHANGED <<boot, log>>
  BY Zenon, <1>5, ScriptMoves
<1>6. AdbReturn \/ Remove \/ Disconnect \/ Reap => UNCHANGED <<boot, log>>
  BY Zenon DEF AdbReturn, Remove, Disconnect, Reap
<1>7. StartInstall \/ StartShell \/ Unmount \/ Delete \/ Format => UNCHANGED <<boot, log>>
  BY Zenon DEF StartInstall, StartShell, Unmount, Delete, Format
<1> QED BY Zenon, <1>1, <1>2, <1>3, <1>4, <1>5, <1>6, <1>7, StepCases
-----------------------------------------------------------------------------
LEMMA DevInit == PhoneInit => DevInv
<1> SUFFICES ASSUME PhoneInit PROVE DevInv
  OBVIOUS
<1>1. \A p \in {"fg", "bg"} : proc[p] = NoProc
  BY Zenon DEF PhoneInit
<1>2. NoProc.run = "none" /\ NoProc \in ProcType /\ ("none" \notin Inside)
  BY Zenon, ProcTypes DEF Inside
<1>3. PhoneTypeOK
  <2>1. proc \in [{"fg", "bg"} -> ProcType]
    BY Zenon, <1>2 DEF PhoneInit
  <2>2. Nothing \in Archive
    BY SMTT(30) DEF Nothing, Archive
  <2>3. binds \in Nat /\ hand \in Nat
    BY Zenon, ZeroNat DEF PhoneInit
  <2> QED BY Zenon, <2>1, <2>2, <2>3 DEF PhoneInit, PhoneTypeOK, ProcType
<1>4. InLine
  BY Zenon, <1>1 DEF PhoneInit, InLine
<1>5. Claimed
  <2>1. hand <= binds /\ binds <= hand + 1
    <3>1. 0 <= 0 /\ 0 <= 0 + 1
      BY SMTT(30)
    <3> QED BY Zenon, <3>1 DEF PhoneInit
  <2>2. \A p \in {"fg", "bg"} : ~Claim(p) /\ proc[p].run \notin Inside
    BY Zenon, <1>1, <1>2 DEF Claim
  <2> QED BY Zenon, <2>1, <2>2 DEF PhoneInit, Claimed
<1>6. Alone /\ Supplied /\ LogComplete
  BY Zenon, <1>1, <1>2 DEF PhoneInit, Alone, Supplied, LogComplete
<1>7. Course
  BY Zenon DEF PhoneInit, Course, Flashed, Written, Unpacked, InChain, SetUp, BootsAfterInstall
<1> QED BY Zenon, <1>3, <1>4, <1>5, <1>6, <1>7 DEF DevInv

LEMMA DevStutter == DevInv /\ UNCHANGED dvars => DevInv'
<1> SUFFICES ASSUME DevInv, UNCHANGED dvars PROVE DevInv'
  OBVIOUS
<1> USE DEF dvars, trees, mounts, adb, booted
<1>1. /\ PhoneTypeOK' /\ InLine' /\ Alone' /\ Supplied' /\ LogComplete'
  <2>1. PhoneTypeOK'
    BY ZenonT(60) DEF DevInv, PhoneTypeOK
  <2>2. InLine'
    BY Zenon DEF DevInv, InLine
  <2>3. Alone' /\ Supplied' /\ LogComplete'
    BY Zenon DEF DevInv, Alone, Supplied, LogComplete
  <2> QED BY Zenon, <2>1, <2>2, <2>3
<1>2. \A p \in {"fg", "bg"} : Claim(p)' <=> Claim(p)
  BY Zenon DEF Claim
<1>3. AdbStatus => Claimed'
  BY Zenon, <1>2, NoNewClaim DEF DevInv
<1>4. Course'
  BY Zenon, CourseSame DEF DevInv
<1> QED BY Zenon, <1>1, <1>3, <1>4 DEF DevInv

LEMMA DevStep == DevInv /\ Step => DevInv'
<1> SUFFICES ASSUME DevInv, Step PROVE DevInv'
  OBVIOUS
<1>1. PhoneTypeOK' /\ InLine'
  BY Zenon, PhoneTypeStep, LineStep DEF DevInv
<1>2. Alone' /\ Supplied' /\ LogComplete'
  BY Zenon, AloneStep, SupplyStep, LogStep DEF DevInv
<1>3. AdbStatus => Claimed'
  BY Zenon, ClaimedStep DEF DevInv
<1>4. Course'
  BY Zenon, CourseStep DEF DevInv
<1> QED BY Zenon, <1>1, <1>2, <1>3, <1>4 DEF DevInv

LEMMA DevInvariant == PhoneSpec => []DevInv
<1>1. DevInv /\ [PhoneNext]_dvars => DevInv'
  BY Zenon, DevStep, DevStutter DEF Step
<1> QED BY <1>1, DevInit, PTL DEF PhoneSpec

LEMMA InstalledSafe == DevInv => InstalledOnCard
<1> SUFFICES ASSUME DevInv, ending = "ok", Unharmed
             PROVE  /\ recovery = "whole" /\ "part" \notin sd
                    /\ {"base", "conf", "modules", "pkgs", "user", "sudo", "pw"} \subseteq sd
  BY Zenon DEF InstalledOnCard, Unharmed
<1> QED BY Zenon DEF DevInv, Course, Flashed, Written, SetUp

LEMMA BoundSafe == DevInv => BindsOnce
  BY Zenon DEF DevInv, Claimed, BindsOnce

\* The phone's state keeps its type over every sequence of installations,
\* failures and restarts: no script leaves a step that is not its own.
THEOREM DeviceTypeCorrect == PhoneSpec => []PhoneTypeOK
<1>1. DevInv => PhoneTypeOK
  BY Zenon DEF DevInv
<1> QED BY <1>1, DevInvariant, PTL

\* A successful install-to-device, without the three mishaps its scripts do
\* not see, has flashed the image and set up the whole tree on the card.
THEOREM InstallationComplete == PhoneSpec => []InstalledOnCard
  BY InstalledSafe, DevInvariant, PTL

\* ... and without any mishap, init finds Debian there when it can mount it.
THEOREM InstallationBoots == PhoneSpec => []BootsAfterInstall
<1>1. DevInv => BootsAfterInstall
  BY Zenon DEF DevInv, Course
<1> QED BY <1>1, DevInvariant, PTL

\* The installer's scripts bind at most once between two restarts, through
\* any number of installations and orphaned scripts: unpack-debian.sh stops
\* where the directory exists.
THEOREM BoundOnce == PhoneSpec => []BindsOnce
  BY BoundSafe, DevInvariant, PTL

\* The log has `Mounted root' after every boot that got to Debian's tree.
THEOREM BootLogged == PhoneSpec => []LogComplete
<1>1. DevInv => LogComplete
  BY Zenon DEF DevInv
<1> QED BY <1>1, DevInvariant, PTL

\* unpack-debian.sh never starts to extract beside another script at work.
THEOREM ExtractsAlone == PhoneSpec => UnpackAlone
<1>1. ASSUME DevInv, [PhoneNext]_dvars
      PROVE  [ \A p, o \in {"fg", "bg"} :
                 AdbStatus /\ p # o /\ proc[p].run = "mount" /\ proc'[p].run = "tar"
                 => proc[o].run \notin Inside ]_dvars
  BY Zenon, <1>1 DEF DevInv, Claimed
<1> QED BY <1>1, DevInvariant, PTL DEF PhoneSpec, UnpackAlone
-----------------------------------------------------------------------------
\* The order of the recipe's lines and of the steps in each script.
LEMMA LinesAre ==
  /\ LinesLeft["push"] = 5 /\ LinesLeft["flash"] = 4 /\ LinesLeft["unpack"] = 3
  /\ LinesLeft["bootstrap"] = 2 /\ LinesLeft["rm"] = 1
  BY SMTT(30) DEF LinesLeft

LEMMA StepsAre ==
  /\ StepsLeft["enter"] = 7 /\ StepsLeft["second"] = 6 /\ StepsLeft["dpkg"] = 5
  /\ StepsLeft["rm debs"] = 4 /\ StepsLeft["adduser"] = 3 /\ StepsLeft["addgroup"] = 2
  /\ StepsLeft["chpasswd"] = 1 /\ StepsLeft["test"] = 4 /\ StepsLeft["mkdir"] = 3
  /\ StepsLeft["mount"] = 2 /\ StepsLeft["tar"] = 1 /\ StepsLeft["dd"] = 2
  /\ StepsLeft["dd ends"] = 1 /\ StepsLeft["exit 0"] = 0 /\ StepsLeft["exit 1"] = 0
  BY SMTT(30) DEF StepsLeft, Steps

\* A script that ends, or goes on to the step after the one it is at.
Advances(a, b) ==
    \/ /\ a \in {"dd", "dd ends", "test", "mkdir", "mount", "tar", "enter"} \cup Chroot
       /\ b \in Exits
    \/ <<a, b>> \in {<<"dd", "dd ends">>, <<"test", "mkdir">>, <<"mkdir", "mount">>,
                     <<"mount", "tar">>, <<"enter", "second">>, <<"second", "dpkg">>,
                     <<"dpkg", "rm debs">>, <<"rm debs", "adduser">>,
                     <<"adduser", "addgroup">>, <<"addgroup", "chpasswd">>}

LEMMA Advanced ==
  ASSUME NEW a, NEW b, Advances(a, b)
  PROVE  StepsLeft[b] < StepsLeft[a]
<1>1. \A n \in {1, 2, 3, 4, 5, 6, 7} : 0 < n
  BY SMTT(30)
<1>2. 1 < 2 /\ 2 < 3 /\ 3 < 4 /\ 4 < 5 /\ 5 < 6 /\ 6 < 7
  BY SMTT(30)
<1>3. \A x \in {"dd", "dd ends", "test", "mkdir", "mount", "tar", "enter"} \cup Chroot :
         StepsLeft[x] \in {1, 2, 3, 4, 5, 6, 7}
  BY Zenon, StepsAre DEF Chroot
<1>4. CASE a \in {"dd", "dd ends", "test", "mkdir", "mount", "tar", "enter"} \cup Chroot
           /\ b \in Exits
  BY Zenon, <1>1, <1>3, <1>4, StepsAre DEF Exits
<1>5. CASE <<a, b>> \in {<<"dd", "dd ends">>, <<"test", "mkdir">>, <<"mkdir", "mount">>,
                     <<"mount", "tar">>, <<"enter", "second">>, <<"second", "dpkg">>,
                     <<"dpkg", "rm debs">>, <<"rm debs", "adduser">>,
                     <<"adduser", "addgroup">>, <<"addgroup", "chpasswd">>}
  BY Zenon, <1>2, <1>5, StepsAre
<1> QED BY Zenon, <1>4, <1>5 DEF Advances

\* The script that adb waits for advances with each of its steps.
LEMMA ScriptAdvances ==
  ASSUME PhoneTypeOK, Script("fg"), proc["fg"].run \notin {"enter by hand", "shell"}
  PROVE  Advances(proc["fg"].run, proc'["fg"].run)
<1> DEFINE Goes(l) == \E at \in {"none", "sd", "own"} : Go("fg", l, at)
<1>0. ASSUME NEW l \in Steps, Goes(l) PROVE proc'["fg"].run = l
  <2>1. PICK at \in {"none", "sd", "own"} : Go("fg", l, at)
    BY Zenon, <1>0
  <2> QED BY ZenonT(60), <2>1, GoProc
<1>1. ASSUME NEW l \in Steps, Goes(l), Advances(proc["fg"].run, l)
      PROVE  Advances(proc["fg"].run, proc'["fg"].run)
  BY Zenon, <1>0, <1>1
<1>2. {"dd ends", "mkdir", "mount", "tar", "second", "dpkg", "rm debs", "adduser", "addgroup",
       "chpasswd", "exit 0", "exit 1"} \subseteq Steps
  BY Zenon, StepLabels
<1>3. \A a \in {"dd", "dd ends", "test", "mkdir", "mount", "tar", "enter"} \cup Chroot :
         Advances(a, "exit 0") /\ Advances(a, "exit 1")
  BY Zenon DEF Advances, Exits
<1>4. /\ Advances("dd", "dd ends") /\ Advances("test", "mkdir") /\ Advances("mkdir", "mount")
      /\ Advances("mount", "tar") /\ Advances("enter", "second") /\ Advances("second", "dpkg")
      /\ Advances("dpkg", "rm debs") /\ Advances("rm debs", "adduser")
      /\ Advances("adduser", "addgroup") /\ Advances("addgroup", "chpasswd")
  BY Zenon DEF Advances
<1>5. CASE Flash("fg")
  <2>1. \/ proc["fg"].run \in {"dd", "dd ends"} /\ (Goes("exit 0") \/ Goes("exit 1"))
        \/ proc["fg"].run = "dd" /\ Goes("dd ends")
    BY Zenon, <1>5 DEF Flash
  <2> QED BY Zenon, <1>1, <1>2, <1>3, <1>4, <2>1
<1>6. CASE MakeDir("fg")
  <2>1. \/ proc["fg"].run \in {"test", "mkdir"} /\ Goes("exit 1")
        \/ proc["fg"].run = "test" /\ Goes("mkdir")
        \/ proc["fg"].run = "mkdir" /\ Goes("mount")
    BY Zenon, <1>6 DEF MakeDir
  <2> QED BY Zenon, <1>1, <1>2, <1>3, <1>4, <2>1
<1>7. CASE StartTar("fg") \/ EndTar("fg")
  <2>1. \/ proc["fg"].run = "tar" /\ (Goes("exit 0") \/ Goes("exit 1"))
        \/ proc["fg"].run = "mount" /\ Goes("tar")
    BY Zenon, <1>7 DEF StartTar, EndTar
  <2> QED BY Zenon, <1>1, <1>2, <1>3, <1>4, <2>1
<1>8. CASE Enter("fg")
  <2>1. proc["fg"].run = "enter" /\ (Goes("second") \/ Goes("exit 1"))
    <3>1. \A ok \in BOOLEAN :
            (IF dir /\ (ok \/ over) THEN "sd" ELSE "own") \in {"none", "sd", "own"}
      BY Zenon
    <3> QED BY Zenon, <1>8, <3>1 DEF Enter
  <2> QED BY Zenon, <1>1, <1>2, <1>3, <1>4, <2>1
<1>9. CASE SecondStage("fg") \/ Setup("fg")
  <2>1. proc["fg"].at \in {"none", "sd", "own"}
    BY Zenon, AtType
  <2>2. \/ proc["fg"].run = "second" /\ Goes("dpkg")
        \/ proc["fg"].run = "dpkg" /\ Goes("rm debs")
        \/ proc["fg"].run = "rm debs" /\ Goes("adduser")
        \/ proc["fg"].run = "adduser" /\ Goes("addgroup")
        \/ proc["fg"].run = "addgroup" /\ Goes("chpasswd")
        \/ proc["fg"].run \in Chroot /\ (Goes("exit 0") \/ Goes("exit 1"))
    BY Zenon, <1>9, <2>1 DEF SecondStage, Setup, Link, Chroot
  <2> QED BY Zenon, <1>1, <1>2, <1>3, <1>4, <2>2
<1>10. ~EndShell("fg")
  BY Zenon DEF EndShell
<1> QED BY Zenon, <1>5, <1>6, <1>7, <1>8, <1>9, <1>10 DEF Script

\* What InstallForward says of one step.
InstallNearer ==
    \/ LinesLeft[line'] < LinesLeft[line]
    \/ /\ line' = line
       /\ \/ proc'["fg"] = proc["fg"]
          \/ StepsLeft[proc'["fg"].run] < StepsLeft[proc["fg"].run]

LEMMA NearerStep ==
  ASSUME PhoneTypeOK, InLine, Step, line # "idle", line' # "idle"
  PROVE  InstallNearer
<1> USE DEF trees, mounts, adb, booted
<1>0. 1 < 2 /\ 1 < 3 /\ 2 < 3 /\ 3 < 4 /\ 4 < 5
  BY SMTT(30)
<1>1. ASSUME NEW a \in Archive, Push(a) PROVE InstallNearer
  <2>1. line = "push" /\ line' = "flash"
    BY Zenon, <1>1 DEF Push, StopInstall
  <2> QED BY Zenon, <1>0, <2>1, LinesAre DEF InstallNearer
<1>2. CASE AdbReturn
  <2>1. \/ line = "flash" /\ line' = "unpack"
        \/ line = "unpack" /\ line' \in {"bootstrap", "rm"}
        \/ line = "bootstrap" /\ line' = "rm"
    BY Zenon, <1>2, Returns DEF StopInstall
  <2> QED BY Zenon, <1>0, <2>1, LinesAre DEF InstallNearer
<1>3. CASE Script("fg")
  <2>1. line \in {"push", "flash", "unpack", "bootstrap", "rm"}
    BY Zenon DEF PhoneTypeOK
  <2>2. proc["fg"].run \notin {"enter by hand", "shell"}
    <3>1. NoProc.run = "none"
      BY Zenon, ProcTypes
    <3>2. proc["fg"].run \in {"none", "dd", "dd ends", "test", "mkdir", "mount", "tar",
                              "enter"} \cup Chroot \cup Exits
      BY Zenon, <2>1, <3>1 DEF InLine
    <3>3. \A x \in {"none", "dd", "dd ends", "test", "mkdir", "mount", "tar", "enter"}
                     \cup Chroot \cup Exits : x \notin {"enter by hand", "shell"}
      BY Zenon DEF Chroot, Exits
    <3> QED BY Zenon, <3>2, <3>3
  <2>3. StepsLeft[proc'["fg"].run] < StepsLeft[proc["fg"].run]
    BY Zenon, <1>3, <2>2, ScriptAdvances, Advanced
  <2>4. line' = line
    BY Zenon, <1>3, ScriptMoves
  <2> QED BY Zenon, <2>3, <2>4 DEF InstallNearer
<1>4. CASE Script("bg")
  <2>1. proc'["fg"] = proc["fg"] /\ line' = line
    BY Zenon, <1>4, ScriptMoves, StepLabels
  <2> QED BY Zenon, <2>1 DEF InstallNearer
<1>5. CASE Reap \/ StartShell
  <2>1. proc'["fg"] = proc["fg"]
    BY Zenon, <1>5 DEF Reap, StartShell, Go, PhoneTypeOK
  <2>2. line' = line
    BY Zenon, <1>5 DEF Reap, StartShell
  <2> QED BY Zenon, <2>1, <2>2 DEF InstallNearer
<1>6. ~Remove /\ ~Disconnect /\ ~Restart /\ ~BootRecovery /\ ~StartInstall
  BY Zenon DEF Remove, Disconnect, Restart, BootRecovery, Down, StopInstall, StartInstall
<1>7. ~Unmount /\ ~Delete /\ ~Format
  BY Zenon DEF Unmount, Delete, Format, Quiet
<1> QED BY Zenon, <1>1, <1>2, <1>3, <1>4, <1>5, <1>6, <1>7, StepCases

\* An installation only goes forward, whatever fails on the phone, with
\* orphaned scripts and shells beside it or without: no line of the recipe
\* and no step of a script is taken twice.
THEOREM InstallGoesForward == PhoneSpec => InstallForward
<1>1. DevInv /\ [PhoneNext]_dvars => [line # "idle" /\ line' # "idle" => InstallNearer]_dvars
  BY Zenon, NearerStep DEF DevInv, Step
<1>2. [line # "idle" /\ line' # "idle" => InstallNearer]_dvars =>
        [line # "idle" /\ line' # "idle" =>
          \/ LinesLeft[line'] < LinesLeft[line]
          \/ /\ line' = line
             /\ \/ proc'["fg"] = proc["fg"]
                \/ StepsLeft[proc'["fg"].run] < StepsLeft[proc["fg"].run]]_dvars
  BY Zenon DEF InstallNearer
<1> QED BY <1>1, <1>2, DevInvariant, PTL DEF PhoneSpec, InstallForward
=============================================================================
