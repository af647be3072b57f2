------------------------------- MODULE Device -------------------------------
(***************************************************************************)
(* The phone: the recipe of install-to-device, the scripts it runs there   *)
(* through adb, and the ramdisk's init that boots what was installed.  A   *)
(* script runs in a process of its own and may outlive the adb connection  *)
(* that started it.  /data/debian is a directory on the phone on which the *)
(* card's second partition is mounted.                                     *)
(***************************************************************************)
EXTENDS Integers, Outputs

CONSTANTS AdbStatus,  \* whether adb shell returns the status of the script
          Archives,   \* the build outputs that may be pushed
          Faulty,     \* the programs that may fail at any time
          Orphans,    \* whether a script may outlive its connection
          ByHand,     \* whether run-in-debian.sh is also started by hand
          MaxBinds    \* bound on the bootstraps entered without a reboot

Program == {"adb", "dd", "mount", "tar", "second", "dpkg", "adduser",
            "addgroup", "chpasswd", "boot"}

\* What a tree on the phone holds, besides what the archive brings and the
\* bootstrap adds: an unfinished extraction, one on top of other files.
TreePart == {"part", "mixed"} \cup Content

ASSUME DeviceAssumption == /\ AdbStatus \in BOOLEAN /\ Archives \subseteq Archive
                           /\ Faulty \subseteq Program /\ Orphans \in BOOLEAN
                           /\ ByHand \in BOOLEAN /\ MaxBinds \in Nat

VARIABLES
    recovery,        \* the recovery partition
    dir, over,       \* /data/debian exists; the card is mounted on it
    binds, hand,     \* how many times run-in-debian's other mounts were
                     \* made, and how many of these times by hand
    sd, own,         \* the trees on the card and in /data/debian itself
    pushed,          \* the latest debroot.tar and boot.img in /data
    proc,            \* the scripts: the one adb waits for, and another one
    line,            \* the recipe of install-to-device
    ending,          \* how the latest install-to-device ended
    boot, log,       \* outcome of the latest boot from the recovery partition
                     \* ("off": the stock system runs); its `Mounted root' line
    unseen           \* what went wrong unseen since the card was formatted

trees == <<sd, own>>
mounts == <<dir, over, binds, hand>>
adb == <<line, pushed, ending>>
booted == <<boot, log>>
dvars == <<recovery, mounts, trees, proc, adb, booted, unseen>>
-----------------------------------------------------------------------------
NoProc == [run |-> "none", at |-> "none"]
Quiet == line = "idle" /\ \A p \in {"fg", "bg"} : proc[p] = NoProc
Tree(at) == IF at = "sd" THEN sd ELSE own

\* Process p goes on to step l, in the tree at.
Go(p, l, at) == proc' = [proc EXCEPT ![p] = [run |-> l, at |-> at]]
SetTree(at, T) == IF at = "sd" THEN sd' = T /\ UNCHANGED own
                               ELSE own' = T /\ UNCHANGED sd
-----------------------------------------------------------------------------
PhoneInit == /\ recovery = "stock" /\ dir = FALSE /\ over = FALSE
             /\ binds = 0 /\ hand = 0 /\ pushed = Nothing
             /\ sd = {} /\ own = {}
             /\ proc = [p \in {"fg", "bg"} |-> NoProc]
             /\ line = "idle" /\ ending = "none"
             /\ boot = "off" /\ log = FALSE /\ unseen = {}

\* make install-to-device, once the build is done.
StartInstall ==
    /\ line = "idle" /\ boot = "off" /\ binds < MaxBinds
    /\ line' = "push" /\ ending' = "none"
    /\ UNCHANGED <<recovery, mounts, trees, pushed, proc, booted, unseen>>

StopInstall(r) == line' = "idle" /\ ending' = r

\* adb wait-for-device and the three pushes; the first fails when there is no
\* debroot.tar.
Push(a) ==
    /\ line = "push"
    /\ \/ /\ a.there /\ line' = "flash" /\ Go("fg", "dd", "none")
          /\ pushed' = a /\ UNCHANGED ending
       \/ /\ "adb" \in Faulty \/ ~a.there
          /\ StopInstall("fail") /\ UNCHANGED proc
          /\ pushed' \in {pushed} \cup {x \in {a} : a.there}
    /\ unseen' = unseen \cup {x \in {"archive"} : a.there /\ ~Good(a)}
    /\ UNCHANGED <<recovery, mounts, trees, booted>>

\* Mutant: the line that is empty with USE_QEMU is run, too.
AfterEmpty(h) == CASE h = "flash" -> "unpack"
                   [] h = "unpack" -> IF pushed.qemu THEN "empty" ELSE "bootstrap"
                   [] h = "bootstrap" -> "rm"

\* The line after the one that ends; on-device bootstrap without QEMU only.
After(h) == CASE h = "flash" -> "unpack"
              [] h = "unpack" -> IF pushed.qemu THEN "rm" ELSE "bootstrap"
              [] h = "bootstrap" -> "rm"

\* Mutant: make -i.
Passes(status) == TRUE

\* Whether make goes on after an adb shell whose script exited so.
Succeeds(status) == status = "exit 0" \/ ~AdbStatus

AdbReturn ==
    /\ proc["fg"].run \in {"exit 0", "exit 1"}
    /\ IF Succeeds(proc["fg"].run)
       THEN /\ line' = After(line) /\ UNCHANGED ending
            /\ proc' = [proc EXCEPT !["fg"] =
                 CASE After(line) = "unpack" -> [run |-> "test", at |-> "none"]
                   [] After(line) = "bootstrap" -> [run |-> "enter", at |-> "none"]
                   [] OTHER -> NoProc]
       ELSE StopInstall("fail") /\ proc' = [proc EXCEPT !["fg"] = NoProc]
    /\ UNCHANGED <<recovery, mounts, trees, pushed, booted, unseen>>

\* adb shell rm of the scripts.
Remove == /\ line = "rm"
          /\ \/ StopInstall("ok")
             \/ "adb" \in Faulty /\ StopInstall("fail")
          /\ UNCHANGED <<recovery, mounts, trees, pushed, proc, booted, unseen>>

\* The cable is pulled: adb fails, and the script is hung up or runs on.
Disconnect ==
    /\ line \in {"flash", "unpack", "bootstrap"} /\ "adb" \in Faulty
    /\ StopInstall("fail")
    /\ \/ proc' = [proc EXCEPT !["fg"] = NoProc] /\ UNCHANGED unseen
       \/ /\ Orphans /\ proc["bg"] = NoProc
          /\ proc' = [p \in {"fg", "bg"} |-> IF p = "bg" THEN proc["fg"] ELSE NoProc]
          /\ unseen' = unseen \cup {"orphan"}
    /\ UNCHANGED <<recovery, mounts, trees, pushed, booted>>

\* An orphaned script ends; nobody looks at its status.
Reap == /\ proc["bg"].run \in {"exit 0", "exit 1"}
        /\ proc' = [proc EXCEPT !["bg"] = NoProc]
        /\ UNCHANGED <<recovery, mounts, trees, adb, booted, unseen>>
-----------------------------------------------------------------------------
\* install-bootimage.sh: dd onto the recovery partition.
Flash(p) ==
    /\ \/ /\ proc[p].run = "dd" /\ recovery' = "torn" /\ Go(p, "dd ends", "none")
       \/ /\ proc[p].run = "dd ends"
          /\ recovery' = IF pushed.whole THEN "whole" ELSE "torn"
          /\ Go(p, "exit 0", "none")
       \/ /\ proc[p].run \in {"dd", "dd ends"} /\ "dd" \in Faulty
          /\ UNCHANGED recovery /\ Go(p, "exit 1", "none")
    /\ UNCHANGED <<mounts, trees, adb, booted, unseen>>

\* Mutant: mkdir -p without the test for the directory.
NoDirTest == TRUE

\* [ -d debian ] exits, and so does a mkdir of what exists (set -e).
DirFree == ~dir

\* Mutant: unpack-debian.sh waits until the directory is gone.
MakeDirWaits(p) ==
    /\ proc[p].run \in {"test", "mkdir"} /\ DirFree
    /\ IF proc[p].run = "test" THEN Go(p, "mkdir", "none") /\ UNCHANGED dir
       ELSE Go(p, "mount", "none") /\ dir' = TRUE
    /\ UNCHANGED <<recovery, over, binds, hand, trees, adb, booted, unseen>>

\* Mutant: a mkdir that fails goes back to the test.
MakeDirAgain(p) ==
    /\ proc[p].run \in {"test", "mkdir"}
    /\ IF ~DirFree
       THEN /\ Go(p, IF proc[p].run = "mkdir" THEN "test" ELSE "exit 1", "none")
            /\ UNCHANGED dir
       ELSE IF proc[p].run = "test" THEN Go(p, "mkdir", "none") /\ UNCHANGED dir
       ELSE Go(p, "mount", "none") /\ dir' = TRUE
    /\ UNCHANGED <<recovery, over, binds, hand, trees, adb, booted, unseen>>

MakeDir(p) ==
    /\ proc[p].run \in {"test", "mkdir"}
    /\ IF ~DirFree THEN Go(p, "exit 1", "none") /\ UNCHANGED dir
       ELSE IF proc[p].run = "test" THEN Go(p, "mkdir", "none") /\ UNCHANGED dir
       ELSE Go(p, "mount", "none") /\ dir' = TRUE
    /\ UNCHANGED <<recovery, over, binds, hand, trees, adb, booted, unseen>>

\* busybox mount || true; cd debian.  `allfiles=*' is not expanded, so the
\* test for an empty directory never finds a file: extraction always starts.
StartTar(p) ==
    /\ proc[p].run = "mount"
    /\ \E ok \in {TRUE} \cup {b \in {FALSE} : "mount" \in Faulty} :
         LET at == IF ok \/ over THEN "sd" ELSE "own"
             old == Tree(at)
         IN /\ over' = (ok \/ over) /\ Go(p, "tar", at)
            /\ SetTree(at, old \cup {"part"} \cup {x \in {"mixed"} : old # {}})
            /\ unseen' = unseen \cup {x \in {"no card"} : at = "own"}
    /\ UNCHANGED <<recovery, dir, binds, hand, adb, booted>>

\* tar ends; one that was orphaned reads the archive that was pushed last.
EndTar(p) ==
    LET at == proc[p].at IN
    /\ proc[p].run = "tar"
    /\ \/ SetTree(at, (Tree(at) \ {"part"}) \cup pushed.parts) /\ Go(p, "exit 0", "none")
       \/ "tar" \in Faulty /\ UNCHANGED trees /\ Go(p, "exit 1", "none")
    /\ UNCHANGED <<recovery, mounts, adb, booted, unseen>>

\* run-in-debian.sh, for bootstrap-debian.sh ("enter") or by hand: mount the
\* card where it is not yet, bind the rest, and chroot into what /data/debian
\* then shows.  No mount is checked.  In an unfinished tree there may or may
\* not be mount points and a /bin/sh.
Enter(p) ==
    /\ proc[p].run \in {"enter", "enter by hand"}
    /\ \E ok \in {TRUE} \cup {b \in {FALSE} : "mount" \in Faulty} :
         LET at == IF dir /\ (ok \/ over) THEN "sd" ELSE "own" IN
         /\ over' = (at = "sd")
         /\ \/ /\ {"base", "part"} \cap Tree(at) # {} /\ binds' = binds + 1
               /\ Go(p, IF proc[p].run = "enter" THEN "second" ELSE "shell", at)
            \/ /\ "base" \notin Tree(at) /\ Go(p, "exit 1", "none")
               /\ binds' \in {binds} \cup {b \in {binds + 1} : Tree(at) # {}}
    /\ hand' = IF proc[p].run = "enter" THEN hand ELSE hand + (binds' - binds)
    /\ UNCHANGED <<recovery, dir, trees, adb, booted, unseen>>

\* The user starts run-in-debian.sh, which install-to-device leaves on the
\* phone, without a command: /bin/bash, and ends that shell.
StartShell == /\ ByHand /\ boot = "off" /\ pushed # Nothing
              /\ proc["bg"] = NoProc /\ binds < MaxBinds
              /\ Go("bg", "enter by hand", "none")
              /\ UNCHANGED <<recovery, mounts, trees, adb, booted, unseen>>
EndShell(p) == /\ proc[p].run = "shell" /\ Go(p, "exit 0", "none")
               /\ UNCHANGED <<recovery, mounts, trees, adb, booted, unseen>>

\* debootstrap --second-stage; its status is not looked at.
SecondStage(p) ==
    LET at == proc[p].at IN
    /\ proc[p].run = "second" /\ Go(p, "dpkg", at)
    /\ \/ /\ "base" \in Tree(at) /\ UNCHANGED unseen
          /\ SetTree(at, Tree(at) \cup {"second"})
       \/ /\ ("base" \notin Tree(at) \/ "second" \in Faulty) /\ UNCHANGED trees
          /\ unseen' = unseen \cup {"second"}
    /\ UNCHANGED <<recovery, mounts, adb, booted>>

\* Mutant: `;' between the commands instead of `&&'.
LinkOn(p, l, guard, add, next) ==
    LET at == proc[p].at IN
    /\ proc[p].run = l
    /\ \/ guard /\ SetTree(at, Tree(at) \cup add) /\ Go(p, next, at)
       \/ (~guard \/ l \in Faulty) /\ UNCHANGED trees /\ Go(p, next, at)

\* One command of the chain after it, at step l: it adds to the tree and the
\* chain goes on, or the chain ends.
Link(p, l, guard, add, next) ==
    LET at == proc[p].at IN
    /\ proc[p].run = l
    /\ \/ guard /\ SetTree(at, Tree(at) \cup add) /\ Go(p, next, at)
       \/ (~guard \/ l \in Faulty) /\ UNCHANGED trees /\ Go(p, "exit 1", "none")

\* dpkg -i *.deb && rm -f *.deb && adduser && adduser user sudo && chpasswd
Setup(p) ==
    LET at == proc[p].at IN
    /\ \/ Link(p, "dpkg", "debs" \in Tree(at), {"pkgs"}, "rm debs")
       \/ /\ proc[p].run = "rm debs" /\ SetTree(at, Tree(at) \ {"debs"})
          /\ Go(p, "adduser", at)
       \/ Link(p, "adduser", "user" \notin Tree(at), {"user"}, "addgroup")
       \/ Link(p, "addgroup", TRUE, {"sudo"}, "chpasswd")
       \/ Link(p, "chpasswd", TRUE, {"pw"}, "exit 0")
    /\ UNCHANGED <<recovery, mounts, adb, booted, unseen>>
-----------------------------------------------------------------------------
\* The phone restarts, during an installation or not: processes and mounts
\* are gone, and an adb in progress fails.
Down == /\ proc' = [p \in {"fg", "bg"} |-> NoProc]
        /\ over' = FALSE /\ binds' = 0 /\ hand' = 0
        /\ IF line = "idle" THEN UNCHANGED <<line, ending>> ELSE StopInstall("fail")
        /\ UNCHANGED <<recovery, dir, trees, pushed, unseen>>

Restart == Down /\ boot' = "off" /\ UNCHANGED log

\* Mutant: the output of the root's mount does not go to the log.
RootedAlways(works) == {"dev", "root"} \subseteq works

\* Whether init gets the root mounted: it needs the device, the mount itself,
\* and a log that it can append the output to.
Rooted(works) == works = {"dev", "root", "log"}

\* The ramdisk's init, started from the recovery partition.  Every line of it
\* runs whatever became of the ones before; works are the things that do.
\* /sbin/init comes with the second stage.
BootRecovery ==
    /\ boot = "off" /\ Down
    /\ \E works \in {{"dev", "root", "log"}} \cup
                    {w \in SUBSET {"dev", "root", "log"} : "boot" \in Faulty} :
         IF recovery # "whole" THEN boot' = "no kernel" /\ UNCHANGED log
         ELSE /\ boot' = IF ~Rooted(works) THEN "no root"
                         ELSE IF {"base", "second"} \subseteq sd THEN "up" ELSE "no init"
              /\ log' = ("log" \in works)

\* What the messages of unpack-debian.sh ask of the user, with nothing
\* running there: unmount (busy while the other mounts are there), delete
\* the directory, make a new file system on the card.
Unmount == /\ Quiet /\ binds = 0 /\ over /\ over' = FALSE
           /\ UNCHANGED <<recovery, dir, binds, hand, trees, proc, adb, booted, unseen>>
Delete == /\ Quiet /\ dir /\ ~over /\ dir' = FALSE /\ own' = {} /\ binds = 0
          /\ ending' = "none"
          /\ UNCHANGED <<recovery, over, binds, hand, sd, proc, line, pushed, booted, unseen>>
Format == /\ Quiet /\ ~over /\ sd' = {} /\ unseen' = {} /\ ending' = "none"
          /\ UNCHANGED <<recovery, mounts, own, proc, line, pushed, booted>>

Script(p) == \/ Flash(p) \/ MakeDir(p) \/ StartTar(p) \/ EndTar(p)
             \/ Enter(p) \/ SecondStage(p) \/ Setup(p) \/ EndShell(p)
Work == (\E a \in Archives : Push(a)) \/ AdbReturn \/ Remove \/ Script("fg")
PhoneNext == \/ Work \/ Script("bg") \/ Reap
             \/ StartInstall \/ StartShell
             \/ Disconnect \/ Restart \/ BootRecovery
             \/ Unmount \/ Delete \/ Format

PhoneSpec == PhoneInit /\ [][PhoneNext]_dvars
-----------------------------------------------------------------------------
Steps == {"none", "dd", "dd ends", "test", "mkdir", "mount", "tar", "enter",
          "enter by hand", "shell", "second", "dpkg", "rm debs", "adduser",
          "addgroup", "chpasswd", "exit 0", "exit 1"}
Inside == {"tar", "second", "dpkg", "rm debs", "adduser", "addgroup", "chpasswd"}

\* Every variable stays in its type; in particular only files of debroot.tar
\* and what the scripts add get onto the phone.
PhoneTypeOK ==
    /\ recovery \in {"stock", "torn", "whole"}
    /\ dir \in BOOLEAN /\ over \in BOOLEAN /\ binds \in Nat /\ hand \in Nat
    /\ sd \in SUBSET TreePart /\ own \in SUBSET TreePart
    /\ proc \in [{"fg", "bg"} -> [run : Steps, at : {"none", "sd", "own"}]]
    /\ line \in {"idle", "push", "flash", "unpack", "bootstrap", "rm"}
    /\ pushed \in Archive /\ ending \in {"none", "ok", "fail"}
    /\ boot \in {"off", "no kernel", "no root", "no init", "up"}
    /\ log \in BOOLEAN /\ unseen \in SUBSET {"no card", "second", "orphan", "archive"}

\* When install-to-device succeeds, on a phone whose adb shell returns the
\* status of the scripts, with good outputs of the build, no script orphaned
\* and the card mounted by unpack-debian.sh, the boot image is flashed and
\* the tree on the card is completely set up, password included, over any run
\* of failed, cut off and repeated installations.
InstalledOnCard ==
    AdbStatus /\ ending = "ok" /\ {"orphan", "no card", "archive"} \cap unseen = {} =>
        /\ recovery = "whole" /\ "part" \notin sd
        /\ {"base", "conf", "modules", "pkgs", "user", "sudo", "pw"} \subseteq sd

\* After a successful install-to-device in which the card could be mounted
\* and the second stage did not fail, a boot that can mount the card starts
\* Debian.
BootsAfterInstall ==
    AdbStatus /\ ending = "ok" /\ unseen = {} => boot \notin {"no kernel", "no init"}

\* unpack-debian.sh never starts to extract into a tree in which another
\* script, orphaned by a lost connection, is still at work, when adb shell
\* returns the status of the scripts.
UnpackAlone ==
    [][ \A p, o \in {"fg", "bg"} :
          AdbStatus /\ p # o /\ proc[p].run = "mount" /\ proc'[p].run = "tar"
          => proc[o].run \notin Inside ]_dvars

\* How many lines the recipe, and steps the script of a line, have at most left.
LinesLeft == [l \in {"idle", "push", "flash", "unpack", "bootstrap", "rm"} |->
    CASE l = "push" -> 5 [] l = "flash" -> 4 [] l = "unpack" -> 3
      [] l = "bootstrap" -> 2 [] l = "rm" -> 1 [] OTHER -> 0]
StepsLeft == [s \in Steps |->
    CASE s = "enter" -> 7 [] s = "second" -> 6 [] s = "dpkg" -> 5
      [] s \in {"rm debs", "test"} -> 4
      [] s \in {"adduser", "mkdir"} -> 3
      [] s \in {"addgroup", "mount", "dd"} -> 2
      [] s \in {"chpasswd", "tar", "dd ends"} -> 1
      [] OTHER -> 0]

\* An installation only goes forward: whatever its scripts meet, whatever
\* fails and whatever an orphaned script or a shell does meanwhile, no line of
\* the recipe and no step of a script is taken twice.
InstallForward ==
    [][ line # "idle" /\ line' # "idle" =>
          \/ LinesLeft[line'] < LinesLeft[line]
          \/ /\ line' = line
             /\ \/ proc'["fg"] = proc["fg"]
                \/ StepsLeft[proc'["fg"].run] < StepsLeft[proc["fg"].run] ]_dvars

\* The mounts that run-in-debian.sh never undoes are made once between two
\* restarts of the phone, not counting what the user runs by hand: a repeated
\* installation stops in unpack-debian.sh before it can make them again.
BindsOnce == AdbStatus => binds <= hand + 1

\* A boot that got as far as Debian's own tree has logged `Mounted root': a
\* log without the line means that the root was not mounted.
LogComplete == boot \in {"up", "no init"} => log
-----------------------------------------------------------------------------
(* What the repository's texts say and the code does not do. *)

\* README: make install-to-device `will install it automatically'.  The
\* phone should then boot whenever its card can be mounted.
InstallBoots == ending = "ok" => boot \notin {"no kernel", "no init"}

\* unpack-debian.sh: `Debian partition not empty! Please delete all files
\* manually.'  It should not extract over other files.
NotEmptyRefused == "mixed" \notin sd \cup own
=============================================================================
