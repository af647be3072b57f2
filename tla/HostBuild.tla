----------------------------- MODULE HostBuild ------------------------------
(***************************************************************************)
(* The build machine: invocations of make, the recipes of the Makefile     *)
(* with the scripts they call (check, pack-initrd, qemubootstrap), the     *)
(* files they leave, and the bind mounts under debroot.  A recipe is cut   *)
(* into the steps between which a program can fail, a signal can arrive or *)
(* another job can run.                                                    *)
(***************************************************************************)
EXTENDS Makefile, FiniteSets, Outputs

CONSTANTS Jobs,          \* make's -j: how many recipes run at once
          EditDirs,      \* the source directories the user edits
          MaxEdits,      \* bound on the edits made to each of them
          ToolSets,      \* the sets of installed programs to start from
          SourceSets,    \* the sets of user-supplied inputs to start from
          Flaky,         \* the targets whose programs may fail at any time
          Signals,       \* the signals that may reach a running make
          QemuModes      \* the values of USE_QEMU the user passes

\* Programs whose absence makes a recipe fail; "root" is uid 0.
Tool == {"root", "sed", "abootimg", "tar", "debootstrap", "gcc", "debuild",
         "wget", "cpio", "qemu-arm-static"}
Source == Pkg \cup {"zImage"}
Dir == Pkg \cup {"ramdisk"}

ASSUME HostAssumption == /\ Jobs \in Nat \ {0}
                         /\ EditDirs \subseteq Dir /\ MaxEdits \in Nat
                         /\ ToolSets \subseteq SUBSET Tool
                         /\ SourceSets \subseteq SUBSET Source
                         /\ Flaky \subseteq Target
                         /\ Signals \subseteq {"INT", "HUP", "KILL"}
                         /\ QemuModes \subseteq BOOLEAN

VARIABLES
    tools, sources,  \* what the machine has; fixed once chosen
    ver, stamp,      \* per source directory: its content, and its content
                     \* when an entry was last added or removed (the mtime)
    art, outdated,   \* the regular-file targets; those make finds too old
    debroot, tar,    \* the parts of debroot/; the archive made from it
    mnt, wiped,      \* bind mounts on debroot/{dev,proc,sys}; host /dev lost
    mishap,          \* what was left behind that no recipe repairs
    phase, qemu, pc, \* this invocation of make: its state, USE_QEMU, and
                     \* where each target's recipe stands
    fault,           \* whether a program failed in this invocation
    prev, result     \* how the previous and the latest invocation ended

inputs == <<tools, sources, ver, stamp>>
images == <<art, outdated>>
tree   == <<debroot, tar>>
host   == <<mnt, wiped, mishap>>
make   == <<phase, qemu, pc, fault, prev, result>>
vars   == <<inputs, images, tree, host, make>>
-----------------------------------------------------------------------------
\* What debroot/ can hold: the directory itself; its skeleton (etc, var,
\* dev, proc, sys); the whole first stage; wpa_supplicant.conf; the kernel
\* modules; the .debs in var/cache, whole or truncated; then what the chroot
\* of qemubootstrap adds.
Part == {"dir", "skel", "base", "conf", "modules", "debs", "bad debs",
         "second", "pkgs", "user", "sudo"}
Mnt == {"dev", "proc", "sys"}
Absent == [there |-> FALSE, whole |-> FALSE, ver |-> 0]
NoTar == [there |-> FALSE, whole |-> FALSE, parts |-> {}]
TornTar == [there |-> TRUE, whole |-> FALSE, parts |-> {}]

Mounted == \E m \in Mnt : mnt[m] > 0
Idle == phase = "idle"
Active(t) == pc[t] \notin {"todo", "done", "failed"}

Exists(t) == \/ t \in Art /\ art[t].there
             \/ t = "debroot" /\ "dir" \in debroot
             \/ t = "debroot.tar" /\ tar.there

\* The state of file a when its recipe ends, whole or cut short.
Built(a, whole) ==
    [there |-> TRUE, whole |-> whole,
     ver |-> CASE a = "initrd.img"         -> ver["ramdisk"]
               [] a = "boot.img"           -> art["initrd.img"].ver
               [] a = "bananui-base.deb"   -> ver["bananui-base"]
               [] a = "device-startup.deb" -> ver["device-startup"]]

\* Mutant: initrd.img is not in boot.img's list of prerequisites.
StampedAlone(A) == outdated \ A

\* Writing the files A makes them newer than what they depend on, and
\* boot.img older than initrd.img.
Stamped(A) == (outdated \ A) \cup {b \in {"boot.img"} : "initrd.img" \in A}

Write(a, whole) == /\ art' = [art EXCEPT ![a] = Built(a, whole)]
                   /\ outdated' = Stamped({a})

\* Writing an image: one cut short is a mishap until boot.img is whole.
WriteImage(a, whole) ==
    /\ Write(a, whole)
    /\ mishap' = IF whole THEN mishap \ {x \in {"image"} : a = "boot.img"}
                          ELSE mishap \cup {"image"}

\* Mutants: `|| rm -rf debroot' dropped; only the contents removed.
KeepDebroot == /\ debroot' = IF Mounted THEN {"dir"}
                             ELSE IF pc["debroot"] = "|| rm" THEN debroot ELSE {}
               /\ wiped' = (wiped \/ Mounted)
               /\ UNCHANGED mnt
EmptyDebroot == /\ debroot' = {"dir"} /\ wiped' = (wiped \/ Mounted)
                /\ UNCHANGED mnt

\* rm -rf debroot: it descends into what is mounted there, and leaves the
\* mount points it cannot remove.
RmDebroot == /\ debroot' = IF Mounted THEN {"dir"} ELSE {}
             /\ wiped' = (wiped \/ Mounted)
             /\ UNCHANGED mnt

Goto(t, l, f) == /\ pc' = [pc EXCEPT ![t] = l]
                 /\ fault' = (fault \/ f)
                 /\ UNCHANGED <<phase, qemu, prev, result>>

\* Mutant: make does not see that a recipe failed.
AbortUnseen(t, f) == /\ pc' = [pc EXCEPT ![t] = "failed"]
                     /\ fault' = (fault \/ f)
                     /\ UNCHANGED <<phase, qemu, prev, result>>

\* A recipe line exits non-zero: make starts no further target.
Abort(t, f) == /\ pc' = [pc EXCEPT ![t] = "failed"]
               /\ phase' = "failing"
               /\ fault' = (fault \/ f)
               /\ UNCHANGED <<qemu, prev, result>>
-----------------------------------------------------------------------------
Init == /\ tools \in ToolSets /\ sources \in SourceSets
        /\ ver = [d \in Dir |-> 0] /\ stamp = [d \in Dir |-> 0]
        /\ art = [a \in Art |-> Absent] /\ outdated = {}
        /\ debroot = {} /\ tar = NoTar
        /\ mnt = [m \in Mnt |-> 0] /\ wiped = FALSE /\ mishap = {}
        /\ phase = "idle" /\ qemu = FALSE /\ pc = [t \in Target |-> "done"]
        /\ fault = FALSE /\ prev = "none" /\ result = "none"

\* make [install-to-device] [USE_QEMU=1]
StartMake(g, q) ==
    /\ Idle /\ phase' = "run" /\ qemu' = q
    /\ pc' = [t \in Target |-> IF t \in Needed(g, q) THEN "todo" ELSE "done"]
    /\ fault' = FALSE /\ prev' = result /\ result' = "none"
    /\ UNCHANGED <<inputs, images, tree, host>>

\* make considers t once its prerequisites are made and a job slot is free;
\* with one slot it walks the graph in order.
Ready(t) == /\ phase = "run" /\ pc[t] = "todo"
            /\ \A u \in Prereq[t] : pc[u] = "done"
            /\ Jobs > 1 => Cardinality({u \in Target : Active(u)}) < Jobs
            /\ Jobs = 1 => \A u \in Target : Pos[u] < Pos[t] => pc[u] = "done"

\* A target is remade when it is not there, when something it depends on is
\* newer, or when a prerequisite is not there after its own recipe ran.
OutOfDate(t) == \/ ~Exists(t) \/ t \in outdated
                \/ \E u \in Prereq[t] : ~Exists(u)

\* "No rule to make target 'bananui-base', needed by ...": make wants every
\* prerequisite to be there, even when the target itself already is.
NoRule(t) == /\ Ready(t) /\ ~(SrcOf[t] \subseteq sources)
             /\ Abort(t, "zImage" \in SrcOf[t])
             /\ UNCHANGED <<inputs, images, tree, host>>

Visit(t) == /\ Ready(t) /\ SrcOf[t] \subseteq sources
            /\ Goto(t, IF OutOfDate(t) THEN FirstStep[t] ELSE "done", FALSE)
            /\ UNCHANGED <<inputs, images, tree, host>>

\* Mutant: make waits on the targets it no longer starts.
MakeExitDone == /\ phase = "run" /\ \A t \in Target : pc[t] = "done"
                /\ result' = "ok" /\ phase' = "idle"
                /\ UNCHANGED <<inputs, images, tree, host, qemu, pc, fault, prev>>

MakeExit == /\ ~Idle /\ \A t \in Target : ~Active(t)
            /\ \/ phase = "failing" /\ result' = "fail"
               \/ /\ phase = "run" /\ \A t \in Target : pc[t] = "done"
                  /\ result' = "ok"
            /\ phase' = "idle"
            /\ UNCHANGED <<inputs, images, tree, host, qemu, pc, fault, prev>>
-----------------------------------------------------------------------------
\* The packages that scripts/check has to download: those whose source is
\* not there, or all when debuild is not.
PREBUILT == IF "debuild" \in tools THEN Pkg \ sources ELSE Pkg
DebsOf(P) == {Deb[p] : p \in P}

\* wget -c of each package: got are complete, torn broken off, old carry the
\* server's mtime.  The status of the loop is that of its last wget.
Fetch(got, torn, old) ==
    /\ art' = [a \in Art |-> IF a \in DebsOf(got \cup torn)
                             THEN [there |-> TRUE, whole |-> a \in DebsOf(got),
                                   ver |-> 0]
                             ELSE art[a]]
    /\ outdated' = (outdated \ DebsOf(got \cup torn)) \cup DebsOf(old)
    /\ mishap' = IF torn = {} THEN mishap ELSE mishap \cup {"torn"}
    /\ IF (IF "device-startup" \in PREBUILT THEN "device-startup"
                                            ELSE "bananui-base") \in got
       THEN Goto("check", "tools", got # PREBUILT) ELSE Abort("check", TRUE)

\* scripts/check packages
CheckPackages ==
    /\ pc["check"] = "packages"
    /\ \/ /\ PREBUILT = {} /\ Goto("check", "tools", FALSE)
          /\ UNCHANGED <<images, mishap>>
       \/ /\ PREBUILT # {} /\ "wget" \notin tools /\ Abort("check", TRUE)
          /\ UNCHANGED <<images, mishap>>
       \/ /\ PREBUILT # {} /\ "wget" \in tools
          /\ \E got, torn, old \in SUBSET PREBUILT :
                /\ \A p \in torn : p \notin got /\ ~art[Deb[p]].whole
                /\ old \subseteq got
                /\ got = PREBUILT \/ "check" \in Flaky
                /\ Fetch(got, torn, old)
    /\ UNCHANGED <<inputs, tree, mnt, wiped>>

\* scripts/check root, deps and gcc.
CheckTools ==
    /\ pc["check"] = "tools"
    /\ IF {"root", "sed", "abootimg", "tar", "debootstrap", "gcc"} \subseteq tools
       THEN Goto("check", "done", FALSE) ELSE Abort("check", TRUE)
    /\ UNCHANGED <<inputs, images, tree, host>>

\* scripts/pack-initrd: the status of the pipeline is that of gzip, so a
\* missing or failing cpio goes unnoticed.
PackInitrd ==
    /\ pc["initrd.img"] = "run"
    /\ \/ /\ "cpio" \in tools /\ WriteImage("initrd.img", TRUE)
          /\ Goto("initrd.img", "done", FALSE)
       \/ /\ "cpio" \notin tools \/ "initrd.img" \in Flaky
          /\ WriteImage("initrd.img", FALSE) /\ Goto("initrd.img", "done", TRUE)
       \/ /\ "initrd.img" \in Flaky
          /\ WriteImage("initrd.img", FALSE) /\ Abort("initrd.img", TRUE)
    /\ UNCHANGED <<inputs, tree, mnt, wiped>>

\* abootimg --create; when it fails it may have begun the file.
MakeBootImg ==
    /\ pc["boot.img"] = "run"
    /\ \/ /\ "abootimg" \in tools
          /\ WriteImage("boot.img", art["initrd.img"].whole)
          /\ Goto("boot.img", "done", FALSE)
       \/ /\ "abootimg" \notin tools \/ "boot.img" \in Flaky
          /\ WriteImage("boot.img", FALSE) \/ UNCHANGED <<images, mishap>>
          /\ Abort("boot.img", TRUE)
    /\ UNCHANGED <<inputs, tree, mnt, wiped>>

\* debuild in the package's directory, for the .deb rules.
BuildDeb(a) ==
    /\ pc[a] = "run"
    /\ \/ "debuild" \in tools /\ Write(a, TRUE) /\ Goto(a, "done", FALSE)
       \/ /\ "debuild" \notin tools \/ a \in Flaky
          /\ Abort(a, TRUE) /\ UNCHANGED images
    /\ UNCHANGED <<inputs, tree, host>>

\* The recipe of debroot: rm -rf, then debootstrap --foreign || rm -rf.
DebrootStep ==
    \/ /\ pc["debroot"] = "rm" /\ RmDebroot
       /\ mishap' = mishap \ {"cut", "second"}
       /\ IF Mounted THEN Abort("debroot", TRUE)
                     ELSE Goto("debroot", "debootstrap", FALSE)
    \/ /\ pc["debroot"] = "debootstrap" /\ "debootstrap" \in tools
       /\ \E new \in {{"dir"}, {"dir", "skel"}} : debroot' = debroot \cup new
       /\ Goto("debroot", "first stage", FALSE)
       /\ UNCHANGED host
    \/ /\ pc["debroot"] = "first stage"
       /\ debroot' = debroot \cup {"dir", "skel", "base"}
       /\ Goto("debroot", "done", FALSE)
       /\ UNCHANGED host
    \/ /\ pc["debroot"] \in {"debootstrap", "first stage"}
       /\ "debootstrap" \notin tools \/ "debroot" \in Flaky
       /\ Goto("debroot", "|| rm", TRUE) /\ UNCHANGED <<debroot, host>>
    \/ /\ pc["debroot"] = "|| rm" /\ RmDebroot
       /\ mishap' = mishap \ {"cut", "second"}
       /\ IF Mounted THEN Abort("debroot", TRUE)
                     ELSE Goto("debroot", "done", FALSE)

Debootstrap == DebrootStep /\ UNCHANGED <<inputs, images, tar>>

\* Mutant: `[ ! -f debroot/etc/wpa_supplicant.conf ] &&' dropped.
ConfAnyway == "skel" \in debroot

\* The condition under which the first line of copy-files succeeds.
ConfWritable == "conf" \notin debroot /\ "skel" \in debroot

\* The recipe of copy-files.  Its first line is `[ ! -f conf ] && ...': when
\* the file is already there the line exits 1, and so does make.
CopyStep ==
    \/ /\ pc["copy-files"] = "conf"
       /\ IF ConfWritable
          THEN /\ debroot' = debroot \cup {"conf"}
               /\ Goto("copy-files", "editor", FALSE)
          ELSE UNCHANGED debroot /\ Abort("copy-files", FALSE)
    \/ /\ pc["copy-files"] = "editor" /\ UNCHANGED debroot
       /\ Goto("copy-files", "modules", FALSE)
    \/ /\ pc["copy-files"] = "modules"
       /\ debroot' = debroot \cup {"dir", "modules"}
       /\ Goto("copy-files", "debs", FALSE)
    \/ /\ pc["copy-files"] = "debs"
       /\ IF "skel" \in debroot /\ \A a \in Debs : Exists(a)
          THEN /\ debroot' = (debroot \ {"debs", "bad debs"}) \cup
                    {IF \A a \in Debs : art[a].whole THEN "debs" ELSE "bad debs"}
               /\ Goto("copy-files", "done", FALSE)
          ELSE UNCHANGED debroot /\ Abort("copy-files", TRUE)
    \/ /\ pc["copy-files"] \in {"editor", "modules", "debs"}
       /\ "copy-files" \in Flaky
       /\ debroot' = IF pc["copy-files"] = "modules"
                     THEN (debroot \cup {"dir"}) \ {"modules"} ELSE debroot
       /\ Abort("copy-files", TRUE)

CopyFiles == CopyStep /\ UNCHANGED <<inputs, images, tar, host>>

\* qemubootstrap: no mount is checked, and a missing qemu-arm-static is
\* reported by a child process and shows only when the chroot fails.
QemuMount ==
    /\ pc["qemu-install"] = "mount"
    /\ \E S \in SUBSET {m \in Mnt : "skel" \in debroot} :
          mnt' = [m \in Mnt |-> IF m \in S THEN mnt[m] + 1 ELSE mnt[m]]
    /\ IF "qemu-arm-static" \in tools
       THEN Goto("qemu-install", "second stage", FALSE)
       ELSE Goto("qemu-install", "umount, fail", TRUE)
    /\ UNCHANGED <<inputs, images, tree, wiped, mishap>>

\* Mutant: `;' between the commands instead of `&&'.
ChainOn(l, guard, new, next) ==
    /\ pc["qemu-install"] = l
    /\ \/ guard /\ debroot' = new /\ Goto("qemu-install", next, FALSE)
       \/ UNCHANGED debroot /\ Goto("qemu-install", next, TRUE)

\* Mutant: a command that fails is tried again from the first one on.
ChainAgain(l, guard, new, next) ==
    /\ pc["qemu-install"] = l
    /\ \/ guard /\ debroot' = new /\ Goto("qemu-install", next, FALSE)
       \/ UNCHANGED debroot /\ Goto("qemu-install", "second stage", TRUE)

\* One command of the chroot's chain: from label l it leaves debroot
\* as new and goes on to next, or it ends the chain.
Chain(l, guard, new, next) ==
    /\ pc["qemu-install"] = l
    /\ \/ guard /\ debroot' = new /\ Goto("qemu-install", next, FALSE)
       \/ /\ ~guard \/ "qemu-install" \in Flaky
          /\ UNCHANGED debroot /\ Goto("qemu-install", "umount, fail", TRUE)

\* `debootstrap --second-stage; cd /var/cache && dpkg ... && adduser ...':
\* the status of the second stage is not looked at.
QemuChroot ==
    /\ \/ /\ pc["qemu-install"] = "second stage"
          /\ \/ /\ "base" \in debroot /\ debroot' = debroot \cup {"second"}
                /\ Goto("qemu-install", "dpkg", FALSE) /\ UNCHANGED mishap
             \/ /\ "base" \notin debroot \/ "qemu-install" \in Flaky
                /\ UNCHANGED debroot /\ Goto("qemu-install", "dpkg", TRUE)
                /\ mishap' = mishap \cup {"second"}
       \/ /\ \/ Chain("dpkg", {"base", "debs"} \subseteq debroot,
                      debroot \cup {"pkgs"}, "rm debs")
             \/ Chain("rm debs", TRUE, debroot \ {"debs", "bad debs"}, "adduser")
             \/ Chain("adduser", "user" \notin debroot,
                      debroot \cup {"user"}, "sudo")
             \/ Chain("sudo", TRUE, debroot \cup {"sudo"}, "umount, ok")
          /\ UNCHANGED mishap
    /\ UNCHANGED <<inputs, images, tar, mnt, wiped>>

\* Mutants: debroot/sys is not unmounted; what is not mounted is, too.
UmountSome(busy) == [m \in Mnt |-> IF mnt[m] > 0 /\ m \notin busy \cup {"sys"}
                                   THEN mnt[m] - 1 ELSE mnt[m]]
UmountBlindly(busy) == [m \in Mnt |-> IF m \notin busy THEN mnt[m] - 1 ELSE mnt[m]]

\* umount debroot/dev debroot/proc debroot/sys, where busy is in use.
Umount(busy) == [m \in Mnt |-> IF mnt[m] > 0 /\ m \notin busy
                               THEN mnt[m] - 1 ELSE mnt[m]]

\* The EXIT trap.  umount fails on what is still in use, and its status is
\* not the script's.
QemuUmount ==
    /\ pc["qemu-install"] \in {"umount, ok", "umount, fail"}
    /\ \E busy \in SUBSET {m \in Mnt : mnt[m] > 0 /\ "qemu-install" \in Flaky} :
          /\ mnt' = Umount(busy)
          /\ mishap' = IF busy = {} THEN mishap ELSE mishap \cup {"leak"}
    /\ IF pc["qemu-install"] = "umount, ok"
       THEN Goto("qemu-install", "done", FALSE) ELSE Abort("qemu-install", TRUE)
    /\ UNCHANGED <<inputs, images, tree, wiped>>

\* Mutant: the status of tar is lost.
TarFailsUnseen == /\ "debroot.tar" \in Flaky /\ tar' \in {NoTar, TornTar}
                  /\ Goto("debroot.tar", "done", TRUE)

TarFails == /\ "debroot.tar" \in Flaky /\ tar' \in {NoTar, TornTar}
            /\ Abort("debroot.tar", TRUE)

\* `(cd debroot; tar cvf ../debroot.tar *)': without a debroot the archive
\* is written somewhere else, and the recipe still succeeds.
MakeTar ==
    /\ pc["debroot.tar"] = "run"
    /\ \/ /\ "dir" \notin debroot /\ tar' = NoTar
          /\ Goto("debroot.tar", "done", FALSE)
       \/ /\ "dir" \in debroot
          /\ tar' = [there |-> TRUE, whole |-> TRUE,
                     parts |-> debroot \cup {h \in {"host"} : Mounted}]
          /\ Goto("debroot.tar", "done", FALSE)
       \/ TarFails
    /\ UNCHANGED <<inputs, images, debroot, host>>

\* all has no recipe; the host's part in install-to-device is to read
\* debroot.tar and boot.img (the phone's part is module Device).
AllDone == /\ pc["all"] = "run" /\ Goto("all", "done", FALSE)
           /\ UNCHANGED <<inputs, images, tree, host>>

Install == /\ pc["install-to-device"] = "run"
           /\ \/ /\ Exists("debroot.tar") /\ Exists("boot.img")
                 /\ Goto("install-to-device", "done", FALSE)
              \/ /\ "install-to-device" \in Flaky \/ ~Exists("debroot.tar")
                 /\ Abort("install-to-device", TRUE)
           /\ UNCHANGED <<inputs, images, tree, host>>
-----------------------------------------------------------------------------
\* Mutant: a .PRECIOUS target, which make does not delete.
Precious(a, s) == Built(a, FALSE)

\* What a signal leaves of file a when its recipe had begun to write it.  A
\* KILL just after `rm -f initrd.img' leaves what an INT does.
Remnant(a, s) == IF s = "KILL" THEN Built(a, FALSE) ELSE Absent

\* A signal reaches make and its recipes.  On INT and HUP make deletes the
\* regular files it was making, but no directory; KILL (or a power cut)
\* leaves them truncated.  qemubootstrap traps INT only (and TERM): HUP
\* ends it without its EXIT trap.
Signal(s) ==
    LET leak == /\ Active("qemu-install") /\ pc["qemu-install"] # "mount"
                /\ s # "INT" /\ Mounted
        cut  == pc["debroot"] \in {"first stage", "|| rm"}
    IN
    /\ \E t \in Target : Active(t)
    /\ \E hit \in SUBSET {a \in Art : Active(a)} :
          /\ art' = [a \in Art |->
                IF a \in hit THEN Remnant(a, s) ELSE art[a]]
          /\ outdated' = IF s = "KILL" THEN Stamped(hit) ELSE outdated
          /\ mishap' = mishap \cup {x \in {"leak"} : leak}
                              \cup {x \in {"cut"} : cut}
                              \cup {x \in {"torn"} : s = "KILL" /\ hit \cap Debs # {}}
                              \cup {x \in {"image"} : s = "KILL" /\ ~(hit \subseteq Debs)}
    /\ tar' \in IF ~Active("debroot.tar") THEN {tar}
               ELSE {tar, NoTar} \cup {x \in {TornTar} : s = "KILL"}
    /\ pc' = [t \in Target |->
                IF ~Active(t) THEN pc[t]
                ELSE IF t = "qemu-install" /\ s = "INT" /\ pc[t] # "mount"
                     THEN "umount, fail" ELSE "failed"]
    /\ phase' = "failing" /\ fault' = TRUE
    /\ UNCHANGED <<inputs, debroot, mnt, wiped, qemu, prev, result>>

\* make clean
Clean == /\ Idle /\ RmDebroot /\ mishap' = mishap \cap {"leak"}
         /\ art' = [a \in Art |-> Absent] /\ outdated' = {} /\ tar' = NoTar
         /\ prev' = "none" /\ result' = "none"
         /\ UNCHANGED <<inputs, phase, qemu, pc, fault>>

\* make package-<p>
Package(p) == /\ Idle /\ p \in sources /\ "debuild" \in tools
              /\ Write(Deb[p], TRUE)
              /\ UNCHANGED <<inputs, tree, host, make>>

\* The user edits a source directory.  make compares the mtime of the
\* directory, which changes only when an entry is added or removed.
Edit(d, entry) ==
    /\ Idle /\ d \in sources \cup {"ramdisk"} /\ ver[d] < MaxEdits
    /\ ver' = [ver EXCEPT ![d] = @ + 1]
    /\ IF entry
       THEN /\ stamp' = [stamp EXCEPT ![d] = ver[d] + 1]
            /\ outdated' = outdated \cup
                 (IF d \in Pkg THEN {Deb[d]} ELSE {"initrd.img"})
       ELSE UNCHANGED <<stamp, outdated>>
    /\ UNCHANGED <<tools, sources, art, tree, host, make>>

\* The build machine restarts: bind mounts do not outlive it.
Reboot == /\ Idle /\ mnt' = [m \in Mnt |-> 0]
          /\ UNCHANGED <<inputs, images, tree, wiped, mishap, make>>

\* The recipes that only concern the build machine.
Local == \/ CheckPackages \/ CheckTools \/ PackInitrd \/ MakeBootImg
         \/ \E a \in Debs : BuildDeb(a)
         \/ Debootstrap \/ CopyFiles
         \/ QemuMount \/ QemuChroot \/ QemuUmount
         \/ MakeTar \/ AllDone

Recipe == Local \/ Install

Make == \/ \E t \in Target : NoRule(t) \/ Visit(t)
        \/ Recipe
        \/ MakeExit

User == \/ \E g \in {"all", "install-to-device"}, q \in QemuModes : StartMake(g, q)
        \/ \E p \in Pkg : Package(p)
        \/ \E d \in EditDirs, entry \in BOOLEAN : Edit(d, entry)
        \/ Clean \/ Reboot

Next == Make \/ User \/ \E s \in Signals : Signal(s)

Spec == Init /\ [][Next]_vars
FairSpec == Spec /\ WF_vars(Make)
-----------------------------------------------------------------------------
File == [there : BOOLEAN, whole : BOOLEAN, ver : Nat]
TarFile == [there : BOOLEAN, whole : BOOLEAN, parts : SUBSET (Part \cup {"host"})]
Mishap == {"cut", "torn", "leak", "image", "second"}
Labels == {"todo", "done", "failed", "packages", "tools", "run", "rm",
           "debootstrap", "first stage", "|| rm", "conf", "editor",
           "modules", "debs", "mount", "second stage", "dpkg", "rm debs",
           "adduser", "sudo", "umount, ok", "umount, fail"}

\* Every variable stays in its type.
TypeOK ==
    /\ tools \in SUBSET Tool /\ sources \in SUBSET Source
    /\ ver \in [Dir -> Nat] /\ stamp \in [Dir -> Nat]
    /\ art \in [Art -> File] /\ outdated \in SUBSET Art
    /\ debroot \in SUBSET Part
    /\ tar \in TarFile
    /\ mnt \in [Mnt -> Nat] /\ wiped \in BOOLEAN
    /\ mishap \in SUBSET Mishap
    /\ phase \in {"idle", "run", "failing"} /\ qemu \in BOOLEAN
    /\ pc \in [Target -> Labels] /\ fault \in BOOLEAN
    /\ prev \in {"none", "ok", "fail"} /\ result \in {"none", "ok", "fail"}

\* The bind mounts of qemubootstrap never pile up on one mount point, so one
\* umount always undoes them.  Nothing in the script sees to it: it holds
\* because copy-files refuses a debroot that already went through it.
SingleMount == \A m \in Mnt : mnt[m] <= 1

\* `rm -rf debroot', in make clean or in the recipe of debroot, reaches the
\* build machine's own /dev only after a bootstrap left its mounts behind.
HostUntouched == wiped => "leak" \in mishap

\* The build machine's /dev, /proc and /sys get into debroot.tar only after
\* a bootstrap left its mounts behind.
NoHostFilesShipped == "host" \in tar.parts => "leak" \in mishap

\* When make succeeds, the archive is there and holds the whole first stage
\* and all that copy-files and qemubootstrap add, unless an interrupted
\* debootstrap left its debroot or a broken-off download its package.  A
\* debootstrap that fails is not enough: its debroot is removed and
\* copy-files stops the build.  Under -j the archive may be missing, but
\* what there is of it is complete.
TarballComplete ==
    Idle /\ result = "ok" /\ {"cut", "torn"} \cap mishap = {} =>
        /\ Jobs = 1 => tar.there
        /\ tar.there => /\ tar.whole
                        /\ {"base", "conf", "modules"} \subseteq tar.parts
                        /\ IF qemu THEN ({"second"} \ mishap) \cup {"pkgs", "user", "sudo"}
                                                \subseteq tar.parts
                                   ELSE "debs" \in tar.parts

\* What a serial install-to-device pushes is never a leftover: the archive
\* is whole and equals debroot as it stands, whatever earlier invocations
\* failed or were killed while writing it.
PushedTarIsCurrent ==
    Jobs = 1 /\ pc["install-to-device"] = "run" =>
        tar.there /\ tar.whole /\ tar.parts \ {"host"} = debroot

\* A successful make leaves a complete boot.img, unless a program failed or
\* was killed while it wrote initrd.img or boot.img: what INT or HUP cut short
\* is removed, and a boot.img older than its initrd.img is made again.
ImageWhole ==
    Idle /\ result = "ok" /\ "image" \notin mishap =>
        art["boot.img"].there /\ art["boot.img"].whole

\* A successful make leaves a boot.img and .debs that are at least as new as
\* the last change to the entries of the directories they are made from,
\* over any run of failed, killed and repeated builds.  (A file edited in
\* place changes no entry: make does not see it.)
FreshOutputs ==
    [][ ~Idle /\ phase' = "idle" /\ result' = "ok" /\ "debuild" \in tools
        => /\ art["boot.img"].ver >= stamp["ramdisk"]
           /\ \A p \in Pkg : art[Deb[p]].ver >= stamp[p] ]_vars

\* When a serial make fails although no program failed, the cause is one of
\* three: a debroot that copy-files has already been through, one left by a
\* mishap, or package sources that were not cloned.
FailureExplained ==
    Jobs = 1 /\ Idle /\ result = "fail" /\ ~fault =>
        \/ "conf" \in debroot \/ mishap # {} \/ ~(Pkg \subseteq sources)

\* Without make clean in between, no two serial makes in a row succeed, the
\* goal and USE_QEMU being the same or not: the debroot that the first leaves
\* is one that copy-files refuses.
OnceOnly == Jobs = 1 /\ Idle /\ result = "ok" => prev # "ok"

\* make succeeds only where the kernel and the sources of both packages are:
\* no packages that scripts/check downloads stand in for them.
SourcesNeeded == Idle /\ result = "ok" => Source \subseteq sources

\* Every invocation of make ends, whichever of its programs fail or are
\* interrupted.
MakeEnds == ~Idle ~> Idle

\* make never waits for what nobody will make: while it runs, a recipe is at
\* work, a target can be started, or make is about to exit.
NeverStuck == ~Idle => \/ \E t \in Target : Active(t) \/ Ready(t)
                       \/ phase = "failing" \/ \A t \in Target : pc[t] = "done"

\* How many steps a recipe has at most left.
Left == [l \in Labels |->
    CASE l \in {"done", "failed"} -> 0
      [] l \in {"run", "tools", "|| rm", "debs", "umount, ok", "umount, fail"} -> 1
      [] l \in {"packages", "first stage", "modules", "sudo"} -> 2
      [] l \in {"debootstrap", "editor", "adduser"} -> 3
      [] l \in {"rm", "conf", "rm debs"} -> 4
      [] l = "dpkg" -> 5
      [] l = "second stage" -> 6
      [] l = "mount" -> 7
      [] l = "todo" -> 8]

\* Every step of a running make, with any number of jobs, brings a recipe
\* nearer to its end and takes none back: no recipe, failure or signal starts
\* anything over.  Only a signal that finds qemubootstrap unmounting changes
\* nothing.
OnlyForward ==
    [][ ~Idle /\ phase' # "idle" =>
          /\ \A t \in Target : Left[pc'[t]] <= Left[pc[t]]
          /\ \/ \E t \in Target : Left[pc'[t]] < Left[pc[t]]
             \/ /\ pc["qemu-install"] \in {"umount, ok", "umount, fail"}
                /\ pc'["qemu-install"] = "umount, fail" ]_vars

\* debroot.tar and boot.img as install-to-device hands them over: of a torn
\* archive nothing is counted on; adduser in qemubootstrap asks for the
\* password, too.
Out == [qemu |-> qemu, there |-> tar.there,
        whole |-> art["boot.img"].there /\ art["boot.img"].whole,
        parts |-> IF ~(tar.there /\ tar.whole) THEN {}
                  ELSE (tar.parts \cap Content) \cup
                       {x \in {"pw"} : "user" \in tar.parts}]

Stage == IF Idle THEN "idle" ELSE IF pc["all"] = "done" THEN "ready" ELSE "making"
Excused == mishap \ {"leak"} # {}

B == INSTANCE Build WITH stage <- Stage, out <- Out, excused <- Excused, made <- result

\* A make is what module Build says, with any number of jobs: it succeeds, or
\* lets install-to-device push, only with good outputs, one of the mishaps, or
\* no archive at all, and no one touches them from there to the next make or
\* make clean.
Implements == B!BSpec
-----------------------------------------------------------------------------
(* What the repository's texts say and the code does not do. *)

\* README: `make && make install-to-device' installs.  A make in which no
\* program fails and that follows a successful one should not fail.
InstallAfterMake == Idle /\ result = "fail" /\ ~fault => prev # "ok"

\* README: without the package sources, prebuilt packages are used.  A first
\* make in which no program fails should not need the sources.
PrebuiltBuilds ==
    Idle /\ result = "fail" /\ ~fault /\ prev = "none" => Pkg \subseteq sources

\* Makefile, last line of debroot.tar: the commands of README.md, which
\* unpack debroot.tar, can be run once the recipe has succeeded.
AnnouncedTar == pc["debroot.tar"] = "done" /\ pc["all"] = "run" => tar.there
=============================================================================
