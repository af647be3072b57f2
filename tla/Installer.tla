----------------------------- MODULE Installer ------------------------------
(***************************************************************************)
(* The whole installer: the build machine, as module Build promises it,    *)
(* and the phone of module Device, joined in the recipe of                 *)
(* install-to-device.  make runs that recipe when everything in all is     *)
(* made, pushes what is there then, and exits the way the recipe ends.     *)
(***************************************************************************)
EXTENDS Device, Build

VARIABLES recipe,  \* the recipe of install-to-device in this make: "no",
                   \* "busy", or how it ended
          blame    \* whether, since the card was formatted, outputs were
                   \* pushed that only a mishap of the build excused

ivars == <<dvars, bvars, recipe, blame>>

IInit == PhoneInit /\ BInit /\ recipe = "no" /\ blame = FALSE

\* make, make clean; make exits once its recipes have ended, and as they did.
BuildMachine ==
    /\ \/ (\E q \in BOOLEAN : Start(q)) /\ recipe' = "no"
       \/ /\ \/ Produce \/ Finish \/ Wipe
             \/ \E r \in {"ok", "fail"} : Exit(r) /\ recipe \in {"no", r}
          /\ UNCHANGED recipe
    /\ UNCHANGED <<dvars, blame>>

\* The recipe of install-to-device comes after all.
Deliver == /\ stage = "ready" /\ recipe = "no" /\ recipe' = "busy"
           /\ StartInstall /\ UNCHANGED <<bvars, blame>>

\* make waits for the recipe, and notes how it ends.
Joined == /\ recipe' = IF line # "idle" /\ line' = "idle" THEN ending' ELSE recipe
          /\ UNCHANGED bvars

\* adb push debroot.tar, boot.img and the scripts.
Hand == Push(out) /\ Joined /\ blame' = (blame \/ excused)

Lines == (AdbReturn \/ Remove \/ Script("fg")) /\ Joined /\ UNCHANGED blame

\* What happens to the phone meanwhile.
Phone == /\ \/ Script("bg") \/ Reap \/ StartShell
            \/ Disconnect \/ Restart \/ BootRecovery \/ Unmount \/ Delete
         /\ Joined /\ UNCHANGED blame
NewCard == Format /\ UNCHANGED <<bvars, recipe>> /\ blame' = FALSE

INext == BuildMachine \/ Deliver \/ Hand \/ Lines \/ Phone \/ NewCard

ISpec == IInit /\ [][INext]_ivars
-----------------------------------------------------------------------------
\* From the sources to a running phone: when make install-to-device succeeds,
\* and neither the build nor the phone had one of the mishaps their scripts
\* do not see, the card holds a Debian that is set up and every boot that can
\* mount it starts it, through any sequence of builds in both modes, make
\* clean, lost connections, restarts and shells entered by hand.
EndToEnd ==
    AdbStatus /\ ending = "ok" /\ unseen \subseteq {"archive"} /\ ~blame =>
        /\ recovery = "whole" /\ boot \notin {"no kernel", "no init"}
        /\ {"base", "conf", "modules", "second", "pkgs", "user", "sudo", "pw"} \subseteq sd

\* While the scripts of install-to-device run, what they unpack and flash is
\* what the build machine still has, and make waits for them: no other build
\* starts, and make exits with their status.
InStep == /\ line # "idle" => stage = "ready"
          /\ line # "idle" <=> recipe = "busy"
          /\ line \in {"flash", "unpack", "bootstrap", "rm"} => pushed = out
          /\ stage = "idle" => made \in {"none", recipe} \/ recipe = "no"

\* Every make install-to-device that got as far as pushing exits.
InstallExits == line # "idle" ~> stage = "idle"
=============================================================================
