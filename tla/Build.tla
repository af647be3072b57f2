------------------------------- MODULE Build --------------------------------
(***************************************************************************)
(* What the build machine promises the phone, whatever happens inside a    *)
(* make: the outputs change only while recipes run or in make clean; make  *)
(* reports success, and starts to push, only from a state in which they    *)
(* are good, or one of the known mishaps excuses them, or there is no      *)
(* archive to push; and from there on they stay as they are.  HostBuild    *)
(* implements this module (Implements in HostBuild); Installer composes it *)
(* with Device.                                                            *)
(***************************************************************************)
EXTENDS Outputs

VARIABLES stage,     \* "idle", "making", or "ready": recipes of all are done
          out,       \* debroot.tar and boot.img as they are, and USE_QEMU
          excused,   \* whether a mishap excuses bad outputs
          made       \* how the latest make ended

bvars == <<stage, out, excused, made>>

BInit == /\ stage = "idle" /\ out = Nothing
         /\ excused = FALSE /\ made = "none"

\* make, with USE_QEMU or without.
Start(q) == /\ stage = "idle" /\ stage' = "making" /\ made' = "none"
            /\ out' = [out EXCEPT !.qemu = q] /\ UNCHANGED excused

\* The recipes at work, failures, signals: anything may become of the files.
Produce == /\ stage = "making" /\ out' \in Archive /\ out'.qemu = out.qemu
           /\ excused' \in BOOLEAN /\ UNCHANGED <<stage, made>>

\* Every target of all is made.  The archive may be missing (make -j), but what
\* there is of it is good, or excused.
Finish == /\ stage = "making" /\ stage' = "ready" /\ (out.there => Good(out) \/ excused)
          /\ UNCHANGED <<out, excused, made>>

\* make exits; from "ready", the recipe of install-to-device decides.
Exit(r) == /\ stage' = "idle" /\ made' = r /\ UNCHANGED <<out, excused>>
           /\ \/ stage = "making" /\ r = "fail"
              \/ stage = "ready" /\ r \in {"ok", "fail"}

\* make clean
Wipe == /\ stage = "idle"
        /\ out' = [qemu |-> out.qemu, there |-> FALSE, whole |-> FALSE, parts |-> {}]
        /\ made' = "none" /\ excused' \in BOOLEAN /\ UNCHANGED stage

BNext == \/ \E q \in BOOLEAN : Start(q)
         \/ Produce \/ Finish \/ Wipe
         \/ \E r \in {"ok", "fail"} : Exit(r)

BSpec == BInit /\ [][BNext]_bvars
=============================================================================
