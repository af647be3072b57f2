------------------------------ MODULE Makefile ------------------------------
(***************************************************************************)
(* The rule graph of the Makefile: its targets, what each depends on, and  *)
(* the order in which a serial make visits them.  check, copy-files,       *)
(* qemu-install, all and install-to-device name no file, so make runs      *)
(* their recipes in every invocation.                                      *)
(***************************************************************************)
EXTENDS Integers

\* The packages of DEBS, and the .deb target of each.
Pkg == {"bananui-base", "device-startup"}
Deb == [p \in Pkg |-> IF p = "bananui-base" THEN "bananui-base.deb"
                                            ELSE "device-startup.deb"]
Debs == {"bananui-base.deb", "device-startup.deb"}

\* The regular files among the targets that make may find up to date.
Art == {"initrd.img", "boot.img"} \cup Debs

Target == Art \cup {"check", "debroot", "copy-files", "qemu-install",
                    "debroot.tar", "all", "install-to-device"}

\* The prerequisites that are targets.  qemu-install stands in the list of
\* debroot.tar only with USE_QEMU=1; see Needed.
Prereq == [t \in Target |->
    CASE t = "boot.img"          -> {"initrd.img"}
      [] t = "copy-files"        -> Debs
      [] t = "qemu-install"      -> {"debroot", "copy-files"}
      [] t = "debroot.tar"       -> {"debroot", "copy-files", "qemu-install"}
      [] t = "all"               -> {"check", "initrd.img", "boot.img",
                                     "debroot", "debroot.tar"}
      [] t = "install-to-device" -> {"all"}
      [] OTHER                   -> {}]

\* Mutant: the .deb rules do not name the source directories.
SrcOfImage == [t \in Target |-> {z \in {"zImage"} : t = "boot.img"}]

\* The prerequisites that no rule makes.  Those the repository itself holds
\* (ramdisk, modules, bootimg.cfg) are always there and are left out.
SrcOf == [t \in Target |->
    CASE t = "boot.img"           -> {"zImage"}
      [] t = "bananui-base.deb"   -> {"bananui-base"}
      [] t = "device-startup.deb" -> {"device-startup"}
      [] OTHER                    -> {}]

\* What an invocation of make for goal g has to visit.
Needed(g, q) == {t \in Target : /\ t = "install-to-device" => g = t
                                /\ t = "qemu-install" => q}

\* The place of each target in the depth-first, left-to-right walk of a
\* serial make over OUTPUTS and the lists above.
Pos == [t \in Target |->
    CASE t = "check"              -> 1
      [] t = "initrd.img"         -> 2
      [] t = "boot.img"           -> 3
      [] t = "debroot"            -> 4
      [] t = "bananui-base.deb"   -> 5
      [] t = "device-startup.deb" -> 6
      [] t = "copy-files"         -> 7
      [] t = "qemu-install"       -> 8
      [] t = "debroot.tar"        -> 9
      [] t = "all"                -> 10
      [] t = "install-to-device"  -> 11]

\* The label of the first step of each recipe.
FirstStep == [t \in Target |->
    CASE t = "check"        -> "packages"
      [] t = "debroot"      -> "rm"
      [] t = "copy-files"   -> "conf"
      [] t = "qemu-install" -> "mount"
      [] OTHER              -> "run"]
=============================================================================
