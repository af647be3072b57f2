------------------------------ MODULE Outputs -------------------------------
(***************************************************************************)
(* What passes from the build machine to the phone: debroot.tar and        *)
(* boot.img, as the recipe of install-to-device pushes them.               *)
(***************************************************************************)

\* What a Debian tree holds: the first stage; wpa_supplicant.conf and the
\* kernel modules; the .debs in var/cache; then what bootstrapping adds, on
\* the build machine or on the phone: the second stage, the packages, the
\* user, its membership in sudo, its password.
Content == {"base", "conf", "modules", "debs",
            "second", "pkgs", "user", "sudo", "pw"}

\* One pair of files, made with or without USE_QEMU: whether debroot.tar is
\* there and what it holds, and whether the image is complete.
Archive == [qemu : BOOLEAN, there : BOOLEAN, parts : SUBSET Content, whole : BOOLEAN]
Nothing == [qemu |-> FALSE, there |-> FALSE, parts |-> {}, whole |-> FALSE]

\* What the phone's scripts rely on: with USE_QEMU a tree that is set up,
\* without it one that bootstrap-debian.sh can set up.
Good(a) ==
    /\ a.whole
    /\ {"base", "conf", "modules"} \subseteq a.parts
    /\ IF a.qemu THEN {"second", "pkgs", "user", "sudo", "pw"} \subseteq a.parts
                 ELSE "debs" \in a.parts
=============================================================================
