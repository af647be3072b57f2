---------------------------- MODULE MCHostBuild -----------------------------
(* Small instances of HostBuild for TLC. *)
EXTENDS HostBuild

\* A machine with every program, and machines that lack one or two.
AllTools == {Tool}
SomeTools == {Tool, Tool \ {"cpio"}, Tool \ {"debuild"}, Tool \ {"gcc"},
              Tool \ {"debuild", "wget"}, Tool \ {"qemu-arm-static"}}

\* The user supplied the kernel and cloned both packages; or any part of it.
Inputs == {Source}
AnyInputs == SUBSET Source
=============================================================================
