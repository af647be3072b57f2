------------------------------ MODULE MCDevice ------------------------------
(* Small instances of Device for TLC. *)
EXTENDS Device

\* Every program may fail at any time.
AnyProgram == Program

\* What good builds hand over, with and without QEMU.
Qemu  == [qemu |-> TRUE, there |-> TRUE, whole |-> TRUE, parts |-> Content \ {"debs"}]
Plain == [qemu |-> FALSE, there |-> TRUE, whole |-> TRUE,
          parts |-> {"base", "conf", "modules", "debs"}]
Builds == {Qemu, Plain}
PlainBuilds == {Plain}
QemuBuilds == {Qemu}
=============================================================================
