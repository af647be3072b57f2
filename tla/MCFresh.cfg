CONSTANTS
    Jobs = 1
    EditDirs = {"ramdisk", "bananui-base"}
    MaxEdits = 1
    ToolSets <- AllTools
    SourceSets <- Inputs
    Flaky = {"check", "initrd.img", "boot.img", "debroot", "bananui-base.deb", "device-startup.deb", "copy-files", "qemu-install", "debroot.tar", "install-to-device"}
    Signals = {"INT", "KILL"}
    QemuModes = {FALSE}
SPECIFICATION Spec
PROPERTY FreshOutputs
