CONSTANTS
    Jobs = 1
    EditDirs = {}
    MaxEdits = 0
    ToolSets <- SomeTools
    SourceSets <- AnyInputs
    Flaky = {"check", "initrd.img", "boot.img", "debroot", "bananui-base.deb", "device-startup.deb", "copy-files", "qemu-install", "debroot.tar", "install-to-device"}
    Signals = {"INT", "HUP", "KILL"}
    QemuModes = {TRUE, FALSE}
SPECIFICATION Spec
INVARIANTS TypeOK SingleMount HostUntouched NoHostFilesShipped  PushedTarIsCurrent ImageWhole   
PROPERTY Implements
