CONSTANTS
    Jobs = 2
    EditDirs = {}
    MaxEdits = 0
    ToolSets <- AllTools
    SourceSets <- Inputs
    Flaky = {"debroot", "copy-files", "qemu-install", "debroot.tar"}
    Signals = {}
    QemuModes = {FALSE}
SPECIFICATION Spec
INVARIANT AnnouncedTar
