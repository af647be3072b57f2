CONSTANTS
    Jobs = 2
    EditDirs = {}
    MaxEdits = 0
    ToolSets <- AllTools
    SourceSets <- Inputs
    Flaky = {"debroot", "copy-files", "qemu-install"}
    Signals = {"INT", "HUP"}
    QemuModes = {TRUE}
SPECIFICATION FairSpec
INVARIANTS TarballComplete SingleMount HostUntouched 
PROPERTIES MakeEnds  Implements
