CONSTANTS
    Jobs = 1
    EditDirs = {}
    MaxEdits = 0
    ToolSets <- AllTools
    SourceSets <- Inputs
    Flaky = {}
    Signals = {}
    QemuModes = {FALSE}
SPECIFICATION Spec
INVARIANT InstallAfterMake
