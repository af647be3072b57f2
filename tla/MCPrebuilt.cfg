CONSTANTS
    Jobs = 1
    EditDirs = {}
    MaxEdits = 0
    ToolSets <- AllTools
    SourceSets <- AnyInputs
    Flaky = {}
    Signals = {}
    QemuModes = {FALSE}
SPECIFICATION Spec
INVARIANT PrebuiltBuilds
