CONSTANTS
    Jobs = 1
    EditDirs = {}
    MaxEdits = 0
    ToolSets <- AllTools
    SourceSets <- Inputs
    Flaky = {"install-to-device"}
    Signals = {"INT"}
    QemuModes = {TRUE}
    AdbStatus = TRUE
    Archives = {}
    Faulty = {"adb"}
    Orphans = FALSE
    ByHand = FALSE
    MaxBinds = 1
SPECIFICATION SFairSpec
INVARIANTS EndToEnd InStep
PROPERTIES InstallExits Composed
