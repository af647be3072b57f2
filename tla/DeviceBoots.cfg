CONSTANTS
    AdbStatus = TRUE
    Archives <- QemuBuilds
    Faulty = {"mount"}
    Orphans = FALSE
    ByHand = FALSE
    MaxBinds = 2
SPECIFICATION PhoneSpec
INVARIANT InstallBoots
