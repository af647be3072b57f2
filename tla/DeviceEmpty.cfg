CONSTANTS
    AdbStatus = TRUE
    Archives <- PlainBuilds
    Faulty = {}
    Orphans = FALSE
    ByHand = FALSE
    MaxBinds = 2
SPECIFICATION PhoneSpec
INVARIANT NotEmptyRefused
