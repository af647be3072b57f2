CONSTANTS
    AdbStatus = TRUE
    Archives <- Builds
    Faulty <- AnyProgram
    Orphans = TRUE
    ByHand = TRUE
    MaxBinds = 2
SPECIFICATION PhoneSpec
INVARIANTS PhoneTypeOK InstalledOnCard BootsAfterInstall BindsOnce 
PROPERTIES UnpackAlone 
