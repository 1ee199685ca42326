SPECIFICATION Spec
CONSTANTS
    Arch = "aarch64"
    Scripts <- MCScripts
    Tables <- TheTable
    UninitPa = {"junk"}
INVARIANTS
    RegistersRestored
    NoStrayException
    PrintNeverTraps
    AllTestsPass
PROPERTY
    ReachesShutdown
