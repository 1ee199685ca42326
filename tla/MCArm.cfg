SPECIFICATION Spec
CONSTANTS
    Arch = "arm"
    Scripts <- MCScripts
    Tables <- ShortTables
    UninitPa = {"junk"}
INVARIANTS
    RegistersRestored
    AllTestsPass
PROPERTIES
    ReachesShutdown
