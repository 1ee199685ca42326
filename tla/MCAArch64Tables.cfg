SPECIFICATION Spec
CONSTANTS
    Arch = "aarch64"
    Scripts <- MCScripts
    Tables <- ShortTables
    UninitPa = {"junk"}
INVARIANTS
    TypeOK
    WorldConsistency
    ServiceParked
    OpMatchesDescriptor
    MappedBeforeUse
    CountsAccurate
    FullInv
PROPERTY
    RunsTheTable
