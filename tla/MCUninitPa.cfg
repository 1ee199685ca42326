SPECIFICATION Spec
CONSTANTS
    Arch = "aarch64"
    Scripts <- MCScripts
    Tables <- ShortTables
    UninitPa = {"zero", "junk"}
INVARIANT
    CountsAccurate
