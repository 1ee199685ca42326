CONSTANTS
  Arch = "aarch64"
  MaxSwitches = 1
SPECIFICATION Spec
INVARIANT TrapRestoresSaved
