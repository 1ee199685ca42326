CONSTANTS
  Arch = "arm"
  MaxSwitches = 1
SPECIFICATION Spec
INVARIANT RetryUnlessSkip
