CONSTANTS
  Arch = "aarch64"
  MaxSwitches = 23
SPECIFICATION Spec
INVARIANTS OwnContext ResultDelivered BootHandover MonitorStack KernelStacks FrameInv
