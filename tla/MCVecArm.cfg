CONSTANTS
  Arch = "arm"
  MaxSwitches = 15
SPECIFICATION Spec
INVARIANTS OwnContext ResultDelivered BootHandover MonitorStack TrapRestoresSaved FrameInv
