CONSTANTS
  Arch = "aarch64"
  Nil = Nil
  Page <- MCPage
  Slot <- MCSlot
  Index <- TheIndex
  Image <- MCImage
  Root <- TheRoot
  Pool <- ThePool
  Heap <- TheHeap
  Layout <- TheLayout
  Program <- TheProgram
  TopPage = 263
  ZeroPage = 0
  UninitPa = {"junk"}
  ElfVerdict = {TRUE, FALSE}
SPECIFICATION Spec
INVARIANT HandledOnDemand
