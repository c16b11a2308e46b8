CONSTANTS
  Width = 128
  NbFrames = 15
  NbPage = 20
  StackTop = 14
  AddrPages = 24
  StackSizes <- LabStack
  Layouts <- LabLayout
SPECIFICATION Spec
INVARIANT SectionsHaveTheirData
CHECK_DEADLOCK FALSE
