CONSTANTS
  Width = 4
  NbFrames = 15
  NbPage = 20
  StackTop = 14
  AddrPages = 24
  StackSizes <- SomeStacks
  Layouts <- SomeLayouts
  Programs <- SomePrograms
  KvmSkipsHlt = FALSE
SPECIFICATION Spec
INVARIANTS TypeOK FaultsOnlyWhenLost RingsApart
PROPERTIES ProgramRuns StepsAsMigration
CHECK_DEADLOCK FALSE
