CONSTANTS
  Width = 4
  NbFrames = 15
  NbPage = 20
  StackTop = 14
  AddrPages = 24
  StackSizes <- AnyStack
  Layouts <- AnyLayout
SPECIFICATION MCSpec
INVARIANTS TypeOK NeverBroken IdentityMapped TablesApart LoadedWhereLinked StackIsWhole
           AstrayOutOfStep MapsOnlyStarts
CHECK_DEADLOCK FALSE
