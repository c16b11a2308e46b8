CONSTANTS
  Vmms = {v1, v2}
  Pages = 2
  Values = {a, b}
  Blank = a
  Hole = Hole
  Eof = Eof
  None = None
  Exclusive = TRUE
SPECIFICATION Spec
INVARIANTS TypeOK DumpIsPrefix RestoreMatchesDisk
PROPERTIES ResumesWholeImage FailedDumpIsRefused NoStaleImage ImplementsColdMigration PipelinesEnd
