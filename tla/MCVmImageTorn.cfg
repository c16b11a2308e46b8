CONSTANTS
  Vmms = {v1, v2}
  Pages = 1
  Values = {a, b}
  Blank = a
  Hole = Hole
  Eof = Eof
  None = None
  Exclusive = FALSE
SPECIFICATION HSpec
PROPERTY ResumesSavedVm
CONSTRAINT SmallSearch
