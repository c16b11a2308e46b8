CONSTANTS
  Programs <- Lab2App
  MaxFd = 9
  NoImage = NoImage
  KvmSkipsHlt = FALSE
SPECIFICATION Spec
PROPERTY OnlySaveWritesImage
