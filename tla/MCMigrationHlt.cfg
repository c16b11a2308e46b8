CONSTANTS
  Programs <- Lab3App
  MaxFd = 9
  NoImage = NoImage
  KvmSkipsHlt = TRUE
SPECIFICATION Spec
INVARIANT CallsReturnToSysret
