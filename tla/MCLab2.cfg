CONSTANTS
  Programs <- Lab2Programs
  MaxFd = 9
  NoImage = NoImage
  KvmSkipsHlt = TRUE
SPECIFICATION Lab2Spec
INVARIANT NothingServed
PROPERTIES StaysInLoop HltsForEver
