CONSTANTS
  Programs <- Lab3App
  MaxFd = 9
  NoImage = NoImage
  KvmSkipsHlt = FALSE
SPECIFICATION Spec
INVARIANT GuestNeverShutsDown
