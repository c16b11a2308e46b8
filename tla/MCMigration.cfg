CONSTANTS
  Programs <- AllPrograms
  MaxFd = 9
  NoImage = NoImage
  KvmSkipsHlt = FALSE
SPECIFICATION Spec
INVARIANTS TypeOK ImageIsResumable FileIsRunPrefix FileCoversImage DeployedGuestKeepsFile
PROPERTIES VmmEnds ImplementsColdMigration
