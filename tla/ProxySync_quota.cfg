SPECIFICATION SyncSpec
CONSTANTS
  web = web
  ssh = ssh
  Names = {web, ssh}
  Ported = {web}
  Versions = {1}
  Files <- MCFiles
  Stores <- MCStores
  MaxProxies = 1
  ChunkCap = 1
  LocalUI = FALSE
  MaxLogins = 1
  MaxResumes = 1
  MaxBoots = 1
  MaxCmds = 0
  MaxUi = 0
PROPERTY ResumeAdopts
CHECK_DEADLOCK FALSE
