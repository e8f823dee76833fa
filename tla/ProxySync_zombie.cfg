SPECIFICATION SyncSpec
CONSTANTS
  web = web
  ssh = ssh
  Names = {web, ssh}
  Ported = {web}
  Versions = {1}
  Files <- MCFiles
  Stores <- MCStores
  MaxProxies = 0
  ChunkCap = 1
  LocalUI = FALSE
  MaxLogins = 1
  MaxResumes = 1
  MaxBoots = 1
  MaxCmds = 1
  MaxUi = 0
INVARIANT NoHole
CHECK_DEADLOCK FALSE
