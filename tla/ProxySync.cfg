SPECIFICATION SyncSpec
CONSTANTS
  web = web
  ssh = ssh
  Names = {web, ssh}
  Ported = {web}
  Versions = {1, 2}
  Files <- MCFiles
  Stores <- MCStores
  MaxProxies = 0
  ChunkCap = 1
  LocalUI = TRUE
  MaxLogins = 1
  MaxResumes = 1
  MaxBoots = 1
  MaxCmds = 1
  MaxUi = 2
INVARIANTS SyncTypeOK TableAccounted SidesAgree
PROPERTY ReportedSurvives
CHECK_DEADLOCK FALSE
