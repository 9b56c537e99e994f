SPECIFICATION ScanSpec
CONSTANTS
  Pids = {1, 2, 3}
  Inodes = {1, 2, 3}
  Family <- Families
  Address <- Addresses
  Foreign = {2}
  Missing = {"udp6"}
  MaxFd = 2
  MAX_INODE_IN_PID = 2
  Chunk = 2
  CommandLines <- Argvs
  MaxEvents = 2
INVARIANTS
  CreditsHolder
  RowsPerRead
  QuietSocketsListed
  
  DeathNeedsEnding
CHECK_DEADLOCK FALSE
