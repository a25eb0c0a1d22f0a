SPECIFICATION StoreSpec
CONSTANTS
  Parts = {"boards", "files", "accounts", "email", "limits"}
  MaxAccount = 2
  Slow = {2}
  MaxBoardPosts = 2
  MaxPost = 2
  MaxBoard = 2
  Names = {f, g}
  MaxTics = 2
  MaxFile = 3
  MaxStops = 1
  Ids = {1, 2}
  MaxSessions = 2
  ApproveNew = TRUE
  Users = {1, 2}
  Addrs = {"x", "y"}
  MaxTries = 2
  MaxCodes = 2
  MaxLives = 2
  Actors = {"s", "t"}
  Limit = 2
  Window = 2
  Retention = 2
  MaxTime = 3
  MaxFailed = 1
INVARIANTS
  FilesOnDisk
  NewFilesCount
  NothingSkipped
  ThreadsOnBoard
  SysopRemains
  EmailProved
  DiskMatches
  OverrunBounded
SYMMETRY NamesAlike
CHECK_DEADLOCK FALSE
