SPECIFICATION Spec
CONSTANTS
  Bundles <- MCBundles
  Files <- MCFiles
  Hop <- MCHop
  Parts = {"queue"}
  Tossers = {"bbs"}
  Names = {"a"}
  MaxEcho = 2
  MaxDrops = 1
  MaxEchoId = 7
  MaxTossFaults = 0
  Letters = {"l1", "l2"}
  OwnMail = {"own"}
  Spoilt = {"torn"}
  Huge = {"long"}
  QueueTries = 2
  MaxRuns = 2
  MaxQueueFaults = 0
INVARIANT
  EverythingQueued
CHECK_DEADLOCK FALSE
