SPECIFICATION LiveSpec
CONSTANTS
  Bundles <- MCBundles
  Files <- MCFiles
  Hop <- MCHop
  Parts = {"toss", "queue"}
  Tossers = {"bbs"}
  Names = {"a", "b"}
  MaxEcho = 2
  MaxDrops = 2
  MaxEchoId = 7
  MaxTossFaults = 1
  Letters = {"l1", "l2"}
  OwnMail = {"own"}
  Spoilt = {"torn"}
  Huge = {"long"}
  QueueTries = 2
  MaxRuns = 2
  MaxQueueFaults = 1
INVARIANTS
  NothingLost
  EchoOnce
  EchoNothingSkipped
  QueueKeeps
  RoutedQueued
PROPERTIES
  BundlesLeave
  QueuedIsSent
CHECK_DEADLOCK FALSE
