SPECIFICATION OnlineSpec
CONSTANTS
  Callers = {"a", "b"}
  Rooms = {"main", "den"}
  Main = "main"
  Backlog = 2
  MaxLines = 5
  Nodes = {"a", "b"}
  MaxPending = 1
  MaxNotices = 3
INVARIANTS
  ChatComplete
  NoticeWakes
  DoorForOne
PROPERTIES
  ChatShows
  DoorEnds
CHECK_DEADLOCK FALSE
