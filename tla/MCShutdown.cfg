SPECIFICATION ShutdownSpec
CONSTANTS
  c1 = c1
  c2 = c2
  telnet = telnet
  ssh = ssh
  here = here
  there = there
  None = None
  Conns <- MCConns
  Listeners <- MCListeners
  Addrs <- MCAddrs
  ListenerOf <- MCListenerOf
  AddrOf <- MCAddrOf
  MaxNodes = 1
  MinConnHeadroom = 1
  MaxPerIP = 1
  NoMessage = NoMessage
  Messages = {"m1", "m2", "m3", "m4"}
  Size = 2
  Retries = 1
PROPERTIES
  ShutdownEnds
  DeadLineFreed
  LoginBounded
  KeepsPromise
  CloseEnds
  QueueMoves
