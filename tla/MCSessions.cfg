SPECIFICATION SessionsSpec
CONSTANTS
  c1 = c1
  c2 = c2
  c3 = c3
  telnet = telnet
  ssh = ssh
  here = here
  there = there
  None = None
  Conns <- MCConns
  Listeners <- MCListeners
  Addrs <- MCAddrs
  ListenerOf <- MCListenerOf
  AddrOf <- MCAddrOf
  MaxNodes = 1
  MinConnHeadroom = 1
  MaxPerIP = 2
  s1 = s1
  s2 = s2
  Sessions = {s1, s2}
  MaxInbox = 1
  MaxAccount = 2
  MaxMsg = 3
  MaxSent = 3
  MaxList = 1
  MaxWriting = 1
INVARIANTS
  NodesExact
  SlotsExact
  ClosingReachesAll
  StoreClosedLast
  NothingToInherit
  EveryRowSeen
  ThreadsApart
SYMMETRY Symmetry
