---- MODULE Lines ----
(***************************************************************************)
(* The lines of the BBS: what happens to one connection between Accept and *)
(* the end of its goroutine, and how the server goes down.                 *)
(*                                                                         *)
(* Sources: internal/bbs/server.go (acceptLoop, handleTelnet, serveCaller),*)
(* ssh.go (handleSSH), connlimit.go, node.go (acquire, release, kick,      *)
(* closeAll, hangUpAll) and cmd/boar/main.go (run, serveAll).              *)
(*                                                                         *)
(* A connection is an element of Conns and is used once, so it also stands *)
(* for the *node and the Terminal the code holds pointers to.  What a      *)
(* caller does while signed in is one state, "online"; accounts are in     *)
(* module Callers.                                                         *)
(***************************************************************************)
EXTENDS Integers, FiniteSets

CONSTANTS
  Conns,            \* connections that will ever be made
  Listeners,        \* the accept loops (telnet, SSH)
  Addrs,            \* rate-limit keys of addresses (limitKey)
  ListenerOf,       \* which listener a connection comes in on
  AddrOf,           \* which address key it comes from
  MaxNodes,         \* Config.MaxNodes
  MinConnHeadroom,  \* minConnHeadroom
  MaxPerIP,         \* maxConnsPerIP
  None              \* an unused entry of the node table

ASSUME LinesConstants ==
  /\ IsFiniteSet(Conns)
  /\ ListenerOf \in [Conns -> Listeners]
  /\ AddrOf \in [Conns -> Addrs]
  /\ MaxNodes \in Nat \ {0}
  /\ MinConnHeadroom \in Nat
  /\ MaxPerIP \in Nat \ {0}
  /\ None \notin Conns

VARIABLES
  pc,        \* where the connection's goroutine is
  up,        \* the transport is open
  loggedIn,  \* session.loggedIn
  timer,     \* the login timer: off, armed, or past its check and cutting
  nodes,     \* nodeTable.nodes
  closing,   \* nodeTable.closing
  total,     \* connLimiter.total
  perIP,     \* connLimiter.perIP
  wg,        \* Server.wg
  hangups,   \* nodes some hangUpNode is about to hang up
  cancelled, \* the context is done
  after,     \* the context.AfterFunc of each accept loop
  loop,      \* each accept loop
  storeOpen  \* the database has not been closed yet

vars == <<pc, up, loggedIn, timer, nodes, closing, total, perIP, wg, hangups,
          cancelled, after, loop, storeOpen>>

\* Groups of variables an action leaves alone together.
counters == <<total, perIP, wg>>
server   == <<cancelled, after, loop, storeOpen>>
table    == <<nodes, closing>>

NodeIds  == 1..MaxNodes
MaxTotal == MaxNodes + (IF MaxNodes > MinConnHeadroom THEN MaxNodes ELSE MinConnHeadroom)

\* Stages of a connection.
InTable  == {"login", "online", "door", "leaving"}
Counted  == {"setup", "ready", "closing"} \union InTable
Running  == Counted \union {"freed"}
Stages   == Running \union {"away", "accepted", "refused", "done"}

Holding(S)  == {c \in Conns : pc[c] \in S}
HoldingAt(S, a) == {c \in Conns : pc[c] \in S /\ AddrOf[c] = a}
Holders     == {nodes[i] : i \in NodeIds} \ {None}
FreeNodes   == {i \in NodeIds : nodes[i] = None}

Init ==
  /\ pc = [c \in Conns |-> "away"]
  /\ up = [c \in Conns |-> FALSE]
  /\ loggedIn = [c \in Conns |-> FALSE]
  /\ timer = [c \in Conns |-> "off"]
  /\ nodes = [i \in NodeIds |-> None]
  /\ closing = FALSE
  /\ total = 0
  /\ perIP = [a \in Addrs |-> 0]
  /\ wg = 0
  /\ hangups = {}
  /\ cancelled = FALSE
  /\ after = [l \in Listeners |-> "armed"]
  /\ loop = [l \in Listeners |-> "accept"]
  /\ storeOpen = TRUE

-----------------------------------------------------------------------------
(* The accept loop.                                                        *)

\* The connection a loop has accepted and not dealt with yet.
InHand(l) == {c \in Conns : pc[c] = "accepted" /\ ListenerOf[c] = l}

\* Mutant: one connection too many.
RoomOffByOne(c) == total <= MaxTotal /\ perIP[AddrOf[c]] < MaxPerIP

\* connLimiter.acquire: there is room in total and for this address.
Room(c) == total < MaxTotal /\ perIP[AddrOf[c]] < MaxPerIP

\* connLimiter.acquire's increments and wg.Add.
CountUp(c) ==
  /\ total' = total + 1
  /\ perIP' = [perIP EXCEPT ![AddrOf[c]] = @ + 1]
  /\ wg' = wg + 1

\* ln.Accept returns a connection; the loop takes one at a time.
AcceptReturns(c) ==
  /\ pc[c] = "away"
  /\ loop[ListenerOf[c]] = "accept"
  /\ after[ListenerOf[c]] = "armed"      \* the listener is still open
  /\ InHand(ListenerOf[c]) = {}
  /\ pc' = [pc EXCEPT ![c] = "accepted"]
  /\ UNCHANGED <<up, loggedIn, timer, table, counters, hangups, server>>

\* The rest of the loop's body, which a shutdown may overtake: reserve a slot,
\* wg.Add and start the goroutine, or close the connection at once.
Accept(c) ==
  /\ pc[c] = "accepted"
  /\ loop[ListenerOf[c]] = "accept"
  /\ \/ /\ Room(c)
        /\ pc' = [pc EXCEPT ![c] = "setup"]
        /\ up' = [up EXCEPT ![c] = TRUE]
        /\ CountUp(c)
     \/ /\ ~Room(c)
        /\ pc' = [pc EXCEPT ![c] = "refused"]
        /\ UNCHANGED <<up, counters>>
  /\ UNCHANGED <<loggedIn, timer, table, hangups, server>>

\* Mutant: a handshake that stalls is never given up.
SetUpNoDeadline(c) ==
  /\ pc[c] = "setup"
  /\ up[c]
  /\ pc' = [pc EXCEPT ![c] = "ready"]
  /\ UNCHANGED <<up, loggedIn, timer, table, counters, hangups, server>>

\* Telnet negotiation, or the SSH handshake and the wait for a shell. Both
\* have a deadline; either can fail, and a failure goes straight to the defers.
SetUp(c) ==
  /\ pc[c] = "setup"
  /\ \/ up[c] /\ pc' = [pc EXCEPT ![c] = "ready"]
     \/ pc' = [pc EXCEPT ![c] = "closing"]
  /\ UNCHANGED <<up, loggedIn, timer, table, counters, hangups, server>>

\* nodeTable.acquire hands out the lowest free number.
LowestFree(i) == i \in FreeNodes /\ \A j \in FreeNodes : i <= j

\* Mutant: a node is handed out although the table is closing.
AcquireRefusedWhenFull == FreeNodes = {}

\* errShuttingDown or errNodesBusy.
AcquireRefused == closing \/ FreeNodes = {}

\* serveCaller up to sess.run: too many failed logins, no node, or a session
\* with its login timer running.
ServeCaller(c) ==
  /\ pc[c] = "ready"
  /\ \/ /\ pc' = [pc EXCEPT ![c] = "closing"]       \* loginFailures.blocked
        /\ UNCHANGED <<timer, nodes>>
     \/ /\ AcquireRefused
        /\ pc' = [pc EXCEPT ![c] = "closing"]
        /\ UNCHANGED <<timer, nodes>>
     \/ /\ ~AcquireRefused
        /\ \E i \in NodeIds : LowestFree(i) /\ nodes' = [nodes EXCEPT ![i] = c]
        /\ timer' = [timer EXCEPT ![c] = "armed"]
        /\ pc' = [pc EXCEPT ![c] = "login"]
  /\ UNCHANGED <<up, loggedIn, closing, counters, hangups, server>>

-----------------------------------------------------------------------------
(* The session.                                                            *)

\* session.run: the caller is authenticated or registered.
LogIn(c) ==
  /\ pc[c] = "login"
  /\ loggedIn' = [loggedIn EXCEPT ![c] = TRUE]
  /\ pc' = [pc EXCEPT ![c] = "online"]
  /\ UNCHANGED <<up, timer, table, counters, hangups, server>>

\* session.run returns: login gave up, the caller logged off, an error, or the
\* idle deadline passed.
EndSession(c) ==
  /\ pc[c] \in {"login", "online"}
  /\ pc' = [pc EXCEPT ![c] = "leaving"]
  /\ UNCHANGED <<up, loggedIn, timer, table, counters, hangups, server>>

\* bridgeDoor waits for the end of the door's output, after the program has
\* ended or has been killed because of the limit or a hang-up. That is no read
\* of the caller's line: a process the program left behind can hold it.
DoorWaits(c) ==
  /\ pc[c] = "online"
  /\ pc' = [pc EXCEPT ![c] = "door"]
  /\ UNCHANGED <<up, loggedIn, timer, table, counters, hangups, server>>

\* The output has ended. On a closed transport the door's pause, or the error
\* that ended the bridge, ends the session.
DoorOver(c) ==
  /\ pc[c] = "door"
  /\ pc' = [pc EXCEPT ![c] = IF up[c] THEN "online" ELSE "leaving"]
  /\ UNCHANGED <<up, loggedIn, timer, table, counters, hangups, server>>

\* The caller's side of the connection goes away.
Drop(c) ==
  /\ pc[c] \in Counted
  /\ up[c]
  /\ up' = [up EXCEPT ![c] = FALSE]
  /\ UNCHANGED <<pc, loggedIn, timer, table, counters, hangups, server>>

\* Mutant: the check the wrong way round.
TimerFiresInverted(c) ==
  /\ timer[c] = "armed"
  /\ timer' = [timer EXCEPT ![c] = IF loggedIn[c] THEN "cutting" ELSE "off"]
  /\ UNCHANGED <<pc, up, loggedIn, table, counters, hangups, server>>

\* The login timer fires and reads loggedIn; closing the terminal is a later step.
TimerFires(c) ==
  /\ timer[c] = "armed"
  /\ timer' = [timer EXCEPT ![c] = IF loggedIn[c] THEN "off" ELSE "cutting"]
  /\ UNCHANGED <<pc, up, loggedIn, table, counters, hangups, server>>

TimerCuts(c) ==
  /\ timer[c] = "cutting"
  /\ timer' = [timer EXCEPT ![c] = "off"]
  /\ up' = [up EXCEPT ![c] = FALSE]
  /\ UNCHANGED <<pc, loggedIn, table, counters, hangups, server>>

\* Mutant: the number stays taken.
NodesStill(c) == nodes

\* nodeTable.release deletes the entry of the caller's own number, n.id, which
\* never changes: the entry ServeCaller filled with c, and the only one with c.
NodesWithout(c) == [i \in NodeIds |-> IF nodes[i] = c THEN None ELSE nodes[i]]

\* serveCaller's defers: stop the timer and the pump, release the node. The
\* session object is gone with them; a timer already past its check can only
\* close the terminal that CloseLine is about to close.
Unwind(c) ==
  /\ pc[c] = "leaving"
  /\ timer' = [timer EXCEPT ![c] = "off"]
  /\ loggedIn' = [loggedIn EXCEPT ![c] = FALSE]
  /\ nodes' = NodesWithout(c)
  /\ pc' = [pc EXCEPT ![c] = "closing"]
  /\ UNCHANGED <<up, closing, counters, hangups, server>>

\* handleTelnet's and handleSSH's defers close the transport, then the
\* goroutine's deferred connLimiter.release runs.
CloseLine(c) ==
  /\ pc[c] = "closing"
  /\ up' = [up EXCEPT ![c] = FALSE]
  /\ total' = total - 1
  /\ perIP' = [perIP EXCEPT ![AddrOf[c]] = @ - 1]
  /\ pc' = [pc EXCEPT ![c] = "freed"]
  /\ UNCHANGED <<loggedIn, timer, table, wg, hangups, server>>

\* wg.Done, its last.
Done(c) ==
  /\ pc[c] = "freed"
  /\ wg' = wg - 1
  /\ pc' = [pc EXCEPT ![c] = "done"]
  /\ UNCHANGED <<up, loggedIn, timer, table, total, perIP, hangups, server>>

-----------------------------------------------------------------------------
(* Hanging up on callers, and going down.                                  *)

\* nodeTable.kick looks the number up under the lock and hangs up outside it.
Kick(i) ==
  /\ nodes[i] # None
  /\ hangups' = hangups \union {nodes[i]}
  /\ UNCHANGED <<pc, up, loggedIn, timer, table, counters, server>>

\* hangUpNode: a message, then Close.
HangUpNode(c) ==
  /\ c \in hangups
  /\ hangups' = hangups \ {c}
  /\ up' = [up EXCEPT ![c] = FALSE]
  /\ UNCHANGED <<pc, loggedIn, timer, table, counters, server>>

\* A signal arrives, or another server of serveAll fails.
Cancel ==
  /\ ~cancelled
  /\ cancelled' = TRUE
  /\ UNCHANGED <<pc, up, loggedIn, timer, table, counters, hangups, after, loop, storeOpen>>

\* The AfterFunc closes its listener first, ...
CloseListener(l) ==
  /\ cancelled
  /\ after[l] = "armed"
  /\ after' = [after EXCEPT ![l] = "closeAll"]
  /\ UNCHANGED <<pc, up, loggedIn, timer, table, counters, hangups, cancelled, loop, storeOpen>>

\* ... then nodeTable.closeAll refuses new nodes and collects the old ones.
CloseAll(l) ==
  /\ after[l] = "closeAll"
  /\ after' = [after EXCEPT ![l] = "done"]
  /\ closing' = TRUE
  /\ hangups' = hangups \union Holders
  /\ UNCHANGED <<pc, up, loggedIn, timer, nodes, counters, cancelled, loop, storeOpen>>

\* Accept fails after the context is done: any error while it is done, and
\* certainly the closed listener. Errors before that are retried.
AcceptFails(l) ==
  /\ loop[l] = "accept"
  /\ InHand(l) = {}
  /\ cancelled
  /\ loop' = [loop EXCEPT ![l] = "wait"]
  /\ UNCHANGED <<pc, up, loggedIn, timer, table, counters, hangups, cancelled, after, storeOpen>>

\* Mutant: the loop does not wait for sessions.
WaitSkipped == TRUE

\* wg.Wait may return.
WaitOver == wg = 0

\* wg.Wait returns, and with it the accept loop.
LoopReturns(l) ==
  /\ loop[l] = "wait"
  /\ WaitOver
  /\ loop' = [loop EXCEPT ![l] = "returned"]
  /\ UNCHANGED <<pc, up, loggedIn, timer, table, counters, hangups, cancelled, after, storeOpen>>

\* serveAll has waited for every server; run's deferred st.Close.
CloseStore ==
  /\ \A l \in Listeners : loop[l] = "returned"
  /\ storeOpen
  /\ storeOpen' = FALSE
  /\ UNCHANGED <<pc, up, loggedIn, timer, table, counters, hangups, cancelled, after, loop>>

\* The process has exited.
Exited == ~storeOpen /\ UNCHANGED vars

ConnStep(c) ==
  \/ AcceptReturns(c) \/ Accept(c) \/ SetUp(c) \/ ServeCaller(c)
  \/ LogIn(c) \/ EndSession(c) \/ DoorWaits(c) \/ DoorOver(c)
  \/ Drop(c) \/ TimerFires(c) \/ TimerCuts(c)
  \/ Unwind(c) \/ CloseLine(c) \/ Done(c) \/ HangUpNode(c)

LoopStep(l) ==
  CloseListener(l) \/ CloseAll(l) \/ AcceptFails(l) \/ LoopReturns(l)

Next ==
  \/ \E c \in Conns : ConnStep(c)
  \/ \E i \in NodeIds : Kick(i)
  \/ \E l \in Listeners : LoopStep(l)
  \/ Cancel
  \/ CloseStore
  \/ Exited

\* A read on a closed transport fails, so a session that reads returns.
ReadFails(c) == EndSession(c) /\ ~up[c]

\* The goroutines keep running, deadlines and timers fire, reads on a closed
\* transport fail. Nothing makes a caller log in, log off or drop, and nothing
\* makes a process a door left behind close its output.
Fairness ==
  /\ \A c \in Conns :
       /\ WF_vars(Accept(c)) /\ WF_vars(SetUp(c)) /\ WF_vars(ServeCaller(c)) /\ WF_vars(ReadFails(c))
       /\ WF_vars(TimerFires(c)) /\ WF_vars(TimerCuts(c))
       /\ WF_vars(Unwind(c)) /\ WF_vars(CloseLine(c)) /\ WF_vars(Done(c))
       /\ WF_vars(HangUpNode(c))
  /\ \A l \in Listeners :
       /\ WF_vars(CloseListener(l)) /\ WF_vars(CloseAll(l))
       /\ WF_vars(AcceptFails(l) /\ after[l] # "armed") /\ WF_vars(LoopReturns(l))
  /\ WF_vars(CloseStore)

Spec     == Init /\ [][Next]_vars
LiveSpec == Spec /\ Fairness

-----------------------------------------------------------------------------
(* Properties.                                                             *)

\* Every variable stays in its range; the counters never go negative.
TypeOK ==
  /\ pc \in [Conns -> Stages]
  /\ up \in [Conns -> BOOLEAN]
  /\ loggedIn \in [Conns -> BOOLEAN]
  /\ timer \in [Conns -> {"off", "armed", "cutting"}]
  /\ nodes \in [NodeIds -> Conns \union {None}]
  /\ closing \in BOOLEAN
  /\ total \in Nat
  /\ perIP \in [Addrs -> Nat]
  /\ wg \in Nat
  /\ hangups \subseteq Conns
  /\ cancelled \in BOOLEAN
  /\ after \in [Listeners -> {"armed", "closeAll", "done"}]
  /\ loop \in [Listeners -> {"accept", "wait", "returned"}]
  /\ storeOpen \in BOOLEAN

\* The node table holds exactly the callers between nodes.acquire and
\* nodes.release, each of them once: no number leaks, none is shared.
NodesExact ==
  /\ Holders = Holding(InTable)
  /\ \A i, j \in NodeIds : nodes[i] = nodes[j] /\ nodes[i] # None => i = j

\* connLimiter's counters and the wait group count exactly the connections that
\* took a slot and have not given it back, and the caps hold at every moment.
SlotsExact ==
  /\ total = Cardinality(Holding(Counted))
  /\ wg = Cardinality(Holding(Running))
  /\ \A a \in Addrs : perIP[a] = Cardinality(HoldingAt(Counted, a))
  /\ total <= MaxTotal
  /\ \A a \in Addrs : perIP[a] <= MaxPerIP

\* Once closeAll has run, every caller still on a node is hung up or is about
\* to be: nobody slipped in between the flag and the sweep (node.go:191).
ClosingReachesAll ==
  closing => \A c \in Holders : ~up[c] \/ c \in hangups

\* The database is closed only after every connection's goroutine is over,
\* although the accept loops stop at different times and share one wait group.
StoreClosedLast ==
  ~storeOpen => \A c \in Conns : pc[c] \notin Running

\* A session does not wait for a door's output for ever.
DoorEnds(c) == []<>(pc[c] # "door")

\* Shutdown ends: after the context is done the database is closed, unless some
\* session waits for ever for the output of a door (doors.go:166), on which
\* hanging up has no effect.
ShutdownEnds == (\A c \in Conns : DoorEnds(c)) => (cancelled ~> ~storeOpen)

\* A closed transport frees its node and its slot in the end, unless its own
\* session waits for ever in a door, whatever the other sessions do.
DeadLineFreed ==
  \A c \in Conns : DoorEnds(c) => ((pc[c] \in Counted /\ ~up[c]) ~> (pc[c] = "done"))

\* A caller who does not log in cannot keep a node: the login timer sees to it
\* (server.go:34), however long they keep typing.
LoginBounded == \A c \in Conns : (pc[c] = "login") ~> (pc[c] # "login")
====
