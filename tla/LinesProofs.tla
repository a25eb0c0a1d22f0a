---- MODULE LinesProofs ----
(***************************************************************************)
(* Lines keeps its invariants for every number of connections, listeners,  *)
(* nodes and addresses.                                                    *)
(***************************************************************************)
EXTENDS Lines, FiniteSetTheorems, TLAPS

-----------------------------------------------------------------------------
(* Counting connections.                                                   *)

\* Which stages count.
LEMMA StageFacts ==
  /\ "away" \notin Running /\ "accepted" \notin Running /\ "refused" \notin Running /\ "done" \notin Running
  /\ "freed" \in Running /\ "freed" \notin Counted
  /\ \A x \in Counted : x \in Running
  /\ \A x \in {"setup", "ready", "closing"} : x \in Counted /\ x \notin InTable
  /\ \A x \in {"login", "online", "door", "leaving"} : x \in Counted /\ x \in InTable
  /\ \A x \in InTable : x \in Counted
  /\ \A x \in Running \union {"away", "accepted", "refused", "done"} : x \in Stages
BY DEF Stages, Running, Counted, InTable

\* Both are sets of connections.
LEMMA HoldingSub ==
  ASSUME NEW S
  PROVE  /\ Holding(S) \subseteq Conns /\ Holding(S)' \subseteq Conns
         /\ \A a \in Addrs : HoldingAt(S, a) \subseteq Conns /\ HoldingAt(S, a)' \subseteq Conns
BY DEF Holding, HoldingAt

\* Any set of connections is finite, and has a size.
LEMMA ConnsFinite ==
  ASSUME NEW T, T \subseteq Conns
  PROVE  IsFiniteSet(T) /\ Cardinality(T) \in Nat
BY LinesConstants, FS_Subset, FS_CardinalityType

\* Adding one connection adds one, removing one takes one away.
LEMMA CountMoves ==
  ASSUME NEW T, T \subseteq Conns, NEW c
  PROVE  /\ c \notin T => Cardinality(T \union {c}) = Cardinality(T) + 1
         /\ c \in T => Cardinality(T \ {c}) = Cardinality(T) - 1
BY ConnsFinite, FS_AddElement, FS_RemoveElement

-----------------------------------------------------------------------------
(* The inductive invariant.                                                *)

\* The counting part of SlotsExact.
Counts ==
  /\ total = Cardinality(Holding(Counted))
  /\ wg = Cardinality(Holding(Running))
  /\ \A a \in Addrs : perIP[a] = Cardinality(HoldingAt(Counted, a))

\* The caps, which hold because acquire checks before it counts.
Caps ==
  /\ total <= MaxTotal
  /\ \A a \in Addrs : perIP[a] <= MaxPerIP

\* The store closes when every loop has returned, and the last loop to return
\* saw the wait group at zero: nothing can be accepted after that.
LoopsOver ==
  /\ ~storeOpen => \A l \in Listeners : loop[l] = "returned"
  /\ (\A l \in Listeners : loop[l] = "returned") => wg = 0

IInv == TypeOK /\ NodesExact /\ Counts /\ Caps /\ ClosingReachesAll /\ LoopsOver

\* It holds at the start.
LEMMA InitIInv == Init => IInv
<1> SUFFICES ASSUME Init PROVE IInv
  OBVIOUS
<1>1. TypeOK
  BY LinesConstants DEF Init, TypeOK, Stages, Running, Counted, InTable
<1>2. NodesExact
  BY LinesConstants DEF Init, NodesExact, Holders, Holding, InTable, NodeIds
<1>3. Holding(Counted) = {} /\ Holding(Running) = {} /\ \A a \in Addrs : HoldingAt(Counted, a) = {}
  BY DEF Init, Holding, HoldingAt, Counted, Running, InTable
<1>4. Counts
  BY <1>3, FS_EmptySet DEF Init, Counts
<1>5. Caps /\ LoopsOver
  BY LinesConstants DEF Init, Caps, LoopsOver, MaxTotal
<1>6. ClosingReachesAll
  BY DEF Init, ClosingReachesAll
<1> QED
  BY <1>1, <1>2, <1>4, <1>5, <1>6 DEF IInv

-----------------------------------------------------------------------------
(* Every step keeps it.                                                    *)

\* A step that moves no connection between the counted stages and leaves the
\* counters alone keeps the counts and the caps.
LEMMA CountsKept ==
  ASSUME Counts, Caps, UNCHANGED counters,
         Holding(Counted)' = Holding(Counted), Holding(Running)' = Holding(Running),
         \A a \in Addrs : HoldingAt(Counted, a)' = HoldingAt(Counted, a)
  PROVE  Counts' /\ Caps'
BY DEF Counts, Caps, counters

\* Moving a connection between two stages on the same side of the counters.
LEMMA SameSide ==
  ASSUME TypeOK, NEW c \in Conns, NEW x, pc' = [pc EXCEPT ![c] = x],
         pc[c] \in Counted <=> x \in Counted, pc[c] \in Running <=> x \in Running
  PROVE  /\ Holding(Counted)' = Holding(Counted)
         /\ Holding(Running)' = Holding(Running)
         /\ \A a \in Addrs : HoldingAt(Counted, a)' = HoldingAt(Counted, a)
BY DEF TypeOK, Holding, HoldingAt

\* A connection that is in none of the in-table stages before or after is not in
\* the table; nor does a change among those stages matter to it.
LEMMA TableKept ==
  ASSUME TypeOK, NodesExact, UNCHANGED nodes, NEW c \in Conns, NEW x,
         pc' = [pc EXCEPT ![c] = x], pc[c] \in InTable <=> x \in InTable
  PROVE  NodesExact' /\ Holders' = Holders
<1>1. Holding(InTable)' = Holding(InTable)
  BY DEF TypeOK, Holding
<1>2. Holders' = Holders
  BY DEF Holders
<1> QED
  BY <1>1, <1>2 DEF NodesExact

\* The accept loop holds a connection nothing has counted yet.
LEMMA AcceptReturnsKeeps ==
  ASSUME IInv, NEW c \in Conns, AcceptReturns(c)
  PROVE  IInv'
<1> USE DEF IInv
<1>1. TypeOK'
  BY StageFacts DEF AcceptReturns, TypeOK, table, server, counters
<1>2. NodesExact' /\ Holders' = Holders
  BY TableKept, StageFacts DEF AcceptReturns, table
<1>3. ClosingReachesAll' /\ LoopsOver'
  BY <1>2 DEF AcceptReturns, ClosingReachesAll, LoopsOver, table, server, counters
<1> QED
  BY <1>1, <1>2, <1>3, SameSide, CountsKept, StageFacts DEF AcceptReturns

\* The accept loop takes a connection, or refuses it.
LEMMA AcceptKeeps ==
  ASSUME IInv, NEW c \in Conns, Accept(c)
  PROVE  IInv'
<1> USE DEF IInv
<1>1. TypeOK'
  <2>1. CASE Room(c)
    <3>1. total' \in Nat /\ wg' \in Nat /\ perIP' \in [Addrs -> Nat]
      BY <2>1, LinesConstants DEF Accept, CountUp, TypeOK
    <3>2. pc' \in [Conns -> Stages]
      BY <2>1, StageFacts DEF Accept, CountUp, TypeOK
    <3>3. up' \in [Conns -> BOOLEAN]
      BY <2>1 DEF Accept, CountUp, TypeOK
    <3> QED
      BY <3>1, <3>2, <3>3 DEF Accept, TypeOK, table, server
  <2>2. CASE ~Room(c)
    BY <2>2, StageFacts DEF Accept, TypeOK, table, server, counters
  <2> QED
    BY <2>1, <2>2
<1>2. NodesExact' /\ Holders' = Holders
  BY TableKept, StageFacts DEF Accept, table
<1>3. ClosingReachesAll'
  <2>1. c \notin Holders
    BY DEF NodesExact, Accept, Holding, InTable
  <2>2. \A d \in Conns \ {c} : up'[d] = up[d]
    BY DEF Accept, TypeOK, counters
  <2>3. Holders \subseteq Conns
    BY DEF NodesExact, Holding
  <2> QED
    BY <1>2, <2>1, <2>2, <2>3 DEF ClosingReachesAll, Accept, table
<1>4. LoopsOver'
  BY LinesConstants DEF LoopsOver, Accept, server
<1>5. CASE ~Room(c)
  BY <1>1, <1>2, <1>3, <1>4, <1>5, SameSide, CountsKept, StageFacts DEF Accept
<1>6. CASE Room(c)
  <2>1. pc' = [pc EXCEPT ![c] = "setup"] /\ pc[c] = "accepted"
    BY <1>6 DEF Accept
  <2>2. /\ c \notin Holding(Counted) /\ Holding(Counted)' = Holding(Counted) \union {c}
        /\ c \notin Holding(Running) /\ Holding(Running)' = Holding(Running) \union {c}
    BY <2>1, StageFacts DEF TypeOK, Holding
  <2>3. Cardinality(Holding(Counted)') = total + 1 /\ Cardinality(Holding(Running)') = wg + 1
    BY <2>2, CountMoves, HoldingSub DEF Counts
  <2>4. ASSUME NEW a \in Addrs
        PROVE  perIP'[a] = Cardinality(HoldingAt(Counted, a)')
    <3>1. CASE a # AddrOf[c]
      <4>1. HoldingAt(Counted, a)' = HoldingAt(Counted, a)
        BY <2>1, <3>1 DEF TypeOK, HoldingAt
      <4> QED
        BY <1>6, <3>1, <4>1 DEF Accept, CountUp, TypeOK, Counts
    <3>2. CASE a = AddrOf[c]
      <4>1. c \notin HoldingAt(Counted, a) /\ HoldingAt(Counted, a)' = HoldingAt(Counted, a) \union {c}
        BY <2>1, <3>2, StageFacts DEF TypeOK, HoldingAt
      <4>2. Cardinality(HoldingAt(Counted, a)') = perIP[a] + 1
        BY <4>1, CountMoves, HoldingSub DEF Counts
      <4> QED
        BY <1>6, <3>2, <4>2 DEF Accept, CountUp, TypeOK
    <3> QED
      BY <3>1, <3>2
  <2>5. Counts'
    BY <1>6, <2>3, <2>4 DEF Counts, Accept, CountUp
  <2>6. Caps'
    BY <1>6, LinesConstants DEF Caps, Accept, CountUp, Room, TypeOK, MaxTotal
  <2> QED
    BY <1>1, <1>2, <1>3, <1>4, <2>5, <2>6
<1> QED
  BY <1>5, <1>6

\* The connection's slot is given back.
LEMMA CloseLineKeeps ==
  ASSUME IInv, NEW c \in Conns, CloseLine(c)
  PROVE  IInv'
<1> USE DEF IInv
<1>1. pc' = [pc EXCEPT ![c] = "freed"] /\ pc[c] = "closing"
  BY DEF CloseLine
<1>2. c \in Holding(Counted) /\ Holding(Counted)' = Holding(Counted) \ {c}
  BY <1>1, StageFacts DEF TypeOK, Holding
<1>3. Cardinality(Holding(Counted)') = total - 1
  BY <1>2, CountMoves, HoldingSub DEF Counts
<1>4. Holding(Running)' = Holding(Running)
  BY <1>1, StageFacts DEF TypeOK, Holding
<1>5. ASSUME NEW a \in Addrs
      PROVE  perIP'[a] = Cardinality(HoldingAt(Counted, a)')
  <2>1. CASE a # AddrOf[c]
    <3>1. HoldingAt(Counted, a)' = HoldingAt(Counted, a)
      BY <1>1, <2>1 DEF TypeOK, HoldingAt
    <3> QED
      BY <2>1, <3>1 DEF CloseLine, TypeOK, Counts
  <2>2. CASE a = AddrOf[c]
    <3>1. c \in HoldingAt(Counted, a) /\ HoldingAt(Counted, a)' = HoldingAt(Counted, a) \ {c}
      BY <1>1, <2>2, StageFacts DEF TypeOK, HoldingAt
    <3>2. Cardinality(HoldingAt(Counted, a)') = perIP[a] - 1
      BY <3>1, CountMoves, HoldingSub DEF Counts
    <3> QED
      BY <2>2, <3>2 DEF CloseLine, TypeOK
  <2> QED
    BY <2>1, <2>2
<1>6. Counts'
  BY <1>3, <1>4, <1>5 DEF Counts, CloseLine
<1>7. TypeOK'
  <2>1. total' \in Nat
    BY <1>6, ConnsFinite, HoldingSub DEF Counts
  <2>2. perIP' \in [Addrs -> Nat]
    <3>1. \A a \in Addrs : perIP'[a] \in Nat
      BY <1>6, ConnsFinite, HoldingSub DEF Counts
    <3> QED
      BY <3>1, LinesConstants DEF CloseLine, TypeOK
  <2> QED
    BY <2>1, <2>2, StageFacts DEF CloseLine, TypeOK, table, server
<1>8. Caps'
  BY LinesConstants DEF Caps, CloseLine, TypeOK, MaxTotal
<1>9. NodesExact' /\ Holders' = Holders
  BY <1>1, TableKept, StageFacts DEF CloseLine, table
<1>10. ClosingReachesAll' /\ LoopsOver'
  BY <1>9 DEF ClosingReachesAll, LoopsOver, CloseLine, table, server, TypeOK
<1> QED
  BY <1>6, <1>7, <1>8, <1>9, <1>10

\* The goroutine is over.
LEMMA DoneKeeps ==
  ASSUME IInv, NEW c \in Conns, Done(c)
  PROVE  IInv'
<1> USE DEF IInv
<1>1. pc' = [pc EXCEPT ![c] = "done"] /\ pc[c] = "freed"
  BY DEF Done
<1>2. c \in Holding(Running) /\ Holding(Running)' = Holding(Running) \ {c}
  BY <1>1, StageFacts DEF TypeOK, Holding
<1>3. Cardinality(Holding(Running)') = wg - 1
  BY <1>2, CountMoves, HoldingSub DEF Counts
<1>4. /\ Holding(Counted)' = Holding(Counted)
      /\ \A a \in Addrs : HoldingAt(Counted, a)' = HoldingAt(Counted, a)
  BY <1>1, StageFacts DEF TypeOK, Holding, HoldingAt
<1>5. Counts' /\ Caps'
  BY <1>3, <1>4 DEF Counts, Caps, Done
<1>6. wg' \in Nat
  BY <1>5, ConnsFinite, HoldingSub DEF Counts
<1>7. TypeOK'
  BY <1>6, StageFacts DEF Done, TypeOK, table, server
<1>8. NodesExact' /\ Holders' = Holders
  BY <1>1, TableKept, StageFacts DEF Done, table
<1>9. LoopsOver'
  BY <1>6 DEF LoopsOver, Done, server, TypeOK
<1>10. ClosingReachesAll'
  BY <1>8 DEF ClosingReachesAll, Done, table
<1> QED
  BY <1>5, <1>7, <1>8, <1>9, <1>10

\* Negotiation or handshake: only the stage changes, on the counted side.
LEMMA SetUpKeeps ==
  ASSUME IInv, NEW c \in Conns, SetUp(c)
  PROVE  IInv'
<1> USE DEF IInv
<1>1. PICK x \in {"ready", "closing"} : pc' = [pc EXCEPT ![c] = x]
  BY DEF SetUp
<1>2. TypeOK'
  BY <1>1, StageFacts DEF SetUp, TypeOK, table, server, counters
<1>3. NodesExact' /\ Holders' = Holders
  BY <1>1, TableKept, StageFacts DEF SetUp, table
<1>4. Counts' /\ Caps'
  BY <1>1, SameSide, CountsKept, StageFacts DEF SetUp
<1>5. ClosingReachesAll' /\ LoopsOver'
  BY <1>3 DEF SetUp, ClosingReachesAll, LoopsOver, table, server, counters
<1> QED
  BY <1>2, <1>3, <1>4, <1>5

\* The session gets the lowest free node, or none.
LEMMA ServeCallerKeeps ==
  ASSUME IInv, NEW c \in Conns, ServeCaller(c)
  PROVE  IInv'
<1> USE DEF IInv
<1>1. LoopsOver'
  BY DEF ServeCaller, LoopsOver, server, counters
<1>2. CASE UNCHANGED <<timer, nodes>> /\ pc' = [pc EXCEPT ![c] = "closing"]
  <2>1. TypeOK'
    BY <1>2, StageFacts DEF ServeCaller, TypeOK, server, counters
  <2>2. NodesExact' /\ Holders' = Holders
    BY <1>2, TableKept, StageFacts DEF ServeCaller
  <2>3. Counts' /\ Caps'
    BY <1>2, SameSide, CountsKept, StageFacts DEF ServeCaller
  <2>4. ClosingReachesAll'
    BY <2>2 DEF ServeCaller, ClosingReachesAll
  <2> QED
    BY <1>1, <2>1, <2>2, <2>3, <2>4
<1>3. ASSUME NEW i \in NodeIds, LowestFree(i), ~AcquireRefused,
             nodes' = [nodes EXCEPT ![i] = c],
             timer' = [timer EXCEPT ![c] = "armed"],
             pc' = [pc EXCEPT ![c] = "login"]
      PROVE  IInv'
  <2>2. nodes[i] = None
    BY <1>3 DEF LowestFree, FreeNodes
  <2>3. TypeOK'
    <3>1. nodes' \in [NodeIds -> Conns \union {None}]
      BY <1>3, <2>2 DEF TypeOK
    <3>2. pc' \in [Conns -> Stages] /\ timer' \in [Conns -> {"off", "armed", "cutting"}]
      BY <1>3, StageFacts DEF TypeOK
    <3> QED
      BY <3>1, <3>2 DEF ServeCaller, TypeOK, server, counters
  <2>4. Counts' /\ Caps'
    BY <1>3, SameSide, CountsKept, StageFacts DEF ServeCaller
  <2>5. Holders' = Holders \union {c}
    BY <1>3, <2>2, LinesConstants DEF Holders, TypeOK
  <2>6. Holding(InTable)' = Holding(InTable) \union {c}
    BY <1>3, StageFacts DEF Holding, TypeOK
  <2>7. c \notin Holders
    BY StageFacts DEF NodesExact, Holding, ServeCaller
  <2>8. \A j \in NodeIds : nodes[j] # c
    BY <2>7, LinesConstants DEF Holders
  <2>9. NodesExact'
    <3>1. Holders' = Holding(InTable)'
      BY <2>5, <2>6 DEF NodesExact
    <3>2. ASSUME NEW j \in NodeIds, NEW k \in NodeIds, nodes'[j] = nodes'[k], nodes'[j] # None
          PROVE  j = k
      BY <1>3, <2>2, <2>8, <3>2 DEF NodesExact, TypeOK
    <3> QED
      BY <3>1, <3>2 DEF NodesExact
  <2>10. ClosingReachesAll'
    BY <1>3 DEF ServeCaller, ClosingReachesAll, AcquireRefused
  <2> QED
    BY <1>1, <2>3, <2>4, <2>9, <2>10
<1> QED
  BY <1>2, <1>3 DEF ServeCaller

\* serveCaller's defers take the caller out of the table.
LEMMA UnwindKeeps ==
  ASSUME IInv, NEW c \in Conns, Unwind(c)
  PROVE  IInv'
<1> USE DEF IInv
<1>1. pc' = [pc EXCEPT ![c] = "closing"] /\ pc[c] = "leaving"
  BY DEF Unwind
<1>2. TypeOK'
  <2>1. nodes' \in [NodeIds -> Conns \union {None}]
    BY DEF Unwind, NodesWithout, TypeOK
  <2>2. pc' \in [Conns -> Stages] /\ timer' \in [Conns -> {"off", "armed", "cutting"}]
    BY StageFacts DEF Unwind, TypeOK
  <2> QED
    BY <2>1, <2>2 DEF Unwind, TypeOK, server, counters
<1>3. Holders' = Holders \ {c}
  BY LinesConstants DEF Unwind, NodesWithout, Holders, TypeOK
<1>4. Holding(InTable)' = Holding(InTable) \ {c}
  BY <1>1, StageFacts DEF Holding, TypeOK
<1>5. NodesExact'
  <2>1. \A i, j \in NodeIds : nodes'[i] = nodes'[j] /\ nodes'[i] # None => i = j
    BY DEF NodesExact, Unwind, NodesWithout
  <2> QED
    BY <1>3, <1>4, <2>1 DEF NodesExact
<1>6. Counts' /\ Caps'
  BY <1>1, SameSide, CountsKept, StageFacts DEF Unwind
<1>7. ClosingReachesAll' /\ LoopsOver'
  BY <1>3 DEF Unwind, ClosingReachesAll, LoopsOver, server, counters
<1> QED
  BY <1>2, <1>5, <1>6, <1>7

\* What the session itself does, its timer, and whoever hangs it up: no slot and
\* no node changes hands.
LEMMA SessionKeeps ==
  ASSUME IInv, NEW c \in Conns,
         \/ LogIn(c) \/ EndSession(c) \/ DoorWaits(c) \/ DoorOver(c) \/ Drop(c) \/ TimerFires(c) \/ TimerCuts(c) \/ HangUpNode(c)
  PROVE  IInv'
<1> USE DEF IInv
<1>1. CASE LogIn(c) \/ EndSession(c) \/ DoorWaits(c) \/ DoorOver(c)
  <2>1. PICK x \in {"online", "door", "leaving"} : pc' = [pc EXCEPT ![c] = x] /\ pc[c] \in InTable
    BY <1>1, StageFacts DEF LogIn, EndSession, DoorWaits, DoorOver
  <2>2. UNCHANGED <<up, timer, table, counters, hangups, server>>
    BY <1>1 DEF LogIn, EndSession, DoorWaits, DoorOver
  <2>3. loggedIn' \in [Conns -> BOOLEAN]
    BY <1>1 DEF LogIn, EndSession, DoorWaits, DoorOver, TypeOK
  <2>4. TypeOK'
    BY <2>1, <2>2, <2>3, StageFacts DEF TypeOK, table, server, counters
  <2>5. NodesExact' /\ Holders' = Holders
    BY <2>1, <2>2, TableKept, StageFacts DEF table
  <2>6. Counts' /\ Caps'
    BY <2>1, <2>2, SameSide, CountsKept, StageFacts
  <2>7. ClosingReachesAll' /\ LoopsOver'
    BY <2>2, <2>5 DEF ClosingReachesAll, LoopsOver, table, server, counters
  <2> QED
    BY <2>4, <2>5, <2>6, <2>7
<1>2. CASE Drop(c) \/ TimerFires(c) \/ TimerCuts(c) \/ HangUpNode(c)
  <2>1. UNCHANGED <<pc, loggedIn, table, counters, server>>
    BY <1>2 DEF Drop, TimerFires, TimerCuts, HangUpNode
  <2>2. up' = up \/ up' = [up EXCEPT ![c] = FALSE]
    BY <1>2 DEF Drop, TimerFires, TimerCuts, HangUpNode
  <2>3. hangups' = hangups \/ (hangups' = hangups \ {c} /\ up' = [up EXCEPT ![c] = FALSE])
    BY <1>2 DEF Drop, TimerFires, TimerCuts, HangUpNode
  <2>4. timer' \in [Conns -> {"off", "armed", "cutting"}]
    BY <1>2 DEF Drop, TimerFires, TimerCuts, HangUpNode, TypeOK
  <2>5. TypeOK'
    <3>1. up' \in [Conns -> BOOLEAN]
      BY <2>2 DEF TypeOK
    <3>2. hangups' \subseteq Conns
      BY <2>3 DEF TypeOK
    <3> QED
      BY <2>1, <2>4, <3>1, <3>2 DEF TypeOK, table, server, counters
  <2>6. Holders' = Holders
    BY <2>1 DEF Holders, table
  <2>7. NodesExact' /\ Counts' /\ Caps' /\ LoopsOver'
    BY <2>1, <2>6 DEF NodesExact, Counts, Caps, LoopsOver, Holding, HoldingAt, table, counters, server
  <2>8. ClosingReachesAll'
    <3>1. \A d \in Holders : d \in Conns
      BY DEF NodesExact, Holding
    <3>2. ASSUME NEW d \in Holders, closing, ~up[d] \/ d \in hangups
          PROVE  ~up'[d] \/ d \in hangups'
      <4>1. CASE d = c
        BY <2>2, <2>3, <3>1, <3>2, <4>1 DEF TypeOK
      <4>2. CASE d # c
        BY <2>2, <2>3, <3>1, <3>2, <4>2 DEF TypeOK
      <4> QED
        BY <4>1, <4>2
    <3> QED
      BY <2>1, <2>6, <3>2 DEF ClosingReachesAll, table
  <2> QED
    BY <2>5, <2>7, <2>8
<1> QED
  BY <1>1, <1>2

\* Kicks and the steps of the server itself: the table and the counters stay.
LEMMA ServerKeeps ==
  ASSUME IInv,
         \/ \E i \in NodeIds : Kick(i)
         \/ \E l \in Listeners : LoopStep(l)
         \/ Cancel \/ CloseStore \/ UNCHANGED vars
  PROVE  IInv'
<1> USE DEF IInv
<1>1. UNCHANGED <<pc, up, loggedIn, timer, nodes, counters>>
  BY DEF Kick, LoopStep, CloseListener, CloseAll, AcceptFails, LoopReturns, Cancel, CloseStore,
         vars, counters, table
<1>2. Holders' = Holders
  BY <1>1 DEF Holders
<1>3. Holders \subseteq Conns
  BY DEF NodesExact, Holding
<1>4. NodesExact' /\ Counts' /\ Caps'
  BY <1>1, <1>2 DEF NodesExact, Counts, Caps, Holding, HoldingAt, counters
<1>5. hangups' \subseteq Conns /\ hangups \subseteq hangups'
  <2>1. \A i \in NodeIds : nodes[i] # None => nodes[i] \in Conns
    BY DEF TypeOK
  <2> QED
    BY <1>3, <2>1 DEF TypeOK, Kick, LoopStep, CloseListener, CloseAll, AcceptFails, LoopReturns,
         Cancel, CloseStore, vars
<1>6. (closing' /\ ~closing) => hangups' = hangups \union Holders
  BY DEF Kick, LoopStep, CloseListener, CloseAll, AcceptFails, LoopReturns, Cancel, CloseStore, vars, table
<1>7. closing => closing'
  BY DEF Kick, LoopStep, CloseListener, CloseAll, AcceptFails, LoopReturns, Cancel, CloseStore, vars, table
<1>8. ClosingReachesAll'
  BY <1>1, <1>2, <1>5, <1>6, <1>7 DEF ClosingReachesAll
<1>9. TypeOK'
  <2>1. /\ closing' \in BOOLEAN /\ cancelled' \in BOOLEAN /\ storeOpen' \in BOOLEAN
        /\ after' \in [Listeners -> {"armed", "closeAll", "done"}]
        /\ loop' \in [Listeners -> {"accept", "wait", "returned"}]
    BY DEF TypeOK, Kick, LoopStep, CloseListener, CloseAll, AcceptFails, LoopReturns, Cancel,
           CloseStore, vars, table, server
  <2> QED
    BY <1>1, <1>5, <2>1 DEF TypeOK, counters
<1>10. LoopsOver'
  <2>1. CASE \E l \in Listeners : AcceptFails(l) \/ LoopReturns(l)
    BY <2>1 DEF LoopsOver, AcceptFails, LoopReturns, WaitOver, TypeOK, counters
  <2>2. CASE CloseStore
    BY <2>2 DEF LoopsOver, CloseStore, counters
  <2>3. CASE \/ \E i \in NodeIds : Kick(i)
             \/ \E l \in Listeners : CloseListener(l) \/ CloseAll(l)
             \/ Cancel \/ UNCHANGED vars
    BY <2>3 DEF LoopsOver, Kick, CloseListener, CloseAll, Cancel, vars, counters, server
  <2> QED
    BY <2>1, <2>2, <2>3 DEF LoopStep
<1> QED
  BY <1>4, <1>8, <1>9, <1>10

\* Every step of Next keeps the inductive invariant.
LEMMA StepIInv == IInv /\ [Next]_vars => IInv'
<1> SUFFICES ASSUME IInv, [Next]_vars PROVE IInv'
  OBVIOUS
<1>1. CASE \E c \in Conns : ConnStep(c)
  BY <1>1, AcceptReturnsKeeps, AcceptKeeps, SetUpKeeps, ServeCallerKeeps, SessionKeeps, UnwindKeeps,
     CloseLineKeeps, DoneKeeps DEF ConnStep
<1>2. CASE \/ \E i \in NodeIds : Kick(i)
           \/ \E l \in Listeners : LoopStep(l)
           \/ Cancel \/ CloseStore \/ Exited \/ UNCHANGED vars
  BY <1>2, ServerKeeps DEF Exited
<1> QED
  BY <1>1, <1>2 DEF Next

-----------------------------------------------------------------------------
(* The theorems.                                                           *)

\* Lines always satisfies the inductive invariant.
THEOREM Inductive == Spec => []IInv
<1>1. Init => IInv
  BY InitIInv
<1>2. IInv /\ [Next]_vars => IInv'
  BY StepIInv
<1> QED
  BY <1>1, <1>2, PTL DEF Spec

\* Types, with counters that never go below zero (connLimiter.release, wg.Done).
THEOREM TypeCorrect == Spec => []TypeOK
<1>1. IInv => TypeOK
  BY DEF IInv
<1> QED
  BY <1>1, Inductive, PTL

\* Every node number is held by exactly one caller between acquire and release.
THEOREM NodeTableExact == Spec => []NodesExact
<1>1. IInv => NodesExact
  BY DEF IInv
<1> QED
  BY <1>1, Inductive, PTL

\* The connection limiter and the wait group count what they should, under the caps.
THEOREM LimiterExact == Spec => []SlotsExact
<1>1. IInv => SlotsExact
  BY DEF IInv, Counts, Caps, SlotsExact
<1> QED
  BY <1>1, Inductive, PTL

\* closeAll reaches everybody, whatever was going on when it ran.
THEOREM CloseAllReachesAll == Spec => []ClosingReachesAll
<1>1. IInv => ClosingReachesAll
  BY DEF IInv
<1> QED
  BY <1>1, Inductive, PTL

\* No session outlives the database.
THEOREM StoreOutlivesSessions == Spec => []StoreClosedLast
<1>1. IInv => StoreClosedLast
  <2> SUFFICES ASSUME IInv, ~storeOpen, NEW c \in Conns, pc[c] \in Running
               PROVE  FALSE
    BY DEF StoreClosedLast
  <2>1. Cardinality(Holding(Running)) = 0
    BY DEF IInv, LoopsOver, Counts
  <2>2. Holding(Running) = {}
    BY <2>1, ConnsFinite, HoldingSub, FS_EmptySet
  <2> QED
    BY <2>2 DEF Holding
<1> QED
  BY <1>1, Inductive, PTL
====
