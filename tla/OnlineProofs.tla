---- MODULE OnlineProofs ----
(***************************************************************************)
(* What callers on different nodes do to each other, for any number of     *)
(* callers, nodes, rooms and notices, and any length of the queues.        *)
(*                                                                         *)
(* Notices.  NoticeWakes is not inductive by itself.  Signal would break   *)
(* it if a second addNotice were at work under the table's lock, and       *)
(* EnterChat if a forward of an earlier visit had a signal in its hand:    *)
(* the invariant adds that neither happens.                                *)
(*                                                                         *)
(* Doors.  DoorForOne is inductive once the places of a visit are known:   *)
(* who is in the door is who holds its lock.                               *)
(*                                                                         *)
(* Chat.  ChatComplete needs that the rooms' maps and the callers' rooms   *)
(* agree, and that a new visit begins with an empty channel.               *)
(***************************************************************************)
EXTENDS MCOnline, SequenceTheorems, TLAPS

-----------------------------------------------------------------------------
(* Notices.                                                                *)


\* A step of a sender: notify or broadcast begins, or addNotice appends or signals.
SenderStep == (\E to \in SUBSET Nodes : Send(to)) \/ (\E n \in Nodes : AddNotice(n) \/ Signal(n))

\* A step of the session of node n, or of its forward.
NodeStep(n) ==
  \/ SetUser(n) \/ FlushNotices(n) \/ EnterChat(n) \/ QuitChat(n) \/ LeaveChat(n)
  \/ TakeSignal(n) \/ TakeNotices(n) \/ SeeDone(n)

LEMMA NextSplit == Next <=> SenderStep \/ \E n \in Nodes : NodeStep(n)
BY DEF Next, SenderStep, NodeStep

\* Senders keep the types.
LEMMA SenderTypes == TypeOK /\ SenderStep => TypeOK'
<1> SUFFICES ASSUME TypeOK, SenderStep PROVE TypeOK'
  OBVIOUS
<1>1. CASE \E to \in SUBSET Nodes : Send(to)
  BY <1>1 DEF TypeOK, Send
<1>2. CASE \E n \in Nodes : AddNotice(n)
  <2>1. PICK n \in Nodes : AddNotice(n)
    BY <1>2
  <2>2. notices[n] \in Seq(Nat) /\ sent \in Nat
    BY DEF TypeOK
  <2>3. Append(notices[n], sent) \in Seq(Nat)
    BY <2>2
  <2>4. notices' \in [Nodes -> Seq(Nat)]
    BY <2>1, <2>3 DEF TypeOK, AddNotice
  <2> QED
    BY <2>1, <2>4 DEF TypeOK, AddNotice
<1>3. CASE \E n \in Nodes : Signal(n)
  BY <1>3 DEF TypeOK, Signal
<1> QED
  BY <1>1, <1>2, <1>3 DEF SenderStep

\* A session and its forward keep the types.
LEMMA NodeTypes == ASSUME TypeOK, NEW n \in Nodes, NodeStep(n) PROVE TypeOK'
<1>1. CASE SetUser(n)
  BY <1>1 DEF TypeOK, SetUser
<1>2. CASE FlushNotices(n)
  <2>1. <<>> \in Seq(Nat)
    OBVIOUS
  <2> QED
    BY <1>2, <2>1 DEF TypeOK, FlushNotices
<1>3. CASE EnterChat(n)
  BY <1>3 DEF TypeOK, EnterChat
<1>4. CASE QuitChat(n)
  BY <1>4 DEF TypeOK, QuitChat
<1>5. CASE LeaveChat(n)
  BY <1>5 DEF TypeOK, LeaveChat
<1>6. CASE TakeSignal(n)
  BY <1>6 DEF TypeOK, TakeSignal
<1>7. CASE TakeNotices(n)
  <2>1. <<>> \in Seq(Nat)
    OBVIOUS
  <2> QED
    BY <1>7, <2>1 DEF TypeOK, TakeNotices
<1>8. CASE SeeDone(n)
  BY <1>8 DEF TypeOK, SeeDone
<1> QED
  BY <1>1, <1>2, <1>3, <1>4, <1>5, <1>6, <1>7, <1>8 DEF NodeStep

\* Types hold in every reachable state (node, nodeTable, forward).
THEOREM TypeCorrect == Spec => []TypeOK
<1>1. Init => TypeOK
  <2>1. <<>> \in Seq(Nat)
    OBVIOUS
  <2> QED
    BY <2>1 DEF Init, TypeOK
<1>2. TypeOK /\ [Next]_vars => TypeOK'
  <2>1. TypeOK /\ UNCHANGED vars => TypeOK'
    BY DEF TypeOK, vars
  <2> QED
    BY <2>1, NextSplit, SenderTypes, NodeTypes
<1> QED
  BY <1>1, <1>2, PTL DEF Spec

\* One addNotice at a time (each), and no forward runs outside chat (wg.Wait).
OneAdding == \A m, n \in adding : m = n
NoForward == \A n \in Nodes : at[n] \in {"login", "menu"} => fwd[n] = "off"

IInv == TypeOK /\ NoticeWakes /\ OneAdding /\ NoForward

\* Senders keep the invariant.
LEMMA SenderKeeps == ASSUME IInv, SenderStep PROVE NoticeWakes' /\ OneAdding' /\ NoForward'
<1> USE DEF IInv, TypeOK
<1>1. CASE \E to \in SUBSET Nodes : Send(to)
  BY <1>1 DEF NoticeWakes, OneAdding, NoForward, Send
<1>2. CASE \E n \in Nodes : AddNotice(n)
  <2>1. PICK n \in Nodes : AddNotice(n)
    BY <1>2
  <2>2. \A m \in Nodes : m # n => notices'[m] = notices[m]
    BY <2>1 DEF AddNotice
  <2> QED
    BY <2>1, <2>2 DEF NoticeWakes, OneAdding, NoForward, AddNotice
<1>3. CASE \E n \in Nodes : Signal(n)
  <2>1. PICK n \in Nodes : Signal(n)
    BY <1>3
  <2>2. \A m \in Nodes : m \in adding => m = n
    BY <2>1 DEF OneAdding, Signal
  <2>3. NoticeWakes'
    BY <2>1, <2>2 DEF NoticeWakes, Signal
  <2> QED
    BY <2>1, <2>3 DEF OneAdding, NoForward, Signal
<1> QED
  BY <1>1, <1>2, <1>3 DEF SenderStep

\* A session and its forward keep it.
LEMMA NodeKeeps ==
  ASSUME IInv, NEW n \in Nodes, NodeStep(n)
  PROVE  NoticeWakes' /\ OneAdding' /\ NoForward'
<1> USE DEF IInv, TypeOK, NoticeWakes, OneAdding, NoForward
<1>1. CASE SetUser(n)
  BY <1>1 DEF SetUser
<1>2. CASE FlushNotices(n)
  BY <1>2 DEF FlushNotices
<1>3. CASE EnterChat(n)
  BY <1>3 DEF EnterChat
<1>4. CASE QuitChat(n)
  BY <1>4 DEF QuitChat
<1>5. CASE LeaveChat(n)
  BY <1>5 DEF LeaveChat
<1>6. CASE TakeSignal(n)
  BY <1>6 DEF TakeSignal
<1>7. CASE TakeNotices(n)
  BY <1>7 DEF TakeNotices
<1>8. CASE SeeDone(n)
  BY <1>8 DEF SeeDone
<1> QED
  BY <1>1, <1>2, <1>3, <1>4, <1>5, <1>6, <1>7, <1>8 DEF NodeStep

\* A notice that is pending is signalled, about to be, or about to be taken
\* (addNotice, takeNotices, forward), in every reachable state.
THEOREM NoNoticeUnsignalled == Spec => []NoticeWakes
<1>1. Init => NoticeWakes /\ OneAdding /\ NoForward
  BY DEF Init, NoticeWakes, OneAdding, NoForward
<1>2. IInv /\ [Next]_vars => NoticeWakes' /\ OneAdding' /\ NoForward'
  <2>1. IInv /\ UNCHANGED vars => NoticeWakes' /\ OneAdding' /\ NoForward'
    BY DEF IInv, NoticeWakes, OneAdding, NoForward, vars
  <2> QED
    BY <2>1, NextSplit, SenderKeeps, NodeKeeps
<1> QED
  BY <1>1, <1>2, TypeCorrect, PTL DEF Spec, IInv

-----------------------------------------------------------------------------
(* Doors.                                                                  *)

Places == {"menu", "gone", "start", "accept", "bridge", "write", "drain", "kill", "killing",
           "after", "killingAfter", "pause"}

\* Who is in the door is who holds its lock.
DoorInv ==
  /\ doorAt \in [Callers -> Places]
  /\ lock = D!Nobody \/ lock \in Callers
  /\ \A c \in Callers : D!InDoor(c) <=> lock = c

\* A step that takes or gives back the lock.
LEMMA DoorLockKeeps ==
  ASSUME DoorInv, NEW c \in Callers, D!RunDoor(c) \/ D!Return(c) \/ D!Pause(c)
  PROVE DoorInv'
<1> USE OnlineAssumption DEF DoorInv, Places, D!InDoor, D!Goto, D!Nobody
<1>1. CASE D!RunDoor(c)
  BY <1>1 DEF D!RunDoor
<1>2. CASE D!Pause(c)
  BY <1>2 DEF D!Pause, D!Leave
<1>3. CASE D!Return(c)
  BY <1>3 DEF D!Return, D!Leave
<1> QED
  BY <1>1, <1>2, <1>3

\* A step from one place inside the door to another.
LEMMA DoorMoveKeeps ==
  ASSUME DoorInv, NEW c \in Callers, D!InDoor(c), UNCHANGED lock,
         NEW place \in Places \ {"menu", "gone"}, D!Goto(c, place)
  PROVE DoorInv'
BY DEF DoorInv, Places, D!InDoor, D!Goto, D!Nobody

\* The session's other steps.
LEMMA DoorSessionKeeps ==
  ASSUME DoorInv, NEW c \in Callers,
         \/ D!Start(c) \/ D!StartFails(c) \/ D!AcceptFails(c) \/ D!WriteFails(c) \/ D!Select(c) \/ D!Kill(c)
         \/ D!Killed(c) \/ D!Drained(c) \/ D!AcceptDoor(c) \/ D!ProgramReads(c) \/ D!Key(c)
  PROVE DoorInv'
<1> USE DEF D!InDoor, Places
<1>1. CASE D!Start(c)
  BY <1>1, DoorMoveKeeps DEF D!Start
<1>2. CASE D!AcceptFails(c)
  BY <1>2, DoorMoveKeeps DEF D!AcceptFails
<1>3. CASE D!WriteFails(c)
  BY <1>3, DoorMoveKeeps DEF D!WriteFails
<1>4. CASE D!Select(c)
  BY <1>4, DoorMoveKeeps
     DEF D!Select, D!ReadError, D!Expired, D!OutputOver, D!ProgramDone
<1>5. CASE D!Kill(c)
  BY <1>5, DoorMoveKeeps DEF D!Kill
<1>6. CASE D!Killed(c)
  BY <1>6, DoorMoveKeeps DEF D!Killed
<1>7. CASE D!Drained(c)
  BY <1>7, DoorMoveKeeps DEF D!Drained
<1>8. CASE D!AcceptDoor(c)
  BY <1>8, DoorMoveKeeps DEF D!AcceptDoor
<1>9. CASE D!ProgramReads(c)
  BY <1>9, DoorMoveKeeps DEF D!ProgramReads
<1>10. CASE D!Key(c)
  BY <1>10, DoorMoveKeeps DEF D!Key
<1>11. CASE D!StartFails(c)
  BY <1>11, DoorMoveKeeps DEF D!StartFails
<1> QED
  BY <1>1, <1>2, <1>3, <1>4, <1>5, <1>6, <1>7, <1>8, <1>9, <1>10, <1>11

\* The program, its child, the goroutines beside the session and the world move no
\* session and touch no lock.
LEMMA DoorAsideKeeps ==
  ASSUME DoorInv, NEW c \in Callers,
         \/ D!ProgramExits(c) \/ D!ChildExits(c) \/ (\E kind \in {"group", "away"} : D!ProgramForks(c, kind))
         \/ D!Wait(c) \/ D!TimeUp(c) \/ D!Watch(c) \/ D!HangUp(c) \/ D!OutputEnds(c) \/ D!OutputFails(c)
  PROVE DoorInv'
<1>1. UNCHANGED <<lock, doorAt>>
  BY DEF D!ProgramExits, D!ChildExits, D!ProgramForks, D!Wait, D!TimeUp, D!Watch, D!HangUp,
         D!OutputEnds, D!OutputFails
<1> QED
  BY <1>1 DEF DoorInv, D!InDoor

LEMMA DoorNextKeeps == DoorInv /\ D!Next => DoorInv'
BY DoorLockKeeps, DoorSessionKeeps, DoorAsideKeeps DEF D!Next, D!SessionStep, D!ProgramStep

\* DoorForOne, for any number of callers: a single-node door has one caller at most and
\* is locked exactly as long as that caller is in it, on every way out of runDoor.
THEOREM OneInDoor == OnlineSpec => []DoorForOne
<1>1. OnlineInit => DoorInv
  BY OnlineAssumption DEF OnlineInit, D!Init, DoorInv, Places, D!InDoor, D!Nobody
<1>2. DoorInv /\ [OnlineNext]_<<part, vars, chatVars, doorVars>> => DoorInv'
  BY DoorNextKeeps DEF OnlineNext, doorVars, DoorInv, D!InDoor
<1>3. DoorInv => DoorForOne
  BY OnlineAssumption DEF DoorInv, DoorForOne, D!DoorForOne, D!Nobody
<1> QED
  BY <1>1, <1>2, <1>3, PTL DEF OnlineSpec

-----------------------------------------------------------------------------
(* Chat.                                                                   *)

\* Who a line may be from, the hub included.
Speakers == Callers \union {C!Nobody}

LineSet == [room : Rooms, from : Speakers, missed : SUBSET Callers]

\* The rooms' maps and the callers' rooms agree, and a visit begins with nothing waiting.
ChatTypes ==
  /\ chatAt \in [Callers -> {"menu", "chat", "left", "closed"}]
  /\ room \in [Callers -> Rooms \union {C!Nowhere}]
  /\ members \in [Rooms -> SUBSET Callers]
  /\ out \in [Callers -> Seq(Nat)] /\ shown \in [Callers -> Seq(Nat)]
  /\ lines \in Seq(LineSet) /\ joined \in [Callers -> Nat]
  /\ \A c \in Callers : chatAt[c] = "chat" <=> room[c] # C!Nowhere
  /\ \A c \in Callers, r \in Rooms : c \in members[r] <=> room[c] = r
  /\ \A c \in Callers : chatAt[c] = "menu" => out[c] = <<>>

\* Line l is for caller c in room r.
ForMe(c, r, l) == l.room = r /\ C!Hears(c, l.from) /\ c \notin l.missed

\* What c got, in room r since line j, is what is for them of the lines ls.
Heard(c, r, j, ls, got) ==
  /\ got \in Seq(1 .. Len(ls))
  /\ \A i, k \in 1 .. Len(got) : i < k => got[i] < got[k]
  /\ \A n \in j + 1 .. Len(ls) : (\E i \in 1 .. Len(got) : got[i] = n) <=> ForMe(c, r, ls[n])

ChatInv ==
  /\ ChatTypes
  /\ \A c \in Callers :
       chatAt[c] = "chat" => joined[c] <= Len(lines) /\ Heard(c, room[c], joined[c], lines, shown[c] \o out[c])

\* A line for c that reaches their channel.
LEMMA HeardLine ==
  ASSUME NEW c, NEW r, NEW j \in Nat, NEW ls \in Seq(LineSet), NEW got, NEW l \in LineSet,
         Heard(c, r, j, ls, got), ForMe(c, r, l)
  PROVE Heard(c, r, j, Append(ls, l), Append(got, Len(ls) + 1))
<1> DEFINE n == Len(ls) more == Append(ls, l) g == Append(got, n + 1)
<1>1. n \in Nat /\ Len(more) = n + 1 /\ more[n + 1] = l /\ \A i \in 1 .. n : more[i] = ls[i]
  OBVIOUS
<1>2. got \in Seq(1 .. n) /\ Len(got) \in Nat
  BY DEF Heard
<1>3. /\ g \in Seq(1 .. n + 1) /\ Len(g) = Len(got) + 1 /\ g[Len(got) + 1] = n + 1
      /\ \A i \in 1 .. Len(got) : g[i] = got[i] /\ got[i] \in 1 .. n
  BY <1>1, <1>2
<1> HIDE DEF n, more, g
<1>4. ASSUME NEW i \in 1 .. Len(g), NEW k \in 1 .. Len(g), i < k
      PROVE g[i] < g[k]
  <2>1. i \in 1 .. Len(got) /\ (k \in 1 .. Len(got) \/ k = Len(got) + 1)
    BY <1>2, <1>3, <1>4
  <2> QED
    BY <2>1, <1>1, <1>2, <1>3, <1>4 DEF Heard
<1>5. ASSUME NEW m \in j + 1 .. n + 1
      PROVE (\E i \in 1 .. Len(g) : g[i] = m) <=> ForMe(c, r, more[m])
  <2>1. CASE m = n + 1
    BY <1>1, <1>2, <1>3, <2>1
  <2>2. CASE m \in j + 1 .. n
    <3>1. (\E i \in 1 .. Len(got) : got[i] = m) <=> ForMe(c, r, ls[m])
      BY <2>2 DEF Heard, n
    <3>2. \A i \in 1 .. Len(g) : i \in 1 .. Len(got) \/ g[i] = n + 1
      BY <1>2, <1>3
    <3>3. m # n + 1 /\ \A i \in 1 .. Len(got) : i \in 1 .. Len(g) /\ g[i] = got[i]
      BY <1>1, <1>2, <1>3, <2>2
    <3> QED
      BY <3>1, <3>2, <3>3, <2>2, <1>1
  <2> QED
    BY <2>1, <2>2, <1>1
<1> QED
  BY <1>1, <1>3, <1>4, <1>5 DEF Heard, n, more, g

\* A line that is not for c, or that they miss.
LEMMA HeardNot ==
  ASSUME NEW c, NEW r, NEW j \in Nat, NEW ls \in Seq(LineSet), NEW got, NEW l \in LineSet,
         Heard(c, r, j, ls, got), ~ForMe(c, r, l)
  PROVE Heard(c, r, j, Append(ls, l), got)
<1> DEFINE n == Len(ls) more == Append(ls, l)
<1>1. n \in Nat /\ Len(more) = n + 1 /\ more[n + 1] = l /\ \A i \in 1 .. n : more[i] = ls[i]
  OBVIOUS
<1>2. got \in Seq(1 .. n) /\ got \in Seq(1 .. n + 1)
  BY <1>1 DEF Heard
<1>3. ASSUME NEW m \in j + 1 .. n + 1
      PROVE (\E i \in 1 .. Len(got) : got[i] = m) <=> ForMe(c, r, more[m])
  <2>1. CASE m = n + 1
    BY <1>1, <1>2, <2>1
  <2>2. CASE m \in j + 1 .. n
    BY <1>1, <2>2 DEF Heard
  <2> QED
    BY <2>1, <2>2, <1>1
<1> HIDE DEF n, more
<1> QED
  BY <1>1, <1>2, <1>3 DEF Heard, n, more

\* Into another room: nothing of it is due yet.
LEMMA HeardNone ==
  ASSUME NEW c, NEW r, NEW s, NEW j \in Nat, NEW ls \in Seq(LineSet), NEW got, Heard(c, r, j, ls, got)
  PROVE Heard(c, s, Len(ls), ls, got)
BY DEF Heard

\* Line l goes to those in a room: for every caller, before and after.
LEMMA SentHeard ==
  ASSUME NEW chans \in [Callers -> Seq(Nat)], NEW in \in SUBSET Callers, NEW ls \in Seq(LineSet),
         NEW r \in Rooms, NEW from \in Speakers, NEW c \in Callers,
         NEW mine, c \in in <=> mine = r,
         NEW j \in Nat, NEW seen \in Seq(Nat), Heard(c, mine, j, ls, seen \o chans[c]),
         NEW n \in Nat, n = Len(ls) + 1
  PROVE Heard(c, mine, j, Append(ls, C!Line(r, from, chans, in)),
              seen \o C!Sent(chans, in, from, n)[c])
<1> DEFINE l == C!Line(r, from, chans, in)
<1>1. l \in LineSet /\ l.room = r /\ l.from = from /\ l.missed = C!Full(chans, in)
  BY DEF C!Line, C!Full, LineSet
<1> HIDE DEF l
<1>2. chans[c] \in Seq(Nat) /\ Len(chans[c]) \in Nat
  OBVIOUS
<1>3. CASE c \in in /\ C!Hears(c, from) /\ Len(chans[c]) < Backlog
  <2>1. ForMe(c, mine, l)
    BY <1>1, <1>2, <1>3, OnlineAssumption DEF ForMe, C!Full
  <2>2. C!Sent(chans, in, from, n)[c] = Append(chans[c], n)
    BY <1>3 DEF C!Sent
  <2>3. seen \o Append(chans[c], n) = Append(seen \o chans[c], n)
    BY <1>2
  <2> QED
    BY <2>1, <2>2, <2>3, <1>1, HeardLine DEF l
<1>4. CASE ~(c \in in /\ C!Hears(c, from) /\ Len(chans[c]) < Backlog)
  <2>1. ~ForMe(c, mine, l)
    BY <1>1, <1>2, <1>4, OnlineAssumption DEF ForMe, C!Full
  <2>2. C!Sent(chans, in, from, n)[c] = chans[c]
    BY <1>4 DEF C!Sent
  <2> QED
    BY <2>1, <2>2, <1>1, HeardNot DEF l
<1> QED
  BY <1>3, <1>4

LEMMA LineType ==
  ASSUME NEW chans, NEW in \in SUBSET Callers, NEW r \in Rooms, NEW from \in Speakers
  PROVE C!Line(r, from, chans, in) \in LineSet
BY DEF C!Line, C!Full, LineSet

\* The line goes to a room whose callers are in; everyone stays where they are.
LEMMA RoomHears ==
  ASSUME ChatInv, NEW r \in Rooms, NEW in \in SUBSET Callers, NEW from \in Speakers,
         NEW c \in Callers, chatAt[c] = "chat", c \in in <=> room[c] = r,
         NEW n \in Nat, n = Len(lines) + 1
  PROVE Heard(c, room[c], joined[c], Append(lines, C!Line(r, from, out, in)),
              shown[c] \o C!Sent(out, in, from, n)[c])
BY SentHeard DEF ChatInv, ChatTypes

\* Who is in the menu is in no room.
LEMMA MenuNowhere ==
  ASSUME ChatTypes, NEW c \in Callers, chatAt[c] = "menu"
  PROVE room[c] \notin Rooms
BY OnlineAssumption DEF ChatTypes, C!Nowhere

LEMMA SayKeeps == ASSUME ChatInv, NEW c \in Callers, C!Say(c) PROVE ChatInv'
<1> DEFINE r == room[c]
<1> PICK n \in Nat : n = Len(lines) + 1
  BY DEF ChatInv, ChatTypes
<1>1. r \in Rooms /\ members[r] \in SUBSET Callers
  BY DEF ChatInv, ChatTypes, C!Say
<1>2. /\ out' = C!Sent(out, members[r], c, n)
      /\ lines' = Append(lines, C!Line(r, c, out, members[r]))
      /\ UNCHANGED <<chatAt, room, members, joined, shown>>
  BY DEF C!Say
<1>3. C!Line(r, c, out, members[r]) \in LineSet
  BY <1>1, LineType DEF Speakers
<1> HIDE DEF r
<1>4. /\ ChatTypes /\ lines \in Seq(LineSet) /\ Len(lines) \in Nat /\ out \in [Callers -> Seq(Nat)]
      /\ \A d \in Callers : d \in members[r] <=> room[d] = r
  BY <1>1 DEF ChatInv, ChatTypes
<1>5. /\ lines' \in Seq(LineSet) /\ Len(lines') = n
      /\ out' \in [Callers -> Seq(Nat)] /\ \A d \in Callers : d \notin members[r] => out'[d] = out[d]
  <2>1. lines' \in Seq(LineSet) /\ Len(lines') = n
    BY <1>2, <1>3, <1>4
  <2>2. \A d \in Callers : out[d] \in Seq(Nat) /\ Append(out[d], n) \in Seq(Nat)
    BY <1>4
  <2> QED
    BY <1>2, <1>4, <2>1, <2>2 DEF C!Sent
<1>6. ChatTypes'
  <2>1. \A d \in Callers : chatAt[d] = "menu" => d \notin members[r]
    BY <1>1, <1>4, MenuNowhere
  <2>2. \A d \in Callers : chatAt'[d] = "menu" => out'[d] = <<>>
    BY <1>2, <1>4, <1>5, <2>1 DEF ChatTypes
  <2> QED
    BY <1>2, <1>4, <1>5, <2>2 DEF ChatTypes
<1>7. ASSUME NEW d \in Callers, chatAt'[d] = "chat"
      PROVE joined'[d] <= Len(lines') /\ Heard(d, room'[d], joined'[d], lines', shown'[d] \o out'[d])
  <2>1. joined[d] \in Nat /\ joined[d] <= Len(lines)
    BY <1>2, <1>7 DEF ChatInv, ChatTypes
  <2>2. Heard(d, room[d], joined[d], Append(lines, C!Line(r, c, out, members[r])),
              shown[d] \o C!Sent(out, members[r], c, n)[d])
    BY <1>1, <1>2, <1>4, <1>7, RoomHears DEF Speakers
  <2> QED
    BY <2>1, <2>2, <1>2, <1>4, <1>5
<1> QED
  BY <1>6, <1>7 DEF ChatInv

\* The rooms without c.
LEMMA WithoutFacts ==
  ASSUME ChatTypes, NEW c \in Callers
  PROVE /\ C!Without(c) \in [Rooms -> SUBSET Callers]
        /\ \A d \in Callers, r \in Rooms : d \in C!Without(c)[r] <=> d # c /\ room[d] = r
BY DEF ChatTypes, C!Without

LEMMA LeaveHubKeeps == ASSUME ChatInv, NEW c \in Callers, C!LeaveHub(c) PROVE ChatInv'
<1> DEFINE r == room[c] in == C!Without(c)[r]
<1> PICK n \in Nat : n = Len(lines) + 1
  BY DEF ChatInv, ChatTypes
<1>1. /\ r \in Rooms /\ in \in SUBSET Callers
      /\ \A d \in Callers : d \in in <=> d # c /\ room[d] = r
  BY WithoutFacts DEF ChatInv, ChatTypes, C!LeaveHub
<1>2. /\ members' = C!Without(c) /\ room' = [room EXCEPT ![c] = C!Nowhere]
      /\ out' = C!Sent(out, in, C!Nobody, n)
      /\ lines' = Append(lines, C!Line(r, C!Nobody, out, in))
      /\ chatAt' = [chatAt EXCEPT ![c] = "left"]
      /\ joined' = [joined EXCEPT ![c] = 0] /\ shown' = [shown EXCEPT ![c] = <<>>]
  BY DEF C!LeaveHub
<1>3. C!Line(r, C!Nobody, out, in) \in LineSet
  BY <1>1, LineType DEF Speakers
<1> HIDE DEF r, in
<1>4. ChatTypes /\ lines \in Seq(LineSet) /\ Len(lines) \in Nat /\ out \in [Callers -> Seq(Nat)]
  BY DEF ChatInv, ChatTypes
<1>5. /\ lines' \in Seq(LineSet) /\ Len(lines') = n
      /\ out' \in [Callers -> Seq(Nat)] /\ \A d \in Callers : d \notin in => out'[d] = out[d]
  <2>1. lines' \in Seq(LineSet) /\ Len(lines') = n
    BY <1>2, <1>3, <1>4
  <2>2. \A d \in Callers : out[d] \in Seq(Nat) /\ Append(out[d], n) \in Seq(Nat)
    BY <1>4
  <2> QED
    BY <1>2, <1>4, <2>1, <2>2 DEF C!Sent
<1>6. ChatTypes'
  <2>1. \A d \in Callers, q \in Rooms : d \in members'[q] <=> room'[d] = q
    BY <1>2, <1>4, WithoutFacts, OnlineAssumption DEF ChatTypes, C!Nowhere
  <2>2. \A d \in Callers : chatAt[d] = "menu" => d \notin in
    BY <1>1, <1>4, MenuNowhere
  <2>3. \A d \in Callers : chatAt'[d] = "menu" => out'[d] = <<>>
    BY <1>2, <1>4, <1>5, <2>2 DEF ChatTypes
  <2>4. <<>> \in Seq(Nat)
    OBVIOUS
  <2> QED
    BY <1>2, <1>4, <1>5, <2>1, <2>3, <2>4, WithoutFacts DEF ChatTypes
<1>7. ASSUME NEW d \in Callers, chatAt'[d] = "chat"
      PROVE joined'[d] <= Len(lines') /\ Heard(d, room'[d], joined'[d], lines', shown'[d] \o out'[d])
  <2>1. d # c /\ chatAt[d] = "chat" /\ room'[d] = room[d] /\ joined'[d] = joined[d] /\ shown'[d] = shown[d]
    BY <1>2, <1>7 DEF ChatInv, ChatTypes
  <2>2. joined[d] \in Nat /\ joined[d] <= Len(lines)
    BY <2>1 DEF ChatInv, ChatTypes
  <2>3. Heard(d, room[d], joined[d], Append(lines, C!Line(r, C!Nobody, out, in)),
              shown[d] \o C!Sent(out, in, C!Nobody, n)[d])
    BY <1>1, <2>1, RoomHears DEF Speakers
  <2> QED
    BY <2>1, <2>2, <2>3, <1>2, <1>4, <1>5
<1> QED
  BY <1>6, <1>7 DEF ChatInv

\* A sequence is one over any set that has its elements.
LEMMA SeqOf ==
  ASSUME NEW S, NEW T, NEW s \in Seq(S), \A i \in 1 .. Len(s) : s[i] \in T
  PROVE s \in Seq(T)
OBVIOUS

\* What follows in an ordered sequence is ordered.
LEMMA ConcatTail ==
  ASSUME NEW s \in Seq(Nat), NEW o \in Seq(Nat), NEW n \in Nat, s \o o \in Seq(1 .. n),
         \A i, k \in 1 .. Len(s \o o) : i < k => (s \o o)[i] < (s \o o)[k]
  PROVE o \in Seq(1 .. n) /\ \A i, k \in 1 .. Len(o) : i < k => o[i] < o[k]
<1>1. PICK g \in Seq(1 .. n) : g = s \o o
  OBVIOUS
<1>2. Len(s) \in Nat /\ Len(o) \in Nat /\ Len(g) = Len(s) + Len(o)
  BY <1>1
<1>3. ASSUME NEW i \in 1 .. Len(o)
      PROVE Len(s) + i \in 1 .. Len(g) /\ g[Len(s) + i] = o[i]
  BY <1>1, <1>2
<1>4. \A i \in 1 .. Len(o) : o[i] \in 1 .. n
  BY <1>3
<1>5. ASSUME NEW i \in 1 .. Len(o), NEW k \in 1 .. Len(o), i < k
      PROVE o[i] < o[k]
  <2>1. Len(s) + i < Len(s) + k
    BY <1>2, <1>5
  <2>2. g[Len(s) + i] < g[Len(s) + k]
    BY <1>1, <1>3, <2>1
  <2> QED
    BY <1>3, <2>2
<1> QED
  BY <1>4, <1>5, SeqOf

\* The first of what waits goes to the end of what was shown.
LEMMA ShowOne ==
  ASSUME NEW s \in Seq(Nat), NEW o \in Seq(Nat), o # <<>>
  PROVE /\ Tail(o) \in Seq(Nat) /\ Append(s, Head(o)) \in Seq(Nat)
        /\ Append(s, Head(o)) \o Tail(o) = s \o o
OBVIOUS

\* Who comes into a room has nothing of it to come, whatever still waits of another.
LEMMA JoinerHeard ==
  ASSUME ChatInv, NEW c \in Callers, chatAt[c] \in {"menu", "chat"}, NEW r, NEW more,
         more = lines \/ \E l \in LineSet : more = Append(lines, l)
  PROVE Heard(c, r, Len(more), more, <<>> \o out[c])
<1>1. lines \in Seq(LineSet) /\ Len(lines) \in Nat /\ out[c] \in Seq(Nat) /\ shown[c] \in Seq(Nat)
  BY DEF ChatInv, ChatTypes
<1>2. more \in Seq(LineSet) /\ Len(more) \in Nat /\ Len(lines) <= Len(more)
  BY <1>1
<1>3. <<>> \o out[c] = out[c]
  BY <1>1
<1>4. /\ out[c] \in Seq(1 .. Len(lines))
      /\ \A i, k \in 1 .. Len(out[c]) : i < k => out[c][i] < out[c][k]
  <2>1. CASE out[c] = <<>>
    BY <2>1, <1>1
  <2>2. CASE Heard(c, room[c], joined[c], lines, shown[c] \o out[c])
    BY <1>1, <2>2, ConcatTail DEF Heard
  <2> QED
    BY <2>1, <2>2 DEF ChatInv, ChatTypes
<1>5. out[c] \in Seq(1 .. Len(more))
  BY <1>1, <1>2, <1>4
<1> QED
  BY <1>2, <1>3, <1>4, <1>5 DEF Heard

\* join's first half: the line that tells c's old room, and the channels after it.
Bye(c) == IF room[c] = C!Nowhere THEN <<>> ELSE <<C!Line(room[c], C!Nobody, out, C!Without(c)[room[c]])>>
Left(c, n) == IF room[c] = C!Nowhere THEN out ELSE C!Sent(out, C!Without(c)[room[c]], C!Nobody, n)

LEMMA ByeHeard ==
  ASSUME ChatInv, NEW c \in Callers, chatAt[c] \in {"menu", "chat"},
         NEW n \in Nat, n = Len(lines) + 1, NEW more, more = lines \o Bye(c)
  PROVE /\ more \in Seq(LineSet) /\ Len(more) = Len(lines) + Len(Bye(c)) /\ Len(more) \in Nat
        /\ Len(lines) <= Len(more)
        /\ Left(c, n) \in [Callers -> Seq(Nat)] /\ Left(c, n)[c] = out[c]
        /\ \A d \in Callers : chatAt[d] = "menu" => Left(c, n)[d] = out[d]
        /\ \A d \in Callers : d # c /\ chatAt[d] = "chat" =>
             Heard(d, room[d], joined[d], more, shown[d] \o Left(c, n)[d])
        /\ \A r \in Rooms : Heard(c, r, Len(more), more, <<>> \o Left(c, n)[c])
<1>1. PICK old, rest, bye, left :
        /\ old = room[c] /\ rest = C!Without(c) /\ bye = Bye(c) /\ left = Left(c, n)
        /\ bye = IF old = C!Nowhere THEN <<>> ELSE <<C!Line(old, C!Nobody, out, rest[old])>>
        /\ left = IF old = C!Nowhere THEN out ELSE C!Sent(out, rest[old], C!Nobody, n)
  BY Zenon DEF Bye, Left
<1>2. /\ lines \in Seq(LineSet) /\ Len(lines) \in Nat /\ out \in [Callers -> Seq(Nat)] /\ ChatTypes
      /\ rest \in [Rooms -> SUBSET Callers]
      /\ \A d \in Callers, r \in Rooms : d \in rest[r] <=> d # c /\ room[d] = r
  <2>1. ChatTypes
    BY DEF ChatInv
  <2>2. /\ C!Without(c) \in [Rooms -> SUBSET Callers]
        /\ \A d \in Callers, r \in Rooms : d \in C!Without(c)[r] <=> d # c /\ room[d] = r
    BY <2>1, WithoutFacts
  <2>3. lines \in Seq(LineSet) /\ Len(lines) \in Nat /\ out \in [Callers -> Seq(Nat)]
    BY <2>1 DEF ChatTypes
  <2> QED
    BY <1>1, <2>1, <2>2, <2>3
<1>3. CASE old = C!Nowhere
  <2>1. lines \o <<>> = lines /\ Len(<<>>) = 0
    BY <1>2
  <2> QED
    BY <1>1, <1>2, <1>3, <2>1, JoinerHeard DEF ChatInv
<1>4. CASE old # C!Nowhere
  <2> DEFINE l == C!Line(old, C!Nobody, out, rest[old])
  <2>1. old \in Rooms /\ rest[old] \in SUBSET Callers
    BY <1>1, <1>2, <1>4 DEF ChatTypes
  <2>2. l \in LineSet
    BY <2>1, LineType DEF Speakers
  <2>3. \A d \in Callers : out[d] \in Seq(Nat) /\ Append(out[d], n) \in Seq(Nat)
    BY <1>2
  <2>4. /\ left \in [Callers -> Seq(Nat)] /\ left[c] = out[c]
        /\ \A d \in Callers : d \notin rest[old] => left[d] = out[d]
    <3>1. left = C!Sent(out, rest[old], C!Nobody, n)
      BY <1>1, <1>4
    <3>2. left \in [Callers -> Seq(Nat)]
      BY <2>3, <3>1 DEF C!Sent
    <3>3. \A d \in Callers : d \notin rest[old] => left[d] = out[d]
      BY <3>1 DEF C!Sent
    <3>4. c \notin rest[old]
      BY <1>2, <2>1
    <3> QED
      BY <3>2, <3>3, <3>4
  <2>5. ASSUME NEW d \in Callers, chatAt[d] = "menu" PROVE d \notin rest[old]
    <3>1. room[d] \notin Rooms
      BY <1>2, <2>5, MenuNowhere
    <3> QED
      BY <1>2, <2>1, <3>1
  <2>6. ASSUME NEW d \in Callers, d # c, chatAt[d] = "chat"
        PROVE Heard(d, room[d], joined[d], Append(lines, l), shown[d] \o left[d])
    <3>1. Heard(d, room[d], joined[d], Append(lines, l), shown[d] \o C!Sent(out, rest[old], C!Nobody, n)[d])
      BY <1>2, <2>1, <2>6, RoomHears DEF Speakers
    <3> QED
      BY <1>1, <1>4, <3>1
  <2>7. bye = <<l>>
    BY <1>1, <1>4
  <2> HIDE DEF l
  <2>8. /\ more = Append(lines, l) /\ Len(bye) = 1 /\ more \in Seq(LineSet)
        /\ Len(more) = Len(lines) + 1
    <3>1. /\ lines \o <<l>> = Append(lines, l) /\ Len(<<l>>) = 1 /\ Append(lines, l) \in Seq(LineSet)
          /\ Len(Append(lines, l)) = Len(lines) + 1
      BY <1>2, <2>2
    <3> QED
      BY <1>1, <2>7, <3>1
  <2>9. \A r \in Rooms : Heard(c, r, Len(more), more, <<>> \o left[c])
    BY <2>2, <2>4, <2>8, JoinerHeard
  <2>10. Len(more) = Len(lines) + Len(bye) /\ Len(more) \in Nat /\ Len(lines) <= Len(more)
    BY <1>2, <2>8
  <2> QED
    BY <1>1, <2>4, <2>5, <2>6, <2>8, <2>9, <2>10
<1> QED
  BY <1>3, <1>4

LEMMA JoinKeeps ==
  ASSUME ChatInv, NEW c \in Callers, NEW r \in Rooms, chatAt[c] \in {"menu", "chat"},
         C!Join(c, r), chatAt' = [chatAt EXCEPT ![c] = "chat"]
  PROVE ChatInv'
<1>1. /\ ChatTypes /\ lines \in Seq(LineSet) /\ Len(lines) \in Nat
      /\ C!Without(c) \in [Rooms -> SUBSET Callers]
      /\ \A d \in Callers, q \in Rooms : d \in C!Without(c)[q] <=> d # c /\ room[d] = q
  BY WithoutFacts DEF ChatInv, ChatTypes
<1>2. PICK n \in Nat : n = Len(lines) + 1
  BY <1>1
<1>3. PICK old, rest, bye, left, in, hi :
        /\ old = room[c] /\ rest = C!Without(c)
        /\ bye = IF old = C!Nowhere THEN <<>> ELSE <<C!Line(old, C!Nobody, out, rest[old])>>
        /\ left = IF old = C!Nowhere THEN out ELSE C!Sent(out, rest[old], C!Nobody, n)
        /\ in = rest[r] \union {c} /\ hi = Len(lines) + Len(bye) + 1
        /\ members' = [rest EXCEPT ![r] = in] /\ room' = [room EXCEPT ![c] = r]
        /\ lines' = lines \o bye \o <<C!Line(r, C!Nobody, left, in)>>
        /\ joined' = [joined EXCEPT ![c] = hi - 1]
        /\ out' = C!Sent(left, in, C!Nobody, hi)
        /\ shown' = [shown EXCEPT ![c] = <<>>]
  BY <1>2, Zenon DEF C!Join
<1>4. PICK more : more = lines \o bye
  OBVIOUS
<1>5. /\ more \in Seq(LineSet) /\ Len(more) = Len(lines) + Len(bye) /\ Len(more) \in Nat
      /\ Len(lines) <= Len(more)
      /\ left \in [Callers -> Seq(Nat)]
      /\ \A d \in Callers : chatAt[d] = "menu" => left[d] = out[d]
      /\ \A d \in Callers : d # c /\ chatAt[d] = "chat" =>
           Heard(d, room[d], joined[d], more, shown[d] \o left[d])
      /\ Heard(c, r, Len(more), more, <<>> \o left[c])
  <2>1. bye = Bye(c) /\ left = Left(c, n)
    BY <1>3 DEF Bye, Left
  <2>2. more = lines \o Bye(c)
    BY <2>1, <1>4
  <2> QED
    BY <1>2, <2>1, <2>2, ByeHeard
<1>6. hi \in Nat /\ hi = Len(more) + 1 /\ hi - 1 = Len(more)
  BY <1>3, <1>5
<1>7. in \in SUBSET Callers /\ c \in in /\ \A d \in Callers : d # c => (d \in in <=> room[d] = r)
  BY <1>1, <1>3
<1>8. PICK l \in LineSet : l = C!Line(r, C!Nobody, left, in)
  BY <1>7, LineType DEF Speakers
<1>9. lines' = Append(more, l) /\ lines' \in Seq(LineSet) /\ Len(lines') = hi
  BY <1>3, <1>4, <1>5, <1>6, <1>8
<1>10. ChatTypes'
  <2>1. /\ chatAt' \in [Callers -> {"menu", "chat", "left", "closed"}]
        /\ room' \in [Callers -> Rooms \union {C!Nowhere}]
        /\ members' \in [Rooms -> SUBSET Callers]
        /\ joined' \in [Callers -> Nat]
    BY <1>1, <1>3, <1>5, <1>6, <1>7 DEF ChatTypes
  <2>2. <<>> \in Seq(Nat)
    OBVIOUS
  <2>3. shown' \in [Callers -> Seq(Nat)]
    BY <1>1, <1>3, <2>2 DEF ChatTypes
  <2>4. \A d \in Callers : left[d] \in Seq(Nat) /\ Append(left[d], hi) \in Seq(Nat)
    BY <1>5, <1>6
  <2>5. out' \in [Callers -> Seq(Nat)] /\ \A d \in Callers : d \notin in => out'[d] = left[d]
    BY <1>3, <1>5, <2>4 DEF C!Sent
  <2>6. \A d \in Callers : chatAt'[d] = "chat" <=> room'[d] # C!Nowhere
    BY <1>1, <1>3, OnlineAssumption DEF ChatTypes, C!Nowhere
  <2>7. ASSUME NEW d \in Callers, NEW q \in Rooms PROVE d \in members'[q] <=> room'[d] = q
    <3>1. CASE d = c
      BY <3>1, <1>1, <1>3, <1>7 DEF ChatTypes
    <3>2. CASE d # c
      BY <3>2, <1>1, <1>3, <1>7 DEF ChatTypes
    <3> QED
      BY <3>1, <3>2
  <2>8. ASSUME NEW d \in Callers, chatAt'[d] = "menu" PROVE out'[d] = <<>>
    <3>1. d # c /\ chatAt[d] = "menu"
      BY <2>8, <1>1 DEF ChatTypes
    <3>2. d \notin in
      BY <3>1, <1>1, <1>7, MenuNowhere
    <3>3. out'[d] = left[d] /\ left[d] = out[d]
      BY <3>1, <3>2, <2>5, <1>5
    <3> QED
      BY <3>1, <3>3, <1>1 DEF ChatTypes
  <2> QED
    BY <2>1, <2>3, <2>5, <2>6, <2>7, <2>8, <1>9 DEF ChatTypes
<1>11. ASSUME NEW d \in Callers, chatAt'[d] = "chat"
       PROVE joined'[d] <= Len(lines') /\ Heard(d, room'[d], joined'[d], lines', shown'[d] \o out'[d])
  <2>1. CASE d = c
    <3>1. room'[c] = r /\ joined'[c] = Len(more) /\ shown'[c] = <<>> /\ <<>> \in Seq(Nat)
      BY <1>1, <1>3, <1>6 DEF ChatTypes
    <3>2. Heard(c, r, Len(more), Append(more, l), <<>> \o C!Sent(left, in, C!Nobody, hi)[c])
      BY <1>5, <1>6, <1>7, <1>8, <3>1, SentHeard DEF Speakers
    <3>3. joined'[c] <= Len(lines')
      BY <3>1, <1>5, <1>6, <1>9
    <3>4. out'[c] = C!Sent(left, in, C!Nobody, hi)[c] /\ lines' = Append(more, l)
      BY <1>3, <1>9
    <3> QED
      BY <2>1, <3>1, <3>2, <3>3, <3>4
  <2>2. CASE d # c
    <3>1. /\ room'[d] = room[d] /\ joined'[d] = joined[d] /\ shown'[d] = shown[d] /\ chatAt[d] = "chat"
          /\ joined[d] \in Nat /\ shown[d] \in Seq(Nat)
      BY <1>1, <1>3, <1>11, <2>2 DEF ChatTypes
    <3>2. joined[d] <= Len(lines)
      BY <3>1 DEF ChatInv
    <3>3. Heard(d, room[d], joined[d], Append(more, l), shown[d] \o C!Sent(left, in, C!Nobody, hi)[d])
      BY <1>5, <1>6, <1>7, <1>8, <2>2, <3>1, SentHeard DEF Speakers
    <3>4. joined'[d] <= Len(lines')
      BY <3>1, <3>2, <1>1, <1>5, <1>6, <1>9
    <3>5. out'[d] = C!Sent(left, in, C!Nobody, hi)[d] /\ lines' = Append(more, l)
      BY <1>3, <1>9
    <3> QED
      BY <3>1, <3>3, <3>4, <3>5
  <2> QED
    BY <2>1, <2>2
<1> QED
  BY <1>10, <1>11 DEF ChatInv

\* A step of the session or of forward that sends nothing.
LEMMA QuietKeeps ==
  ASSUME ChatInv, NEW c \in Callers, C!CloseDone(c) \/ C!Back(c) \/ C!ShowLine(c) \/ C!SeeDone(c)
  PROVE ChatInv'
<1>1. ChatTypes
  BY DEF ChatInv
<1>2. CASE C!SeeDone(c)
  BY <1>2 DEF ChatInv, ChatTypes, C!SeeDone, C!hub
<1>3. CASE C!CloseDone(c)
  <2>1. UNCHANGED <<room, members, out, lines, joined, shown>> /\ chatAt' = [chatAt EXCEPT ![c] = "closed"]
        /\ chatAt[c] = "left"
    BY <1>3 DEF C!CloseDone, C!hub
  <2>2. ChatTypes'
    BY <1>1, <2>1 DEF ChatTypes
  <2> QED
    BY <1>1, <2>1, <2>2 DEF ChatInv, ChatTypes
<1>4. CASE C!Back(c)
  <2>1. /\ UNCHANGED <<room, members, lines, joined, shown>> /\ chatAt' = [chatAt EXCEPT ![c] = "menu"]
        /\ out' = [out EXCEPT ![c] = <<>>] /\ chatAt[c] = "closed"
    BY <1>4 DEF C!Back
  <2>2. <<>> \in Seq(Nat)
    OBVIOUS
  <2>3. ChatTypes'
    BY <1>1, <2>1, <2>2 DEF ChatTypes
  <2>4. \A d \in Callers : chatAt'[d] = "chat" => chatAt[d] = "chat" /\ out'[d] = out[d]
    BY <1>1, <2>1 DEF ChatTypes
  <2> QED
    BY <2>1, <2>3, <2>4 DEF ChatInv
<1>5. CASE C!ShowLine(c)
  <2>1. /\ UNCHANGED <<chatAt, room, members, lines, joined>> /\ out[c] # <<>>
        /\ shown' = IF chatAt[c] = "chat" THEN [shown EXCEPT ![c] = Append(shown[c], Head(out[c]))] ELSE shown
        /\ out' = [out EXCEPT ![c] = Tail(out[c])]
    BY <1>5 DEF C!ShowLine
  <2>2. out[c] \in Seq(Nat) /\ shown[c] \in Seq(Nat)
    BY <1>1 DEF ChatTypes
  <2>3. /\ Tail(out[c]) \in Seq(Nat) /\ Append(shown[c], Head(out[c])) \in Seq(Nat)
        /\ Append(shown[c], Head(out[c])) \o Tail(out[c]) = shown[c] \o out[c]
    BY <2>1, <2>2, ShowOne
  <2>4. ChatTypes'
    BY <1>1, <2>1, <2>3 DEF ChatTypes
  <2>5. ASSUME NEW d \in Callers, chatAt[d] = "chat" PROVE shown'[d] \o out'[d] = shown[d] \o out[d]
    <3>1. CASE d = c
      BY <1>1, <2>1, <2>3, <2>5, <3>1 DEF ChatTypes
    <3>2. CASE d # c
      <4>1. shown'[d] = shown[d] /\ out'[d] = out[d]
        BY <1>1, <2>1, <3>2 DEF ChatTypes
      <4> QED
        BY <4>1
    <3> QED
      BY <3>1, <3>2
  <2> QED
    BY <2>1, <2>4, <2>5 DEF ChatInv
<1> QED
  BY <1>2, <1>3, <1>4, <1>5

LEMMA ChatNextKeeps == ChatInv /\ C!Next => ChatInv'
<1> SUFFICES ASSUME ChatInv, C!Next PROVE ChatInv'
  OBVIOUS
<1>1. PICK c \in Callers :
        \/ C!Enter(c) \/ (\E r \in Rooms : C!JoinRoom(c, r)) \/ C!Say(c)
        \/ C!LeaveHub(c) \/ C!CloseDone(c) \/ C!Back(c)
        \/ C!ShowLine(c) \/ C!SeeDone(c)
  BY DEF C!Next
<1>2. CASE C!Enter(c)
  BY <1>2, JoinKeeps, OnlineAssumption DEF C!Enter
<1>3. ASSUME NEW r \in Rooms, C!JoinRoom(c, r) PROVE ChatInv'
  <2>1. chatAt[c] = "chat" /\ C!Join(c, r) /\ chatAt' = chatAt
    BY <1>3 DEF C!JoinRoom
  <2>2. chatAt' = [chatAt EXCEPT ![c] = "chat"]
    BY <2>1 DEF ChatInv, ChatTypes
  <2> QED
    BY <2>1, <2>2, JoinKeeps
<1> QED
  BY <1>1, <1>2, <1>3, SayKeeps, LeaveHubKeeps, QuietKeeps

LEMMA ChatInvHolds == OnlineSpec => []ChatInv
<1>1. OnlineInit => ChatInv
  <2>1. <<>> \in Seq(Nat) /\ <<>> \in Seq(LineSet)
    OBVIOUS
  <2> QED
    BY <2>1, OnlineAssumption DEF OnlineInit, C!Init, ChatInv, ChatTypes, C!Nowhere
<1>2. ChatInv /\ [OnlineNext]_<<part, vars, chatVars, doorVars>> => ChatInv'
  <2>1. ASSUME ChatInv, UNCHANGED chatVars PROVE ChatInv'
    BY <2>1 DEF ChatInv, ChatTypes, chatVars
  <2> QED
    BY <2>1, ChatNextKeeps DEF OnlineNext
<1> QED
  BY <1>1, <1>2, PTL DEF OnlineSpec

\* ChatComplete, for any number of callers and rooms, any lengths of the backlog and of
\* the talk: since they came into their room a caller gets what was said there for them,
\* all of it, in order and nothing else (chatHub.join, sendLocked, forward).
THEOREM ChatIsComplete == OnlineSpec => []ChatComplete
<1>1. ChatInv => ChatComplete
  <2> SUFFICES ASSUME ChatInv, NEW c \in Callers, chatAt[c] = "chat",
                      NEW got, got = shown[c] \o out[c]
               PROVE /\ {n \in C!Range(got) : n > joined[c]} = C!Due(c)
                     /\ \A i, j \in DOMAIN got : i < j => got[i] < got[j]
    BY Zenon DEF ChatComplete, C!ChatComplete
  <2>1. Heard(c, room[c], joined[c], lines, got) /\ joined[c] \in Nat
    BY DEF ChatInv, ChatTypes
  <2>2. got \in Seq(1 .. Len(lines)) /\ DOMAIN got = 1 .. Len(got)
    BY <2>1 DEF Heard
  <2>3. \A n : n \in C!Range(got) <=> \E i \in 1 .. Len(got) : got[i] = n
    BY <2>2 DEF C!Range
  <2>4. Len(lines) \in Nat
    BY DEF ChatInv, ChatTypes
  <2>5. \A i \in 1 .. Len(got) : got[i] \in 1 .. Len(lines)
    BY <2>2, <2>4, ElementOfSeq
  <2>6. ASSUME NEW n PROVE n \in {m \in C!Range(got) : m > joined[c]} <=> n \in C!Due(c)
    <3>1. n \in C!Range(got) => n \in 1 .. Len(lines)
      BY <2>3, <2>5
    <3>2. CASE n \in joined[c] + 1 .. Len(lines)
      <4>1. n \in C!Range(got) <=> ForMe(c, room[c], lines[n])
        BY <2>1, <2>3, <3>2 DEF Heard
      <4> QED
        BY <4>1, <3>2, <2>1, <2>4 DEF ForMe, C!Due
    <3>3. CASE n \notin joined[c] + 1 .. Len(lines)
      BY <3>1, <3>3, <2>1, <2>4 DEF C!Due
    <3> QED
      BY <3>2, <3>3
  <2>7. {n \in C!Range(got) : n > joined[c]} = C!Due(c)
    BY <2>6, Zenon
  <2> QED
    BY <2>1, <2>2, <2>7 DEF Heard
<1> QED
  BY <1>1, ChatInvHolds, PTL
====
