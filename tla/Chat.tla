---- MODULE Chat ----
(***************************************************************************)
(* The teleconference.                                                     *)
(*                                                                         *)
(* Sources: internal/bbs/chat.go, chatui.go.                               *)
(*                                                                         *)
(* The hub's operations run under its lock and are one step each.  A       *)
(* caller in chat has two goroutines: the session, which reads their lines *)
(* and at the end leaves the hub, closes done and waits, and forward,      *)
(* which shows what comes (notices too: see Notices).  A line is its       *)
(* number in the order the hub took the lines.  Who blocks whom is read    *)
(* once, on the way in.                                                    *)
(***************************************************************************)
EXTENDS Integers, Sequences, SequencesExt

CONSTANTS
  Callers,
  Rooms,
  Main,        \* defaultRoom
  Blocks,      \* pairs <<c, d>>: c blocks d, as read when c joins
  Backlog,     \* chatBacklog
  MaxLines     \* bound: lines, the hub's announcements included

Nobody  == "nobody"
Nowhere == "nowhere"

VARIABLES
  at,       \* the session: menu, chat, left (the hub) and closed (done)
  room,     \* chatMember.room
  members,  \* chatHub.rooms
  out,      \* chatMember.out
  fwd,      \* forward is running
  lines,    \* history: the lines, each with its room, its speaker and who missed it
  joined,   \* history: the number of lines when the caller came into their room
  shown     \* history: the lines forward showed since then

vars == <<at, room, members, out, fwd, lines, joined, shown>>
hub  == <<room, members, out, lines, joined>>

Init ==
  /\ at = [c \in Callers |-> "menu"]
  /\ room = [c \in Callers |-> Nowhere] /\ members = [r \in Rooms |-> {}]
  /\ out = [c \in Callers |-> <<>>]
  /\ fwd = [c \in Callers |-> FALSE]
  /\ lines = <<>> /\ joined = [c \in Callers |-> 0]
  /\ shown = [c \in Callers |-> <<>>]

-----------------------------------------------------------------------------
(* chatHub.                                                                *)

\* sendLocked's filter: the hub's own lines go to everybody.
Hears(c, from) == from = Nobody \/ <<c, from>> \notin Blocks

\* Line number n from somebody to those in a room, and the channels after it: a
\* member whose channel is full misses it.
Sent(chans, in, from, n) ==
  [c \in Callers |->
     IF c \in in /\ Hears(c, from) /\ Len(chans[c]) < Backlog THEN Append(chans[c], n) ELSE chans[c]]

Full(chans, in) == {c \in in : Len(chans[c]) >= Backlog}

Line(r, from, chans, in) == [room |-> r, from |-> from, missed |-> Full(chans, in)]

Say(c) ==
  /\ at[c] = "chat" /\ Len(lines) < MaxLines
  /\ LET r == room[c]
     IN /\ out' = Sent(out, members[r], c, Len(lines) + 1)
        /\ lines' = Append(lines, Line(r, c, out, members[r]))
  /\ UNCHANGED <<at, room, members, fwd, joined, shown>>

\* Mutant: the member stays in the room's map.
WithoutKept(c) == members

\* The rooms without a member.
Without(c) == [r \in Rooms |-> IF r = room[c] THEN members[r] \ {c} ELSE members[r]]

\* join: out of the old room, into the new one, and an announcement of either.
Join(c, r) ==
  LET rest == Without(c)
      old  == room[c]
      n    == Len(lines)
      bye  == IF old = Nowhere THEN <<>> ELSE <<Line(old, Nobody, out, rest[old])>>
      left == IF old = Nowhere THEN out ELSE Sent(out, rest[old], Nobody, n + 1)
      in   == rest[r] \union {c}
      hi   == n + Len(bye) + 1
  IN /\ hi <= MaxLines
     /\ members' = [rest EXCEPT ![r] = in] /\ room' = [room EXCEPT ![c] = r]
     /\ lines' = lines \o bye \o <<Line(r, Nobody, left, in)>>
     /\ joined' = [joined EXCEPT ![c] = hi - 1]
     /\ out' = Sent(left, in, Nobody, hi)
     /\ shown' = [shown EXCEPT ![c] = <<>>]

\* chatRoom: forward starts, then the caller joins the main room.
Enter(c) ==
  /\ at[c] = "menu"
  /\ Join(c, Main)
  /\ at' = [at EXCEPT ![c] = "chat"] /\ fwd' = [fwd EXCEPT ![c] = TRUE]

\* /join; the old room again is a room like any other.
JoinRoom(c, r) ==
  /\ at[c] = "chat" /\ Join(c, r)
  /\ UNCHANGED <<at, fwd>>

\* /q, or the line is gone: leave.
LeaveHub(c) ==
  /\ at[c] = "chat" /\ Len(lines) < MaxLines
  /\ members' = Without(c) /\ room' = [room EXCEPT ![c] = Nowhere]
  /\ out' = Sent(out, members'[room[c]], Nobody, Len(lines) + 1)
  /\ lines' = Append(lines, Line(room[c], Nobody, out, members'[room[c]]))
  /\ at' = [at EXCEPT ![c] = "left"]
  /\ joined' = [joined EXCEPT ![c] = 0] /\ shown' = [shown EXCEPT ![c] = <<>>]
  /\ UNCHANGED <<fwd>>

\* close(done).
CloseDone(c) ==
  /\ at[c] = "left"
  /\ at' = [at EXCEPT ![c] = "closed"]
  /\ UNCHANGED <<hub, fwd, shown>>

\* wg.Wait returns: back to the menu. A new visit has a member of its own.
Back(c) ==
  /\ at[c] = "closed" /\ ~fwd[c]
  /\ at' = [at EXCEPT ![c] = "menu"]
  /\ out' = [out EXCEPT ![c] = <<>>]
  /\ UNCHANGED <<room, members, lines, joined, fwd, shown>>

-----------------------------------------------------------------------------
(* forward, and its select.                                                *)

ShowLine(c) ==
  /\ fwd[c] /\ out[c] # <<>>
  /\ shown' = IF at[c] = "chat" THEN [shown EXCEPT ![c] = Append(@, Head(out[c]))] ELSE shown
  /\ out' = [out EXCEPT ![c] = Tail(@)]
  /\ UNCHANGED <<at, room, members, lines, joined, fwd>>

SeeDone(c) ==
  /\ fwd[c] /\ at[c] = "closed"
  /\ fwd' = [fwd EXCEPT ![c] = FALSE]
  /\ UNCHANGED <<at, hub, shown>>

Next ==
  \E c \in Callers :
    \/ Enter(c) \/ (\E r \in Rooms : JoinRoom(c, r)) \/ Say(c)
    \/ LeaveHub(c) \/ CloseDone(c) \/ Back(c)
    \/ ShowLine(c) \/ SeeDone(c)

Spec == Init /\ [][Next]_vars

-----------------------------------------------------------------------------
(* Properties.                                                             *)

Due(c) == {n \in joined[c] + 1 .. Len(lines) :
             lines[n].room = room[c] /\ Hears(c, lines[n].from) /\ c \notin lines[n].missed}

\* What a caller in chat has seen or will see since they came into their room
\* (join, sendLocked, forward) is what was said there, all of it, without what those
\* they block said and without what came while their backlog was full; nothing of any
\* other room, but for what still waited when they came in. And it comes in the order
\* it was said.
ChatComplete ==
  \A c \in Callers : at[c] = "chat" =>
    LET got == shown[c] \o out[c]
    IN /\ {n \in Range(got) : n > joined[c]} = Due(c)
       /\ \A i, j \in DOMAIN got : i < j => got[i] < got[j]
====
