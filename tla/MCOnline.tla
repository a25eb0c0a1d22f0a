---- MODULE MCOnline ----
(* What callers on different nodes do to each other while they are online:    *)
(* the teleconference, notices, and a door for one. They share no state in    *)
(* the model: a behaviour is one of one of them, as part says from the start. *)
EXTENDS Notices

CONSTANTS Callers, Rooms, Main, Backlog, MaxLines

\* The names that stand for no caller and no room are none of theirs.
ASSUME OnlineAssumption == "nobody" \notin Callers /\ "nowhere" \notin Rooms /\ Main \in Rooms /\ Backlog \in Nat

\* One caller blocks the other.
Blocks == {<<"b", "a">>}

VARIABLES part,
  chatAt, room, members, out, chatFwd, lines, joined, shown,
  io, lock, doorAt, prog, child, outDone, outR, limit, hung

chatVars == <<chatAt, room, members, out, chatFwd, lines, joined, shown>>
doorVars == <<io, lock, doorAt, prog, child, outDone, outR, limit, hung>>

C == INSTANCE Chat WITH at <- chatAt, fwd <- chatFwd
D == INSTANCE Doors WITH at <- doorAt

OnlineInit ==
  /\ part \in {"chat", "notices", "door"}
  /\ Init /\ C!Init /\ D!Init /\ (part # "door" => io = "stdio")

OnlineNext ==
  /\ UNCHANGED part
  /\ \/ part = "chat" /\ C!Next /\ UNCHANGED <<vars, doorVars>>
     \/ part = "notices" /\ Next /\ UNCHANGED <<chatVars, doorVars>>
     \/ part = "door" /\ D!Next /\ UNCHANGED <<chatVars, vars>>

\* Nothing of a part that does not run is ever enabled by itself, so fairness of one
\* says nothing of the others.
OnlineSpec ==
  OnlineInit /\ [][OnlineNext]_<<part, vars, chatVars, doorVars>> /\ Fairness /\ D!Fairness

\* Chat: a caller sees all that is said in their room, in order.
ChatComplete == C!ChatComplete

\* Doors: a single-node door has one caller, and is locked for as long.
DoorForOne == D!DoorForOne

\* Doors: a visit ends when its time is up or its caller is gone.
DoorEnds == D!DoorEnds
====
