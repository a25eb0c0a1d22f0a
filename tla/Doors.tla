---- MODULE Doors ----
(***************************************************************************)
(* Doors: a session starts a program, copies keys and output between it    *)
(* and the caller, and takes it down when it ends, when time is up or when *)
(* the caller hangs up.                                                    *)
(*                                                                         *)
(* Sources: internal/bbs/doors.go (runDoor, bridgeDoor),                   *)
(* internal/doors/process.go, kill_unix.go.                                *)
(*                                                                         *)
(* Per caller there run the session, the goroutine that copies output, the *)
(* goroutine in cmd.Wait, the watcher of the context that os/exec keeps,   *)
(* the program, and at most one child of it, which inherits its output.    *)
(* The child is in the program's process group or has left it (setsid).    *)
(* Drop files and the bytes themselves are left out.  The model has one    *)
(* door, a single-node one: visits to the others do not meet.              *)
(***************************************************************************)
EXTENDS Integers, FiniteSets

CONSTANT Callers

Nobody == "nobody"

VARIABLES
  io,      \* Door.IO: stdio, or tcp for a program that connects back
  lock,    \* the door's lock: who holds it
  at,      \* the session's place in doorsMenu, runDoor and bridgeDoor
  prog,    \* the program: none, up, dead, or waited (p.done is closed)
  child,   \* its child, if it runs: none, group or away
  outDone, \* the output goroutine has ended
  outR,    \* our end of the output is open
  limit,   \* the context's deadline has passed
  hung     \* the caller's connection is gone

vars    == <<io, lock, at, prog, child, outDone, outR, limit, hung>>
process == <<prog, child>>
output  == <<outDone, outR>>

InDoor(c) == at[c] \notin {"menu", "gone"}

Init ==
  /\ io \in {"stdio", "tcp"} /\ lock = Nobody
  /\ at = [c \in Callers |-> "menu"]
  /\ prog = [c \in Callers |-> "none"] /\ child = [c \in Callers |-> "none"]
  /\ outDone = [c \in Callers |-> FALSE] /\ outR = [c \in Callers |-> FALSE]
  /\ limit = [c \in Callers |-> FALSE] /\ hung = [c \in Callers |-> FALSE]

Goto(c, place) == at' = [at EXCEPT ![c] = place]

-----------------------------------------------------------------------------
(* runDoor: in and out.                                                    *)

\* TryLock; a caller who comes second is told so and is back in the menu.
RunDoor(c) ==
  /\ at[c] = "menu" /\ ~hung[c] /\ lock = Nobody
  /\ lock' = c
  /\ Goto(c, "start")
  /\ UNCHANGED <<io, process, output, limit, hung>>

\* The deferred Unlock and cancel, on the way to the menu or out of the session.
Leave(c, place) ==
  /\ lock' = Nobody
  /\ Goto(c, place)
  /\ prog' = [prog EXCEPT ![c] = "none"] /\ child' = [child EXCEPT ![c] = "none"]
  /\ outDone' = [outDone EXCEPT ![c] = FALSE] /\ outR' = [outR EXCEPT ![c] = FALSE]
  /\ limit' = [limit EXCEPT ![c] = FALSE]
  /\ UNCHANGED <<io, hung>>

\* Mutant: an error at the start returns before the deferred Unlock is set up.
StartFailsLocked(c) ==
  /\ at[c] = "start" /\ Goto(c, "menu")
  /\ UNCHANGED <<io, lock, process, output, limit, hung>>

\* Drop files, pipes or cmd.Start fail: a message and a pause, with the lock.
StartFails(c) ==
  /\ at[c] = "start" /\ Goto(c, "pause")
  /\ UNCHANGED <<io, lock, process, output, limit, hung>>

\* pause, which runDoor returns with: a key ends it, and so do a failed read and
\* the idle deadline, which end the session too.
Pause(c) ==
  /\ at[c] = "pause"
  /\ \E place \in {"menu", "gone"} : (hung[c] => place = "gone") /\ Leave(c, place)

Start(c) ==
  /\ at[c] = "start"
  /\ prog' = [prog EXCEPT ![c] = "up"]
  /\ outR' = [outR EXCEPT ![c] = TRUE]
  /\ Goto(c, IF io = "tcp" THEN "accept" ELSE "bridge")
  /\ UNCHANGED <<io, lock, child, outDone, limit, hung>>

\* acceptDoor: the program connects, or exits, or the time for it is over.
AcceptDoor(c) ==
  /\ at[c] = "accept" /\ prog[c] = "up"
  /\ Goto(c, "bridge")
  /\ UNCHANGED <<io, lock, process, output, limit, hung>>

AcceptFails(c) ==
  /\ at[c] = "accept"
  /\ Goto(c, "after")
  /\ UNCHANGED <<io, lock, process, output, limit, hung>>

-----------------------------------------------------------------------------
(* The program, its child, and the world.                                  *)

\* SIGKILL to the process group.
KillGroup(c) ==
  /\ prog' = IF prog[c] = "up" THEN [prog EXCEPT ![c] = "dead"] ELSE prog
  /\ child' = IF child[c] = "group" THEN [child EXCEPT ![c] = "none"] ELSE child

ProgramForks(c, kind) ==
  /\ prog[c] = "up" /\ child[c] = "none"
  /\ child' = [child EXCEPT ![c] = kind]
  /\ UNCHANGED <<io, lock, at, prog, output, limit, hung>>

ProgramExits(c) ==
  /\ prog[c] = "up"
  /\ prog' = [prog EXCEPT ![c] = "dead"]
  /\ UNCHANGED <<io, lock, at, child, output, limit, hung>>

ChildExits(c) ==
  /\ child[c] # "none"
  /\ child' = [child EXCEPT ![c] = "none"]
  /\ UNCHANGED <<io, lock, at, prog, output, limit, hung>>

\* cmd.Wait returns, at the latest WaitDelay after the program is dead.
Wait(c) ==
  /\ prog[c] = "dead"
  /\ prog' = [prog EXCEPT ![c] = "waited"]
  /\ UNCHANGED <<io, lock, at, child, output, limit, hung>>

TimeUp(c) ==
  /\ InDoor(c) /\ at[c] # "start" /\ ~limit[c]
  /\ limit' = [limit EXCEPT ![c] = TRUE]
  /\ UNCHANGED <<io, lock, at, process, output, hung>>

\* Mutant: a plain Command, which nothing watches.
WatchNot(c) == FALSE /\ UNCHANGED vars

\* The watcher of CommandContext, which ends with Wait.
Watch(c) ==
  /\ limit[c] /\ prog[c] = "up"
  /\ KillGroup(c)
  /\ UNCHANGED <<io, lock, at, output, limit, hung>>

HangUp(c) ==
  /\ ~hung[c]
  /\ hung' = [hung EXCEPT ![c] = TRUE]
  /\ UNCHANGED <<io, lock, at, process, output, limit>>

-----------------------------------------------------------------------------
(* bridgeDoor.                                                             *)

\* No process has the other end of the output any more, or ours is closed.
Eof(c) == ~outR[c] \/ (prog[c] # "up" /\ child[c] = "none")

\* The output goroutine ends.
OutputEnds(c) ==
  /\ InDoor(c) /\ at[c] \notin {"start", "accept", "pause"} /\ ~outDone[c] /\ Eof(c)
  /\ outDone' = [outDone EXCEPT ![c] = TRUE]
  /\ UNCHANGED <<io, lock, at, process, outR, limit, hung>>

\* Output that comes for a caller who is gone ends it too.
OutputFails(c) ==
  /\ at[c] \in {"bridge", "write", "drain"} /\ ~outDone[c] /\ hung[c]
  /\ outDone' = [outDone EXCEPT ![c] = TRUE]
  /\ UNCHANGED <<io, lock, at, process, outR, limit, hung>>

\* A key: p.Write waits for the program to read.
Key(c) ==
  /\ at[c] = "bridge" /\ ~hung[c]
  /\ Goto(c, "write")
  /\ UNCHANGED <<io, lock, process, output, limit, hung>>

ProgramReads(c) ==
  /\ at[c] = "write" /\ prog[c] = "up"
  /\ Goto(c, "bridge")
  /\ UNCHANGED <<io, lock, process, output, limit, hung>>

\* Wait has closed the pipe; a tcp door's connection has no other end any more.
WriteFails(c) ==
  /\ at[c] = "write" /\ prog[c] = "waited" /\ (io = "stdio" \/ child[c] = "none")
  /\ Goto(c, "bridge")
  /\ UNCHANGED <<io, lock, process, output, limit, hung>>

\* The select, with whatever is ready.
ReadError(c) == at[c] = "bridge" /\ hung[c] /\ Goto(c, "kill")
Expired(c)   == at[c] = "bridge" /\ limit[c] /\ Goto(c, "kill")
OutputOver(c) == at[c] = "bridge" /\ outDone[c] /\ Goto(c, "after")
ProgramDone(c) == at[c] = "bridge" /\ prog[c] = "waited" /\ Goto(c, "drain")

Select(c) ==
  /\ ReadError(c) \/ Expired(c) \/ OutputOver(c) \/ ProgramDone(c)
  /\ UNCHANGED <<io, lock, process, output, limit, hung>>

\* Kill, in the select or when the bridge has returned. Only the first signals; a
\* second finds nothing left of the group.
Kill(c) ==
  /\ at[c] \in {"kill", "after"}
  /\ KillGroup(c)
  /\ Goto(c, IF at[c] = "kill" THEN "killing" ELSE "killingAfter")
  /\ UNCHANGED <<io, lock, output, limit, hung>>

\* Kill waits for p.done and closes outR.
Killed(c) ==
  /\ at[c] = "killing" /\ prog[c] = "waited"
  /\ outR' = [outR EXCEPT ![c] = FALSE]
  /\ Goto(c, "drain")
  /\ UNCHANGED <<io, lock, process, outDone, limit, hung>>

\* <-outDone, "let its last screen through".
Drained(c) ==
  /\ at[c] = "drain" /\ outDone[c]
  /\ Goto(c, "after")
  /\ UNCHANGED <<io, lock, process, output, limit, hung>>

\* The bridge and Kill are over: out at once when the caller is gone, else a pause.
\* What has left the group lives on, outside the model.
Return(c) ==
  /\ at[c] = "killingAfter" /\ prog[c] = "waited"
  /\ \/ hung[c] /\ Leave(c, "gone")
     \/ /\ ~hung[c] /\ Goto(c, "pause")
        /\ UNCHANGED <<io, lock, process, output, limit, hung>>

SessionStep(c) ==
  \/ Start(c) \/ StartFails(c) \/ AcceptFails(c) \/ WriteFails(c) \/ Select(c)
  \/ Kill(c) \/ Killed(c) \/ Drained(c) \/ Return(c) \/ Pause(c)

ProgramStep(c) ==
  \/ AcceptDoor(c) \/ ProgramReads(c) \/ ProgramExits(c) \/ ChildExits(c)
  \/ \E kind \in {"group", "away"} : ProgramForks(c, kind)

Next ==
  \E c \in Callers :
    \/ RunDoor(c) \/ SessionStep(c) \/ ProgramStep(c) \/ Key(c)
    \/ Wait(c) \/ TimeUp(c) \/ Watch(c) \/ HangUp(c) \/ OutputEnds(c) \/ OutputFails(c)

Spec == Init /\ [][Next]_vars

\* The BBS's goroutines run and time passes, and select picks at random, so that keys
\* cannot hide for ever what else is ready. Programs, their children and callers do
\* what they like: none of their steps is fair. A pause ends without them, by the
\* idle deadline of the read (IdleTimeout is never zero).
Fairness ==
  \A c \in Callers : /\ WF_vars(SessionStep(c)) /\ SF_vars(Select(c)) /\ WF_vars(Wait(c)) /\ WF_vars(OutputEnds(c))
                     /\ WF_vars(TimeUp(c)) /\ WF_vars(Watch(c))

-----------------------------------------------------------------------------
(* Properties.                                                             *)

\* A single-node door (TryLock, the deferred Unlock) has one caller at most, and is
\* locked exactly while that caller is in it, on every way out: errors at the start,
\* exits, the limit, hang-ups.
DoorForOne ==
  LET inside == {c \in Callers : InDoor(c)}
  IN IF lock = Nobody THEN inside = {} ELSE inside = {lock}

\* The program exited by itself and its child has the output, which nobody closed,
\* or the connection the session is writing to.
WaitsForChild(c) ==
  /\ prog[c] = "waited" /\ child[c] # "none" /\ outR[c]
  /\ at[c] = "drain" \/ (at[c] = "write" /\ io = "tcp")

\* Once the time is up or the caller is gone, the visit ends and gives the lock back,
\* whether or not the program reads, exits or forks (Kill, CommandContext) and the
\* caller presses the key the pause at its end asks for. The exception is bridgeDoor's
\* case p.Done(), which waits for the output without Kill.
DoorEnds ==
  \A c \in Callers : InDoor(c) /\ (limit[c] \/ hung[c]) ~> ~InDoor(c) \/ WaitsForChild(c)
====
