---- MODULE Outbound ----
(***************************************************************************)
(* Outgoing netmail: the sysop's session and boar-ftn route add messages   *)
(* to a node's packet, under the node's .bsy file, and the mailer sends    *)
(* the packet.                                                             *)
(*                                                                         *)
(* Sources: internal/ftn/bso.go, route.go, internal/bbs/netmail.go         *)
(* (writeNetmail, sendNetmail), internal/store/netmail.go (sent copies),   *)
(* cmd/boar-ftn (route).                                                   *)
(*                                                                         *)
(* Hop is a constant map from messages to the next node, so a message      *)
(* without a route is one outside its domain.  The mailer (binkd) is       *)
(* external: it takes the same .bsy file for its session, and a session    *)
(* sends the packet whole or leaves it.                                    *)
(***************************************************************************)
EXTENDS Integers, Sequences, FiniteSets, SequencesExt

CONSTANTS
  Letters,     \* netmail the sysop writes: each sent by a session of its own
  Files,       \* files to route: sequences of messages, one of them in a run
  Hop,         \* routes.Hop: message -> node, for the messages that have a route
  OwnMail,     \* messages of a file for this system, or echomail
  Spoilt,      \* messages of a file in a ZIP member that cannot be read
  Huge,        \* messages of a file in a ZIP member over the size limit
  QueueTries,  \* netmailQueueTries
  MaxRuns,     \* bound: times boar-ftn route is run
  MaxFaults    \* bound: crashes and errors

VARIABLES
  bundle,   \* the messages of the file to route, in order
  bsy,      \* who holds a node's .bsy: "free", a writer, "mailer" or "dead"
  packet,   \* the packet file of each node
  w,        \* writers: what each is doing
  sentLog,  \* netmail table: letters with a sent copy
  told,     \* what the sysop was told of a letter
  file,     \* where the file to route is: "in" or "done"
  sent,     \* history: messages the mailer sent, with each copy
  ok,       \* history: messages whose Queue succeeded
  runs,     \* history: runs of route
  faults    \* history: crashes and errors

moving == <<bsy, packet, w, sentLog, told, file, sent, ok, runs, faults>>
vars   == <<bundle, moving>>

Nodes   == Range(Hop)
Router  == "route"
Writers == Letters \union {Router}
Msgs    == Letters \union UNION {Range(f) : f \in Files}

\* next is the message to queue (for the router, the number of it), buf the new
\* packet, in memory and then in the temporary file.
Resting == [at |-> "rest", next |-> 0, tries |-> 0, buf |-> <<>>]

Init ==
  /\ bundle \in Files
  /\ bsy = [n \in Nodes |-> "free"] /\ packet = [n \in Nodes |-> <<>>]
  /\ w = [x \in Writers |-> Resting]
  /\ sentLog = {} /\ told = [l \in Letters |-> "nothing"] /\ file = "in"
  /\ sent = <<>> /\ ok = {} /\ runs = 0 /\ faults = 0

Msg(x) == IF x = Router THEN bundle[w[x].next] ELSE x
Do(x, rec) == w' = [w EXCEPT ![x] = rec]
Goto(x, at) == Do(x, [w[x] EXCEPT !.at = at])

-----------------------------------------------------------------------------
(* Outbound.Queue.                                                         *)

\* Mutant: a .bsy file that is there does not matter.
FreeAlways(n) == TRUE

\* O_EXCL.
Free(n) == bsy[n] = "free"

\* What a failed Queue means: the session waits and tries again when the node was
\* busy; anything else, and the last try, ends the letter or the run.
GiveUp(x, busy) ==
  IF x \in Letters /\ busy /\ w[x].tries + 1 < QueueTries
  THEN /\ Do(x, [w[x] EXCEPT !.at = "lock", !.tries = @ + 1])
       /\ UNCHANGED told
  ELSE /\ Do(x, Resting)
       /\ told' = IF x \in Letters THEN [told EXCEPT ![x] = "failed"] ELSE told

Lock(x) ==
  /\ w[x].at = "lock"
  /\ IF Free(Hop[Msg(x)])
     THEN /\ bsy' = [bsy EXCEPT ![Hop[Msg(x)]] = x] /\ Goto(x, "read")
          /\ UNCHANGED told
     ELSE GiveUp(x, TRUE) /\ UNCHANGED bsy
  /\ UNCHANGED <<packet, sentLog, file, sent, ok, runs, faults>>

\* The packet that is there, or a new one, and the message; then a temporary file.
ReadPacket(x) ==
  /\ w[x].at = "read"
  /\ Do(x, [w[x] EXCEPT !.at = "rename", !.buf = Append(packet[Hop[Msg(x)]], Msg(x))])
  /\ UNCHANGED <<bsy, packet, sentLog, told, file, sent, ok, runs, faults>>

RenamePacket(x) ==
  /\ w[x].at = "rename"
  /\ packet' = [packet EXCEPT ![Hop[Msg(x)]] = w[x].buf]
  /\ ok' = ok \union {Msg(x)}
  /\ Do(x, [w[x] EXCEPT !.at = "unlock", !.buf = <<>>])
  /\ UNCHANGED <<bsy, sentLog, told, file, sent, runs, faults>>

\* Mutant: the flag is left behind.
UnlockForgets(x) ==
  /\ w[x].at = "unlock"
  /\ Goto(x, "queued")
  /\ UNCHANGED <<bsy, packet, sentLog, told, file, sent, ok, runs, faults>>

\* The deferred Remove, after the rename.
Unlock(x) ==
  /\ w[x].at = "unlock"
  /\ bsy' = [bsy EXCEPT ![Hop[Msg(x)]] = "free"]
  /\ Goto(x, "queued")
  /\ UNCHANGED <<packet, sentLog, told, file, sent, ok, runs, faults>>

\* The packet cannot be read or written: the flag goes, nothing was queued.
QueueFails(x) ==
  /\ w[x].at \in {"read", "rename"} /\ faults < MaxFaults
  /\ bsy' = [bsy EXCEPT ![Hop[Msg(x)]] = "free"]
  /\ GiveUp(x, FALSE) /\ faults' = faults + 1
  /\ UNCHANGED <<packet, sentLog, file, sent, ok, runs>>

\* The process ends where it is; a .bsy file it made stays.
CrashAt(x) ==
  /\ w[x].at # "rest" /\ faults < MaxFaults
  /\ bsy' = [n \in Nodes |-> IF bsy[n] = x THEN "dead" ELSE bsy[n]]
  /\ Do(x, Resting) /\ faults' = faults + 1
  /\ UNCHANGED <<packet, sentLog, told, file, sent, ok, runs>>

-----------------------------------------------------------------------------
(* The session: writeNetmail, sendNetmail.                                 *)

WriteNetmail(l) ==
  /\ w[l].at = "rest" /\ told[l] = "nothing" /\ l \notin ok
  /\ IF l \in DOMAIN Hop THEN Goto(l, "lock") /\ UNCHANGED told
     ELSE told' = [told EXCEPT ![l] = "failed"] /\ UNCHANGED w
  /\ UNCHANGED <<bsy, packet, sentLog, file, sent, ok, runs, faults>>

\* RecordSentNetmail, and what the sysop reads then; the copy may fail.
RecordSent(l) ==
  /\ w[l].at = "queued"
  /\ Do(l, Resting)
  /\ \/ /\ sentLog' = sentLog \union {l} /\ told' = [told EXCEPT ![l] = "queued"]
        /\ UNCHANGED faults
     \/ /\ faults < MaxFaults /\ faults' = faults + 1
        /\ told' = [told EXCEPT ![l] = "failed"] /\ UNCHANGED sentLog
  /\ UNCHANGED <<bsy, packet, file, sent, ok, runs>>

-----------------------------------------------------------------------------
(* boar-ftn route, run again while the file is where it was.               *)

\* ReadPackets fails: some member cannot be read, and none could.
ReadFails ==
  /\ Range(bundle) \intersect Spoilt # {}
  /\ Range(bundle) \subseteq Spoilt \union Huge

Route ==
  /\ w[Router].at = "rest" /\ file = "in" /\ runs < MaxRuns
  /\ runs' = runs + 1
  /\ Do(Router, IF ReadFails THEN Resting ELSE [Resting EXCEPT !.at = "queued"])
  /\ UNCHANGED <<bsy, packet, sentLog, told, file, sent, ok, faults>>

\* Messages route does not meet, because ReadPackets left their packet out, or
\* leaves alone.
Passed == OwnMail \union Spoilt \union Huge

\* Mutant: a message without a route is passed over.
NextMessageSkips(i) ==
  IF bundle[i] \in Passed \/ bundle[i] \notin DOMAIN Hop THEN "queued" ELSE "lock"

\* What is to be done with message i: nothing, queue it, or stop without a route.
NextMessage(i) ==
  IF bundle[i] \in Passed THEN "queued"
  ELSE IF bundle[i] \in DOMAIN Hop THEN "lock" ELSE "rest"

RouteNext ==
  /\ w[Router].at = "queued" /\ w[Router].next < Len(bundle)
  /\ LET i == w[Router].next + 1
     IN Do(Router, [Resting EXCEPT !.at = NextMessage(i), !.next = i])
  /\ UNCHANGED <<bsy, packet, sentLog, told, file, sent, ok, runs, faults>>

\* Everything is queued: the file moves to -done.
RouteDone ==
  /\ w[Router].at = "queued" /\ w[Router].next = Len(bundle)
  /\ file' = "done" /\ Do(Router, Resting)
  /\ UNCHANGED <<bsy, packet, sentLog, told, sent, ok, runs, faults>>

-----------------------------------------------------------------------------
(* The mailer.                                                             *)

Call(n) ==
  /\ bsy[n] = "free" /\ packet[n] # <<>>
  /\ bsy' = [bsy EXCEPT ![n] = "mailer"]
  /\ UNCHANGED <<packet, w, sentLog, told, file, sent, ok, runs, faults>>

HangUp(n) ==
  /\ bsy[n] = "mailer"
  /\ bsy' = [bsy EXCEPT ![n] = "free"]
  /\ \/ sent' = sent \o packet[n] /\ packet' = [packet EXCEPT ![n] = <<>>] /\ UNCHANGED faults
     \/ faults < MaxFaults /\ faults' = faults + 1 /\ UNCHANGED <<sent, packet>>
  /\ UNCHANGED <<w, sentLog, told, file, ok, runs>>

\* binkd removes a flag older than kill-old-bsy, 12 hours: nobody who is alive holds
\* one for so long.
KillOldBsy(n) ==
  /\ bsy[n] = "dead"
  /\ bsy' = [bsy EXCEPT ![n] = "free"]
  /\ UNCHANGED <<packet, w, sentLog, told, file, sent, ok, runs, faults>>

WriterStep(x) == Lock(x) \/ ReadPacket(x) \/ RenamePacket(x) \/ Unlock(x)

Next ==
  /\ UNCHANGED bundle
  /\ \/ \E x \in Writers : WriterStep(x) \/ QueueFails(x) \/ CrashAt(x)
     \/ \E l \in Letters : WriteNetmail(l) \/ RecordSent(l)
     \/ Route \/ RouteNext \/ RouteDone
     \/ \E n \in Nodes : Call(n) \/ HangUp(n) \/ KillOldBsy(n)

Spec == Init /\ [][Next]_vars

\* Processes go on with what they are doing, and the mailer calls nodes it has mail
\* for, ends its sessions and removes old flags.
Fairness ==
  /\ \A x \in Writers : WF_moving(WriterStep(x))
  /\ WF_moving(RouteNext) /\ WF_moving(RouteDone)
  /\ \A l \in Letters : WF_moving(RecordSent(l))
  /\ \A n \in Nodes : WF_moving(Call(n)) /\ WF_moving(HangUp(n)) /\ WF_moving(KillOldBsy(n))

-----------------------------------------------------------------------------
(* Properties.                                                             *)

Count(s, m) == Cardinality({i \in DOMAIN s : s[i] = m})

Copies(m) == Count(sent, m) + (IF m \in DOMAIN Hop THEN Count(packet[Hop[m]], m) ELSE 0)

\* No message whose Queue succeeded disappears, whoever wrote to or sent the packet
\* at the same time (the .bsy file), and none is out more often than it was tried:
\* a letter once, a routed message once for every run of route.
QueueKeeps ==
  \A m \in Msgs :
    /\ m \in ok => Copies(m) >= 1
    /\ Copies(m) <= IF m \in Letters THEN 1 ELSE runs

\* A routed file is in -done only when everything ReadPackets got out of it that is
\* not this system's own is queued, through every busy node, error and rerun.
RoutedQueued ==
  file = "done" => \A m \in Range(bundle) : m \in Passed \/ m \in ok

\* route (main.go:348): "FILE moves to -done once everything in it is queued; on any
\* error it stays put, to be tried again". Not kept: a packet that cannot be read is
\* skipped. See the run route_skips.
EverythingQueued ==
  file = "done" => \A m \in Range(bundle) : m \in OwnMail \/ m \in ok

\* What is queued is sent in the end, by the mailer's next session for the node, also
\* when a process died holding the node's .bsy (kill-old-bsy).
QueuedIsSent ==
  \A m \in Msgs : m \in ok ~> m \in Range(sent)
====
