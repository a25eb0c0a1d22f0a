---- MODULE Toss ----
(***************************************************************************)
(* Inbound FidoNet mail: bundles the mailer leaves are tossed into the     *)
(* echo area and the netmail box, and callers read the area.               *)
(*                                                                         *)
(* Sources: internal/ftntoss/toss.go, internal/store/echo.go, netmail.go   *)
(* (import), internal/ftn/inbound.go, internal/bbs/ftn.go, echo.go,        *)
(* cmd/boar-ftn (toss).                                                    *)
(*                                                                         *)
(* The BBS tosses every 30 seconds, boar-ftn toss when somebody runs it.   *)
(* Each message is imported in a transaction of its own and each file      *)
(* looked at by its path anew: hashed, opened, moved.  A process may stop  *)
(* between any two of these.  The mailer (binkd, external) puts whole      *)
(* files under names it uses again.  A bundle is a sequence of messages,   *)
(* each marked with what becomes of its packet: "fine", "spoilt" for a     *)
(* member of the ZIP that cannot be read, "huge" for one over the size     *)
(* limit.  Broken is a file that is no bundle.  There is one echo area.    *)
(***************************************************************************)
EXTENDS Integers, Sequences, FiniteSets, FiniteSetsExt, SequencesExt

CONSTANTS
  Tossers,     \* "bbs", "cli": the processes that toss
  Names,       \* names of files in an inbound directory
  Bundles,     \* contents: sequences of messages
  MaxEcho,     \* store.MaxEchoMessages
  MaxDrops,    \* bound: files the mailer leaves in a run
  MaxEchoId,   \* bound: highest echo message id
  MaxFaults    \* bound: crashes and database errors in a run

VARIABLES
  box,      \* inbound directories: directory and name -> the file there, a set
  done,     \* the tossed/ directory
  bad,      \* the bad/ directory
  tossed,   \* ftn_tossed: contents known by their hash
  echo,     \* echo_messages
  net,      \* netmail: ids of messages received
  job,      \* what each tosser is doing
  mark,     \* echo_reads.last_read_id of the caller
  list,     \* the messages the caller's session listed
  drops,    \* history: files left so far
  faults,   \* history: crashes and errors so far
  ever,     \* history: ids of messages that have been stored
  strange,  \* history: contents tossed as mail nobody vouches for
  listed    \* history: ids of the echo rows that were in a list

disk  == <<box, done, bad>>
db    == <<tossed, echo, net, ever, strange>>
caller == <<mark, list, listed>>
vars  == <<disk, db, caller, job, drops, faults>>

Dirs   == {"in", "in.insecure"}
Broken == <<>>
Idle   == [at |-> "idle", dir |-> "in", todo |-> {}, name |-> "", sum |-> Broken, rest |-> <<>>]

Init ==
  /\ box = [d \in Dirs |-> [n \in Names |-> {}]] /\ done = {} /\ bad = {}
  /\ tossed = {} /\ echo = {} /\ net = {} /\ ever = {} /\ strange = {}
  /\ job = [t \in Tossers |-> Idle]
  /\ mark = 0 /\ list = {} /\ listed = {}
  /\ drops = 0 /\ faults = 0

\* The mailer leaves a file; the name is free again once a tosser moved the last one.
Deliver(d, n, c) ==
  /\ drops < MaxDrops /\ box[d][n] = {}
  /\ drops' = drops + 1
  /\ box' = [box EXCEPT ![d][n] = {[n |-> drops + 1, dir |-> d, content |-> c]}]
  /\ UNCHANGED <<done, bad, db, caller, job, faults>>

-----------------------------------------------------------------------------
(* A pass: TossAll over both directories, Toss over the names each had.    *)

Present(d) == {n \in Names : box[d][n] # {}}
File(t)    == box[job[t].dir][job[t].name]
Step(t, next) == job' = [job EXCEPT ![t] = next]
Goto(t, at)   == Step(t, [job[t] EXCEPT !.at = at])

\* tossOnce, toss.
StartPass(t) ==
  /\ job[t].at = "idle"
  /\ Step(t, [Idle EXCEPT !.at = "dir", !.todo = Present("in")])
  /\ UNCHANGED <<disk, db, caller, drops, faults>>

NextDir(t) ==
  /\ job[t].at = "dir" /\ job[t].todo = {}
  /\ IF job[t].dir = "in"
     THEN Step(t, [Idle EXCEPT !.at = "dir", !.dir = "in.insecure", !.todo = Present("in.insecure")])
     ELSE Step(t, Idle)
  /\ UNCHANGED <<disk, db, caller, drops, faults>>

\* fileSHA256. A file that is gone ends the pass.
Hash(t, n) ==
  /\ job[t].at = "dir" /\ n \in job[t].todo
  /\ LET file == box[job[t].dir][n]
     IN IF file = {} THEN Step(t, Idle)
        ELSE \E f \in file : Step(t, [job[t] EXCEPT !.at = "hashed", !.name = n, !.sum = f.content,
                                                    !.todo = @ \ {n}])
  /\ UNCHANGED <<disk, db, caller, drops, faults>>

\* FTNFileSeen.
Look(t) ==
  /\ job[t].at = "hashed"
  /\ Goto(t, IF job[t].sum \in tossed THEN "seen" ELSE "open")
  /\ UNCHANGED <<disk, db, caller, drops, faults>>

\* EachPacket's error: the file is no bundle, or some packet cannot be read and
\* none could. A huge one is passed over without an error.
Unreadable(c) ==
  \/ c = Broken
  \/ /\ \E m \in Range(c) : m.packet = "spoilt"
     /\ \A m \in Range(c) : m.packet # "fine"

\* EachMessage opens what has the name now. Nothing is imported from a file
\* without a packet that can be read, so its error may come first.
Open(t) ==
  /\ job[t].at = "open"
  /\ IF File(t) = {} THEN Step(t, Idle)
     ELSE \E f \in File(t) :
            IF Unreadable(f.content) THEN Goto(t, "bad")
            ELSE Step(t, [job[t] EXCEPT !.at = "import", !.rest = f.content])
  /\ UNCHANGED <<disk, db, caller, drops, faults>>

NextId(ids) == IF ids = {} THEN 1 ELSE Max(ids) + 1

\* pruneEchoArea: the newest MaxEcho stay.
Pruned(rows) ==
  {r \in rows : Cardinality({q \in rows : q.id > r.id}) < MaxEcho}

\* Mutant: without a MSGID check every copy is a new message.
TakenNever(m) == FALSE

\* The MSGID is in the area already.
Taken(m) == \E r \in echo : r.msg = m.id

\* ImportEcho.
ImportEcho(m) ==
  /\ UNCHANGED net
  /\ IF Taken(m) THEN UNCHANGED <<echo, ever>>
     ELSE LET id == NextId({r.id : r \in echo})
          IN /\ id <= MaxEchoId
             /\ echo' = Pruned(echo \union {[id |-> id, msg |-> m.id]})
             /\ ever' = ever \union {m.id}

\* ImportNetmail. Pruning the box to MaxNetmailKept is left out.
ImportNetmail(m) ==
  /\ net' = net \union {m.id} /\ ever' = ever \union {m.id}
  /\ UNCHANGED echo

\* The addresses a tosser takes netmail for: boar-ftn toss is given none.
Own(t) == IF t = "bbs" THEN {"net"} ELSE {}

\* One message of the bundle; EachPacket passes over the packets it cannot read.
Import(t) ==
  /\ job[t].at = "import" /\ job[t].rest # <<>>
  /\ LET m == Head(job[t].rest)
     IN CASE m.packet # "fine" -> UNCHANGED <<echo, net, ever>>
          [] m.packet = "fine" /\ m.kind \in Own(t) -> ImportNetmail(m)
          [] m.packet = "fine" /\ m.kind = "echo" /\ job[t].dir = "in" -> ImportEcho(m)
          [] OTHER -> UNCHANGED <<echo, net, ever>>
  /\ Step(t, [job[t] EXCEPT !.rest = Tail(@)])
  /\ UNCHANGED <<disk, tossed, strange, caller, drops, faults>>

\* A transaction fails: the bundle counts as unreadable.
ImportFails(t) ==
  /\ job[t].at = "import" /\ job[t].rest # <<>> /\ faults < MaxFaults
  /\ Goto(t, "bad") /\ faults' = faults + 1
  /\ UNCHANGED <<disk, db, caller, drops>>

\* Mutant: the bundle is marked as soon as it is open.
MarkNowEarly(t) == job[t].at = "import"

MarkNow(t) == job[t].at = "import" /\ job[t].rest = <<>>

\* MarkFTNFile, with the hash from before.
MarkFile(t) ==
  /\ MarkNow(t)
  /\ tossed' = tossed \union {job[t].sum}
  /\ strange' = IF job[t].dir = "in.insecure" THEN strange \union {job[t].sum} ELSE strange
  /\ Goto(t, "move")
  /\ UNCHANGED <<disk, echo, net, ever, caller, drops, faults>>

Aside(t) == box' = [box EXCEPT ![job[t].dir][job[t].name] = {}]

\* Mutant: a file that was tossed before stays where it is.
MoveDoneNew(t) ==
  /\ job[t].at \in {"move", "seen"}
  /\ IF job[t].at = "move" THEN Aside(t) /\ done' = done \union File(t) ELSE UNCHANGED <<box, done>>
  /\ Goto(t, "dir")
  /\ UNCHANGED <<bad, db, caller, drops, faults>>

\* moveAside to tossed/: whatever has the name now. After a seen file an error is
\* ignored, otherwise it ends the pass.
MoveDone(t) ==
  /\ job[t].at \in {"move", "seen"}
  /\ Aside(t) /\ done' = done \union File(t)
  /\ IF File(t) = {} /\ job[t].at = "move" THEN Step(t, Idle) ELSE Goto(t, "dir")
  /\ UNCHANGED <<bad, db, caller, drops, faults>>

MoveBad(t) ==
  /\ job[t].at = "bad"
  /\ Aside(t) /\ bad' = bad \union File(t)
  /\ IF File(t) = {} THEN Step(t, Idle) ELSE Goto(t, "dir")
  /\ UNCHANGED <<done, db, caller, drops, faults>>

\* The process stops, or the pass ends early: the database fails outside a bundle's
\* import, or tossTICs returns an error, after which in.insecure is left for later.
Crash(t) ==
  /\ job[t].at # "idle" /\ faults < MaxFaults
  /\ Step(t, Idle) /\ faults' = faults + 1
  /\ UNCHANGED <<disk, db, caller, drops>>

-----------------------------------------------------------------------------
(* A caller reads the area: echoAreaView, echoNewScan, readEchoesWith.     *)

ListEcho ==
  /\ echo # {}
  /\ list' = {r.id : r \in echo} /\ listed' = listed \union {r.id : r \in echo}
  /\ UNCHANGED <<disk, db, mark, job, drops, faults>>

\* Mutant: reading marks all that there is.
ReadMarkNewest(i) == Max({mark} \union {r.id : r \in echo})

ReadMark(i) == Max({mark, i})

\* A message of the list, pruned by now or not; MarkEchoRead.
ReadEcho(i) ==
  /\ i \in list
  /\ mark' = ReadMark(i)
  /\ UNCHANGED <<disk, db, list, listed, job, drops, faults>>

TossStep(t) ==
  \/ StartPass(t) \/ NextDir(t) \/ (\E n \in job[t].todo : Hash(t, n)) \/ Look(t) \/ Open(t)
  \/ Import(t) \/ MarkFile(t) \/ MoveDone(t) \/ MoveBad(t)

Next ==
  \/ \E d \in Dirs, n \in Names, c \in Bundles : Deliver(d, n, c)
  \/ \E t \in Tossers : TossStep(t) \/ ImportFails(t) \/ Crash(t)
  \/ ListEcho \/ (\E i \in list : ReadEcho(i))

Spec == Init /\ [][Next]_vars

-----------------------------------------------------------------------------
(* Properties.                                                             *)

\* What the BBS takes, of the packets that can be read.
Importable(f, m) ==
  m.packet = "fine" /\ (m.kind = "net" \/ (m.kind = "echo" /\ f.dir = "in"))

\* A bundle in tossed/ has been tossed (Toss): each message of a packet that can be
\* read and that the BBS takes has been stored, whichever crashes and errors the
\* passes met and whatever names and contents came twice. What is lost is in the
\* packets EachPacket skips "so one corrupt packet does not block the rest of a
\* rescan" (inbound.go:29): they go to tossed/ with the others. The exception is
\* echomail whose bundle had first come as a stranger's: from then on its content
\* counts as tossed.
NothingLost ==
  \A f \in done : \A m \in Range(f.content) :
    Importable(f, m) => m.id \in ever \/ (m.kind = "echo" /\ f.content \in strange)

\* However often a bundle is tossed again, an area has a message once (ImportEcho),
\* and no more than MaxEchoMessages of them.
EchoOnce ==
  /\ \A r, q \in echo : r.msg = q.msg => r = q
  /\ Cardinality(echo) <= MaxEcho

\* What the caller's mark hides has been in a list of theirs (MarkEchoRead,
\* unreadEchoes), without exception: pruning takes the oldest rows, so that no id
\* of an echo message is ever given out again.
EchoNothingSkipped == \A r \in echo : r.id <= mark => r.id \in listed

\* Every file the mailer leaves is moved aside in the end, to tossed/ or to bad/.
BundlesLeave ==
  \A k \in 1..MaxDrops :
    (\E d \in Dirs, n \in Names : \E f \in box[d][n] : f.n = k) ~> (\E f \in done \union bad : f.n = k)

\* README.md: "Netmail for one of the node's addresses goes into the netmail box,
\* from either inbound": a bundle in tossed/ has its netmail in the box, that of the
\* packets that can be read.
NetmailArrives ==
  \A f \in done : \A m \in Range(f.content) : m.packet = "fine" /\ m.kind = "net" => m.id \in net
====
