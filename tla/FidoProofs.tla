---- MODULE FidoProofs ----
(****************************************************************************)
(* Incoming and outgoing FidoNet mail, for any bundles, files, routes,      *)
(* names, crashes and errors.                                               *)
(*                                                                          *)
(* The echo area. Its rows have ids and messages of their own. Pruning      *)
(* takes the oldest, so a mark or a listed id is never above the newest     *)
(* row, and the next id is above it.                                        *)
(*                                                                          *)
(* Bundles. The file being tossed is still under its name with the content  *)
(* that was hashed, as long as nobody else tosses; what is no longer to     *)
(* come of it is stored; so what is marked was stored, and what is put      *)
(* away is marked.                                                          *)
(*                                                                          *)
(* Packets. A writer from Lock to Unlock holds the .bsy of its node, so     *)
(* that the packet it has read is the packet that is there when it          *)
(* renames. Routing: everything before the message in hand is settled.      *)
(* Copies: a letter is queued once, and a message of the file is out once   *)
(* for every run at most, less one while the run has not come to it.        *)
(****************************************************************************)
EXTENDS MCFido, FiniteSetTheorems, SequenceTheorems, WellFoundedInduction, TLAPS

allVars == <<part, tossVars, outVars>>

-----------------------------------------------------------------------------
(* Numbers: the least and the greatest of a set of them.                   *)

LEMMA LeastNat ==
  ASSUME NEW S \in SUBSET Nat, S # {}
  PROVE \E m \in S : \A y \in S : m <= y
<1>1. PICK m \in S : \A y \in S : ~(<<y, m>> \in OpToRel(<, Nat))
  BY NatLessThanWellFounded, WFMin
<1>2. \A y \in S : ~(y < m)
  BY <1>1 DEF OpToRel
<1> QED
  BY <1>2

\* The id after those in use is above them all.
LEMMA EchoNextId ==
  ASSUME NEW S \in SUBSET Nat, NEW n \in Nat, \A y \in S : y <= n
  PROVE T!NextId(S) \in Nat /\ T!NextId(S) > 0 /\ \A y \in S : y < T!NextId(S)
<1>1. CASE S = {}
  BY <1>1 DEF T!NextId
<1>2. CASE S # {}
  <2> DEFINE U == {k \in Nat : \A y \in S : y <= k}
  <2>1. PICK m \in U : \A k \in U : m <= k
    BY LeastNat
  <2>2. m \in S
    <3> SUFFICES ASSUME m \notin S PROVE FALSE
      OBVIOUS
    <3>1. \A y \in S : y < m
      BY <2>1
    <3>2. PICK z \in S : z < m
      BY <1>2, <3>1
    <3>3. m - 1 \in U
      BY <2>1, <3>1, <3>2
    <3> QED
      BY <2>1, <3>3
  <2>3. PICK x \in S : x = T!Max(S) /\ \A y \in S : x >= y
    BY <2>1, <2>2 DEF T!Max
  <2>4. T!NextId(S) = x + 1
    BY <1>2, <2>3 DEF T!NextId
  <2> QED
    BY <2>3, <2>4
<1> QED
  BY <1>1, <1>2

LEMMA EchoMax2 ==
  ASSUME NEW a \in Nat, NEW b \in Nat
  PROVE T!Max({a, b}) \in {a, b} /\ T!Max({a, b}) >= a /\ T!Max({a, b}) >= b
<1>1. \E x \in {a, b} : \A y \in {a, b} : x >= y
  OBVIOUS
<1> QED
  BY <1>1 DEF T!Max

LEMMA SameCard == \A S : T!Cardinality(S) = Cardinality(S)
BY DEF T!Cardinality, Cardinality

-----------------------------------------------------------------------------
(* The echo area and its reader, whoever tosses.                           *)

\* Rows have ids of their own and messages of their own.
Rows(rows) ==
  /\ IsFiniteSet(rows) /\ \A r \in rows : r.id \in Nat /\ r.id > 0
  /\ \A r, q \in rows : r.id = q.id => r = q
  /\ \A r, q \in rows : r.msg = q.msg => r = q
  /\ \E n \in Nat : \A r \in rows : r.id <= n

\* What may be or become the mark: up to it all rows were listed, and it is not above
\* the newest row, so that the next id is above it.
Behind(rows, i) ==
  /\ i \in Nat /\ (i = 0 \/ \E r \in rows : r.id >= i)
  /\ \A r \in rows : r.id <= i => r.id \in listed

EchoInv ==
  /\ Rows(echo) /\ Cardinality(echo) <= MaxEcho
  /\ Behind(echo, mark) /\ \A i \in list : Behind(echo, i)

\* Pruning leaves no more than it may: take the oldest that stays, and all the others
\* that stay are newer than that.
LEMMA PrunedBound ==
  ASSUME NEW rows, Rows(rows)
  PROVE /\ T!Pruned(rows) \subseteq rows /\ Rows(T!Pruned(rows))
        /\ Cardinality(T!Pruned(rows)) <= MaxEcho
<1> DEFINE P == T!Pruned(rows)
           Newer(r) == {q \in rows : q.id > r.id}
<1>1. P \subseteq rows /\ \A r \in P : Cardinality(Newer(r)) < MaxEcho
  BY SameCard DEF T!Pruned
<1>2. IsFiniteSet(P) /\ Cardinality(P) \in Nat
  BY <1>1, FS_Subset, FS_CardinalityType DEF Rows
<1>3. Rows(P)
  BY <1>1, <1>2 DEF Rows
<1>4. CASE P = {}
  BY <1>1, <1>3, <1>4, FS_EmptySet, TossAssumption
<1>5. CASE P # {}
  <2> DEFINE ids == {r.id : r \in P}
  <2>1. ids \in SUBSET Nat /\ ids # {}
    BY <1>1, <1>5 DEF Rows
  <2>2. PICK m \in ids : \A y \in ids : m <= y
    BY <2>1, LeastNat
  <2>3. PICK o \in P : o.id = m
    BY <2>2
  <2>4. P \ {o} \subseteq Newer(o)
    <3> SUFFICES ASSUME NEW q \in P, q # o PROVE q \in rows /\ q.id > o.id
      OBVIOUS
    <3>1. q \in rows /\ o \in rows /\ q.id \in Nat /\ o.id \in Nat /\ q.id # o.id
      BY <1>1, <2>3 DEF Rows
    <3>2. o.id <= q.id
      BY <2>2, <2>3
    <3> QED
      BY <3>1, <3>2
  <2>5. IsFiniteSet(Newer(o)) /\ Cardinality(Newer(o)) \in Nat
    BY FS_Subset, FS_CardinalityType DEF Rows
  <2>6. Cardinality(P \ {o}) <= Cardinality(Newer(o))
    BY <2>4, <2>5, FS_Subset
  <2>7. Cardinality(P \ {o}) = Cardinality(P) - 1
    BY <1>2, <2>3, FS_RemoveElement
  <2> QED
    BY <1>1, <1>2, <1>3, <2>3, <2>5, <2>6, <2>7, TossAssumption
<1> QED
  BY <1>1, <1>3, <1>4, <1>5

\* A new row is the newest, so it stays; and it is above what was ever marked.
LEMMA ImportEchoKeeps == ASSUME EchoInv, NEW m, T!ImportEcho(m), UNCHANGED <<mark, list, listed>> PROVE EchoInv'
<1>1. CASE T!Taken(m)
  BY <1>1 DEF T!ImportEcho, EchoInv, Behind
<1>2. CASE ~T!Taken(m)
  <2> DEFINE ids  == {r.id : r \in echo}
             id   == T!NextId(ids)
             new  == [id |-> id, msg |-> m.id]
             rows == echo \union {new}
  <2>1. echo' = T!Pruned(rows) /\ \A r \in echo : r.msg # m.id
    BY <1>2 DEF T!ImportEcho, T!Taken
  <2>2. Rows(echo) /\ Behind(echo, mark) /\ \A i \in list : Behind(echo, i)
    BY DEF EchoInv
  <2>3. PICK n \in Nat : \A y \in ids : y <= n
    BY <2>2 DEF Rows
  <2>4. ids \in SUBSET Nat
    BY <2>2 DEF Rows
  <2>5. id \in Nat /\ id > 0 /\ \A y \in ids : y < id
    BY <2>3, <2>4, EchoNextId
  <2>6. \A r \in echo : r.id < id /\ r.id \in Nat
    BY <2>2, <2>5 DEF Rows
  <2>7. new.id = id /\ new.msg = m.id
    OBVIOUS
  <2> HIDE DEF id, new
  <2>8. Rows(rows)
    <3>1. IsFiniteSet(rows)
      BY <2>2, FS_AddElement DEF Rows
    <3>2. \A r \in rows : r.id \in Nat /\ r.id > 0 /\ r.id <= id
      BY <2>2, <2>5, <2>6, <2>7 DEF Rows
    <3>3. \A r, q \in rows : (r.id = q.id => r = q) /\ (r.msg = q.msg => r = q)
      BY <2>1, <2>2, <2>5, <2>6, <2>7 DEF Rows
    <3> QED
      BY <2>5, <3>1, <3>2, <3>3 DEF Rows
  <2>9. new \in echo'
    <3>1. {q \in rows : q.id > new.id} = {}
      BY <2>5, <2>6, <2>7
    <3>2. Cardinality({q \in rows : q.id > new.id}) < MaxEcho
      BY <3>1, FS_EmptySet, TossAssumption
    <3> QED
      BY <2>1, <3>2, SameCard DEF T!Pruned
  <2>10. Rows(echo') /\ Cardinality(echo') <= MaxEcho /\ echo' \subseteq rows
    BY <2>1, <2>8, PrunedBound
  <2>11. ASSUME NEW i, Behind(echo, i) PROVE Behind(echo, i)'
    <3>1. i \in Nat /\ i < id
      BY <2>5, <2>6, <2>11 DEF Behind
    <3>2. \A r \in echo' : r.id <= i => r \in echo
      BY <2>5, <2>7, <2>10, <3>1
    <3>3. \E r \in echo' : r.id >= i
      BY <2>5, <2>7, <2>9, <3>1
    <3> QED
      BY <2>11, <3>1, <3>2, <3>3 DEF Behind
  <2> QED
    BY <2>2, <2>10, <2>11 DEF EchoInv, Behind
<1> QED
  BY <1>1, <1>2

LEMMA ListEchoKeeps == ASSUME EchoInv, T!ListEcho PROVE EchoInv'
<1>1. /\ list' = {r.id : r \in echo} /\ listed' = listed \union {r.id : r \in echo}
      /\ UNCHANGED <<echo, mark>>
  BY DEF T!ListEcho, T!db
<1>2. \A r \in echo : r.id \in listed' /\ r.id \in Nat /\ r.id >= r.id
  BY <1>1 DEF EchoInv, Rows
<1>3. \A i \in list' : Behind(echo, i)'
  BY <1>1, <1>2 DEF Behind
<1> QED
  BY <1>1, <1>2, <1>3 DEF EchoInv, Behind

LEMMA ReadEchoKeeps == ASSUME EchoInv, NEW i, T!ReadEcho(i) PROVE EchoInv'
<1>1. /\ i \in list /\ mark' = T!Max({mark, i}) /\ UNCHANGED <<echo, list, listed>>
  BY DEF T!ReadEcho, T!ReadMark, T!db
<1>2. Behind(echo, mark) /\ Behind(echo, i)
  BY <1>1 DEF EchoInv
<1>3. mark' \in {mark, i}
  BY <1>1, <1>2, EchoMax2 DEF Behind
<1> QED
  BY <1>1, <1>2, <1>3 DEF EchoInv, Behind

LEMMA EchoInvHolds == Spec => []EchoInv
<1>1. Init => EchoInv
  <2> SUFFICES ASSUME Init PROVE EchoInv
    OBVIOUS
  <2>1. echo = {} /\ mark = 0 /\ list = {}
    BY DEF Init, T!Init
  <2> QED
    BY <2>1, FS_EmptySet, TossAssumption DEF EchoInv, Rows, Behind
<1>2. EchoInv /\ [Next]_allVars => EchoInv'
  <2>1. EchoInv /\ UNCHANGED <<echo, mark, list, listed>> => EchoInv'
    BY DEF EchoInv, Behind
  <2>2. ASSUME EchoInv, T!Next PROVE EchoInv'
    <3>1. ASSUME NEW t, T!TossStep(t) \/ T!ImportFails(t) \/ T!Crash(t) PROVE EchoInv'
      <4>1. CASE T!Import(t)
        <5>1. UNCHANGED <<mark, list, listed>>
          BY <4>1 DEF T!Import, T!caller
        <5>2. UNCHANGED echo \/ \E m : T!ImportEcho(m)
          BY <4>1 DEF T!Import, T!ImportNetmail
        <5> QED
          BY <2>1, <2>2, <5>1, <5>2, ImportEchoKeeps
      <4>2. CASE ~T!Import(t)
        BY <2>1, <2>2, <3>1, <4>2 DEF T!TossStep, T!StartPass, T!NextDir, T!Hash, T!Look, T!Open,
             T!MarkFile, T!MoveDone, T!MoveBad, T!ImportFails, T!Crash, T!db, T!caller
      <4> QED
        BY <4>1, <4>2
    <3>2. ASSUME NEW d, NEW n, NEW c, T!Deliver(d, n, c) PROVE EchoInv'
      BY <2>1, <2>2, <3>2 DEF T!Deliver, T!db, T!caller
    <3> QED
      BY <2>2, <3>1, <3>2, ListEchoKeeps, ReadEchoKeeps DEF T!Next
  <2>3. EchoInv /\ UNCHANGED tossVars => EchoInv'
    BY <2>1 DEF tossVars
  <2> QED
    BY <2>2, <2>3 DEF Next, allVars
<1> QED
  BY <1>1, <1>2, PTL DEF Spec, allVars

\* EchoOnce, for any tossers, bundles and MaxEchoMessages: however often bundles are
\* tossed again, an area has a message once, and no more than it may hold (ImportEcho,
\* pruneEchoArea).
THEOREM EchoHoldsOnce == Spec => []EchoOnce
<1>1. EchoInv => EchoOnce
  BY SameCard DEF EchoInv, Rows, EchoOnce, T!EchoOnce
<1> QED
  BY <1>1, EchoInvHolds, PTL

\* EchoNothingSkipped, for any tossers and bundles: the mark set from an old list
\* (MarkEchoRead) hides nothing that was imported since, and no pruning brings an id
\* back.
THEOREM NoEchoSkipped == Spec => []EchoNothingSkipped
<1>1. EchoInv => EchoNothingSkipped
  BY DEF EchoInv, Behind, EchoNothingSkipped, T!EchoNothingSkipped
<1> QED
  BY <1>1, EchoInvHolds, PTL

-----------------------------------------------------------------------------
(* Bundles, with the BBS the only tosser.                                  *)

Mail  == [id : STRING, kind : {"echo", "net", "transit"}, packet : {"fine", "spoilt", "huge"}]
TFile == [n : Nat, dir : T!Dirs, content : Seq(Mail)]

Busy == {"hashed", "seen", "open", "import", "move", "bad"}
Jobs == [at : {"idle", "dir"} \union Busy, dir : T!Dirs, todo : SUBSET Names, name : Names \union {""},
         sum : Seq(Mail), rest : Seq(Mail)]

\* At most one file has a name.
TossTypes ==
  /\ drops \in Nat /\ job \in [Tossers -> Jobs]
  /\ box \in [T!Dirs -> [Names -> SUBSET TFile]]
  /\ \A d \in T!Dirs, n \in Names : \A f, g \in box[d][n] : f = g

\* The file being tossed is still there, with the content that was hashed.
Holds(b, j) == j.at \in Busy => j.name \in Names /\ \E f \in b[j.dir][j.name] : f.content = j.sum

\* What is moved to tossed/ is marked.
Marked(ts, j) == j.at \in {"seen", "move"} => j.sum \in ts

Stored(ev, dir, m) ==
  m.packet = "fine" /\ (m.kind = "net" \/ (m.kind = "echo" /\ dir = "in")) => m.id \in ev

\* Of the bundle being imported, what is not to come is stored.
Reading(ev, j) ==
  j.at = "import" => \A m \in T!Range(j.sum) : m \in T!Range(j.rest) \/ Stored(ev, j.dir, m)

Kept(ev, st, c) ==
  \A m \in T!Range(c) :
    m.packet = "fine" => /\ m.kind = "net" => m.id \in ev
                         /\ m.kind = "echo" => m.id \in ev \/ c \in st

JobInv(b, ts, ev, j) == Holds(b, j) /\ Marked(ts, j) /\ Reading(ev, j)

KeptInv ==
  /\ \A r \in echo : r.msg \in ever
  /\ \A c \in tossed : Kept(ever, strange, c)
  /\ \A f \in done : f.content \in tossed

BundleInv == TossTypes /\ KeptInv /\ JobInv(box, tossed, ever, job["bbs"])

LEMMA IdleIsJob ==
  /\ T!Idle \in Jobs /\ \A b, ts, ev : JobInv(b, ts, ev, T!Idle)
  /\ T!Idle.at = "idle"
BY DEF T!Idle, T!Broken, T!Dirs, Jobs, JobInv, Holds, Marked, Reading, Busy

\* The steps of one tosser.
LEMMA OneTosser ==
  ASSUME Tossers = {"bbs"}, TossTypes, NEW j, job' = [job EXCEPT !["bbs"] = j], j \in Jobs
  PROVE job' \in [Tossers -> Jobs] /\ job'["bbs"] = j
BY DEF TossTypes

\* More stored, more marked: what held of a job holds.
LEMMA MoreStored ==
  ASSUME NEW b, NEW ts, NEW us, NEW ev, NEW fv, NEW j, ts \subseteq us, ev \subseteq fv,
         JobInv(b, ts, ev, j)
  PROVE JobInv(b, us, fv, j)
BY DEF JobInv, Holds, Marked, Reading, Stored

LEMMA HeadAndTail ==
  ASSUME NEW S, NEW s \in Seq(S), s # <<>>
  PROVE /\ Head(s) \in S /\ Tail(s) \in Seq(S)
        /\ \A m \in T!Range(s) : m = Head(s) \/ m \in T!Range(Tail(s))
<1>1. Len(s) \in Nat /\ Len(s) > 0 /\ DOMAIN s = 1..Len(s) /\ Head(s) = s[1] /\ Head(s) \in S
  OBVIOUS
<1>2. /\ Tail(s) \in Seq(S) /\ Len(Tail(s)) = Len(s) - 1 /\ DOMAIN Tail(s) = 1..(Len(s) - 1)
      /\ \A i \in 1..(Len(s) - 1) : Tail(s)[i] = s[i + 1]
  BY <1>1
<1>3. ASSUME NEW i \in DOMAIN s, i # 1 PROVE s[i] \in T!Range(Tail(s))
  <2>1. PICK k \in 1..(Len(s) - 1) : k = i - 1
    BY <1>1, <1>3
  <2>2. Tail(s)[k] = s[i]
    BY <1>1, <1>2, <2>1
  <2> QED
    BY <1>2, <2>1, <2>2 DEF T!Range
<1> QED
  BY <1>1, <1>2, <1>3 DEF T!Range

LEMMA DeliverKeeps ==
  ASSUME Tossers = {"bbs"}, BundleInv, NEW d \in T!Dirs, NEW n \in Names, NEW c \in Bundles, T!Deliver(d, n, c)
  PROVE BundleInv'
<1> DEFINE f == [n |-> drops + 1, dir |-> d, content |-> c]
<1>1. /\ TossTypes /\ box[d][n] = {} /\ drops' = drops + 1 /\ box' = [box EXCEPT ![d][n] = {f}]
      /\ UNCHANGED <<done, tossed, echo, ever, strange, job>>
  BY DEF BundleInv, T!Deliver, T!db
<1>2. f \in TFile
  BY <1>1, TossAssumption DEF TossTypes, TFile, Mail
<1> HIDE DEF f
<1>3. /\ box' \in [T!Dirs -> [Names -> SUBSET TFile]] /\ box'[d][n] = {f}
      /\ \A e \in T!Dirs, k \in Names : e # d \/ k # n => box'[e][k] = box[e][k]
  BY <1>1, <1>2 DEF TossTypes
<1>4. TossTypes'
  <2>1. \A e \in T!Dirs, k \in Names : \A g, h \in box'[e][k] : g = h
    BY <1>1, <1>3 DEF TossTypes
  <2> QED
    BY <1>1, <1>3, <2>1 DEF TossTypes
<1>5. ASSUME NEW j \in Jobs, Holds(box, j) PROVE Holds(box', j)
  <2>1. j.at \in Busy => j.dir \in T!Dirs /\ j.name \in Names /\ ~(j.dir = d /\ j.name = n)
    BY <1>1, <1>5 DEF Holds, Jobs
  <2> QED
    BY <1>3, <1>5, <2>1 DEF Holds
<1>6. job["bbs"] \in Jobs
  BY <1>1 DEF TossTypes
<1>7. JobInv(box', tossed, ever, job["bbs"])
  BY <1>5, <1>6 DEF BundleInv, JobInv
<1> QED
  BY <1>1, <1>4, <1>7 DEF BundleInv, KeptInv

LEMMA JobAt ==
  ASSUME NEW j \in Jobs, NEW a \in {"idle", "dir"} \union Busy
  PROVE /\ [j EXCEPT !.at = a] \in Jobs /\ [j EXCEPT !.at = a].at = a
        /\ [j EXCEPT !.at = a].dir = j.dir /\ [j EXCEPT !.at = a].name = j.name
        /\ [j EXCEPT !.at = a].sum = j.sum /\ [j EXCEPT !.at = a].rest = j.rest
BY DEF Jobs

LEMMA CalmJob ==
  ASSUME NEW j, j.at \in {"idle", "dir"} PROVE \A b, ts, ev : JobInv(b, ts, ev, j)
BY DEF JobInv, Holds, Marked, Reading, Busy

\* A step of the job that leaves the files and the base alone.
LEMMA JobStep ==
  ASSUME Tossers = {"bbs"}, BundleInv, NEW j \in Jobs, job' = [job EXCEPT !["bbs"] = j],
         JobInv(box, tossed, ever, j),
         UNCHANGED <<box, done, tossed, echo, ever, strange, drops>>
  PROVE BundleInv'
<1>1. job' \in [Tossers -> Jobs] /\ job'["bbs"] = j
  BY OneTosser DEF BundleInv
<1> QED
  BY <1>1 DEF BundleInv, TossTypes, KeptInv

LEMMA PassKeeps ==
  ASSUME Tossers = {"bbs"}, BundleInv, T!StartPass("bbs") \/ T!NextDir("bbs") \/ T!Crash("bbs")
  PROVE BundleInv'
<1>1. UNCHANGED <<box, done, tossed, echo, ever, strange, drops>>
  BY DEF T!StartPass, T!NextDir, T!Crash, T!disk, T!db
<1> DEFINE j == [T!Idle EXCEPT !.at = "dir", !.todo = T!Present("in")]
           i == [T!Idle EXCEPT !.at = "dir", !.dir = "in.insecure", !.todo = T!Present("in.insecure")]
<1>2. \A d : T!Present(d) \in SUBSET Names
  BY DEF T!Present
<1>3. j \in Jobs /\ j.at = "dir" /\ i \in Jobs /\ i.at = "dir"
  BY <1>2, IdleIsJob DEF T!Dirs, Jobs
<1> HIDE DEF i, j
<1>4. PICK k \in Jobs : k.at \in {"idle", "dir"} /\ job' = [job EXCEPT !["bbs"] = k]
  <2>1. CASE job' = [job EXCEPT !["bbs"] = T!Idle]
    BY <2>1, IdleIsJob
  <2>2. CASE T!StartPass("bbs")
    <3>1. job' = [job EXCEPT !["bbs"] = j]
      BY <2>2 DEF T!StartPass, T!Step, j
    <3> QED
      BY <1>3, <3>1
  <2>3. CASE T!NextDir("bbs")
    <3>1. job' = [job EXCEPT !["bbs"] = i] \/ job' = [job EXCEPT !["bbs"] = T!Idle]
      BY <2>3 DEF T!NextDir, T!Step, i
    <3> QED
      BY <1>3, <2>1, <3>1
  <2>4. CASE T!Crash("bbs")
    BY <2>1, <2>4 DEF T!Crash, T!Step
  <2> QED
    BY <2>2, <2>3, <2>4
<1>5. JobInv(box, tossed, ever, k)
  BY <1>4, CalmJob
<1> QED
  BY <1>1, <1>4, <1>5, JobStep

LEMMA HashKeeps ==
  ASSUME Tossers = {"bbs"}, BundleInv, NEW n, T!Hash("bbs", n) PROVE BundleInv'
<1>1. UNCHANGED <<box, done, tossed, echo, ever, strange, drops>>
  BY DEF T!Hash, T!disk, T!db
<1>2. CASE job' = [job EXCEPT !["bbs"] = T!Idle]
  BY <1>1, <1>2, IdleIsJob, JobStep
<1>3. CASE ~(job' = [job EXCEPT !["bbs"] = T!Idle])
  <2>1. PICK o \in Jobs : o = job["bbs"]
    BY DEF BundleInv, TossTypes
  <2>2. n \in o.todo /\ n \in Names /\ o.dir \in T!Dirs
    BY <2>1 DEF T!Hash, Jobs
  <2>3. PICK f \in box[o.dir][n] :
          job' = [job EXCEPT !["bbs"] = [o EXCEPT !.at = "hashed", !.name = n, !.sum = f.content, !.todo = @ \ {n}]]
    BY <1>3, <2>1 DEF T!Hash, T!Step
  <2>4. f \in TFile
    BY <2>2 DEF BundleInv, TossTypes
  <2> DEFINE j == [o EXCEPT !.at = "hashed", !.name = n, !.sum = f.content, !.todo = @ \ {n}]
  <2>5. j \in Jobs /\ j.at = "hashed" /\ j.name = n /\ j.sum = f.content /\ j.dir = o.dir
    BY <2>2, <2>4 DEF Jobs, TFile, Busy
  <2> HIDE DEF j
  <2>6. JobInv(box, tossed, ever, j)
    BY <2>2, <2>3, <2>5 DEF JobInv, Holds, Marked, Reading
  <2> QED
    BY <1>1, <2>3, <2>5, <2>6, JobStep DEF j
<1> QED
  BY <1>2, <1>3

LEMMA LookKeeps == ASSUME Tossers = {"bbs"}, BundleInv, T!Look("bbs") PROVE BundleInv'
<1>1. UNCHANGED <<box, done, tossed, echo, ever, strange, drops>>
  BY DEF T!Look, T!disk, T!db
<1>2. PICK o \in Jobs : o = job["bbs"] /\ o.at = "hashed"
  BY DEF BundleInv, TossTypes, T!Look
<1>3. PICK a \in {"seen", "open"} :
        job' = [job EXCEPT !["bbs"] = [o EXCEPT !.at = a]] /\ (a = "seen" => o.sum \in tossed)
  BY <1>2 DEF T!Look, T!Goto, T!Step
<1> DEFINE j == [o EXCEPT !.at = a]
<1>4. j \in Jobs /\ j.at = a /\ j.dir = o.dir /\ j.name = o.name /\ j.sum = o.sum
  BY JobAt DEF Busy
<1> HIDE DEF j
<1>5. JobInv(box, tossed, ever, j)
  BY <1>2, <1>3, <1>4 DEF BundleInv, JobInv, Holds, Marked, Reading, Busy
<1> QED
  BY <1>1, <1>3, <1>4, <1>5, JobStep DEF j

LEMMA OpenKeeps == ASSUME Tossers = {"bbs"}, BundleInv, T!Open("bbs") PROVE BundleInv'
<1>1. UNCHANGED <<box, done, tossed, echo, ever, strange, drops>>
  BY DEF T!Open, T!disk, T!db
<1>2. PICK o \in Jobs : o = job["bbs"] /\ o.at = "open"
  BY DEF BundleInv, TossTypes, T!Open
<1>3. CASE job' = [job EXCEPT !["bbs"] = T!Idle]
  BY <1>1, <1>3, IdleIsJob, JobStep
<1>4. CASE job' = [job EXCEPT !["bbs"] = [o EXCEPT !.at = "bad"]]
  <2> DEFINE j == [o EXCEPT !.at = "bad"]
  <2>1. j \in Jobs /\ j.at = "bad" /\ j.dir = o.dir /\ j.name = o.name /\ j.sum = o.sum
    BY JobAt DEF Busy
  <2> HIDE DEF j
  <2>2. JobInv(box, tossed, ever, j)
    BY <1>2, <2>1 DEF BundleInv, JobInv, Holds, Marked, Reading, Busy
  <2> QED
    BY <1>1, <1>4, <2>1, <2>2, JobStep DEF j
<1>5. ASSUME NEW f \in box[o.dir][o.name], job' = [job EXCEPT !["bbs"] = [o EXCEPT !.at = "import", !.rest = f.content]]
      PROVE BundleInv'
  <2> DEFINE j == [o EXCEPT !.at = "import", !.rest = f.content]
  <2>1. o.name \in Names /\ o.dir \in T!Dirs /\ \E g \in box[o.dir][o.name] : g.content = o.sum
    BY <1>2 DEF BundleInv, JobInv, Holds, Busy, Jobs
  <2>2. f.content = o.sum
    BY <2>1 DEF BundleInv, TossTypes
  <2>3. j \in Jobs /\ j.at = "import" /\ j.dir = o.dir /\ j.name = o.name /\ j.sum = o.sum /\ j.rest = o.sum
    BY <2>2 DEF Jobs, Busy
  <2> HIDE DEF j
  <2>4. JobInv(box, tossed, ever, j)
    BY <2>1, <2>3 DEF JobInv, Holds, Marked, Reading
  <2> QED
    BY <1>1, <1>5, <2>3, <2>4, JobStep DEF j
<1> QED
  BY <1>2, <1>3, <1>4, <1>5 DEF T!Open, T!Goto, T!Step, T!File

LEMMA ImportFailsKeeps == ASSUME Tossers = {"bbs"}, BundleInv, T!ImportFails("bbs") PROVE BundleInv'
<1>1. UNCHANGED <<box, done, tossed, echo, ever, strange, drops>>
  BY DEF T!ImportFails, T!disk, T!db
<1>2. PICK o \in Jobs : o = job["bbs"] /\ o.at = "import" /\ job' = [job EXCEPT !["bbs"] = [o EXCEPT !.at = "bad"]]
  BY DEF BundleInv, TossTypes, T!ImportFails, T!Goto, T!Step
<1> DEFINE j == [o EXCEPT !.at = "bad"]
<1>3. j \in Jobs /\ j.at = "bad" /\ j.dir = o.dir /\ j.name = o.name /\ j.sum = o.sum
  BY JobAt DEF Busy
<1> HIDE DEF j
<1>4. JobInv(box, tossed, ever, j)
  BY <1>2, <1>3 DEF BundleInv, JobInv, Holds, Marked, Reading, Busy
<1> QED
  BY <1>1, <1>2, <1>3, <1>4, JobStep DEF j

\* A message the BBS takes is stored, or its MSGID was there.
LEMMA ImportStores ==
  ASSUME KeptInv, T!Import("bbs"), NEW m, m = Head(job["bbs"].rest)
  PROVE /\ ever \subseteq ever' /\ Stored(ever', job["bbs"].dir, m)
        /\ \A r \in echo' : r.msg \in ever'
<1>1. T!Own("bbs") = {"net"}
  BY DEF T!Own
<1>2. CASE m.packet = "fine" /\ m.kind = "net"
  <2>1. T!ImportNetmail(m)
    BY <1>1, <1>2 DEF T!Import
  <2> QED
    BY <2>1 DEF T!ImportNetmail, KeptInv, Stored
<1>3. CASE m.packet = "fine" /\ m.kind # "net" /\ m.kind = "echo" /\ job["bbs"].dir = "in"
  <2>1. T!ImportEcho(m)
    BY <1>1, <1>3 DEF T!Import
  <2>2. CASE T!Taken(m)
    BY <2>1, <2>2 DEF T!ImportEcho, T!Taken, KeptInv, Stored
  <2>3. CASE ~T!Taken(m)
    <3>1. PICK id : echo' = T!Pruned(echo \union {[id |-> id, msg |-> m.id]}) /\ ever' = ever \union {m.id}
      BY <2>1, <2>3 DEF T!ImportEcho
    <3>2. \A r \in echo' : r \in echo \/ r.msg = m.id
      BY <3>1 DEF T!Pruned
    <3> QED
      BY <3>1, <3>2 DEF KeptInv, Stored
  <2> QED
    BY <2>2, <2>3
<1>4. CASE m.packet # "fine" \/ (m.kind # "net" /\ ~(m.kind = "echo" /\ job["bbs"].dir = "in"))
  <2>1. UNCHANGED <<echo, ever>>
    BY <1>1, <1>4 DEF T!Import
  <2> QED
    BY <1>4, <2>1 DEF KeptInv, Stored
<1> QED
  BY <1>2, <1>3, <1>4

LEMMA ImportKeeps == ASSUME Tossers = {"bbs"}, BundleInv, T!Import("bbs") PROVE BundleInv'
<1>1. UNCHANGED <<box, done, tossed, strange, drops>>
  BY DEF T!Import, T!disk
<1>2. PICK o \in Jobs : o = job["bbs"] /\ o.at = "import" /\ o.rest # <<>>
                        /\ job' = [job EXCEPT !["bbs"] = [o EXCEPT !.rest = Tail(@)]]
  BY DEF BundleInv, TossTypes, T!Import, T!Step
<1>3. o.rest \in Seq(Mail)
  BY DEF Jobs
<1>4. PICK m : m = Head(o.rest)
  OBVIOUS
<1>5. Tail(o.rest) \in Seq(Mail) /\ \A k \in T!Range(o.rest) : k = m \/ k \in T!Range(Tail(o.rest))
  BY <1>2, <1>3, <1>4, HeadAndTail
<1>6. /\ ever \subseteq ever' /\ Stored(ever', o.dir, m) /\ \A r \in echo' : r.msg \in ever'
  BY <1>2, <1>4, ImportStores DEF BundleInv
<1> DEFINE j == [o EXCEPT !.rest = Tail(@)]
<1>7. /\ j \in Jobs /\ j.at = "import" /\ j.dir = o.dir /\ j.name = o.name /\ j.sum = o.sum
      /\ j.rest = Tail(o.rest)
  BY <1>2, <1>5 DEF Jobs
<1> HIDE DEF j
<1>8. job' \in [Tossers -> Jobs] /\ job'["bbs"] = j
  BY <1>2, <1>7, OneTosser DEF BundleInv, j
<1>9. TossTypes'
  BY <1>1, <1>8 DEF BundleInv, TossTypes
<1>10. KeptInv'
  BY <1>1, <1>6 DEF BundleInv, KeptInv, Kept
<1>11. JobInv(box, tossed, ever, o)
  BY <1>2 DEF BundleInv
<1>12. Reading(ever', j)
  BY <1>2, <1>5, <1>6, <1>7, <1>11 DEF JobInv, Reading, Stored
<1>13. Holds(box, j) /\ Marked(tossed, j)
  BY <1>2, <1>7, <1>11 DEF JobInv, Holds, Marked
<1> QED
  BY <1>1, <1>8, <1>9, <1>10, <1>12, <1>13 DEF BundleInv, JobInv

LEMMA MarkFileKeeps == ASSUME Tossers = {"bbs"}, BundleInv, T!MarkFile("bbs") PROVE BundleInv'
<1>1. PICK o \in Jobs : /\ o = job["bbs"] /\ o.at = "import" /\ o.rest = <<>>
                        /\ job' = [job EXCEPT !["bbs"] = [o EXCEPT !.at = "move"]]
                        /\ tossed' = tossed \union {o.sum}
                        /\ strange' = IF o.dir = "in.insecure" THEN strange \union {o.sum} ELSE strange
                        /\ UNCHANGED <<box, done, echo, ever, drops>>
  BY DEF BundleInv, TossTypes, T!MarkFile, T!MarkNow, T!Goto, T!Step, T!disk
<1>2. JobInv(box, tossed, ever, o)
  BY <1>1 DEF BundleInv
<1> DEFINE j == [o EXCEPT !.at = "move"]
<1>3. j \in Jobs /\ j.at = "move" /\ j.dir = o.dir /\ j.name = o.name /\ j.sum = o.sum
  BY JobAt DEF Busy
<1> HIDE DEF j
<1>4. job' \in [Tossers -> Jobs] /\ job'["bbs"] = j
  BY <1>1, <1>3, OneTosser DEF BundleInv, j
<1>5. TossTypes'
  BY <1>1, <1>4 DEF BundleInv, TossTypes
<1>6. \A m \in T!Range(o.sum) : Stored(ever, o.dir, m)
  <2>1. T!Range(o.rest) = {}
    BY <1>1 DEF T!Range
  <2> QED
    BY <1>1, <1>2, <2>1 DEF JobInv, Reading
<1>7. strange \subseteq strange' /\ (o.dir = "in" \/ o.sum \in strange')
  BY <1>1 DEF Jobs, T!Dirs
<1>8. Kept(ever, strange', o.sum)
  BY <1>6, <1>7 DEF Kept, Stored
<1>9. KeptInv'
  BY <1>1, <1>7, <1>8 DEF BundleInv, KeptInv, Kept
<1>10. JobInv(box, tossed', ever, j)
  BY <1>1, <1>2, <1>3 DEF JobInv, Holds, Marked, Reading, Busy
<1> QED
  BY <1>1, <1>4, <1>5, <1>9, <1>10 DEF BundleInv

\* The file that is moved is the one that was hashed.
LEMMA MoveKeeps ==
  ASSUME Tossers = {"bbs"}, BundleInv, T!MoveDone("bbs") \/ T!MoveBad("bbs") PROVE BundleInv'
<1>1. PICK o \in Jobs : /\ o = job["bbs"] /\ o.at \in {"move", "seen", "bad"}
                        /\ box' = [box EXCEPT ![o.dir][o.name] = {}]
                        /\ done' = IF o.at = "bad" THEN done ELSE done \union box[o.dir][o.name]
                        /\ \/ job' = [job EXCEPT !["bbs"] = T!Idle]
                           \/ job' = [job EXCEPT !["bbs"] = [o EXCEPT !.at = "dir"]]
                        /\ UNCHANGED <<tossed, echo, ever, strange, drops>>
  BY DEF BundleInv, TossTypes, T!MoveDone, T!MoveBad, T!Aside, T!File, T!Goto, T!Step, T!db
<1>2. JobInv(box, tossed, ever, o) /\ TossTypes
  BY <1>1 DEF BundleInv
<1>3. o.name \in Names /\ o.dir \in T!Dirs
  BY <1>1, <1>2 DEF JobInv, Holds, Busy, Jobs
<1>4. \A f \in box[o.dir][o.name] : f.content = o.sum
  BY <1>1, <1>2, <1>3 DEF JobInv, Holds, TossTypes, Busy
<1>5. PICK k \in Jobs : k.at \in {"idle", "dir"} /\ job' = [job EXCEPT !["bbs"] = k]
  BY <1>1, JobAt, IdleIsJob
<1>6. job' \in [Tossers -> Jobs] /\ job'["bbs"] = k
  BY <1>2, <1>5, OneTosser
<1>7. /\ box' \in [T!Dirs -> [Names -> SUBSET TFile]]
      /\ \A e \in T!Dirs, n \in Names : box'[e][n] \subseteq box[e][n]
  BY <1>1, <1>2, <1>3 DEF TossTypes
<1>8. TossTypes'
  BY <1>1, <1>2, <1>6, <1>7 DEF TossTypes
<1>9. KeptInv'
  <2>1. \A f \in done' : f.content \in tossed
    BY <1>1, <1>2, <1>4 DEF BundleInv, KeptInv, JobInv, Marked
  <2> QED
    BY <1>1, <2>1 DEF BundleInv, KeptInv
<1> QED
  BY <1>5, <1>6, <1>8, <1>9, CalmJob DEF BundleInv

\* NothingLost, for any bundles, names, crashes and errors, where the BBS is the only
\* tosser (boar-ftn toss gives no addresses, and so takes no netmail): each message of a
\* bundle in tossed/ that the BBS takes and whose packet can be read has been stored, but
\* for echomail whose bundle had first come as a stranger's.
THEOREM NoMailLost == ASSUME Tossers = {"bbs"} PROVE Spec => []NothingLost
<1>1. Init => BundleInv
  <2> SUFFICES ASSUME Init PROVE BundleInv
    OBVIOUS
  <2>1. /\ box = [d \in T!Dirs |-> [n \in Names |-> {}]] /\ done = {} /\ tossed = {} /\ echo = {}
        /\ job = [t \in Tossers |-> T!Idle] /\ drops = 0
    BY DEF Init, T!Init
  <2>2. TossTypes
    BY <2>1, IdleIsJob DEF TossTypes
  <2> QED
    BY <2>1, <2>2, IdleIsJob DEF BundleInv, KeptInv
<1>2. BundleInv /\ [Next]_allVars => BundleInv'
  <2>1. BundleInv /\ UNCHANGED <<box, done, tossed, echo, ever, strange, job, drops>> => BundleInv'
    BY DEF BundleInv, TossTypes, KeptInv
  <2>2. ASSUME BundleInv, T!Next PROVE BundleInv'
    <3>1. ASSUME NEW t \in Tossers, T!TossStep(t) \/ T!ImportFails(t) \/ T!Crash(t) PROVE BundleInv'
      <4>1. t = "bbs"
        OBVIOUS
      <4> QED
        BY <2>2, <3>1, <4>1, PassKeeps, HashKeeps, LookKeeps, OpenKeeps, ImportKeeps, ImportFailsKeeps,
           MarkFileKeeps, MoveKeeps DEF T!TossStep
    <3>2. CASE T!ListEcho \/ \E i \in list : T!ReadEcho(i)
      BY <2>1, <2>2, <3>2 DEF T!ListEcho, T!ReadEcho, T!disk, T!db
    <3> QED
      BY <2>2, <3>1, <3>2, DeliverKeeps DEF T!Next
  <2>3. BundleInv /\ UNCHANGED tossVars => BundleInv'
    BY <2>1 DEF tossVars
  <2> QED
    BY <2>2, <2>3 DEF Next, allVars
<1>3. BundleInv => NothingLost
  BY DEF BundleInv, KeptInv, Kept, NothingLost, T!NothingLost, T!Importable
<1> QED
  BY <1>1, <1>2, <1>3, PTL DEF Spec, allVars

-----------------------------------------------------------------------------
(* Outgoing netmail: who holds a node's .bsy, and what is in a packet.     *)

Ats == {"rest", "lock", "read", "rename", "unlock", "queued"}
Wr  == [at : Ats, next : Nat, tries : Nat, buf : Seq(O!Msgs)]

OutTypes ==
  /\ bundle \in Files /\ runs \in Nat
  /\ w \in [O!Writers -> Wr] /\ bsy = [n \in O!Nodes |-> bsy[n]]
  /\ packet \in [O!Nodes -> Seq(O!Msgs)] /\ sent \in Seq(O!Msgs)

\* A writer queues a message that has a route, holds the node's .bsy from Lock to Unlock,
\* and what it is about to write is the packet that is there, with its message.
Addressed(x) ==
  w[x].at \in {"lock", "read", "rename", "unlock"} =>
    O!Msg(x) \in DOMAIN Hop /\ (x = O!Router => w[x].next \in DOMAIN bundle)

Locked(x) == w[x].at \in {"read", "rename", "unlock"} => bsy[Hop[O!Msg(x)]] = x

Buffered(x) == w[x].at = "rename" => w[x].buf = Append(packet[Hop[O!Msg(x)]], O!Msg(x))

Good(x) == Addressed(x) /\ Locked(x) /\ Buffered(x)

\* A packet has messages for its node.
PacketsInv ==
  \A n \in O!Nodes : \A i \in DOMAIN packet[n] : packet[n][i] \in DOMAIN Hop /\ Hop[packet[n][i]] = n

OutInv == OutTypes /\ PacketsInv /\ \A x \in O!Writers : Good(x)

LEMMA HopNode == \A m \in DOMAIN Hop : Hop[m] \in O!Nodes
BY DEF O!Nodes, O!Range

LEMMA WriterNames ==
  /\ \A x \in O!Writers : x \notin {"free", "mailer", "dead"}
  /\ O!Router \in O!Writers /\ O!Router \notin Letters /\ Letters \subseteq O!Writers
BY QueueAssumption DEF O!Writers, O!Router

LEMMA BundleSeq ==
  ASSUME NEW f \in Files
  PROVE /\ f \in Seq(STRING) /\ DOMAIN f = 1..Len(f) /\ Len(f) \in Nat
        /\ \A i \in DOMAIN f : f[i] \in O!Msgs /\ f[i] \notin Letters
        /\ \A i, j \in DOMAIN f : f[i] = f[j] => i = j
<1>1. /\ f \in Seq(STRING) /\ DOMAIN f = 1..Len(f) /\ Len(f) \in Nat
      /\ \A i, j \in DOMAIN f : f[i] = f[j] => i = j
      /\ \A i \in DOMAIN f : f[i] \notin Letters
  BY QueueAssumption
<1>2. \A i \in DOMAIN f : f[i] \in O!Range(f)
  BY DEF O!Range
<1> QED
  BY <1>1, <1>2 DEF O!Msgs

LEMMA RestingIsWr ==
  /\ O!Resting \in Wr /\ O!Resting.at = "rest" /\ O!Resting.next = 0
BY DEF O!Resting, Wr, Ats

LEMMA WrAt ==
  ASSUME NEW r \in Wr, NEW a \in Ats
  PROVE \E rec \in Wr : rec = [r EXCEPT !.at = a] /\ rec.at = a /\ rec.next = r.next
<1>1. [r EXCEPT !.at = a] \in Wr /\ [r EXCEPT !.at = a].at = a /\ [r EXCEPT !.at = a].next = r.next
  BY DEF Wr
<1> QED
  BY <1>1

\* The steps of a writer that change two fields.
WithTry(r)       == [r EXCEPT !.at = "lock", !.tries = @ + 1]
WithBuf(r, a, b) == [r EXCEPT !.at = a, !.buf = b]
WithMsg(r, a, i) == [r EXCEPT !.at = a, !.next = i]

LEMMA WrAgain ==
  ASSUME NEW r \in Wr
  PROVE WithTry(r) \in Wr /\ WithTry(r).at = "lock" /\ WithTry(r).next = r.next
<1>1. r.tries + 1 \in Nat /\ "lock" \in Ats
  BY DEF Wr, Ats
<1>2. \A n \in Nat : [r EXCEPT !.at = "lock", !.tries = n] \in Wr
  BY <1>1 DEF Wr
<1>3. WithTry(r) = [r EXCEPT !.at = "lock", !.tries = r.tries + 1]
  BY DEF WithTry
<1>4. WithTry(r).at = "lock" /\ WithTry(r).next = r.next
  BY DEF WithTry, Wr
<1>5. WithTry(r) \in Wr
  BY <1>1, <1>2, <1>3
<1> QED
  BY <1>4, <1>5

LEMMA WrBuf ==
  ASSUME NEW r \in Wr, NEW a \in Ats, NEW b \in Seq(O!Msgs)
  PROVE /\ WithBuf(r, a, b) \in Wr /\ WithBuf(r, a, b).at = a
        /\ WithBuf(r, a, b).buf = b /\ WithBuf(r, a, b).next = r.next
BY DEF Wr, WithBuf

LEMMA WrNext ==
  ASSUME NEW r \in Wr, NEW a \in Ats, NEW i \in Nat
  PROVE WithMsg(r, a, i) \in Wr /\ WithMsg(r, a, i).at = a /\ WithMsg(r, a, i).next = i
BY DEF Wr, WithMsg

\* What holds of a writer goes on while nobody touches the node it holds.
LEMMA OtherWriter ==
  ASSUME OutTypes, NEW y \in O!Writers, Good(y), w'[y] = w[y], bundle' = bundle,
         \A n \in O!Nodes : bsy[n] = y => bsy'[n] = y /\ packet'[n] = packet[n]
  PROVE Good(y)'
<1>1. O!Msg(y)' = O!Msg(y)
  BY DEF O!Msg
<1>2. Addressed(y)'
  BY <1>1 DEF Good, Addressed
<1>3. ASSUME w[y].at \in {"read", "rename", "unlock"}
      PROVE Hop[O!Msg(y)] \in O!Nodes /\ bsy[Hop[O!Msg(y)]] = y
  BY <1>3, HopNode DEF Good, Addressed, Locked
<1>4. Locked(y)'
  BY <1>1, <1>3 DEF Locked
<1>5. Buffered(y)'
  BY <1>1, <1>3 DEF Good, Buffered
<1> QED
  BY <1>2, <1>4, <1>5 DEF Good

\* A step of a writer, and of nobody else.
LEMMA WriterStep ==
  ASSUME OutInv, NEW x \in O!Writers, NEW rec \in Wr, w' = [w EXCEPT ![x] = rec],
         bundle' = bundle, runs' \in Nat, sent' = sent,
         bsy' = [n \in O!Nodes |-> bsy'[n]], packet' \in [O!Nodes -> Seq(O!Msgs)], PacketsInv',
         \A n \in O!Nodes : bsy[n] \in O!Writers \ {x} => bsy'[n] = bsy[n] /\ packet'[n] = packet[n],
         Good(x)'
  PROVE OutInv'
<1>1. /\ w' \in [O!Writers -> Wr] /\ \A y \in O!Writers : y # x => w'[y] = w[y]
  BY DEF OutInv, OutTypes
<1>2. ASSUME NEW y \in O!Writers, y # x PROVE Good(y)'
  <2>1. OutTypes /\ Good(y) /\ w'[y] = w[y]
    BY <1>1, <1>2 DEF OutInv
  <2>2. \A n \in O!Nodes : bsy[n] = y => bsy'[n] = y /\ packet'[n] = packet[n]
    BY <1>2
  <2> QED
    BY <2>1, <2>2, OtherWriter
<1>3. OutTypes'
  BY <1>1 DEF OutInv, OutTypes
<1> QED
  BY <1>2, <1>3 DEF OutInv

LEMMA CalmWriter ==
  ASSUME NEW x, w'[x].at \in {"rest", "queued"} PROVE Good(x)'
BY DEF Good, Addressed, Locked, Buffered

LEMMA SamePackets == ASSUME OutInv, packet' = packet PROVE PacketsInv' /\ packet' \in [O!Nodes -> Seq(O!Msgs)]
BY DEF OutInv, OutTypes, PacketsInv

\* A writer that has nothing in hand afterwards.
LEMMA CalmStep ==
  ASSUME OutInv, NEW x \in O!Writers, NEW rec \in Wr, rec.at \in {"rest", "queued"},
         w' = [w EXCEPT ![x] = rec], bundle' = bundle, runs' \in Nat, UNCHANGED <<sent, packet>>,
         bsy' = [n \in O!Nodes |-> bsy'[n]],
         \A n \in O!Nodes : bsy[n] \in O!Writers \ {x} => bsy'[n] = bsy[n]
  PROVE OutInv'
<1>1. w'[x] = rec
  BY DEF OutInv, OutTypes
<1>2. Good(x)'
  BY <1>1, CalmWriter
<1> QED
  BY <1>2, SamePackets, WriterStep

LEMMA WriterTypes ==
  ASSUME OutInv, NEW x \in O!Writers
  PROVE /\ OutTypes /\ PacketsInv /\ Good(x) /\ w[x] \in Wr
        /\ x # O!Router => O!Msg(x) = x
        /\ w[x].at \in {"lock", "read", "rename", "unlock"} =>
             O!Msg(x) \in DOMAIN Hop /\ Hop[O!Msg(x)] \in O!Nodes /\ O!Msg(x) \in O!Msgs
<1>1. OutTypes /\ PacketsInv /\ Good(x) /\ w[x] \in Wr
  BY DEF OutInv, OutTypes
<1>2. x # O!Router => O!Msg(x) = x
  BY DEF O!Msg
<1>3. ASSUME w[x].at \in {"lock", "read", "rename", "unlock"}
      PROVE O!Msg(x) \in DOMAIN Hop /\ Hop[O!Msg(x)] \in O!Nodes /\ O!Msg(x) \in O!Msgs
  <2>1. O!Msg(x) \in DOMAIN Hop /\ (x = O!Router => w[x].next \in DOMAIN bundle)
    BY <1>1, <1>3 DEF Good, Addressed
  <2>2. CASE x = O!Router
    BY <1>1, <2>1, <2>2, HopNode, BundleSeq DEF O!Msg, OutTypes
  <2>3. CASE x # O!Router
    BY <1>2, <2>1, <2>3, HopNode DEF O!Msgs, O!Writers
  <2> QED
    BY <2>2, <2>3
<1> QED
  BY <1>1, <1>2, <1>3

\* The next message of a writer is as it was when only at, tries and buf change.
LEMMA SameMsg ==
  ASSUME OutInv, NEW x \in O!Writers, NEW rec \in Wr, w' = [w EXCEPT ![x] = rec],
         rec.next = w[x].next, bundle' = bundle
  PROVE O!Msg(x)' = O!Msg(x) /\ w'[x] = rec
BY DEF OutInv, OutTypes, O!Msg

\* What a failed Queue does: again, or nothing in hand.
LEMMA GiveUpStep ==
  ASSUME OutInv, NEW x \in O!Writers, NEW busy, O!GiveUp(x, busy), w[x].at \in {"lock", "read", "rename"}
  PROVE \E rec \in Wr : /\ w' = [w EXCEPT ![x] = rec]
                        /\ \/ rec.at = "rest" /\ rec.next = 0
                           \/ x \in Letters /\ busy /\ rec.at = "lock" /\ rec.next = w[x].next
<1>1. PICK o \in Wr : o = w[x]
  BY WriterTypes
<1>2. CASE w' = [w EXCEPT ![x] = O!Resting]
  BY <1>2, RestingIsWr
<1>3. CASE x \in Letters /\ busy /\ w' = [w EXCEPT ![x] = WithTry(o)]
  BY <1>1, <1>3, WrAgain
<1> QED
  BY <1>1, <1>2, <1>3 DEF O!GiveUp, O!Do, WithTry

LEMMA LockKeeps ==
  ASSUME OutInv, bundle' = bundle, NEW x \in O!Writers, O!Lock(x) PROVE OutInv'
<1>1. /\ OutTypes /\ Good(x) /\ w[x] \in Wr /\ w[x].at = "lock" /\ runs' \in Nat
      /\ UNCHANGED <<packet, sent, runs>>
  BY WriterTypes DEF O!Lock, OutTypes
<1>2. PICK h \in O!Nodes : h = Hop[O!Msg(x)]
  BY <1>1, WriterTypes
<1>3. PacketsInv' /\ packet' \in [O!Nodes -> Seq(O!Msgs)]
  BY <1>1, SamePackets
<1>4. CASE O!Free(h)
  <2>1. bsy' = [bsy EXCEPT ![h] = x] /\ w' = [w EXCEPT ![x] = [w[x] EXCEPT !.at = "read"]]
    BY <1>2, <1>4 DEF O!Lock, O!Goto, O!Do
  <2>2. PICK rec \in Wr : rec = [w[x] EXCEPT !.at = "read"] /\ rec.at = "read" /\ rec.next = w[x].next
    BY <1>1, WrAt DEF Ats
  <2>3. /\ bsy' = [n \in O!Nodes |-> bsy'[n]] /\ bsy'[h] = x
        /\ \A n \in O!Nodes : n # h => bsy'[n] = bsy[n]
    BY <1>1, <2>1 DEF OutTypes
  <2>4. bsy[h] \notin O!Writers
    BY <1>4, WriterNames DEF O!Free
  <2>5. O!Msg(x)' = O!Msg(x) /\ w'[x] = rec
    BY <2>1, <2>2, SameMsg
  <2>6. Good(x)'
    BY <1>1, <1>2, <2>2, <2>3, <2>5 DEF Good, Addressed, Locked, Buffered
  <2> QED
    BY <1>1, <1>3, <2>1, <2>2, <2>3, <2>4, <2>6, WriterStep
<1>5. CASE ~O!Free(h)
  <2>1. O!GiveUp(x, TRUE) /\ bsy' = bsy
    BY <1>2, <1>5 DEF O!Lock
  <2>2. PICK rec \in Wr : /\ w' = [w EXCEPT ![x] = rec]
                          /\ (rec.at = "rest" /\ rec.next = 0) \/ (rec.at = "lock" /\ rec.next = w[x].next)
    BY <1>1, <2>1, GiveUpStep
  <2>3. bsy' = [n \in O!Nodes |-> bsy'[n]]
    BY <1>1, <2>1 DEF OutTypes
  <2>4. CASE rec.at = "rest"
    BY <1>1, <2>1, <2>2, <2>3, <2>4, CalmStep
  <2>5. CASE rec.at = "lock" /\ rec.next = w[x].next
    <3>1. O!Msg(x)' = O!Msg(x) /\ w'[x] = rec
      BY <2>2, <2>5, SameMsg
    <3>2. Good(x)'
      BY <1>1, <2>5, <3>1 DEF Good, Addressed, Locked, Buffered
    <3> QED
      BY <1>1, <1>3, <2>1, <2>2, <2>3, <3>2, WriterStep
  <2> QED
    BY <2>2, <2>4, <2>5
<1> QED
  BY <1>4, <1>5

LEMMA ReadPacketKeeps ==
  ASSUME OutInv, bundle' = bundle, NEW x \in O!Writers, O!ReadPacket(x) PROVE OutInv'
<1>1. /\ OutTypes /\ Good(x) /\ w[x] \in Wr /\ w[x].at = "read" /\ runs' \in Nat
      /\ UNCHANGED <<bsy, packet, sent, runs>>
  BY WriterTypes DEF O!ReadPacket, OutTypes
<1>2. PICK h \in O!Nodes : h = Hop[O!Msg(x)]
  BY <1>1, WriterTypes
<1>3. PICK m \in O!Msgs : m = O!Msg(x)
  BY <1>1, WriterTypes
<1>4. PICK b \in Seq(O!Msgs) : b = Append(packet[h], m)
  <2>1. packet[h] \in Seq(O!Msgs)
    BY <1>1 DEF OutTypes
  <2>2. Append(packet[h], m) \in Seq(O!Msgs)
    BY <2>1, AppendProperties
  <2> QED
    BY <2>2
<1>5. w' = [w EXCEPT ![x] = WithBuf(w[x], "rename", b)]
  BY <1>2, <1>3, <1>4 DEF O!ReadPacket, O!Do, WithBuf
<1>6. PICK rec \in Wr : /\ rec = WithBuf(w[x], "rename", b)
                        /\ rec.at = "rename" /\ rec.buf = b /\ rec.next = w[x].next
  <2>1. "rename" \in Ats
    BY DEF Ats
  <2>2. /\ WithBuf(w[x], "rename", b) \in Wr /\ WithBuf(w[x], "rename", b).at = "rename"
        /\ WithBuf(w[x], "rename", b).buf = b /\ WithBuf(w[x], "rename", b).next = w[x].next
    BY <1>1, <2>1, WrBuf
  <2> QED
    BY <2>2
<1>7. O!Msg(x)' = O!Msg(x) /\ w'[x] = rec
  BY <1>5, <1>6, SameMsg
<1>8. Good(x)'
  BY <1>1, <1>2, <1>3, <1>4, <1>6, <1>7 DEF Good, Addressed, Locked, Buffered
<1>9. bsy' = [n \in O!Nodes |-> bsy'[n]]
  BY <1>1 DEF OutTypes
<1>10. PacketsInv' /\ packet' \in [O!Nodes -> Seq(O!Msgs)]
  BY <1>1, SamePackets
<1> QED
  BY <1>1, <1>5, <1>6, <1>8, <1>9, <1>10, WriterStep

\* What a rename puts in place is the old packet and the message.
LEMMA RenamedPacket ==
  ASSUME OutInv, NEW x \in O!Writers, O!RenamePacket(x)
  PROVE \E h \in O!Nodes, m \in O!Msgs :
          /\ m = O!Msg(x) /\ m \in DOMAIN Hop /\ h = Hop[m] /\ bsy[h] = x
          /\ packet' = [packet EXCEPT ![h] = Append(packet[h], m)] /\ ok' = ok \union {m}
<1>1. Good(x) /\ w[x].at = "rename"
  BY WriterTypes DEF O!RenamePacket
<1>2. PICK m \in O!Msgs : m = O!Msg(x) /\ m \in DOMAIN Hop /\ Hop[m] \in O!Nodes
  BY <1>1, WriterTypes
<1>3. bsy[Hop[m]] = x /\ w[x].buf = Append(packet[Hop[m]], m)
  BY <1>1, <1>2 DEF Good, Locked, Buffered
<1> QED
  BY <1>2, <1>3 DEF O!RenamePacket

LEMMA RenamePacketKeeps ==
  ASSUME OutInv, bundle' = bundle, NEW x \in O!Writers, O!RenamePacket(x) PROVE OutInv'
<1>1. /\ OutTypes /\ PacketsInv /\ Good(x) /\ w[x] \in Wr /\ w[x].at = "rename" /\ runs' \in Nat
      /\ UNCHANGED <<bsy, sent, runs>>
      /\ w' = [w EXCEPT ![x] = WithBuf(w[x], "unlock", <<>>)]
  BY WriterTypes DEF O!RenamePacket, OutTypes, O!Do, WithBuf
<1>2. PICK h \in O!Nodes, m \in O!Msgs :
        /\ m = O!Msg(x) /\ m \in DOMAIN Hop /\ h = Hop[m] /\ bsy[h] = x
        /\ packet' = [packet EXCEPT ![h] = Append(packet[h], m)]
  BY RenamedPacket
<1>3. PICK rec \in Wr : /\ rec = WithBuf(w[x], "unlock", <<>>)
                        /\ rec.at = "unlock" /\ rec.next = w[x].next
  <2>1. PICK e \in Seq(O!Msgs) : e = <<>>
    BY EmptySeq
  <2>2. "unlock" \in Ats
    BY DEF Ats
  <2>3. /\ WithBuf(w[x], "unlock", e) \in Wr /\ WithBuf(w[x], "unlock", e).at = "unlock"
        /\ WithBuf(w[x], "unlock", e).next = w[x].next
    BY <1>1, <2>2, WrBuf
  <2> QED
    BY <2>1, <2>3
<1>4. O!Msg(x)' = O!Msg(x) /\ w'[x] = rec
  BY <1>1, <1>3, SameMsg
<1>5. Good(x)'
  BY <1>1, <1>3, <1>4 DEF Good, Addressed, Locked, Buffered
<1>6. /\ packet' \in [O!Nodes -> Seq(O!Msgs)] /\ packet'[h] = Append(packet[h], m)
      /\ \A n \in O!Nodes : n # h => packet'[n] = packet[n]
  BY <1>1, <1>2 DEF OutTypes
<1>7. PacketsInv'
  <2>1. \A i \in DOMAIN packet'[h] : packet'[h][i] \in DOMAIN Hop /\ Hop[packet'[h][i]] = h
    BY <1>1, <1>2, <1>6 DEF PacketsInv, OutTypes
  <2> QED
    BY <1>1, <1>6, <2>1 DEF PacketsInv
<1>8. bsy' = [n \in O!Nodes |-> bsy'[n]]
  BY <1>1 DEF OutTypes
<1> QED
  BY <1>1, <1>2, <1>3, <1>5, <1>6, <1>7, <1>8, WriterStep

\* The flag that goes is the writer's own.
LEMMA LetGoKeeps ==
  ASSUME OutInv, bundle' = bundle, NEW x \in O!Writers, O!Unlock(x) \/ O!QueueFails(x) \/ O!CrashAt(x)
  PROVE OutInv'
<1>1. /\ OutTypes /\ Good(x) /\ w[x] \in Wr /\ runs' \in Nat /\ UNCHANGED <<packet, sent, runs>>
  BY WriterTypes DEF O!Unlock, O!QueueFails, O!CrashAt, OutTypes
<1>2. PICK rec \in Wr : rec.at \in {"rest", "queued"} /\ w' = [w EXCEPT ![x] = rec]
  <2>1. CASE O!Unlock(x)
    <3>1. w' = [w EXCEPT ![x] = [w[x] EXCEPT !.at = "queued"]]
      BY <2>1 DEF O!Unlock, O!Goto, O!Do
    <3>2. PICK rec \in Wr : rec = [w[x] EXCEPT !.at = "queued"] /\ rec.at = "queued"
      BY <1>1, WrAt DEF Ats
    <3> QED
      BY <3>1, <3>2
  <2>2. CASE O!QueueFails(x)
    BY <2>2, GiveUpStep DEF O!QueueFails
  <2>3. CASE O!CrashAt(x)
    BY <2>3, RestingIsWr DEF O!CrashAt, O!Do
  <2> QED
    BY <2>1, <2>2, <2>3
<1>3. /\ bsy' = [n \in O!Nodes |-> bsy'[n]]
      /\ \A n \in O!Nodes : bsy[n] \in O!Writers \ {x} => bsy'[n] = bsy[n]
  <2>1. CASE O!Unlock(x) \/ O!QueueFails(x)
    <3>1. w[x].at \in {"read", "rename", "unlock"} /\ bsy' = [bsy EXCEPT ![Hop[O!Msg(x)]] = "free"]
      BY <2>1 DEF O!Unlock, O!QueueFails
    <3>2. bsy[Hop[O!Msg(x)]] = x
      BY <1>1, <3>1 DEF Good, Locked
    <3> QED
      BY <1>1, <3>1, <3>2 DEF OutTypes
  <2>2. CASE O!CrashAt(x)
    <3>1. bsy' = [n \in O!Nodes |-> IF bsy[n] = x THEN "dead" ELSE bsy[n]]
      BY <2>2 DEF O!CrashAt
    <3> QED
      BY <3>1
  <2> QED
    BY <2>1, <2>2
<1> QED
  BY <1>1, <1>2, <1>3, CalmStep

LEMMA SessionKeeps ==
  ASSUME OutInv, bundle' = bundle, NEW l \in Letters, O!WriteNetmail(l) \/ O!RecordSent(l) PROVE OutInv'
<1>1. l \in O!Writers /\ l # O!Router
  BY WriterNames
<1>2. /\ OutTypes /\ Good(l) /\ w[l] \in Wr /\ O!Msg(l) = l /\ UNCHANGED <<bsy, packet, sent, runs>>
      /\ runs' \in Nat
  BY <1>1, WriterTypes DEF O!WriteNetmail, O!RecordSent, OutTypes
<1>3. bsy' = [n \in O!Nodes |-> bsy'[n]] /\ PacketsInv' /\ packet' \in [O!Nodes -> Seq(O!Msgs)]
  BY <1>2, SamePackets DEF OutTypes
<1>4. CASE O!RecordSent(l)
  <2>1. w' = [w EXCEPT ![l] = O!Resting]
    BY <1>4 DEF O!RecordSent, O!Do
  <2> QED
    BY <1>1, <1>2, <1>3, <2>1, RestingIsWr, CalmStep
<1>5. CASE O!WriteNetmail(l) /\ l \in DOMAIN Hop
  <2>1. w' = [w EXCEPT ![l] = [w[l] EXCEPT !.at = "lock"]]
    BY <1>5 DEF O!WriteNetmail, O!Goto, O!Do
  <2>2. PICK rec \in Wr : rec = [w[l] EXCEPT !.at = "lock"] /\ rec.at = "lock" /\ rec.next = w[l].next
    BY <1>2, WrAt DEF Ats
  <2>3. O!Msg(l)' = l /\ w'[l] = rec
    BY <1>1, <1>2, <2>1, <2>2, SameMsg
  <2>4. Good(l)'
    BY <1>1, <1>5, <2>2, <2>3 DEF Good, Addressed, Locked, Buffered
  <2> QED
    BY <1>1, <1>2, <1>3, <2>1, <2>2, <2>4, WriterStep
<1>6. CASE O!WriteNetmail(l) /\ l \notin DOMAIN Hop
  <2>1. w' = w
    BY <1>6 DEF O!WriteNetmail
  <2>2. ASSUME NEW y \in O!Writers PROVE Good(y)'
    BY <1>2, <2>1, OtherWriter DEF OutInv
  <2> QED
    BY <1>2, <1>3, <2>1, <2>2 DEF OutInv, OutTypes
<1> QED
  BY <1>4, <1>5, <1>6

LEMMA RouteKeeps ==
  ASSUME OutInv, bundle' = bundle, O!Route \/ O!RouteNext \/ O!RouteDone PROVE OutInv'
<1>1. O!Router \in O!Writers
  BY WriterNames
<1>2. /\ OutTypes /\ w[O!Router] \in Wr /\ UNCHANGED <<bsy, packet, sent>> /\ runs' \in Nat
  BY <1>1, WriterTypes DEF O!Route, O!RouteNext, O!RouteDone, OutTypes
<1>3. bsy' = [n \in O!Nodes |-> bsy'[n]] /\ PacketsInv' /\ packet' \in [O!Nodes -> Seq(O!Msgs)]
  BY <1>2, SamePackets DEF OutTypes
<1>4. CASE O!Route
  <2>1. \/ w' = [w EXCEPT ![O!Router] = [O!Resting EXCEPT !.at = "queued"]]
        \/ w' = [w EXCEPT ![O!Router] = O!Resting]
    BY <1>4 DEF O!Route, O!Do
  <2>2. PICK rec \in Wr : w' = [w EXCEPT ![O!Router] = rec] /\ rec.at \in {"queued", "rest"}
    <3>1. PICK r \in Wr : r = [O!Resting EXCEPT !.at = "queued"] /\ r.at = "queued" /\ r.next = 0
      BY RestingIsWr, WrAt DEF Ats
    <3>2. O!Resting \in Wr /\ O!Resting.at = "rest" /\ O!Resting.next = 0
      BY RestingIsWr
    <3> QED
      BY <2>1, <3>1, <3>2
  <2> QED
    BY <1>1, <1>2, <1>3, <2>2, CalmStep
<1>5. CASE O!RouteDone
  <2>1. w' = [w EXCEPT ![O!Router] = O!Resting]
    BY <1>5 DEF O!RouteDone, O!Do
  <2> QED
    BY <1>1, <1>2, <1>3, <2>1, RestingIsWr, CalmStep
<1>6. CASE O!RouteNext
  <2>1. PICK i \in 1..Len(bundle) : i = w[O!Router].next + 1
    BY <1>2, <1>6, BundleSeq DEF O!RouteNext, OutTypes, Wr
  <2>2. w' = [w EXCEPT ![O!Router] = WithMsg(O!Resting, O!NextMessage(i), i)]
    BY <1>6, <2>1 DEF O!RouteNext, O!Do, WithMsg
  <2>3. PICK a \in {"queued", "lock", "rest"} : a = O!NextMessage(i) /\ (a = "lock" => bundle[i] \in DOMAIN Hop)
    BY DEF O!NextMessage
  <2>4. PICK rec \in Wr : rec = WithMsg(O!Resting, a, i) /\ rec.at = a /\ rec.next = i
    <3>1. a \in Ats /\ i \in Nat
      BY DEF Ats
    <3> QED
      BY <3>1, RestingIsWr, WrNext
  <2>5. w' = [w EXCEPT ![O!Router] = rec] /\ w'[O!Router] = rec
    BY <1>1, <1>2, <2>2, <2>3, <2>4 DEF OutTypes
  <2>6. O!Msg(O!Router)' = bundle[i] /\ i \in DOMAIN bundle
    BY <1>2, <2>1, <2>4, <2>5, BundleSeq DEF O!Msg, OutTypes
  <2>7. Good(O!Router)'
    BY <2>3, <2>4, <2>5, <2>6 DEF Good, Addressed, Locked, Buffered
  <2> QED
    BY <1>1, <1>2, <1>3, <2>5, <2>7, WriterStep
<1> QED
  BY <1>4, <1>5, <1>6

LEMMA MailerKeeps ==
  ASSUME OutInv, bundle' = bundle, NEW n \in O!Nodes, O!Call(n) \/ O!HangUp(n) \/ O!KillOldBsy(n) PROVE OutInv'
<1>1. /\ OutTypes /\ PacketsInv /\ UNCHANGED <<w, runs>> /\ bsy[n] \in {"free", "mailer", "dead"}
      /\ \E v : bsy' = [bsy EXCEPT ![n] = v]
      /\ \/ UNCHANGED <<packet, sent>>
         \/ sent' = sent \o packet[n] /\ packet' = [packet EXCEPT ![n] = <<>>]
  BY DEF OutInv, O!Call, O!HangUp, O!KillOldBsy
<1>2. bsy' = [k \in O!Nodes |-> bsy'[k]] /\ \A k \in O!Nodes : k # n => bsy'[k] = bsy[k]
  BY <1>1 DEF OutTypes
<1>3. /\ packet' \in [O!Nodes -> Seq(O!Msgs)] /\ sent' \in Seq(O!Msgs)
      /\ \A k \in O!Nodes : packet'[k] = packet[k] \/ (k = n /\ packet'[k] = <<>>)
  <2>1. packet \in [O!Nodes -> Seq(O!Msgs)] /\ sent \in Seq(O!Msgs) /\ packet[n] \in Seq(O!Msgs)
    BY <1>1 DEF OutTypes
  <2>2. sent \o packet[n] \in Seq(O!Msgs) /\ <<>> \in Seq(O!Msgs)
    BY <2>1, ConcatProperties
  <2> QED
    BY <1>1, <2>1, <2>2
<1>4. PacketsInv'
  BY <1>1, <1>3 DEF PacketsInv
<1>5. ASSUME NEW y \in O!Writers PROVE Good(y)'
  <2>1. \A k \in O!Nodes : bsy[k] = y => bsy'[k] = y /\ packet'[k] = packet[k]
    BY <1>1, <1>2, <1>3, WriterNames
  <2> QED
    BY <1>1, <2>1, OtherWriter DEF OutInv
<1> QED
  BY <1>1, <1>2, <1>3, <1>4, <1>5 DEF OutInv, OutTypes

LEMMA OutStep == ASSUME OutInv, O!Next PROVE OutInv'
BY LockKeeps, ReadPacketKeeps, RenamePacketKeeps, LetGoKeeps, SessionKeeps, RouteKeeps, MailerKeeps
   DEF O!Next, O!WriterStep

LEMMA OutIdle == ASSUME OutInv, UNCHANGED outVars PROVE OutInv'
<1>1. OutTypes' /\ PacketsInv'
  BY DEF OutInv, OutTypes, PacketsInv, outVars
<1>2. ASSUME NEW x \in O!Writers PROVE Good(x)'
  BY OtherWriter DEF OutInv, outVars
<1> QED
  BY <1>1, <1>2 DEF OutInv

LEMMA OutStart == ASSUME Init PROVE OutInv
<1>1. /\ bundle \in Files /\ bsy = [n \in O!Nodes |-> "free"] /\ packet = [n \in O!Nodes |-> <<>>]
      /\ w = [x \in O!Writers |-> O!Resting] /\ sent = <<>> /\ runs = 0
  BY DEF Init, O!Init
<1>2. OutTypes
  BY <1>1, RestingIsWr, EmptySeq DEF OutTypes
<1>3. PacketsInv
  BY <1>1 DEF PacketsInv
<1>4. \A x \in O!Writers : Good(x)
  BY <1>1, RestingIsWr DEF Good, Addressed, Locked, Buffered
<1> QED
  BY <1>2, <1>3, <1>4 DEF OutInv

-----------------------------------------------------------------------------
(* Routing: what the run has passed is queued.                             *)

Settled(k) == bundle[k] \in O!Passed \/ bundle[k] \in ok

\* Everything before the message in hand is settled, and the message itself once its
\* Queue is through.
RouteInv ==
  /\ file = "done" => \A k \in DOMAIN bundle : Settled(k)
  /\ \A k \in DOMAIN bundle :
       (k < w[O!Router].next \/ (k = w[O!Router].next /\ w[O!Router].at \in {"unlock", "queued"}))
         => Settled(k)

\* A step that does not take up another message, and puts nothing away.
LEMMA RouteStays ==
  ASSUME OutTypes, RouteInv, bundle' = bundle, file' = file, ok \subseteq ok',
         \/ w'[O!Router].next = 0
         \/ /\ w'[O!Router].next = w[O!Router].next
            /\ w'[O!Router].at \in {"unlock", "queued"} =>
                 w[O!Router].at \in {"unlock", "queued"} \/ O!Msg(O!Router) \in ok'
  PROVE RouteInv'
<1>1. \A k \in DOMAIN bundle : Settled(k) => Settled(k)'
  BY DEF Settled
<1>2. DOMAIN bundle = 1..Len(bundle) /\ Len(bundle) \in Nat
  BY BundleSeq DEF OutTypes
<1>3. CASE w'[O!Router].next = 0
  BY <1>1, <1>2, <1>3 DEF RouteInv
<1>4. CASE /\ w'[O!Router].next = w[O!Router].next
           /\ w'[O!Router].at \in {"unlock", "queued"} =>
                w[O!Router].at \in {"unlock", "queued"} \/ O!Msg(O!Router) \in ok'
  <2>1. ASSUME NEW k \in DOMAIN bundle, k = w[O!Router].next, w'[O!Router].at \in {"unlock", "queued"}
        PROVE Settled(k)'
    <3>1. CASE O!Msg(O!Router) \in ok'
      BY <2>1, <3>1 DEF Settled, O!Msg
    <3>2. CASE w[O!Router].at \in {"unlock", "queued"}
      BY <1>1, <2>1, <3>2 DEF RouteInv
    <3> QED
      BY <1>4, <2>1, <3>1, <3>2
  <2> QED
    BY <1>1, <1>4, <2>1 DEF RouteInv
<1> QED
  BY <1>3, <1>4

\* What each step of a writer does with its message number.
LEMMA WriterMoves ==
  ASSUME OutInv, NEW x \in O!Writers, O!WriterStep(x) \/ O!QueueFails(x) \/ O!CrashAt(x)
  PROVE /\ \A y \in O!Writers : y # x => w'[y] = w[y]
        /\ \/ w'[x].at = "rest" /\ w'[x].next = 0 /\ ok' = ok
           \/ /\ w'[x].next = w[x].next
              /\ \/ w[x].at = "lock" /\ w'[x].at \in {"lock", "read"} /\ ok' = ok
                 \/ w[x].at = "read" /\ w'[x].at = "rename" /\ ok' = ok
                 \/ w[x].at = "rename" /\ w'[x].at = "unlock" /\ ok' = ok \union {O!Msg(x)}
                 \/ w[x].at = "unlock" /\ w'[x].at = "queued" /\ ok' = ok
        /\ UNCHANGED <<file, runs>>
<1>1. w \in [O!Writers -> Wr] /\ w[x] \in Wr
  BY DEF OutInv, OutTypes
<1>2. UNCHANGED <<file, runs>>
  BY DEF O!WriterStep, O!Lock, O!ReadPacket, O!RenamePacket, O!Unlock, O!QueueFails, O!CrashAt
<1>3. ASSUME NEW a \in Ats, w' = [w EXCEPT ![x] = [w[x] EXCEPT !.at = a]]
      PROVE /\ \A y \in O!Writers : y # x => w'[y] = w[y]
            /\ w'[x].next = w[x].next /\ w'[x].at = a
  BY <1>1, <1>3, WrAt
<1>4. ASSUME w' = [w EXCEPT ![x] = O!Resting]
      PROVE /\ \A y \in O!Writers : y # x => w'[y] = w[y]
            /\ w'[x].next = 0 /\ w'[x].at = "rest"
  BY <1>1, <1>4, RestingIsWr
<1>5. ASSUME NEW a \in Ats, NEW b, w' = [w EXCEPT ![x] = WithBuf(w[x], a, b)]
      PROVE /\ \A y \in O!Writers : y # x => w'[y] = w[y]
            /\ w'[x].next = w[x].next /\ w'[x].at = a
  BY <1>1, <1>5 DEF WithBuf, Wr
<1>6. ASSUME NEW busy, O!GiveUp(x, busy), w[x].at \in {"lock", "read", "rename"}
      PROVE /\ \A y \in O!Writers : y # x => w'[y] = w[y]
            /\ \/ w'[x].at = "rest" /\ w'[x].next = 0
               \/ busy /\ w'[x].at = "lock" /\ w'[x].next = w[x].next
  BY <1>1, <1>6, GiveUpStep
<1>7. CASE O!Lock(x)
  <2>1. w[x].at = "lock" /\ ok' = ok
    BY <1>7 DEF O!Lock
  <2>2. (w' = [w EXCEPT ![x] = [w[x] EXCEPT !.at = "read"]]) \/ O!GiveUp(x, TRUE)
    BY <1>7 DEF O!Lock, O!Goto, O!Do
  <2>3. CASE w' = [w EXCEPT ![x] = [w[x] EXCEPT !.at = "read"]]
    BY <1>2, <1>3, <2>1, <2>3 DEF Ats
  <2>4. CASE O!GiveUp(x, TRUE)
    BY <1>2, <1>6, <2>1, <2>4
  <2> QED
    BY <2>2, <2>3, <2>4
<1>8. CASE O!ReadPacket(x)
  <2>1. w[x].at = "read" /\ ok' = ok
        /\ w' = [w EXCEPT ![x] = WithBuf(w[x], "rename", Append(packet[Hop[O!Msg(x)]], O!Msg(x)))]
    BY <1>8 DEF O!ReadPacket, O!Do, WithBuf
  <2> QED
    BY <1>2, <1>5, <2>1 DEF Ats
<1>9. CASE O!RenamePacket(x)
  <2>1. w[x].at = "rename" /\ ok' = ok \union {O!Msg(x)}
        /\ w' = [w EXCEPT ![x] = WithBuf(w[x], "unlock", <<>>)]
    BY <1>9 DEF O!RenamePacket, O!Do, WithBuf
  <2> QED
    BY <1>2, <1>5, <2>1 DEF Ats
<1>10. CASE O!Unlock(x)
  <2>1. w[x].at = "unlock" /\ ok' = ok /\ w' = [w EXCEPT ![x] = [w[x] EXCEPT !.at = "queued"]]
    BY <1>10 DEF O!Unlock, O!Goto, O!Do
  <2> QED
    BY <1>2, <1>3, <2>1 DEF Ats
<1>11. CASE O!QueueFails(x)
  <2>1. w[x].at \in {"read", "rename"} /\ ok' = ok /\ O!GiveUp(x, FALSE)
    BY <1>11 DEF O!QueueFails
  <2> QED
    BY <1>2, <1>6, <2>1
<1>12. CASE O!CrashAt(x)
  <2>1. ok' = ok /\ w' = [w EXCEPT ![x] = O!Resting]
    BY <1>12 DEF O!CrashAt, O!Do
  <2> QED
    BY <1>2, <1>4, <2>1
<1> QED
  BY <1>7, <1>8, <1>9, <1>10, <1>11, <1>12 DEF O!WriterStep

\* The steps of sessions and of the mailer leave the router where it is.
LEMMA OthersLeaveRouter ==
  ASSUME OutInv, \/ \E l \in Letters : O!WriteNetmail(l) \/ O!RecordSent(l)
                 \/ \E n \in O!Nodes : O!Call(n) \/ O!HangUp(n) \/ O!KillOldBsy(n)
  PROVE w'[O!Router] = w[O!Router] /\ UNCHANGED <<file, ok, runs>>
<1>1. w \in [O!Writers -> Wr]
  BY DEF OutInv, OutTypes
<1>2. CASE \E n \in O!Nodes : O!Call(n) \/ O!HangUp(n) \/ O!KillOldBsy(n)
  BY <1>2 DEF O!Call, O!HangUp, O!KillOldBsy
<1>3. ASSUME NEW l \in Letters, O!WriteNetmail(l) \/ O!RecordSent(l)
      PROVE w'[O!Router] = w[O!Router] /\ UNCHANGED <<file, ok, runs>>
  BY <1>1, <1>3, WriterNames DEF O!WriteNetmail, O!RecordSent, O!Goto, O!Do
<1> QED
  BY <1>2, <1>3

\* What the router does between two messages.
LEMMA RouterMoves ==
  ASSUME OutInv, O!Route \/ O!RouteNext \/ O!RouteDone
  PROVE /\ ok' = ok /\ \A l \in Letters : w'[l] = w[l]
        /\ \/ /\ O!Route /\ w'[O!Router].next = 0 /\ w[O!Router].at = "rest"
              /\ runs' = runs + 1 /\ file' = file
           \/ /\ O!RouteDone /\ w'[O!Router].next = 0 /\ w'[O!Router].at = "rest"
              /\ w[O!Router].next = Len(bundle) /\ w[O!Router].at = "queued" /\ runs' = runs
           \/ /\ O!RouteNext /\ w[O!Router].at = "queued" /\ w'[O!Router].next = w[O!Router].next + 1
              /\ w'[O!Router].at \in {"rest", "lock", "queued"}
              /\ w'[O!Router].at = "queued" => bundle[w'[O!Router].next] \in O!Passed
              /\ runs' = runs /\ file' = file
<1>1. w \in [O!Writers -> Wr] /\ O!Router \in O!Writers /\ O!Router \notin Letters
      /\ Letters \subseteq O!Writers
  BY WriterNames DEF OutInv, OutTypes
<1>2. ok' = ok
  BY DEF O!Route, O!RouteNext, O!RouteDone
<1>3. \A l \in Letters : w'[l] = w[l]
  BY <1>1 DEF O!Route, O!RouteNext, O!RouteDone, O!Do
<1>4. CASE O!Route
  <2>1. \/ w' = [w EXCEPT ![O!Router] = [O!Resting EXCEPT !.at = "queued"]]
        \/ w' = [w EXCEPT ![O!Router] = O!Resting]
    BY <1>4 DEF O!Route, O!Do
  <2>2. PICK rec \in Wr : w' = [w EXCEPT ![O!Router] = rec] /\ rec.next = 0
    <3>1. PICK r \in Wr : r = [O!Resting EXCEPT !.at = "queued"] /\ r.at = "queued" /\ r.next = 0
      BY RestingIsWr, WrAt DEF Ats
    <3>2. O!Resting \in Wr /\ O!Resting.at = "rest" /\ O!Resting.next = 0
      BY RestingIsWr
    <3> QED
      BY <2>1, <3>1, <3>2
  <2>3. w[O!Router].at = "rest" /\ runs' = runs + 1 /\ file' = file
    BY <1>4 DEF O!Route
  <2> QED
    BY <1>1, <1>2, <1>3, <1>4, <2>1, <2>2, <2>3
<1>5. CASE O!RouteDone
  <2>1. /\ w' = [w EXCEPT ![O!Router] = O!Resting] /\ runs' = runs
        /\ w[O!Router].next = Len(bundle) /\ w[O!Router].at = "queued"
    BY <1>5 DEF O!RouteDone, O!Do
  <2> QED
    BY <1>1, <1>2, <1>3, <1>5, <2>1, RestingIsWr
<1>6. CASE O!RouteNext
  <2>1. PICK i \in Nat : i = w[O!Router].next + 1
    BY <1>1 DEF Wr
  <2>2. /\ w' = [w EXCEPT ![O!Router] = WithMsg(O!Resting, O!NextMessage(i), i)]
        /\ w[O!Router].at = "queued" /\ runs' = runs /\ file' = file
    BY <1>6, <2>1 DEF O!RouteNext, O!Do, WithMsg
  <2>3. PICK a \in {"queued", "lock", "rest"} : a = O!NextMessage(i) /\ (a = "queued" => bundle[i] \in O!Passed)
    BY DEF O!NextMessage
  <2>4. WithMsg(O!Resting, a, i).at = a /\ WithMsg(O!Resting, a, i).next = i
    <3>1. a \in Ats
      BY DEF Ats
    <3> QED
      BY <3>1, RestingIsWr, WrNext
  <2>5. w'[O!Router].at = a /\ w'[O!Router].next = i
    BY <1>1, <2>2, <2>3, <2>4
  <2> QED
    BY <1>2, <1>3, <1>6, <2>1, <2>2, <2>3, <2>5
<1> QED
  BY <1>4, <1>5, <1>6

LEMMA RouterStep ==
  ASSUME OutInv, RouteInv, bundle' = bundle, O!Route \/ O!RouteNext \/ O!RouteDone
  PROVE RouteInv'
<1>1. /\ OutTypes /\ ok' = ok /\ \A k \in DOMAIN bundle : Settled(k) => Settled(k)'
      /\ DOMAIN bundle = 1..Len(bundle) /\ Len(bundle) \in Nat
  BY RouterMoves, BundleSeq DEF OutInv, OutTypes, Settled
<1>2. CASE w'[O!Router].next = 0 /\ file' = file
  BY <1>1, <1>2, RouteStays
<1>3. CASE w'[O!Router].next = 0 /\ w[O!Router].next = Len(bundle) /\ w[O!Router].at = "queued"
  <2>1. \A k \in DOMAIN bundle : k < w[O!Router].next \/ k = w[O!Router].next
    BY <1>1, <1>3
  <2>2. \A k \in DOMAIN bundle : Settled(k)'
    BY <1>1, <1>3, <2>1 DEF RouteInv
  <2> QED
    BY <2>2 DEF RouteInv
<1>4. CASE /\ w[O!Router].at = "queued" /\ w'[O!Router].next = w[O!Router].next + 1 /\ file' = file
           /\ w'[O!Router].at = "queued" => bundle[w'[O!Router].next] \in O!Passed
           /\ w'[O!Router].at # "unlock"
  <2>1. PICK n \in Nat : n = w[O!Router].next
    BY WriterNames DEF OutInv, OutTypes, Wr
  <2>2. ASSUME NEW k \in DOMAIN bundle, k < n + 1 PROVE Settled(k)'
    <3>1. k < n \/ k = n
      BY <1>1, <2>2
    <3> QED
      BY <1>1, <1>4, <2>1, <3>1 DEF RouteInv
  <2>3. ASSUME NEW k \in DOMAIN bundle, k = n + 1, w'[O!Router].at \in {"unlock", "queued"}
        PROVE Settled(k)'
    BY <1>4, <2>1, <2>3 DEF Settled
  <2> QED
    BY <1>1, <1>4, <2>1, <2>2, <2>3 DEF RouteInv
<1> QED
  BY <1>2, <1>3, <1>4, RouterMoves

LEMMA RouteInvStep == ASSUME OutInv, RouteInv, O!Next PROVE RouteInv'
<1>1. bundle' = bundle /\ OutTypes
  BY DEF O!Next, OutInv
<1>2. ASSUME NEW x \in O!Writers, O!WriterStep(x) \/ O!QueueFails(x) \/ O!CrashAt(x) PROVE RouteInv'
  <2>1. ok \subseteq ok' /\ file' = file
    BY <1>2, WriterMoves
  <2>2. CASE x = O!Router
    BY <1>1, <1>2, <2>1, <2>2, WriterMoves, RouteStays
  <2>3. CASE x # O!Router
    BY <1>1, <1>2, <2>1, <2>3, WriterMoves, WriterNames, RouteStays
  <2> QED
    BY <2>2, <2>3
<1>3. CASE \/ \E l \in Letters : O!WriteNetmail(l) \/ O!RecordSent(l)
           \/ \E n \in O!Nodes : O!Call(n) \/ O!HangUp(n) \/ O!KillOldBsy(n)
  BY <1>1, <1>3, OthersLeaveRouter, RouteStays
<1> QED
  BY <1>1, <1>2, <1>3, RouterStep DEF O!Next

\* RoutedQueued, for any files, routes, writers, crashes, errors and reruns: a file is put
\* in -done only when every message that ReadPackets got out of it and that is not this
\* system's own has been queued.
THEOREM RoutedIsQueued == Spec => []RoutedQueued
<1>1. Init => OutInv /\ RouteInv
  <2> SUFFICES ASSUME Init PROVE OutInv /\ RouteInv
    OBVIOUS
  <2>1. file = "in" /\ w[O!Router] = O!Resting /\ bundle \in Files
    BY WriterNames DEF Init, O!Init
  <2> QED
    BY <2>1, OutStart, RestingIsWr, BundleSeq DEF RouteInv
<1>2. OutInv /\ RouteInv /\ [Next]_allVars => (OutInv /\ RouteInv)'
  <2>1. OutInv /\ RouteInv /\ UNCHANGED outVars => (OutInv /\ RouteInv)'
    BY OutIdle DEF RouteInv, Settled, outVars
  <2> QED
    BY <2>1, OutStep, RouteInvStep DEF Next, allVars
<1>3. OutInv /\ RouteInv => RoutedQueued
  BY BundleSeq DEF OutInv, OutTypes, RouteInv, Settled, RoutedQueued, O!RoutedQueued, O!Range
<1> QED
  BY <1>1, <1>2, <1>3, PTL DEF Spec, allVars

-----------------------------------------------------------------------------
(* Copies: how often a message is in a sequence.                           *)

Places(s, m) == {i \in DOMAIN s : s[i] = m}

LEMMA CountIs ==
  ASSUME NEW S, NEW s \in Seq(S), NEW m
  PROVE /\ IsFiniteSet(Places(s, m)) /\ Places(s, m) \subseteq 1..Len(s)
        /\ O!Count(s, m) = Cardinality(Places(s, m)) /\ O!Count(s, m) \in Nat
<1>1. Places(s, m) \subseteq 1..Len(s) /\ Len(s) \in Nat
  BY DEF Places
<1>2. IsFiniteSet(Places(s, m))
  <2>1. IsFiniteSet(1..Len(s))
    BY <1>1, FS_Interval
  <2> QED
    BY <1>1, <2>1, FS_Subset
<1>3. O!Count(s, m) = Cardinality(Places(s, m))
  BY DEF O!Count, O!Cardinality, Cardinality, Places
<1> QED
  BY <1>1, <1>2, <1>3, FS_CardinalityType

LEMMA CountNone ==
  ASSUME NEW S, NEW s \in Seq(S), NEW m, \A i \in DOMAIN s : s[i] # m
  PROVE O!Count(s, m) = 0
<1>1. Places(s, m) = {}
  BY DEF Places
<1> QED
  BY <1>1, CountIs, FS_EmptySet

LEMMA CountAppend ==
  ASSUME NEW S, NEW s \in Seq(S), NEW e \in S, NEW m
  PROVE O!Count(Append(s, e), m) = IF e = m THEN O!Count(s, m) + 1 ELSE O!Count(s, m)
<1>1. PICK t \in Seq(S) : /\ t = Append(s, e) /\ Len(t) = Len(s) + 1 /\ t[Len(s) + 1] = e
                          /\ \A i \in 1..Len(s) : t[i] = s[i]
  <2>1. Append(s, e) \in Seq(S) /\ Len(Append(s, e)) = Len(s) + 1
    BY AppendProperties
  <2>2. Append(s, e)[Len(s) + 1] = e /\ \A i \in 1..Len(s) : Append(s, e)[i] = s[i]
    BY AppendProperties
  <2> QED
    BY <2>1, <2>2
<1>2. Len(s) \in Nat /\ DOMAIN s = 1..Len(s) /\ DOMAIN t = 1..(Len(s) + 1)
  BY <1>1
<1>3. CASE e = m
  <2>1. Places(t, m) = Places(s, m) \union {Len(s) + 1} /\ (Len(s) + 1) \notin Places(s, m)
    BY <1>1, <1>2, <1>3 DEF Places
  <2>2. IsFiniteSet(Places(s, m))
    BY CountIs
  <2>3. Cardinality(Places(t, m)) = Cardinality(Places(s, m)) + 1
    BY <2>1, <2>2, FS_AddElement
  <2>4. O!Count(t, m) = Cardinality(Places(t, m)) /\ O!Count(s, m) = Cardinality(Places(s, m))
    BY CountIs
  <2> QED
    BY <1>1, <1>3, <2>3, <2>4
<1>4. CASE e # m
  <2>1. Places(t, m) = Places(s, m)
    BY <1>1, <1>2, <1>4 DEF Places
  <2>2. O!Count(t, m) = Cardinality(Places(t, m)) /\ O!Count(s, m) = Cardinality(Places(s, m))
    BY CountIs
  <2> QED
    BY <1>1, <1>4, <2>1, <2>2
<1> QED
  BY <1>3, <1>4

LEMMA CountConcat ==
  ASSUME NEW S, NEW s \in Seq(S), NEW t \in Seq(S), NEW m
  PROVE O!Count(s \o t, m) = O!Count(s, m) + O!Count(t, m)
<1>1. PICK n \in Nat : n = Len(s)
  OBVIOUS
<1>2. PICK c \in Seq(S) : /\ c = s \o t /\ Len(c) = n + Len(t)
                          /\ \A i \in 1..n : c[i] = s[i]
                          /\ \A i \in 1..Len(t) : c[n + i] = t[i]
  <2>1. s \o t \in Seq(S) /\ Len(s \o t) = n + Len(t)
    BY <1>1, ConcatProperties
  <2>2. \A i \in 1..n : (s \o t)[i] = s[i]
    BY <1>1
  <2>3. \A i \in 1..Len(t) : (s \o t)[n + i] = t[i]
    BY <1>1
  <2> QED
    BY <2>1, <2>2, <2>3
<1> DEFINE U == {n + i : i \in Places(t, m)}
           f == [i \in Places(t, m) |-> n + i]
<1>3. Places(t, m) \subseteq Nat /\ IsFiniteSet(Places(t, m)) /\ IsFiniteSet(Places(s, m))
  BY CountIs
<1>4. f \in Bijection(Places(t, m), U)
  BY <1>3 DEF Bijection, Injection, Surjection, IsInjective
<1>5. IsFiniteSet(U) /\ Cardinality(U) = Cardinality(Places(t, m))
  BY <1>3, <1>4, FS_Bijection DEF ExistsBijection
<1>6. Places(s, m) \intersect U = {}
  BY <1>1, CountIs
<1>7. Places(c, m) = Places(s, m) \union U
  <2>1. DOMAIN c = 1..(n + Len(t)) /\ DOMAIN s = 1..n /\ DOMAIN t = 1..Len(t) /\ Len(t) \in Nat
    BY <1>1, <1>2
  <2>2. ASSUME NEW i \in Places(c, m) PROVE i \in Places(s, m) \union U
    <3>1. i \in 1..(n + Len(t)) /\ c[i] = m
      BY <2>1, <2>2 DEF Places
    <3>2. CASE i <= n
      BY <1>2, <2>1, <3>1, <3>2 DEF Places
    <3>3. CASE i > n
      <4>1. PICK j \in 1..Len(t) : i = n + j
        <5>1. i - n \in 1..Len(t) /\ i = n + (i - n)
          BY <2>1, <3>1, <3>3
        <5> QED
          BY <5>1
      <4>2. j \in Places(t, m)
        BY <1>2, <2>1, <3>1, <4>1 DEF Places
      <4> QED
        BY <4>1, <4>2
    <3>4. i <= n \/ i > n
      BY <1>1, <3>1
    <3> QED
      BY <3>2, <3>3, <3>4
  <2>3. Places(s, m) \subseteq Places(c, m)
    BY <1>2, <2>1 DEF Places
  <2>4. ASSUME NEW j \in Places(t, m) PROVE n + j \in Places(c, m)
    BY <1>2, <2>1, <2>4 DEF Places
  <2> QED
    BY <2>2, <2>3, <2>4
<1>8. Cardinality(Places(c, m)) = Cardinality(Places(s, m)) + Cardinality(U)
  <2>1. Cardinality(Places(s, m) \intersect U) = 0
    BY <1>6, FS_EmptySet
  <2>2. Cardinality(Places(s, m)) \in Nat /\ Cardinality(U) \in Nat
    BY <1>3, <1>5, FS_CardinalityType
  <2>3. Cardinality(Places(s, m) \union U) = Cardinality(Places(s, m)) + Cardinality(U)
                                              - Cardinality(Places(s, m) \intersect U)
    BY <1>3, <1>5, FS_Union
  <2> QED
    BY <1>7, <2>1, <2>2, <2>3
<1>9. /\ O!Count(c, m) = Cardinality(Places(c, m)) /\ O!Count(s, m) = Cardinality(Places(s, m))
      /\ O!Count(t, m) = Cardinality(Places(t, m))
  BY CountIs
<1> QED
  BY <1>2, <1>5, <1>8, <1>9

LEMMA CopiesType ==
  ASSUME OutInv, NEW m
  PROVE /\ O!Count(sent, m) \in Nat /\ O!Copies(m) \in Nat
        /\ m \in DOMAIN Hop => O!Count(packet[Hop[m]], m) \in Nat
<1>1. sent \in Seq(O!Msgs) /\ packet \in [O!Nodes -> Seq(O!Msgs)]
  BY DEF OutInv, OutTypes
<1>2. O!Count(sent, m) \in Nat
  BY <1>1, CountIs
<1>3. ASSUME m \in DOMAIN Hop PROVE O!Count(packet[Hop[m]], m) \in Nat
  <2>1. packet[Hop[m]] \in Seq(O!Msgs)
    BY <1>1, <1>3, HopNode
  <2> QED
    BY <2>1, CountIs
<1> QED
  BY <1>2, <1>3 DEF O!Copies

LEMMA CopiesSame == ASSUME NEW m, UNCHANGED <<sent, packet>> PROVE O!Copies(m)' = O!Copies(m)
BY DEF O!Copies

\* A session of the mailer moves copies, or leaves them.
LEMMA CopiesSent ==
  ASSUME OutInv, NEW n \in O!Nodes, NEW m, sent' = sent \o packet[n],
         packet' = [packet EXCEPT ![n] = <<>>]
  PROVE O!Copies(m)' = O!Copies(m)
<1>1. sent \in Seq(O!Msgs) /\ packet \in [O!Nodes -> Seq(O!Msgs)] /\ packet[n] \in Seq(O!Msgs)
  BY DEF OutInv, OutTypes
<1>2. O!Count(sent', m) = O!Count(sent, m) + O!Count(packet[n], m)
  BY <1>1, CountConcat
<1>3. O!Count(sent, m) \in Nat /\ O!Count(packet[n], m) \in Nat
  BY <1>1, CountIs
<1>4. CASE m \in DOMAIN Hop /\ Hop[m] = n
  <2>1. packet'[Hop[m]] = <<>>
    BY <1>1, <1>4
  <2>2. PICK e \in Seq(O!Msgs) : e = <<>>
    BY EmptySeq
  <2>3. O!Count(e, m) = 0
    <3>1. \A i \in DOMAIN e : e[i] # m
      BY <2>2
    <3> QED
      BY <3>1, CountNone
  <2>4. O!Copies(m)' = O!Count(sent', m) + O!Count(packet'[Hop[m]], m)
    BY <1>4 DEF O!Copies, O!Count
  <2>5. O!Copies(m) = O!Count(sent, m) + O!Count(packet[n], m)
    BY <1>4 DEF O!Copies
  <2> QED
    BY <1>2, <1>3, <2>1, <2>2, <2>3, <2>4, <2>5
<1>5. CASE ~(m \in DOMAIN Hop /\ Hop[m] = n)
  <2>1. O!Count(packet[n], m) = 0
    BY <1>1, <1>5, CountNone DEF OutInv, PacketsInv
  <2>2. O!Count(sent', m) = O!Count(sent, m)
    BY <1>2, <1>3, <2>1
  <2>3. m \in DOMAIN Hop => packet'[Hop[m]] = packet[Hop[m]]
    BY <1>1, <1>5, HopNode
  <2>4. O!Copies(m)' = O!Count(sent', m) + (IF m \in DOMAIN Hop THEN O!Count(packet'[Hop[m]], m) ELSE 0)
    BY DEF O!Copies, O!Count
  <2> QED
    BY <2>2, <2>3, <2>4 DEF O!Copies
<1> QED
  BY <1>4, <1>5

\* A rename adds one copy of the message in hand.
LEMMA CopiesGrow ==
  ASSUME OutInv, NEW x \in O!Writers, O!RenamePacket(x), NEW m
  PROVE O!Copies(m)' = IF m = O!Msg(x) THEN O!Copies(m) + 1 ELSE O!Copies(m)
<1>1. sent' = sent /\ packet \in [O!Nodes -> Seq(O!Msgs)]
  BY DEF OutInv, OutTypes, O!RenamePacket
<1>2. PICK h \in O!Nodes, q \in O!Msgs :
        /\ q = O!Msg(x) /\ q \in DOMAIN Hop /\ h = Hop[q]
        /\ packet' = [packet EXCEPT ![h] = Append(packet[h], q)]
  BY RenamedPacket
<1>3. /\ packet[h] \in Seq(O!Msgs) /\ packet'[h] = Append(packet[h], q)
      /\ \A n \in O!Nodes : n # h => packet'[n] = packet[n]
  BY <1>1, <1>2
<1>4. O!Count(packet'[h], m) = IF q = m THEN O!Count(packet[h], m) + 1 ELSE O!Count(packet[h], m)
  BY <1>3, CountAppend
<1>5. O!Copies(m)' = O!Count(sent, m) + (IF m \in DOMAIN Hop THEN O!Count(packet'[Hop[m]], m) ELSE 0)
  BY <1>1 DEF O!Copies, O!Count
<1>6. CASE m = q
  <2>1. O!Count(sent, m) \in Nat /\ O!Count(packet[h], m) \in Nat
    BY <1>2, <1>6, CopiesType
  <2>2. O!Copies(m) = O!Count(sent, m) + O!Count(packet[h], m)
    BY <1>2, <1>6 DEF O!Copies
  <2> QED
    BY <1>2, <1>4, <1>5, <1>6, <2>1, <2>2
<1>7. CASE m # q
  <2>1. m \in DOMAIN Hop => O!Count(packet'[Hop[m]], m) = O!Count(packet[Hop[m]], m)
    BY <1>3, <1>4, <1>7, HopNode
  <2> QED
    BY <1>2, <1>5, <1>7, <2>1 DEF O!Copies
<1> QED
  BY <1>6, <1>7

\* The message has one run ahead of it: it is still to come in this one.
Due(k) ==
  /\ w[O!Router].at # "rest"
  /\ \/ k > w[O!Router].next
     \/ k = w[O!Router].next /\ w[O!Router].at \in {"lock", "read", "rename"}

\* A letter is queued once, and its writer has then done with it; a message of the file is
\* out at most once for each run, less one in a run that has not come to it; and there is
\* nothing else.
LettersInv ==
  \A l \in Letters : /\ O!Copies(l) = IF l \in ok THEN 1 ELSE 0
                     /\ w[l].at \in {"lock", "read", "rename"} => l \notin ok
RunsInv ==
  \A k \in DOMAIN bundle : /\ bundle[k] \in ok => O!Copies(bundle[k]) >= 1
                           /\ O!Copies(bundle[k]) <= runs
                           /\ Due(k) => O!Copies(bundle[k]) < runs
NoOtherInv ==
  \A m \in O!Msgs \ Letters : (\A k \in DOMAIN bundle : m # bundle[k]) => m \notin ok /\ O!Copies(m) = 0

CountInv == LettersInv /\ RunsInv /\ NoOtherInv

\* A step that queues nothing.
LEMMA CountStays ==
  ASSUME OutInv, CountInv, bundle' = bundle, ok' = ok, \A m \in O!Msgs : O!Copies(m)' = O!Copies(m),
         \A l \in Letters : w'[l].at \in {"lock", "read", "rename"} =>
                              w[l].at \in {"lock", "read", "rename"} \/ l \notin ok,
         \/ runs' = runs + 1
         \/ runs' = runs /\ \A k \in DOMAIN bundle : Due(k)' => Due(k)
  PROVE CountInv'
<1>1. Letters \subseteq O!Msgs /\ (\A k \in DOMAIN bundle : bundle[k] \in O!Msgs) /\ runs \in Nat
  BY BundleSeq DEF O!Msgs, OutInv, OutTypes
<1>2. LettersInv'
  <2>1. ASSUME NEW l \in Letters PROVE O!Copies(l)' = IF l \in ok' THEN 1 ELSE 0
    BY <1>1 DEF CountInv, LettersInv
  <2>2. ASSUME NEW l \in Letters, w'[l].at \in {"lock", "read", "rename"} PROVE l \notin ok'
    BY <2>2 DEF CountInv, LettersInv
  <2> QED
    BY <2>1, <2>2 DEF LettersInv
<1>3. RunsInv'
  <2> SUFFICES ASSUME NEW k \in DOMAIN bundle
               PROVE /\ bundle[k] \in ok' => O!Copies(bundle[k])' >= 1
                     /\ O!Copies(bundle[k])' <= runs' /\ (Due(k)' => O!Copies(bundle[k])' < runs')
    BY DEF RunsInv
  <2>1. PICK c \in Nat : c = O!Copies(bundle[k])
    BY CopiesType
  <2>2. O!Copies(bundle[k])' = c
    BY <1>1, <2>1
  <2>3. (bundle[k] \in ok => c >= 1) /\ c <= runs /\ (Due(k) => c < runs)
    BY <2>1 DEF CountInv, RunsInv
  <2> QED
    BY <1>1, <2>2, <2>3
<1>4. NoOtherInv'
  BY DEF CountInv, NoOtherInv
<1> QED
  BY <1>2, <1>3, <1>4 DEF CountInv

LEMMA RenameCounts ==
  ASSUME OutInv, CountInv, bundle' = bundle, NEW x \in O!Writers, O!RenamePacket(x) PROVE CountInv'
<1>1. PICK q \in O!Msgs : q = O!Msg(x) /\ ok' = ok \union {q}
  BY RenamedPacket
<1>2. \A m : O!Copies(m)' = IF m = q THEN O!Copies(m) + 1 ELSE O!Copies(m)
  BY <1>1, CopiesGrow
<1>3. /\ w[x].at = "rename" /\ w'[x].at = "unlock" /\ w'[x].next = w[x].next
      /\ runs' = runs /\ \A y \in O!Writers : y # x => w'[y] = w[y]
  <2>1. /\ w[x].at = "rename" /\ runs' = runs
        /\ w' = [w EXCEPT ![x] = WithBuf(w[x], "unlock", <<>>)]
    BY DEF O!RenamePacket, O!Do, WithBuf
  <2>2. WithBuf(w[x], "unlock", <<>>).at = "unlock" /\ WithBuf(w[x], "unlock", <<>>).next = w[x].next
    BY DEF OutInv, OutTypes, Wr, WithBuf
  <2> QED
    BY <2>1, <2>2 DEF OutInv, OutTypes
<1>4. /\ bundle \in Files /\ runs \in Nat /\ Good(x)
      /\ \A k \in DOMAIN bundle : bundle[k] \notin Letters
      /\ \A i, j \in DOMAIN bundle : bundle[i] = bundle[j] => i = j
      /\ DOMAIN bundle \subseteq Nat /\ w[O!Router].next \in Nat
  BY BundleSeq, WriterNames DEF OutInv, OutTypes, Wr
<1>5. CASE x \in Letters
  <2>1. q = x /\ x # O!Router
    BY <1>1, <1>5, WriterNames DEF O!Msg
  <2>2. q \notin ok /\ O!Copies(q) = 0
    BY <1>3, <1>5, <2>1 DEF CountInv, LettersInv
  <2>3. LettersInv'
    <3> SUFFICES ASSUME NEW l \in Letters
                 PROVE /\ O!Copies(l)' = IF l \in ok' THEN 1 ELSE 0
                       /\ w'[l].at \in {"lock", "read", "rename"} => l \notin ok'
      BY DEF LettersInv
    <3>1. CASE l = q
      BY <1>1, <1>2, <1>3, <2>1, <2>2, <3>1
    <3>2. CASE l # q
      BY <1>1, <1>2, <1>3, <2>1, <3>2, WriterNames DEF CountInv, LettersInv
    <3> QED
      BY <3>1, <3>2
  <2>4. w'[O!Router] = w[O!Router]
    BY <1>3, <2>1, WriterNames
  <2>5. RunsInv'
    BY <1>1, <1>2, <1>3, <1>4, <1>5, <2>1, <2>4 DEF CountInv, RunsInv, Due
  <2>6. NoOtherInv'
    BY <1>1, <1>2, <1>5, <2>1 DEF CountInv, NoOtherInv
  <2> QED
    BY <2>3, <2>5, <2>6 DEF CountInv
<1>6. CASE x = O!Router
  <2>1. PICK n \in DOMAIN bundle : n = w[O!Router].next /\ q = bundle[n]
    BY <1>1, <1>3, <1>4, <1>6 DEF Good, Addressed, O!Msg
  <2>2. Due(n) /\ q \notin Letters
    BY <1>3, <1>4, <1>6, <2>1 DEF Due
  <2>3. LettersInv'
    <3>1. \A l \in Letters : w'[l] = w[l]
      BY <1>3, <1>6, WriterNames
    <3> QED
      BY <1>1, <1>2, <2>2, <3>1 DEF CountInv, LettersInv
  <2>4. RunsInv'
    <3> SUFFICES ASSUME NEW k \in DOMAIN bundle
                 PROVE /\ bundle[k] \in ok' => O!Copies(bundle[k])' >= 1
                       /\ O!Copies(bundle[k])' <= runs' /\ (Due(k)' => O!Copies(bundle[k])' < runs')
      BY DEF RunsInv
    <3>1. PICK c \in Nat : c = O!Copies(bundle[k])
      BY CopiesType
    <3>2. (bundle[k] \in ok => c >= 1) /\ c <= runs /\ (Due(k) => c < runs)
      BY <3>1 DEF CountInv, RunsInv
    <3>3. CASE k = n
      <4>1. ~Due(k)'
        BY <1>3, <1>4, <1>6, <2>1, <3>3 DEF Due
      <4>2. O!Copies(bundle[k])' = c + 1
        BY <1>2, <2>1, <3>1, <3>3
      <4> QED
        BY <1>3, <1>4, <2>2, <3>2, <3>3, <4>1, <4>2
    <3>4. CASE k # n
      <4>1. O!Copies(bundle[k])' = c /\ (bundle[k] \in ok' => bundle[k] \in ok)
        BY <1>1, <1>2, <1>4, <2>1, <3>1, <3>4
      <4>2. Due(k)' => Due(k)
        BY <1>3, <1>6, <2>1, <3>4 DEF Due
      <4> QED
        BY <1>3, <3>2, <4>1, <4>2
    <3> QED
      BY <3>3, <3>4
  <2>5. NoOtherInv'
    BY <1>1, <1>2, <2>1 DEF CountInv, NoOtherInv
  <2> QED
    BY <2>3, <2>4, <2>5 DEF CountInv
<1> QED
  BY <1>5, <1>6 DEF O!Writers

\* Only a rename changes how many copies there are.
LEMMA NothingQueued ==
  ASSUME OutInv, O!Next, NEW m PROVE O!Copies(m)' = O!Copies(m) \/ \E x \in O!Writers : O!RenamePacket(x)
<1>1. ASSUME NEW x \in O!Writers, O!Lock(x) \/ O!ReadPacket(x) \/ O!Unlock(x) \/ O!QueueFails(x) \/ O!CrashAt(x)
      PROVE UNCHANGED <<sent, packet>>
  BY <1>1 DEF O!Lock, O!ReadPacket, O!Unlock, O!QueueFails, O!CrashAt
<1>2. ASSUME NEW l \in Letters, O!WriteNetmail(l) \/ O!RecordSent(l) PROVE UNCHANGED <<sent, packet>>
  BY <1>2 DEF O!WriteNetmail, O!RecordSent
<1>3. ASSUME O!Route \/ O!RouteNext \/ O!RouteDone PROVE UNCHANGED <<sent, packet>>
  BY <1>3 DEF O!Route, O!RouteNext, O!RouteDone
<1>4. ASSUME NEW n \in O!Nodes, O!Call(n) \/ O!HangUp(n) \/ O!KillOldBsy(n) PROVE O!Copies(m)' = O!Copies(m)
  BY <1>4, CopiesSame, CopiesSent DEF O!Call, O!HangUp, O!KillOldBsy
<1> QED
  BY <1>1, <1>2, <1>3, <1>4, CopiesSame DEF O!Next, O!WriterStep

LEMMA CountStep == ASSUME OutInv, CountInv, O!Next PROVE CountInv'
<1>1. bundle' = bundle
  BY DEF O!Next
<1>2. CASE \E x \in O!Writers : O!RenamePacket(x)
  BY <1>1, <1>2, RenameCounts
<1>3. CASE ~\E x \in O!Writers : O!RenamePacket(x)
  <2>1. \A m \in O!Msgs : O!Copies(m)' = O!Copies(m)
    BY <1>3, NothingQueued
  <2>2. ASSUME NEW x \in O!Writers, O!WriterStep(x) \/ O!QueueFails(x) \/ O!CrashAt(x) PROVE CountInv'
    <3>1. /\ runs' = runs /\ \A y \in O!Writers : y # x => w'[y] = w[y]
          /\ \/ w'[x].at = "rest" /\ ok' = ok
             \/ /\ w'[x].next = w[x].next
                /\ \/ w[x].at = "lock" /\ w'[x].at \in {"lock", "read"} /\ ok' = ok
                   \/ w[x].at = "read" /\ w'[x].at = "rename" /\ ok' = ok
                   \/ w[x].at = "rename" /\ w'[x].at = "unlock"
                   \/ w[x].at = "unlock" /\ w'[x].at = "queued" /\ ok' = ok
      BY <2>2, WriterMoves
    <3>2. ok' = ok
      BY <1>3, <2>2 DEF O!WriterStep, O!Lock, O!ReadPacket, O!Unlock, O!QueueFails, O!CrashAt
    <3>3. \A l \in Letters : w'[l].at \in {"lock", "read", "rename"} => w[l].at \in {"lock", "read", "rename"}
      BY <3>1, WriterNames
    <3>4. \A k \in DOMAIN bundle : Due(k)' => Due(k)
      BY <3>1, WriterNames DEF Due
    <3> QED
      BY <1>1, <2>1, <3>1, <3>2, <3>3, <3>4, CountStays
  <2>3. CASE \E l \in Letters : O!WriteNetmail(l) \/ O!RecordSent(l)
    <3>1. PICK l \in Letters : O!WriteNetmail(l) \/ O!RecordSent(l)
      BY <2>3
    <3>2. w'[O!Router] = w[O!Router] /\ ok' = ok /\ runs' = runs
      BY <2>3, OthersLeaveRouter
    <3>3. w \in [O!Writers -> Wr] /\ Letters \subseteq O!Writers
      BY WriterNames DEF OutInv, OutTypes
    <3>4. \A y \in Letters : w'[y].at \in {"lock", "read", "rename"} =>
                               w[y].at \in {"lock", "read", "rename"} \/ y \notin ok
      <4>1. CASE O!WriteNetmail(l)
        BY <3>3, <4>1 DEF O!WriteNetmail, O!Goto, O!Do
      <4>2. CASE O!RecordSent(l)
        BY <3>3, <4>2, RestingIsWr DEF O!RecordSent, O!Do
      <4> QED
        BY <3>1, <4>1, <4>2
    <3>5. \A k \in DOMAIN bundle : Due(k)' => Due(k)
      BY <3>2 DEF Due
    <3> QED
      BY <1>1, <2>1, <3>2, <3>4, <3>5, CountStays
  <2>4. CASE \E n \in O!Nodes : O!Call(n) \/ O!HangUp(n) \/ O!KillOldBsy(n)
    <3>1. w' = w /\ ok' = ok /\ runs' = runs
      BY <2>4 DEF O!Call, O!HangUp, O!KillOldBsy
    <3>2. \A k \in DOMAIN bundle : Due(k)' => Due(k)
      BY <3>1 DEF Due
    <3> QED
      BY <1>1, <2>1, <3>1, <3>2, CountStays
  <2>5. CASE O!Route \/ O!RouteNext \/ O!RouteDone
    <3>1. ok' = ok /\ \A l \in Letters : w'[l] = w[l]
      BY <2>5, RouterMoves
    <3>2. CASE runs' = runs + 1
      BY <1>1, <2>1, <3>1, <3>2, CountStays
    <3>3. CASE w'[O!Router].at = "rest" /\ runs' = runs
      <4>1. \A k \in DOMAIN bundle : Due(k)' => Due(k)
        BY <3>3 DEF Due
      <4> QED
        BY <1>1, <2>1, <3>1, <3>3, <4>1, CountStays
    <3>4. CASE w[O!Router].at = "queued" /\ w'[O!Router].next = w[O!Router].next + 1 /\ runs' = runs
      <4>1. PICK n \in Nat : n = w[O!Router].next
        BY WriterNames DEF OutInv, OutTypes, Wr
      <4>2. DOMAIN bundle \subseteq Nat
        BY BundleSeq DEF OutInv, OutTypes
      <4>3. \A k \in DOMAIN bundle : Due(k)' => Due(k)
        BY <3>4, <4>1, <4>2 DEF Due
      <4> QED
        BY <1>1, <2>1, <3>1, <3>4, <4>3, CountStays
    <3> QED
      BY <2>5, <3>2, <3>3, <3>4, RouterMoves
  <2> QED
    BY <2>2, <2>3, <2>4, <2>5 DEF O!Next
<1> QED
  BY <1>2, <1>3

\* QueueKeeps, for any letters, files, routes, crashes, errors and mailer sessions: no
\* message whose Queue succeeded is ever lost, and none is out more often than it was
\* tried (a letter once, a message of a file once for each run).
THEOREM QueuedIsKept == Spec => []QueueKeeps
<1>1. Init => OutInv /\ CountInv
  <2> SUFFICES ASSUME Init PROVE OutInv /\ CountInv
    OBVIOUS
  <2>1. /\ w = [x \in O!Writers |-> O!Resting] /\ bundle \in Files /\ ok = {} /\ runs = 0
        /\ sent = <<>> /\ packet = [n \in O!Nodes |-> <<>>]
    BY DEF Init, O!Init
  <2>2. PICK e \in Seq(O!Msgs) : e = <<>>
    BY EmptySeq
  <2>3. ASSUME NEW m PROVE O!Copies(m) = 0
    <3>1. \A i \in DOMAIN e : e[i] # m
      BY <2>2
    <3>2. O!Count(e, m) = 0
      BY <3>1, CountNone
    <3> QED
      BY <2>1, <2>2, <3>2, HopNode DEF O!Copies
  <2>4. \A x \in O!Writers : w[x].at = "rest"
    BY <2>1, RestingIsWr
  <2>5. CountInv
    BY <2>1, <2>3, <2>4, WriterNames DEF CountInv, LettersInv, RunsInv, NoOtherInv, Due
  <2> QED
    BY <2>5, OutStart
<1>2. OutInv /\ CountInv /\ [Next]_allVars => (OutInv /\ CountInv)'
  <2>1. ASSUME OutInv, CountInv, UNCHANGED outVars PROVE CountInv'
    <3>1. \A m \in O!Msgs : O!Copies(m)' = O!Copies(m)
      BY <2>1, CopiesSame DEF outVars
    <3>2. \A k \in DOMAIN bundle : Due(k)' => Due(k)
      BY <2>1 DEF Due, outVars
    <3> QED
      BY <2>1, <3>1, <3>2, CountStays DEF outVars
  <2> QED
    BY <2>1, OutIdle, OutStep, CountStep DEF Next, allVars
<1>3. OutInv /\ CountInv => QueueKeeps
  <2> SUFFICES ASSUME OutInv, CountInv, NEW m \in O!Msgs
               PROVE /\ m \in ok => O!Copies(m) >= 1
                     /\ O!Copies(m) <= IF m \in Letters THEN 1 ELSE runs
    BY DEF QueueKeeps, O!QueueKeeps
  <2>1. runs \in Nat /\ O!Copies(m) \in Nat
    BY CopiesType DEF OutInv, OutTypes
  <2>2. CASE m \in Letters
    BY <2>1, <2>2 DEF CountInv, LettersInv
  <2>3. CASE m \notin Letters /\ \E k \in DOMAIN bundle : m = bundle[k]
    BY <2>1, <2>3 DEF CountInv, RunsInv
  <2>4. CASE m \notin Letters /\ \A k \in DOMAIN bundle : m # bundle[k]
    BY <2>1, <2>4 DEF CountInv, NoOtherInv
  <2> QED
    BY <2>2, <2>3, <2>4
<1> QED
  BY <1>1, <1>2, <1>3, PTL DEF Spec, allVars
====
