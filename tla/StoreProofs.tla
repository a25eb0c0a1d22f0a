---- MODULE StoreProofs ----
(****************************************************************************)
(* Five parts of the database, for any number of accounts, boards, posts,   *)
(* files, codes and sessions.                                               *)
(*                                                                          *)
(* Accounts. There is always a sysop who can run the board. The invariant   *)
(* has a half about the operations under way, one that passed requireActor  *)
(* to lock or demote is not about its own actor, and a half about the       *)
(* table: every sysop is approved, and one of them is not locked. Each half *)
(* is stated of a table or operations, not of the variables, so that a      *)
(* step's intermediate values can be used.                                  *)
(*                                                                          *)
(* Rate limiters. DiskMatches is inductive with the types. OverrunBounded   *)
(* is not: a restart replaces memory by the table, so the invariant bounds  *)
(* the table with the rows on their way as well, and says that the table    *)
(* has no more than memory after every time in the window, since a Tick     *)
(* asks about a later time.                                                 *)
(*                                                                          *)
(* File echoes. Each stage of tossTIC knows what the ones before it did:    *)
(* the row is gone before the file, and the file is there before the row.   *)
(* A mark and a screen are no newer than the newest id ever given out, so   *)
(* that a new id is above both.                                             *)
(*                                                                          *)
(* Boards. A copy in a session's list is as good as a mark, since reading   *)
(* makes it one: what holds of marks is kept for lists too. A thread's      *)
(* name is never above the id of a post in it.                              *)
(*                                                                          *)
(* Email addresses. The row that waits counts the tries at the code it is   *)
(* about, and a code belongs to one life of one account.                    *)
(****************************************************************************)
EXTENDS MCStore, FiniteSetTheorems, SequenceTheorems, WellFoundedInduction, TLAPS

-----------------------------------------------------------------------------
(* Numbers: the least and the greatest of a set of them.                   *)

LEMMA NatMin ==
  ASSUME NEW S \in SUBSET Nat, S # {}
  PROVE \E m \in S : \A y \in S : m <= y
<1>1. PICK m \in S : \A y \in S : ~(<<y, m>> \in OpToRel(<, Nat))
  BY NatLessThanWellFounded, WFMin
<1>2. \A y \in S : ~(y < m)
  BY <1>1 DEF OpToRel
<1> QED
  BY <1>2

LEMMA NatMax ==
  ASSUME NEW S \in SUBSET Nat, S # {}, NEW n \in Nat, \A y \in S : y <= n
  PROVE \E m \in S : \A y \in S : m >= y
<1> DEFINE U == {k \in Nat : \A y \in S : y <= k}
<1>1. PICK m \in U : \A k \in U : m <= k
  BY NatMin
<1>2. CASE m \in S
  BY <1>1, <1>2
<1>3. CASE m \notin S
  <2>1. \A y \in S : y < m
    BY <1>1, <1>3
  <2>2. PICK z \in S : z < m
    BY <2>1
  <2>3. m - 1 \in U
    BY <1>1, <2>1, <2>2
  <2> QED
    BY <1>1, <2>3
<1> QED
  BY <1>2, <1>3

-----------------------------------------------------------------------------
(* Accounts.                                                               *)


Fields(o) == [at |-> o.at, actor |-> o.actor, kind |-> o.kind, target |-> o.target, had |-> o.had]

\* An operation of each front end, with the fields of Idle.
Shaped(ops) == ops = [f \in Fronts |-> Fields(ops[f])] /\ \A f \in Fronts : ops[f].had \in BOOLEAN

OnOthers(ops) ==
  \A f \in Fronts : ops[f].at = "required" /\ ops[f].kind \in {"lock", "demote"}
                      => ops[f].actor # ops[f].target

Sound(ops) == Shaped(ops) /\ OnOthers(ops)

Table(us)      == us \in [DOMAIN us -> Account]
SysopsOk(us)   == \A u \in DOMAIN us : us[u].sysop => us[u].ok
Runnable(us)   == \E u \in DOMAIN us : Unlocked(us, u) /\ us[u].ok
UserInv(us, s) == Table(us) /\ SysopsOk(us) /\ (DOMAIN us # {} /\ ~s => Runnable(us))

IInv == Sound(op) /\ UserInv(users, stale) /\ stale \in BOOLEAN

-----------------------------------------------------------------------------
(* Operations.                                                             *)

\* Replacing one operation by one of the right shape.
LEMMA ReplaceSound ==
  ASSUME NEW ops, NEW f \in Fronts, NEW o, Sound(ops), o = Fields(o), o.had \in BOOLEAN,
         o.at = "required" /\ o.kind \in {"lock", "demote"} => o.actor # o.target
  PROVE  Sound([ops EXCEPT ![f] = o])
<1> DEFINE new == [ops EXCEPT ![f] = o]
<1>1. /\ DOMAIN ops = Fronts
      /\ \A g \in Fronts : ops[g] = Fields(ops[g]) /\ ops[g].had \in BOOLEAN
  BY DEF Sound, Shaped
<1>2. new[f] = o /\ \A g \in Fronts \ {f} : new[g] = ops[g]
  BY <1>1
<1>3. new = [g \in Fronts |-> new[g]]
  BY <1>1
<1>4. \A g \in Fronts : new[g] = Fields(new[g]) /\ new[g].had \in BOOLEAN
  BY <1>1, <1>2
<1>5. Shaped(new)
  BY <1>3, <1>4 DEF Shaped
<1>6. OnOthers(new)
  BY <1>2 DEF Sound, OnOthers
<1> QED
  BY <1>5, <1>6 DEF Sound

\* Bringing the history up to date.
LEMMA NotingKeeps ==
  ASSUME NEW us, NEW ops, Sound(ops) PROVE Sound(Noting(us, ops))
<1> DEFINE new == Noting(us, ops)
<1>1. \A f \in Fronts : ops[f] = Fields(ops[f]) /\ ops[f].had \in BOOLEAN
  BY DEF Sound, Shaped
<1>2. ASSUME NEW f \in Fronts
      PROVE  /\ new[f].at = ops[f].at /\ new[f].actor = ops[f].actor
             /\ new[f].kind = ops[f].kind /\ new[f].target = ops[f].target
             /\ new[f].had = (ops[f].had \/ (ops[f].at \notin {"idle", "view"}
                                              /\ Right(f, us, ops[f].actor)))
             /\ new[f] = Fields(new[f])
  <2> DEFINE b == ops[f].had \/ (ops[f].at \notin {"idle", "view"} /\ Right(f, us, ops[f].actor))
  <2>1. new[f] = [ops[f] EXCEPT !.had = b]
    BY DEF Noting
  <2>2. ops[f] = Fields(ops[f])
    BY <1>1
  <2> HIDE DEF b
  <2>3. new[f] = [at |-> ops[f].at, actor |-> ops[f].actor, kind |-> ops[f].kind,
                  target |-> ops[f].target, had |-> b]
    BY <2>1, <2>2 DEF Fields
  <2> HIDE DEF new
  <2>4. /\ new[f].at = ops[f].at /\ new[f].actor = ops[f].actor
        /\ new[f].kind = ops[f].kind /\ new[f].target = ops[f].target /\ new[f].had = b
    BY <2>3
  <2>5. new[f] = Fields(new[f])
    BY <2>3, <2>4 DEF Fields
  <2> QED
    BY <2>4, <2>5 DEF b
<1>3. new = [f \in Fronts |-> new[f]]
  BY DEF Noting
<1> HIDE DEF new
<1>4. \A f \in Fronts : new[f].had \in BOOLEAN
  BY <1>2
<1>5. Shaped(new)
  <2>1. [f \in Fronts |-> new[f]] = [f \in Fronts |-> Fields(new[f])]
    BY <1>2
  <2> QED
    BY <1>3, <1>4, <2>1 DEF Shaped
<1>6. OnOthers(new)
  BY <1>2 DEF Sound, OnOthers
<1> QED
  BY <1>5, <1>6 DEF Sound, new

LEMMA IdleShape == Idle = Fields(Idle) /\ Idle.had \in BOOLEAN /\ Idle.at = "idle"
BY DEF Idle, Begun, Fields

\* An operation ends.
LEMMA IdleSound ==
  ASSUME NEW ops, NEW f \in Fronts, Sound(ops) PROVE Sound([ops EXCEPT ![f] = Idle])
<1>1. Idle.at # "required"
  BY IdleShape
<1> QED
  BY <1>1, IdleShape, ReplaceSound

\* What an operation is like when only its place changes.
LEMMA PlaceShape ==
  ASSUME NEW o, NEW p, o = Fields(o), o.had \in BOOLEAN
  PROVE  LET n == [o EXCEPT !.at = p]
         IN /\ n = Fields(n) /\ n.had = o.had /\ n.at = p /\ n.kind = o.kind
            /\ n.actor = o.actor /\ n.target = o.target
<1> DEFINE n == [o EXCEPT !.at = p]
<1>1. n = [at |-> p, actor |-> o.actor, kind |-> o.kind, target |-> o.target, had |-> o.had]
  BY DEF Fields
<1> HIDE DEF n
<1>2. n.had = o.had /\ n.at = p /\ n.kind = o.kind /\ n.actor = o.actor /\ n.target = o.target
  BY <1>1
<1>3. n = Fields(n)
  BY <1>1, <1>2 DEF Fields
<1> QED
  BY <1>2, <1>3 DEF n

\* The operations in a state with the invariant.
LEMMA OpFacts ==
  ASSUME IInv
  PROVE  /\ Sound(op) /\ DOMAIN op = Fronts
         /\ \A f \in Fronts : op[f] = Fields(op[f]) /\ op[f].had \in BOOLEAN
BY DEF IInv, Sound, Shaped

-----------------------------------------------------------------------------
(* The table.                                                              *)

\* Registration: a first user can run the board, a later one takes nothing away.
LEMMA CreateTable ==
  ASSUME IInv, NEW id, CreateUser(id) PROVE UserInv(users', stale')
<1> DEFINE first == DOMAIN users = {}
           new == [sysop |-> first, locked |-> FALSE, ok |-> first \/ ~ApproveNew]
<1>1. /\ DOMAIN users' = DOMAIN users \union {id} /\ users'[id] = new
      /\ \A u \in DOMAIN users : u # id => users'[u] = users[u]
      /\ users' = [u \in DOMAIN users' |-> users'[u]] /\ stale' = stale
  BY DEF CreateUser, SetUsers
<1>2. new \in Account /\ new.sysop = first /\ new.locked = FALSE /\ (first => new.ok)
  BY DEF Account
<1>3. UserInv(users, stale)
  BY DEF IInv
<1>4. id \notin DOMAIN users
  BY DEF CreateUser
<1>5. Table(users')
  BY <1>1, <1>2, <1>3 DEF UserInv, Table
<1>6. SysopsOk(users')
  BY <1>1, <1>2, <1>3 DEF UserInv, SysopsOk
<1>7. ~stale' => Runnable(users')
  <2>1. CASE first
    BY <2>1, <1>1, <1>2 DEF Runnable, Unlocked, IsSysop
  <2>2. CASE ~first
    BY <2>2, <1>1, <1>3, <1>4 DEF UserInv, Runnable, Unlocked, IsSysop
  <2> QED
    BY <2>1, <2>2
<1> QED
  BY <1>5, <1>6, <1>7 DEF UserInv

\* A restart with -sysop promotes and approves; it takes nothing away.
LEMMA RestartTable ==
  ASSUME IInv, NEW some, Restart(some) PROVE UserInv(users', stale')
<1> DEFINE promoted(u) == [users[u] EXCEPT !.sysop = TRUE, !.ok = TRUE]
<1>1. UserInv(users, stale)
  BY DEF IInv
<1>2. /\ DOMAIN users' = DOMAIN users /\ stale' = stale
      /\ \A u \in DOMAIN users : users'[u] = IF u \in some THEN promoted(u) ELSE users[u]
      /\ users' = [u \in DOMAIN users' |-> users'[u]]
  BY DEF Restart
<1>3. \A u \in DOMAIN users : users[u] \in Account
  BY <1>1 DEF UserInv, Table
<1>4. \A u \in DOMAIN users : /\ promoted(u) \in Account /\ promoted(u).sysop /\ promoted(u).ok
                              /\ promoted(u).locked = users[u].locked
  BY <1>3 DEF Account
<1>5. Table(users')
  BY <1>2, <1>3, <1>4 DEF Table
<1>6. SysopsOk(users')
  BY <1>1, <1>2, <1>4 DEF UserInv, SysopsOk
<1>7. Runnable(users) => Runnable(users')
  <2>1. ASSUME NEW u \in DOMAIN users, Unlocked(users, u), users[u].ok
        PROVE  Unlocked(users', u) /\ users'[u].ok
    BY <2>1, <1>2, <1>4 DEF Unlocked, IsSysop
  <2> QED
    BY <2>1, <1>2 DEF Runnable
<1> QED
  BY <1>1, <1>2, <1>5, <1>6, <1>7 DEF UserInv

\* A change by an unlocked sysop to somebody else, or one that takes nothing away,
\* leaves a sysop who can run the board.
LEMMA UpdateTable ==
  ASSUME IInv, NEW f \in Fronts, Update(f) PROVE UserInv(users', stale')
<1> DEFINE t == op[f].target
           a == op[f].actor
           kind == op[f].kind
           new == Changed(users[t], kind)
<1>1. UserInv(users, stale) /\ stale \in BOOLEAN
  BY DEF IInv
<1>2. CASE t \notin DOMAIN users
  BY <1>1, <1>2 DEF Update
<1>3. CASE t \in DOMAIN users
  <2>1. /\ users' = [users EXCEPT ![t] = new] /\ op[f].at = "required"
        /\ stale' = (stale \/ (kind \in {"lock", "demote"} /\ ~Unlocked(users, a)))
    BY <1>3 DEF Update, SetUsers
  <2>2. kind \in {"lock", "demote"} => a # t
    BY <2>1 DEF IInv, Sound, OnOthers
  <2>3. users \in [DOMAIN users -> Account]
    BY <1>1 DEF UserInv, Table
  <2>4. /\ new \in Account
        /\ new.sysop = (kind # "demote" /\ (users[t].sysop \/ kind = "promote"))
        /\ new.locked = (kind # "unlock" /\ (users[t].locked \/ kind = "lock"))
        /\ new.ok = (users[t].ok \/ kind \in {"promote", "approve"})
    <3>1. users[t].sysop \in BOOLEAN /\ users[t].locked \in BOOLEAN /\ users[t].ok \in BOOLEAN
      BY <1>3, <2>3 DEF Account
    <3> QED
      BY <3>1 DEF Changed, Account
  <2> HIDE DEF new
  <2>5. DOMAIN users' = DOMAIN users /\ users'[t] = new
    BY <1>3, <2>1
  <2>6. \A u \in DOMAIN users : u # t => users'[u] = users[u]
    BY <2>1
  <2>7. Table(users')
    <3>1. users' \in [DOMAIN users -> Account]
      BY <2>1, <2>3, <2>4
    <3> QED
      BY <3>1, <2>5 DEF Table
  <2>8. SysopsOk(users')
    BY <1>1, <1>3, <2>4, <2>5, <2>6 DEF UserInv, SysopsOk
  <2>9. ~stale' => Runnable(users')
    <3>1. CASE kind \in {"lock", "demote"}
      <4>1. ~stale' => Unlocked(users, a) /\ a # t
        BY <2>1, <2>2, <3>1, <1>1
      <4>2. Unlocked(users, a) /\ a # t => Unlocked(users', a) /\ users'[a].ok /\ a \in DOMAIN users'
        BY <1>1, <2>5, <2>6 DEF UserInv, SysopsOk, Unlocked, IsSysop
      <4> QED
        BY <4>1, <4>2 DEF Runnable
    <3>2. CASE kind \notin {"lock", "demote"}
      <4>1. ~stale' => ~stale
        BY <2>1, <1>1
      <4>2. DOMAIN users # {}
        BY <1>3
      <4>3. ASSUME NEW u \in DOMAIN users, Unlocked(users, u), users[u].ok
            PROVE  Unlocked(users', u) /\ users'[u].ok
        <5>1. CASE u = t
          BY <4>3, <5>1, <3>2, <2>4, <2>5 DEF Unlocked, IsSysop
        <5>2. CASE u # t
          BY <4>3, <5>2, <2>5, <2>6 DEF Unlocked, IsSysop
        <5> QED
          BY <5>1, <5>2
      <4> QED
        BY <4>1, <4>2, <4>3, <2>5, <1>1 DEF UserInv, Runnable
    <3> QED
      BY <3>1, <3>2
  <2> QED
    BY <2>7, <2>8, <2>9 DEF UserInv
<1> QED
  BY <1>2, <1>3

\* A deletion by an unlocked sysop leaves that sysop.
LEMMA DeleteTable ==
  ASSUME IInv, NEW f \in Fronts, NEW t, DeleteUser(f, t) PROVE UserInv(users', stale')
<1> DEFINE a == op[f].actor
<1>1. UserInv(users, stale) /\ stale \in BOOLEAN
  BY DEF IInv
<1>2. CASE ~(a # t /\ IsSysop(users, a) /\ t \in DOMAIN users)
  BY <1>1, <1>2 DEF DeleteUser
<1>3. CASE a # t /\ IsSysop(users, a) /\ t \in DOMAIN users
  <2>1. users' = [u \in DOMAIN users \ {t} |-> users[u]] /\ stale' = (stale \/ ~Unlocked(users, a))
    BY <1>3 DEF DeleteUser, SetUsers
  <2>2. /\ DOMAIN users' = DOMAIN users \ {t}
        /\ \A u \in DOMAIN users \ {t} : users'[u] = users[u]
    BY <2>1
  <2>3. Table(users') /\ SysopsOk(users')
    BY <1>1, <2>1, <2>2 DEF UserInv, Table, SysopsOk
  <2>4. ~stale' => Runnable(users')
    <3>1. ~stale' => Unlocked(users, a)
      BY <2>1, <1>1
    <3>2. Unlocked(users, a) => Unlocked(users', a) /\ users'[a].ok /\ a \in DOMAIN users'
      BY <1>1, <1>3, <2>2 DEF UserInv, SysopsOk, Unlocked, IsSysop
    <3> QED
      BY <3>1, <3>2 DEF Runnable
  <2> QED
    BY <2>3, <2>4 DEF UserInv
<1> QED
  BY <1>2, <1>3

-----------------------------------------------------------------------------
(* The operations, step by step, while the table stays as it is.           *)

LEMMA EndSound == ASSUME IInv, NEW f \in Fronts PROVE Sound(Becomes(f, Idle))
BY OpFacts, IdleSound DEF Becomes

\* One goes on, but not past requireActor.
LEMMA PlaceSound ==
  ASSUME IInv, NEW f \in Fronts, NEW p, p # "required" PROVE Sound(At(f, p))
<1> DEFINE o == [op[f] EXCEPT !.at = p]
<1>1. o = Fields(o) /\ o.had \in BOOLEAN /\ o.at = p
  BY OpFacts, PlaceShape
<1> QED
  BY <1>1, OpFacts, ReplaceSound DEF At, Becomes

\* A screen with something to press a key for.
LEMMA ScreenOps ==
  ASSUME IInv, NEW a, NEW t, NEW kind, op' = Becomes("telnet", Begun("view", a, kind, t))
  PROVE Sound(op')
<1> DEFINE o == Begun("view", a, kind, t)
<1>1. o = Fields(o) /\ o.had \in BOOLEAN /\ o.at = "view"
  BY DEF Begun, Fields
<1> HIDE DEF o
<1>2. Sound(Becomes("telnet", o))
  BY <1>1, OpFacts, ReplaceSound DEF Fronts, Becomes
<1> QED
  BY <1>2 DEF o

LEMMA KeyOps ==
  ASSUME IInv, Key PROVE Sound(op')
<1>1. PICK p \in {"prompt", "asked"} : op' = Noting(users, At("telnet", p))
  BY DEF Key
<1>2. Sound(At("telnet", p))
  BY PlaceSound DEF Fronts
<1> QED
  BY <1>1, <1>2, NotingKeeps

LEMMA RequestOps ==
  ASSUME IInv, NEW i, Request(i) PROVE Sound(op')
<1> DEFINE o == Begun("asked", sessions[i], "password", Nobody)
<1>1. o = Fields(o) /\ o.had \in BOOLEAN /\ o.at = "asked"
  BY DEF Begun, Fields
<1> HIDE DEF o
<1>2. Sound(Becomes("web", o))
  BY <1>1, OpFacts, ReplaceSound DEF Fronts, Becomes
<1>3. Sound(Noting(users, Becomes("web", o)))
  BY <1>2, NotingKeeps
<1> QED
  BY <1>3 DEF Request, o

LEMMA CheckOps ==
  ASSUME IInv, NEW f \in Fronts, Check(f) PROVE Sound(op')
BY PlaceSound, EndSound DEF Check

\* requireActor lets nobody through who would lock or demote themselves.
LEMMA RequireOps ==
  ASSUME IInv, NEW f \in Fronts, NEW t, NEW kind, Require(f, t, kind) PROVE Sound(op')
<1> DEFINE go == IsSysop(users, op[f].actor) /\ ~(NotSelf(kind) /\ op[f].actor = t)
           o == [at |-> "required", actor |-> op[f].actor, kind |-> kind, target |-> t, had |-> op[f].had]
<1>1. CASE go
  <2>1. op[f].had \in BOOLEAN
    BY OpFacts
  <2>2. o = Fields(o) /\ o.had = op[f].had /\ o.at = "required" /\ o.kind = kind
        /\ o.actor = op[f].actor /\ o.target = t
    BY DEF Fields
  <2> HIDE DEF o
  <2>3. o.kind \in {"lock", "demote"} => o.actor # o.target
    BY <1>1, <2>2 DEF NotSelf
  <2>4. Sound(Becomes(f, o))
    BY <2>1, <2>2, <2>3, OpFacts, ReplaceSound DEF Becomes
  <2> QED
    BY <2>4, <1>1 DEF Require, Aimed, o
<1>2. CASE ~go
  BY <1>2, EndSound DEF Require
<1> QED
  BY <1>1, <1>2

-----------------------------------------------------------------------------
(* The steps that change both.                                             *)

LEMMA UpdateOps ==
  ASSUME IInv, NEW f \in Fronts, Update(f) PROVE Sound(op')
<1> DEFINE then == IF f = "web" /\ op[f].kind = "demote" THEN At(f, "drop") ELSE Becomes(f, Idle)
<1>1. CASE op[f].target \in DOMAIN users
  <2>1. Sound(then)
    BY PlaceSound, EndSound
  <2>2. op' = Noting(users', then)
    BY <1>1 DEF Update, SetUsers
  <2> QED
    BY <2>1, <2>2, NotingKeeps
<1>2. CASE op[f].target \notin DOMAIN users
  BY <1>2, EndSound DEF Update
<1> QED
  BY <1>1, <1>2

LEMMA DeleteOps ==
  ASSUME IInv, NEW f \in Fronts, NEW t, DeleteUser(f, t) PROVE Sound(op')
<1> DEFINE go == op[f].actor # t /\ IsSysop(users, op[f].actor) /\ t \in DOMAIN users
           o == [at |-> "drop", actor |-> op[f].actor, kind |-> "delete", target |-> t, had |-> op[f].had]
           then == IF f = "web" THEN Aimed(f, "drop", "delete", t) ELSE Becomes(f, Idle)
<1>1. CASE go
  <2>1. o = Fields(o) /\ o.had \in BOOLEAN /\ o.at = "drop"
    BY OpFacts DEF Fields
  <2>2. Sound(Becomes(f, o))
    BY <2>1, OpFacts, ReplaceSound DEF Becomes
  <2>3. Sound(then)
    BY <2>2, EndSound DEF Aimed
  <2>4. op' = Noting(users', then)
    BY <1>1 DEF DeleteUser, SetUsers
  <2> QED
    BY <2>3, <2>4, NotingKeeps
<1>2. CASE ~go
  BY <1>2, EndSound DEF DeleteUser
<1> QED
  BY <1>1, <1>2

LEMMA RestartOps ==
  ASSUME NEW some, Restart(some) PROVE Sound(op')
<1>1. op' = [f \in Fronts |-> Idle]
  BY DEF Restart
<1>2. \A f \in Fronts : op'[f] = Fields(op'[f]) /\ op'[f].had \in BOOLEAN /\ op'[f].at = "idle"
  BY <1>1, IdleShape
<1> QED
  BY <1>1, <1>2, IdleShape DEF Sound, Shaped, OnOthers

-----------------------------------------------------------------------------
(* The theorems.                                                           *)

LEMMA InitInv == Init => IInv
<1> SUFFICES ASSUME Init PROVE IInv
  OBVIOUS
<1>1. /\ op = [f \in Fronts |-> Idle] /\ users = <<>> /\ stale = FALSE
      /\ \A f \in Fronts : op[f].at = "idle" /\ op[f] = Fields(op[f]) /\ op[f].had \in BOOLEAN
  BY IdleShape DEF Init
<1>2. Sound(op)
  BY <1>1, IdleShape DEF Sound, Shaped, OnOthers
<1>3. DOMAIN users = {} /\ users \in [DOMAIN users -> Account]
  BY <1>1
<1> QED
  BY <1>1, <1>2, <1>3 DEF IInv, UserInv, Table, SysopsOk

LEMMA NextInv == IInv /\ [Next]_vars => IInv'
<1> SUFFICES ASSUME IInv, [Next]_vars PROVE Sound(op') /\ UserInv(users', stale') /\ stale' \in BOOLEAN
  BY DEF IInv
<1>0. Sound(op) /\ UserInv(users, stale) /\ stale \in BOOLEAN
  BY DEF IInv
<1>1. ASSUME NEW id \in Ids, CreateUser(id) PROVE Sound(op') /\ UserInv(users', stale') /\ stale' \in BOOLEAN
  <2>1. op' = Noting(users', op) /\ stale' = stale
    BY <1>1 DEF CreateUser, SetUsers
  <2>2. Sound(op')
    BY <2>1, OpFacts, NotingKeeps
  <2> QED
    BY <1>0, <1>1, <2>1, <2>2, CreateTable
<1>2. ASSUME NEW some, Restart(some) PROVE Sound(op') /\ UserInv(users', stale') /\ stale' \in BOOLEAN
  BY <1>0, <1>2, RestartOps, RestartTable DEF Restart
<1>3. ASSUME UNCHANGED <<users, op, stale>> PROVE Sound(op') /\ UserInv(users', stale') /\ stale' \in BOOLEAN
  BY <1>0, <1>3
<1>4. ASSUME UNCHANGED <<users, stale>>, Sound(op')
      PROVE  Sound(op') /\ UserInv(users', stale') /\ stale' \in BOOLEAN
  BY <1>0, <1>4
<1>5. ASSUME NEW f \in Fronts, Update(f) PROVE Sound(op') /\ UserInv(users', stale') /\ stale' \in BOOLEAN
  <2>1. stale' \in BOOLEAN
    BY <1>0, <1>5 DEF Update
  <2> QED
    BY <1>5, <2>1, UpdateOps, UpdateTable
<1>6. ASSUME NEW f \in Fronts, NEW t, DeleteUser(f, t)
      PROVE  Sound(op') /\ UserInv(users', stale') /\ stale' \in BOOLEAN
  <2>1. stale' \in BOOLEAN
    BY <1>0, <1>6 DEF DeleteUser
  <2> QED
    BY <1>6, <2>1, DeleteOps, DeleteTable
<1>7. ASSUME NEW id \in Ids, SysopLogin(id) PROVE UNCHANGED <<users, op, stale>>
  BY <1>7 DEF SysopLogin
<1>8. ASSUME CreateSession PROVE UNCHANGED <<users, op, stale>>
  BY <1>8 DEF CreateSession
<1>9. ASSUME NEW i, Forget(i) PROVE UNCHANGED <<users, op, stale>>
  BY <1>9 DEF Forget
<1>10. ASSUME Drop PROVE UNCHANGED <<users, stale>> /\ Sound(op')
  BY <1>10, EndSound DEF Drop, Fronts
<1>11. ASSUME Key PROVE UNCHANGED <<users, stale>> /\ Sound(op')
  BY <1>11, KeyOps DEF Key
<1>12. ASSUME NEW i, Request(i) PROVE UNCHANGED <<users, stale>> /\ Sound(op')
  BY <1>12, RequestOps DEF Request
<1>13. ASSUME NEW a, NEW t, NEW kind, View(a, t, kind) PROVE UNCHANGED <<users, stale>> /\ Sound(op')
  BY <1>13, ScreenOps DEF View
<1>14. ASSUME NEW f \in Fronts, Check(f) PROVE UNCHANGED <<users, stale>> /\ Sound(op')
  BY <1>14, CheckOps DEF Check
<1>15. ASSUME NEW f \in Fronts, GiveUp(f) PROVE UNCHANGED <<users, stale>> /\ Sound(op')
  BY <1>15, EndSound DEF GiveUp
<1>16. ASSUME NEW f \in Fronts, NEW t, NEW kind, Require(f, t, kind)
       PROVE  UNCHANGED <<users, stale>> /\ Sound(op')
  BY <1>16, RequireOps DEF Require
<1>17. ASSUME NEW a, NEW kind, SysopMenu(a, kind) PROVE UNCHANGED <<users, stale>> /\ Sound(op')
  BY <1>17, ScreenOps DEF SysopMenu
<1>18. ASSUME ActOnBoard PROVE UNCHANGED <<users, stale>> /\ Sound(op')
  BY <1>18, PlaceSound DEF ActOnBoard, Fronts
<1>19. ASSUME MenuAgain PROVE UNCHANGED <<users, stale>> /\ Sound(op')
  BY <1>19, EndSound DEF MenuAgain, Fronts
<1>20. ASSUME UNCHANGED vars PROVE UNCHANGED <<users, op, stale>>
  BY <1>20 DEF vars
<1> QED
  BY <1>1, <1>2, <1>3, <1>4, <1>5, <1>6, <1>7, <1>8, <1>9, <1>10, <1>11, <1>12, <1>13, <1>14,
     <1>15, <1>16, <1>17, <1>18, <1>19, <1>20 DEF Next

LEMMA Invariant == Spec => []IInv
BY InitInv, NextInv, PTL DEF Spec

\* SysopRemains: once anybody is registered there is an approved sysop who is not
\* locked, unless a right was used by somebody who had just lost theirs, however the
\* two front ends interleave (requireActor's notSelf, DeleteUser, CreateUser).
THEOREM SysopStays == Spec => []SysopRemains
<1>1. IInv => SysopRemains
  BY DEF IInv, UserInv, Runnable, SysopRemains
<1> QED
  BY <1>1, Invariant, PTL

-----------------------------------------------------------------------------
(* Rate limiters.                                                          *)

HitBags == [R!Times -> Nat]

LimitTypes ==
  /\ now \in R!Times /\ hits \in HitBags /\ hitRows \in HitBags /\ unsaved \in HitBags
  /\ pc \in [Actors -> {"idle", "acting", "acted", "saving"}]
  /\ at \in [Actors -> R!Times] /\ \A a \in Actors : at[a] <= now

LimitInv == LimitTypes /\ DiskMatches

\* FiniteSets as RateLimiter has it.
LEMMA SameCardinality == ASSUME NEW S PROVE R!Cardinality(S) = Cardinality(S)
BY DEF R!Cardinality, Cardinality

\* An event that counts is in memory once for every row, every row on its way and every
\* row that could not be saved.
Counted(t) == hits[t] = hitRows[t] + Cardinality(R!Saving(t)) + unsaved[t]

LEMMA SavingFinite ==
  ASSUME NEW t PROVE IsFiniteSet(R!Saving(t)) /\ Cardinality(R!Saving(t)) \in Nat
BY LimitAssumption, FS_Subset, FS_CardinalityType DEF R!Saving

\* What is in the window stays in memory when it is trimmed.
LEMMA RecentKeeps ==
  ASSUME LimitTypes
  PROVE R!Recent(hits) \in HitBags /\ \A t \in R!WindowTimes : t \in R!Times /\ R!Recent(hits)[t] = hits[t]
BY DEF LimitTypes, HitBags, R!Recent, R!Only, R!WindowTimes

\* A step that changes nothing that counts.
LEMMA QuietLimit ==
  ASSUME LimitInv, LimitTypes', UNCHANGED <<hitRows, unsaved, loaded>>,
         \A t \in R!WindowTimes' : t \in R!WindowTimes /\ hits'[t] = hits[t] /\ R!Saving(t)' = R!Saving(t)
  PROVE LimitInv'
BY DEF LimitInv, DiskMatches, R!DiskMatches

LEMMA AskKeeps == ASSUME LimitInv, NEW a \in Actors, R!Ask(a) \/ R!GiveUp(a) \/ R!Act(a) PROVE LimitInv'
<1>1. LimitTypes'
  BY RecentKeeps DEF LimitInv, LimitTypes, R!Ask, R!GiveUp, R!Act, R!Times
<1>2. UNCHANGED <<hitRows, unsaved, loaded>> /\ R!WindowTimes' = R!WindowTimes
  BY DEF R!Ask, R!GiveUp, R!Act, R!WindowTimes
<1>3. \A t \in R!WindowTimes : hits'[t] = hits[t]
  BY RecentKeeps DEF LimitInv, R!Ask, R!GiveUp, R!Act
<1>4. \A t : R!Saving(t)' = R!Saving(t)
  BY DEF LimitInv, LimitTypes, R!Ask, R!GiveUp, R!Act, R!Saving
<1> QED
  BY <1>1, <1>2, <1>3, <1>4, QuietLimit

LEMMA TickKeeps == ASSUME LimitInv, R!Tick PROVE LimitInv'
<1>1. LimitTypes'
  BY LimitAssumption DEF LimitInv, LimitTypes, R!Tick, R!Times
<1>2. UNCHANGED <<hitRows, unsaved, loaded, hits, pc, at>> /\ now' = now + 1 /\ now \in Nat
  BY LimitAssumption DEF LimitInv, LimitTypes, R!Tick, R!Times
<1>3. \A t \in R!WindowTimes' : t \in R!WindowTimes
  BY <1>2, LimitAssumption DEF R!WindowTimes, R!Times
<1>4. \A t : R!Saving(t)' = R!Saving(t)
  BY <1>2 DEF R!Saving
<1> QED
  BY <1>1, <1>2, <1>3, <1>4, QuietLimit

\* hit in memory: one more event, and one more row on its way.
LEMMA HitMemoryKeeps == ASSUME LimitInv, NEW a \in Actors, R!HitMemory(a) PROVE LimitInv'
<1>1. /\ LimitTypes /\ pc[a] = "acted" /\ UNCHANGED <<now, hitRows, unsaved, loaded, at>>
      /\ pc' = [pc EXCEPT ![a] = "saving"]
      /\ hits' = [R!Recent(hits) EXCEPT ![at[a]] = R!Recent(hits)[at[a]] + 1]
      /\ at[a] \in R!Times /\ now' = now
  BY DEF LimitInv, LimitTypes, R!HitMemory
<1>2. LimitTypes'
  BY <1>1, RecentKeeps DEF LimitTypes, HitBags
<1>3. R!WindowTimes' = R!WindowTimes
  BY <1>1 DEF R!WindowTimes
<1>4. ASSUME loaded', NEW t \in R!WindowTimes' PROVE Counted(t)'
  <2>1. Counted(t) /\ t \in R!Times /\ hits[t] \in Nat /\ hitRows[t] \in Nat /\ unsaved[t] \in Nat
    BY <1>1, <1>3, <1>4, SameCardinality
       DEF LimitInv, LimitTypes, HitBags, DiskMatches, R!DiskMatches, Counted, R!WindowTimes
  <2>2. CASE t = at[a]
    <3>1. R!Saving(t)' = R!Saving(t) \union {a} /\ a \notin R!Saving(t)
      BY <1>1, <2>2 DEF LimitTypes, R!Saving
    <3>2. Cardinality(R!Saving(t)') = Cardinality(R!Saving(t)) + 1
      BY <3>1, SavingFinite, FS_AddElement
    <3>3. hits'[t] = hits[t] + 1
      BY <1>1, <1>3, <2>2, RecentKeeps DEF HitBags
    <3> QED
      BY <1>1, <2>1, <3>2, <3>3, SavingFinite DEF Counted
  <2>3. CASE t # at[a]
    <3>1. R!Saving(t)' = R!Saving(t)
      BY <1>1, <2>3 DEF LimitTypes, R!Saving
    <3>2. hits'[t] = hits[t]
      BY <1>1, <1>3, <2>3, RecentKeeps DEF HitBags
    <3> QED
      BY <1>1, <2>1, <3>1, <3>2 DEF Counted
  <2> QED
    BY <2>2, <2>3
<1> QED
  BY <1>2, <1>4, SameCardinality DEF LimitInv, DiskMatches, R!DiskMatches, Counted

\* hit in the database: the row is there, with or without the rows past the retention,
\* or it could not be saved.
LEMMA HitDiskKeeps == ASSUME LimitInv, NEW a \in Actors, R!HitDisk(a) PROVE LimitInv'
<1> DEFINE more(b) == [b EXCEPT ![at[a]] = b[at[a]] + 1]
<1>1. /\ LimitTypes /\ pc[a] = "saving" /\ UNCHANGED <<now, hits, loaded>> /\ now' = now
      /\ pc' = [pc EXCEPT ![a] = "idle"] /\ at' = [at EXCEPT ![a] = 0]
      /\ at[a] \in R!Times /\ at[a] \in Nat /\ now \in Nat /\ at[a] <= now
  BY LimitAssumption DEF LimitInv, LimitTypes, R!HitDisk, R!Times
<1>2. \/ hitRows' = R!Retained(at[a], more(hitRows)) /\ unsaved' = unsaved
      \/ hitRows' = more(hitRows) /\ unsaved' = unsaved
      \/ unsaved' = more(unsaved) /\ hitRows' = hitRows
  BY DEF R!HitDisk
<1>3. more(hitRows) \in HitBags /\ more(unsaved) \in HitBags
  BY <1>1 DEF LimitTypes, HitBags
<1>4. /\ R!Retained(at[a], more(hitRows)) \in HitBags
      /\ \A t \in R!WindowTimes : R!Retained(at[a], more(hitRows))[t] = more(hitRows)[t]
  <2>1. \A t \in R!WindowTimes : t \in R!Times /\ t \in {u \in R!Times : u >= at[a] - Retention}
    BY <1>1, LimitAssumption DEF R!WindowTimes, R!Times
  <2> HIDE DEF more
  <2> QED
    BY <1>3, <2>1 DEF R!Retained, R!Only, HitBags
<1>5. LimitTypes'
  BY <1>1, <1>2, <1>3, <1>4, LimitAssumption DEF LimitTypes, R!Times
<1>6. R!WindowTimes' = R!WindowTimes
  BY <1>1 DEF R!WindowTimes
<1>7. ASSUME loaded', NEW t \in R!WindowTimes' PROVE Counted(t)'
  <2>1. Counted(t) /\ t \in R!Times /\ hits[t] \in Nat /\ hitRows[t] \in Nat /\ unsaved[t] \in Nat
    BY <1>1, <1>6, <1>7, SameCardinality
       DEF LimitInv, LimitTypes, HitBags, DiskMatches, R!DiskMatches, Counted, R!WindowTimes
  <2>2. \/ hitRows' = hitRows /\ unsaved'[t] = more(unsaved)[t]
        \/ unsaved' = unsaved /\ hitRows'[t] = more(hitRows)[t]
    <3>1. R!Retained(at[a], more(hitRows))[t] = more(hitRows)[t]
      BY <1>4, <1>6
    <3> HIDE DEF more
    <3>2. CASE hitRows' = R!Retained(at[a], more(hitRows)) /\ unsaved' = unsaved
      BY <3>1, <3>2
    <3>3. CASE hitRows' = more(hitRows) /\ unsaved' = unsaved
      BY <3>3
    <3>4. CASE unsaved' = more(unsaved) /\ hitRows' = hitRows
      BY <3>4
    <3> QED
      BY <1>2, <3>2, <3>3, <3>4
  <2>3. CASE t = at[a]
    <3>1. R!Saving(t)' = R!Saving(t) \ {a} /\ a \in R!Saving(t)
      BY <1>1, <2>3 DEF LimitTypes, R!Saving
    <3>2. Cardinality(R!Saving(t)') = Cardinality(R!Saving(t)) - 1
      BY <3>1, SavingFinite, FS_RemoveElement
    <3>3. more(unsaved)[t] = unsaved[t] + 1 /\ more(hitRows)[t] = hitRows[t] + 1
      BY <1>1, <2>3 DEF LimitTypes, HitBags
    <3> HIDE DEF more
    <3> QED
      BY <1>1, <2>1, <2>2, <3>2, <3>3, SavingFinite DEF Counted
  <2>4. CASE t # at[a]
    <3>1. R!Saving(t)' = R!Saving(t)
      BY <1>1, <2>4 DEF LimitTypes, R!Saving
    <3>2. more(unsaved)[t] = unsaved[t] /\ more(hitRows)[t] = hitRows[t]
      BY <1>1, <2>1, <2>4 DEF LimitTypes, HitBags
    <3> HIDE DEF more
    <3> QED
      BY <1>1, <2>1, <2>2, <3>1, <3>2 DEF Counted
  <2> QED
    BY <2>3, <2>4
<1> QED
  BY <1>5, <1>7, SameCardinality DEF LimitInv, DiskMatches, R!DiskMatches, Counted

LEMMA RestartKeeps == ASSUME LimitInv, R!Restart PROVE LimitInv'
<1>1. /\ LimitTypes /\ UNCHANGED <<now, hitRows>> /\ now' = now /\ hitRows' = hitRows
      /\ pc' = [a \in Actors |-> "idle"] /\ at' = [a \in Actors |-> 0] /\ unsaved' = R!NoHits
      /\ hits' = R!LoadHits \/ (hits' = R!NoHits /\ loaded' = FALSE)
  BY DEF LimitInv, R!Restart
<1>2. /\ R!NoHits \in HitBags /\ \A t \in R!Times : R!NoHits[t] = 0
      /\ R!LoadHits \in HitBags /\ \A t \in R!WindowTimes : t \in R!Times /\ R!LoadHits[t] = hitRows[t]
  BY <1>1, LimitAssumption DEF LimitTypes, HitBags, R!NoHits, R!LoadHits, R!Only, R!WindowTimes, R!Times
<1>3. LimitTypes'
  BY <1>1, <1>2, LimitAssumption DEF LimitTypes, R!Times
<1>4. ASSUME loaded', NEW t \in R!WindowTimes' PROVE Counted(t)'
  <2>1. t \in R!WindowTimes /\ t \in R!Times
    BY <1>1 DEF R!WindowTimes
  <2>2. R!Saving(t)' = {}
    BY <1>1 DEF R!Saving
  <2>3. hits'[t] = hitRows[t] /\ hitRows[t] \in Nat /\ unsaved'[t] = 0
    BY <1>1, <1>2, <1>4, <2>1 DEF LimitTypes, HitBags
  <2> QED
    BY <1>1, <2>2, <2>3, FS_EmptySet DEF Counted
<1> QED
  BY <1>3, <1>4, SameCardinality DEF LimitInv, DiskMatches, R!DiskMatches, Counted

LEMMA LimitStart == ASSUME StoreInit PROVE LimitInv
<1>1. /\ now = 0 /\ hits = R!NoHits /\ hitRows = R!NoHits /\ unsaved = R!NoHits
      /\ pc = [a \in Actors |-> "idle"] /\ at = [a \in Actors |-> 0]
  BY DEF StoreInit, R!Init
<1>2. R!NoHits \in HitBags /\ \A t \in R!Times : R!NoHits[t] = 0
  BY DEF R!NoHits, HitBags
<1>3. LimitTypes
  BY <1>1, <1>2, LimitAssumption DEF LimitTypes, R!Times
<1>4. \A t : R!Saving(t) = {}
  BY <1>1 DEF R!Saving
<1>5. \A t \in R!WindowTimes : hits[t] = 0 /\ hitRows[t] = 0 /\ unsaved[t] = 0
  BY <1>1, <1>2 DEF R!WindowTimes
<1> QED
  BY <1>3, <1>4, <1>5, FS_EmptySet, SameCardinality DEF LimitInv, DiskMatches, R!DiskMatches

LEMMA LimitIdle == ASSUME LimitInv, UNCHANGED limitVars PROVE LimitInv'
BY DEF LimitInv, LimitTypes, limitVars, DiskMatches, R!DiskMatches, R!WindowTimes, R!Saving

LEMMA LimitStep == ASSUME LimitInv, R!Next PROVE LimitInv'
BY AskKeeps, TickKeeps, HitMemoryKeeps, HitDiskKeeps, RestartKeeps DEF R!Next

\* DiskMatches, for any number of sessions and any window and retention: whatever is
\* trimmed, pruned, lost on the way to the table or loaded again, memory holds of every
\* event that still counts as many as the table, on its way or unsaved (limiter.go,
\* throttle.go).
THEOREM LimiterMatchesTable == StoreSpec => []DiskMatches
<1>1. StoreInit => LimitInv
  BY LimitStart
<1>2. LimitInv /\ [StoreNext]_<<part, vars, boardVars, fileVars, emailVars, limitVars>> => LimitInv'
  BY LimitIdle, LimitStep DEF StoreNext
<1> QED
  BY <1>1, <1>2, PTL DEF StoreSpec, LimitInv

\* How far a limit can be overrun: the events after a time, in memory or in the table,
\* and the sessions with a row on its way.
EventsAfter(b, c) == {e \in R!Events(b) : e[1] > c}
After(b, c)       == Cardinality(EventsAfter(b, c))
SavingAfter(c)    == {a \in Actors : pc[a] = "saving" /\ at[a] > c}
Room              == Limit - 1 + Cardinality(Actors)
Missed            == IF loaded THEN 0 ELSE failed * Room

\* What is in the table or on its way there is in memory too, but for what a start that
\* could not read the table left out, after any time in the window: as the window moves
\* on, both sides lose what is no longer in it.
OverInv ==
  /\ failed \in Nat /\ loaded \in BOOLEAN
  /\ After(hits, now - Window) + Cardinality(R!Pending) <= (failed + 1) * Room
  /\ After(hitRows, now - Window) + Cardinality(SavingAfter(now - Window)) + Cardinality(R!Pending)
       <= (failed + 1) * Room
  /\ \A c \in Int : c >= now - Window =>
       After(hitRows, c) + Cardinality(SavingAfter(c)) <= After(hits, c) + Missed

LEMMA RoomIs ==
  ASSUME failed \in Nat
  PROVE /\ Room \in Nat /\ failed * Room \in Nat /\ (failed + 1) * Room = failed * Room + Room
        /\ Missed \in Nat /\ Missed <= failed * Room
<1>1. PICK r \in Nat : r = Room
  BY LimitAssumption, FS_CardinalityType DEF Room
<1>2. failed * r \in Nat /\ (failed + 1) * r = failed * r + r
  OBVIOUS
<1> QED
  BY <1>1, <1>2 DEF Missed

LEMMA ActorSets ==
  ASSUME NEW S \in SUBSET Actors, NEW T \in SUBSET S
  PROVE /\ IsFiniteSet(S) /\ Cardinality(S) \in Nat /\ Cardinality(T) \in Nat
        /\ Cardinality(T) <= Cardinality(S) /\ Cardinality(S) <= Cardinality(Actors)
<1>1. IsFiniteSet(S) /\ Cardinality(S) <= Cardinality(Actors)
  BY LimitAssumption, FS_Subset
<1>2. IsFiniteSet(T) /\ Cardinality(T) <= Cardinality(S)
  BY <1>1, FS_Subset
<1> QED
  BY <1>1, <1>2, FS_CardinalityType

LEMMA EventIs ==
  ASSUME NEW b \in HitBags
  PROVE /\ \A e \in R!Events(b) : \E t \in R!Times, k \in Nat : k \in 1..b[t] /\ e = <<t, k>>
        /\ \A t \in R!Times : \A k \in 1..b[t] : <<t, k>> \in R!Events(b)
BY DEF R!Events

LEMMA AfterFinite ==
  ASSUME NEW b \in HitBags, NEW c
  PROVE IsFiniteSet(EventsAfter(b, c)) /\ After(b, c) \in Nat
<1> DEFINE S == {{t} \X (1..b[t]) : t \in R!Times}
<1>1. IsFiniteSet(R!Times)
  BY LimitAssumption, FS_Interval DEF R!Times
<1>2. IsFiniteSet(S)
  <2> DEFINE f == [t \in R!Times |-> {t} \X (1..b[t])]
  <2>1. f \in Surjection(R!Times, S)
    BY DEF Surjection
  <2> QED
    BY <1>1, <2>1, FS_Surjection DEF ExistsSurjection
<1>3. ASSUME NEW t \in R!Times PROVE IsFiniteSet({t} \X (1..b[t]))
  <2>1. b[t] \in Nat
    BY DEF HitBags
  <2>2. IsFiniteSet(1..b[t])
    BY <2>1, FS_Interval
  <2>3. IsFiniteSet({t})
    BY FS_Singleton
  <2> QED
    BY <2>2, <2>3, FS_Product
<1>4. \A T \in S : IsFiniteSet(T)
  BY <1>3
<1>5. IsFiniteSet(R!Events(b))
  <2>1. IsFiniteSet(UNION S)
    BY <1>2, <1>4, FS_UNION
  <2> QED
    BY <2>1 DEF R!Events
<1> QED
  BY <1>5, FS_Subset, FS_CardinalityType DEF EventsAfter, After

\* Fewer events in a smaller bag, or after a later time.
LEMMA AfterFewer ==
  ASSUME NEW b \in HitBags, NEW d \in HitBags, NEW c \in Int, NEW u \in Int, u <= c,
         \A t \in R!Times : t > c => b[t] <= d[t]
  PROVE After(b, c) <= After(d, u)
<1>1. R!Times \subseteq Int /\ \A t \in R!Times : b[t] \in Nat /\ d[t] \in Nat
  BY LimitAssumption DEF R!Times, HitBags
<1>2. EventsAfter(b, c) \subseteq EventsAfter(d, u)
  <2> SUFFICES ASSUME NEW e \in EventsAfter(b, c) PROVE e \in EventsAfter(d, u)
    OBVIOUS
  <2>1. PICK t \in R!Times, k \in Nat : k \in 1..b[t] /\ e = <<t, k>> /\ e[1] > c
    BY EventIs DEF EventsAfter
  <2>2. t > c /\ t > u /\ k \in 1..d[t]
    BY <1>1, <2>1
  <2>3. <<t, k>> \in R!Events(d)
    BY <2>2, EventIs
  <2> QED
    BY <2>1, <2>2, <2>3 DEF EventsAfter
<1> QED
  BY <1>2, AfterFinite, FS_Subset DEF After

\* One event more.
LEMMA AfterMore ==
  ASSUME NEW b \in HitBags, NEW d \in HitBags, NEW u \in R!Times, NEW c \in Int,
         d[u] = b[u] + 1, \A t \in R!Times : t # u /\ t > c => d[t] = b[t]
  PROVE After(d, c) = IF u > c THEN After(b, c) + 1 ELSE After(b, c)
<1>1. R!Times \subseteq Int /\ \A t \in R!Times : b[t] \in Nat /\ d[t] \in Nat
  BY LimitAssumption DEF R!Times, HitBags
<1>2. After(b, c) \in Nat /\ After(d, c) \in Nat
  BY AfterFinite
<1>3. CASE ~(u > c)
  <2>1. \A t \in R!Times : t > c => d[t] = b[t]
    BY <1>1, <1>3
  <2>2. After(d, c) <= After(b, c) /\ After(b, c) <= After(d, c)
    BY <1>1, <2>1, AfterFewer
  <2> QED
    BY <1>2, <1>3, <2>2
<1>4. CASE u > c
  <2>1. PICK n \in Nat : n = b[u]
    BY <1>1
  <2>2. PICK x : x = <<u, n + 1>>
    OBVIOUS
  <2>3. x \notin EventsAfter(b, c)
    <3> SUFFICES ASSUME x \in EventsAfter(b, c) PROVE FALSE
      OBVIOUS
    <3>1. PICK t \in R!Times, k \in Nat : k \in 1..b[t] /\ x = <<t, k>>
      BY EventIs DEF EventsAfter
    <3>2. t = u /\ k = n + 1
      BY <2>2, <3>1
    <3> QED
      BY <2>1, <3>1, <3>2
  <2>4. x \in EventsAfter(d, c)
    <3>1. n + 1 \in 1..d[u]
      BY <2>1
    <3>2. <<u, n + 1>> \in R!Events(d)
      BY <3>1, EventIs
    <3> QED
      BY <1>4, <2>2, <3>2 DEF EventsAfter
  <2>5. EventsAfter(b, c) \subseteq EventsAfter(d, c)
    <3> SUFFICES ASSUME NEW e \in EventsAfter(b, c) PROVE e \in EventsAfter(d, c)
      OBVIOUS
    <3>1. PICK t \in R!Times, k \in Nat : k \in 1..b[t] /\ e = <<t, k>> /\ e[1] > c
      BY EventIs DEF EventsAfter
    <3>2. k \in 1..d[t]
      BY <1>1, <3>1
    <3>3. <<t, k>> \in R!Events(d)
      BY <3>2, EventIs
    <3> QED
      BY <3>1, <3>3 DEF EventsAfter
  <2>6. ASSUME NEW e \in EventsAfter(d, c), e # x PROVE e \in EventsAfter(b, c)
    <3>1. PICK t \in R!Times, k \in Nat : k \in 1..d[t] /\ e = <<t, k>> /\ e[1] > c
      BY EventIs DEF EventsAfter
    <3>2. k \in 1..b[t]
      BY <1>1, <2>1, <2>2, <2>6, <3>1
    <3>3. <<t, k>> \in R!Events(b)
      BY <3>2, EventIs
    <3> QED
      BY <3>1, <3>3 DEF EventsAfter
  <2>7. EventsAfter(d, c) = EventsAfter(b, c) \union {x}
    BY <2>4, <2>5, <2>6
  <2>8. Cardinality(EventsAfter(d, c)) = Cardinality(EventsAfter(b, c)) + 1
    BY <2>3, <2>7, AfterFinite, FS_AddElement
  <2> QED
    BY <1>4, <2>8 DEF After
<1> QED
  BY <1>3, <1>4

\* What the numbers of OverInv are.
LEMMA OverTypes ==
  ASSUME LimitInv, OverInv
  PROVE /\ LimitTypes /\ hits \in HitBags /\ hitRows \in HitBags /\ failed \in Nat
        /\ now \in Int /\ Window \in Nat /\ now - Window \in Int /\ R!Times \subseteq Int
        /\ R!Pending \in SUBSET Actors /\ \A c : SavingAfter(c) \in SUBSET Actors
BY LimitAssumption DEF LimitInv, LimitTypes, OverInv, R!Times, R!Pending, SavingAfter

\* A step that brings nothing into the window and asks nothing.
LEMMA OverFewer ==
  ASSUME LimitInv, OverInv, LimitInv', now' \in Int, now' >= now, UNCHANGED <<failed, loaded>>,
         R!Pending' \subseteq R!Pending,
         \A c \in Int : c >= now - Window =>
           /\ After(hits', c) = After(hits, c) /\ After(hitRows', c) = After(hitRows, c)
           /\ SavingAfter(c)' = SavingAfter(c)
  PROVE OverInv'
<1>1. /\ hits \in HitBags /\ hitRows \in HitBags /\ hits' \in HitBags /\ hitRows' \in HitBags
      /\ failed \in Nat /\ now \in Int /\ Window \in Nat /\ now - Window \in Int /\ now' - Window \in Int
      /\ R!Pending \in SUBSET Actors /\ \A c : SavingAfter(c) \in SUBSET Actors
  BY OverTypes DEF LimitInv, LimitTypes
<1>2. PICK u \in Int, v \in Int : u = now - Window /\ v = now' - Window /\ u <= v
  <2>1. \A x, y \in Int : y >= x => x - Window <= y - Window
    BY <1>1
  <2> QED
    BY <1>1, <2>1
<1>3. Cardinality(R!Pending') \in Nat /\ Cardinality(R!Pending) \in Nat
      /\ Cardinality(R!Pending') <= Cardinality(R!Pending)
  BY <1>1, ActorSets
<1>4. SavingAfter(v) \subseteq SavingAfter(u)
  BY <1>2 DEF SavingAfter, LimitInv, LimitTypes, R!Times
<1>5. /\ Cardinality(SavingAfter(v)) <= Cardinality(SavingAfter(u))
      /\ Cardinality(SavingAfter(v)) \in Nat /\ Cardinality(SavingAfter(u)) \in Nat
  BY <1>1, <1>4, ActorSets
<1>6. After(hits, v) <= After(hits, u) /\ After(hitRows, v) <= After(hitRows, u)
  <2>1. \A t \in R!Times : hits[t] <= hits[t] /\ hitRows[t] <= hitRows[t]
    BY <1>1 DEF HitBags
  <2> QED
    BY <1>1, <1>2, <2>1, AfterFewer
<1>7. /\ After(hits, v) \in Nat /\ After(hits, u) \in Nat
      /\ After(hitRows, v) \in Nat /\ After(hitRows, u) \in Nat
  BY <1>1, AfterFinite
<1>8. PICK lim \in Nat : lim = (failed + 1) * Room
  BY <1>1, RoomIs
<1>9. /\ After(hits, u) + Cardinality(R!Pending) <= lim
      /\ After(hitRows, u) + Cardinality(SavingAfter(u)) + Cardinality(R!Pending) <= lim
  BY <1>2, <1>8 DEF OverInv
<1>10. /\ After(hits', v) = After(hits, v) /\ After(hitRows', v) = After(hitRows, v)
       /\ SavingAfter(v)' = SavingAfter(v)
  BY <1>2
<1>11. /\ After(hits', v) + Cardinality(R!Pending') <= lim
       /\ After(hitRows', v) + Cardinality(SavingAfter(v)') + Cardinality(R!Pending') <= lim
  BY <1>3, <1>5, <1>6, <1>7, <1>9, <1>10
<1>12. Room' = Room /\ Missed' = Missed
  BY DEF Room, Missed
<1>13. ASSUME NEW c \in Int, c >= v
       PROVE After(hitRows', c) + Cardinality(SavingAfter(c)') <= After(hits', c) + Missed'
  <2>1. c >= now - Window
    BY <1>2, <1>13
  <2> QED
    BY <1>12, <2>1 DEF OverInv
<1>14. /\ After(hits, now - Window)' + Cardinality(R!Pending)' <= (failed' + 1) * Room'
       /\ After(hitRows, now - Window)' + Cardinality(SavingAfter(now - Window))'
            + Cardinality(R!Pending)' <= (failed' + 1) * Room'
  BY <1>2, <1>8, <1>11, <1>12 DEF After, EventsAfter, SavingAfter
<1> QED
  BY <1>2, <1>13, <1>14 DEF OverInv

\* Trimming leaves what is after a time in the window.
LEMMA AfterRecent ==
  ASSUME LimitInv, OverInv, NEW c \in Int, c >= now - Window
  PROVE /\ R!Recent(hits) \in HitBags /\ After(R!Recent(hits), c) = After(hits, c)
        /\ \A t \in R!Times : t > c => R!Recent(hits)[t] = hits[t]
<1>1. /\ LimitTypes /\ hits \in HitBags /\ R!Times \subseteq Int /\ now - Window \in Int
      /\ R!Recent(hits) \in HitBags
  BY OverTypes, RecentKeeps
<1>2. \A t \in R!Times : t > c => R!Recent(hits)[t] = hits[t]
  <2> SUFFICES ASSUME NEW t \in R!Times, t > c PROVE t \in R!WindowTimes
    BY <1>1, RecentKeeps
  <2> QED
    BY <1>1 DEF R!WindowTimes
<1>3. \A t \in R!Times : t > c => R!Recent(hits)[t] <= hits[t] /\ hits[t] <= R!Recent(hits)[t]
  BY <1>1, <1>2 DEF HitBags
<1>4. After(R!Recent(hits), c) <= After(hits, c) /\ After(hits, c) <= After(R!Recent(hits), c)
  BY <1>1, <1>3, AfterFewer
<1> QED
  BY <1>1, <1>2, <1>4, AfterFinite

\* What blocked() counts.
LEMMA WindowCount ==
  ASSUME LimitInv, OverInv
  PROVE R!Size(R!Recent(hits)) = After(hits, now - Window)
<1>1. /\ LimitTypes /\ R!Times \subseteq Int /\ now - Window \in Int /\ R!Recent(hits) \in HitBags
  BY OverTypes, RecentKeeps
<1>2. ASSUME NEW e \in R!Events(R!Recent(hits)) PROVE e[1] > now - Window
  <2>1. PICK t \in R!Times, k \in Nat : k \in 1..R!Recent(hits)[t] /\ e = <<t, k>>
    BY <1>1, EventIs
  <2>2. R!Recent(hits)[t] # 0
    BY <2>1
  <2>3. t > now - Window
    BY <2>2 DEF R!Recent, R!Only, R!WindowTimes
  <2> QED
    BY <2>1, <2>3
<1>3. EventsAfter(R!Recent(hits), now - Window) = R!Events(R!Recent(hits))
  BY <1>2 DEF EventsAfter
<1>4. R!Size(R!Recent(hits)) = After(R!Recent(hits), now - Window)
  BY <1>3, SameCardinality DEF R!Size, After
<1> QED
  BY <1>1, <1>4, AfterRecent

LEMMA AskOver == ASSUME LimitInv, OverInv, LimitInv', NEW a \in Actors, R!Ask(a) PROVE OverInv'
<1>1. /\ hits \in HitBags /\ hitRows \in HitBags /\ failed \in Nat /\ now \in Int /\ now - Window \in Int
      /\ R!Pending \in SUBSET Actors /\ \A c : SavingAfter(c) \in SUBSET Actors
      /\ pc \in [Actors -> {"idle", "acting", "acted", "saving"}]
  BY OverTypes DEF LimitTypes
<1>2. /\ hits' = R!Recent(hits) /\ UNCHANGED <<now, hitRows, at, failed, loaded>> /\ pc[a] = "idle"
      /\ pc' = IF R!Blocked THEN pc ELSE [pc EXCEPT ![a] = "acting"]
  BY DEF R!Ask
<1>3. \A c : SavingAfter(c)' = SavingAfter(c)
  BY <1>1, <1>2 DEF SavingAfter
<1>4. \A c \in Int : c >= now - Window =>
        After(hits', c) = After(hits, c) /\ After(hitRows', c) = After(hitRows, c)
  BY <1>2, AfterRecent
<1>5. CASE R!Blocked
  <2>1. R!Pending' = R!Pending
    BY <1>2, <1>5 DEF R!Pending
  <2> QED
    BY <1>1, <1>2, <1>3, <1>4, <2>1, OverFewer
<1>6. CASE ~R!Blocked
  <2>1. PICK u \in Int : u = now - Window
    BY <1>1
  <2>2. After(hits, u) < Limit
    BY <1>1, <1>6, <2>1, WindowCount, AfterFinite, LimitAssumption DEF R!Blocked
  <2>3. R!Pending' \in SUBSET Actors
    BY DEF R!Pending
  <2>4. Cardinality(R!Pending') \in Nat /\ Cardinality(R!Pending') <= Cardinality(Actors)
    BY <2>3, ActorSets
  <2>5. PICK f \in Nat, r \in Nat : f = failed * Room /\ r = Room /\ (failed + 1) * Room = f + r
    BY <1>1, RoomIs
  <2>6. r = Limit - 1 + Cardinality(Actors) /\ Cardinality(Actors) \in Nat
    BY <2>5, LimitAssumption, FS_CardinalityType DEF Room
  <2>7. PICK m \in Nat : m = Missed /\ m <= f
    BY <1>1, <2>5, RoomIs
  <2>8. After(hitRows, u) + Cardinality(SavingAfter(u)) <= After(hits, u) + m
    BY <2>1, <2>7 DEF OverInv
  <2>9. After(hits, u) \in Nat /\ After(hitRows, u) \in Nat /\ Cardinality(SavingAfter(u)) \in Nat
    BY <1>1, AfterFinite, ActorSets
  <2>10. /\ After(hits, u) + Cardinality(R!Pending') <= f + r
         /\ After(hitRows, u) + Cardinality(SavingAfter(u)) + Cardinality(R!Pending') <= f + r
    BY <2>2, <2>4, <2>6, <2>7, <2>8, <2>9, LimitAssumption
  <2>11. Room' = Room /\ Missed' = Missed /\ now' = now /\ failed' = failed /\ hitRows' = hitRows
    BY <1>2 DEF Room, Missed
  <2>12. After(hits', u) = After(hits, u) /\ SavingAfter(u)' = SavingAfter(u)
    BY <1>3, <1>4, <2>1
  <2>13. /\ After(hits, now - Window)' + Cardinality(R!Pending)' <= (failed' + 1) * Room'
         /\ After(hitRows, now - Window)' + Cardinality(SavingAfter(now - Window))'
              + Cardinality(R!Pending)' <= (failed' + 1) * Room'
    BY <2>1, <2>5, <2>10, <2>11, <2>12 DEF After, EventsAfter, SavingAfter
  <2>14. \A c \in Int : c >= now' - Window =>
           After(hitRows', c) + Cardinality(SavingAfter(c)') <= After(hits', c) + Missed'
    BY <1>3, <1>4, <2>11 DEF OverInv
  <2> QED
    BY <1>1, <1>2, <2>13, <2>14 DEF OverInv
<1> QED
  BY <1>5, <1>6

LEMMA WaitOver ==
  ASSUME LimitInv, OverInv, LimitInv', NEW a \in Actors, R!GiveUp(a) \/ R!Act(a) PROVE OverInv'
<1>1. /\ now \in Int /\ pc[a] = "acting" /\ UNCHANGED <<now, hits, hitRows, failed, loaded>>
      /\ pc \in [Actors -> {"idle", "acting", "acted", "saving"}] /\ at \in [Actors -> R!Times]
      /\ pc' = [pc EXCEPT ![a] = "idle"] \/ pc' = [pc EXCEPT ![a] = "acted"]
      /\ at' = at \/ at' = [at EXCEPT ![a] = now]
  BY OverTypes DEF LimitTypes, R!GiveUp, R!Act
<1>2. R!Pending' \subseteq R!Pending
  BY <1>1 DEF R!Pending
<1>3. \A c : SavingAfter(c)' = SavingAfter(c)
  BY <1>1 DEF SavingAfter
<1> QED
  BY <1>1, <1>2, <1>3, OverFewer

LEMMA TickOver == ASSUME LimitInv, OverInv, LimitInv', R!Tick PROVE OverInv'
<1>1. now \in Int /\ now' = now + 1 /\ UNCHANGED <<hits, hitRows, pc, at, failed, loaded>>
  BY OverTypes DEF R!Tick
<1>2. R!Pending' = R!Pending /\ \A c : SavingAfter(c)' = SavingAfter(c)
  BY <1>1 DEF R!Pending, SavingAfter
<1> QED
  BY <1>1, <1>2, OverFewer

\* hit in memory: the session is no longer pending, the event counts, and its row is on
\* its way.
LEMMA HitMemoryOver ==
  ASSUME LimitInv, OverInv, LimitInv', NEW a \in Actors, R!HitMemory(a) PROVE OverInv'
<1>1. /\ hits \in HitBags /\ hitRows \in HitBags /\ hits' \in HitBags /\ failed \in Nat
      /\ now \in Int /\ now - Window \in Int /\ R!Times \subseteq Int
      /\ R!Pending \in SUBSET Actors /\ \A c : SavingAfter(c) \in SUBSET Actors
      /\ pc \in [Actors -> {"idle", "acting", "acted", "saving"}] /\ at[a] \in R!Times
  BY OverTypes DEF LimitInv, LimitTypes
<1>2. /\ pc[a] = "acted" /\ UNCHANGED <<now, hitRows, failed, loaded, at>>
      /\ pc' = [pc EXCEPT ![a] = "saving"]
      /\ hits' = [R!Recent(hits) EXCEPT ![at[a]] = R!Recent(hits)[at[a]] + 1]
  BY DEF R!HitMemory
<1>3. /\ R!Pending' = R!Pending \ {a} /\ a \in R!Pending
  BY <1>1, <1>2 DEF R!Pending
<1>4. Cardinality(R!Pending') = Cardinality(R!Pending) - 1 /\ Cardinality(R!Pending) \in Nat
  BY <1>1, <1>3, ActorSets, FS_RemoveElement
<1>5. ASSUME NEW c \in Int, c >= now - Window
      PROVE /\ After(hits', c) = IF at[a] > c THEN After(hits, c) + 1 ELSE After(hits, c)
            /\ Cardinality(SavingAfter(c)') =
                 IF at[a] > c THEN Cardinality(SavingAfter(c)) + 1 ELSE Cardinality(SavingAfter(c))
            /\ After(hits, c) \in Nat /\ After(hitRows, c) \in Nat /\ Cardinality(SavingAfter(c)) \in Nat
  <2>1. PICK b \in HitBags : b = R!Recent(hits) /\ After(b, c) = After(hits, c)
    BY <1>5, AfterRecent
  <2>2. hits'[at[a]] = b[at[a]] + 1 /\ \A t \in R!Times : t # at[a] => hits'[t] = b[t]
    BY <1>1, <1>2, <2>1 DEF HitBags
  <2>3. After(hits', c) = IF at[a] > c THEN After(b, c) + 1 ELSE After(b, c)
    <3>1. PICK u \in R!Times, d \in HitBags : u = at[a] /\ d = hits'
      BY <1>1
    <3>2. d[u] = b[u] + 1 /\ \A t \in R!Times : t # u /\ t > c => d[t] = b[t]
      BY <2>2, <3>1
    <3>3. After(d, c) = IF u > c THEN After(b, c) + 1 ELSE After(b, c)
      BY <3>2, AfterMore
    <3> QED
      BY <3>1, <3>3
  <2>4. CASE at[a] > c
    <3>1. SavingAfter(c)' = SavingAfter(c) \union {a} /\ a \notin SavingAfter(c)
      BY <1>1, <1>2, <2>4 DEF SavingAfter
    <3>2. IsFiniteSet(SavingAfter(c))
      BY <1>1, ActorSets
    <3>3. Cardinality(SavingAfter(c)') = Cardinality(SavingAfter(c)) + 1
      BY <3>1, <3>2, FS_AddElement
    <3> QED
      BY <1>1, <2>1, <2>3, <2>4, <3>3, AfterFinite, ActorSets
  <2>5. CASE ~(at[a] > c)
    <3>1. SavingAfter(c)' = SavingAfter(c)
      BY <1>1, <1>2, <2>5 DEF SavingAfter
    <3> QED
      BY <1>1, <2>1, <2>3, <2>5, <3>1, AfterFinite, ActorSets
  <2> QED
    BY <2>4, <2>5
<1>6. PICK u \in Int, lim \in Nat : u = now - Window /\ u >= now - Window /\ lim = (failed + 1) * Room
  BY <1>1, RoomIs
<1>7. /\ After(hits, u) + Cardinality(R!Pending) <= lim
      /\ After(hitRows, u) + Cardinality(SavingAfter(u)) + Cardinality(R!Pending) <= lim
  BY <1>6 DEF OverInv
<1>8. /\ After(hits', u) + Cardinality(R!Pending') <= lim
      /\ After(hitRows, u) + Cardinality(SavingAfter(u)') + Cardinality(R!Pending') <= lim
  BY <1>4, <1>5, <1>6, <1>7
<1>9. Room' = Room /\ Missed' = Missed /\ now' = now /\ failed' = failed /\ hitRows' = hitRows
  BY <1>2 DEF Room, Missed
<1>10. /\ After(hits, now - Window)' + Cardinality(R!Pending)' <= (failed' + 1) * Room'
       /\ After(hitRows, now - Window)' + Cardinality(SavingAfter(now - Window))'
            + Cardinality(R!Pending)' <= (failed' + 1) * Room'
  BY <1>6, <1>8, <1>9 DEF After, EventsAfter, SavingAfter
<1>11. Missed \in Nat
  BY <1>1, RoomIs
<1>12. \A c \in Int : c >= now - Window =>
         After(hitRows, c) + Cardinality(SavingAfter(c)') <= After(hits', c) + Missed
  BY <1>5, <1>11 DEF OverInv
<1> QED
  BY <1>1, <1>2, <1>9, <1>10, <1>12 DEF OverInv

\* hit in the database: one row at most, and one less on its way.
LEMMA HitDiskOver ==
  ASSUME LimitInv, OverInv, LimitInv', NEW a \in Actors, R!HitDisk(a) PROVE OverInv'
<1> DEFINE more == [hitRows EXCEPT ![at[a]] = hitRows[at[a]] + 1]
<1>1. /\ hits \in HitBags /\ hitRows \in HitBags /\ hitRows' \in HitBags /\ failed \in Nat
      /\ now \in Int /\ now - Window \in Int /\ R!Times \subseteq Int
      /\ R!Pending \in SUBSET Actors /\ \A c : SavingAfter(c) \in SUBSET Actors
      /\ pc \in [Actors -> {"idle", "acting", "acted", "saving"}]
      /\ at \in [Actors -> R!Times] /\ at[a] \in R!Times
  BY OverTypes DEF LimitInv, LimitTypes
<1>2. /\ pc[a] = "saving" /\ UNCHANGED <<now, hits, failed, loaded>>
      /\ pc' = [pc EXCEPT ![a] = "idle"] /\ at' = [at EXCEPT ![a] = 0]
      /\ hitRows' = R!Retained(at[a], more) \/ hitRows' = more \/ hitRows' = hitRows
  BY DEF R!HitDisk
<1>3. more \in HitBags /\ more[at[a]] = hitRows[at[a]] + 1
      /\ \A t \in R!Times : t # at[a] => more[t] = hitRows[t]
  <2>1. \A t \in R!Times : hitRows[t] \in Nat
    BY <1>1 DEF HitBags
  <2>2. \A n \in Nat : n + 1 \in Nat
    OBVIOUS
  <2>3. hitRows[at[a]] + 1 \in Nat
    BY <1>1, <2>1, <2>2
  <2> QED
    BY <1>1, <2>3 DEF HitBags
<1>4. \A t \in R!Times : hitRows'[t] <= more[t]
  <2>1. \A t \in R!Times : hitRows[t] <= more[t] /\ more[t] <= more[t] /\ 0 <= more[t]
    BY <1>1, <1>3 DEF HitBags
  <2> HIDE DEF more
  <2>2. \A t \in R!Times : R!Retained(at[a], more)[t] \in {0, more[t]}
    BY DEF R!Retained, R!Only
  <2> QED
    BY <1>2, <2>1, <2>2
<1> HIDE DEF more
<1>5. R!Pending' = R!Pending /\ Cardinality(R!Pending) \in Nat
  BY <1>1, <1>2, ActorSets DEF R!Pending
<1>6. ASSUME NEW c \in Int
      PROVE /\ After(hitRows', c) + Cardinality(SavingAfter(c)')
                 <= After(hitRows, c) + Cardinality(SavingAfter(c))
            /\ After(hitRows', c) \in Nat /\ After(hitRows, c) \in Nat /\ After(hits, c) \in Nat
            /\ Cardinality(SavingAfter(c)) \in Nat /\ Cardinality(SavingAfter(c)') \in Nat
  <2>1. After(more, c) = IF at[a] > c THEN After(hitRows, c) + 1 ELSE After(hitRows, c)
    <3>1. PICK u \in R!Times : u = at[a]
      BY <1>1
    <3>2. more[u] = hitRows[u] + 1 /\ \A t \in R!Times : t # u /\ t > c => more[t] = hitRows[t]
      BY <1>3, <3>1
    <3>3. After(more, c) = IF u > c THEN After(hitRows, c) + 1 ELSE After(hitRows, c)
      BY <1>1, <1>3, <3>2, AfterMore
    <3> QED
      BY <3>1, <3>3
  <2>2. After(hitRows', c) <= After(more, c)
    BY <1>1, <1>3, <1>4, AfterFewer
  <2>3. After(hitRows', c) \in Nat /\ After(hitRows, c) \in Nat /\ After(hits, c) \in Nat
    BY <1>1, AfterFinite
  <2>4. SavingAfter(c)' = SavingAfter(c) \ {a}
    BY <1>1, <1>2 DEF SavingAfter
  <2>5. /\ IsFiniteSet(SavingAfter(c)) /\ Cardinality(SavingAfter(c)) \in Nat
        /\ Cardinality(SavingAfter(c)') \in Nat
    BY <1>1, <2>4, ActorSets
  <2>6. CASE at[a] > c
    <3>1. a \in SavingAfter(c)
      BY <1>2, <2>6 DEF SavingAfter
    <3>2. Cardinality(SavingAfter(c)') = Cardinality(SavingAfter(c)) - 1
      BY <2>4, <2>5, <3>1, FS_RemoveElement
    <3> QED
      BY <2>1, <2>2, <2>3, <2>5, <2>6, <3>2
  <2>7. CASE ~(at[a] > c)
    <3>1. SavingAfter(c)' = SavingAfter(c)
      BY <2>4, <2>7 DEF SavingAfter
    <3> QED
      BY <2>1, <2>2, <2>3, <2>5, <2>7, <3>1
  <2> QED
    BY <2>6, <2>7
<1>7. PICK u \in Int, lim \in Nat : u = now - Window /\ u >= now - Window /\ lim = (failed + 1) * Room
  BY <1>1, RoomIs
<1>8. /\ After(hits, u) + Cardinality(R!Pending) <= lim
      /\ After(hitRows, u) + Cardinality(SavingAfter(u)) + Cardinality(R!Pending) <= lim
  BY <1>7 DEF OverInv
<1>9. After(hitRows', u) + Cardinality(SavingAfter(u)') + Cardinality(R!Pending') <= lim
  BY <1>5, <1>6, <1>7, <1>8
<1>10. Room' = Room /\ Missed' = Missed /\ now' = now /\ failed' = failed /\ hits' = hits
  BY <1>2 DEF Room, Missed
<1>11. /\ After(hits, now - Window)' + Cardinality(R!Pending)' <= (failed' + 1) * Room'
       /\ After(hitRows, now - Window)' + Cardinality(SavingAfter(now - Window))'
            + Cardinality(R!Pending)' <= (failed' + 1) * Room'
  BY <1>5, <1>7, <1>8, <1>9, <1>10 DEF After, EventsAfter, SavingAfter
<1>12. Missed \in Nat
  BY <1>1, RoomIs
<1>13. \A c \in Int : c >= now - Window =>
         After(hitRows', c) + Cardinality(SavingAfter(c)') <= After(hits, c) + Missed
  BY <1>6, <1>12 DEF OverInv
<1> QED
  BY <1>1, <1>2, <1>10, <1>11, <1>13 DEF OverInv

\* A start takes over what the table has of the window, which is no more than there could
\* be, or takes over nothing, and the limit may be reached once more.
LEMMA RestartOver == ASSUME LimitInv, OverInv, LimitInv', R!Restart PROVE OverInv'
<1>1. /\ hits \in HitBags /\ hitRows \in HitBags /\ hits' \in HitBags /\ failed \in Nat
      /\ now \in Int /\ now - Window \in Int /\ R!Times \subseteq Int /\ R!Pending \in SUBSET Actors
      /\ \A c : SavingAfter(c) \in SUBSET Actors
  BY OverTypes DEF LimitInv, LimitTypes
<1>2. /\ UNCHANGED <<now, hitRows>> /\ pc' = [a \in Actors |-> "idle"]
      /\ \/ hits' = R!LoadHits /\ loaded' = TRUE /\ failed' = failed
         \/ hits' = R!NoHits /\ loaded' = FALSE /\ failed' = failed + 1
  BY DEF R!Restart
<1>3. R!Pending' = {} /\ \A c : SavingAfter(c)' = {}
  BY <1>2 DEF R!Pending, SavingAfter
<1>4. Cardinality({}) = 0
  BY FS_EmptySet
<1>5. PICK u \in Int, f \in Nat, r \in Nat :
        /\ u = now - Window /\ u >= now - Window /\ f = failed * Room /\ r = Room
        /\ (failed + 1) * Room = f + r
  BY <1>1, RoomIs
<1>6. After(hitRows, u) <= f + r
  <2>1. After(hitRows, u) + Cardinality(SavingAfter(u)) + Cardinality(R!Pending) <= f + r
    BY <1>5 DEF OverInv
  <2>2. After(hitRows, u) \in Nat /\ Cardinality(SavingAfter(u)) \in Nat /\ Cardinality(R!Pending) \in Nat
    BY <1>1, AfterFinite, ActorSets
  <2> QED
    BY <2>1, <2>2
<1>7. \A c \in Int : c >= u => After(hitRows, c) \in Nat /\ After(hitRows, c) <= After(hitRows, u)
  <2>1. \A t \in R!Times : hitRows[t] <= hitRows[t]
    BY <1>1 DEF HitBags
  <2> QED
    BY <1>1, <1>5, <2>1, AfterFewer, AfterFinite
<1>8. Room' = Room /\ now' = now /\ hitRows' = hitRows
  BY <1>2 DEF Room
<1>9. CASE hits' = R!LoadHits /\ loaded' = TRUE /\ failed' = failed
  <2>1. \A t \in R!Times : t > u => hits'[t] = hitRows[t]
    BY <1>1, <1>5, <1>9 DEF R!LoadHits, R!Only
  <2>2. \A t \in R!Times : t > u => hits'[t] <= hitRows[t] /\ hitRows[t] <= hits'[t]
    BY <1>1, <2>1 DEF HitBags
  <2>3. ASSUME NEW c \in Int, c >= u PROVE After(hits', c) = After(hitRows, c)
    <3>1. \A t \in R!Times : t > c => hits'[t] <= hitRows[t] /\ hitRows[t] <= hits'[t]
      BY <1>1, <2>2, <2>3
    <3>2. After(hits', c) <= After(hitRows, c) /\ After(hitRows, c) <= After(hits', c)
      BY <1>1, <3>1, AfterFewer
    <3> QED
      BY <1>1, <3>2, AfterFinite
  <2>4. Missed' = 0
    BY <1>9 DEF Missed
  <2>5. \A c \in Int : c >= u =>
          After(hitRows, c) + Cardinality(SavingAfter(c)') <= After(hits', c) + Missed'
    BY <1>3, <1>4, <1>7, <2>3, <2>4
  <2>6. After(hits', u) + 0 <= f + r /\ After(hitRows, u) + 0 + 0 <= f + r
    BY <1>6, <1>7, <2>3
  <2>7. (failed' + 1) * Room' = f + r /\ failed' \in Nat /\ loaded' \in BOOLEAN
    BY <1>1, <1>5, <1>8, <1>9
  <2>8. /\ After(hits, now - Window)' + Cardinality(R!Pending)' <= (failed' + 1) * Room'
        /\ After(hitRows, now - Window)' + Cardinality(SavingAfter(now - Window))'
             + Cardinality(R!Pending)' <= (failed' + 1) * Room'
    BY <1>3, <1>4, <1>5, <1>8, <2>6, <2>7 DEF After, EventsAfter
  <2> QED
    BY <1>5, <1>8, <2>5, <2>7, <2>8 DEF OverInv
<1>10. CASE hits' = R!NoHits /\ loaded' = FALSE /\ failed' = failed + 1
  <2>1. \A c : EventsAfter(hits', c) = {}
    BY <1>10 DEF EventsAfter, R!Events, R!NoHits
  <2>2. \A c : After(hits', c) = 0
    BY <1>4, <2>1 DEF After
  <2>3. PICK g \in Nat : g = failed'
    BY <1>1, <1>10
  <2>4. g * r = f + r /\ (g + 1) * r = f + r + r
    BY <1>1, <1>5, <1>10, <2>3
  <2>5. Missed' = f + r
    BY <1>5, <1>8, <1>10, <2>3, <2>4 DEF Missed
  <2>6. \A c \in Int : c >= u =>
          After(hitRows, c) + Cardinality(SavingAfter(c)') <= After(hits', c) + Missed'
    BY <1>3, <1>4, <1>5, <1>6, <1>7, <2>2, <2>5
  <2>7. 0 + 0 <= f + r + r /\ After(hitRows, u) + 0 + 0 <= f + r + r
    BY <1>5, <1>6, <1>7
  <2>8. (failed' + 1) * Room' = f + r + r /\ failed' \in Nat /\ loaded' \in BOOLEAN
    BY <1>5, <1>8, <1>10, <2>3, <2>4
  <2>9. /\ After(hits, now - Window)' + Cardinality(R!Pending)' <= (failed' + 1) * Room'
        /\ After(hitRows, now - Window)' + Cardinality(SavingAfter(now - Window))'
             + Cardinality(R!Pending)' <= (failed' + 1) * Room'
    <3>1. After(hits, now - Window)' = 0
      BY <2>2 DEF After, EventsAfter
    <3> QED
      BY <1>3, <1>4, <1>5, <1>8, <2>7, <2>8, <3>1 DEF After, EventsAfter
  <2> QED
    BY <1>5, <1>8, <2>6, <2>8, <2>9 DEF OverInv
<1> QED
  BY <1>2, <1>9, <1>10

\* OverrunBounded, for any number of sessions, any limit, window and retention: the limit
\* is overrun by no more than the sessions that had asked before it was reached, once for
\* every start that could not read the table (limiter.go, login.go).
THEOREM LimitOverrun == StoreSpec => []OverrunBounded
<1> DEFINE Both == LimitInv /\ OverInv
<1>1. StoreInit => Both
  <2> SUFFICES ASSUME StoreInit PROVE LimitInv /\ OverInv
    OBVIOUS
  <2>1. /\ now = 0 /\ hits = R!NoHits /\ hitRows = R!NoHits /\ pc = [a \in Actors |-> "idle"]
        /\ loaded = TRUE /\ failed = 0
    BY DEF StoreInit, R!Init
  <2>2. \A c : EventsAfter(R!NoHits, c) = {} /\ SavingAfter(c) = {} /\ R!Pending = {}
    BY <2>1 DEF EventsAfter, R!Events, R!NoHits, SavingAfter, R!Pending
  <2>3. Cardinality({}) = 0
    BY FS_EmptySet
  <2>4. PICK r \in Nat : r = Room /\ (failed + 1) * Room = failed * Room + Room
    BY <2>1, RoomIs
  <2>5. (failed + 1) * Room = r
    BY <2>1, <2>4
  <2>6. \A c : After(hits, c) = 0 /\ After(hitRows, c) = 0 /\ Cardinality(SavingAfter(c)) = 0
    BY <2>1, <2>2, <2>3 DEF After
  <2>7. Cardinality(R!Pending) = 0 /\ Missed = 0
    BY <2>1, <2>2, <2>3 DEF Missed
  <2>8. OverInv
    BY <2>1, <2>5, <2>6, <2>7 DEF OverInv
  <2> QED
    BY <2>8, LimitStart
<1>2. Both /\ [StoreNext]_<<part, vars, boardVars, fileVars, emailVars, limitVars>> => Both'
  <2>1. ASSUME LimitInv, OverInv, UNCHANGED limitVars PROVE LimitInv' /\ OverInv'
    BY <2>1, LimitIdle DEF OverInv, After, EventsAfter, SavingAfter, Missed, Room, R!Pending, limitVars
  <2>2. ASSUME LimitInv, OverInv, R!Next PROVE LimitInv' /\ OverInv'
    BY <2>2, LimitStep, AskOver, WaitOver, TickOver, HitMemoryOver, HitDiskOver, RestartOver DEF R!Next
  <2> QED
    BY <2>1, <2>2 DEF StoreNext
<1>3. Both => OverrunBounded
  <2> SUFFICES ASSUME LimitInv, OverInv PROVE OverrunBounded
    OBVIOUS
  <2>1. R!HitsInWindow = After(hits, now - Window)
    BY WindowCount DEF R!HitsInWindow
  <2> QED
    BY <2>1, SameCardinality DEF OverrunBounded, R!OverrunBounded, OverInv, Room
<1> QED
  BY <1>1, <1>2, <1>3, PTL DEF StoreSpec

-----------------------------------------------------------------------------
(* File echoes.                                                            *)

FileRow == [id : Nat, name : Names, crc : Nat, again : BOOLEAN, copy : BOOLEAN]
Tic     == [crc : Nat, file : Names, replaces : {{}} \union {{g} : g \in Names}, late : BOOLEAN]

Stages == {"aside", "replace", "unlink", "move", "copied", "add", "tic"}

Job(t, stage) == [tic |-> {t}, at |-> stage]

FileTypes ==
  /\ rows \subseteq FileRow /\ tics \subseteq Tic
  /\ disk \in [Names -> Nat \union {F!None}]
  /\ topFile \in Nat /\ seen \in Nat /\ list \in Nat
  /\ arrived = [tics |-> arrived.tics, files |-> arrived.files, stops |-> arrived.stops]
  /\ arrived.tics \in Nat
  /\ job = F!Idle \/ \E t \in Tic, stage \in Stages : job = Job(t, stage)

\* What the toss under way has done: the copy it moved is there, and no row is left of
\* the file it is about to remove. It removes one only where the TIC names another.
TossInv ==
  \A t \in job.tic : /\ job.at \in {"replace", "unlink"} => F!Replaced(t) \in Names
                     /\ job.at \in F!InPlace => disk[t.file] = t.crc
                     /\ job.at = "unlink" => \A r \in rows : r.name # F!Replaced(t)

DiskInv == FileTypes /\ TossInv /\ FilesOnDisk

\* One greatest of two, one above all.
LEMMA FileMax2 ==
  ASSUME NEW a \in Nat, NEW b \in Nat
  PROVE F!Max({a, b}) \in Nat /\ F!Max({a, b}) >= a /\ F!Max({a, b}) >= b /\ F!Max({a, b}) \in {a, b}
<1>1. \E x \in {a, b} : \A y \in {a, b} : x >= y
  OBVIOUS
<1>2. F!Max({a, b}) \in {a, b} /\ \A y \in {a, b} : F!Max({a, b}) >= y
  BY <1>1 DEF F!Max
<1> QED
  BY <1>2

LEMMA FileMax ==
  ASSUME NEW S \in SUBSET Nat, S # {}, NEW n \in Nat, \A y \in S : y <= n
  PROVE F!Max(S) \in S /\ \A y \in S : F!Max(S) >= y
<1>1. \E x \in S : \A y \in S : x >= y
  BY NatMax
<1> QED
  BY <1>1 DEF F!Max

LEMMA FileNextId ==
  ASSUME NEW S \in SUBSET Nat, NEW n \in Nat, \A y \in S : y <= n
  PROVE F!NextId(S) \in Nat /\ \A y \in S : y < F!NextId(S)
<1>1. CASE S = {}
  BY <1>1 DEF F!NextId
<1>2. CASE S # {}
  <2>1. PICK m \in S : m = F!Max(S) /\ \A y \in S : m >= y
    BY <1>2, FileMax
  <2>2. F!NextId(S) = m + 1
    BY <1>2, <2>1 DEF F!NextId
  <2> QED
    BY <2>1, <2>2
<1> QED
  BY <1>1, <1>2

\* What At says of a job.
LEMMA AtJob ==
  ASSUME FileTypes, NEW t, NEW stage \in Stages, F!At(t, stage)
  PROVE t \in Tic /\ job = Job(t, stage) /\ job.tic = {t} /\ job.at = stage
BY DEF FileTypes, F!At, F!Idle, Job, Stages

LEMMA JobMoves ==
  ASSUME NEW t, NEW stage, NEW next, job = Job(t, stage), job' = [job EXCEPT !.at = next]
  PROVE job' = Job(t, next) /\ job'.tic = {t} /\ job'.at = next
BY DEF Job

LEMMA IdleJob == F!Idle.tic = {} /\ F!Idle.at = "idle"
BY DEF F!Idle

\* What only touches the inbound directory.
LEMMA TicArrivesKeeps ==
  ASSUME FileTypes, NEW f \in Names, NEW r \in {{}} \union {{g} : g \in Names}, F!TicArrives(f, r)
  PROVE FileTypes' /\ UNCHANGED <<disk, rows, job, torn, seen, list, listedFiles, topFile>>
<1> DEFINE t == [crc |-> arrived.tics + 2, file |-> f, replaces |-> r, late |-> FALSE]
<1>1. /\ tics' = tics \union {t} /\ arrived' = [arrived EXCEPT !.tics = @ + 1]
      /\ UNCHANGED <<disk, rows, job, torn, seen, list, listedFiles, topFile>>
  BY DEF F!TicArrives, F!reader
<1>2. t \in Tic
  BY DEF FileTypes, Tic
<1> HIDE DEF t
<1> QED
  BY <1>1, <1>2 DEF FileTypes

LEMMA AgedTic == ASSUME NEW t \in Tic PROVE [t EXCEPT !.late = TRUE] \in Tic
BY DEF Tic

LEMMA WaitingDisk ==
  ASSUME DiskInv, FileTypes', UNCHANGED <<disk, rows, job, torn>> PROVE DiskInv'
BY DEF DiskInv, TossInv, FilesOnDisk, F!FilesOnDisk, F!InPlace

\* A toss begins, or gives up a file.
LEMMA BeginKeeps ==
  ASSUME DiskInv, NEW t, F!SetAsideTic(t) \/ F!Check(t) PROVE DiskInv'
<1>1. /\ FileTypes /\ FilesOnDisk /\ t \in Tic /\ job = F!Idle /\ tics' \subseteq tics
      /\ UNCHANGED <<disk, rows, seen, list, listedFiles, arrived, topFile, torn>>
  BY DEF DiskInv, FileTypes, F!SetAsideTic, F!Check, F!reader
<1>2. PICK stage \in {"aside", "move", "replace"} :
        job' = Job(t, stage) /\ (stage = "replace" => t.replaces # {})
  BY DEF F!SetAsideTic, F!Check, Job
<1>3. job'.tic = {t} /\ job'.at = stage
  BY <1>2 DEF Job
<1>4. FileTypes'
  BY <1>1, <1>2 DEF FileTypes, Stages
<1>5. ASSUME stage = "replace" PROVE F!Replaced(t) \in Names
  <2>1. PICK g \in Names : t.replaces = {g}
    BY <1>1, <1>2, <1>5 DEF Tic
  <2>2. F!Replaced(t) \in t.replaces
    BY <2>1 DEF F!Replaced
  <2> QED
    BY <2>1, <2>2
<1>6. TossInv'
  BY <1>1, <1>3, <1>5 DEF TossInv, F!Replaced, F!InPlace
<1>7. FilesOnDisk'
  BY <1>1, <1>3, IdleJob DEF FilesOnDisk, F!FilesOnDisk, F!InPlace
<1> QED
  BY <1>4, <1>6, <1>7 DEF DiskInv

LEMMA TossEndKeeps ==
  ASSUME DiskInv, NEW t, F!SetAsideFile(t) \/ F!FinishTic(t) PROVE DiskInv'
<1>1. F!At(t, "aside") \/ F!At(t, "tic")
  BY DEF F!SetAsideFile, F!FinishTic
<1>2. /\ FileTypes /\ FilesOnDisk /\ job' = F!Idle /\ tics' \subseteq tics
      /\ UNCHANGED <<disk, rows, seen, list, listedFiles, arrived, topFile, torn>>
  BY DEF DiskInv, F!SetAsideFile, F!FinishTic, F!reader
<1>3. job.tic = {t} /\ job.at \in {"aside", "tic"}
  BY <1>1, <1>2, AtJob DEF Stages
<1>4. FileTypes'
  BY <1>2 DEF FileTypes
<1>5. TossInv' /\ FilesOnDisk'
  BY <1>2, <1>3, IdleJob DEF TossInv, FilesOnDisk, F!FilesOnDisk, F!InPlace
<1> QED
  BY <1>4, <1>5 DEF DiskInv

LEMMA StopKeeps == ASSUME DiskInv, F!Stop PROVE DiskInv'
<1>1. /\ FileTypes /\ FilesOnDisk /\ job' = F!Idle
      /\ UNCHANGED <<tics, disk, rows, seen, list, listedFiles, topFile>>
      /\ torn' = torn \union {t.file : t \in {u \in job.tic : job.at \in F!InPlace}}
      /\ arrived' = [arrived EXCEPT !.stops = @ + 1]
  BY DEF DiskInv, F!Stop, F!reader
<1>2. FileTypes'
  BY <1>1 DEF FileTypes
<1>3. TossInv'
  BY <1>1, IdleJob DEF TossInv, F!InPlace
<1>4. FilesOnDisk'
  BY <1>1 DEF FilesOnDisk, F!FilesOnDisk, F!InPlace
<1> QED
  BY <1>2, <1>3, <1>4 DEF DiskInv

LEMMA RemoveFileKeeps == ASSUME DiskInv, NEW t, F!RemoveFile(t) PROVE DiskInv'
<1>1. /\ FileTypes /\ FilesOnDisk /\ F!At(t, "replace")
      /\ UNCHANGED <<tics, disk, seen, list, arrived, topFile, torn>>
  BY DEF DiskInv, F!RemoveFile
<1>2. job = Job(t, "replace") /\ job.tic = {t} /\ job.at = "replace" /\ t \in Tic
  BY <1>1, AtJob DEF Stages
<1>3. PICK gone \in {{}, {r \in rows : r.name = F!Replaced(t)}} :
        /\ rows' = rows \ gone
        /\ job' = [job EXCEPT !.at = IF gone = {} THEN "move" ELSE "unlink"]
  BY DEF F!RemoveFile, F!WithoutRows
<1>4. PICK next \in {"move", "unlink"} : job' = [job EXCEPT !.at = next] /\ (next = "unlink" => gone # {})
  BY <1>3
<1>5. job' = Job(t, next) /\ job'.tic = {t} /\ job'.at = next
  BY <1>2, <1>4, JobMoves
<1>6. FileTypes'
  BY <1>1, <1>2, <1>3, <1>5 DEF FileTypes, Stages
<1>7. F!Replaced(t) \in Names
  BY <1>2 DEF DiskInv, TossInv
<1>8. TossInv'
  BY <1>3, <1>4, <1>5, <1>7 DEF TossInv, F!Replaced, F!InPlace
<1>9. FilesOnDisk'
  BY <1>1, <1>2, <1>3 DEF FilesOnDisk, F!FilesOnDisk, F!InPlace
<1> QED
  BY <1>6, <1>8, <1>9 DEF DiskInv

LEMMA UnlinkKeeps == ASSUME DiskInv, NEW t, F!Unlink(t) PROVE DiskInv'
<1>1. /\ FileTypes /\ FilesOnDisk /\ F!At(t, "unlink")
      /\ disk' \in {disk, [disk EXCEPT ![F!Replaced(t)] = F!None]} /\ job' = [job EXCEPT !.at = "move"]
      /\ UNCHANGED <<tics, rows, seen, list, arrived, topFile, torn>>
  BY DEF DiskInv, F!Unlink, F!reader
<1>2. job = Job(t, "unlink") /\ job.tic = {t} /\ job.at = "unlink" /\ t \in Tic
  BY <1>1, AtJob DEF Stages
<1>3. job' = Job(t, "move") /\ job'.tic = {t} /\ job'.at = "move"
  BY <1>1, <1>2, JobMoves
<1>4. F!Replaced(t) \in Names /\ \A r \in rows : r.name # F!Replaced(t)
  BY <1>2 DEF DiskInv, TossInv
<1>5. FileTypes'
  <2>1. disk' \in [Names -> Nat \union {F!None}]
    BY <1>1, <1>4 DEF FileTypes
  <2> QED
    BY <1>1, <1>2, <1>3, <2>1 DEF FileTypes, Stages
<1>6. TossInv'
  BY <1>3 DEF TossInv, F!InPlace
<1>7. ASSUME NEW r \in rows PROVE r.name \in Names /\ disk'[r.name] = disk[r.name]
  BY <1>1, <1>4 DEF FileTypes, FileRow
<1>8. FilesOnDisk'
  BY <1>1, <1>2, <1>7 DEF FilesOnDisk, F!FilesOnDisk, F!InPlace
<1> QED
  BY <1>5, <1>6, <1>8 DEF DiskInv

LEMMA MoveFileKeeps == ASSUME DiskInv, NEW t, F!MoveFile(t) PROVE DiskInv'
<1>1. /\ FileTypes /\ FilesOnDisk /\ F!At(t, "move")
      /\ disk' = [disk EXCEPT ![t.file] = t.crc] 
      /\ UNCHANGED <<tics, rows, seen, list, arrived, topFile, torn>>
  BY DEF DiskInv, F!MoveFile, F!reader
<1>2. job = Job(t, "move") /\ job.tic = {t} /\ job.at = "move" /\ t \in Tic
  BY <1>1, AtJob DEF Stages
<1>3. PICK next \in F!InPlace : job' = Job(t, next) /\ job'.tic = {t} /\ job'.at = next
  BY <1>2, JobMoves DEF F!MoveFile, F!InPlace
<1>4. t.file \in Names /\ t.crc \in Nat
  BY <1>2 DEF Tic
<1>5. FileTypes'
  <2>1. disk' \in [Names -> Nat \union {F!None}]
    BY <1>1, <1>4 DEF FileTypes
  <2> QED
    BY <1>1, <1>2, <1>3, <2>1 DEF FileTypes, Stages, F!InPlace
<1>6. disk'[t.file] = t.crc /\ \A f \in Names : f # t.file => disk'[f] = disk[f]
  BY <1>1, <1>4 DEF FileTypes
<1>7. TossInv'
  BY <1>3, <1>6 DEF TossInv, F!InPlace
<1>8. ASSUME NEW r \in rows
      PROVE /\ disk'[r.name] # F!None
            /\ disk'[r.name] = r.crc \/ r.name \in torn \/ r.name = t.file
  <2>1. r.name \in Names
    BY <1>1 DEF FileTypes, FileRow
  <2>2. /\ disk[r.name] # F!None
        /\ disk[r.name] = r.crc \/ r.name \in torn
    BY <1>1, <1>2 DEF FilesOnDisk, F!FilesOnDisk, F!InPlace
  <2> QED
    BY <1>4, <1>6, <2>1, <2>2 DEF F!None
<1>9. FilesOnDisk'
  BY <1>1, <1>3, <1>8 DEF FilesOnDisk, F!FilesOnDisk, F!InPlace
<1> QED
  BY <1>5, <1>7, <1>9 DEF DiskInv

LEMMA RemoveSourceKeeps == ASSUME DiskInv, NEW t, F!RemoveSource(t) PROVE DiskInv'
<1>1. /\ FileTypes /\ FilesOnDisk /\ F!At(t, "copied") /\ job' = [job EXCEPT !.at = "add"]
      /\ UNCHANGED <<tics, disk, rows, seen, list, arrived, topFile, torn>>
  BY DEF DiskInv, F!RemoveSource, F!reader
<1>2. job = Job(t, "copied") /\ job.tic = {t} /\ job.at = "copied" /\ t \in Tic
  BY <1>1, AtJob DEF Stages
<1>3. job' = Job(t, "add") /\ job'.tic = {t} /\ job'.at = "add"
  BY <1>1, <1>2, JobMoves
<1>4. FileTypes'
  BY <1>1, <1>2, <1>3 DEF FileTypes, Stages
<1>5. TossInv'
  BY <1>1, <1>2, <1>3 DEF DiskInv, TossInv, F!InPlace
<1>6. FilesOnDisk'
  BY <1>1, <1>2, <1>3 DEF FilesOnDisk, F!FilesOnDisk, F!InPlace
<1> QED
  BY <1>4, <1>5, <1>6 DEF DiskInv

\* What is marked and what is on the screen is no newer than the newest id ever given
\* out, and of what is not newer than the screen only what was listed, or has an id an
\* earlier file had, is there.
SeenInv ==
  /\ \A r, q \in rows : r.id = q.id => r = q
  /\ \A r \in rows : r.id <= topFile
  /\ seen <= topFile /\ list <= topFile
  /\ \A r \in rows : r.id <= seen \/ r.id <= list => r.id \in listedFiles \/ r.again

FileInv == DiskInv /\ SeenInv

LEMMA SameSeen ==
  ASSUME SeenInv, UNCHANGED <<rows, seen, list, topFile, listedFiles>> PROVE SeenInv'
BY DEF SeenInv

LEMMA FewerSeen ==
  ASSUME SeenInv, NEW t, F!RemoveFile(t) PROVE SeenInv'
<1>1. PICK gone \in SUBSET rows :
        /\ rows' = rows \ gone /\ listedFiles' = listedFiles \ {r.id : r \in gone}
        /\ UNCHANGED <<seen, list, topFile>>
  BY DEF F!RemoveFile, F!WithoutRows
<1>2. \A r \in rows' : r \in rows /\ r.id \notin {q.id : q \in gone}
  BY <1>1 DEF SeenInv
<1> QED
  BY <1>1, <1>2 DEF SeenInv

\* AddFile is where a row and an id appear.
LEMMA AddFileKeeps == ASSUME FileInv, NEW t, F!AddFile(t) PROVE FileInv'
<1> DEFINE kept == {r \in rows : r.name # t.file}
           ids  == {r.id : r \in kept}
           id   == F!NextId(ids)
           new  == [id |-> id, name |-> t.file, crc |-> t.crc,
                    again |-> id <= topFile, copy |-> kept # rows]
<1>1. /\ F!At(t, "add") /\ rows' = kept \union {new}
      /\ listedFiles' = (listedFiles \ {r.id : r \in rows \ kept}) \ {id}
      /\ topFile' = F!Max({topFile, id}) /\ torn' = torn \ {t.file}
      /\ job' = [job EXCEPT !.at = "tic"]
      /\ UNCHANGED <<inbox, tics, disk, seen, list, arrived>>
  BY DEF F!AddFile
<1>2. FileTypes /\ TossInv /\ FilesOnDisk /\ SeenInv
  BY DEF FileInv, DiskInv
<1>3. job = Job(t, "add") /\ job.tic = {t} /\ job.at = "add" /\ t \in Tic
  BY <1>1, <1>2, AtJob DEF Stages
<1>4. job' = Job(t, "tic") /\ job'.tic = {t} /\ job'.at = "tic"
  BY <1>1, <1>3, JobMoves
<1>5. ids \in SUBSET Nat /\ topFile \in Nat /\ \A y \in ids : y <= topFile
  BY <1>2 DEF FileTypes, FileRow, SeenInv
<1>6. id \in Nat /\ \A y \in ids : y < id
  BY <1>5, FileNextId
<1>7. /\ new \in FileRow
      /\ new.id = id /\ new.name = t.file /\ new.crc = t.crc /\ new.again = (id <= topFile)
  BY <1>3, <1>5, <1>6 DEF FileRow, Tic
<1>8. topFile' \in Nat /\ topFile' >= topFile /\ topFile' >= id
  BY <1>1, <1>5, <1>6, FileMax2
<1>9. \A r \in kept : r.id \in ids /\ r \in rows /\ r.id < id /\ r.id \in Nat
  BY <1>5, <1>6
<1>10. \A r \in kept : r.id \notin {q.id : q \in rows \ kept}
  BY <1>2 DEF SeenInv
<1> HIDE DEF new, id, ids
<1>11. FileTypes'
  <2>1. rows' \subseteq FileRow
    BY <1>1, <1>2, <1>7 DEF FileTypes
  <2>2. job' = F!Idle \/ \E u \in Tic, stage \in Stages : job' = Job(u, stage)
    BY <1>3, <1>4 DEF Stages
  <2> QED
    BY <1>1, <1>2, <1>8, <2>1, <2>2 DEF FileTypes
<1>12. TossInv'
  BY <1>4 DEF TossInv, F!InPlace
<1>13. FilesOnDisk'
  <2>1. disk[t.file] = t.crc /\ t.crc # F!None
    BY <1>2, <1>3 DEF TossInv, Tic, F!None, F!InPlace
  <2>2. \A r \in kept : disk[r.name] # F!None /\ (disk[r.name] = r.crc \/ r.name \in torn')
    BY <1>1, <1>2, <1>3 DEF FilesOnDisk, F!FilesOnDisk, F!InPlace
  <2> QED
    BY <1>1, <1>7, <2>1, <2>2 DEF FilesOnDisk, F!FilesOnDisk
<1> HIDE DEF kept
<1>14. SeenInv'
  <2>1. \A r \in rows' : r \in kept \/ r = new
    BY <1>1
  <2>2. \A r, q \in rows' : r.id = q.id => r = q
    BY <1>2, <1>6, <1>7, <1>9, <2>1 DEF SeenInv
  <2>3. \A r \in rows' : r.id <= topFile'
    BY <1>2, <1>5, <1>6, <1>7, <1>8, <1>9, <2>1 DEF SeenInv
  <2>4. seen' <= topFile' /\ list' <= topFile' /\ seen \in Nat /\ list \in Nat
    BY <1>1, <1>2, <1>5, <1>8 DEF SeenInv, FileTypes
  <2>5. ASSUME NEW r \in rows', r.id <= seen' \/ r.id <= list'
        PROVE r.id \in listedFiles' \/ r.again
    <3>1. CASE r = new
      <4>1. r.id <= topFile
        BY <1>1, <1>2, <1>5, <1>6, <1>7, <2>4, <2>5, <3>1 DEF SeenInv
      <4> QED
        BY <1>7, <3>1, <4>1
    <3>2. CASE r \in kept
      BY <1>1, <1>2, <1>6, <1>9, <1>10, <2>5, <3>2 DEF SeenInv
    <3> QED
      BY <2>1, <3>1, <3>2
  <2> QED
    BY <2>2, <2>3, <2>4, <2>5 DEF SeenInv
<1> QED
  BY <1>11, <1>12, <1>13, <1>14 DEF FileInv, DiskInv

\* The caller's steps leave the files alone.
LEMMA ReaderKeeps == ASSUME FileInv, F!ListFiles \/ F!MarkSeen PROVE FileInv'
<1>1. /\ FileTypes /\ SeenInv
      /\ UNCHANGED <<inbox, tics, disk, rows, job, arrived, topFile, torn>>
  BY DEF FileInv, DiskInv, F!ListFiles, F!MarkSeen
<1>2. CASE F!ListFiles
  <2> DEFINE ids == {r.id : r \in rows}
  <2>1. ids \in SUBSET Nat /\ ids # {} /\ topFile \in Nat /\ \A y \in ids : y <= topFile
    BY <1>1, <1>2 DEF F!ListFiles, FileTypes, FileRow, SeenInv
  <2>2. list' = F!Max(ids) /\ listedFiles' = listedFiles \union ids /\ seen' = seen
    BY <1>2 DEF F!ListFiles
  <2>3. list' \in ids
    BY <2>1, <2>2, FileMax
  <2>4. \A r \in rows : r.id \in listedFiles'
    BY <2>2
  <2> HIDE DEF ids
  <2> QED
    BY <1>1, <2>1, <2>2, <2>3, <2>4, WaitingDisk DEF FileInv, SeenInv, FileTypes
<1>3. CASE F!MarkSeen
  <2>1. seen' = F!Max({seen, list}) /\ list' = 0 /\ listedFiles' = listedFiles
    BY <1>3 DEF F!MarkSeen
  <2>2. seen \in Nat /\ list \in Nat
    BY <1>1 DEF FileTypes
  <2>3. seen' \in {seen, list} /\ seen' >= list /\ seen' \in Nat
    BY <2>1, <2>2, FileMax2
  <2>4. \A r \in rows : r.id \in Nat
    BY <1>1 DEF FileTypes, FileRow
  <2>5. SeenInv'
    BY <1>1, <2>1, <2>2, <2>3, <2>4 DEF SeenInv, FileTypes
  <2> QED
    BY <1>1, <2>1, <2>3, <2>5, WaitingDisk DEF FileInv, FileTypes
<1> QED
  BY <1>2, <1>3

LEMMA TossKeeps == ASSUME FileInv, NEW t, F!TicAges(t) \/ F!TossTic(t) PROVE FileInv'
<1>1. DiskInv /\ SeenInv /\ FileTypes
  BY DEF FileInv, DiskInv
<1>2. CASE F!TicAges(t) \/ F!SetAsideLate(t)
  <2>1. FileTypes' /\ UNCHANGED <<disk, rows, job, torn, seen, list, listedFiles, topFile>>
    <3>1. UNCHANGED <<disk, rows, job, torn, seen, list, listedFiles, topFile, arrived>>
      BY <1>2 DEF F!TicAges, F!SetAsideLate, F!reader
    <3>2. tics' \subseteq Tic
      BY <1>1, <1>2, AgedTic DEF F!SetAsideLate, F!TicAges, FileTypes
    <3> QED
      BY <1>1, <3>1, <3>2 DEF FileTypes
  <2> QED
    BY <1>1, <2>1, WaitingDisk, SameSeen DEF FileInv
<1>3. CASE F!SetAsideTic(t) \/ F!Check(t)
  <2>1. UNCHANGED <<rows, seen, list, topFile, listedFiles>>
    BY <1>3 DEF F!SetAsideTic, F!Check, F!reader
  <2> QED
    BY <1>1, <1>3, <2>1, BeginKeeps, SameSeen DEF FileInv
<1>4. CASE F!SetAsideFile(t) \/ F!FinishTic(t)
  <2>1. UNCHANGED <<rows, seen, list, topFile, listedFiles>>
    BY <1>4 DEF F!SetAsideFile, F!FinishTic, F!reader
  <2> QED
    BY <1>1, <1>4, <2>1, TossEndKeeps, SameSeen DEF FileInv
<1>5. CASE F!RemoveFile(t)
  BY <1>1, <1>5, RemoveFileKeeps, FewerSeen DEF FileInv
<1>6. CASE F!Unlink(t) \/ F!MoveFile(t) \/ F!RemoveSource(t)
  <2>1. UNCHANGED <<rows, seen, list, topFile, listedFiles>>
    BY <1>6 DEF F!Unlink, F!MoveFile, F!RemoveSource, F!reader
  <2> QED
    BY <1>1, <1>6, <2>1, UnlinkKeeps, MoveFileKeeps, RemoveSourceKeeps, SameSeen DEF FileInv
<1> QED
  BY <1>2, <1>3, <1>4, <1>5, <1>6, AddFileKeeps DEF F!TossTic

LEMMA FileInvHolds == StoreSpec => []FileInv
<1>1. StoreInit => FileInv
  <2> SUFFICES ASSUME StoreInit PROVE FileInv
    OBVIOUS
  <2>1. F!Init
    BY DEF StoreInit
  <2> DEFINE row(f) == [id |-> 1, name |-> f, crc |-> F!Old, again |-> FALSE, copy |-> FALSE]
  <2>2. PICK old \in {{}} \union {{f} : f \in Names} :
          /\ disk = [f \in Names |-> IF f \in old THEN F!Old ELSE F!None]
          /\ rows = {row(f) : f \in old}
          /\ topFile = IF old = {} THEN 0 ELSE 1
          /\ tics = {} /\ job = F!Idle /\ seen = 0 /\ list = 0
          /\ arrived = [tics |-> 0, files |-> {}, stops |-> 0] /\ listedFiles = {}
    BY <2>1 DEF F!Init
  <2>3. old \subseteq Names /\ \A f, g \in old : f = g
    OBVIOUS
  <2>4. \A f \in old : row(f) \in FileRow /\ disk[f] = F!Old /\ topFile = 1
    BY <2>2, <2>3 DEF FileRow, F!Old
  <2>5. rows \subseteq FileRow
    BY <2>2, <2>4
  <2>6. disk \in [Names -> Nat \union {F!None}]
    BY <2>2 DEF F!Old
  <2>7. FileTypes
    BY <2>2, <2>5, <2>6 DEF FileTypes
  <2>8. TossInv
    BY <2>2, IdleJob DEF TossInv
  <2>9. FilesOnDisk
    BY <2>2, <2>4 DEF FilesOnDisk, F!FilesOnDisk, F!Old, F!None
  <2>10. SeenInv
    <3>1. \A r \in rows : r.id = 1 /\ topFile = 1
      BY <2>2, <2>4
    <3>2. \A r, q \in rows : r = q
      BY <2>2, <2>3
    <3>3. topFile \in Nat /\ seen = 0 /\ list = 0
      BY <2>2
    <3> QED
      BY <3>1, <3>2, <3>3 DEF SeenInv
  <2> QED
    BY <2>7, <2>8, <2>9, <2>10 DEF FileInv, DiskInv
<1>2. FileInv /\ [StoreNext]_<<part, vars, boardVars, fileVars, emailVars, limitVars>> => FileInv'
  <2>1. FileInv /\ UNCHANGED fileVars => FileInv'
    BY DEF FileInv, DiskInv, FileTypes, TossInv, SeenInv, fileVars, FilesOnDisk, F!FilesOnDisk, F!InPlace
  <2>2. ASSUME FileInv, F!Next PROVE FileInv'
    <3>1. DiskInv /\ SeenInv /\ FileTypes
      BY <2>2 DEF FileInv, DiskInv
    <3>2. ASSUME NEW f \in Names, NEW r \in {{}} \union {{g} : g \in Names}, F!TicArrives(f, r)
          PROVE FileInv'
      <4>1. FileTypes' /\ UNCHANGED <<disk, rows, job, torn, seen, list, listedFiles, topFile>>
        BY <3>1, <3>2, TicArrivesKeeps
      <4> QED
        BY <3>1, <4>1, WaitingDisk, SameSeen DEF FileInv
    <3>3. ASSUME NEW f, NEW c, F!FileArrives(f, c) PROVE FileInv'
      <4>1. /\ UNCHANGED <<disk, rows, job, torn, seen, list, listedFiles, topFile, tics>>
            /\ arrived' = [arrived EXCEPT !.files = @ \union {c}]
        BY <3>3 DEF F!FileArrives, F!reader
      <4>2. FileTypes'
        BY <3>1, <4>1 DEF FileTypes
      <4> QED
        BY <3>1, <4>1, <4>2, WaitingDisk, SameSeen DEF FileInv
    <3>4. CASE F!Stop
      <4>1. UNCHANGED <<rows, seen, list, topFile, listedFiles>>
        BY <3>4 DEF F!Stop, F!reader
      <4> QED
        BY <3>1, <3>4, <4>1, StopKeeps, SameSeen DEF FileInv
    <3>5. ASSUME NEW t, F!TicAges(t) \/ F!TossTic(t) PROVE FileInv'
      BY <2>2, <3>5, TossKeeps
    <3>6. CASE F!ListFiles \/ F!MarkSeen
      BY <2>2, <3>6, ReaderKeeps
    <3> QED
      BY <2>2, <3>2, <3>3, <3>4, <3>5, <3>6 DEF F!Next
  <2> QED
    BY <2>1, <2>2 DEF StoreNext
<1> QED
  BY <1>1, <1>2, PTL DEF StoreSpec

\* FilesOnDisk, for any names, TICs and crashes: at every moment of a toss (tossTIC,
\* RemoveFile, moveFile, AddFile) and after a stop at any, a listed file is on the disk
\* and is the copy its row describes, but for a toss that has not reached AddFile.
THEOREM FilesStayOnDisk == StoreSpec => []FilesOnDisk
<1>1. FileInv => FilesOnDisk
  BY DEF FileInv, DiskInv
<1> QED
  BY <1>1, FileInvHolds, PTL

\* NewFilesCount, for any files and listings: what AddFile records between a caller's
\* listing and its MarkFilesSeen stays new, unless its id is one an earlier file had.
THEOREM NewFilesStayNew == StoreSpec => []NewFilesCount
<1>1. FileInv => NewFilesCount
  BY DEF FileInv, SeenInv, NewFilesCount, F!NewFilesCount
<1> QED
  BY <1>1, FileInvHolds, PTL

-----------------------------------------------------------------------------
(* Boards.                                                                 *)

Board  == [id : 1..MaxBoard, sysopOnly : BOOLEAN]
Copies == [id : Nat, board : 1..MaxBoard, author : B!Accounts]
Post   == [id : Nat, board : 1..MaxBoard, author : B!Accounts, thread : Nat, again : BOOLEAN]
Views  == [board : SUBSET Board, list : SUBSET Copies, at : SUBSET Copies]

NoMarks == [b \in 1..MaxBoard |-> 0]

BoardTypes ==
  /\ boards \subseteq Board /\ posts \subseteq Post /\ top \in Nat
  /\ read \in [Slow -> [1..MaxBoard -> Nat]]
  /\ view \in [Slow -> Views]

\* Ids are positive and no higher than the highest ever given out.
IdsBelow == \A p \in posts : 0 < p.id /\ p.id <= top

\* Of these posts, account i may take those of a board up to an id for seen.
UpTo(ps, ls, i, b, id) ==
  \A p \in ps : p.board = b /\ p.id <= id /\ p.author # i => <<i, p.id>> \in ls \/ p.again

MarkedUpTo(i) == \A b \in 1..MaxBoard : read[i][b] <= top /\ UpTo(posts, listed, i, b, read[i][b])

\* A copy on a list is as good as a mark: it may become one.
ListedUpTo(i) == \A c \in view[i].list : c.id <= top /\ UpTo(posts, listed, i, c.board, c.id)

\* An id without an account has neither, so the next owner starts with none.
Fresh(i) == i \notin callers => view[i] = B!NoView /\ read[i] = NoMarks

MarkInv == \A i \in Slow : MarkedUpTo(i) /\ ListedUpTo(i) /\ Fresh(i)

ThreadInv ==
  /\ \A p \in posts : p.thread <= p.id
  /\ \A p, q \in posts : p.thread = q.thread => p.board = q.board

BoardInv == BoardTypes /\ IdsBelow /\ MarkInv /\ ThreadInv

LEMMA SameMax == \A S : B!Max(S) = F!Max(S)
BY DEF B!Max, F!Max

LEMMA BoardNextId ==
  ASSUME NEW S \in SUBSET Nat, NEW n \in Nat, \A y \in S : y <= n
  PROVE B!NextId(S) \in Nat /\ B!NextId(S) > 0 /\ \A y \in S : y < B!NextId(S)
<1>1. B!NextId(S) = F!NextId(S)
  BY SameMax DEF B!NextId, F!NextId
<1>2. CASE S = {}
  BY <1>2 DEF B!NextId
<1>3. CASE S # {}
  <2>1. PICK y \in S : y \in Nat /\ y < F!NextId(S)
    BY <1>3, FileNextId
  <2> QED
    BY <1>1, <1>3, <2>1, FileNextId
<1> QED
  BY <1>2, <1>3

LEMMA BoardMax2 ==
  ASSUME NEW a \in Nat, NEW b \in Nat
  PROVE B!Max({a, b}) \in Nat /\ B!Max({a, b}) >= a /\ B!Max({a, b}) >= b /\ B!Max({a, b}) \in {a, b}
BY FileMax2, SameMax

\* What is gone can neither be skipped nor be in a thread.
LEMMA FewerPosts ==
  ASSUME IdsBelow, ThreadInv, posts' \subseteq posts, top' = top PROVE IdsBelow' /\ ThreadInv'
BY DEF IdsBelow, ThreadInv

LEMMA FewerUpTo ==
  ASSUME NEW i, posts' \subseteq posts,
         \A p \in posts' : <<i, p.id>> \in listed => <<i, p.id>> \in listed'
  PROVE \A b, id : UpTo(posts, listed, i, b, id) => UpTo(posts', listed', i, b, id)
BY DEF UpTo

LEMMA NothingUpTo ==
  ASSUME NEW i, NEW b, IdsBelow', BoardTypes' PROVE UpTo(posts', listed', i, b, 0)
BY DEF UpTo, IdsBelow, BoardTypes, Post

LEMMA ListedOfKeeps ==
  ASSUME NEW i, NEW S, NEW p \in S, <<i, p.id>> \in listed PROVE <<i, p.id>> \in B!ListedOf(S)
BY DEF B!ListedOf

LEMMA CreateUserKeeps == ASSUME BoardInv, NEW i, B!CreateUser(i) PROVE BoardInv'
<1>1. callers \subseteq callers' /\ UNCHANGED <<boards, posts, read, view, top, listed>>
  BY DEF B!CreateUser
<1> QED
  BY <1>1 DEF BoardInv, BoardTypes, IdsBelow, MarkInv, MarkedUpTo, ListedUpTo, Fresh, UpTo, ThreadInv

LEMMA DeleteUserKeeps == ASSUME BoardInv, NEW i, B!DeleteUser(i) PROVE BoardInv'
<1>1. /\ callers' = callers \ {i} /\ UNCHANGED <<boards, posts, top>>
      /\ read' = [j \in Slow |-> IF j = i THEN NoMarks ELSE read[j]]
      /\ view' = [j \in Slow |-> IF j = i THEN B!NoView ELSE view[j]]
      /\ listed' = {l \in listed : l[1] # i}
  BY DEF B!DeleteUser, B!ReadWithout, NoMarks
<1>2. B!NoView \in Views /\ B!NoView.list = {} /\ NoMarks \in [1..MaxBoard -> Nat]
  BY DEF B!NoView, Views, NoMarks
<1>3. BoardTypes'
  BY <1>1, <1>2 DEF BoardInv, BoardTypes
<1>4. IdsBelow' /\ ThreadInv'
  BY <1>1, FewerPosts DEF BoardInv
<1>5. ASSUME NEW j \in Slow PROVE MarkedUpTo(j)' /\ ListedUpTo(j)' /\ Fresh(j)'
  <2>1. CASE j = i
    <3>1. read'[j] = NoMarks /\ view'[j] = B!NoView
      BY <1>1, <2>1
    <3>2. \A b \in 1..MaxBoard : read'[j][b] = 0 /\ UpTo(posts', listed', j, b, 0)
      BY <1>3, <1>4, <3>1, NothingUpTo DEF NoMarks
    <3> QED
      BY <1>2, <1>3, <3>1, <3>2 DEF MarkedUpTo, ListedUpTo, Fresh, BoardTypes
  <2>2. CASE j # i
    <3>1. read'[j] = read[j] /\ view'[j] = view[j]
      BY <1>1, <2>2
    <3>2. \A p : <<j, p>> \in listed => <<j, p>> \in listed'
      BY <1>1, <2>2
    <3>3. \A b, id : UpTo(posts, listed, j, b, id) => UpTo(posts', listed', j, b, id)
      BY <1>1, <3>2, FewerUpTo
    <3>4. MarkedUpTo(j) /\ ListedUpTo(j) /\ Fresh(j)
      BY DEF BoardInv, MarkInv
    <3>5. \A b \in 1..MaxBoard : UpTo(posts', listed', j, b, read'[j][b])
      BY <3>1, <3>3, <3>4 DEF MarkedUpTo
    <3>6. \A c \in view'[j].list : UpTo(posts', listed', j, c.board, c.id)
      BY <3>1, <3>3, <3>4 DEF ListedUpTo
    <3> QED
      BY <1>1, <2>2, <3>1, <3>4, <3>5, <3>6 DEF MarkedUpTo, ListedUpTo, Fresh
  <2> QED
    BY <2>1, <2>2
<1> QED
  BY <1>3, <1>4, <1>5 DEF BoardInv, MarkInv

LEMMA CreateBoardKeeps == ASSUME BoardInv, NEW o \in BOOLEAN, B!CreateBoard(o) PROVE BoardInv'
<1> DEFINE ids == {b.id : b \in boards}
           id  == B!NextId(ids)
<1>1. /\ id <= MaxBoard /\ boards' = boards \union {[id |-> id, sysopOnly |-> o]}
      /\ UNCHANGED <<callers, posts, read, view, top, listed>>
  BY DEF B!CreateBoard
<1>2. ids \in SUBSET Nat /\ \A y \in ids : y <= MaxBoard
  BY BoardAssumption DEF BoardInv, BoardTypes, Board
<1>3. id \in Nat /\ id > 0
  BY <1>2, BoardNextId, BoardAssumption
<1> HIDE DEF id
<1>4. boards' \subseteq Board
  BY <1>1, <1>3, BoardAssumption DEF BoardInv, BoardTypes, Board
<1> QED
  BY <1>1, <1>4 DEF BoardInv, BoardTypes, IdsBelow, MarkInv, MarkedUpTo, ListedUpTo, Fresh, UpTo, ThreadInv

\* Its marks go with the board, so a board that gets the id starts with none.
LEMMA DeleteBoardKeeps == ASSUME BoardInv, NEW b \in boards, B!DeleteBoard(b) PROVE BoardInv'
<1>1. /\ boards' \subseteq boards /\ posts' \subseteq posts /\ listed' = B!ListedOf(posts')
      /\ read' = [i \in Slow |-> [read[i] EXCEPT ![b.id] = 0]]
      /\ UNCHANGED <<callers, view, top>>
  BY DEF B!DeleteBoard
<1>2. b.id \in 1..MaxBoard
  BY DEF BoardInv, BoardTypes, Board
<1>3. BoardTypes'
  BY <1>1, <1>2 DEF BoardInv, BoardTypes
<1>4. IdsBelow' /\ ThreadInv'
  BY <1>1, FewerPosts DEF BoardInv
<1>5. ASSUME NEW i \in Slow PROVE MarkedUpTo(i)' /\ ListedUpTo(i)' /\ Fresh(i)'
  <2>1. \A c, id : UpTo(posts, listed, i, c, id) => UpTo(posts', listed', i, c, id)
    BY <1>1, ListedOfKeeps, FewerUpTo
  <2>2. MarkedUpTo(i) /\ ListedUpTo(i) /\ Fresh(i) /\ read[i] \in [1..MaxBoard -> Nat]
    BY DEF BoardInv, MarkInv, BoardTypes
  <2>3. read'[i] = [read[i] EXCEPT ![b.id] = 0]
    BY <1>1
  <2>4. ASSUME NEW c \in 1..MaxBoard PROVE read'[i][c] <= top /\ UpTo(posts', listed', i, c, read'[i][c])
    <3>1. CASE c = b.id
      <4>1. read'[i][c] = 0 /\ top \in Nat
        BY <1>2, <2>2, <2>3, <3>1 DEF BoardInv, BoardTypes
      <4>2. UpTo(posts', listed', i, c, 0)
        BY <1>3, <1>4, NothingUpTo
      <4> QED
        BY <4>1, <4>2
    <3>2. CASE c # b.id
      <4>1. read'[i][c] = read[i][c]
        BY <2>2, <2>3, <3>2
      <4> QED
        BY <2>1, <2>2, <4>1 DEF MarkedUpTo
    <3> QED
      BY <3>1, <3>2
  <2>5. Fresh(i)'
    BY <1>1, <2>2, <2>3 DEF Fresh, NoMarks
  <2> QED
    BY <1>1, <2>1, <2>2, <2>4, <2>5 DEF MarkedUpTo, ListedUpTo
<1> QED
  BY <1>3, <1>4, <1>5 DEF BoardInv, MarkInv

LEMMA OpenBoardKeeps ==
  ASSUME BoardInv, NEW i \in Slow, NEW b \in boards, B!OpenBoard(i, b) PROVE BoardInv'
<1> DEFINE w == [B!NoView EXCEPT !.board = {b}]
<1>1. /\ i \in callers /\ view' = [view EXCEPT ![i] = w]
      /\ UNCHANGED <<callers, boards, posts, read, top, listed>>
  BY DEF B!OpenBoard
<1>2. w \in Views /\ w.list = {}
  BY DEF B!NoView, Views, BoardInv, BoardTypes
<1> HIDE DEF w
<1>3. BoardTypes'
  BY <1>1, <1>2 DEF BoardInv, BoardTypes
<1>4. ASSUME NEW j \in Slow
      PROVE (j = i /\ view'[j].list = {}) \/ (j # i /\ view'[j] = view[j])
  BY <1>1, <1>2 DEF BoardInv, BoardTypes
<1>5. ASSUME NEW j \in Slow PROVE MarkedUpTo(j)' /\ ListedUpTo(j)' /\ Fresh(j)'
  <2>1. MarkedUpTo(j) /\ ListedUpTo(j) /\ Fresh(j)
    BY DEF BoardInv, MarkInv
  <2> QED
    BY <1>1, <1>4, <2>1 DEF MarkedUpTo, ListedUpTo, Fresh
<1> QED
  BY <1>1, <1>3, <1>5, FewerPosts DEF BoardInv, MarkInv

\* All the posts of the board are listed with the copies.
LEMMA ListKeeps == ASSUME BoardInv, NEW i \in Slow, B!List(i) PROVE BoardInv'
<1>1. PICK b \in view[i].board :
        /\ view' = [view EXCEPT ![i].list = {B!Copy(p) : p \in B!Posts(b.id)}, ![i].at = {}]
        /\ listed' = listed \union {<<i, p.id>> : p \in {q \in posts : q.board = b.id}}
        /\ UNCHANGED <<callers, boards, posts, read, top>>
  BY DEF B!List
<1> DEFINE copies == {B!Copy(p) : p \in B!Posts(b.id)}
<1>2. BoardTypes /\ view[i] \in Views
  BY DEF BoardInv, BoardTypes
<1>3. \A c \in copies : c \in Copies /\ c.board = b.id /\ c.id <= top
  <2> SUFFICES ASSUME NEW p \in B!Posts(b.id)
               PROVE B!Copy(p) \in Copies /\ B!Copy(p).board = b.id /\ B!Copy(p).id <= top
    OBVIOUS
  <2>1. p \in posts /\ p \in Post /\ p.board = b.id /\ p.id <= top
    BY <1>2 DEF BoardInv, IdsBelow, B!Posts, BoardTypes
  <2> QED
    BY <2>1 DEF B!Copy, Copies, Post
<1> HIDE DEF copies
<1>4. /\ view'[i] = [board |-> view[i].board, list |-> copies, at |-> {}]
      /\ \A j \in Slow : j # i => view'[j] = view[j]
      /\ view' \in [Slow -> Views]
  BY <1>1, <1>2, <1>3 DEF BoardTypes, Views, copies
<1>5. BoardTypes'
  BY <1>1, <1>2, <1>4 DEF BoardTypes
<1>6. UpTo(posts', listed', i, b.id, top)
  BY <1>1 DEF UpTo
<1>7. ASSUME NEW j \in Slow PROVE MarkedUpTo(j)' /\ ListedUpTo(j)' /\ Fresh(j)'
  <2>1. MarkedUpTo(j) /\ ListedUpTo(j) /\ Fresh(j)
    BY DEF BoardInv, MarkInv
  <2>2. \A c, id : UpTo(posts, listed, j, c, id) => UpTo(posts', listed', j, c, id)
    BY <1>1, FewerUpTo
  <2>3. MarkedUpTo(j)'
    BY <1>1, <2>1, <2>2 DEF MarkedUpTo
  <2>4. CASE j = i
    <3>1. \A c \in copies : UpTo(posts', listed', i, c.board, c.id)
      BY <1>1, <1>3 DEF UpTo
    <3>2. view'[j].list = copies
      BY <1>4, <2>4
    <3>3. ListedUpTo(j)'
      BY <1>1, <1>3, <2>4, <3>1, <3>2 DEF ListedUpTo
    <3>4. view[i].board # {} /\ B!NoView.board = {}
      BY <1>1 DEF B!NoView
    <3> QED
      BY <1>1, <2>1, <2>3, <2>4, <3>3, <3>4 DEF Fresh
  <2>5. CASE j # i
    BY <1>1, <1>4, <2>1, <2>2, <2>3, <2>5 DEF ListedUpTo, Fresh
  <2> QED
    BY <2>4, <2>5
<1> QED
  BY <1>1, <1>5, <1>7, FewerPosts DEF BoardInv, MarkInv

LEMMA UpToMax ==
  ASSUME BoardTypes, NEW i, NEW b, NEW m \in Nat, NEW n \in Nat,
         UpTo(posts, listed, i, b, m), UpTo(posts, listed, i, b, n)
  PROVE UpTo(posts, listed, i, b, B!Mark(m, n)) /\ B!Mark(m, n) \in {m, n}
BY BoardMax2 DEF UpTo, B!Mark, BoardTypes, Post

LEMMA ReadPostKeeps ==
  ASSUME BoardInv, NEW i \in Slow, NEW p, B!ReadPost(i, p) PROVE BoardInv'
<1>1. /\ p \in view[i].list /\ view' = [view EXCEPT ![i].at = {p}]
      /\ UNCHANGED <<callers, boards, posts, top, listed>>
      /\ read' = read \/ read' = [read EXCEPT ![i][p.board] = B!Mark(@, p.id)]
  BY DEF B!ReadPost
<1>2. BoardTypes /\ view[i] \in Views /\ p \in Copies /\ read[i] \in [1..MaxBoard -> Nat]
  BY <1>1 DEF BoardInv, BoardTypes, Views
<1>3. p.board \in 1..MaxBoard /\ p.id \in Nat /\ read[i][p.board] \in Nat
  BY <1>2 DEF Copies
<1>4. MarkedUpTo(i) /\ ListedUpTo(i)
  BY DEF BoardInv, MarkInv
<1> DEFINE m == B!Mark(read[i][p.board], p.id)
<1>5. UpTo(posts, listed, i, p.board, m) /\ m \in {read[i][p.board], p.id}
  BY <1>1, <1>2, <1>3, <1>4, UpToMax DEF MarkedUpTo, ListedUpTo
<1>6. m \in Nat /\ m <= top
  BY <1>1, <1>3, <1>4, <1>5 DEF MarkedUpTo, ListedUpTo
<1> HIDE DEF m
<1>7. ASSUME NEW j \in Slow
      PROVE /\ read'[j] \in [1..MaxBoard -> Nat]
            /\ \A b \in 1..MaxBoard : read'[j][b] = read[j][b] \/ (j = i /\ b = p.board /\ read'[j][b] = m)
            /\ j # i => read'[j] = read[j]
  <2>1. read[j] \in [1..MaxBoard -> Nat] /\ read \in [Slow -> [1..MaxBoard -> Nat]]
    BY <1>2 DEF BoardTypes
  <2>2. CASE read' = read
    BY <2>1, <2>2
  <2>3. CASE read' = [read EXCEPT ![i][p.board] = B!Mark(@, p.id)]
    <3>1. read' = [read EXCEPT ![i] = [read[i] EXCEPT ![p.board] = m]]
      BY <2>1, <2>3 DEF m
    <3>2. CASE j = i
      <4>1. read'[j] = [read[i] EXCEPT ![p.board] = m]
        BY <2>1, <3>1, <3>2
      <4> QED
        BY <1>3, <1>6, <2>1, <3>2, <4>1
    <3>3. CASE j # i
      BY <2>1, <3>1, <3>3
    <3> QED
      BY <3>2, <3>3
  <2> QED
    BY <1>1, <2>2, <2>3
<1>8. /\ view' \in [Slow -> Views]
      /\ \A j \in Slow : view'[j].list = view[j].list /\ (j # i => view'[j] = view[j])
  BY <1>1, <1>2 DEF BoardTypes, Views
<1>9. BoardTypes'
  <2>1. read' = [j \in Slow |-> read'[j]]
    BY <1>1, <1>2 DEF BoardTypes
  <2> QED
    BY <1>1, <1>2, <1>7, <1>8, <2>1 DEF BoardTypes
<1>10. ASSUME NEW j \in Slow PROVE MarkedUpTo(j)' /\ ListedUpTo(j)' /\ Fresh(j)'
  <2>1. MarkedUpTo(j) /\ ListedUpTo(j) /\ Fresh(j)
    BY DEF BoardInv, MarkInv
  <2>2. MarkedUpTo(j)'
    BY <1>1, <1>5, <1>6, <1>7, <2>1 DEF MarkedUpTo
  <2>3. ListedUpTo(j)'
    BY <1>1, <1>8, <2>1 DEF ListedUpTo
  <2>4. Fresh(j)'
    <3>1. CASE j = i
      <4>1. view[i] # B!NoView
        BY <1>1 DEF B!NoView
      <4> QED
        BY <1>1, <2>1, <3>1, <4>1 DEF Fresh
    <3>2. CASE j # i
      BY <1>1, <1>7, <1>8, <2>1, <3>2 DEF Fresh
    <3> QED
      BY <3>1, <3>2
  <2> QED
    BY <2>2, <2>3, <2>4
<1> QED
  BY <1>1, <1>9, <1>10, FewerPosts DEF BoardInv, MarkInv

\* A new post has an id above all there are, and above every mark unless the id is one
\* an earlier post had.
LEMMA AddPostKeeps ==
  ASSUME BoardInv, NEW i \in B!Accounts, NEW b, NEW reply, B!AddPost(i, b, reply) PROVE BoardInv'
<1> DEFINE ids == {p.id : p \in posts}
           id  == B!NextId(ids)
           th  == B!ThreadOf(b.id, reply, id)
           new == [id |-> id, board |-> b.id, author |-> i, thread |-> th, again |-> id <= top]
<1>1. /\ posts' = posts \union {new} /\ top' = B!Max({top, id})
      /\ UNCHANGED <<callers, boards, read, view, listed>>
      /\ \E row \in boards : row.id = b.id
  BY DEF B!AddPost
<1>2. BoardTypes /\ IdsBelow /\ MarkInv /\ ThreadInv
  BY DEF BoardInv
<1>3. ids \in SUBSET Nat /\ top \in Nat /\ \A y \in ids : y <= top
  BY <1>2 DEF BoardTypes, Post, IdsBelow
<1>4. id \in Nat /\ id > 0 /\ \A y \in ids : y < id
  BY <1>3, BoardNextId
<1>5. b.id \in 1..MaxBoard
  BY <1>1, <1>2 DEF BoardTypes, Board
<1>6. \A p \in posts : p.id < id /\ p.id \in Nat /\ p.thread \in Nat
  BY <1>2, <1>4 DEF BoardTypes, Post
<1>7. th = id \/ \E p \in posts : p.board = b.id /\ th = p.thread
  <2> DEFINE to == {p \in posts : p.id = reply /\ p.board = b.id}
  <2>1. CASE to = {}
    BY <2>1 DEF B!ThreadOf
  <2>2. CASE to # {}
    <3>1. PICK p : p = (CHOOSE q \in to : TRUE) /\ p \in to
      BY <2>2
    <3> QED
      BY <2>2, <3>1 DEF B!ThreadOf
  <2> QED
    BY <2>1, <2>2
<1> HIDE DEF id, th
<1>8. th \in Nat /\ th <= id
  BY <1>2, <1>4, <1>6, <1>7 DEF ThreadInv
<1>9. /\ new \in Post /\ new.id = id /\ new.board = b.id /\ new.author = i /\ new.thread = th
      /\ new.again = (id <= top)
  BY <1>3, <1>4, <1>5, <1>8 DEF Post
<1> HIDE DEF new
<1>10. top' \in Nat /\ top' >= top /\ top' >= id
  BY <1>1, <1>3, <1>4, BoardMax2
<1>11. BoardTypes'
  BY <1>1, <1>2, <1>9, <1>10 DEF BoardTypes
<1>12. IdsBelow'
  BY <1>1, <1>2, <1>3, <1>4, <1>6, <1>9, <1>10 DEF IdsBelow
<1>13. ThreadInv'
  <2>1. \A p \in posts : p.thread < id
    BY <1>2, <1>4, <1>6 DEF ThreadInv
  <2>2. \A p \in posts : p.thread = th => p.board = b.id
    BY <1>2, <1>4, <1>6, <1>7, <2>1 DEF ThreadInv
  <2> QED
    BY <1>1, <1>2, <1>8, <1>9, <2>2 DEF ThreadInv
<1>14. ASSUME NEW j, NEW c, NEW n \in Nat, n <= top, UpTo(posts, listed, j, c, n)
       PROVE UpTo(posts', listed', j, c, n)
  <2>1. id <= n => new.again
    <3>1. id <= n => id <= top
      BY <1>3, <1>4, <1>14
    <3> QED
      BY <1>9, <3>1
  <2> QED
    BY <1>1, <1>9, <1>14, <2>1 DEF UpTo
<1>15. ASSUME NEW j \in Slow PROVE MarkedUpTo(j)' /\ ListedUpTo(j)' /\ Fresh(j)'
  <2>1. /\ MarkedUpTo(j) /\ ListedUpTo(j) /\ Fresh(j)
        /\ read[j] \in [1..MaxBoard -> Nat] /\ view[j].list \subseteq Copies
    BY <1>2 DEF MarkInv, BoardTypes, Views
  <2>2. MarkedUpTo(j)'
    <3> SUFFICES ASSUME NEW c \in 1..MaxBoard
                 PROVE read[j][c] <= top' /\ UpTo(posts', listed', j, c, read[j][c])
      BY <1>1 DEF MarkedUpTo
    <3>1. PICK n \in Nat : n = read[j][c] /\ n <= top /\ UpTo(posts, listed, j, c, n)
      BY <2>1 DEF MarkedUpTo
    <3> QED
      BY <1>3, <1>10, <1>14, <3>1
  <2>3. ListedUpTo(j)'
    <3> SUFFICES ASSUME NEW c \in view[j].list
                 PROVE c.id <= top' /\ UpTo(posts', listed', j, c.board, c.id)
      BY <1>1 DEF ListedUpTo
    <3>1. PICK n \in Nat : n = c.id /\ n <= top /\ UpTo(posts, listed, j, c.board, n)
      BY <2>1 DEF ListedUpTo, Copies
    <3> QED
      BY <1>3, <1>10, <1>14, <3>1
  <2> QED
    BY <1>1, <2>1, <2>2, <2>3 DEF Fresh
<1> QED
  BY <1>11, <1>12, <1>13, <1>15 DEF BoardInv, MarkInv

LEMMA DeletePostKeeps == ASSUME BoardInv, NEW i, B!DeletePost(i) PROVE BoardInv'
<1>1. PICK p \in B!Shown(i), row \in posts :
        /\ i \in callers /\ posts' = posts \ {row} /\ listed' = B!ListedOf(posts')
        /\ view' = IF i \in Slow THEN [view EXCEPT ![i].list = @ \ {p}, ![i].at = {}] ELSE view
        /\ UNCHANGED <<callers, boards, read, top>>
  BY DEF B!DeletePost
<1>2. BoardTypes
  BY DEF BoardInv
<1>3. /\ view' \in [Slow -> Views]
      /\ \A j \in Slow : view'[j].list \subseteq view[j].list /\ (j # i => view'[j] = view[j])
  <2>1. CASE i \in Slow
    <3>1. view' = [view EXCEPT ![i].list = @ \ {p}, ![i].at = {}] /\ view[i] \in Views
      BY <1>1, <1>2, <2>1 DEF BoardTypes
    <3>2. /\ view'[i] = [board |-> view[i].board, list |-> view[i].list \ {p}, at |-> {}]
          /\ \A j \in Slow : j # i => view'[j] = view[j]
          /\ view' = [j \in Slow |-> view'[j]]
      BY <1>2, <2>1, <3>1 DEF BoardTypes, Views
    <3>3. view'[i] \in Views /\ view'[i].list \subseteq view[i].list
      <4>1. view[i].board \subseteq Board /\ view[i].list \subseteq Copies
        BY <3>1 DEF Views
      <4> QED
        BY <3>2, <4>1 DEF Views
    <3> QED
      BY <1>2, <3>2, <3>3 DEF BoardTypes
  <2>2. CASE i \notin Slow
    BY <1>1, <1>2, <2>2 DEF BoardTypes
  <2> QED
    BY <2>1, <2>2
<1>4. BoardTypes'
  BY <1>1, <1>2, <1>3 DEF BoardTypes
<1>5. ASSUME NEW j \in Slow PROVE MarkedUpTo(j)' /\ ListedUpTo(j)' /\ Fresh(j)'
  <2>1. MarkedUpTo(j) /\ ListedUpTo(j) /\ Fresh(j)
    BY DEF BoardInv, MarkInv
  <2>2. \A c, id : UpTo(posts, listed, j, c, id) => UpTo(posts', listed', j, c, id)
    BY <1>1, ListedOfKeeps, FewerUpTo
  <2>3. MarkedUpTo(j)' /\ ListedUpTo(j)'
    BY <1>1, <1>3, <2>1, <2>2 DEF MarkedUpTo, ListedUpTo
  <2> QED
    BY <1>1, <1>3, <2>1, <2>3 DEF Fresh
<1> QED
  BY <1>1, <1>4, <1>5, FewerPosts DEF BoardInv, MarkInv

LEMMA BoardInvHolds == StoreSpec => []BoardInv
<1>1. StoreInit => BoardInv
  <2> SUFFICES ASSUME StoreInit PROVE BoardInv
    OBVIOUS
  <2>1. /\ boards = {[id |-> 1, sysopOnly |-> TRUE], [id |-> 2, sysopOnly |-> FALSE]}
        /\ posts = {} /\ read = [i \in Slow |-> NoMarks] /\ view = [i \in Slow |-> B!NoView]
        /\ top = 0
    BY DEF StoreInit, B!Init, NoMarks
  <2>2. NoMarks \in [1..MaxBoard -> Nat] /\ B!NoView \in Views /\ B!NoView.list = {}
    BY DEF NoMarks, B!NoView, Views
  <2>3. BoardTypes
    BY <2>1, <2>2, BoardAssumption DEF BoardTypes, Board
  <2>4. IdsBelow /\ ThreadInv
    BY <2>1 DEF IdsBelow, ThreadInv
  <2>5. MarkInv
    BY <2>1, <2>2 DEF MarkInv, MarkedUpTo, ListedUpTo, Fresh, UpTo, NoMarks
  <2> QED
    BY <2>3, <2>4, <2>5 DEF BoardInv
<1>2. BoardInv /\ [StoreNext]_<<part, vars, boardVars, fileVars, emailVars, limitVars>> => BoardInv'
  <2>1. BoardInv /\ UNCHANGED boardVars => BoardInv'
    BY DEF boardVars, BoardInv, BoardTypes, IdsBelow, MarkInv, MarkedUpTo, ListedUpTo, Fresh, ThreadInv
  <2>2. ASSUME BoardInv, B!Next PROVE BoardInv'
    <3>1. ASSUME NEW i \in B!Accounts, B!NewPost(i) \/ B!ReplyPost(i) PROVE BoardInv'
      BY <2>2, <3>1, AddPostKeeps DEF B!NewPost, B!ReplyPost
    <3>2. ASSUME NEW i \in B!Accounts, B!CreateUser(i) \/ B!DeleteUser(i) \/ B!DeletePost(i) PROVE BoardInv'
      BY <2>2, <3>2, CreateUserKeeps, DeleteUserKeeps, DeletePostKeeps
    <3>3. ASSUME NEW i \in Slow, (\E b \in boards : B!OpenBoard(i, b)) \/ B!List(i)
                                 \/ (\E p \in view[i].list : B!ReadPost(i, p))
          PROVE BoardInv'
      BY <2>2, <3>3, OpenBoardKeeps, ListKeeps, ReadPostKeeps
    <3>4. CASE \E o \in BOOLEAN : B!CreateBoard(o)
      BY <2>2, <3>4, CreateBoardKeeps
    <3>5. CASE \E b \in boards : B!DeleteBoard(b)
      BY <2>2, <3>5, DeleteBoardKeeps
    <3> QED
      BY <2>2, <3>1, <3>2, <3>3, <3>4, <3>5 DEF B!Next
  <2> QED
    BY <2>1, <2>2 DEF StoreNext
<1> QED
  BY <1>1, <1>2, PTL DEF StoreSpec

\* NothingSkipped, for any accounts, boards and posts: no interleaving of posts, deletes
\* and cleared boards lets a mark set from an old list (MarkBoardRead) hide a post that
\* came after it, but for one with an id an earlier post had.
THEOREM NoPostSkipped == StoreSpec => []NothingSkipped
<1>1. BoardInv => NothingSkipped
  <2> SUFFICES ASSUME BoardInv, NEW i \in Slow, NEW p \in posts \ B!Unread(i, posts),
                      i \in callers, p.author # i
               PROVE <<i, p.id>> \in listed \/ p.again
    BY DEF NothingSkipped, B!NothingSkipped
  <2>1. /\ p.board \in 1..MaxBoard /\ p.id \in Nat
        /\ MarkedUpTo(i) /\ read[i][p.board] \in Nat /\ p \in posts
    BY DEF BoardInv, BoardTypes, Post, MarkInv
  <2>2. p.id <= read[i][p.board]
    BY <2>1 DEF B!Unread
  <2> QED
    BY <2>1, <2>2 DEF MarkedUpTo, UpTo
<1> QED
  BY <1>1, BoardInvHolds, PTL

\* ThreadsOnBoard, for any accounts, boards and posts: a thread AddPost files under never
\* crosses boards, although ids come back.
THEOREM ThreadsKeepToBoard == StoreSpec => []ThreadsOnBoard
<1>1. BoardInv => ThreadsOnBoard
  BY DEF BoardInv, BoardTypes, Post, ThreadInv, ThreadsOnBoard, B!ThreadsOnBoard
<1> QED
  BY <1>1, BoardInvHolds, PTL

-----------------------------------------------------------------------------
(* Email addresses.                                                        *)

Places == Addrs \union {E!NoAddr}

Code == [user : Users, life : Nat, addr : Addrs, mailed : BOOLEAN, tries : Nat]
Row  == [addr : Places, code : Nat, expired : BOOLEAN, attempts : Nat]

EmailTypes ==
  /\ codes \in Seq(Code) /\ pending \in [Users -> Row]
  /\ life \in [Users -> Nat] /\ lives \in [Users -> Nat]
  /\ email \in [Users -> Places] /\ mode \in [Users -> Nat]
  /\ proof \in [Users -> Nat]

\* The row that waits is about a code its owner asked for, and counts the tries at it.
Asked(cs, u, row) ==
  /\ row.code \in 1..Len(cs) /\ row.attempts <= MaxTries
  /\ cs[row.code].user = u /\ cs[row.code].life = life[u]
  /\ cs[row.code].addr = row.addr /\ cs[row.code].tries = row.attempts

\* The address was proved with a code that was mailed there for its owner.
ProvedBy(cs, u, addr, n) ==
  /\ n \in 1..Len(cs)
  /\ cs[n].mailed /\ cs[n].addr = addr /\ cs[n].user = u /\ cs[n].life = life[u]

Tried(cs) == \A n \in 1..Len(cs) : cs[n].tries <= MaxTries

RowsInv == \A u \in Users : pending[u] # E!NoRow => life[u] # 0 /\ Asked(codes, u, pending[u])

AddrInv ==
  \A u \in Users :
    /\ email[u] # E!NoAddr => life[u] # 0 /\ ProvedBy(codes, u, email[u], proof[u])
    /\ email[u] = E!NoAddr => mode[u] = 0

OneOwner == \A u, v \in Users : u # v /\ email[u] = email[v] => email[u] = E!NoAddr

EmailInv == EmailTypes /\ Tried(codes) /\ RowsInv /\ AddrInv /\ OneOwner

\* A row may go, and an address with its setting and proof.
LEMMA ForgetKeeps ==
  ASSUME EmailInv, NEW u \in Users, codes' = codes, pending' = [pending EXCEPT ![u] = E!NoRow],
         \A v \in Users : v # u => life'[v] = life[v],
         life' \in [Users -> Nat], lives' \in [Users -> Nat],
         \/ UNCHANGED <<life, email, mode, proof>>
         \/ /\ email' = [email EXCEPT ![u] = E!NoAddr] /\ mode' = [mode EXCEPT ![u] = 0]
            /\ proof' = [proof EXCEPT ![u] = 0]
  PROVE EmailInv'
<1>1. EmailTypes /\ Tried(codes) /\ RowsInv /\ AddrInv /\ OneOwner
  BY DEF EmailInv
<1>2. E!NoRow \in Row
  BY DEF E!NoRow, Row, Places
<1>3. /\ pending' \in [Users -> Row] /\ pending'[u] = E!NoRow
      /\ \A v \in Users : v # u => pending'[v] = pending[v]
  BY <1>1, <1>2 DEF EmailTypes
<1>4. ASSUME NEW v \in Users
      PROVE \/ email'[v] = email[v] /\ mode'[v] = mode[v] /\ proof'[v] = proof[v] /\ life'[v] = life[v]
            \/ v = u /\ email'[v] = E!NoAddr /\ mode'[v] = 0
  BY <1>1 DEF EmailTypes
<1>5. EmailTypes'
  <2>1. /\ email' \in [Users -> Places] /\ mode' \in [Users -> Nat]
        /\ proof' \in [Users -> Nat]
    <3>1. E!NoAddr \in Places
      BY DEF Places
    <3>2. CASE UNCHANGED <<life, email, mode, proof>>
      BY <1>1, <3>2 DEF EmailTypes
    <3>3. CASE /\ email' = [email EXCEPT ![u] = E!NoAddr] /\ mode' = [mode EXCEPT ![u] = 0]
               /\ proof' = [proof EXCEPT ![u] = 0]
      BY <1>1, <3>1, <3>3 DEF EmailTypes
    <3> QED
      BY <3>2, <3>3
  <2> QED
    BY <1>1, <1>3, <2>1 DEF EmailTypes
<1>6. RowsInv'
  BY <1>1, <1>3 DEF RowsInv, Asked
<1>7. AddrInv'
  BY <1>1, <1>4 DEF AddrInv, ProvedBy
<1>8. OneOwner'
  BY <1>1, <1>4 DEF OneOwner
<1> QED
  BY <1>1, <1>5, <1>6, <1>7, <1>8 DEF EmailInv

LEMMA NewOwnerKeeps == ASSUME EmailInv, NEW u \in Users, E!CreateUser(u) PROVE EmailInv'
<1>1. EmailTypes /\ Tried(codes) /\ RowsInv /\ AddrInv /\ OneOwner
  BY DEF EmailInv
<1>2. /\ life[u] = 0 /\ UNCHANGED <<email, mode, pending, codes, proof>>
      /\ lives' = [lives EXCEPT ![u] = @ + 1] /\ life' = [life EXCEPT ![u] = lives[u] + 1]
  BY DEF E!CreateUser, E!Exists
<1>3. EmailTypes'
  BY <1>1, <1>2 DEF EmailTypes
<1>4. /\ \A v \in Users : v # u => life'[v] = life[v]
      /\ pending[u] = E!NoRow /\ email[u] = E!NoAddr
  BY <1>1, <1>2 DEF EmailTypes, RowsInv, AddrInv
<1>5. RowsInv' /\ AddrInv'
  BY <1>1, <1>2, <1>4 DEF RowsInv, AddrInv, Asked, ProvedBy
<1> QED
  BY <1>1, <1>2, <1>3, <1>5 DEF EmailInv, OneOwner

\* A code more leaves the earlier ones as they are.
LEMMA AskKeepsAddresses ==
  ASSUME EmailInv, NEW u \in Users, NEW addr \in Addrs, NEW mailed \in BOOLEAN,
         E!SetEmailAddress(u, addr, mailed)
  PROVE EmailInv'
<1> DEFINE n   == Len(codes) + 1
           row == [addr |-> addr, code |-> n, expired |-> FALSE, attempts |-> 0]
           c   == [user |-> u, life |-> life[u], addr |-> addr, mailed |-> mailed, tries |-> 0]
<1>1. EmailTypes /\ Tried(codes) /\ RowsInv /\ AddrInv /\ OneOwner
  BY DEF EmailInv
<1>2. /\ life[u] # 0 /\ pending' = [pending EXCEPT ![u] = row] /\ codes' = Append(codes, c)
      /\ UNCHANGED <<life, lives, email, mode, proof>>
  BY DEF E!SetEmailAddress, E!Exists
<1>3. Len(codes) \in Nat /\ n \in Nat /\ c \in Code /\ row \in Row
  BY <1>1 DEF EmailTypes, Code, Row, Places
<1>4. /\ row.code = n /\ row.attempts = 0 /\ row.addr = addr
      /\ c.user = u /\ c.life = life[u] /\ c.addr = addr /\ c.tries = 0
  OBVIOUS
<1> HIDE DEF c, row
<1>5. /\ codes' \in Seq(Code) /\ Len(codes') = n /\ codes'[n] = c
      /\ \A k \in 1..Len(codes) : codes'[k] = codes[k] /\ k \in 1..n
  BY <1>1, <1>2, <1>3 DEF EmailTypes
<1>6. 1..Len(codes') = 1..Len(codes) \union {n}
  BY <1>3, <1>5
<1> HIDE DEF n
<1>7. /\ pending' \in [Users -> Row] /\ pending'[u] = row
      /\ \A v \in Users : v # u => pending'[v] = pending[v]
  BY <1>1, <1>2, <1>3 DEF EmailTypes
<1>8. EmailTypes'
  BY <1>1, <1>2, <1>5, <1>7 DEF EmailTypes
<1>9. Tried(codes')
  BY <1>1, <1>4, <1>5, <1>6, EmailAssumption DEF Tried
<1>10. RowsInv'
  <2>1. \A v \in Users : Asked(codes, v, pending[v]) => Asked(codes', v, pending[v])
    BY <1>5, <1>6 DEF Asked
  <2>2. Asked(codes', u, row)
    BY <1>4, <1>5, <1>6, EmailAssumption DEF Asked
  <2> QED
    BY <1>1, <1>2, <1>7, <2>1, <2>2 DEF RowsInv, Asked
<1>11. AddrInv'
  BY <1>1, <1>2, <1>5, <1>6 DEF AddrInv, ProvedBy
<1> QED
  BY <1>1, <1>2, <1>8, <1>9, <1>10, <1>11 DEF EmailInv, OneOwner

LEMMA ExpiresKeeps == ASSUME EmailInv, NEW u \in Users, E!Expires(u) PROVE EmailInv'
<1>1. EmailTypes /\ Tried(codes) /\ RowsInv /\ AddrInv /\ OneOwner
  BY DEF EmailInv
<1>2. /\ pending[u] # E!NoRow /\ pending' = [pending EXCEPT ![u].expired = TRUE]
      /\ UNCHANGED <<life, lives, email, mode, codes, proof>>
  BY DEF E!Expires, E!Waiting
<1>3. /\ pending' \in [Users -> Row]
      /\ pending'[u].addr = pending[u].addr /\ pending'[u].code = pending[u].code
      /\ pending'[u].attempts = pending[u].attempts
      /\ \A v \in Users : v # u => pending'[v] = pending[v]
  BY <1>1, <1>2 DEF EmailTypes, Row
<1>4. RowsInv'
  BY <1>1, <1>2, <1>3 DEF RowsInv, Asked
<1>5. EmailTypes'
  BY <1>1, <1>2, <1>3 DEF EmailTypes
<1> QED
  BY <1>1, <1>2, <1>4, <1>5 DEF EmailInv, AddrInv, OneOwner, ProvedBy

LEMMA OneTryMore ==
  ASSUME NEW c \in Code
  PROVE LET d == [c EXCEPT !.tries = @ + 1]
        IN /\ d \in Code /\ d.user = c.user /\ d.life = c.life /\ d.addr = c.addr
           /\ d.mailed = c.mailed /\ d.tries = c.tries + 1
BY DEF Code

LEMMA OneAttemptMore ==
  ASSUME NEW r \in Row
  PROVE LET q == [r EXCEPT !.attempts = @ + 1]
        IN q \in Row /\ q.addr = r.addr /\ q.code = r.code /\ q.attempts = r.attempts + 1
BY DEF Row

\* The row and its code are counted together, and no other row is about that code.
LEMMA WrongTryKeeps ==
  ASSUME EmailInv, NEW u \in Users, pending[u] # E!NoRow, pending[u].attempts < MaxTries,
         pending' = E!WrongTry(u), codes' = [codes EXCEPT ![pending[u].code].tries = @ + 1],
         UNCHANGED <<life, lives, email, mode, proof>>
  PROVE EmailInv'
<1>1. EmailTypes /\ Tried(codes) /\ RowsInv /\ AddrInv /\ OneOwner
  BY DEF EmailInv
<1>2. PICK n : n = pending[u].code
  OBVIOUS
<1>3. /\ n \in 1..Len(codes) /\ codes[n] \in Code /\ Asked(codes, u, pending[u])
      /\ codes[n].tries = pending[u].attempts /\ codes[n].user = u
  BY <1>1, <1>2 DEF RowsInv, Asked, EmailTypes
<1>4. PICK c \in Code : c = [codes[n] EXCEPT !.tries = @ + 1]
  BY <1>3, OneTryMore
<1>5. /\ c.user = u /\ c.life = codes[n].life /\ c.addr = codes[n].addr
      /\ c.mailed = codes[n].mailed /\ c.tries = pending[u].attempts + 1
  BY <1>3, <1>4, OneTryMore
<1>6. codes' = [codes EXCEPT ![n] = c]
  BY <1>1, <1>2, <1>3, <1>4 DEF EmailTypes
<1>7. /\ codes' \in Seq(Code) /\ Len(codes') = Len(codes) /\ codes'[n] = c
      /\ \A k \in 1..Len(codes) : k # n => codes'[k] = codes[k]
  <2>1. codes \in Seq(Code)
    BY <1>1 DEF EmailTypes
  <2> QED
    <3>1. /\ [codes EXCEPT ![n] = c] \in Seq(Code)
          /\ Len([codes EXCEPT ![n] = c]) = Len(codes)
          /\ \A k \in 1..Len(codes) : [codes EXCEPT ![n] = c][k] = IF k = n THEN c ELSE codes[k]
      BY <1>3, <1>4, <2>1, ExceptSeq
    <3> QED
      BY <1>3, <1>6, <3>1
<1>8. /\ pending' \in [Users -> Row]
      /\ pending'[u].addr = pending[u].addr /\ pending'[u].code = n
      /\ pending'[u].attempts = pending[u].attempts + 1 /\ pending[u].attempts \in Nat
      /\ \A v \in Users : v # u => pending'[v] = pending[v]
  <2>1. pending' = [pending EXCEPT ![u] = [pending[u] EXCEPT !.attempts = @ + 1]]
    BY <1>1 DEF EmailTypes, E!WrongTry
  <2>2. pending \in [Users -> Row] /\ pending[u] \in Row
    BY <1>1 DEF EmailTypes
  <2>3. pending[u].attempts \in Nat
    BY <2>2 DEF Row
  <2>4. PICK q \in Row : /\ q = [pending[u] EXCEPT !.attempts = @ + 1]
                         /\ q.addr = pending[u].addr /\ q.code = n /\ q.attempts = pending[u].attempts + 1
    BY <1>2, <2>2, OneAttemptMore
  <2> QED
    BY <2>1, <2>2, <2>3, <2>4
<1>9. EmailTypes'
  BY <1>1, <1>7, <1>8 DEF EmailTypes
<1>10. Tried(codes')
  <2>1. c.tries <= MaxTries
    BY <1>5, <1>8, EmailAssumption
  <2> QED
    BY <1>1, <1>7, <2>1 DEF Tried
<1>11. ASSUME NEW v \in Users, pending'[v] # E!NoRow PROVE life'[v] # 0 /\ Asked(codes', v, pending'[v])
  <2>1. CASE v = u
    BY <1>1, <1>2, <1>3, <1>5, <1>7, <1>8, <2>1, EmailAssumption DEF RowsInv, Asked
  <2>2. CASE v # u
    <3>1. pending'[v] = pending[v] /\ life[v] # 0 /\ Asked(codes, v, pending[v])
      BY <1>1, <1>8, <1>11, <2>2 DEF RowsInv
    <3>2. pending[v].code # n
      BY <1>3, <2>2, <3>1 DEF Asked
    <3> QED
      BY <1>7, <3>1, <3>2 DEF Asked
  <2> QED
    BY <2>1, <2>2
<1>12. RowsInv'
  BY <1>11 DEF RowsInv, Asked
<1>13. AddrInv'
  <2>1. \A v \in Users : ProvedBy(codes, v, email[v], proof[v]) => ProvedBy(codes', v, email[v], proof[v])
    BY <1>3, <1>5, <1>7 DEF ProvedBy
  <2> QED
    BY <1>1, <2>1 DEF AddrInv, ProvedBy
<1> QED
  BY <1>1, <1>9, <1>10, <1>12, <1>13 DEF EmailInv, OneOwner

\* A code proves the address it was mailed to.
LEMMA ProvedKeeps ==
  ASSUME EmailInv, NEW u \in Users, pending[u] # E!NoRow, ~E!Taken(u, pending[u].addr),
         NEW n \in E!Known, n = pending[u].code,
         email' = [email EXCEPT ![u] = pending[u].addr],
         mode' = [mode EXCEPT ![u] = IF @ < E!Notice THEN E!Notice ELSE @],
         pending' = [pending EXCEPT ![u] = E!NoRow], proof' = [proof EXCEPT ![u] = n],
         UNCHANGED <<codes, life, lives>>
  PROVE EmailInv'
<1>1. EmailTypes /\ Tried(codes) /\ RowsInv /\ AddrInv /\ OneOwner
  BY DEF EmailInv
<1>2. life[u] # 0 /\ Asked(codes, u, pending[u])
  BY <1>1 DEF RowsInv
<1>3. n \in 1..Len(codes) /\ codes[n] \in Code
  BY <1>1, <1>2 DEF Asked, EmailTypes
<1>4. codes[n].mailed /\ pending[u].addr = codes[n].addr /\ pending[u].addr \in Addrs
  BY <1>2, <1>3 DEF E!Known, Asked, Code
<1>5. pending[u].addr # E!NoAddr
  BY <1>4, EmailAssumption DEF E!NoAddr
<1>6. E!NoRow \in Row
  BY DEF E!NoRow, Row, Places
<1>7. /\ email'[u] = pending[u].addr /\ proof'[u] = n /\ pending'[u] = E!NoRow
      /\ \A v \in Users : v # u => /\ email'[v] = email[v] /\ mode'[v] = mode[v]
                                   /\ proof'[v] = proof[v] /\ pending'[v] = pending[v]
  BY <1>1 DEF EmailTypes
<1>8. EmailTypes'
  <2>1. pending' \in [Users -> Row] /\ proof' \in [Users -> Nat]
    BY <1>1, <1>3, <1>6 DEF EmailTypes
  <2>2. email' \in [Users -> Places] /\ mode' \in [Users -> Nat]
    BY <1>1, <1>4 DEF EmailTypes, E!Notice, Places
  <2> QED
    BY <1>1, <2>1, <2>2 DEF EmailTypes
<1>9. RowsInv'
  BY <1>1, <1>7 DEF RowsInv, Asked
<1>10. ProvedBy(codes, u, pending[u].addr, n)
  BY <1>2, <1>3, <1>4 DEF ProvedBy, Asked
<1>11. AddrInv'
  BY <1>1, <1>2, <1>5, <1>7, <1>10 DEF AddrInv, ProvedBy
<1>12. \A v \in Users : v # u => email[v] # pending[u].addr
  BY <1>1, <1>5 DEF AddrInv, E!Taken, E!Exists
<1>13. OneOwner'
  BY <1>1, <1>7, <1>12 DEF OneOwner
<1> QED
  BY <1>1, <1>8, <1>9, <1>11, <1>13 DEF EmailInv

LEMMA ConfirmKeeps ==
  ASSUME EmailInv, NEW u \in Users, NEW n \in E!Known, E!ConfirmEmail(u, n) PROVE EmailInv'
<1>1. /\ pending[u] # E!NoRow /\ UNCHANGED <<life, lives>>
      /\ pending[u].attempts \in Nat /\ life \in [Users -> Nat] /\ lives \in [Users -> Nat]
  BY DEF E!ConfirmEmail, E!Waiting, EmailInv, EmailTypes, Row
<1>2. CASE /\ pending' = [pending EXCEPT ![u] = E!NoRow] /\ UNCHANGED <<email, mode, codes, proof>>
  BY <1>1, <1>2, ForgetKeeps
<1>3. CASE /\ pending[u].attempts < MaxTries /\ pending' = E!WrongTry(u)
           /\ codes' = [codes EXCEPT ![pending[u].code].tries = @ + 1]
           /\ UNCHANGED <<email, mode, proof>>
  BY <1>1, <1>3, WrongTryKeeps
<1>4. CASE /\ ~E!Taken(u, pending[u].addr) /\ n = pending[u].code
           /\ email' = [email EXCEPT ![u] = pending[u].addr]
           /\ mode' = [mode EXCEPT ![u] = IF @ < E!Notice THEN E!Notice ELSE @]
           /\ pending' = [pending EXCEPT ![u] = E!NoRow] /\ proof' = [proof EXCEPT ![u] = n]
           /\ UNCHANGED codes
  BY <1>1, <1>4, ProvedKeeps
<1>5. ~(pending[u].attempts >= MaxTries) => pending[u].attempts < MaxTries
  BY <1>1, EmailAssumption
<1> QED
  BY <1>2, <1>3, <1>4, <1>5 DEF E!ConfirmEmail

LEMMA ChooseModeKeeps ==
  ASSUME EmailInv, NEW u \in Users, NEW m \in E!Modes, E!ChooseEmailMode(u, m) PROVE EmailInv'
<1>1. EmailTypes /\ Tried(codes) /\ RowsInv /\ AddrInv /\ OneOwner
  BY DEF EmailInv
<1>2. /\ email[u] # E!NoAddr /\ mode' = [mode EXCEPT ![u] = m]
      /\ UNCHANGED <<life, lives, email, pending, codes, proof>> /\ m \in Nat
  BY DEF E!ChooseEmailMode, E!Modes
<1>3. EmailTypes' /\ \A v \in Users : v # u => mode'[v] = mode[v]
  BY <1>1, <1>2 DEF EmailTypes
<1> QED
  BY <1>1, <1>2, <1>3 DEF EmailInv, RowsInv, AddrInv, OneOwner, ProvedBy, Asked

\* EmailProved, for any accounts, addresses and codes: however the operations of several
\* lines, deletes and new owners of an id interleave, an address was proved with a code
\* that was mailed there for this owner of the account, within maxEmailCodeTries tries
\* (ConfirmEmail, StartEmailVerification, the cascade).
THEOREM AddressesAreProved == StoreSpec => []EmailProved
<1>1. StoreInit => EmailInv
  <2> SUFFICES ASSUME StoreInit PROVE EmailInv
    OBVIOUS
  <2>1. /\ life = [u \in Users |-> 0] /\ lives = [u \in Users |-> 0]
        /\ email = [u \in Users |-> E!NoAddr] /\ mode = [u \in Users |-> 0]
        /\ pending = [u \in Users |-> E!NoRow] /\ codes = <<>> /\ proof = [u \in Users |-> 0]
    BY DEF StoreInit, E!Init
  <2>2. E!NoRow \in Row
    BY DEF E!NoRow, Row, Places
  <2>3. E!NoAddr \in Places
    BY DEF Places
  <2>4. EmailTypes
    BY <2>1, <2>2, <2>3 DEF EmailTypes
  <2>5. Tried(codes)
    BY <2>1 DEF Tried
  <2> QED
    BY <2>1, <2>4, <2>5 DEF EmailInv, RowsInv, AddrInv, OneOwner
<1>2. EmailInv /\ [StoreNext]_<<part, vars, boardVars, fileVars, emailVars, limitVars>> => EmailInv'
  <2>1. EmailInv /\ UNCHANGED emailVars => EmailInv'
    BY DEF emailVars, EmailInv, EmailTypes, Tried, RowsInv, AddrInv, OneOwner, Asked, ProvedBy
  <2>2. ASSUME EmailInv, E!Next PROVE EmailInv'
    <3>1. PICK u \in Users :
            \/ E!CreateUser(u) \/ E!DeleteUser(u) \/ E!Expires(u) \/ E!RemoveEmail(u)
            \/ \E addr \in Addrs, mailed \in BOOLEAN : E!SetEmailAddress(u, addr, mailed)
            \/ \E n \in E!Known : E!ConfirmEmail(u, n)
            \/ \E m \in E!Modes : E!ChooseEmailMode(u, m)
      BY <2>2 DEF E!Next
    <3>2. life \in [Users -> Nat] /\ lives \in [Users -> Nat]
      BY <2>2 DEF EmailInv, EmailTypes
    <3>3. CASE E!DeleteUser(u)
      <4>1. life' = [life EXCEPT ![u] = 0] /\ lives' = lives /\ codes' = codes
        BY <3>3 DEF E!DeleteUser
      <4>2. life' \in [Users -> Nat] /\ \A v \in Users : v # u => life'[v] = life[v]
        BY <3>2, <4>1
      <4> QED
        BY <2>2, <3>2, <3>3, <4>1, <4>2, ForgetKeeps DEF E!DeleteUser, E!Cascade
    <3>4. CASE E!RemoveEmail(u)
      BY <2>2, <3>2, <3>4, ForgetKeeps DEF E!RemoveEmail
    <3> QED
      BY <2>2, <3>1, <3>3, <3>4, NewOwnerKeeps, ExpiresKeeps, AskKeepsAddresses, ConfirmKeeps, ChooseModeKeeps
  <2> QED
    BY <2>1, <2>2 DEF StoreNext
<1>3. EmailInv => EmailProved
  <2> SUFFICES ASSUME EmailInv PROVE EmailProved
    OBVIOUS
  <2>1. EmailTypes /\ Tried(codes) /\ RowsInv /\ AddrInv /\ OneOwner
    BY DEF EmailInv
  <2>2. E!TriesBounded
    <3>1. DOMAIN codes = 1..Len(codes)
      BY <2>1 DEF EmailTypes
    <3> QED
      BY <2>1, <3>1 DEF Tried, E!TriesBounded
  <2>3. ASSUME NEW u \in Users, email[u] # E!NoAddr
        PROVE LET c == codes[proof[u]]
              IN /\ c.mailed /\ c.addr = email[u] /\ c.user = u /\ c.life = life[u]
                 /\ ~E!Taken(u, email[u])
    <3>1. ~E!Taken(u, email[u])
      BY <2>1, <2>3 DEF OneOwner, E!Taken
    <3> QED
      BY <2>1, <2>3, <3>1 DEF AddrInv, ProvedBy
  <2> QED
    BY <2>1, <2>2, <2>3 DEF EmailProved, E!EmailProved, AddrInv
<1> QED
  BY <1>1, <1>2, <1>3, PTL DEF StoreSpec
====
