---- MODULE CallersProofs ----
(***************************************************************************)
(* Locking an account reaches every caller the node table shows, for any   *)
(* number of callers, accounts and concurrent sysop operations.            *)
(***************************************************************************)
EXTENDS Callers, TLAPS

\* Where a session is says what it has: its account from the login check on,
\* its node's account from setUser to release.
SessionShape ==
  \A c \in Conns :
    /\ pc[c] \in {"authed", "recorded", "online", "door"} => sess[c] # 0
    /\ pc[c] \in {"online", "door"} => shown[c] = sess[c]
    /\ shown[c] # 0 => pc[c] \in {"online", "door", "leaving"}

\* Only an operation that has looked has somebody to hang up, and an operation
\* that is under way is about an account.
OpShape ==
  \A o \in Ops : /\ op[o].stage \in {"idle", "lockKick", "deleteKick"} => op[o].victims = {}
                 /\ op[o].stage # "idle" => op[o].id # 0

\* The victims of an operation are on its account, or gone.
VictimsTheirs ==
  \A o \in Ops : \A c \in op[o].victims :
    \/ shown[c] = op[o].id /\ pc[c] \in {"online", "door", "leaving"}
    \/ pc[c] = "gone"

\* A lock whose kickUser is still to come.
LockPending(i) == \E o \in Ops : op[o].id = i /\ op[o].stage = "lockKick"

\* Between the login check and setUser on a locked account: only callers that
\* kickUser could not see.
UnshownSlipped ==
  \A i \in Ids, c \in Conns :
    Locked(i) /\ ~LockPending(i) /\ c \in Unshown(i) => c \in slipped

\* LockedOrSlipped, with Settled split into its two halves.
OnlineSlipped ==
  \A i \in Ids, c \in Conns :
    /\ Locked(i) /\ OnlineOn(c, i)
    /\ ~LockPending(i)
    /\ \A o \in Ops : c \notin op[o].victims
    => c \in slipped

IInv == TypeOK /\ SessionShape /\ OpShape /\ VictimsTheirs /\ UnshownSlipped /\ OnlineSlipped

\* It holds at the start.
LEMMA InitIInv == Init => IInv
BY CallersConstants
   DEF Init, IInv, TypeOK, SessionShape, OpShape, VictimsTheirs, UnshownSlipped, OnlineSlipped,
       Stages, OpStages, NoOp, OnlineOn, Unshown, Locked, Exists

-----------------------------------------------------------------------------
(* What callers do.                                                        *)

\* A caller's step that changes neither the accounts nor the operations, and
\* brings nobody past the login check of a locked account or onto a node.
LEMMA QuietStep ==
  ASSUME IInv, TypeOK', SessionShape', NEW c \in Conns,
         UNCHANGED <<users, op, slipped>>,
         \A d \in Conns \ {c} : pc'[d] = pc[d] /\ up'[d] = up[d] /\ sess'[d] = sess[d] /\ shown'[d] = shown[d],
         up'[c] => up[c] \/ pc'[c] \notin {"online", "door"},
         \A i \in Ids : c \in Unshown(i)' => c \in Unshown(i) \/ ~Locked(i),
         pc'[c] \in {"online", "door"} => pc[c] \in {"online", "door"} /\ sess'[c] = sess[c],
         pc[c] = "gone" => pc'[c] = "gone",
         shown[c] # 0 => (shown'[c] = shown[c] /\ pc'[c] \in {"online", "door", "leaving"}) \/ pc'[c] = "gone"
  PROVE  IInv'
<1> USE DEF IInv
<1>1. OpShape'
  BY DEF OpShape
<1>2. VictimsTheirs'
  <2> SUFFICES ASSUME NEW o \in Ops, NEW d \in op[o].victims
               PROVE  \/ shown'[d] = op[o].id /\ pc'[d] \in {"online", "door", "leaving"}
                      \/ pc'[d] = "gone"
    BY DEF VictimsTheirs
  <2>1. d \in Conns /\ op[o].id \in Ids \union {0}
    BY DEF TypeOK
  <2>2. op[o].id # 0
    BY DEF OpShape
  <2> QED
    BY <2>1, <2>2 DEF VictimsTheirs
<1>3. \A i \in Ids : Locked(i)' = Locked(i) /\ LockPending(i)' = LockPending(i)
  BY DEF Locked, Exists, LockPending
<1>4. UnshownSlipped'
  BY <1>3 DEF UnshownSlipped, Unshown
<1>5. OnlineSlipped'
  BY <1>3 DEF OnlineSlipped, OnlineOn
<1> QED
  BY <1>1, <1>2, <1>4, <1>5

\* Connecting, with or without a key the server knows.
LEMMA ConnectKeeps ==
  ASSUME IInv, NEW c \in Conns, Connect(c) \/ \E i \in Ids : MatchKey(c, i)
  PROVE  IInv'
<1>1. /\ pc[c] = "away" /\ pc' = [pc EXCEPT ![c] = "login"]
      /\ up' = [up EXCEPT ![c] = TRUE]
      /\ UNCHANGED <<users, sess, shown, op, slipped>>
  BY DEF Connect, MatchKey
<1>2. TypeOK'
  <2>1. keyUser' \in [Conns -> Ids \union {0}]
    BY DEF IInv, Connect, MatchKey, TypeOK
  <2>2. up' \in [Conns -> BOOLEAN]
    BY <1>1 DEF IInv, TypeOK
  <2> QED
    BY <1>1, <2>1, <2>2 DEF IInv, TypeOK, Stages
<1>3. SessionShape'
  BY <1>1 DEF IInv, TypeOK, SessionShape
<1>4. \A d \in Conns \ {c} : pc'[d] = pc[d] /\ up'[d] = up[d] /\ sess'[d] = sess[d] /\ shown'[d] = shown[d]
  BY <1>1 DEF IInv, TypeOK
<1>5. pc'[c] = "login" /\ shown[c] = 0
  BY <1>1 DEF IInv, TypeOK, SessionShape
<1>6. \A i \in Ids : c \notin Unshown(i)'
  BY <1>5 DEF Unshown
<1> QED
  BY <1>1, <1>2, <1>3, <1>4, <1>5, <1>6, QuietStep

\* Past the login check, by password or by key.
LEMMA LoginKeeps ==
  ASSUME IInv, NEW c \in Conns, KeyLogin(c) \/ \E i \in Ids : CheckPassword(c, i)
  PROVE  IInv'
<1>1. CASE KeyLogin(c) /\ ~Admit(keyUser[c])
  <2>1. /\ pc[c] = "login" /\ pc' = [pc EXCEPT ![c] = "leaving"]
        /\ UNCHANGED <<users, up, sess, shown, keyUser, op, slipped>>
    BY <1>1 DEF KeyLogin
  <2>2. TypeOK' /\ SessionShape'
    BY <2>1 DEF IInv, TypeOK, SessionShape, Stages
  <2> QED
    BY <2>1, <2>2, QuietStep DEF IInv, TypeOK, SessionShape, Unshown
<1>2. ASSUME NEW i \in Ids, Admit(i), SignIn(c, i), pc[c] = "login",
             UNCHANGED <<users, up, shown, keyUser, op, slipped>>
      PROVE  IInv'
  <2>1. TypeOK' /\ SessionShape'
    BY <1>2, CallersConstants DEF IInv, TypeOK, SessionShape, Stages, SignIn, Ids
  <2>2. \A j \in Ids : c \in Unshown(j)' => ~Locked(j)
    BY <1>2 DEF IInv, TypeOK, Unshown, SignIn, Admit
  <2> QED
    BY <1>2, <2>1, <2>2, QuietStep DEF IInv, TypeOK, SessionShape, SignIn
<1>3. CASE KeyLogin(c) /\ Admit(keyUser[c])
  <2>1. keyUser[c] \in Ids
    BY <1>3 DEF KeyLogin, IInv, TypeOK
  <2> QED
    BY <1>2, <1>3, <2>1 DEF KeyLogin
<1>4. CASE \E i \in Ids : CheckPassword(c, i)
  BY <1>2, <1>4 DEF CheckPassword
<1> QED
  BY <1>1, <1>3, <1>4

\* afterLogin's RecordLogin, waiting in a door, and every way a session ends.
LEMMA LeaveKeeps ==
  ASSUME IInv, NEW c \in Conns,
         \/ RecordLogin(c) \/ RefreshUser(c) \/ Leave(c) \/ Release(c)
         \/ DoorWaits(c) \/ DoorOver(c)
  PROVE  IInv'
<1>1. CASE RecordLogin(c)
  <2>1. TypeOK' /\ SessionShape'
    BY <1>1 DEF IInv, TypeOK, SessionShape, Stages, RecordLogin
  <2> QED
    BY <1>1, <2>1, QuietStep DEF IInv, TypeOK, SessionShape, Unshown, RecordLogin
<1>2. CASE RefreshUser(c) \/ Leave(c)
  <2>1. /\ pc[c] \in {"login", "authed", "online"} /\ pc' = [pc EXCEPT ![c] = "leaving"]
        /\ UNCHANGED <<users, up, sess, shown, keyUser, op, slipped>>
    BY <1>2 DEF RefreshUser, Leave
  <2>2. TypeOK' /\ SessionShape'
    BY <2>1 DEF IInv, TypeOK, SessionShape, Stages
  <2> QED
    BY <2>1, <2>2, QuietStep DEF IInv, TypeOK, SessionShape, Unshown
<1>3. CASE Release(c)
  <2>1. up' \in [Conns -> BOOLEAN]
    BY <1>3 DEF IInv, TypeOK, Release
  <2>2. TypeOK' /\ SessionShape'
    BY <1>3, <2>1 DEF IInv, TypeOK, SessionShape, Stages, Release
  <2>3. \A d \in Conns \ {c} : pc'[d] = pc[d] /\ up'[d] = up[d] /\ sess'[d] = sess[d] /\ shown'[d] = shown[d]
    BY <1>3 DEF IInv, TypeOK, Release
  <2>4. pc'[c] = "gone" /\ UNCHANGED <<users, op, slipped>>
    BY <1>3 DEF IInv, TypeOK, Release
  <2>5. \A i \in Ids : c \notin Unshown(i)'
    BY <2>4 DEF Unshown
  <2> QED
    BY <2>2, <2>3, <2>4, <2>5, QuietStep
<1>4. CASE DoorWaits(c) \/ DoorOver(c)
  <2>1. PICK x \in {"online", "door", "leaving"} :
          /\ pc[c] \in {"online", "door"} /\ pc' = [pc EXCEPT ![c] = x]
          /\ UNCHANGED <<users, up, sess, shown, keyUser, op, slipped>>
    BY <1>4 DEF DoorWaits, DoorOver
  <2>2. TypeOK' /\ SessionShape'
    BY <2>1 DEF IInv, TypeOK, SessionShape, Stages
  <2> QED
    BY <2>1, <2>2, QuietStep DEF IInv, TypeOK, SessionShape, Unshown
<1> QED
  BY <1>1, <1>2, <1>3, <1>4

\* setUser shows the caller: whoever was unshown on a locked account had slipped.
LEMMA SetUserKeeps ==
  ASSUME IInv, NEW c \in Conns, SetUser(c)
  PROVE  IInv'
<1> USE DEF IInv
<1>1. TypeOK' /\ SessionShape'
  BY DEF TypeOK, SessionShape, Stages, SetUser
<1>2. OpShape'
  BY DEF OpShape, SetUser
<1>3. VictimsTheirs'
  BY DEF VictimsTheirs, SessionShape, OpShape, TypeOK, SetUser
<1>4. \A i \in Ids : Locked(i)' = Locked(i) /\ LockPending(i)' = LockPending(i)
  BY DEF Locked, Exists, LockPending, SetUser
<1>5. UnshownSlipped'
  BY <1>4 DEF UnshownSlipped, Unshown, SetUser, TypeOK
<1>6. OnlineSlipped'
  BY <1>4 DEF OnlineSlipped, OnlineOn, UnshownSlipped, Unshown, SetUser, TypeOK
<1> QED
  BY <1>1, <1>2, <1>3, <1>5, <1>6

\* A new account, which is not locked, and a caller past the check on it.
LEMMA RegisterKeeps ==
  ASSUME IInv, NEW c \in Conns, NEW i \in Ids, Register(c, i)
  PROVE  IInv'
<1> USE DEF IInv
<1>1. TypeOK'
  <2>1. users' \in [Ids -> User \union {None}]
    BY CallersConstants DEF TypeOK, Register, User
  <2>2. pc' \in [Conns -> Stages] /\ sess' \in [Conns -> Ids \union {0}]
    BY DEF TypeOK, Register, SignIn, Stages
  <2> QED
    BY <2>1, <2>2 DEF TypeOK, Register
<1>2. SessionShape'
  BY CallersConstants DEF TypeOK, SessionShape, Register, SignIn, Ids
<1>3. OpShape' /\ VictimsTheirs'
  BY DEF OpShape, VictimsTheirs, TypeOK, Register, SignIn
<1>4. ~Locked(i)' /\ \A j \in Ids : Locked(j)' => Locked(j)
  BY DEF Locked, Exists, Register, TypeOK
<1>5. \A j \in Ids : LockPending(j)' = LockPending(j)
  BY DEF LockPending, Register
<1>6. UnshownSlipped'
  BY <1>4, <1>5 DEF UnshownSlipped, Unshown, Register, SignIn, TypeOK
<1>7. OnlineSlipped'
  BY <1>4, <1>5 DEF OnlineSlipped, OnlineOn, Register, SignIn, TypeOK
<1> QED
  BY <1>1, <1>2, <1>3, <1>6, <1>7

\* A key on the account changes nobody's lock.
LEMMA AddSSHKeyKeeps ==
  ASSUME IInv, NEW c \in Conns, AddSSHKey(c)
  PROVE  IInv'
<1> USE DEF IInv
<1>1. sess[c] \in Ids /\ users[sess[c]] \in User
  BY DEF SessionShape, TypeOK, AddSSHKey, Exists
<1>2. users' \in [Ids -> User \union {None}] /\ users'[sess[c]].locked = users[sess[c]].locked
  BY <1>1 DEF TypeOK, AddSSHKey, User
<1>3. TypeOK'
  BY <1>2 DEF TypeOK, AddSSHKey
<1>4. \A j \in Ids : (Locked(j)' => Locked(j)) /\ LockPending(j)' = LockPending(j)
  BY <1>1, <1>2 DEF Locked, Exists, LockPending, AddSSHKey, TypeOK
<1>5. SessionShape' /\ OpShape' /\ VictimsTheirs'
  BY DEF SessionShape, OpShape, VictimsTheirs, AddSSHKey
<1>6. UnshownSlipped' /\ OnlineSlipped'
  BY <1>4 DEF UnshownSlipped, OnlineSlipped, Unshown, OnlineOn, AddSSHKey
<1> QED
  BY <1>3, <1>5, <1>6

-----------------------------------------------------------------------------
(* What sysops do.                                                         *)

\* Locking leaves a kickUser to do, so nothing has to hold yet.
LEMMA LockKeeps ==
  ASSUME IInv, NEW o \in Ops, NEW i \in Ids, Lock(o, i)
  PROVE  IInv'
<1> USE DEF IInv
<1>1. users[i] \in User
  BY DEF TypeOK, Lock, Exists
<1>2. TypeOK'
  <2>1. users' \in [Ids -> User \union {None}]
    BY <1>1 DEF TypeOK, Lock, User
  <2>2. op' \in [Ops -> [stage : OpStages, id : Ids \union {0}, victims : SUBSET Conns]]
    BY DEF TypeOK, Lock, OpStages
  <2> QED
    BY <2>1, <2>2 DEF TypeOK, Lock
<1>3. SessionShape'
  BY DEF SessionShape, Lock
<1>4. OpShape' /\ VictimsTheirs'
  BY CallersConstants DEF OpShape, VictimsTheirs, TypeOK, Lock, Ids
<1>5. LockPending(i)' /\ \A j \in Ids : LockPending(j) => LockPending(j)'
  BY DEF LockPending, Lock, TypeOK
<1>6. \A j \in Ids : j # i => Locked(j)' = Locked(j)
  BY DEF Locked, Exists, Lock, TypeOK
<1>7. \A c \in Conns : (\A p \in Ops : c \notin op'[p].victims) => \A p \in Ops : c \notin op[p].victims
  BY DEF OpShape, Lock, TypeOK
<1>8. UnshownSlipped'
  BY <1>5, <1>6 DEF UnshownSlipped, Unshown, Lock
<1>9. OnlineSlipped'
  BY <1>5, <1>6, <1>7 DEF OnlineSlipped, OnlineOn, Lock
<1> QED
  BY <1>2, <1>3, <1>4, <1>8, <1>9

\* Unlocking, and starting or ending an operation, only takes obligations away.
LEMMA UnlockKeeps ==
  ASSUME IInv, NEW o \in Ops, NEW i \in Ids, Unlock(o, i)
  PROVE  IInv'
<1> USE DEF IInv
<1>1. users[i] \in User
  BY DEF TypeOK, Unlock, Locked, Exists
<1>2. users' \in [Ids -> User \union {None}] /\ ~users'[i].locked
  BY <1>1 DEF TypeOK, Unlock, User
<1>3. TypeOK'
  BY <1>2 DEF TypeOK, Unlock
<1>4. \A j \in Ids : (Locked(j)' => Locked(j)) /\ LockPending(j)' = LockPending(j)
  BY <1>2 DEF Locked, Exists, LockPending, Unlock, TypeOK
<1>5. SessionShape' /\ OpShape' /\ VictimsTheirs'
  BY DEF SessionShape, OpShape, VictimsTheirs, Unlock
<1>6. UnshownSlipped' /\ OnlineSlipped'
  BY <1>4 DEF UnshownSlipped, OnlineSlipped, Unshown, OnlineOn, Unlock
<1> QED
  BY <1>3, <1>5, <1>6

\* Operations that start or end with nobody left to hang up.
LEMMA StartEndKeeps ==
  ASSUME IInv, NEW o \in Ops,
         FinishLock(o) \/ FinishDelete(o) \/ \E i \in Ids : StartDelete(o, i)
  PROVE  IInv'
<1> USE DEF IInv
<1>1. UNCHANGED <<pc, up, sess, shown, keyUser, slipped>>
  BY DEF FinishLock, FinishDelete, StartDelete
<1>2. /\ op' \in [Ops -> [stage : OpStages, id : Ids \union {0}, victims : SUBSET Conns]]
      /\ op'[o].victims = {} /\ op'[o].stage \in {"idle", "deleteKick"}
      /\ op'[o].stage # "idle" => op'[o].id # 0
      /\ \A p \in Ops \ {o} : op'[p] = op[p]
  <2>1. CASE op' = [op EXCEPT ![o] = NoOp]
    BY <2>1 DEF TypeOK, NoOp, OpStages
  <2>2. CASE \E i \in Ids : StartDelete(o, i)
    BY <2>2, CallersConstants DEF StartDelete, TypeOK, OpStages, Ids
  <2> QED
    BY <2>1, <2>2 DEF FinishLock, FinishDelete
<1>3. op[o].victims = {} /\ op[o].stage # "lockKick"
  BY DEF FinishLock, FinishDelete, StartDelete, OpShape
<1>4. users' \in [Ids -> User \union {None}] /\ \A j \in Ids : users'[j] = users[j] \/ users'[j] = None
  BY DEF FinishLock, FinishDelete, StartDelete, TypeOK
<1>5. TypeOK'
  BY <1>1, <1>2, <1>4 DEF TypeOK
<1>6. SessionShape' /\ OpShape' /\ VictimsTheirs'
  BY <1>1, <1>2 DEF SessionShape, OpShape, VictimsTheirs, TypeOK
<1>7. \A j \in Ids : (Locked(j)' => Locked(j)) /\ (LockPending(j) => LockPending(j)')
  BY <1>2, <1>3, <1>4 DEF Locked, Exists, LockPending, TypeOK
<1>8. \A c \in Conns : (\A p \in Ops : c \notin op'[p].victims) => \A p \in Ops : c \notin op[p].victims
  BY <1>2, <1>3 DEF TypeOK
<1>9. UnshownSlipped' /\ OnlineSlipped'
  BY <1>1, <1>7, <1>8 DEF UnshownSlipped, OnlineSlipped, Unshown, OnlineOn
<1> QED
  BY <1>5, <1>6, <1>9

\* kickUser: whoever is shown becomes a victim, whoever is not has slipped.
LEMMA KickUserKeeps ==
  ASSUME IInv, NEW o \in Ops, KickUser(o)
  PROVE  IInv'
<1> USE DEF IInv
<1> DEFINE k == op[o].id
<1>1. k \in Ids /\ k # 0 /\ op[o].victims = {}
  BY DEF KickUser, OpShape, TypeOK
<1>2. PICK st \in {"lockHang", "deleteHang"} :
        op' = [op EXCEPT ![o] = [stage |-> st, id |-> k, victims |-> OnNode(k)]]
  BY DEF KickUser
<1>3. OnNode(k) \subseteq Conns /\ Unshown(k) \subseteq Conns
  BY DEF OnNode, Unshown
<1>4. UNCHANGED <<users, pc, up, sess, shown, keyUser>> /\ slipped' = slipped \union Unshown(k)
  BY DEF KickUser
<1>5. TypeOK'
  <2>1. op' \in [Ops -> [stage : OpStages, id : Ids \union {0}, victims : SUBSET Conns]]
    BY <1>1, <1>2, <1>3 DEF TypeOK, OpStages
  <2> QED
    BY <1>3, <1>4, <2>1 DEF TypeOK
<1>6. SessionShape'
  BY <1>4 DEF SessionShape
<1>7. OpShape'
  BY <1>1, <1>2 DEF OpShape, TypeOK
<1>8. VictimsTheirs'
  <2>1. \A c \in OnNode(k) : shown[c] = k /\ pc[c] \in {"online", "door", "leaving"}
    BY <1>1 DEF OnNode, SessionShape
  <2> QED
    BY <1>2, <1>4, <2>1 DEF VictimsTheirs, TypeOK
<1>9. /\ \A j \in Ids : Locked(j)' = Locked(j)
      /\ \A j \in Ids : j # k => LockPending(j)' = LockPending(j)
  BY <1>2, <1>4 DEF Locked, Exists, LockPending, TypeOK
<1>10. UnshownSlipped'
  BY <1>4, <1>9 DEF UnshownSlipped, Unshown
<1>11. OnlineSlipped'
  <2> SUFFICES ASSUME NEW i \in Ids, NEW c \in Conns, Locked(i), OnlineOn(c, i),
                      ~LockPending(i)', \A p \in Ops : c \notin op'[p].victims
               PROVE  c \in slipped'
    BY <1>4, <1>9 DEF OnlineSlipped, OnlineOn
  <2>1. c \notin OnNode(k)
    BY <1>2 DEF TypeOK
  <2>2. i # k
    BY <2>1 DEF OnNode, OnlineOn, SessionShape
  <2>3. \A p \in Ops : c \notin op[p].victims
    BY <1>1, <1>2 DEF TypeOK
  <2> QED
    BY <1>4, <1>9, <2>2, <2>3 DEF OnlineSlipped
<1> QED
  BY <1>5, <1>6, <1>7, <1>8, <1>10, <1>11

\* Hanging one victim up: the line is closed in the same step.
LEMMA HangUpKeeps ==
  ASSUME IInv, NEW o \in Ops, NEW c \in Conns, HangUp(o, c)
  PROVE  IInv'
<1> USE DEF IInv
<1>1. /\ c \in op[o].victims
      /\ op' \in [Ops -> [stage : OpStages, id : Ids \union {0}, victims : SUBSET Conns]]
      /\ op'[o].stage = op[o].stage /\ op'[o].id = op[o].id /\ op'[o].victims = op[o].victims \ {c}
      /\ \A p \in Ops \ {o} : op'[p] = op[p]
      /\ up' = [up EXCEPT ![c] = FALSE]
      /\ UNCHANGED <<users, pc, sess, shown, keyUser, slipped>>
  BY DEF HangUp, TypeOK
<1>2. TypeOK'
  <2>1. up' \in [Conns -> BOOLEAN]
    BY <1>1 DEF TypeOK
  <2> QED
    BY <1>1, <2>1 DEF TypeOK
<1>3. SessionShape'
  BY <1>1 DEF SessionShape
<1>4. OpShape' /\ VictimsTheirs'
  <2>1. \A p \in Ops : /\ op'[p].stage = op[p].stage /\ op'[p].id = op[p].id
                       /\ op'[p].victims \subseteq op[p].victims
    BY <1>1
  <2>2. OpShape'
    BY <2>1 DEF OpShape
  <2>3. VictimsTheirs'
    BY <1>1, <2>1 DEF VictimsTheirs
  <2> QED
    BY <2>2, <2>3
<1>5. \A j \in Ids : Locked(j)' = Locked(j) /\ LockPending(j)' = LockPending(j)
  BY <1>1 DEF Locked, Exists, LockPending, TypeOK
<1>6. UnshownSlipped'
  BY <1>1, <1>5 DEF UnshownSlipped, Unshown
<1>7. OnlineSlipped'
  <2> SUFFICES ASSUME NEW i \in Ids, NEW d \in Conns, Locked(i), OnlineOn(d, i)',
                      ~LockPending(i), \A p \in Ops : d \notin op'[p].victims
               PROVE  d \in slipped
    BY <1>1, <1>5 DEF OnlineSlipped
  <2>1. d # c
    BY <1>1 DEF OnlineOn, TypeOK
  <2>2. OnlineOn(d, i)
    BY <1>1, <2>1 DEF OnlineOn, TypeOK
  <2>3. \A p \in Ops : d \notin op[p].victims
    BY <1>1, <2>1 DEF TypeOK
  <2> QED
    BY <2>2, <2>3 DEF OnlineSlipped
<1> QED
  BY <1>2, <1>3, <1>4, <1>6, <1>7

\* Every step of Next keeps the inductive invariant.
LEMMA StepIInv == IInv /\ [Next]_vars => IInv'
<1> SUFFICES ASSUME IInv, [Next]_vars PROVE IInv'
  OBVIOUS
<1>1. CASE \E c \in Conns : CallerStep(c)
  BY <1>1, ConnectKeeps, LoginKeeps, LeaveKeeps, SetUserKeeps, RegisterKeeps, AddSSHKeyKeeps
     DEF CallerStep
<1>2. CASE \E o \in Ops : OpStep(o)
  BY <1>2, LockKeeps, UnlockKeeps, StartEndKeeps, KickUserKeeps, HangUpKeeps DEF OpStep
<1>3. CASE UNCHANGED vars
  BY <1>3 DEF vars, IInv, TypeOK, SessionShape, OpShape, VictimsTheirs, UnshownSlipped,
              OnlineSlipped, OnlineOn, Unshown, Locked, Exists, LockPending
<1> QED
  BY <1>1, <1>2, <1>3 DEF Next

-----------------------------------------------------------------------------
(* The theorems.                                                           *)

\* Callers always satisfies the inductive invariant.
THEOREM Inductive == Spec => []IInv
<1>1. Init => IInv
  BY InitIInv
<1>2. IInv /\ [Next]_vars => IInv'
  BY StepIInv
<1> QED
  BY <1>1, <1>2, PTL DEF Spec

\* Types.
THEOREM TypeCorrect == Spec => []TypeOK
<1>1. IInv => TypeOK
  BY DEF IInv
<1> QED
  BY <1>1, Inductive, PTL

\* A lock that has been carried out misses only callers in the gap between the
\* login check and setUser.
THEOREM LockReachesShown == Spec => []LockedOrSlipped
<1>1. IInv => LockedOrSlipped
  BY DEF IInv, OnlineSlipped, LockedOrSlipped, Settled, LockPending
<1> QED
  BY <1>1, Inductive, PTL

\* Nobody is hung up for someone else's lock or removal.
THEOREM HangupsTheirs == Spec => []NoStrayHangup
<1>1. IInv => NoStrayHangup
  BY DEF IInv, VictimsTheirs, NoStrayHangup
<1> QED
  BY <1>1, Inductive, PTL
====
