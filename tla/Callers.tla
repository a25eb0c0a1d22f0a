---- MODULE Callers ----
(***************************************************************************)
(* Who is on a node: signing in, and what a sysop's lock or delete does to *)
(* callers who are signing in or online at that moment.                    *)
(*                                                                         *)
(* Sources: internal/bbs/login.go (login, checkPassword, keyLogin,         *)
(* register, afterLogin), session.go (run, refreshUser), menu.go           *)
(* (mainMenu), node.go (setUser, kickUser, hangUpAll), sysop_users.go and  *)
(* admin.go (lock, delete), ssh.go (the key check), sshkeys.go and         *)
(* internal/store/users.go.                                                *)
(*                                                                         *)
(* A session keeps the id of its account from the password or key check    *)
(* on; other parts of the program see it only once afterLogin has written  *)
(* it to the node (setUser).  Account ids are SQLite row ids: a new row    *)
(* gets the highest id in use plus one.  The sysops who act are accounts   *)
(* of their own, outside Persons, with lower ids: Ids counts from the      *)
(* first id after theirs.                                                  *)
(***************************************************************************)
EXTENDS Integers

CONSTANTS
  Conns,     \* connections, each used once
  Persons,   \* people who call and own accounts
  PersonOf,  \* who is at the other end of a connection
  Ops,       \* sysop operations that can be under way at once (BBS and web)
  MaxId,     \* bound: highest account id
  None       \* no account

ASSUME CallersConstants ==
  /\ PersonOf \in [Conns -> Persons]
  /\ MaxId \in Nat \ {0}
  /\ None \notin [owner : Persons, locked : BOOLEAN, key : BOOLEAN]

VARIABLES
  users,    \* the users table: who owns each id, is it locked, has it an SSH key
  pc,       \* where each session is
  up,       \* the transport is open
  sess,     \* session.user.ID, 0 before login
  shown,    \* node.userID, 0 until setUser and after the node is released
  keyUser,  \* the id an SSH key matched during the handshake, 0 if none
  op,       \* what each sysop operation is doing
  slipped   \* history: callers who were past the login check but not yet shown
            \* on their node when a kickUser for their account looked

vars == <<users, pc, up, sess, shown, keyUser, op, slipped>>

Ids     == 1..MaxId
User    == [owner : Persons, locked : BOOLEAN, key : BOOLEAN]
NoOp    == [stage |-> "idle", id |-> 0, victims |-> {}]
Exists(i) == users[i] # None
Locked(i) == Exists(i) /\ users[i].locked

\* The row id SQLite gives the next account: one more than the highest.
NextId(i) ==
  /\ \A j \in Ids : j >= i => ~Exists(j)
  /\ \A j \in Ids : j = i - 1 => Exists(j)

\* The server starts with the accounts an earlier run left, one for each person.
Init ==
  /\ users \in [Ids -> User \union {None}]
  /\ \A i, j \in Ids : Exists(i) /\ Exists(j) /\ i # j => users[i].owner # users[j].owner
  /\ pc = [c \in Conns |-> "away"]
  /\ up = [c \in Conns |-> FALSE]
  /\ sess = [c \in Conns |-> 0]
  /\ shown = [c \in Conns |-> 0]
  /\ keyUser = [c \in Conns |-> 0]
  /\ op = [o \in Ops |-> NoOp]
  /\ slipped = {}

-----------------------------------------------------------------------------
(* Signing in.                                                             *)

\* A caller connects and gets a node, without a key the server knows.
Connect(c) ==
  /\ pc[c] = "away"
  /\ pc' = [pc EXCEPT ![c] = "login"]
  /\ up' = [up EXCEPT ![c] = TRUE]
  /\ UNCHANGED <<users, sess, shown, keyUser, op, slipped>>

\* The SSH handshake matches a registered key and keeps the account's id; the
\* session starts later.
MatchKey(c, i) ==
  /\ pc[c] = "away"
  /\ Exists(i) /\ users[i].owner = PersonOf[c] /\ users[i].key
  /\ keyUser' = [keyUser EXCEPT ![c] = i]
  /\ pc' = [pc EXCEPT ![c] = "login"]
  /\ up' = [up EXCEPT ![c] = TRUE]
  /\ UNCHANGED <<users, sess, shown, op, slipped>>

\* The account is settled: s.user = u, and run returns from login.
SignIn(c, i) ==
  /\ sess' = [sess EXCEPT ![c] = i]
  /\ pc' = [pc EXCEPT ![c] = "authed"]

\* Mutant: the right password is enough.
AdmitLocked(i) == Exists(i)

\* checkPassword and keyLogin let a caller into accounts that are not locked.
Admit(i) == Exists(i) /\ ~Locked(i)

\* login: the right password for an account that is not locked. A wrong one, or
\* a locked account, leaves the caller at the prompt.
CheckPassword(c, i) ==
  /\ pc[c] = "login" /\ keyUser[c] = 0
  /\ Admit(i) /\ users[i].owner = PersonOf[c]
  /\ SignIn(c, i)
  /\ UNCHANGED <<users, up, shown, keyUser, op, slipped>>

\* keyLogin: the account the handshake matched, if it still exists and is not
\* locked; otherwise the session is over.
KeyLogin(c) ==
  /\ pc[c] = "login" /\ keyUser[c] # 0
  /\ \/ /\ Admit(keyUser[c])
        /\ SignIn(c, keyUser[c])
     \/ /\ ~Admit(keyUser[c])
        /\ pc' = [pc EXCEPT ![c] = "leaving"]
        /\ UNCHANGED sess
  /\ UNCHANGED <<users, up, shown, keyUser, op, slipped>>

\* register: someone without an account gets one (CreateUser).
Register(c, i) ==
  /\ pc[c] = "login" /\ keyUser[c] = 0
  /\ \A j \in Ids : Exists(j) => users[j].owner # PersonOf[c]
  /\ NextId(i)
  /\ users' = [users EXCEPT ![i] = [owner |-> PersonOf[c], locked |-> FALSE, key |-> FALSE]]
  /\ SignIn(c, i)
  /\ UNCHANGED <<up, shown, keyUser, op, slipped>>

\* afterLogin: RecordLogin reloads the account by id, or ends the session.
RecordLogin(c) ==
  /\ pc[c] = "authed"
  /\ pc' = [pc EXCEPT ![c] = IF Exists(sess[c]) THEN "recorded" ELSE "leaving"]
  /\ UNCHANGED <<users, up, sess, shown, keyUser, op, slipped>>

\* afterLogin, next line: node.setUser. Only now can kickUser find the caller.
SetUser(c) ==
  /\ pc[c] = "recorded"
  /\ shown' = [shown EXCEPT ![c] = sess[c]]
  /\ pc' = [pc EXCEPT ![c] = "online"]
  /\ UNCHANGED <<users, up, sess, keyUser, op, slipped>>

\* mainMenu: refreshUser ends the session when the account is gone, and looks at
\* nothing else.
RefreshUser(c) ==
  /\ pc[c] = "online"
  /\ ~Exists(sess[c])
  /\ pc' = [pc EXCEPT ![c] = "leaving"]
  /\ UNCHANGED <<users, up, sess, shown, keyUser, op, slipped>>

\* Settings: the caller adds an SSH key to the account (AddSSHKey).
AddSSHKey(c) ==
  /\ pc[c] = "online"
  /\ Exists(sess[c])
  /\ users[sess[c]].owner = PersonOf[c]
  /\ users' = [users EXCEPT ![sess[c]].key = TRUE]
  /\ UNCHANGED <<pc, up, sess, shown, keyUser, op, slipped>>

\* The session waits for the end of a door's output (bridgeDoor), which is no
\* read of the caller's line and which a process the door left behind can hold.
DoorWaits(c) ==
  /\ pc[c] = "online"
  /\ pc' = [pc EXCEPT ![c] = "door"]
  /\ UNCHANGED <<users, up, sess, shown, keyUser, op, slipped>>

\* The output has ended: back to the menus, or out when the line is closed.
DoorOver(c) ==
  /\ pc[c] = "door"
  /\ pc' = [pc EXCEPT ![c] = IF up[c] THEN "online" ELSE "leaving"]
  /\ UNCHANGED <<users, up, sess, shown, keyUser, op, slipped>>

\* The session returns: gave up, logged off, or a read failed; keyLogin waits for
\* a key press after the account is settled, and that read can fail too.
Leave(c) ==
  /\ pc[c] \in {"login", "online"} \/ (pc[c] = "authed" /\ keyUser[c] # 0)
  /\ pc' = [pc EXCEPT ![c] = "leaving"]
  /\ UNCHANGED <<users, up, sess, shown, keyUser, op, slipped>>

\* nodes.release and the transport's Close.
Release(c) ==
  /\ pc[c] = "leaving"
  /\ pc' = [pc EXCEPT ![c] = "gone"]
  /\ up' = [up EXCEPT ![c] = FALSE]
  /\ shown' = [shown EXCEPT ![c] = 0]
  /\ UNCHANGED <<users, sess, keyUser, op, slipped>>

-----------------------------------------------------------------------------
(* What a sysop does, from the BBS or from the web.                        *)

\* store.SetLocked; kickUser follows when it locks.
Lock(o, i) ==
  /\ op[o].stage = "idle"
  /\ Exists(i)
  /\ users' = [users EXCEPT ![i].locked = TRUE]
  /\ op' = [op EXCEPT ![o] = [stage |-> "lockKick", id |-> i, victims |-> {}]]
  /\ UNCHANGED <<pc, up, sess, shown, keyUser, slipped>>

Unlock(o, i) ==
  /\ op[o].stage = "idle"
  /\ Locked(i)
  /\ users' = [users EXCEPT ![i].locked = FALSE]
  /\ UNCHANGED <<pc, up, sess, shown, keyUser, op, slipped>>

\* Deleting hangs the caller up first and removes the account afterwards.
StartDelete(o, i) ==
  /\ op[o].stage = "idle"
  /\ Exists(i)
  /\ op' = [op EXCEPT ![o] = [stage |-> "deleteKick", id |-> i, victims |-> {}]]
  /\ UNCHANGED <<users, pc, up, sess, shown, keyUser, slipped>>

\* Sessions past the login check that the node table does not show yet.
Unshown(i) == {c \in Conns : sess[c] = i /\ pc[c] \in {"authed", "recorded"}}

\* Mutant: every signed-in node instead of this account's.
AnyNode(i) == {c \in Conns : shown[c] # 0}

\* The nodes that show this account.
OnNode(i) == {c \in Conns : shown[c] = i}

\* kickUser, under the table's lock: collect the nodes this account is on.
KickUser(o) ==
  /\ op[o].stage \in {"lockKick", "deleteKick"}
  /\ op' = [op EXCEPT ![o] =
              [stage   |-> IF op[o].stage = "lockKick" THEN "lockHang" ELSE "deleteHang",
               id      |-> op[o].id,
               victims |-> OnNode(op[o].id)]]
  /\ slipped' = slipped \union Unshown(op[o].id)
  /\ UNCHANGED <<users, pc, up, sess, shown, keyUser>>

\* Mutant: the message goes out, the line stays open.
HangUpLost(o, c) ==
  /\ c \in op[o].victims
  /\ op' = [op EXCEPT ![o].victims = @ \ {c}]
  /\ UNCHANGED <<users, pc, up, sess, shown, keyUser, slipped>>

\* hangUpAll, outside the lock, one goroutine per node.
HangUp(o, c) ==
  /\ c \in op[o].victims
  /\ op' = [op EXCEPT ![o].victims = @ \ {c}]
  /\ up' = [up EXCEPT ![c] = FALSE]
  /\ UNCHANGED <<users, pc, sess, shown, keyUser, slipped>>

FinishLock(o) ==
  /\ op[o].stage = "lockHang"
  /\ op[o].victims = {}
  /\ op' = [op EXCEPT ![o] = NoOp]
  /\ UNCHANGED <<users, pc, up, sess, shown, keyUser, slipped>>

\* store.DeleteUser; the account's keys go with it. It may be gone already, and
\* the delete may fail, after the callers have been hung up.
FinishDelete(o) ==
  /\ op[o].stage = "deleteHang"
  /\ op[o].victims = {}
  /\ users' = [users EXCEPT ![op[o].id] = None] \/ UNCHANGED users
  /\ op' = [op EXCEPT ![o] = NoOp]
  /\ UNCHANGED <<pc, up, sess, shown, keyUser, slipped>>

CallerStep(c) ==
  \/ Connect(c) \/ KeyLogin(c) \/ RecordLogin(c) \/ SetUser(c)
  \/ RefreshUser(c) \/ AddSSHKey(c) \/ DoorWaits(c) \/ DoorOver(c)
  \/ Leave(c) \/ Release(c)
  \/ \E i \in Ids : MatchKey(c, i) \/ CheckPassword(c, i) \/ Register(c, i)

OpStep(o) ==
  \/ \E i \in Ids : Lock(o, i) \/ Unlock(o, i) \/ StartDelete(o, i)
  \/ KickUser(o) \/ FinishLock(o) \/ FinishDelete(o)
  \/ \E c \in Conns : HangUp(o, c)

Next == (\E c \in Conns : CallerStep(c)) \/ (\E o \in Ops : OpStep(o))

\* A read on a closed transport fails.
ReadFails(c) == Leave(c) /\ ~up[c]

\* Sysop operations that have started keep going, a hung-up session's next read
\* fails and its defers run. No caller has to log in or to log off, and no
\* process a door left behind has to close its output.
Fairness ==
  /\ \A c \in Conns : WF_vars(ReadFails(c)) /\ WF_vars(Release(c))
  /\ \A o \in Ops : /\ WF_vars(KickUser(o)) /\ WF_vars(FinishLock(o)) /\ WF_vars(FinishDelete(o))
                    /\ \A c \in Conns : WF_vars(HangUp(o, c))

Spec     == Init /\ [][Next]_vars
LiveSpec == Spec /\ Fairness

-----------------------------------------------------------------------------
(* Properties.                                                             *)

Stages   == {"away", "login", "authed", "recorded", "online", "door", "leaving", "gone"}
OpStages == {"idle", "lockKick", "lockHang", "deleteKick", "deleteHang"}

\* Every variable stays in its range.
TypeOK ==
  /\ users \in [Ids -> User \union {None}]
  /\ pc \in [Conns -> Stages]
  /\ up \in [Conns -> BOOLEAN]
  /\ sess \in [Conns -> Ids \union {0}]
  /\ shown \in [Conns -> Ids \union {0}]
  /\ keyUser \in [Conns -> Ids \union {0}]
  /\ op \in [Ops -> [stage : OpStages, id : Ids \union {0}, victims : SUBSET Conns]]
  /\ slipped \subseteq Conns

\* No lock of this account is still being carried out on this caller.
Settled(i, c) ==
  \A o \in Ops : /\ ~(op[o].id = i /\ op[o].stage = "lockKick")
                 /\ c \notin op[o].victims

OnlineOn(c, i) == pc[c] \in {"online", "door"} /\ sess[c] = i /\ up[c]

\* What it does keep: the only callers still online on a locked account are those
\* who were between the login check and setUser when kickUser looked.
LockedOrSlipped ==
  \A i \in Ids, c \in Conns : Locked(i) /\ Settled(i, c) /\ OnlineOn(c, i) => c \in slipped

\* "keyLogin signs in a caller whose SSH key the server already matched"
\* (login.go:172): keyLogin gives a caller the account of the person whose key
\* it is, or none. Not kept: the handshake kept an id, and ids come back. See
\* the run key_identity.
KeyIdentity ==
  [][\A c \in Conns :
       KeyLogin(c) /\ sess'[c] # 0 => users[sess'[c]].owner = PersonOf[c]]_vars

\* A lock or delete hangs up nobody else: its victims are sessions of that
\* account, although they are hung up after the table's lock is released.
NoStrayHangup ==
  \A o \in Ops : \A c \in op[o].victims : shown[c] = op[o].id \/ pc[c] = "gone"

\* A caller shown on a node when the account is locked leaves it, unless the
\* account is unlocked, the caller had slipped through an earlier lock, or the
\* session waits for ever for the output of a door (doors.go:166).
LockedLeaves ==
  \A i \in Ids, c \in Conns :
    []<>(pc[c] # "door")
    => ((Locked(i) /\ shown[c] = i) ~> (shown[c] # i \/ ~Locked(i) \/ c \in slipped))
====
