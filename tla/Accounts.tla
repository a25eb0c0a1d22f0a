---- MODULE Accounts ----
(***************************************************************************)
(* Accounts and what sysops do to them, from a telnet line and from the    *)
(* web interface with its sessions.                                        *)
(*                                                                         *)
(* Sources: internal/store/users.go, community.go (requireSysop),          *)
(* internal/bbs/sysop.go, sysop_users.go, approval.go, admin.go,           *)
(* internal/web/web.go, pages.go (login, logout, userAction).              *)
(*                                                                         *)
(* The two front ends run one operation each, side by side.  A telnet      *)
(* sysop looks at an account, presses a key, and may be asked to confirm   *)
(* it, or kicks a node or broadcasts a line from the sysop menu; a web     *)
(* request comes with a session and names any account.  For an account     *)
(* the rights are looked at by the front end, then by the store, and       *)
(* the change is a statement of its own; only DeleteUser is a transaction. *)
(* Hanging up the caller concerned is modelled in Callers.                 *)
(***************************************************************************)
EXTENDS Integers, Sequences, SequencesExt

CONSTANTS
  Ids,          \* bound: the ids users get, 1 .. n
  MaxSessions,  \* maxSessions
  ApproveNew    \* Config.ApproveNewUsers

Fronts    == {"telnet", "web"}
Kinds     == {"approve", "lock", "unlock", "promote", "demote", "password", "delete"}
LineKinds == {"kick", "broadcast"}   \* what a sysop does to the lines, not to an account
Nobody    == 0

VARIABLES
  users,     \* the table: id to account
  sessions,  \* sessionTable: the users of the sessions, the stalest first
  signing,   \* the user of a login between SysopLogin and sessionTable.create
  op,        \* what each front end is doing
  stale      \* history: rights were used up by somebody who had just lost theirs

vars == <<users, sessions, signing, op, stale>>

Account == [sysop : BOOLEAN, locked : BOOLEAN, ok : BOOLEAN]

\* had: the actor had the right at some time since the key or the request.
Begun(place, a, kind, t) == [at |-> place, actor |-> a, kind |-> kind, target |-> t, had |-> FALSE]

Idle == Begun("idle", Nobody, "password", Nobody)

Init ==
  /\ users = <<>> /\ sessions = <<>> /\ signing = Nobody
  /\ op = [f \in Fronts |-> Idle] /\ stale = FALSE

-----------------------------------------------------------------------------
(* Rights.                                                                 *)

\* store.requireSysop, and the telnet session's: a missing row is an error.
IsSysop(us, a) == a \in DOMAIN us /\ us[a].sysop

Unlocked(us, a) == IsSysop(us, a) /\ ~us[a].locked

\* The front end's look: session.requireSysop, Server.Sysop.
Right(f, us, a) == IF f = "web" THEN Unlocked(us, a) ELSE IsSysop(us, a)

\* The operations, with their history brought up to date for a new table.
Noting(us, ops) ==
  [f \in Fronts |->
     [ops[f] EXCEPT !.had = @ \/ (ops[f].at \notin {"idle", "view"} /\ Right(f, us, ops[f].actor))]]

SetUsers(us, ops) == users' = us /\ op' = Noting(us, ops)

Becomes(f, o) == [op EXCEPT ![f] = o]
At(f, place)  == Becomes(f, [op[f] EXCEPT !.at = place])

\* With what is asked for known.
Aimed(f, place, kind, t) ==
  Becomes(f, [at |-> place, actor |-> op[f].actor, kind |-> kind, target |-> t, had |-> op[f].had])

-----------------------------------------------------------------------------
(* Registration and restarts.                                              *)

\* CreateUser: the row after the last one; the first user is the sysop.
CreateUser(id) ==
  LET first == DOMAIN users = {}
  IN /\ \A other \in DOMAIN users : other < id
     /\ id = 1 \/ id - 1 \in DOMAIN users
     /\ SetUsers([u \in DOMAIN users \union {id} |->
                    IF u = id THEN [sysop |-> first, locked |-> FALSE, ok |-> first \/ ~ApproveNew]
                    ELSE users[u]], op)
     /\ UNCHANGED <<sessions, signing, stale>>

\* The program stops and starts, with -sysop for some user or without (BootstrapSysop).
Restart(some) ==
  /\ users' = [u \in DOMAIN users |->
                 IF u \in some THEN [users[u] EXCEPT !.sysop = TRUE, !.ok = TRUE] ELSE users[u]]
  /\ sessions' = <<>> /\ signing' = Nobody /\ op' = [f \in Fronts |-> Idle]
  /\ UNCHANGED stale

-----------------------------------------------------------------------------
(* Web sessions.                                                           *)

\* loginSubmit: SysopLogin, with the right password.
SysopLogin(u) ==
  /\ signing = Nobody /\ Unlocked(users, u)
  /\ signing' = u
  /\ UNCHANGED <<users, sessions, op, stale>>

\* sessionTable.create; a full table loses its stalest session.
CreateSession ==
  /\ signing # Nobody
  /\ sessions' = Append(IF Len(sessions) >= MaxSessions THEN Tail(sessions) ELSE sessions, signing)
  /\ signing' = Nobody
  /\ UNCHANGED <<users, op, stale>>

\* Logout, or a timeout.
Forget(i) ==
  /\ sessions' = RemoveAt(sessions, i)
  /\ UNCHANGED <<users, signing, op, stale>>

DropUser(u) == SelectSeq(sessions, LAMBDA s : s # u)

-----------------------------------------------------------------------------
(* An operation.                                                           *)

\* sysopUser shows an account and offers what fits it; reviewCaller those who wait.
Offered(a, t) ==
  {"password"}
    \union (IF users[t].ok THEN {} ELSE {"approve", "delete"})
    \union (IF a = t THEN {} ELSE {"delete", IF users[t].locked THEN "unlock" ELSE "lock",
                                   IF users[t].sysop THEN "demote" ELSE "promote"})

View(a, t, kind) ==
  /\ op["telnet"].at = "idle" /\ IsSysop(users, a) /\ kind \in Offered(a, t)
  /\ op' = Becomes("telnet", Begun("view", a, kind, t))
  /\ UNCHANGED <<users, sessions, signing, stale>>

\* sysopMenu: the right is looked at before the menu is drawn, not after its key.
SysopMenu(a, kind) ==
  /\ op["telnet"].at = "idle" /\ IsSysop(users, a)
  /\ op' = Becomes("telnet", Begun("view", a, kind, Nobody))
  /\ UNCHANGED <<users, sessions, signing, stale>>

\* The key for an account is followed by requireSysop, one of the board's keys by a
\* prompt for the node or the line.
Key ==
  /\ op["telnet"].at = "view"
  /\ op' = Noting(users, At("telnet", IF op["telnet"].kind \in LineKinds THEN "prompt" ELSE "asked"))
  /\ UNCHANGED <<users, sessions, signing, stale>>

\* sysopKick and sysopBroadcast do it with the answer (Lines has the hang-up).
ActOnBoard ==
  /\ op["telnet"].at = "prompt"
  /\ op' = At("telnet", "acted")
  /\ UNCHANGED <<users, sessions, signing, stale>>

\* Back to the loop of sysopMenu.
MenuAgain ==
  /\ op["telnet"].at = "acted"
  /\ op' = Becomes("telnet", Idle)
  /\ UNCHANGED <<users, sessions, signing, stale>>

\* signedIn: sessionTable.get makes the session the freshest.
Request(i) ==
  /\ op["web"].at = "idle"
  /\ sessions' = Append(RemoveAt(sessions, i), sessions[i])
  /\ op' = Noting(users, Becomes("web", Begun("asked", sessions[i], "password", Nobody)))
  /\ UNCHANGED <<users, signing, stale>>

\* The front end reloads the account. A web session that fails is dropped with all
\* the account's others.
Check(f) ==
  /\ op[f].at = "asked"
  /\ IF Right(f, users, op[f].actor)
     THEN op' = At(f, "checked") /\ sessions' = sessions
     ELSE /\ op' = Becomes(f, Idle)
          /\ sessions' = IF f = "web" THEN DropUser(op[f].actor) ELSE sessions
  /\ UNCHANGED <<users, signing, stale>>

\* What a request asks for, of an account that exists (userAction); a key was for the
\* account on the screen.
Asks(f, t, kind) ==
  /\ op[f].at = "checked"
  /\ IF f = "web" THEN t \in DOMAIN users ELSE t = op[f].target /\ kind = op[f].kind

\* Mutant: nothing keeps a sysop from acting on their own account.
NotSelfNever(kind) == FALSE

\* requireActor's notSelf.
NotSelf(kind) == kind \in {"lock", "unlock", "demote"}

\* requireActor.
Require(f, t, kind) ==
  /\ Asks(f, t, kind) /\ kind # "delete"
  /\ op' = IF IsSysop(users, op[f].actor) /\ ~(NotSelf(kind) /\ op[f].actor = t)
           THEN Aimed(f, "required", kind, t)
           ELSE Becomes(f, Idle)
  /\ UNCHANGED <<users, sessions, signing, stale>>

\* The columns ValidateUser, SetLocked and SetSysop set; ResetPassword sets others.
Changed(account, kind) ==
  [sysop  |-> kind # "demote" /\ (account.sysop \/ kind = "promote"),
   locked |-> kind # "unlock" /\ (account.locked \/ kind = "lock"),
   ok     |-> account.ok \/ kind \in {"promote", "approve"}]

\* updateUser, and for a demotion from the web dropUser to come.
Update(f) ==
  LET t == op[f].target
      kind == op[f].kind
  IN /\ op[f].at = "required"
     /\ IF t \in DOMAIN users
        THEN /\ SetUsers([users EXCEPT ![t] = Changed(@, kind)],
                         IF f = "web" /\ kind = "demote" THEN At(f, "drop") ELSE Becomes(f, Idle))
             /\ stale' = (stale \/ (kind \in {"lock", "demote"} /\ ~Unlocked(users, op[f].actor)))
        ELSE op' = Becomes(f, Idle) /\ UNCHANGED <<users, stale>>
     /\ UNCHANGED <<sessions, signing>>

\* DeleteUser: one transaction.
DeleteUser(f, t) ==
  LET a == op[f].actor
  IN /\ Asks(f, t, "delete")
     /\ IF a # t /\ IsSysop(users, a) /\ t \in DOMAIN users
        THEN /\ SetUsers([u \in DOMAIN users \ {t} |-> users[u]],
                         IF f = "web" THEN Aimed(f, "drop", "delete", t) ELSE Becomes(f, Idle))
             /\ stale' = (stale \/ ~Unlocked(users, a))
        ELSE op' = Becomes(f, Idle) /\ UNCHANGED <<users, stale>>
     /\ UNCHANGED <<sessions, signing>>

\* userAction's dropUser.
Drop ==
  /\ op["web"].at = "drop"
  /\ sessions' = DropUser(op["web"].target) /\ op' = Becomes("web", Idle)
  /\ UNCHANGED <<users, signing, stale>>

\* The sysop does not confirm, or cancels, or what came with the request is no good.
GiveUp(f) ==
  /\ op[f].at \in {"view", "prompt", "checked"}
  /\ op' = Becomes(f, Idle)
  /\ UNCHANGED <<users, sessions, signing, stale>>

Next ==
  \/ \E id \in Ids : CreateUser(id) \/ SysopLogin(id)
  \/ \E some \in {{}} \union {{id} : id \in DOMAIN users} : Restart(some)
  \/ CreateSession \/ Drop \/ Key \/ ActOnBoard \/ MenuAgain
  \/ \E i \in DOMAIN sessions : Forget(i) \/ Request(i)
  \/ \E a, t \in DOMAIN users, kind \in Kinds : View(a, t, kind)
  \/ \E a \in DOMAIN users, kind \in LineKinds : SysopMenu(a, kind)
  \/ \E f \in Fronts :
       \/ Check(f) \/ Update(f) \/ GiveUp(f)
       \/ \E t \in Ids : DeleteUser(f, t) \/ \E kind \in Kinds : Require(f, t, kind)

Spec == Init /\ [][Next]_vars

-----------------------------------------------------------------------------
(* Properties.                                                             *)

\* Once anybody is registered there is a sysop who is approved and not locked, so
\* the board can be run and nobody becomes sysop by registering first again
\* (CreateUser, notSelf, DeleteUser). The one way to lose the last is two sysops at
\* work on each other: requireActor and the UPDATE are two statements, and a locked
\* sysop's line acts until it is hung up.
SysopRemains ==
  DOMAIN users # {} /\ ~stale => \E u \in DOMAIN users : Unlocked(users, u) /\ users[u].ok

\* "Sysop rights are checked again on every action, so a demotion takes effect straight
\* away": whoever acts had the right, for the web unlocked too, at some time since the key
\* or the request. Every action on an account looks again (requireSysop, signedIn), but
\* sysopKick and sysopBroadcast do not. It is about accounts that are still there: a
\* deleted one's lines are hung up first.
RightsChecked ==
  \A f \in Fronts :
    /\ op[f].at \in {"checked", "required", "acted"}
    /\ op[f].actor \in DOMAIN users /\ users[op[f].actor].ok
    => op[f].had
====
