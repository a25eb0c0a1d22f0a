---- MODULE Mailbox ----
(***************************************************************************)
(* Private mail: letters, threads, and copies that each side               *)
(* deletes for itself.                                                     *)
(*                                                                         *)
(* Sources: internal/store/messages.go, users.go (CreateUser, DeleteUser), *)
(* internal/bbs/mail.go, compose.go.                                       *)
(*                                                                         *)
(* Every action that touches the table is one transaction or statement.    *)
(* Between them a session keeps copies: the list it loaded, the letter on  *)
(* the screen, the recipients and the parent of the letter being written.  *)
(* Row ids and account ids are SQLite's: the highest in use plus one, so   *)
(* an id comes back when the highest row goes.  Who is a sysop, and        *)
(* whether a letter is refused because its sender is blocked or not        *)
(* approved, is left open.  Read marks are left out: MarkRead changes      *)
(* nothing that another operation here depends on.                         *)
(***************************************************************************)
EXTENDS Integers, FiniteSets

CONSTANTS
  Sessions,     \* places for sessions that read and write mail
  MaxInbox,     \* store.MaxInbox
  MaxAccount,   \* bound: highest account id
  MaxMsg,       \* bound: highest message id
  MaxList,      \* bound: letters of a loaded list that the session will look at
  MaxSent,      \* bound: letters sent in a run
  MaxWriting    \* bound: letters being written at once

ASSUME MailboxConstants ==
  /\ MaxInbox \in Nat \ {0} /\ MaxAccount \in Nat \ {0}
  /\ MaxMsg \in Nat \ {0} /\ MaxList \in Nat \ {0} /\ MaxSent \in Nat \ {0}
  /\ MaxWriting \in Nat \ {0}

VARIABLES
  users,   \* the ids of the accounts there are
  msgs,    \* the messages table, a set of rows
  who,     \* session.user.ID
  list,    \* copies of the letters the session loaded
  cur,     \* of those, the one on the screen: a set with one element, or empty
  draft,   \* the letter being written: recipients left, parent
  sent     \* history: letters sent so far

letters  == <<users, msgs, sent>>
mailVars == <<letters, who, list, cur, draft>>

Accounts == 1..MaxAccount
NoDraft  == [to |-> {}, parent |-> 0]

\* A row. History, which the table has not: conv is the number, in the order letters
\* were sent, of the one that started the conversation the row has joined.
Row == [id : 1..MaxMsg, from : Accounts, to : Accounts, thread : 1..MaxMsg,
        delFrom : BOOLEAN, delTo : BOOLEAN, conv : 1..MaxSent]

\* What a session uses of the copy it keeps.
CopyRow == [id : 1..MaxMsg, from : Accounts, to : Accounts]
Copy(m) == [id |-> m.id, from |-> m.from, to |-> m.to]

\* visibleTo.
Visible(m, i) == (m.to = i /\ ~m.delTo) \/ (m.from = i /\ ~m.delFrom)

Inbox(i) == {m \in msgs : m.to = i /\ ~m.delTo}

MailInit ==
  /\ users = {1} /\ msgs = {} /\ sent = 0
  /\ who = [s \in Sessions |-> 1]
  /\ list = [s \in Sessions |-> {}] /\ cur = [s \in Sessions |-> {}]
  /\ draft = [s \in Sessions |-> NoDraft]

-----------------------------------------------------------------------------
(* Accounts.                                                               *)

\* CreateUser.
CreateUser(i) ==
  /\ \A j \in users : j < i
  /\ i - 1 \in users
  /\ users' = users \union {i}
  /\ UNCHANGED <<msgs, sent, who, list, cur, draft>>

\* Mutant: the sender keeps the copies of what they sent.
WithoutUserKeepsSent(i) == {m \in msgs : m.to # i}

\* What DeleteUser leaves: mail to the account goes, the sender's copy of mail
\* from it is deleted, and what is deleted on both sides is purged.
WithoutUser(i) ==
  LET mark(m) == [m EXCEPT !.delFrom = @ \/ m.from = i]
  IN {m \in {mark(r) : r \in {x \in msgs : x.to # i}} : ~(m.delFrom /\ m.delTo)}

\* DeleteUser, by a sysop, who is somebody else.
DeleteUser(i) ==
  /\ i \in users /\ users # {i}
  /\ users' = users \ {i}
  /\ msgs' = WithoutUser(i)
  /\ UNCHANGED <<sent, who, list, cur, draft>>

-----------------------------------------------------------------------------
(* Reading.                                                                *)

\* A session ends, wherever it is, and another one starts in its place; several
\* may be on one account.
NewSession(s, i) ==
  /\ i \in users
  /\ who' = [who EXCEPT ![s] = i]
  /\ list' = [list EXCEPT ![s] = {}] /\ cur' = [cur EXCEPT ![s] = {}]
  /\ draft' = [draft EXCEPT ![s] = NoDraft]
  /\ UNCHANGED letters

Idle(s) == draft[s] = NoDraft

\* mailMenu, browseMail, readThread: load a list. Inbox, Outbox, Thread and
\* SearchMail each select some of the letters the account can see. Whoever reads
\* a thread comes back to the list it was called from, so what was kept stays.
Load(s) ==
  /\ Idle(s)
  /\ \E l \in SUBSET {m \in msgs : Visible(m, who[s])}, kept \in SUBSET list[s] :
       LET loaded == kept \union {Copy(m) : m \in l}
       IN /\ l # {} /\ Cardinality(loaded) <= MaxList
          /\ list' = [list EXCEPT ![s] = loaded]
  /\ cur' = [cur EXCEPT ![s] = {}]
  /\ UNCHANGED <<letters, who, draft>>

\* readMail shows a letter of the loaded list, by now perhaps out of date.
Show(s, l) ==
  /\ Idle(s) /\ l \in list[s]
  /\ cur' = [cur EXCEPT ![s] = {l}]
  /\ UNCHANGED <<letters, who, list, draft>>

\* Mutant: nothing is purged.
PurgedNever(rows) == rows

\* A message is purged once both sides have deleted it.
Purged(rows) == {m \in rows : ~(m.delFrom /\ m.delTo)}

\* deleteMail: DeleteMessage by id, for the copies this account has; a letter
\* that is not there any more is an error, and the list stays.
Delete(s) ==
  /\ Idle(s)
  /\ \E l \in cur[s] :
       LET mine == {m \in msgs : m.id = l.id /\ Visible(m, who[s])}
           mark(m) == [m EXCEPT !.delFrom = @ \/ m.from = who[s],
                                !.delTo   = @ \/ m.to = who[s]]
       IN \/ /\ mine # {}
             /\ msgs' = Purged((msgs \ mine) \union {mark(m) : m \in mine})
             /\ list' = [list EXCEPT ![s] = @ \ {l}]
             /\ cur' = [cur EXCEPT ![s] = {}]
          \/ /\ mine = {}
             /\ UNCHANGED <<msgs, list, cur>>
  /\ UNCHANGED <<users, sent, who, draft>>

-----------------------------------------------------------------------------
(* Writing.                                                                *)

\* The session is not writing, and the bound allows another letter.
MayWrite(s) ==
  Idle(s) /\ Cardinality({t \in Sessions : ~Idle(t)}) < MaxWriting

\* reply: to the sender of the letter on the screen, if the account exists.
Reply(s) ==
  /\ MayWrite(s)
  /\ \E l \in cur[s] :
       /\ l.to = who[s] /\ l.from \in users
       /\ draft' = [draft EXCEPT ![s] = [to |-> {l.from}, parent |-> l.id]]
  /\ UNCHANGED <<letters, who, list, cur>>

\* compose, from the menu, a forwarded letter or a post: any accounts there are.
\* resolveRecipients' rule for unvalidated callers is the one SendMessage checks.
Compose(s, to) ==
  /\ MayWrite(s)
  /\ to # {} /\ to \subseteq users
  /\ draft' = [draft EXCEPT ![s] = [to |-> to, parent |-> 0]]
  /\ UNCHANGED <<letters, who, list, cur>>

\* Cancelled, discarded, or the rest not sent because of the mail limit.
Discard(s) ==
  /\ draft[s] # NoDraft
  /\ draft' = [draft EXCEPT ![s] = NoDraft]
  /\ UNCHANGED <<letters, who, list, cur>>

InboxFull(i) == Cardinality(Inbox(i)) >= MaxInbox

\* SendMessage's checks on accounts and mailbox.
Accepts(f, t) == f \in users /\ t \in users /\ ~InboxFull(t)

\* The id of the next row.
NextId(k) ==
  /\ \A m \in msgs : m.id < k
  /\ k = 1 \/ \E m \in msgs : m.id = k - 1

\* Mutant: a reply's thread is its parent, not its parent's thread.
ThreadOfParent(p) == p.id

\* messageThread: the thread a reply joins.
ThreadOf(p) == p.thread

\* The letter a reply points at, if the sender can see it.
Parent(f, k) == {m \in msgs : m.id = k /\ Visible(m, f)}

Letter(k, f, t, thread, conv) ==
  [id |-> k, from |-> f, to |-> t, thread |-> thread,
   delFrom |-> FALSE, delTo |-> FALSE, conv |-> conv]

\* SendMessage: a reply joins its parent's thread, anything else starts one.
Insert(f, t, parent) ==
  \E k \in 1..MaxMsg :
    /\ NextId(k)
    /\ \/ /\ Parent(f, parent) = {}
          /\ msgs' = msgs \union {Letter(k, f, t, k, sent + 1)}
       \/ \E p \in Parent(f, parent) :
            msgs' = msgs \union {Letter(k, f, t, ThreadOf(p), p.conv)}

\* deliver: one transaction per recipient; one that fails is reported and the
\* others go on.
Deliver(s, t) ==
  /\ t \in draft[s].to
  /\ LET left == draft[s].to \ {t}
     IN draft' = [draft EXCEPT ![s] =
          IF left = {} THEN NoDraft ELSE [draft[s] EXCEPT !.to = left]]
  /\ \/ /\ Accepts(who[s], t)
        /\ sent < MaxSent
        /\ Insert(who[s], t, draft[s].parent)
        /\ sent' = sent + 1
     \/ UNCHANGED <<msgs, sent>>
  /\ UNCHANGED <<users, who, list, cur>>

SessionStep(s) ==
  \/ Load(s) \/ Delete(s) \/ Reply(s) \/ Discard(s)
  \/ \E i \in Accounts : NewSession(s, i) \/ Deliver(s, i)
  \/ \E to \in SUBSET Accounts : Compose(s, to)
  \/ \E l \in list[s] : Show(s, l)

MailNext ==
  \/ \E i \in Accounts : CreateUser(i) \/ DeleteUser(i)
  \/ \E s \in Sessions : SessionStep(s)

MailSpec == MailInit /\ [][MailNext]_mailVars

-----------------------------------------------------------------------------
(* Properties.                                                             *)

\* Every variable stays in its range.
MailTypeOK ==
  /\ users \subseteq Accounts
  /\ msgs \subseteq Row
  /\ who \in [Sessions -> Accounts]
  /\ list \in [Sessions -> SUBSET CopyRow] /\ cur \in [Sessions -> SUBSET CopyRow]
  /\ \A s \in Sessions : cur[s] \subseteq list[s]
  /\ draft \in [Sessions -> [to : SUBSET Accounts, parent : 0..MaxMsg]]
  /\ sent \in 0..MaxSent

\* Account ids come back, and DeleteUser leaves other people's letters in the
\* table: still there is nothing an account that does not exist could see, so
\* nobody who signs up inherits mail.
NothingToInherit ==
  \A i \in Accounts \ users : \A m \in msgs : ~Visible(m, i)

\* "a message is gone for good once both have" (README.md:69): every row is
\* visible to an account that exists, through deletes of either side in either
\* order, letters to oneself and deleted accounts.
EveryRowSeen ==
  \A m \in msgs : \E i \in users : Visible(m, i)

\* Threads are named by row ids that come back (messageThread, thread_id = id): still two
\* rows have one name exactly when a chain of reply_to links joined them to one thread.
ThreadsApart ==
  \A m, l \in msgs : m.thread = l.thread <=> m.conv = l.conv
====
