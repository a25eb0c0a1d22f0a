---- MODULE MailboxProofs ----
(***************************************************************************)
(* Threads stay apart and mail is neither inherited nor left behind, in    *)
(* module Mailbox with any number of sessions, accounts and letters.       *)
(*                                                                         *)
(* Two kinds of step touch the table: deleting marks rows and removes      *)
(* those both sides have deleted (MarkedKeeps), sending adds one row       *)
(* (InsertKeeps), and the rest leave it alone.                             *)
(***************************************************************************)
EXTENDS Mailbox, TLAPS

\* A row names its thread by the id of the letter that started it, so by an id
\* that is not above its own, and its conversation has begun.
RowsOrdered == \A m \in msgs : m.thread <= m.id /\ m.conv <= sent

\* The part of the invariant that is about the table.
Table == /\ RowsOrdered /\ ThreadsApart
         /\ NothingToInherit /\ EveryRowSeen

IInv == MailTypeOK /\ Table

\* The table is empty and the first user is there.
LEMMA InitIInv == MailInit => IInv
BY MailboxConstants
   DEF MailInit, IInv, Table, MailTypeOK, RowsOrdered, ThreadsApart, NothingToInherit,
       EveryRowSeen, Accounts, NoDraft

\* Row m is row o, perhaps deleted on one side by now.
Marked(m, o) == /\ m \in Row
                /\ m.id = o.id /\ m.thread = o.thread /\ m.conv = o.conv
                /\ m.from = o.from /\ m.to = o.to
                /\ (o.delFrom => m.delFrom) /\ (o.delTo => m.delTo)
                /\ ~(m.delFrom /\ m.delTo)

\* A row of the table is not deleted on both sides.
LEMMA OneSideLeft ==
  ASSUME IInv, NEW m \in msgs
  PROVE  m \in Row /\ ~(m.delFrom /\ m.delTo)
BY DEF IInv, Table, MailTypeOK, EveryRowSeen, Visible

\* Marking and removing rows keeps the table in order, if an account that goes
\* loses its copies.
LEMMA MarkedKeeps ==
  ASSUME IInv, sent' = sent, users' \subseteq users,
         \A m \in msgs' : \E o \in msgs : Marked(m, o),
         \A i \in users \ users' : \A m \in msgs' : ~Visible(m, i)
  PROVE  msgs' \subseteq Row /\ Table'
<1>1. msgs' \subseteq Row
  BY DEF Marked
<1>2. RowsOrdered' /\ ThreadsApart'
  BY DEF IInv, Table, Marked, RowsOrdered, ThreadsApart
<1>3. ASSUME NEW m \in msgs', NEW j \in Accounts, Visible(m, j)
      PROVE  j \in users'
  <2>1. PICK o \in msgs : Marked(m, o)
    OBVIOUS
  <2>2. Visible(o, j)
    BY <1>3, <2>1 DEF Visible, Marked
  <2>3. j \in users
    BY <2>2 DEF IInv, Table, NothingToInherit
  <2> QED
    BY <1>3, <2>3
<1>4. NothingToInherit'
  <2> SUFFICES ASSUME NEW j \in Accounts, j \notin users', NEW m \in msgs', Visible(m, j)
               PROVE  FALSE
    BY DEF NothingToInherit, Visible
  <2> QED
    BY <1>3
<1>5. EveryRowSeen'
  <2> SUFFICES ASSUME NEW m \in msgs'
               PROVE  \E j \in users' : Visible(m, j)
    BY DEF EveryRowSeen, Visible
  <2>1. m.from \in Accounts /\ m.to \in Accounts /\ ~(m.delFrom /\ m.delTo)
    BY DEF Marked, Row
  <2>2. Visible(m, m.from) \/ Visible(m, m.to)
    BY <2>1 DEF Visible
  <2> QED
    BY <1>3, <2>1, <2>2
<1> QED
  BY <1>1, <1>2, <1>4, <1>5 DEF Table

\* Deleting an account takes its copies and what nobody else has one of.
LEMMA WithoutUserKeeps ==
  ASSUME IInv, NEW i \in Accounts, msgs' = WithoutUser(i), users' = users \ {i}, sent' = sent
  PROVE  msgs' \subseteq Row /\ Table'
<1>1. ASSUME NEW m \in msgs'
      PROVE  ~Visible(m, i) /\ \E o \in msgs : Marked(m, o)
  <2>1. PICK o \in msgs : /\ o.to # i /\ m = [o EXCEPT !.delFrom = @ \/ o.from = i]
                          /\ ~(m.delFrom /\ m.delTo)
    BY <1>1 DEF WithoutUser
  <2>2. o \in Row
    BY OneSideLeft
  <2>3. Marked(m, o)
    BY <2>1, <2>2 DEF Row, Marked
  <2>4. ~Visible(m, i)
    BY <2>1, <2>2 DEF Row, Visible
  <2> QED
    BY <2>3, <2>4
<1> QED
  BY <1>1, MarkedKeeps

\* Deleting a letter, if it is there, for the copies the account has.
LEMMA DeleteKeeps ==
  ASSUME IInv, NEW s \in Sessions, Delete(s)
  PROVE  msgs' \subseteq Row /\ Table'
<1> DEFINE mark(o) == [o EXCEPT !.delFrom = @ \/ o.from = who[s],
                                !.delTo   = @ \/ o.to = who[s]]
<1>1. PICK l \in cur[s] :
        \/ msgs' = msgs
        \/ msgs' = Purged((msgs \ {m \in msgs : m.id = l.id /\ Visible(m, who[s])})
                  \union {mark(m) : m \in {m \in msgs : m.id = l.id /\ Visible(m, who[s])}})
  BY Zenon DEF Delete
<1> HIDE DEF mark
<1>2. \A m \in msgs' : /\ m \in msgs \/ \E o \in msgs : m = mark(o)
                       /\ m \in msgs \/ ~(m.delFrom /\ m.delTo)
  BY <1>1 DEF Purged
<1>3. ASSUME NEW m \in msgs'
      PROVE  \E o \in msgs : Marked(m, o)
  <2>1. CASE m \in msgs
    BY <2>1, OneSideLeft DEF Marked
  <2>2. CASE m \notin msgs
    <3>1. PICK o \in msgs : m = mark(o)
      BY <1>2, <2>2
    <3>2. o \in Row /\ ~(m.delFrom /\ m.delTo)
      BY <1>2, <2>2, OneSideLeft
    <3> QED
      BY <3>1, <3>2 DEF Row, Marked, mark
  <2> QED
    BY <2>1, <2>2
<1>4. UNCHANGED <<users, sent>>
  BY DEF Delete
<1> QED
  BY <1>3, <1>4, MarkedKeeps

\* Sending a letter: its row id is above every id and so above every thread, and
\* its number above every conversation.
LEMMA InsertKeeps ==
  ASSUME IInv, NEW f \in users, NEW t \in users, NEW q, Insert(f, t, q),
         sent < MaxSent, sent' = sent + 1, users' = users
  PROVE  msgs' \subseteq Row /\ Table'
<1>0. /\ msgs \subseteq Row /\ sent \in Nat /\ sent + 1 \in 1..MaxSent
      /\ f \in Accounts /\ t \in Accounts
  BY MailboxConstants DEF IInv, MailTypeOK
<1>1. PICK k, th, cv :
        /\ k \in 1..MaxMsg /\ NextId(k)
        /\ msgs' = msgs \union {Letter(k, f, t, th, cv)}
        /\ \/ th = k /\ cv = sent + 1
           \/ \E p \in msgs : th = p.thread /\ cv = p.conv
  BY DEF Insert, Parent, ThreadOf
<1> DEFINE r == Letter(k, f, t, th, cv)
<1>2. /\ r \in Row /\ r.id = k /\ r.from = f /\ r.to = t
      /\ ~r.delFrom /\ ~r.delTo
      /\ \/ r.thread = k /\ r.conv = sent + 1
         \/ \E p \in msgs : r.thread = p.thread /\ r.conv = p.conv
      /\ \A m \in msgs' : m \in msgs \/ m = r
  <2>1. \A p \in msgs : p.thread \in 1..MaxMsg /\ p.conv \in 1..MaxSent
    BY <1>0 DEF Row
  <2>2. th \in 1..MaxMsg /\ cv \in 1..MaxSent
    BY <1>0, <1>1, <2>1
  <2>3. r \in Row
    BY <1>0, <1>1, <2>2 DEF Row, Letter
  <2> QED
    BY <1>1, <2>3 DEF Letter
<1> HIDE DEF r
<1>3. \A m \in msgs : /\ m.thread \in Nat /\ m.conv \in Nat /\ m.id \in Nat
                      /\ m.thread < k /\ m.conv < sent + 1
  <2> SUFFICES ASSUME NEW m \in msgs
               PROVE  /\ m.thread \in Nat /\ m.conv \in Nat /\ m.id \in Nat
                      /\ m.thread < k /\ m.conv < sent + 1
    OBVIOUS
  <2>1. m.thread \in Nat /\ m.conv \in Nat /\ m.id \in Nat /\ k \in Nat
    BY <1>0, <1>1, MailboxConstants DEF Row
  <2>2. m.id < k /\ m.thread <= m.id /\ m.conv <= sent
    BY <1>1 DEF NextId, IInv, Table, RowsOrdered
  <2> QED
    BY <2>1, <2>2, <1>0
<1>4. RowsOrdered'
  <2> SUFFICES ASSUME NEW m \in msgs'
               PROVE  m.thread <= m.id /\ m.conv <= sent'
    BY DEF RowsOrdered
  <2>1. CASE m \in msgs
    BY <1>0, <1>3, <2>1 DEF RowsOrdered, IInv, Table
  <2>2. CASE m = r
    BY <1>0, <1>1, <1>2, <1>3, <2>2
  <2> QED
    BY <1>2, <2>1, <2>2
<1>5. ThreadsApart'
  <2> SUFFICES ASSUME NEW m \in msgs', NEW l \in msgs'
               PROVE  m.thread = l.thread <=> m.conv = l.conv
    BY DEF ThreadsApart
  <2>1. ASSUME NEW o \in msgs
        PROVE  o.thread = r.thread <=> o.conv = r.conv
    BY <1>0, <1>2, <1>3 DEF ThreadsApart, IInv, Table
  <2> QED
    BY <1>2, <2>1 DEF ThreadsApart, IInv, Table
<1>6. NothingToInherit'
  <2> SUFFICES ASSUME NEW j \in Accounts, j \notin users, NEW m \in msgs', Visible(m, j)
               PROVE  FALSE
    BY DEF NothingToInherit, Visible
  <2> QED
    BY <1>2 DEF NothingToInherit, Visible, IInv, Table
<1>7. EveryRowSeen'
  <2> SUFFICES ASSUME NEW m \in msgs'
               PROVE  \E j \in users : Visible(m, j)
    BY DEF EveryRowSeen, Visible
  <2> QED
    BY <1>2 DEF EveryRowSeen, Visible, IInv, Table
<1> QED
  BY <1>0, <1>2, <1>4, <1>5, <1>6, <1>7 DEF Table

\* No step of a session or a sysop breaks the invariant.
LEMMA StepIInv == IInv /\ [MailNext]_mailVars => IInv'
<1> SUFFICES ASSUME IInv, [MailNext]_mailVars
             PROVE  IInv'
  OBVIOUS
<1> USE MailboxConstants
<1>0. MailTypeOK /\ Table
  BY DEF IInv
<1>1. ASSUME UNCHANGED letters
      PROVE  msgs' \subseteq Row /\ Table' /\ users' \subseteq Accounts /\ sent' \in 0..MaxSent
  BY <1>0, <1>1 DEF letters, MailTypeOK, Table, RowsOrdered, ThreadsApart, NothingToInherit,
                    EveryRowSeen, Visible
<1>2. ASSUME NEW i \in Accounts, CreateUser(i)
      PROVE  IInv'
  <2>1. Table'
    BY <1>0, <1>2 DEF CreateUser, Table, RowsOrdered, ThreadsApart, NothingToInherit,
                      EveryRowSeen, Visible
  <2> QED
    BY <1>0, <1>2, <2>1 DEF CreateUser, IInv, MailTypeOK
<1>3. ASSUME NEW i \in Accounts, DeleteUser(i)
      PROVE  IInv'
  <2>1. msgs' \subseteq Row /\ Table'
    BY <1>3, WithoutUserKeeps DEF DeleteUser
  <2> QED
    BY <1>0, <1>3, <2>1 DEF DeleteUser, IInv, MailTypeOK
<1>4. ASSUME NEW s \in Sessions, NEW i \in Accounts, NewSession(s, i)
      PROVE  IInv'
  <2>1. msgs' \subseteq Row /\ Table' /\ users' \subseteq Accounts /\ sent' \in 0..MaxSent
    BY <1>1, <1>4 DEF NewSession
  <2>2. NoDraft \in [to : SUBSET Accounts, parent : 0..MaxMsg]
    BY DEF NoDraft
  <2>3. \A t \in Sessions : list'[t] = (IF t = s THEN {} ELSE list[t])
    BY <1>0, <1>4 DEF NewSession, MailTypeOK
  <2>4. \A t \in Sessions : cur'[t] \subseteq list'[t]
    BY <1>0, <1>4, <2>3 DEF NewSession, MailTypeOK
  <2> QED
    BY <1>0, <1>4, <2>1, <2>2, <2>3, <2>4 DEF NewSession, IInv, MailTypeOK
<1>5. ASSUME NEW s \in Sessions, Load(s)
      PROVE  IInv'
  <2>1. msgs' \subseteq Row /\ Table' /\ users' \subseteq Accounts /\ sent' \in 0..MaxSent
    BY <1>1, <1>5 DEF Load
  <2>2. PICK l \in SUBSET msgs, kept \in SUBSET list[s] :
               list' = [list EXCEPT ![s] = kept \union {Copy(m) : m \in l}]
    BY <1>5 DEF Load
  <2>3. {Copy(m) : m \in l} \subseteq CopyRow
    <3> SUFFICES ASSUME NEW m \in l
                 PROVE  Copy(m) \in CopyRow
      OBVIOUS
    <3>1. m \in Row
      BY <1>0 DEF MailTypeOK
    <3> QED
      BY <3>1 DEF Row, CopyRow, Copy
  <2>4. list' \in [Sessions -> SUBSET CopyRow]
    BY <1>0, <2>2, <2>3 DEF MailTypeOK
  <2>5. \A t \in Sessions : cur'[t] \subseteq list'[t]
    BY <1>0, <1>5, <2>2 DEF MailTypeOK, Load
  <2> QED
    BY <1>0, <1>5, <2>1, <2>4, <2>5 DEF Load, IInv, MailTypeOK
<1>6. ASSUME NEW s \in Sessions, NEW l \in list[s], Show(s, l)
      PROVE  IInv'
  <2>1. UNCHANGED letters
    BY <1>6 DEF Show
  <2>2. msgs' \subseteq Row /\ Table' /\ users' \subseteq Accounts /\ sent' \in 0..MaxSent
    BY <1>1, <2>1
  <2>3. \A t \in Sessions : cur'[t] \subseteq list'[t]
    BY <1>0, <1>6 DEF Show, MailTypeOK
  <2> QED
    BY <1>0, <1>6, <2>2, <2>3 DEF Show, IInv, MailTypeOK
<1>7. ASSUME NEW s \in Sessions, Delete(s)
      PROVE  IInv'
  <2>1. msgs' \subseteq Row /\ Table'
    BY <1>7, DeleteKeeps
  <2>2. PICK l : \/ list' = [list EXCEPT ![s] = @ \ {l}] /\ cur' = [cur EXCEPT ![s] = {}]
                 \/ UNCHANGED <<list, cur>>
    BY <1>7 DEF Delete
  <2> QED
    BY <1>0, <1>7, <2>1, <2>2 DEF Delete, IInv, MailTypeOK
<1>8. ASSUME NEW s \in Sessions, Reply(s)
      PROVE  IInv'
  <2>1. msgs' \subseteq Row /\ Table' /\ users' \subseteq Accounts /\ sent' \in 0..MaxSent
    BY <1>1, <1>8 DEF Reply
  <2>2. PICK l \in cur[s] : draft' = [draft EXCEPT ![s] = [to |-> {l.from}, parent |-> l.id]]
    BY <1>8 DEF Reply
  <2>3. l \in CopyRow
    BY <1>0 DEF MailTypeOK
  <2>4. {l.from} \subseteq Accounts /\ l.id \in 0..MaxMsg
    BY <2>3 DEF CopyRow
  <2> QED
    BY <1>0, <1>8, <2>1, <2>2, <2>4 DEF Reply, IInv, MailTypeOK
<1>9. ASSUME NEW s \in Sessions, NEW to \in SUBSET Accounts, Compose(s, to)
      PROVE  IInv'
  <2>1. msgs' \subseteq Row /\ Table' /\ users' \subseteq Accounts /\ sent' \in 0..MaxSent
    BY <1>1, <1>9 DEF Compose
  <2> QED
    BY <1>0, <1>9, <2>1 DEF Compose, IInv, MailTypeOK
<1>10. ASSUME NEW s \in Sessions, Discard(s)
       PROVE  IInv'
  <2>1. msgs' \subseteq Row /\ Table' /\ users' \subseteq Accounts /\ sent' \in 0..MaxSent
    BY <1>1, <1>10 DEF Discard
  <2> QED
    BY <1>0, <1>10, <2>1 DEF Discard, IInv, MailTypeOK, NoDraft
<1>11. ASSUME NEW s \in Sessions, NEW t \in Accounts, Deliver(s, t)
       PROVE  IInv'
  <2>1. msgs' \subseteq Row /\ Table' /\ users' \subseteq Accounts /\ sent' \in 0..MaxSent
    <3>1. CASE UNCHANGED <<msgs, sent>>
      BY <1>1, <1>11, <3>1 DEF Deliver, letters
    <3>2. CASE /\ Accepts(who[s], t) /\ sent < MaxSent
               /\ Insert(who[s], t, draft[s].parent) /\ sent' = sent + 1
      <4>1. who[s] \in users /\ t \in users /\ users' = users
        BY <1>11, <3>2 DEF Accepts, Deliver
      <4>2. msgs' \subseteq Row /\ Table'
        BY <3>2, <4>1, InsertKeeps
      <4> QED
        BY <1>0, <3>2, <4>1, <4>2 DEF MailTypeOK
    <3> QED
      BY <1>11, <3>1, <3>2 DEF Deliver
  <2>2. draft' \in [Sessions -> [to : SUBSET Accounts, parent : 0..MaxMsg]]
    <3>1. NoDraft \in [to : SUBSET Accounts, parent : 0..MaxMsg]
      BY DEF NoDraft
    <3>2. /\ draft[s] \in [to : SUBSET Accounts, parent : 0..MaxMsg]
          /\ draft[s].to \ {t} \in SUBSET Accounts /\ draft[s].parent \in 0..MaxMsg
      BY <1>0 DEF MailTypeOK
    <3> QED
      BY <1>0, <1>11, <3>1, <3>2 DEF Deliver, MailTypeOK
  <2> QED
    BY <1>0, <1>11, <2>1, <2>2 DEF Deliver, IInv, MailTypeOK
<1>12. CASE UNCHANGED mailVars
  <2>1. msgs' \subseteq Row /\ Table' /\ users' \subseteq Accounts /\ sent' \in 0..MaxSent
    BY <1>1, <1>12 DEF mailVars
  <2> QED
    BY <1>0, <1>12, <2>1 DEF mailVars, IInv, MailTypeOK
<1> QED
  BY <1>2, <1>3, <1>4, <1>5, <1>6, <1>7, <1>8, <1>9, <1>10, <1>11, <1>12
     DEF MailNext, SessionStep

\* Every state of the mail system is in order.
LEMMA Always == MailSpec => []IInv
<1>1. MailInit => IInv
  BY InitIInv
<1>2. IInv /\ [MailNext]_mailVars => IInv'
  BY StepIInv
<1> QED
  BY <1>1, <1>2, PTL DEF MailSpec

\* The variables of mail and its sessions stay in their ranges.
THEOREM TypeCorrect == MailSpec => []MailTypeOK
<1>1. IInv => MailTypeOK
  BY DEF IInv
<1> QED
  BY <1>1, Always, PTL

\* Two letters of different conversations never share a thread, though the
\* row ids that name threads come back (SendMessage, messageThread).
THEOREM ThreadsStayApart == MailSpec => []ThreadsApart
<1>1. IInv => ThreadsApart
  BY DEF IInv, Table
<1> QED
  BY <1>1, Always, PTL

\* An account that signs up with a deleted account's id sees none of its mail
\* (CreateUser, DeleteUser).
THEOREM NobodyInherits == MailSpec => []NothingToInherit
<1>1. IInv => NothingToInherit
  BY DEF IInv, Table
<1> QED
  BY <1>1, Always, PTL

\* A row that nobody can see is not kept, whichever side deletes first and
\* whoever's account is deleted (DeleteMessage, DeleteUser).
THEOREM NothingLeftBehind == MailSpec => []EveryRowSeen
<1>1. IInv => EveryRowSeen
  BY DEF IInv, Table
<1> QED
  BY <1>1, Always, PTL
====
