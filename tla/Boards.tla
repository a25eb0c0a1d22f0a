---- MODULE Boards ----
(***************************************************************************)
(* Message boards: posts, threads, deletes, and each caller's last-read    *)
(* mark.                                                                   *)
(*                                                                         *)
(* Sources: internal/store/boards.go, users.go (CreateUser, DeleteUser),   *)
(* internal/bbs/boards.go, sysop.go (boards), admin.go (boards and posts). *)
(*                                                                         *)
(* A store operation is one transaction.  Between them a session works on  *)
(* copies: the board it opened, the posts it listed and the post on the    *)
(* screen.  Ids are SQLite's, the highest in use plus one, so the id of    *)
(* the newest row comes back once that row is gone.  The posting limit is  *)
(* RateLimiter's; a refused operation changes nothing and is no step.      *)
(***************************************************************************)
EXTENDS Integers, FiniteSets, FiniteSetsExt

CONSTANTS
  MaxAccount,     \* bound: highest account id; 1 is the sysop
  Slow,           \* accounts whose sessions keep copies for more than a step; what
                  \* the others open, list and act on is never out of date
  MaxBoardPosts,  \* store.MaxBoardPosts, the length of a list
  MaxPost,        \* bound: highest post id
  MaxBoard        \* bound: highest board id

VARIABLES
  users,    \* the ids of the accounts there are
  boards,   \* the boards table
  posts,    \* the posts table; history: again, an earlier post had the id
  read,     \* board_reads: last_read_id per account and board, 0 for no row
  view,     \* per account, the session's copies
  top,      \* history: the highest post id ever given out
  listed    \* history: which account listed a board with which post on it

vars == <<users, boards, posts, read, view, top, listed>>

Accounts == 1..MaxAccount
Sysop    == 1

\* What a session uses of the copy it keeps.
Copy(p) == [id |-> p.id, board |-> p.board, author |-> p.author]

NoView == [board |-> {}, list |-> {}, at |-> {}]

Init ==
  /\ users = {Sysop}
  /\ boards = {[id |-> 1, sysopOnly |-> TRUE], [id |-> 2, sysopOnly |-> FALSE]}
  /\ posts = {} /\ read = [i \in Slow |-> [b \in 1..MaxBoard |-> 0]]
  /\ view = [i \in Slow |-> NoView]
  /\ top = 0 /\ listed = {}

-----------------------------------------------------------------------------
(* Accounts and boards.                                                    *)

NextId(ids) == IF ids = {} THEN 1 ELSE Max(ids) + 1

CreateUser(i) ==
  /\ i = NextId(users)
  /\ users' = users \union {i}
  /\ UNCHANGED <<boards, posts, read, view, top, listed>>

\* Mutant: the account's marks outlive it.
ReadWithoutKept(i) == read

\* ON DELETE CASCADE of board_reads.
ReadWithout(i) == [j \in Slow |-> IF j = i THEN [b \in 1..MaxBoard |-> 0] ELSE read[j]]

\* DeleteUser, and the hang-up beside it. Posts stay, under the old id.
DeleteUser(i) ==
  /\ i \in users \ {Sysop}
  /\ users' = users \ {i}
  /\ read' = ReadWithout(i)
  /\ view' = [j \in Slow |-> IF j = i THEN NoView ELSE view[j]]
  /\ listed' = {l \in listed : l[1] # i}
  /\ UNCHANGED <<boards, posts, top>>

CreateBoard(sysopOnly) ==
  LET id == NextId({b.id : b \in boards})
  IN /\ id <= MaxBoard
     /\ boards' = boards \union {[id |-> id, sysopOnly |-> sysopOnly]}
     /\ UNCHANGED <<users, posts, read, view, top, listed>>

\* History keeps to the posts there are.
ListedOf(rows) == {l \in listed : \E p \in rows : p.id = l[2]}

\* DeleteBoard: its posts and marks go with it.
DeleteBoard(b) ==
  /\ b \in boards
  /\ boards' = boards \ {b}
  /\ posts' = {p \in posts : p.board # b.id}
  /\ read' = [i \in Slow |-> [read[i] EXCEPT ![b.id] = 0]]
  /\ listed' = ListedOf(posts')
  /\ UNCHANGED <<users, view, top>>

-----------------------------------------------------------------------------
(* Reading.                                                                *)

\* Posts: a board's newest MaxBoardPosts.
Posts(b) == {p \in posts : /\ p.board = b
                           /\ Cardinality({q \in posts : q.board = b /\ q.id > p.id}) < MaxBoardPosts}

\* unreadPosts, and the counters of Boards.
Unread(i, list) == {p \in list : p.id > read[i][p.board] /\ p.author # i}

\* boardsMenu: the session keeps its copy of the board it picked.
OpenBoard(i, b) ==
  /\ i \in users /\ b \in boards
  /\ view' = [view EXCEPT ![i] = [NoView EXCEPT !.board = {b}]]
  /\ UNCHANGED <<users, boards, posts, read, top, listed>>

\* boardView and newScan load the board's posts and read from all of them, or from
\* the unread ones among them.
List(i) ==
  \E b \in view[i].board :
    /\ view' = [view EXCEPT ![i].list = {Copy(p) : p \in Posts(b.id)}, ![i].at = {}]
    /\ listed' = listed \union {<<i, p.id>> : p \in {q \in posts : q.board = b.id}}
    /\ UNCHANGED <<users, boards, posts, read, top>>

\* markBoardRead.
Mark(old, id) == Max({old, id})

\* readPostsWith shows a post of the list. Without the board there is no row to
\* mark: the foreign key refuses it and the session goes on.
ReadPost(i, p) ==
  /\ p \in view[i].list /\ view[i].at # {p}
  /\ view' = [view EXCEPT ![i].at = {p}]
  /\ read' = IF \E b \in boards : b.id = p.board
             THEN [read EXCEPT ![i][p.board] = Mark(@, p.id)] ELSE read
  /\ UNCHANGED <<users, boards, posts, top, listed>>

-----------------------------------------------------------------------------
(* Writing and deleting.                                                   *)

\* Mutant: any post of that id is taken for the one replied to.
ThreadAnywhere(b, reply, id) ==
  LET to == {p \in posts : p.id = reply} IN IF to = {} THEN id ELSE (CHOOSE p \in to : TRUE).thread

\* The thread AddPost files a post under.
ThreadOf(b, reply, id) ==
  LET to == {p \in posts : p.id = reply /\ p.board = b}
  IN IF to = {} THEN id ELSE (CHOOSE p \in to : TRUE).thread

\* writePost and AddPost: the board, b when the session opened it, is looked up
\* again by its id.
AddPost(i, b, reply) ==
  LET id == NextId({p.id : p \in posts})
  IN /\ (b.sysopOnly => i = Sysop) /\ i \in users
     /\ \E now \in boards : now.id = b.id /\ (now.sysopOnly => i = Sysop)
     /\ id <= MaxPost
     /\ posts' = posts \union {[id |-> id, board |-> b.id, author |-> i,
                               thread |-> ThreadOf(b.id, reply, id), again |-> id <= top]}
     /\ top' = Max({top, id})
     /\ UNCHANGED <<users, boards, read, view, listed>>

Opened(i) == IF i \in Slow THEN view[i].board ELSE boards

Shown(i) == IF i \in Slow THEN view[i].at ELSE {Copy(p) : p \in posts}

NewPost(i) == \E b \in Opened(i) : AddPost(i, b, 0)

ReplyPost(i) == \E b \in Opened(i), p \in Shown(i) : p.board = b.id /\ AddPost(i, b, p.id)

\* DeletePost's check, on the row the id has now; the key itself was offered on
\* the copy.
MayDelete(i, p, row) == (p.author = i \/ i = Sysop) /\ (row.author = i \/ i = Sysop)

\* deletePost, after yesNo.
DeletePost(i) ==
  \E p \in Shown(i), row \in posts :
    /\ row.id = p.id /\ i \in users /\ MayDelete(i, p, row)
    /\ posts' = posts \ {row}
    /\ view' = IF i \in Slow THEN [view EXCEPT ![i].list = @ \ {p}, ![i].at = {}] ELSE view
    /\ listed' = ListedOf(posts')
    /\ UNCHANGED <<users, boards, read, top>>

Next ==
  \/ \E i \in Accounts :
       CreateUser(i) \/ DeleteUser(i) \/ NewPost(i) \/ ReplyPost(i) \/ DeletePost(i)
  \/ \E i \in Slow :
       \/ \E b \in boards : OpenBoard(i, b)
       \/ List(i) \/ (\E p \in view[i].list : ReadPost(i, p))
  \/ (\E o \in BOOLEAN : CreateBoard(o)) \/ (\E b \in boards : DeleteBoard(b))

Spec == Init /\ [][Next]_vars

-----------------------------------------------------------------------------
(* Properties.                                                             *)

\* A post is new to a caller until they have listed its board with the post on it,
\* whatever other sessions post, delete and clear away meanwhile: the last-read mark
\* (MarkBoardRead, unreadPosts) hides nothing that arrived after the list it was set
\* from. The exceptions are the caller's own id, and an id an earlier post had.
NothingSkipped ==
  \A i \in Slow : \A p \in posts \ Unread(i, posts) :
    i \in users /\ p.author # i => <<i, p.id>> \in listed \/ p.again

\* Threads keep to their board (AddPost looks the parent up by id and board): the
\* posts of a thread are on one board and came after the one that began it, even
\* when the post replied to is gone and its id belongs to another board's post.
ThreadsOnBoard ==
  \A p, q \in posts : p.thread = q.thread => p.board = q.board /\ p.id >= p.thread
====
