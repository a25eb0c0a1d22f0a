# A TLA+ model of boar

boar is a bulletin board system: callers connect by telnet or SSH, get a node,
sign in, and use mail, boards, files, chat and doors; sysops work from the same
menus or from a web interface; a background tosser exchanges FidoNet mail. One Go
process serves everybody, one SQLite database keeps what must last. This
directory holds TLA+ modules of its parts, TLC configurations that check them on
small instances, and TLAPS proofs.

`PROJECT.json` is the index: components, runs, the source lines behind every
definition, the mutants that show each property can fail, the findings, the
hazards and the theorems.

    tlc -workers 2 -config MCCallers.cfg MCCallers  # one run
    tlapm LinesProofs.tla                           # one module's proofs

## The system

| Component | Module | State it keeps | What makes it hard | What must hold |
|---|---|---|---|---|
| Lines (`bbs/server.go`, `node.go`, `connlimit.go`, `ssh.go`, `cmd/boar/main.go`) | `Lines` | connection counters, node table, `closing`, wait group, login timers | two accept loops and one goroutine per caller; shutdown at any moment; hang-ups outside the lock; timers | counters exact and capped, every node held once, shutdown reaches everybody and ends, the database closes last |
| Callers (`login.go`, `session.go`, `admin.go`, `sysop_users.go`, `store/users.go`, `sshkeys.go`) | `Callers` | accounts, the account of each session, the account each node shows | a session is on an account before the node shows it; row ids come back | a lock or delete reaches its callers and only them |
| Accounts and web sessions (`store/users.go`, `sysop_users.go`, `approval.go`, `admin.go`, `web/`) | `Accounts` | sysop, locked and approved flags, the session table | two front ends at once; check and update are two statements; sessions outlive rights | there is a sysop who can run the board; whoever acts has the right |
| Login backoff (`backoff.go`) | `Backoff` | one reservation per handle, its failures | several sessions on one handle; errors; reset and hit overlap | one check at a time, no reservation left behind, owners get in |
| Rate limiters (`limiter.go`, `store/throttle.go`) | `RateLimiter` | recent events per key, in memory and in a table | check before the act, count after; memory before table; restarts | nothing that counts is forgotten; how far a limit can be overrun |
| Email verification (`store/email.go`, `bbs/email.go`) | `Email` | addresses, codes, tries, expiry | several lines of one account; wrong tries that must count; ids that come back | an address is proved by its own account, within the tries |
| Private mail (`store/messages.go`, `mail.go`, `compose.go`) | `Mailbox` | messages, threads, delete marks | two-sided delete, reused ids, lists out of date | a thread's name stays its own; nobody inherits mail |
| Boards (`store/boards.go`, `bbs/boards.go`) | `Boards` | boards, posts, threads, last-read marks | marks are row ids, ids come back, lists are out of date | new posts are shown as new; threads keep to their board |
| File echoes (`ftntoss/tic.go`, `store/files.go`, `bbs/files.go`) | `FileEcho` | inbound, area directory, rows, last-seen marks | four things changed one after the other, with a stop anywhere | a listed file is on the disk; new files are shown as new |
| Tosser (`ftntoss/toss.go`, `store/echo.go`, `ftn/inbound.go`) | `Toss` | inbound directories, what was tossed, echo areas, netmail | crashes in the middle of a bundle, two tossers, names used again | nothing lost, nothing twice, every file leaves |
| Outgoing netmail (`ftn/bso.go`, `route.go`, `cmd/boar-ftn`, `netmail.go`) | `Outbound` | packets, busy files, sent copies | writers and mailer share a packet; a router that is run again | nothing queued is lost, multiplied or left behind |
| Mail queue (`mailer/`) | `MailQueue` | a bounded channel, one worker, retries | Close, grace period, retries and late answers race | every accepted message settled once, in order; Close returns |
| Notices (`node.go`, `session.go`, `chatui.go`) | `Notices` | list and signal per node | lost wake-ups | a notice is shown |
| Teleconference (`chat.go`, `chatui.go`) | `Chat` | rooms, a bounded channel per member | slow readers, blocked callers, changes of room | all that is said in the room, in order |
| Doors (`bbs/doors.go`, `doors/`) | `Doors` | lock per door, process, pipes | exit, limit, hang-up and a program that does not read or forks | one caller at a time; every visit ends |

How they meet: an accept loop starts a goroutine per connection, which runs a
session on a node; sessions and the web call the store directly and each other
only through the node table (kick, notify), the chat hub and the limiters. The
database serialises its own statements. The tosser runs in the same process every
30 seconds, and `boar-ftn` in one of its own over the same spool and database. `run`
in `cmd/boar/main.go` starts the servers, waits for all of them, then closes the
mail queue and the database.

Rules the modules share. A SQL statement or transaction is one step, and so is what
runs under one mutex; everything else that two actors can do in between is two
steps. Row ids are the highest in use plus one, as SQLite gives them for an INTEGER
PRIMARY KEY, so the id of the newest row comes back once that row is gone. Variables
and fields marked *history* exist for the properties alone and guard nothing.

## Modules and runs

### Lines

State: `pc` (where the connection's goroutine is), `up` (the transport), the node
table `nodes` and `closing`, `total`/`perIP` of the connection limiter, the wait
group `wg`, each login `timer`, the nodes some `hangUpNode` is about to hang up
(`hangups`), and the server: `cancelled`, each loop's AfterFunc (`after`), each
`loop`, `storeOpen`. A connection is used once, so it also stands for the `*node`
and the Terminal the code keeps pointers to.

The actions follow the code: `AcceptReturns` and `Accept` are the two halves of
the loop's body, since a shutdown can come between them; `SetUp` is telnet
negotiation or the SSH handshake; `ServeCaller` the blocked check and
`nodes.acquire`; `LogIn`, `EndSession`, `Drop`, `TimerFires`, `TimerCuts` the
session; `DoorWaits`, `DoorOver` the one place where a session is not in a read of its
caller's line for an unlimited time, bridgeDoor's wait for the end of a door's output; `Unwind`, `CloseLine`, `Done` the defers in their order; `Kick`,
`CloseAll` collect under the lock and `HangUpNode` hangs up outside it;
`CloseListener`, `AcceptFails`, `LoopReturns`, `CloseStore` the shutdown.

Two MC modules have them beside another component, with which they share no state; `part`
says from the start which of the two a behaviour is one of.

* Run `sessions`, with `Mailbox`: three connections on two listeners, two of them from one
  address, one node, room for two connections in total and two per address. The caps are
  reached, callers are refused, and the shutdown can begin anywhere. `NodesExact`,
  `SlotsExact`, `ClosingReachesAll`, `StoreClosedLast`.
* Run `shutdown`, with the mail queue that `run` closes after the servers: two connections,
  one per listener. `ShutdownEnds`, `DeadLineFreed`, `LoginBounded`. Fairness: goroutines
  that can run do, the handshake deadlines, the login timer and reads on a closed transport
  come to an end, a closed listener's Accept fails. Nothing makes a caller log in, log
  off or drop, and nothing ends `DoorWaits`: a process the door left behind can hold its
  output for as long as it likes (doors.go:166). `ShutdownEnds` and `DeadLineFreed` are
  therefore conditional on sessions that leave the door again and again.

Deadlock is checked: the only state without a step but `Exited` would be a bug.

### Callers

State: the `users` table (owner, lock, key), each session's `pc`, `sess`
(`session.user.ID`), `shown` (`node.userID`), `keyUser` (what the SSH handshake
matched), and the sysop operations under way (`op`). `slipped` is history: who
was past the login check and not yet shown when a `kickUser` for their account
looked.

* Run `callers`: two people with a connection each, two ids, one sysop, starting from
  any accounts an earlier run of the server may have left.
  `LockedOrSlipped` says exactly who can stay on a locked account; `NoStrayHangup`
  that nobody else is hung up; `LockedLeaves` that whoever is shown on a locked
  account leaves in the end, unless their session waits for ever in a door. Fairness:
  started operations go on, reads of hung-up sessions fail, defers run; there is none
  for the end of a door's output. More connections and several operations at once are
  left to the proofs, which cover any number of both. Deadlock is not checked: when
  both connections have been used and nobody acts, the system rests.
* Run `key_identity` (finding): the handshake matches a key, the account is deleted and its
  id given to a newcomer, and only then does `KeyLogin` load the id.

### Backoff

Password checks for one handle by its owner and others. Time is kept as ages, so
no clock bounds the runs: a `Tick` makes every failure one older. Memory keeps the order
in which failures were appended, since `stats` takes the last one; the table is read in
order of age, so it is how many rows there are of each age, and `LoadHits` any sequence
of them, oldest first. `Begin`/`Refuse` is `begin`; `Pass`/`Fail`/`CheckError` drop the reservation; recording in memory
and in the table follows in steps of its own, as in `end`.

* Run `backoff`: three sessions, delays 0, 1, 2, 2, ..., window 3, at most three
  failures on record, database errors and restarts. `OneCheck`, `TableMatches`, and
  `OwnerGetsIn`. Fairness: time passes, checks end and are recorded, the owner keeps
  trying; nothing makes the others do anything.

### MailPromise and MailQueue

`MailPromise` is what the queue promises: what it accepts is settled once, in
order, and Close returns when everything is. `MailQueue` is the code: the channel,
the worker with its retries, the context, Close and its grace timer. The mapping
puts the settled messages, the one being delivered and the channel in a row.

* Run `shutdown`: four messages, capacity two, one retry. `KeepsPromise`, the
  refinement, and `CloseEnds`, `QueueMoves`. Fairness: every Send ends
  (`sendTimeout`), delays and the grace timer run out.

### Mailbox

State: `users` (account ids), `msgs` (the table), and per session the account
(`who`), copies of the letters it loaded (`list`), the one on the screen (`cur`) and
the letter being written (`draft`). Rows carry a history of their own: the
conversation `messageThread` put a letter in (`conv`). Every action is one statement or transaction;
between them sessions work on their copies, by row id. Which rows a query of the
mailbox returns is open (any the account can see), and so is whether a letter is
refused because of a block or a missing approval. `MarkRead` is left out: no other
operation looks at the mark except to count and to list, which is open.

* Run `sessions`: two accounts, two sessions, mailboxes of one letter, three letters;
  a session looks at one letter of a list and one letter is written at a time. Three
  letters are enough for a reply to a reply, and for a thread whose first letter is
  gone; several recipients, letters to oneself, deleted accounts and sessions that stay
  on them all happen. `NothingToInherit`, `EveryRowSeen`, `ThreadsApart`.

### The store's other tables: Boards, FileEcho, Accounts, Email, RateLimiter

Five modules that share no state in the model: `MCStore` extends `Accounts`,
instantiates the other four, picks one of `Parts` at the start (`part`), and the rest stay
as they were. A counterexample of one is a counterexample of that module alone.

`Boards`: boards, posts, marks, and what a session of a `Slow` account keeps: the
board it opened, the posts it listed, the post on the screen. Other accounts act on
what is there, as a session does that has just looked. Approval of new callers is
left out: who may not post does nothing. `NothingSkipped` says what the last-read
mark can hide, `ThreadsOnBoard` that a reply to a post that is gone cannot end up in
another board's thread. Bounds: two accounts, two boards, two posts at a time; a
third post comes after a delete, on an id that has been used, which is the case in
question.

`FileEcho`: `tossTIC` step by step: the check, the row of the replaced file and the
file itself, the move, the row, the TIC. The move is a rename, or, to another file system,
a copy and then the removal of the source (`RemoveSource`). `Stop` is an error or a crash
after any of them, and every removal of a file may fail, as the code goes on then. The area
is empty at first or has one file of an earlier run; two TICs come for two names that are
alike (symmetry), each may replace the other's file, each file is whole or damaged, and one
pass is cut short. A new copy on an id of its own needs an older copy below another file's
id: the file from before, then one TIC for the other name and one for the same.
`FilesOnDisk`, `NewFilesCount`, and `NewCopyIsNew` in a run of its own.

`Accounts`: the table, the web's session table, and one operation of each front end:
`View` and `Key` on a telnet line, `Request` with a session, `Check` the front end's
look at the account, `Require` the store's, `Update` the statement after it;
`DeleteUser` is one transaction. `SysopMenu`, `Key` and `ActOnBoard` are the sysop menu's
own keys, kick and broadcast, which look at the right before the key only. Two accounts are
enough for sysops to act on each other and on themselves. `SysopRemains`, and `RightsChecked`
in a run of its own. That property is checked on the whole module, the reload of every web
request and of every change of an account included, but its only counterexamples are the two
keys of the menu.

`Email`: per account its address, mode and the row of `email_verifications`; any line
of the account may ask, confirm or remove in any order. Codes are numbered, so none
is guessed. Two ids, two addresses, two codes, two wrong tries, and each id has two
owners one after the other. `EmailProved`.

`RateLimiter`: one key of a persistent limiter, with the sessions under it, a clock, the
table and restarts. Memory and table are bags of times, since no operation here depends
on order. `Ask` (blocked), `Act` (the limited act; `hit` reads the clock),
`HitMemory`, `HitDisk` are separate steps; inserts, prunes and loads can fail. Two
sessions, limit 2, window and retention 2, the tightest the assumption allows, and a clock
up to 3: an event leaves the window and then the table, so expiry, pruning and reloading
all happen with sessions anywhere in between.
`DiskMatches`, `OverrunBounded`. The limit itself is not kept: README.md:441 of the
repository has "at most `-max-signups` new accounts a day", but callers at the prompts
together have all asked already.

* Run `store`. Deadlock is not checked: where a bound counts what arrives in a run
  (TICs, the clock), a run ends when it is used up.
* Runs `new_copy` and `sysop_kick` (findings).

### FidoNet: Toss and Outbound

`Toss`: the mailer leaves bundles under names it uses again; a pass hashes a file,
looks the hash up, opens what has the name by then, imports message by message, marks
the hash and moves whatever has the name. Any of these can be the last before a crash,
and an import can fail. A bundle is a sequence of messages, each in a packet that is
fine, spoilt or too large: `EachPacket` passes over the last two, and a bundle cannot be
read (`Unreadable`) only when a packet was spoilt and none was fine. One caller lists and reads the echo area while it is pruned.
`NothingLost`, `EchoOnce`, `EchoNothingSkipped`, and `BundlesLeave`. Fairness: the BBS
goes on with a pass and starts the next (`RunTosser`'s ticker; a crashed process is
started again).

`Outbound`: `Queue` under the node's `.bsy` file, called by a session for a letter
(`sendNetmail`, with its retries and the sent copy) and by `boar-ftn route` for each
message of a file that can be read, which stops at the first that fails and is run again;
the mailer takes the same `.bsy` for its session, and removes one whose process died
(`KillOldBsy`; `deploy/binkd.cfg` sets `kill-old-bsy 12h`). `QueueKeeps`, `RoutedQueued`, and `QueuedIsSent`.
Fairness: processes go on with what they are doing, the mailer calls nodes it has mail
for, ends its sessions and clears old `.bsy` files. A live holder is done well within the
12 hours, so only a dead one's file is removed.

The bundles, the files to route and the routes are constants; the `.cfg` files give them
the values that `MCFido` defines (`MCBundles`, `MCFiles`, `MCHop`), the proofs leave them
open.

* Run `fido`: two names, two bundles that share a message, one of them with a spoilt and a
  too large packet between its others, one that is not readable and an empty one, two
  deliveries, an area of two messages, one fault; two letters, one of them without a route,
  a file with a message of the node's own and one in a spoilt packet, one with a message
  that has no route and one that cannot be read, two tries, two runs of `route`, one fault. An area of two
  is pruned by the third message. Deadlock is not checked: with every letter sent and
  `route` run as often as the bound lets it, nothing is left to do.
* Run `toss_cli` (finding): both tossers. Run `route_skips` (finding): `route` alone.

### Online: Chat, Notices, Doors

`Chat`: the hub's operations are one step each; a caller in chat has a session and a
`forward` goroutine. Lines, announcements included, are numbered as the hub takes
them. `ChatComplete` relates what a caller saw and what is in their channel to what
was said in their room since they came in.

`Notices`: `notify` and `broadcast` reach one node after the other under the table's
lock; `addNotice` appends, then signals. A prompt takes the list without the signal,
the chat's `forward` after it. `NoticeWakes`, `ChatShows`. Fairness: goroutines run, and
select picks at random among what is ready, so that neither a stream of notices nor
`done` is passed over for ever.

`Doors`: one visit of each caller to one single-node door, with the goroutines of
`bridgeDoor`, `cmd.Wait` and the watcher of the context, the program and a child of it
that may leave the process group. A visit ends in `Pause`, which waits for a key with the
lock still held; a failed read or the session's idle deadline ends the wait too, so it has
fairness although the caller need not press anything. Programs, children and callers do as
they like; fairness is for the BBS's own goroutines and for time. `DoorForOne`, `DoorEnds`.

* Run `online`: two callers; two rooms, a backlog of two, five lines, one caller who
  blocks the other; one pending notice per node and three sent, so that lists are full,
  taken by a prompt and signalled late; a door by pipes and one that connects back.
  Deadlock is not checked: when both callers have hung up nothing is left to do.

Every action of these modules happens in a passing run, and for every property of
a passing run a mutant of the code's logic, kept beside the definition it changes,
makes TLC find it violated.

## Findings

Each is the counterexample of a run that is expected to fail.

| Run | What the code does | What is said of it |
|---|---|---|
| `key_identity` | a key login can end on the account that got the deleted one's id | login.go:172 |
| `new_copy` | a new copy of the file with the highest id gets that id again and is not new to whoever saw the old one | files.go:98 |
| `sysop_kick` | kick and broadcast act on a right looked at before the key was pressed | README.md:232 |
| `route_skips` | `boar-ftn route` puts a bundle away with the messages of packets it could not read | main.go:348 |
| `toss_cli` | `boar-ftn toss` has no addresses of its own, passes over netmail and marks its bundle as tossed | README.md:328 |

Where a property names an exception, the exception is something the code does:

* `LockedOrSlipped`: a caller between the login check and `setUser` survives a lock,
  although README.md:225 has "locking hangs them up at once".
* `OneCheck` holds, but `end` drops the reservation before it counts the failure, so a
  check can start in between without the wait README.md:435 speaks of.
* `SysopRemains`: two sysops who lock or demote each other in the same moment leave
  none (`requireActor` and the UPDATE are two statements), and a locked sysop's line acts
  until it is hung up. `-sysop` promotes and approves but does not unlock.
* `NothingSkipped`, `NewFilesCount`: a post or file on an id that an earlier one had is
  not new to anybody who had seen that one; of a file this contradicts the code's own words
  (`NewCopyIsNew`). Echo areas do not have this: they lose their
  oldest rows, and `EchoNothingSkipped` has no exception.
* `NothingLost`: a bundle that first came through the insecure inbound counts as tossed,
  so the same bundle from the secure one is not imported. `NothingLost` and `RoutedQueued`
  are about packets that can be read: the others of a ZIP bundle are passed over by design
  (inbound.go:29) and go to `tossed/` or `-done` with it.
* `ShutdownEnds`, `DeadLineFreed`, `LockedLeaves`: a session that waits for the output of a
  door (below) is reached by no hang-up, so it keeps its node, its account and a shutdown.
* `TableMatches`: a failure recorded while a login's `reset` is between memory and table is
  in one of them only.
* `DoorEnds`: when the program exits by itself and leaves a child with its output,
  `bridgeDoor`'s `case <-p.Done()` waits for that output without Kill, so neither the limit
  nor a hang-up ends the visit before the child does (doors.go:69 has "until it exits, the time limit passes or the caller hangs up").
* `FilesOnDisk`: a pass that stops between the move and AddFile leaves the new file under
  the old row, and a TIC that goes to bad a day later.

Read in the code, without a run of their own: a session that signs in between a
delete's `kickUser` and the delete itself is online on an account that is gone until
it next visits the main menu (admin.go:199); a message the relay took and whose QUIT
failed is tried again or reported failed (mailer.go:152), although mailer.go:34 has
"delivers a message or reports why it couldn't"; a reply to a letter that was purged
meanwhile joins the thread of the letter that has its id by then, if the sender can see
that one (messages.go:109); nothing reserves the next password check
for the owner who waited for it (backoff.go:43); a try the backoff refuses uses up one
of the caller's attempts (login.go:129); readMail marks a letter read by the id in its
list, which may be another letter's by then (mail.go:209); the web's pages name accounts
by id, which may be a newcomer's by the time the form is sent.

## Proofs

Every invariant of every passing run is a theorem, and so is the refinement of
`MailPromise`. All proofs hold for every value of the constants, bounds included, that
satisfies the named ASSUME of the module, which TLC evaluates on every run that uses it:

| Assumption | What it says | Why the code justifies it |
|---|---|---|
| `LinesConstants`, `CallersConstants`, `MailboxConstants`, `MailQueueConstants` | finitely many connections, at least one node, positive limits, `None` different from the values it stands beside | flags are checked at the start; the rest is the model's own |
| `BackoffConstants` | the longest delay is shorter than the window; finitely many sessions | the constants of backoff.go |
| `LimitAssumption` | rows are kept at least as long as any limiter looks back, and a limit lets something through | throttle.go:7; server.go:121, 168 |
| `BoardAssumption`, `EmailAssumption`, `OnlineAssumption` | room for the two boards of a new database; the model's names for nobody and nothing are nobody's | schema.go:105 |
| `TossAssumption` | a bundle is a sequence of messages, an area holds one at least | `EachMessage`, `MaxEchoMessages` |
| `QueueAssumption` | the messages of a file are told apart by their place in it, and differ from the letters | they are counted, not compared, in the code |

`NoMailLost` has a hypothesis of its own, that the BBS is the only tosser. Without it the
theorem is false: `boar-ftn toss` marks bundles whose netmail it did not take (run
`toss_cli`).

* `LinesProofs`: `TypeCorrect`, `NodeTableExact`, `LimiterExact`,
  `CloseAllReachesAll`, `StoreOutlivesSessions`. The inductive invariant adds to the
  properties that the three counters equal the sizes of the sets of connections in
  the counted stages (the caps follow from the counts, not from each other), and
  that when every loop has returned the wait group is at zero: a loop that is still
  accepting keeps the store open, so the race between two loops does no harm.
* `CallersProofs`: `TypeCorrect`, `LockReachesShown`, `HangupsTheirs`. The invariant
  has the shape of sessions (on a node exactly what the session is on), of
  operations, and two statements about locked accounts: who is unshown on one after
  its `kickUser` has slipped, and so has who is online on one. The second is not
  inductive without the first.
* `BackoffProofs`: `Exclusive`, that the reservation is held exactly while a check
  runs. `OneCheck` is inductive by itself; steps are sorted into those that start a
  check, end one, or do neither. `TableIsMatched`: between steps a failure in the window
  is in memory as often as in the table or on its way there, and while a login's clearing
  is between the two, memory is empty and nothing is on its way. That `recent` keeps
  every failure in the window, as often as it was there, is a lemma about its loop.
* `MailQueueProofs`: `Refines`, that `MailQueue` implements `MailPromise`. The
  invariant links worker, closer and channel; the work is in the lemmas on
  concatenation that show taking and settling a message leave the accepted sequence
  alone.
* `MailboxProofs`: `TypeCorrect`, `ThreadsStayApart`, `NobodyInherits`,
  `NothingLeftBehind`. The invariant adds that a thread's name is never above the id of
  a row in it: a new row's id is above all ids in use, so it is no thread's name yet.
  With the highest row gone an id can come back, but then no row of that thread is left.
  `EveryRowSeen` and `NothingToInherit` need each other when an account is deleted.
* `OnlineProofs`, notices: `TypeCorrect`, `NoNoticeUnsignalled`. The invariant adds to
  `NoticeWakes` that at most one addNotice is at work, which the table's lock gives, and
  that no `forward` outlives its visit to the chat with a signal in its hand: without the
  first a Signal, without the second an EnterChat would break it. Doors: `OneInDoor`; the
  places of a visit between TryLock and the deferred Unlock are those of the lock's
  holder. Chat: `ChatIsComplete`; the rooms' maps agree with the callers' rooms, and a new
  visit begins with an empty channel. The lines a step adds are then appended to what a
  member gets, or passed over, in the order of the hub.
* `StoreProofs`, accounts: `SysopStays`. The invariant has a half for the operations
  (past `requireActor`, a lock or a demotion is not of the actor) and one for the table (every sysop is
  approved, one is not locked). An unlocked actor who changes somebody else is the sysop
  who remains; all other changes take nothing away.
* `StoreProofs`, rate limiters: `LimiterMatchesTable`, inductive with the types and the
  fact that no event is later than the clock: pruning reaches back from an event's time,
  which is not above the clock's, by at least the window. `LimitOverrun` is not inductive,
  because a restart makes memory what the table is: the invariant bounds the table and
  what is on its way there in the same way, and says that both together have no more than
  memory has, but for what an unreadable table left out, after *every* time in the window.
  A bound for the window alone would not survive a Tick.
* `StoreProofs`, file echoes: `FilesStayOnDisk`, from what each stage of `tossTIC` knows
  of the ones before (no row is left of the file to remove; the moved or copied file is there);
  `NewFilesStayNew`: marks and screens are not above the newest id ever given out, and a
  row below them was listed or has an id that is used again.
* `StoreProofs`, boards: `NoPostSkipped`; what holds of a mark has to hold of every copy
  in a list, since reading turns one into the other, and an id without an account has
  neither, or its next owner would inherit them. `ThreadsKeepToBoard`: a thread's name is
  never above the id of a post in it, as in `MailboxProofs`.
* `StoreProofs`, email: `AddressesAreProved`; the waiting row is about a code of the
  owner's present life and has counted the tries at it, which is what a confirmation
  turns into a proof.
* `FidoProofs`, incoming: `EchoHoldsOnce`, `NoEchoSkipped`; ids are unique and a mark is
  never above the newest row, because pruning takes the oldest and an area keeps one at
  least. `NoMailLost`: the file in hand is under its name with the content that was
  hashed, what can be read of it and is not to come has been stored, so of a marked content
  all that can be read has been, and a file in tossed/ has a marked content.
* `FidoProofs`, outgoing: `RoutedIsQueued`, `QueuedIsKept`. Both rest on the invariant of
  the `.bsy` file: from Lock to Unlock a writer holds its node's, so what it is about to
  write is the packet that is there plus its message. Routing adds that everything before
  the message in hand is settled: queued, the node's own, or in a packet that was passed over; counting adds that a letter not yet queued has no copy
  and that a message the run has not come to is out less often than route was run.

The provers have no rule for induction over data. Where a loop or a greatest element has
to be reasoned about, the lemmas take the least number for which the statement fails
(`WFMin` with `NatLessThanWellFounded`) and derive a contradiction.

Only model-checked: liveness (`ShutdownEnds`, `DeadLineFreed`, `LoginBounded`,
`LockedLeaves`, `OwnerGetsIn`, `CloseEnds`, `QueueMoves`, `BundlesLeave`, `QueuedIsSent`,
`ChatShows`, `DoorEnds`), since the prover has no rules for fairness and ENABLED; and every
counterexample.

## Plan

1. An abstract specification of the tosser (a bundle arrives, is stored, is gone) that
   `Toss` implements, and one of the packet queue that `Outbound` implements: today only
   the mail queue has one.
2. Action properties that follow from the invariants at hand: a mark never goes back, a
   row in `tossed` stays there, a settled message is not queued again in the same run.

## Not modelled

Screens, menus, editor and art, character sets, packet encoding, drop files and the SMTP
dialogue are formatting and byte formats without interleaving; the repository tests them by
example. Telnet's option negotiation is a conversation of one connection with itself: no
other actor's step comes between its own. Password hashing, SSH and SQLite are libraries.
News, one-liners, the event log and blocks are single SQL statements with no state between
them. File links are a computation on strings and transfers an external program.
