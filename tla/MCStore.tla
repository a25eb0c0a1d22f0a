---- MODULE MCStore ----
(* Five parts of the database that share no state in the model: boards, file  *)
(* areas, accounts, email addresses and the table of the rate limiters. A     *)
(* behaviour is one of one of them, as part says from the start; Parts are    *)
(* the ones a run is about.                                                   *)
EXTENDS Accounts

CONSTANTS Parts, MaxAccount, Slow, MaxBoardPosts, MaxPost, MaxBoard,
          Names, MaxTics, MaxFile, MaxStops,
          Users, Addrs, MaxTries, MaxCodes, MaxLives,
          Actors, Limit, Window, Retention, MaxTime, MaxFailed

\* Every limit lets something through (server.go:121, 168), and the rows are kept for longer
\* than any limiter looks back (throttle.go:7).
ASSUME LimitAssumption ==
  /\ IsFiniteSet(Actors) /\ MaxTime \in Nat /\ Limit \in Nat \ {0}
  /\ Window \in Nat /\ Retention \in Nat /\ Window <= Retention

\* There is room for the two boards of a new database (schema.go:105).
ASSUME BoardAssumption == MaxBoard \in Nat /\ MaxBoard >= 2

\* An account without an address has no address in its place.
ASSUME EmailAssumption == MaxTries \in Nat /\ "none" \notin Addrs

VARIABLES part,
  callers, boards, posts, read, view, top, listed,
  inbox, tics, disk, rows, job, seen, list, arrived, topFile, listedFiles, torn,
  life, lives, email, mode, pending, codes, proof,
  now, hits, hitRows, pc, at, unsaved, loaded, failed

boardVars   == <<callers, boards, posts, read, view, top, listed>>
fileVars    == <<inbox, tics, disk, rows, job, seen, list, arrived, topFile, listedFiles, torn>>
emailVars   == <<life, lives, email, mode, pending, codes, proof>>
limitVars   == <<now, hits, hitRows, pc, at, unsaved, loaded, failed>>

B == INSTANCE Boards WITH users <- callers
F == INSTANCE FileEcho WITH top <- topFile, listed <- listedFiles
E == INSTANCE Email
R == INSTANCE RateLimiter WITH disk <- hitRows

StoreInit ==
  /\ part \in Parts
  /\ Init /\ B!Init /\ F!Init /\ E!Init /\ R!Init
  /\ part # "files" => rows = {}

StoreNext ==
  /\ UNCHANGED part
  /\ \/ part = "boards" /\ B!Next /\ UNCHANGED <<fileVars, vars, emailVars, limitVars>>
     \/ part = "files" /\ F!Next /\ UNCHANGED <<boardVars, vars, emailVars, limitVars>>
     \/ part = "accounts" /\ Next /\ UNCHANGED <<boardVars, fileVars, emailVars, limitVars>>
     \/ part = "email" /\ E!Next /\ UNCHANGED <<boardVars, fileVars, vars, limitVars>>
     \/ part = "limits" /\ R!Next /\ UNCHANGED <<boardVars, fileVars, vars, emailVars>>

StoreSpec == StoreInit /\ [][StoreNext]_<<part, vars, boardVars, fileVars, emailVars, limitVars>>

\* The names of files are alike.
NamesAlike == Permutations(Names)

\* Boards: a post is new until the caller has listed its board.
NothingSkipped == B!NothingSkipped

\* Boards: a thread keeps to its board.
ThreadsOnBoard == B!ThreadsOnBoard

\* FileEcho: a listed file is on the disk, and is the copy its row describes.
FilesOnDisk == F!FilesOnDisk

\* FileEcho: a file is new until it has been in a listing.
NewFilesCount == F!NewFilesCount

\* FileEcho: a new copy counts as new.
NewCopyIsNew == F!NewCopyIsNew

\* Email: an address was proved by its owner, within the tries there are.
EmailProved == E!EmailProved

\* RateLimiter: memory and table agree on what counts.
DiskMatches == R!DiskMatches

\* RateLimiter: a limit is overrun by no more than those who had asked.
OverrunBounded == R!OverrunBounded
====
