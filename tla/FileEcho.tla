---- MODULE FileEcho ----
(***************************************************************************)
(* File echoes: a TIC and the file it announces arrive apart, the tosser   *)
(* puts the file in its area and records it, callers list the area.        *)
(*                                                                         *)
(* Sources: internal/ftntoss/tic.go, internal/store/files.go,              *)
(* internal/bbs/files.go.                                                  *)
(*                                                                         *)
(* One area, one caller.  A file's content stands for its bytes, size and  *)
(* CRC: each TIC announces one of its own, and 0 is content none does.     *)
(* Every rename, remove and transaction is a step, and the tosser may stop *)
(* after any of them: an error ends the pass, unless the code goes on, and *)
(* a crash the process, and both leave the same.                           *)
(* Files arrive whole, and not over one that is still waiting (binkd).     *)
(***************************************************************************)
EXTENDS Integers, FiniteSets, FiniteSetsExt

CONSTANTS
  Names,     \* names of files
  MaxTics,   \* bound: TICs that arrive in a run
  MaxFile,   \* bound: highest file id
  MaxStops   \* bound: passes cut short

None    == -1
Damaged == 0
Old     == 1
Contents == 2..(MaxTics + 1)

VARIABLES
  inbox,   \* files in the inbound directory: name -> content or None
  tics,    \* TICs in the inbound directory, and whether they are a day old (late)
  disk,    \* the area's directory: name -> content or None
  rows,    \* the files table; history: again, an earlier file had the id;
           \* copy, AddFile put it in an older copy's place
  job,     \* the TIC being tossed and how far it is
  seen,    \* file_reads.last_seen_id of the caller
  list,    \* the newest file of the listing on the caller's screen, 0 for none
  arrived, \* history: TICs, the files, and the passes cut short so far
  top,     \* history: the highest file id ever given out
  listed,  \* history: ids of the rows that were in a listing
  torn     \* history: names whose file was put in place, but the pass stopped there

vars == <<inbox, tics, disk, rows, job, seen, list, arrived, top, listed, torn>>
reader == <<seen, list, listed>>

Idle == [tic |-> {}, at |-> "idle"]

\* The area has the files `old` of an earlier run, one at most, which nobody has listed.
Init ==
  \E old \in {{}} \union {{f} : f \in Names} :
    /\ inbox = [f \in Names |-> None]
    /\ disk = [f \in Names |-> IF f \in old THEN Old ELSE None]
    /\ rows = {[id |-> 1, name |-> f, crc |-> Old, again |-> FALSE, copy |-> FALSE] : f \in old}
    /\ top = IF old = {} THEN 0 ELSE 1
    /\ tics = {} /\ job = Idle /\ seen = 0 /\ list = 0
    /\ arrived = [tics |-> 0, files |-> {}, stops |-> 0] /\ listed = {} /\ torn = {}

-----------------------------------------------------------------------------
(* The mailer, and time.                                                   *)

\* Replaces that names the file itself is as good as none in tossTIC, so r is another name.
TicArrives(f, r) ==
  /\ arrived.tics < MaxTics
  /\ arrived' = [arrived EXCEPT !.tics = @ + 1]
  /\ tics' = tics \union
       {[crc |-> arrived.tics + 2, file |-> f, replaces |-> r, late |-> FALSE]}
  /\ UNCHANGED <<inbox, disk, rows, job, reader, top, torn>>

\* What nothing announces stays where it is, so only what a TIC announces is of
\* interest: its file, or a damaged one. Bound: each of them once.
FileArrives(f, c) ==
  /\ inbox[f] = None /\ c \notin arrived.files
  /\ \E t \in tics : t.file = f /\ c \in {t.crc, Damaged}
  /\ inbox' = [inbox EXCEPT ![f] = c]
  /\ arrived' = [arrived EXCEPT !.files = @ \union {c}]
  /\ UNCHANGED <<tics, disk, rows, job, reader, top, torn>>

\* ticWaitForFile passes, which only a TIC without its file will notice.
TicAges(t) ==
  /\ t \in tics /\ ~t.late /\ t \notin job.tic /\ inbox[t.file] = None
  /\ tics' = (tics \ {t}) \union {[t EXCEPT !.late = TRUE]}
  /\ UNCHANGED <<inbox, disk, rows, job, reader, arrived, top, torn>>

-----------------------------------------------------------------------------
(* tossTIC.                                                                *)

\* No file, and none for a day: the TIC goes to bad.
SetAsideLate(t) ==
  /\ job = Idle /\ t \in tics
  /\ inbox[t.file] = None /\ t.late
  /\ tics' = tics \ {t}
  /\ UNCHANGED <<inbox, disk, rows, job, reader, arrived, top, torn>>

\* The file does not check out: the TIC goes to bad, then the file.
SetAsideTic(t) ==
  /\ job = Idle /\ t \in tics
  /\ inbox[t.file] \notin {None, t.crc}
  /\ tics' = tics \ {t} /\ job' = [tic |-> {t}, at |-> "aside"]
  /\ UNCHANGED <<inbox, disk, rows, reader, arrived, top, torn>>

At(t, stage) == t \in job.tic /\ job.at = stage

SetAsideFile(t) ==
  /\ At(t, "aside")
  /\ inbox' = [inbox EXCEPT ![t.file] = None] /\ job' = Idle
  /\ UNCHANGED <<tics, disk, rows, reader, arrived, top, torn>>

\* findInDir and checkFile succeed.
Check(t) ==
  /\ job = Idle /\ t \in tics
  /\ inbox[t.file] = t.crc
  /\ job' = [tic |-> {t}, at |-> IF t.replaces = {} THEN "move" ELSE "replace"]
  /\ UNCHANGED <<inbox, tics, disk, rows, reader, arrived, top, torn>>

Replaced(t) == CHOOSE f \in t.replaces : TRUE

WithoutRows(gone) ==
  /\ rows' = rows \ gone
  /\ listed' = listed \ {r.id : r \in gone}

\* Mutant: the file is removed first and its row after it.
RemoveFileLast(t) ==
  /\ At(t, "replace")
  /\ disk' = [disk EXCEPT ![Replaced(t)] = None] /\ job' = [job EXCEPT !.at = "move"]
  /\ UNCHANGED <<inbox, tics, rows, seen, list, listed, arrived, top, torn>>

\* RemoveFile: the row of the file that is replaced. Without one, or when it fails,
\* nothing is removed from the disk either, and the toss goes on.
RemoveFile(t) ==
  /\ At(t, "replace")
  /\ \E gone \in {{}, {r \in rows : r.name = Replaced(t)}} :
        /\ WithoutRows(gone)
        /\ job' = [job EXCEPT !.at = IF gone = {} THEN "move" ELSE "unlink"]
  /\ UNCHANGED <<inbox, tics, disk, seen, list, arrived, top, torn>>

\* The file itself. When that fails it is left, and the toss goes on.
Unlink(t) ==
  /\ At(t, "unlink")
  /\ disk' \in {disk, [disk EXCEPT ![Replaced(t)] = None]} /\ job' = [job EXCEPT !.at = "move"]
  /\ UNCHANGED <<inbox, tics, rows, reader, arrived, top, torn>>

\* moveFile, over the copy that was there: the rename, or across file systems the
\* renaming of a finished copy, which leaves the file where it was.
MoveFile(t) ==
  /\ At(t, "move")
  /\ disk' = [disk EXCEPT ![t.file] = t.crc]
  /\ \/ inbox' = [inbox EXCEPT ![t.file] = None] /\ job' = [job EXCEPT !.at = "add"]
     \/ inbox' = inbox /\ job' = [job EXCEPT !.at = "copied"]
  /\ UNCHANGED <<tics, rows, reader, arrived, top, torn>>

\* moveFile's last step after a copy.
RemoveSource(t) ==
  /\ At(t, "copied")
  /\ inbox' = [inbox EXCEPT ![t.file] = None] /\ job' = [job EXCEPT !.at = "add"]
  /\ UNCHANGED <<tics, disk, rows, reader, arrived, top, torn>>

\* SQLite's id for the row, once the old copy's is deleted.
NextId(ids) == IF ids = {} THEN 1 ELSE Max(ids) + 1

\* AddFile: an old copy's row goes, and the new row comes.
AddFile(t) ==
  LET kept == {r \in rows : r.name # t.file}
      id   == NextId({r.id : r \in kept})
  IN /\ At(t, "add") /\ id <= MaxFile
     /\ rows' = kept \union {[id |-> id, name |-> t.file, crc |-> t.crc,
                               again |-> id <= top, copy |-> kept # rows]}
     /\ listed' = (listed \ {r.id : r \in rows \ kept}) \ {id}
     /\ top' = Max({top, id})
     /\ torn' = torn \ {t.file}
     /\ job' = [job EXCEPT !.at = "tic"]
     /\ UNCHANGED <<inbox, tics, disk, seen, list, arrived>>

\* The TIC goes to done.
FinishTic(t) ==
  /\ At(t, "tic")
  /\ tics' = tics \ {t} /\ job' = Idle
  /\ UNCHANGED <<inbox, disk, rows, reader, arrived, top, torn>>

\* The file is in its area, and AddFile is still to come.
InPlace == {"copied", "add"}

\* An error or a crash.
Stop ==
  /\ job # Idle /\ arrived.stops < MaxStops
  /\ job' = Idle /\ arrived' = [arrived EXCEPT !.stops = @ + 1]
  /\ torn' = torn \union {t.file : t \in {u \in job.tic : job.at \in InPlace}}
  /\ UNCHANGED <<inbox, tics, disk, rows, reader, top>>

-----------------------------------------------------------------------------
(* The caller.                                                             *)

\* fileAreaView loads the area and shows it; the marks on the new ones are from
\* before.
ListFiles ==
  /\ rows # {}
  /\ list' = Max({r.id : r \in rows})
  /\ listed' = listed \union {r.id : r \in rows}
  /\ UNCHANGED <<inbox, tics, disk, rows, job, seen, arrived, top, torn>>

\* Mutant: what is newest by then is marked.
MarkSeenNow ==
  /\ list # 0
  /\ seen' = Max({seen} \union {r.id : r \in rows}) /\ list' = 0
  /\ UNCHANGED <<inbox, tics, disk, rows, job, arrived, top, listed, torn>>

\* MarkFilesSeen, with the newest of the listing.
MarkSeen ==
  /\ list # 0
  /\ seen' = Max({seen, list}) /\ list' = 0
  /\ UNCHANGED <<inbox, tics, disk, rows, job, arrived, top, listed, torn>>

TossTic(t) ==
  \/ SetAsideLate(t) \/ SetAsideTic(t) \/ SetAsideFile(t) \/ Check(t) \/ RemoveFile(t)
  \/ Unlink(t) \/ MoveFile(t) \/ RemoveSource(t) \/ AddFile(t) \/ FinishTic(t)

Next ==
  \/ \E f \in Names : \E r \in {{}} \union {{g} : g \in Names \ {f}} : TicArrives(f, r)
  \/ \E f \in Names, c \in Contents \union {Damaged} : FileArrives(f, c)
  \/ \E t \in tics \union job.tic : TicAges(t) \/ TossTic(t)
  \/ Stop
  \/ ListFiles \/ MarkSeen

Spec == Init /\ [][Next]_vars

-----------------------------------------------------------------------------
(* Properties.                                                             *)

\* Every file a caller can find in the listing is on the disk, at every moment of a
\* toss and after a crash at any of them, and it is the copy the row describes
\* unless a toss of that name has put its file there and not reached AddFile.
FilesOnDisk ==
  \A r \in rows :
    /\ disk[r.name] # None
    /\ disk[r.name] = r.crc \/ r.name \in torn
         \/ (\E t \in job.tic : job.at \in InPlace /\ t.file = r.name)

\* A file that AddFile gave an id of its own stays new until it has been in a listing of
\* the caller's, however its arrival falls between the listing and its mark, and however
\* many files have gone or been replaced below it. What a row with an earlier file's id is
\* worth is NewCopyIsNew's question.
NewFilesCount == \A r \in rows : r.id <= seen => r.id \in listed \/ r.again

\* "A new copy is a new file: delete and insert, so it counts as new" (AddFile), until
\* it has been in a listing. It does not where the old copy had the highest id: SQLite
\* gives the id again, and the caller's mark is already there.
NewCopyIsNew == \A r \in rows : r.copy /\ r.id <= seen => r.id \in listed
====
