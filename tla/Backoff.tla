---- MODULE Backoff ----
(***************************************************************************)
(* The per-handle login backoff: password checks for one handle, made from *)
(* several sessions at once.                                               *)
(*                                                                         *)
(* Sources: internal/bbs/backoff.go, limiter.go (stats, hit, reset),       *)
(* login.go (login, checkPassword), admin.go (SysopLogin).                 *)
(*                                                                         *)
(* Time is kept as ages: a Tick makes every recorded failure one older,    *)
(* and ages stop at Window, after which a failure counts for nothing.  The *)
(* slice in memory keeps its order, of which the last one decides; the     *)
(* table is read in order of age, so it is how many rows there are of each *)
(* age.  One session, Owner, has the right password; the others do not.    *)
(***************************************************************************)
EXTENDS Integers, Sequences, FiniteSets, SequencesExt

CONSTANTS
  Sessions,     \* sessions trying this handle
  Owner,        \* the one with the right password
  Free,         \* backoffFree
  Base,         \* backoffBase
  MaxDelay,     \* backoffMax
  Window,       \* backoffWindow
  MaxAttempts,  \* maxLoginAttempts
  MaxFails      \* bound: failures on record at once

ASSUME BackoffConstants ==
  /\ Owner \in Sessions /\ IsFiniteSet(Sessions)
  /\ Free \in Nat \ {0} /\ Base \in Nat \ {0} /\ MaxDelay \in Nat \ {0}
  /\ Base <= MaxDelay /\ MaxDelay < Window /\ Window \in Nat
  /\ MaxAttempts \in Nat \ {0} /\ MaxFails \in Nat \ {0}

VARIABLES
  busy,      \* loginBackoff.busy for this handle
  fails,     \* ages of the failures in memory, in the order they were appended
  disk,      \* how many rows throttle_hits has of each age
  pc,        \* each session: prompt, checking, failed, saving, passed, clearing, in
  age,       \* how old the failure is that the session is recording
  attempts,  \* login's attempt counter
  astray     \* history: memory and table may differ: a save, a clear or a load
             \* failed, or a clear overlapped the recording of a failure

limiter == <<fails, disk>>
vars == <<busy, limiter, pc, age, attempts, astray>>

Least(a, b) == IF a < b THEN a ELSE b

\* delayFor.
DelayFor(n) == IF n < Free THEN 0 ELSE Least(Base * 2^Least(n - Free, 10), MaxDelay)

Ages     == 0..Window
NoRows   == [t \in Ages |-> 0]
Fresh(t) == t < Window

\* The loop of recent, after each element, and what it leaves.
Kept(s) ==
  LET kept[i \in 0..Len(s)] ==
        IF i = 0 THEN <<>> ELSE IF Fresh(s[i]) THEN Append(kept[i - 1], s[i]) ELSE kept[i - 1]
  IN kept

Recent(s) == Kept(s)[Len(s)]

\* The wait begin computes: the last element of the slice decides, not the newest.
Wait ==
  LET r == Recent(fails)
  IN IF r = <<>> THEN 0 ELSE DelayFor(Len(r)) - r[Len(r)]

Init ==
  /\ busy = FALSE
  /\ fails = <<>> /\ disk = NoRows
  /\ pc = [s \in Sessions |-> "prompt"]
  /\ age = [s \in Sessions |-> 0]
  /\ attempts = [s \in Sessions |-> 0]
  /\ astray = FALSE

\* login's loop: the attempt is counted, and after the last one the caller is
\* disconnected; calling again starts from nothing.
CountAttempt(s) == attempts' = [attempts EXCEPT ![s] = (@ + 1) % MaxAttempts]

\* Mutant: begin does not look at busy.
AdmittedAlways == Wait <= 0

\* begin: no check for this handle is running, and the backoff has passed.
Admitted == ~busy /\ Wait <= 0

\* begin reserves the check.
Begin(s) ==
  /\ pc[s] = "prompt"
  /\ Admitted
  /\ busy' = TRUE
  /\ pc' = [pc EXCEPT ![s] = "checking"]
  /\ UNCHANGED <<limiter, age, attempts, astray>>

\* begin refuses: the caller is told to wait, and login counts an attempt.
Refuse(s) ==
  /\ pc[s] = "prompt"
  /\ ~Admitted
  /\ CountAttempt(s)
  /\ UNCHANGED <<busy, limiter, pc, age, astray>>

\* end(key, true): the reservation goes first.
Pass(s) ==
  /\ pc[s] = "checking" /\ s = Owner
  /\ busy' = FALSE
  /\ pc' = [pc EXCEPT ![s] = "passed"]
  /\ UNCHANGED <<limiter, age, attempts, astray>>

Rows == Cardinality(UNION {{t} \X (1..disk[t]) : t \in Ages})

\* end(key, false): the reservation goes first, and hit reads the clock.
Fail(s) ==
  /\ pc[s] = "checking" /\ s # Owner
  /\ Len(fails) + Cardinality({t \in Sessions : pc[t] = "failed"}) < MaxFails
  /\ Rows + Cardinality({t \in Sessions : pc[t] \in {"failed", "saving"}}) < MaxFails
  /\ busy' = FALSE
  /\ pc' = [pc EXCEPT ![s] = "failed"]
  /\ age' = [age EXCEPT ![s] = 0]
  /\ UNCHANGED <<limiter, attempts, astray>>

\* Mutant: the reservation is not dropped.
CheckErrorKeepsBusy(s) ==
  /\ pc[s] = "checking"
  /\ pc' = [pc EXCEPT ![s] = "prompt"]
  /\ attempts' = [attempts EXCEPT ![s] = 0]
  /\ UNCHANGED <<busy, limiter, age, astray>>

\* The check could not be made: release, and the session is over with the error.
CheckError(s) ==
  /\ pc[s] = "checking"
  /\ busy' = FALSE
  /\ pc' = [pc EXCEPT ![s] = "prompt"]
  /\ attempts' = [attempts EXCEPT ![s] = 0]
  /\ UNCHANGED <<limiter, age, astray>>

\* fails.hit in memory, and later in the table.
HitMemory(s) ==
  /\ pc[s] = "failed"
  /\ fails' = Append(Recent(fails), age[s])
  /\ pc' = [pc EXCEPT ![s] = "saving"]
  /\ astray' = (astray \/ \E t \in Sessions : pc[t] = "clearing")
  /\ UNCHANGED <<busy, disk, age, attempts>>

HitDisk(s) ==
  /\ pc[s] = "saving"
  /\ \/ disk' = [disk EXCEPT ![age[s]] = @ + 1] /\ UNCHANGED astray
     \/ UNCHANGED disk /\ astray' = TRUE
  /\ pc' = [pc EXCEPT ![s] = "prompt"]
  /\ age' = [age EXCEPT ![s] = 0]
  /\ CountAttempt(s)
  /\ UNCHANGED <<busy, fails>>

\* fails.reset in memory, and later in the table.
ResetMemory(s) ==
  /\ pc[s] = "passed"
  /\ fails' = <<>>
  /\ pc' = [pc EXCEPT ![s] = "clearing"]
  /\ astray' = (astray \/ \E t \in Sessions : pc[t] = "saving")
  /\ UNCHANGED <<busy, disk, age, attempts>>

\* Mutant: the login clears memory only.
ClearHitsNot == UNCHANGED <<disk, astray>>

\* ClearHits, whose error is only logged.
ClearHits == \/ disk' = NoRows /\ UNCHANGED astray
             \/ UNCHANGED disk /\ astray' = TRUE

ResetDisk(s) ==
  /\ pc[s] = "clearing"
  /\ ClearHits
  /\ pc' = [pc EXCEPT ![s] = "in"]
  /\ attempts' = [attempts EXCEPT ![s] = 0]
  /\ UNCHANGED <<busy, fails, age>>

\* The owner logs off and may come back.
LogOff(s) ==
  /\ pc[s] = "in"
  /\ pc' = [pc EXCEPT ![s] = "prompt"]
  /\ UNCHANGED <<busy, limiter, age, attempts, astray>>

Count(s, t) == Cardinality({i \in DOMAIN s : s[i] = t})

\* What LoadHits returns: every row, oldest first.
LoadHits ==
  {s \in SeqOf(Ages, MaxFails) :
     /\ \A t \in Ages : Count(s, t) = disk[t]
     /\ \A i \in 1..(Len(s) - 1) : s[i] >= s[i + 1]}

\* The program dies and starts again.
Restart ==
  /\ busy' = FALSE
  /\ \/ fails' \in LoadHits /\ astray' = FALSE
     \/ fails' = <<>> /\ astray' = (disk # NoRows)   \* the table cannot be read
  /\ pc' = [s \in Sessions |-> "prompt"]
  /\ age' = [s \in Sessions |-> 0]
  /\ attempts' = [s \in Sessions |-> 0]
  /\ UNCHANGED disk

Older(t) == Least(t + 1, Window)

\* Time passes.
Tick ==
  /\ fails' = [k \in DOMAIN fails |-> Older(fails[k])]
  /\ disk' = [t \in Ages |-> IF t = 0 THEN 0 ELSE disk[t - 1]]
  /\ age' = [s \in Sessions |-> IF pc[s] \in {"failed", "saving"} THEN Older(age[s]) ELSE 0]
  /\ UNCHANGED <<busy, pc, attempts, astray>>

CheckStep(s) == Pass(s) \/ Fail(s) \/ CheckError(s)
Record(s) == HitMemory(s) \/ HitDisk(s) \/ ResetMemory(s) \/ ResetDisk(s)

Next ==
  \/ \E s \in Sessions : Begin(s) \/ Refuse(s) \/ CheckStep(s) \/ Record(s) \/ LogOff(s)
  \/ Restart
  \/ Tick

\* Time passes, checks come to an end and are recorded, and the owner keeps
\* trying. Nobody else has to.
Fairness ==
  /\ WF_vars(Tick)
  /\ \A s \in Sessions : WF_vars(CheckStep(s)) /\ WF_vars(Record(s))
  /\ WF_vars(Begin(Owner) \/ Refuse(Owner))

Spec     == Init /\ [][Next]_vars
LiveSpec == Spec /\ Fairness

-----------------------------------------------------------------------------
(* Properties.                                                             *)

\* "Parallel guesses against one handle are refused while a check is running"
\* (README.md:436): one check at a time, and the reservation is held exactly as
\* long as one is running, so no path out of a check keeps it.
OneCheck ==
  /\ \A s, t \in Sessions : pc[s] = "checking" /\ pc[t] = "checking" => s = t
  /\ busy <=> \E s \in Sessions : pc[s] = "checking"

Quiet == \A s \in Sessions : pc[s] \notin {"saving", "clearing"}

\* With nothing on its way to the table, memory and table agree, unless a save,
\* a clear or a load failed or a successful login's clearing overlapped the
\* recording of a failure: a restart neither forgets failures nor brings back
\* those a login has cleared.
TableMatches ==
  Quiet /\ ~astray => \A t \in {u \in Ages : Fresh(u)} : Count(fails, t) = disk[t]

\* Nobody else starts a check, nothing breaks.
Undisturbed ==
  /\ ~Restart /\ ~CheckError(Owner)
  /\ \A s \in Sessions \ {Owner} : ~Begin(s)

\* Once the others leave the handle alone, the owner gets in: no reservation and
\* no backoff stays behind for ever, whatever had failed before.
OwnerGetsIn == <>[][Undisturbed]_vars => []<>(pc[Owner] = "in")
====
