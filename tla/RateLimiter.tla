---- MODULE RateLimiter ----
(***************************************************************************)
(* A persistent rate limiter and the callers it limits: loginFailures,     *)
(* signups, signupsAll and emailTarget of internal/bbs/server.go, for one  *)
(* key.                                                                    *)
(*                                                                         *)
(* Sources: internal/bbs/limiter.go, internal/store/throttle.go, and how   *)
(* login.go uses them: blocked() is asked first, the limited act (a signup,*)
(* a wrong password) happens later, and hit() counts it afterwards, in     *)
(* memory under the mutex and then in the database.                        *)
(*                                                                         *)
(* Nothing here depends on the order of the events in the slice or in the  *)
(* table, so both are bags: how many events happened at each time.         *)
(***************************************************************************)
EXTENDS Integers, FiniteSets

CONSTANTS
  Actors,     \* sessions under the same key
  Limit,      \* rateLimiter.limit
  Window,     \* rateLimiter.window, more than 0
  Retention,  \* throttleRetention, not less than any window (throttle.go:7)
  MaxTime,    \* bound: the clock stops here
  MaxFailed   \* bound: starts that cannot read the table

VARIABLES
  now,        \* the clock
  hits,       \* rateLimiter.hits[key]
  disk,       \* the throttle_hits rows of this bucket and key
  pc,         \* each session: idle, acting, acted, saving
  at,         \* the time hit() read before it took the mutex
  unsaved,    \* history: events whose INSERT failed since the last start
  loaded,     \* history: the last start could read the table
  failed      \* history: how many starts could not

vars == <<now, hits, disk, pc, at, unsaved, loaded, failed>>

Times   == 0..MaxTime
NoHits  == [t \in Times |-> 0]
Events(b) == UNION {{t} \X (1..b[t]) : t \in Times}
Size(b) == Cardinality(Events(b))
Only(b, T) == [t \in Times |-> IF t \in T THEN b[t] ELSE 0]

\* The events recent keeps are those after the cutoff.
WindowTimes == {t \in Times : t > now - Window}

Recent(b) == Only(b, WindowTimes)

Init ==
  /\ now = 0
  /\ hits = NoHits
  /\ disk = NoHits
  /\ pc = [a \in Actors |-> "idle"]
  /\ at = [a \in Actors |-> 0]
  /\ unsaved = NoHits
  /\ loaded = TRUE
  /\ failed = 0

\* Mutant: one more than the limit.
BlockedLate == Size(Recent(hits)) > Limit

Blocked == Size(Recent(hits)) >= Limit

\* blocked(): recent trims the slice; the caller goes on to the prompts when
\* there is room.
Ask(a) ==
  /\ pc[a] = "idle"
  /\ hits' = Recent(hits)
  /\ pc' = IF Blocked THEN pc ELSE [pc EXCEPT ![a] = "acting"]
  /\ UNCHANGED <<now, disk, at, unsaved, loaded, failed>>

\* The caller gives up, or what they did is not limited after all.
GiveUp(a) ==
  /\ pc[a] = "acting"
  /\ pc' = [pc EXCEPT ![a] = "idle"]
  /\ UNCHANGED <<now, hits, disk, at, unsaved, loaded, failed>>

\* The limited act, CreateUser or a password that did not match; hit reads the
\* clock before it takes the mutex.
Act(a) ==
  /\ pc[a] = "acting"
  /\ pc' = [pc EXCEPT ![a] = "acted"]
  /\ at' = [at EXCEPT ![a] = now]
  /\ UNCHANGED <<now, hits, disk, unsaved, loaded, failed>>

\* hit, under the mutex: trim and append.
HitMemory(a) ==
  /\ pc[a] = "acted"
  /\ hits' = [Recent(hits) EXCEPT ![at[a]] = @ + 1]
  /\ pc' = [pc EXCEPT ![a] = "saving"]
  /\ UNCHANGED <<now, disk, at, unsaved, loaded, failed>>

\* Mutant: the retention cuts into the window.
RetainedShort(t, b) == Only(b, {u \in Times : u >= t - (Window - 2)})

\* RecordHit's DELETE of rows older than the retention.
Retained(t, b) == Only(b, {u \in Times : u >= t - Retention})

\* hit, after the mutex: RecordHit inserts, then deletes; its error is logged.
HitDisk(a) ==
  /\ pc[a] = "saving"
  /\ pc' = [pc EXCEPT ![a] = "idle"]
  /\ at' = [at EXCEPT ![a] = 0]
  /\ \/ disk' = Retained(at[a], [disk EXCEPT ![at[a]] = @ + 1]) /\ UNCHANGED unsaved
     \/ disk' = [disk EXCEPT ![at[a]] = @ + 1] /\ UNCHANGED unsaved   \* DELETE failed
     \/ unsaved' = [unsaved EXCEPT ![at[a]] = @ + 1] /\ UNCHANGED disk
  /\ UNCHANGED <<now, hits, loaded, failed>>

\* LoadHits: the rows that are not older than the window.
LoadHits == Only(disk, {t \in Times : t >= now - Window})

\* The program dies, every session with it, and newPersistentLimiter loads the
\* table, or starts empty when it cannot.
Restart ==
  /\ \/ hits' = LoadHits /\ loaded' = TRUE /\ UNCHANGED failed
     \/ failed < MaxFailed /\ hits' = NoHits /\ loaded' = FALSE /\ failed' = failed + 1
  /\ pc' = [a \in Actors |-> "idle"]
  /\ at' = [a \in Actors |-> 0]
  /\ unsaved' = NoHits
  /\ UNCHANGED <<now, disk>>

Tick ==
  /\ now < MaxTime
  /\ now' = now + 1
  /\ UNCHANGED <<hits, disk, pc, at, unsaved, loaded, failed>>

Next ==
  \/ \E a \in Actors : Ask(a) \/ GiveUp(a) \/ Act(a) \/ HitMemory(a) \/ HitDisk(a)
  \/ Restart
  \/ Tick

Spec == Init /\ [][Next]_vars

-----------------------------------------------------------------------------
(* Properties.                                                             *)

Saving(t) == {a \in Actors : pc[a] = "saving" /\ at[a] = t}
Pending   == {a \in Actors : pc[a] \in {"acting", "acted"}}
HitsInWindow == Size(Recent(hits))

\* Inside the window, memory holds exactly what the database holds plus what is
\* on its way there or could not be saved: trimming, pruning and restarting in
\* any order lose no event that still counts (README.md:445).
DiskMatches ==
  loaded => \A t \in WindowTimes :
    hits[t] = disk[t] + Cardinality(Saving(t)) + unsaved[t]

\* The check comes before the act and the count after it, so the limit can be
\* overrun, but never by more than the sessions that had already asked, once for
\* every start that could not read the table.
OverrunBounded ==
  HitsInWindow + Cardinality(Pending) <= (failed + 1) * (Limit - 1 + Cardinality(Actors))
====
