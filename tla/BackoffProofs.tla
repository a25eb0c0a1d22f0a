---- MODULE BackoffProofs ----
(****************************************************************************)
(* The login backoff, for any number of sessions and any delays.            *)
(*                                                                          *)
(* The reservation. OneCheck is inductive once pc and busy have their       *)
(* types; steps are sorted into those that start a check, end one, or do    *)
(* neither.                                                                 *)
(*                                                                          *)
(* Memory and table. In between steps a failure is in memory as often as    *)
(* in the table or on its way there. While a login's clearing is between    *)
(* the two, memory is empty and nothing is on its way; whatever breaks      *)
(* that sets astray. recent is a loop, and what it leaves is found with     *)
(* the least place where it would leave something else.                     *)
(****************************************************************************)
EXTENDS Backoff, FiniteSetTheorems, SequenceTheorems, WellFoundedInduction, TLAPS

\* The places of a session.
Stages == {"prompt", "checking", "failed", "saving", "passed", "clearing", "in"}

\* What the proof needs to know of the types.
Stage == pc \in [Sessions -> Stages] /\ busy \in BOOLEAN

\* OneCheck is inductive once pc and busy have their types.
IInv == Stage /\ OneCheck

\* Nobody is checking in the beginning.
LEMMA InitIInv == Init => IInv
BY DEF Init, IInv, Stage, OneCheck, Stages

\* A session moves between stages other than the check itself, and leaves the
\* reservation alone.
Aside(s) ==
  /\ pc[s] # "checking"
  /\ busy' = busy
  /\ \E q \in Stages \ {"checking"} : pc' = [pc EXCEPT ![s] = q]

\* A session leaves the check and drops the reservation.
Ends(s) ==
  /\ pc[s] = "checking"
  /\ busy' = FALSE
  /\ \E q \in Stages \ {"checking"} : pc' = [pc EXCEPT ![s] = q]

\* Steps that do not concern the reservation preserve it.
LEMMA AsideKeeps ==
  ASSUME IInv, NEW s \in Sessions, Aside(s)
  PROVE  IInv'
<1>1. PICK q \in Stages \ {"checking"} : pc' = [pc EXCEPT ![s] = q]
  BY DEF Aside
<1>2. \A t \in Sessions : pc'[t] = "checking" <=> pc[t] = "checking"
  BY <1>1 DEF Aside, IInv, Stage
<1> QED
  BY <1>1, <1>2 DEF Aside, IInv, Stage, OneCheck

\* The check that ends was the only one.
LEMMA EndsKeeps ==
  ASSUME IInv, NEW s \in Sessions, Ends(s)
  PROVE  IInv'
<1>1. PICK q \in Stages \ {"checking"} : pc' = [pc EXCEPT ![s] = q]
  BY DEF Ends
<1>2. \A t \in Sessions : pc'[t] # "checking"
  BY <1>1 DEF Ends, IInv, Stage, OneCheck
<1> QED
  BY <1>1, <1>2 DEF Ends, IInv, Stage, OneCheck

\* A check starts only when none is running.
LEMMA BeginKeeps ==
  ASSUME IInv, NEW s \in Sessions, Begin(s)
  PROVE  IInv'
<1>1. ~busy /\ busy' = TRUE /\ pc' = [pc EXCEPT ![s] = "checking"]
  BY DEF Begin, Admitted
<1>2. \A t \in Sessions : pc'[t] = "checking" <=> t = s
  BY <1>1 DEF IInv, Stage, OneCheck
<1> QED
  BY <1>1, <1>2 DEF IInv, Stage, Stages, OneCheck

\* Every step keeps the invariant.
LEMMA StepIInv == IInv /\ [Next]_vars => IInv'
<1> SUFFICES ASSUME IInv, [Next]_vars
             PROVE  IInv'
  OBVIOUS
<1>1. ASSUME NEW s \in Sessions, Begin(s) PROVE IInv'
  BY <1>1, BeginKeeps
<1>2. ASSUME NEW s \in Sessions, CheckStep(s) PROVE IInv'
  <2>1. Ends(s)
    BY <1>2 DEF CheckStep, Pass, Fail, CheckError, Ends, Stages
  <2> QED
    BY <2>1, EndsKeeps
<1>3. ASSUME NEW s \in Sessions, Record(s) \/ LogOff(s) PROVE IInv'
  <2>1. Aside(s)
    BY <1>3 DEF Record, HitMemory, HitDisk, ResetMemory, ResetDisk, LogOff, Aside, Stages
  <2> QED
    BY <2>1, AsideKeeps
<1>4. ASSUME pc' = pc, busy' = busy PROVE IInv'
  BY <1>4 DEF IInv, Stage, OneCheck
<1>5. ASSUME NEW s \in Sessions, Refuse(s) PROVE IInv'
  BY <1>4, <1>5 DEF Refuse
<1>6. CASE Restart
  <2>1. busy' = FALSE /\ pc' = [s \in Sessions |-> "prompt"]
    BY <1>6 DEF Restart
  <2> QED
    BY <2>1 DEF IInv, Stage, Stages, OneCheck
<1>7. CASE Tick
  BY <1>4, <1>7 DEF Tick
<1>8. CASE UNCHANGED vars
  BY <1>4, <1>8 DEF vars
<1> QED
  BY <1>1, <1>2, <1>3, <1>5, <1>6, <1>7, <1>8 DEF Next

\* begin's reservation works: never two checks for a handle at once, and it is
\* held exactly while one is running.
THEOREM Exclusive == Spec => []OneCheck
<1>1. Init => IInv
  BY InitIInv
<1>2. IInv /\ [Next]_vars => IInv'
  BY StepIInv
<1>3. IInv => OneCheck
  BY DEF IInv
<1> QED
  BY <1>1, <1>2, <1>3, PTL DEF Spec

-----------------------------------------------------------------------------
(* What recent leaves. The provers have no induction; a statement about    *)
(* all naturals is shown by the least one for which it fails.              *)

LEMMA LeastNat ==
  ASSUME NEW S \in SUBSET Nat, S # {}
  PROVE \E m \in S : \A y \in S : m <= y
<1>1. PICK m \in S : \A y \in S : ~(<<y, m>> \in OpToRel(<, Nat))
  BY NatLessThanWellFounded, WFMin
<1>2. \A y \in S : ~(y < m)
  BY <1>1 DEF OpToRel
<1> QED
  BY <1>2

\* One turn of the loop of recent, and that g is what it has after each of n turns.
Turn(g, s, i)  == IF i = 0 THEN <<>> ELSE IF Fresh(s[i]) THEN Append(g[i - 1], s[i]) ELSE g[i - 1]
Trims(g, s, n) == g = [i \in 0..n |-> Turn(g, s, i)]

LEMMA TrimExists == ASSUME NEW s, NEW n \in Nat PROVE \E g : Trims(g, s, n)
<1> SUFFICES ASSUME ~\E g : Trims(g, s, n) PROVE FALSE
  OBVIOUS
<1> DEFINE Bad == {m \in Nat : ~\E g : Trims(g, s, m)}
<1>1. PICK m \in Bad : \A y \in Bad : m <= y
  BY LeastNat
<1>2. m # 0
  <2>1. \A i \in 0..0 : i = 0
    OBVIOUS
  <2>2. Trims([i \in 0..0 |-> <<>>], s, 0)
    BY <2>1 DEF Trims, Turn
  <2> QED
    BY <1>1, <2>2
<1>3. m \in Nat /\ m - 1 \in Nat /\ m - 1 \notin Bad
  BY <1>1, <1>2
<1>4. PICK g : Trims(g, s, m - 1)
  BY <1>3
<1> DEFINE h == [i \in 0..m |-> IF i = m THEN Turn(g, s, m) ELSE g[i]]
<1>5. ASSUME NEW i \in 0..m PROVE h[i] = Turn(h, s, i)
  <2>1. CASE i = m
    <3>1. h[m - 1] = g[m - 1]
      BY <1>1, <1>3
    <3> QED
      BY <1>1, <1>2, <2>1, <3>1 DEF Turn
  <2>2. CASE i # m
    <3>1. i \in 0..(m - 1)
      BY <1>3, <2>2
    <3>2. g[i] = Turn(g, s, i)
      BY <1>4, <3>1 DEF Trims
    <3>3. h[i] = g[i]
      BY <2>2
    <3>4. i # 0 => h[i - 1] = g[i - 1]
      BY <1>3, <3>1
    <3> QED
      BY <3>2, <3>3, <3>4 DEF Turn
  <2> QED
    BY <2>1, <2>2
<1>6. Trims(h, s, m)
  BY <1>5 DEF Trims
<1> QED
  BY <1>1, <1>6

LEMMA KeptIs == ASSUME NEW s, Len(s) \in Nat PROVE Trims(Kept(s), s, Len(s))
<1>1. \E g : g = [i \in 0..Len(s) |-> Turn(g, s, i)]
  BY TrimExists DEF Trims
<1>2. Kept(s) = CHOOSE g : g = [i \in 0..Len(s) |-> Turn(g, s, i)]
  BY DEF Kept, Turn
<1> QED
  BY <1>1, <1>2 DEF Trims

Places(s, n, t) == {i \in 1..n : s[i] = t}

LEMMA PlacesFinite ==
  ASSUME NEW s, NEW n \in Nat, NEW t
  PROVE IsFiniteSet(Places(s, n, t)) /\ Cardinality(Places(s, n, t)) \in Nat
<1>1. IsFiniteSet(1..n)
  BY FS_Interval
<1>2. IsFiniteSet(Places(s, n, t))
  BY <1>1, FS_Subset DEF Places
<1> QED
  BY <1>2, FS_CardinalityType

LEMMA CountIs ==
  ASSUME NEW S, NEW s \in Seq(S), NEW t
  PROVE Count(s, t) = Cardinality(Places(s, Len(s), t)) /\ Count(s, t) \in Nat
<1>1. DOMAIN s = 1..Len(s) /\ Len(s) \in Nat
  OBVIOUS
<1>2. Count(s, t) = Cardinality(Places(s, Len(s), t))
  BY <1>1 DEF Count, Places
<1> QED
  BY <1>1, <1>2, PlacesFinite

LEMMA PlacesMore ==
  ASSUME NEW s, NEW n \in Nat, NEW t
  PROVE Cardinality(Places(s, n + 1, t)) =
          IF s[n + 1] = t THEN Cardinality(Places(s, n, t)) + 1 ELSE Cardinality(Places(s, n, t))
<1>1. CASE s[n + 1] = t
  <2>1. Places(s, n + 1, t) = Places(s, n, t) \union {n + 1} /\ (n + 1) \notin Places(s, n, t)
    BY <1>1 DEF Places
  <2>2. Cardinality(Places(s, n + 1, t)) = Cardinality(Places(s, n, t)) + 1
    BY <2>1, PlacesFinite, FS_AddElement
  <2> QED
    BY <1>1, <2>2
<1>2. CASE s[n + 1] # t
  <2>1. Places(s, n + 1, t) = Places(s, n, t)
    BY <1>2 DEF Places
  <2> QED
    BY <1>2, <2>1
<1> QED
  BY <1>1, <1>2

LEMMA CountAppend ==
  ASSUME NEW S, NEW s \in Seq(S), NEW e \in S, NEW t
  PROVE Count(Append(s, e), t) = IF e = t THEN Count(s, t) + 1 ELSE Count(s, t)
<1>1. PICK a \in Seq(S) : a = Append(s, e) /\ Len(a) = Len(s) + 1
  BY AppendProperties
<1>2. a[Len(s) + 1] = e /\ \A i \in 1..Len(s) : a[i] = s[i]
  BY <1>1
<1>3. PICK n \in Nat : n = Len(s)
  OBVIOUS
<1>4. Places(a, n, t) = Places(s, n, t)
  BY <1>2, <1>3 DEF Places
<1>5. Cardinality(Places(a, n + 1, t)) =
        IF e = t THEN Cardinality(Places(a, n, t)) + 1 ELSE Cardinality(Places(a, n, t))
  BY <1>2, <1>3, PlacesMore
<1>6. Count(a, t) = Cardinality(Places(a, n + 1, t)) /\ Count(s, t) = Cardinality(Places(s, n, t))
  BY <1>1, <1>3, CountIs
<1> QED
  BY <1>1, <1>4, <1>5, <1>6

LEMMA CountEmpty == ASSUME NEW t PROVE Count(<<>>, t) = 0
<1>1. {i \in DOMAIN <<>> : <<>>[i] = t} = {}
  OBVIOUS
<1> QED
  BY <1>1, FS_EmptySet DEF Count

\* recent leaves what is in the window, as often as it was there.
LEMMA RecentCounts ==
  ASSUME NEW s \in Seq(Ages)
  PROVE Recent(s) \in Seq(Ages) /\ \A t \in Ages : Fresh(t) => Count(Recent(s), t) = Count(s, t)
<1>1. PICK n \in Nat : n = Len(s) /\ DOMAIN s = 1..n
  OBVIOUS
<1>2. PICK g : g = Kept(s)
  OBVIOUS
<1>3. Trims(g, s, n)
  BY <1>1, <1>2, KeptIs
<1> DEFINE P(i) == /\ g[i] \in Seq(Ages)
                   /\ \A t \in Ages : Fresh(t) => Count(g[i], t) = Cardinality(Places(s, i, t))
           Bad  == {i \in 0..n : ~P(i)}
<1>4. Bad = {}
  <2> SUFFICES ASSUME Bad # {} PROVE FALSE
    OBVIOUS
  <2>1. PICK m \in Bad : \A y \in Bad : m <= y
    <3>1. Bad \in SUBSET Nat
      BY <1>1
    <3> HIDE DEF Bad
    <3> QED
      BY <3>1, LeastNat
  <2>2. m \in 0..n /\ ~P(m)
    BY <2>1
  <2>3. m # 0
    <3> SUFFICES ASSUME m = 0 PROVE P(0)
      BY <2>2
    <3>1. g[0] = <<>>
      BY <1>1, <1>3 DEF Trims, Turn
    <3>2. \A t : Places(s, 0, t) = {}
      BY DEF Places
    <3>3. \A t : Count(g[0], t) = Cardinality(Places(s, 0, t))
      BY <3>1, <3>2, CountEmpty, FS_EmptySet
    <3>4. g[0] \in Seq(Ages)
      BY <3>1, EmptySeq
    <3> QED
      BY <3>3, <3>4
  <2>4. PICK k \in Nat : m = k + 1 /\ k \in 0..n /\ k + 1 \in 1..n
    <3>1. m - 1 \in Nat /\ m = (m - 1) + 1 /\ m - 1 \in 0..n /\ (m - 1) + 1 \in 1..n
      BY <1>1, <2>2, <2>3
    <3> QED
      BY <3>1
  <2>5. P(k)
    <3>1. k \notin Bad
      BY <2>1, <2>2, <2>4
    <3> QED
      BY <2>4, <3>1
  <2>6. PICK r \in Seq(Ages) : r = g[k] /\ \A t \in Ages : Fresh(t) => Count(r, t) = Cardinality(Places(s, k, t))
    BY <2>5
  <2>7. PICK e \in Ages : e = s[k + 1]
    BY <1>1, <2>4
  <2>8. g[k + 1] = IF Fresh(e) THEN Append(r, e) ELSE r
    <3>1. g[k + 1] = Turn(g, s, k + 1)
      BY <1>1, <1>3, <2>4 DEF Trims
    <3>2. k + 1 # 0 /\ (k + 1) - 1 = k
      BY <2>4
    <3> QED
      BY <2>6, <2>7, <3>1, <3>2 DEF Turn
  <2>9. g[k + 1] \in Seq(Ages)
    BY <2>8, AppendProperties
  <2>10. ASSUME NEW t \in Ages, Fresh(t) PROVE Count(g[k + 1], t) = Cardinality(Places(s, k + 1, t))
    <3>1. Cardinality(Places(s, k + 1, t)) =
            IF e = t THEN Cardinality(Places(s, k, t)) + 1 ELSE Cardinality(Places(s, k, t))
      BY <2>7, PlacesMore
    <3>2. CASE Fresh(e)
      <4>1. Count(g[k + 1], t) = IF e = t THEN Count(r, t) + 1 ELSE Count(r, t)
        BY <2>8, <3>2, CountAppend
      <4> QED
        BY <2>6, <2>10, <3>1, <4>1
    <3>3. CASE ~Fresh(e)
      <4>1. e # t
        BY <2>10, <3>3
      <4> QED
        BY <2>6, <2>8, <2>10, <3>1, <3>3, <4>1
    <3> QED
      BY <3>2, <3>3
  <2>11. P(m)
    BY <2>4, <2>9, <2>10
  <2> QED
    BY <2>2, <2>11
<1>5. P(n)
  BY <1>1, <1>4
<1>6. Recent(s) = g[n]
  BY <1>1, <1>2 DEF Recent
<1>7. \A t : Count(s, t) = Cardinality(Places(s, n, t))
  BY <1>1, CountIs
<1> QED
  BY <1>5, <1>6, <1>7

-----------------------------------------------------------------------------
(* Memory and table.                                                       *)

Saving(t) == {s \in Sessions : pc[s] = "saving" /\ age[s] = t}
Clearing  == \E s \in Sessions : pc[s] = "clearing"

MatchTypes ==
  /\ pc \in [Sessions -> Stages] /\ age \in [Sessions -> Ages] /\ astray \in BOOLEAN
  /\ fails \in Seq(Ages) /\ disk \in [Ages -> Nat]

\* A failure in the window is in memory as often as it is in the table or on its way there.
Matched(t) == Count(fails, t) = disk[t] + Cardinality(Saving(t))

\* While a login's clearing is between the two, memory is empty and nothing is on its way.
MatchInv ==
  /\ MatchTypes
  /\ ~astray => IF Clearing THEN fails = <<>> /\ \A s \in Sessions : pc[s] # "saving"
                ELSE \A t \in Ages : Fresh(t) => Matched(t)

LEMMA AgesAre == Window \in Nat /\ Window > 0 /\ 0 \in Ages /\ Ages \subseteq Nat
BY BackoffConstants DEF Ages

LEMMA SavingFinite == ASSUME NEW t PROVE IsFiniteSet(Saving(t)) /\ Cardinality(Saving(t)) \in Nat
BY BackoffConstants, FS_Subset, FS_CardinalityType DEF Saving

LEMMA NoRowsAre == NoRows \in [Ages -> Nat] /\ \A t \in Ages : NoRows[t] = 0
BY DEF NoRows

\* A step between stages that neither save nor clear.
LEMMA QuietStep ==
  ASSUME MatchInv, UNCHANGED <<fails, disk, astray>>, pc' \in [Sessions -> Stages],
         age' \in [Sessions -> Ages],
         \A s \in Sessions : \/ pc'[s] = pc[s] /\ age'[s] = age[s]
                             \/ pc[s] \notin {"saving", "clearing"} /\ pc'[s] \notin {"saving", "clearing"}
  PROVE MatchInv'
<1>1. MatchTypes'
  BY DEF MatchInv, MatchTypes
<1>2. Clearing' = Clearing /\ \A s \in Sessions : pc'[s] = "saving" <=> pc[s] = "saving"
  BY DEF Clearing
<1>3. \A t : Saving(t)' = Saving(t)
  BY DEF Saving
<1> QED
  BY <1>1, <1>2, <1>3 DEF MatchInv, Matched

LEMMA OthersMatch ==
  ASSUME MatchInv, NEW s \in Sessions, Begin(s) \/ Refuse(s) \/ CheckStep(s) \/ LogOff(s)
  PROVE MatchInv'
<1>1. pc \in [Sessions -> Stages] /\ age \in [Sessions -> Ages] /\ UNCHANGED <<fails, disk, astray>>
  BY DEF MatchInv, MatchTypes, Begin, Refuse, CheckStep, Pass, Fail, CheckError, LogOff, limiter
<1>2. /\ pc' = pc \/ (pc[s] \notin {"saving", "clearing"}
                      /\ \E q \in Stages \ {"saving", "clearing"} : pc' = [pc EXCEPT ![s] = q])
      /\ age' = age \/ (pc' # pc /\ age' = [age EXCEPT ![s] = 0])
  BY <1>1 DEF Begin, Refuse, CheckStep, Pass, Fail, CheckError, LogOff, Stages
<1> QED
  BY <1>1, <1>2, AgesAre, QuietStep

LEMMA HitMemoryMatches == ASSUME MatchInv, NEW s \in Sessions, HitMemory(s) PROVE MatchInv'
<1>1. /\ MatchTypes /\ pc[s] = "failed" /\ UNCHANGED <<disk, age>>
      /\ fails' = Append(Recent(fails), age[s]) /\ pc' = [pc EXCEPT ![s] = "saving"]
      /\ astray' = (astray \/ Clearing)
  BY DEF MatchInv, HitMemory, Clearing
<1>2. PICK r \in Seq(Ages) : r = Recent(fails) /\ \A t \in Ages : Fresh(t) => Count(r, t) = Count(fails, t)
  BY <1>1, RecentCounts DEF MatchTypes
<1>3. PICK e \in Ages : e = age[s]
  BY <1>1 DEF MatchTypes
<1>4. fails' \in Seq(Ages)
  BY <1>1, <1>2, <1>3, AppendProperties
<1>5. MatchTypes'
  BY <1>1, <1>4 DEF MatchTypes, Stages
<1>6. ASSUME ~astray' PROVE ~Clearing' /\ \A t \in Ages : Fresh(t) => Matched(t)'
  <2>1. ~astray /\ ~Clearing
    BY <1>1, <1>6
  <2>2. ~Clearing'
    BY <1>1, <2>1 DEF Clearing, MatchTypes
  <2>3. ASSUME NEW t \in Ages, Fresh(t) PROVE Matched(t)'
    <3>1. Count(fails, t) = disk[t] + Cardinality(Saving(t))
      BY <2>1, <2>3 DEF MatchInv, Matched
    <3>2. Count(fails', t) = IF e = t THEN Count(fails, t) + 1 ELSE Count(fails, t)
      BY <1>1, <1>2, <1>3, <2>3, CountAppend
    <3>3. disk[t] \in Nat /\ Cardinality(Saving(t)) \in Nat /\ IsFiniteSet(Saving(t))
      BY <1>1, SavingFinite DEF MatchTypes
    <3>4. CASE e = t
      <4>1. Saving(t)' = Saving(t) \union {s} /\ s \notin Saving(t)
        BY <1>1, <1>3, <3>4 DEF Saving, MatchTypes
      <4>2. Cardinality(Saving(t)') = Cardinality(Saving(t)) + 1
        BY <3>3, <4>1, FS_AddElement
      <4>3. Count(fails', t) = disk[t] + Cardinality(Saving(t)')
        BY <3>1, <3>2, <3>3, <3>4, <4>2
      <4> QED
        BY <1>1, <4>3 DEF Matched, Count
    <3>5. CASE e # t
      <4>1. Saving(t)' = Saving(t)
        BY <1>1, <1>3, <3>5 DEF Saving, MatchTypes
      <4> QED
        BY <1>1, <3>1, <3>2, <3>5, <4>1 DEF Matched, Count
    <3> QED
      BY <3>4, <3>5
  <2> QED
    BY <2>2, <2>3
<1> QED
  BY <1>5, <1>6 DEF MatchInv

LEMMA HitDiskMatches == ASSUME MatchInv, NEW s \in Sessions, HitDisk(s) PROVE MatchInv'
<1>1. /\ MatchTypes /\ pc[s] = "saving" /\ fails' = fails
      /\ pc' = [pc EXCEPT ![s] = "prompt"] /\ age' = [age EXCEPT ![s] = 0]
      /\ \/ disk' = [disk EXCEPT ![age[s]] = disk[age[s]] + 1] /\ astray' = astray
         \/ disk' = disk /\ astray' = TRUE
  BY DEF MatchInv, HitDisk
<1>2. PICK e \in Ages : e = age[s]
  BY <1>1 DEF MatchTypes
<1>3. \A t \in Ages : disk[t] \in Nat /\ disk[t] + 1 \in Nat
  BY <1>1 DEF MatchTypes
<1>4. MatchTypes'
  <2>1. disk' \in [Ages -> Nat]
    BY <1>1, <1>2, <1>3 DEF MatchTypes
  <2>2. pc' \in [Sessions -> Stages] /\ age' \in [Sessions -> Ages]
    BY <1>1, AgesAre DEF MatchTypes, Stages
  <2>3. astray' \in BOOLEAN
    BY <1>1 DEF MatchTypes
  <2> QED
    BY <1>1, <2>1, <2>2, <2>3 DEF MatchTypes
<1>5. ASSUME ~astray' PROVE ~Clearing' /\ \A t \in Ages : Fresh(t) => Matched(t)'
  <2>1. ~astray /\ disk' = [disk EXCEPT ![age[s]] = disk[age[s]] + 1]
    BY <1>1, <1>5
  <2>2. ~Clearing
    BY <1>1, <2>1 DEF MatchInv
  <2>3. ~Clearing'
    BY <1>1, <2>2 DEF Clearing, MatchTypes
  <2>4. ASSUME NEW t \in Ages, Fresh(t) PROVE Matched(t)'
    <3>1. Count(fails, t) = disk[t] + Cardinality(Saving(t))
      BY <2>1, <2>2, <2>4 DEF MatchInv, Matched
    <3>2. Cardinality(Saving(t)) \in Nat /\ IsFiniteSet(Saving(t))
      BY SavingFinite
    <3>3. CASE e = t
      <4>1. Saving(t)' = Saving(t) \ {s} /\ s \in Saving(t)
        BY <1>1, <1>2, <3>3 DEF Saving, MatchTypes
      <4>2. Cardinality(Saving(t)') = Cardinality(Saving(t)) - 1
        BY <3>2, <4>1, FS_RemoveElement
      <4>3. disk'[t] = disk[t] + 1
        BY <1>1, <1>2, <2>1, <3>3 DEF MatchTypes
      <4> QED
        BY <1>1, <1>3, <3>1, <3>2, <4>2, <4>3 DEF Matched, Count
    <3>4. CASE e # t
      <4>1. Saving(t)' = Saving(t)
        BY <1>1, <1>2, <3>4 DEF Saving, MatchTypes
      <4>2. disk'[t] = disk[t]
        BY <1>1, <1>2, <2>1, <3>4 DEF MatchTypes
      <4> QED
        BY <1>1, <3>1, <4>1, <4>2 DEF Matched, Count
    <3> QED
      BY <3>3, <3>4
  <2> QED
    BY <2>3, <2>4
<1> QED
  BY <1>4, <1>5 DEF MatchInv

LEMMA ResetMatches == ASSUME MatchInv, NEW s \in Sessions, ResetMemory(s) \/ ResetDisk(s) PROVE MatchInv'
<1>1. CASE ResetMemory(s)
  <2>1. /\ MatchTypes /\ fails' = <<>> /\ UNCHANGED <<disk, age>> /\ pc' = [pc EXCEPT ![s] = "clearing"]
        /\ astray' = (astray \/ \E t \in Sessions : pc[t] = "saving")
    BY <1>1 DEF MatchInv, ResetMemory
  <2>2. MatchTypes'
    BY <2>1, EmptySeq DEF MatchTypes, Stages
  <2>3. Clearing'
    BY <2>1 DEF Clearing, MatchTypes
  <2>4. ~astray' => \A t \in Sessions : pc'[t] # "saving"
    BY <2>1 DEF MatchTypes
  <2> QED
    BY <2>1, <2>2, <2>3, <2>4 DEF MatchInv
<1>2. CASE ResetDisk(s)
  <2>1. /\ MatchTypes /\ pc[s] = "clearing" /\ UNCHANGED <<fails, age>> /\ pc' = [pc EXCEPT ![s] = "in"]
        /\ \/ disk' = NoRows /\ astray' = astray
           \/ disk' = disk /\ astray' = TRUE
    BY <1>2 DEF MatchInv, ResetDisk, ClearHits
  <2>2. MatchTypes'
    BY <2>1, NoRowsAre DEF MatchTypes, Stages
  <2>3. ASSUME ~astray'
        PROVE /\ fails' = <<>> /\ (\A t \in Sessions : pc'[t] # "saving")
              /\ \A t \in Ages : Matched(t)'
    <3>1. ~astray /\ Clearing /\ disk' = NoRows
      BY <2>1, <2>3 DEF Clearing
    <3>2. fails' = <<>> /\ \A t \in Sessions : pc'[t] # "saving"
      BY <2>1, <3>1 DEF MatchInv, MatchTypes
    <3>3. ASSUME NEW t \in Ages PROVE Matched(t)'
      <4>1. Saving(t)' = {}
        BY <3>2 DEF Saving
      <4>2. Count(fails', t) = 0 /\ disk'[t] = 0 /\ Cardinality(Saving(t)') = 0
        BY <3>1, <3>2, <4>1, CountEmpty, NoRowsAre, FS_EmptySet
      <4> QED
        BY <4>2 DEF Matched, Count
    <3> QED
      BY <3>2, <3>3
  <2> QED
    BY <2>2, <2>3 DEF MatchInv
<1> QED
  BY <1>1, <1>2

LEMMA RestartMatches == ASSUME MatchInv, Restart PROVE MatchInv'
<1>1. /\ MatchTypes /\ disk' = disk /\ pc' = [s \in Sessions |-> "prompt"] /\ age' = [s \in Sessions |-> 0]
      /\ \/ fails' \in LoadHits /\ astray' = FALSE
         \/ fails' = <<>> /\ astray' = (disk # NoRows)
  BY DEF MatchInv, Restart
<1>2. ~Clearing' /\ \A t : Saving(t)' = {}
  BY <1>1 DEF Clearing, Saving
<1>3. ASSUME fails' \in LoadHits PROVE fails' \in Seq(Ages) /\ \A t \in Ages : Count(fails', t) = disk[t]
  <2>1. PICK m \in 0..MaxFails : fails' \in [1..m -> Ages]
    BY <1>3 DEF LoadHits, SeqOf
  <2>2. fails' \in Seq(Ages)
    BY <2>1, BackoffConstants
  <2> QED
    BY <1>3, <2>2 DEF LoadHits
<1>4. fails' \in Seq(Ages)
  BY <1>1, <1>3, EmptySeq
<1>5. MatchTypes'
  BY <1>1, <1>4, AgesAre DEF MatchTypes, Stages
<1>6. ASSUME ~astray', NEW t \in Ages PROVE Matched(t)'
  <2>1. Count(fails', t) = disk[t] /\ disk[t] \in Nat
    <3>1. CASE fails' \in LoadHits
      BY <1>1, <1>3, <3>1 DEF MatchTypes
    <3>2. CASE fails' = <<>> /\ disk = NoRows
      BY <3>2, CountEmpty, NoRowsAre
    <3> QED
      BY <1>1, <1>6, <3>1, <3>2
  <2>2. Cardinality(Saving(t)') = 0
    BY <1>2, FS_EmptySet
  <2> QED
    BY <1>1, <2>1, <2>2 DEF Matched, Count
<1> QED
  BY <1>2, <1>5, <1>6 DEF MatchInv

LEMMA TickMatches == ASSUME MatchInv, Tick PROVE MatchInv'
<1>1. /\ MatchTypes /\ UNCHANGED <<pc, astray>> /\ fails' = [k \in DOMAIN fails |-> Older(fails[k])]
      /\ disk' = [t \in Ages |-> IF t = 0 THEN 0 ELSE disk[t - 1]]
      /\ age' = [s \in Sessions |-> IF pc[s] \in {"failed", "saving"} THEN Older(age[s]) ELSE 0]
  BY DEF MatchInv, Tick
<1>2. \A t \in Ages : /\ Older(t) \in Ages /\ Older(t) # 0
                      /\ \A u \in Ages : Fresh(u) /\ u # 0 => (Older(t) = u <=> t = u - 1)
  BY AgesAre DEF Ages, Older, Least, Fresh
<1>3. \A t \in Ages : t # 0 => t - 1 \in Ages /\ (Fresh(t) => Fresh(t - 1))
  BY AgesAre DEF Ages, Fresh
<1>4. PICK n \in Nat : n = Len(fails) /\ DOMAIN fails = 1..n
  BY <1>1 DEF MatchTypes
<1>5. fails' \in [1..n -> Ages] /\ \A k \in 1..n : fails[k] \in Ages /\ fails'[k] = Older(fails[k])
  BY <1>1, <1>2, <1>4 DEF MatchTypes
<1>6. fails' \in Seq(Ages) /\ DOMAIN fails' = 1..n
  BY <1>5
<1>7. disk' \in [Ages -> Nat]
  <2>1. \A t \in Ages : (IF t = 0 THEN 0 ELSE disk[t - 1]) \in Nat
    BY <1>1, <1>3 DEF MatchTypes
  <2> QED
    BY <1>1, <2>1
<1>8. age' \in [Sessions -> Ages]
  BY <1>1, <1>2, AgesAre DEF MatchTypes
<1>9. MatchTypes'
  BY <1>1, <1>6, <1>7, <1>8 DEF MatchTypes
<1>10. Clearing' = Clearing
  BY <1>1 DEF Clearing
<1>11. CASE Clearing
  <2>1. fails = <<>> => fails' = <<>>
    <3> SUFFICES ASSUME fails = <<>> PROVE fails' = <<>>
      OBVIOUS
    <3>1. n = 0
      BY <1>4
    <3> QED
      BY <1>6, <3>1
  <2> QED
    BY <1>1, <1>9, <1>10, <1>11, <2>1 DEF MatchInv
<1>12. ASSUME ~Clearing, ~astray', NEW t \in Ages, Fresh(t) PROVE Matched(t)'
  <2>1. CASE t = 0
    <3>1. {i \in DOMAIN fails' : fails'[i] = t} = {}
      <4>1. \A i \in 1..n : fails'[i] # t
        BY <1>2, <1>5, <2>1
      <4> QED
        BY <1>6, <4>1
    <3>2. Saving(t)' = {}
      BY <1>1, <1>2, <2>1 DEF Saving, MatchTypes
    <3>3. Count(fails', t) = 0 /\ Cardinality(Saving(t)') = 0
      BY <3>1, <3>2, FS_EmptySet DEF Count
    <3>4. disk'[t] = 0
      BY <1>1, <2>1
    <3> QED
      BY <3>3, <3>4 DEF Matched, Count
  <2>2. CASE t # 0
    <3>1. PICK u \in Ages : u = t - 1 /\ Fresh(u)
      BY <1>3, <1>12, <2>2
    <3>2. Matched(u)
      BY <1>1, <1>12, <3>1 DEF MatchInv
    <3>3. {i \in DOMAIN fails' : fails'[i] = t} = {i \in DOMAIN fails : fails[i] = u}
      <4>1. \A a \in Ages : Older(a) = t <=> a = u
        BY <1>2, <1>12, <2>2, <3>1
      <4>2. \A i \in 1..n : fails'[i] = t <=> fails[i] = u
        BY <1>5, <4>1
      <4> QED
        BY <1>4, <1>6, <4>2
    <3>4. Saving(t)' = Saving(u)
      BY <1>1, <1>2, <1>12, <2>2, <3>1 DEF Saving, MatchTypes
    <3>5. disk'[t] = disk[u]
      BY <1>1, <2>2, <3>1
    <3> QED
      BY <3>2, <3>3, <3>4, <3>5 DEF Matched, Count
  <2> QED
    BY <2>1, <2>2
<1> QED
  BY <1>9, <1>10, <1>11, <1>12 DEF MatchInv

\* TableMatches, for any number of sessions, any window and any bound: when nothing is on
\* its way to the table, memory and table hold the same failures, unless a save, a clear or
\* a load failed or a login's clearing overlapped the recording of a failure (limiter.go
\* hit, reset; throttle.go).
THEOREM TableIsMatched == Spec => []TableMatches
<1>1. Init => MatchInv
  <2> SUFFICES ASSUME Init PROVE MatchInv
    OBVIOUS
  <2>1. /\ fails = <<>> /\ disk = NoRows /\ pc = [s \in Sessions |-> "prompt"]
        /\ age = [s \in Sessions |-> 0] /\ astray = FALSE
    BY DEF Init
  <2>2. MatchTypes
    BY <2>1, AgesAre, NoRowsAre, EmptySeq DEF MatchTypes, Stages
  <2>3. ~Clearing /\ \A t : Saving(t) = {}
    BY <2>1 DEF Clearing, Saving
  <2>4. ASSUME NEW t \in Ages PROVE Matched(t)
    <3>1. Count(fails, t) = 0 /\ disk[t] = 0
      BY <2>1, CountEmpty, NoRowsAre
    <3>2. Cardinality(Saving(t)) = 0
      BY <2>3, FS_EmptySet
    <3> QED
      BY <3>1, <3>2 DEF Matched
  <2> QED
    BY <2>2, <2>3, <2>4 DEF MatchInv
<1>2. MatchInv /\ [Next]_vars => MatchInv'
  <2>1. ASSUME MatchInv, UNCHANGED vars PROVE MatchInv'
    BY <2>1, QuietStep DEF MatchInv, MatchTypes, vars, limiter
  <2>2. ASSUME MatchInv, Next PROVE MatchInv'
    BY <2>2, OthersMatch, HitMemoryMatches, HitDiskMatches, ResetMatches, RestartMatches, TickMatches
       DEF Next, Record
  <2> QED
    BY <2>1, <2>2
<1>3. MatchInv => TableMatches
  <2> SUFFICES ASSUME MatchInv, Quiet, ~astray, NEW t \in Ages, Fresh(t) PROVE Count(fails, t) = disk[t]
    BY DEF TableMatches
  <2>1. ~Clearing /\ Saving(t) = {}
    BY DEF Quiet, Clearing, Saving
  <2>2. Matched(t) /\ disk[t] \in Nat
    BY <2>1 DEF MatchInv, MatchTypes
  <2> QED
    BY <2>1, <2>2, FS_EmptySet DEF Matched
<1> QED
  BY <1>1, <1>2, <1>3, PTL DEF Spec
====
