---- MODULE MailQueueProofs ----
(* The mail queue implements MailPromise, for any number of messages, any   *)
(* capacity and any number of retries.                                      *)
EXTENDS MailQueue, SequenceTheorems, TLAPS

\* What links the worker, the closer and the channel.
Links ==
  /\ (worker \in {"taking", "ended"}) <=> (cur = NoMessage)
  /\ worker = "ended" => ch = <<>> /\ closed
  /\ closed <=> closer # "none"
  /\ closer = "returned" => worker = "ended"

\* The types the refinement needs.
Types ==
  /\ ch \in Seq(Messages) /\ done \in Seq(Messages)
  /\ fates \in Seq({"sent", "failed"}) /\ Len(done) = Len(fates)
  /\ cur \in Messages \union {NoMessage}
  /\ closed \in BOOLEAN
  /\ worker \in {"taking", "sending", "cut", "retrying", "ended"}
  /\ closer \in {"none", "waiting", "returned"}

IInv == Types /\ Links

\* It holds at the start.
LEMMA InitIInv == QueueInit => IInv
<1> SUFFICES ASSUME QueueInit PROVE IInv
  OBVIOUS
<1>1. ch \in Seq(Messages) /\ done \in Seq(Messages) /\ fates \in Seq({"sent", "failed"})
  BY EmptySeq DEF QueueInit
<1>2. done = fates
  BY DEF QueueInit
<1> QED
  BY <1>1, <1>2, MailQueueConstants DEF QueueInit, IInv, Types, Links

\* The sequences keep their types.
LEMMA TypesKept ==
  ASSUME IInv, [QueueNext]_queueVars
  PROVE  Types'
<1> USE DEF IInv
<1>1. ASSUME NEW m \in Messages, Enqueue(m) PROVE Types'
  BY <1>1 DEF Enqueue, Types, history
<1>2. CASE Receive
  BY <1>2, HeadTailProperties DEF Receive, Types, Sending, history
<1>3. ASSUME NEW f \in {"sent", "failed"}, Settled(f),
             UNCHANGED <<ch, closed, closer>>, worker \in {"sending", "cut"}
      PROVE  Types'
  <2>1. cur \in Messages
    BY <1>3 DEF Types, Links
  <2>2. done' \in Seq(Messages) /\ fates' \in Seq({"sent", "failed"}) /\ Len(done') = Len(fates')
    BY <1>3, <2>1, AppendProperties DEF Settled, Types
  <2> QED
    BY <1>3, <2>2 DEF Settled, Types
<1>4. CASE SendOK
  BY <1>3, <1>4 DEF SendOK
<1>5. CASE SendError
  <2>1. CASE GiveUp /\ Settled("failed")
    BY <1>3, <1>5, <2>1 DEF SendError
  <2>2. CASE ~GiveUp /\ worker' = "retrying" /\ UNCHANGED <<cur, attempt, done, fates>>
    BY <1>5, <2>2 DEF SendError, Types
  <2> QED
    BY <1>5, <2>1, <2>2 DEF SendError
<1>6. CASE RunEnds \/ Retry \/ Close \/ Stop \/ CloseReturns \/ Over \/ UNCHANGED queueVars
  BY <1>6 DEF RunEnds, Retry, Close, Stop, CloseReturns, Over, queueVars, history, Types, Sending
<1> QED
  BY <1>1, <1>2, <1>4, <1>5, <1>6 DEF QueueNext

\* Every step keeps the links.
LEMMA LinksKept ==
  ASSUME IInv, [QueueNext]_queueVars
  PROVE  Links'
<1> USE MailQueueConstants DEF IInv, Types, Links
<1>1. ASSUME NEW m \in Messages, Enqueue(m) PROVE Links'
  BY <1>1 DEF Enqueue, MayEnqueue, history
<1>2. CASE Receive
  <2>1. cur' \in Messages
    BY <1>2, HeadTailProperties DEF Receive
  <2> QED
    BY <1>2, <2>1 DEF Receive, Sending
<1>3. CASE SendOK \/ SendError
  BY <1>3 DEF SendOK, SendError, Settled
<1>4. CASE RunEnds \/ Retry \/ Close \/ Stop \/ CloseReturns \/ Over \/ UNCHANGED queueVars
  BY <1>4 DEF RunEnds, Drained, Retry, Close, Stop, CloseReturns, Over, queueVars, history, Sending
<1> QED
  BY <1>1, <1>2, <1>3, <1>4 DEF QueueNext

\* The refinement mapping's sequence of accepted messages.
Accepted == done \o Current \o ch

\* Appending at the end of a concatenation.
LEMMA AppendConcat ==
  ASSUME NEW S, NEW s \in Seq(S), NEW t \in Seq(S), NEW x \in S
  PROVE  s \o Append(t, x) = Append(s \o t, x)
BY AppendIsConcat, ConcatAssociative, ConcatProperties

\* Neither taking a message nor settling it changes what was accepted.
LEMMA CurrentMoves ==
  ASSUME NEW S, NEW s \in Seq(S), NEW t \in Seq(S), NEW x \in S
  PROVE  /\ t # <<>> => s \o <<>> \o t = s \o <<Head(t)>> \o Tail(t)
         /\ Append(s, x) \o <<>> \o t = s \o <<x>> \o t
<1>1. s \o <<>> = s /\ Append(s, x) \o <<>> = Append(s, x) /\ Append(s, x) = s \o <<x>>
  BY ConcatEmptySeq, AppendProperties, AppendIsConcat
<1>2. ASSUME t # <<>> PROVE s \o t = s \o <<Head(t)>> \o Tail(t)
  <2>1. Head(t) \in S /\ Tail(t) \in Seq(S) /\ t = <<Head(t)>> \o Tail(t)
    BY <1>2, HeadTailProperties
  <2>2. <<Head(t)>> \in Seq(S)
    BY <2>1
  <2> QED
    BY <2>1, <2>2, ConcatAssociative
<1> QED
  BY <1>1, <1>2

\* The length of what was accepted while a message is being delivered.
LEMMA LenAround ==
  ASSUME NEW S, NEW s \in Seq(S), NEW t \in Seq(S), NEW x \in S
  PROVE  Len(s \o <<x>> \o t) = Len(s) + 1 + Len(t)
<1>1. s \o <<x>> \in Seq(S) /\ Len(s \o <<x>>) = Len(s) + 1
  BY AppendProperties, AppendIsConcat
<1>2. Len((s \o <<x>>) \o t) = Len(s \o <<x>>) + Len(t)
  BY <1>1, ConcatProperties
<1> QED
  BY <1>1, <1>2

\* Every step of the queue is a step of the promise, or changes nothing in it.
LEMMA StepRefines ==
  ASSUME IInv, [QueueNext]_queueVars
  PROVE  [Promise!Next]_(Promise!vars)
<1> USE DEF IInv
<1>0. Current \in Seq(Messages) /\ (cur = NoMessage => Current = <<>>)
  BY DEF Current, Types
<1>1. ASSUME NEW m \in Messages, Enqueue(m) PROVE Promise!Take(m) \/ UNCHANGED Promise!vars
  <2>1. CASE MayEnqueue
    <3>1. Current' = Current
      BY <1>1 DEF Enqueue, Current
    <3>2. done \o Current \in Seq(Messages)
      BY <1>0, ConcatProperties DEF Types
    <3>3. Accepted' = Append(Accepted, m)
      BY <1>1, <2>1, <3>1, <3>2, AppendConcat DEF Enqueue, history, Accepted, Types
    <3> QED
      BY <1>1, <2>1, <3>3 DEF Enqueue, MayEnqueue, history, Accepted, Promise!Take
  <2>2. CASE ~MayEnqueue
    BY <1>1, <2>2 DEF Enqueue, history, Current, Promise!vars
  <2> QED
    BY <2>1, <2>2
<1>2. CASE Receive
  <2>1. cur = NoMessage /\ Current = <<>>
    BY <1>0, <1>2 DEF Receive, Links
  <2>2. Head(ch) \in Messages /\ Current' = <<Head(ch)>>
    BY <1>2, HeadTailProperties, MailQueueConstants DEF Receive, Current, Types
  <2>3. Accepted' = Accepted
    BY <1>2, <2>1, <2>2, CurrentMoves DEF Receive, history, Accepted, Types
  <2> QED
    BY <1>2, <2>3 DEF Receive, history, Accepted, Promise!vars
<1>3. ASSUME NEW f \in {"sent", "failed"}, Settled(f),
             UNCHANGED <<ch, closed, closer>>, worker \in {"sending", "cut"}
      PROVE  Promise!Settle
  <2>1. cur \in Messages /\ Current = <<cur>> /\ Current' = <<>>
    BY <1>3 DEF Links, Types, Current, Settled
  <2>2. Accepted' = Accepted
    <3>1. Accepted' = Append(done, cur) \o <<>> \o ch
      BY <1>3, <2>1 DEF Accepted, Settled
    <3>2. Accepted = done \o <<cur>> \o ch
      BY <2>1 DEF Accepted
    <3>3. Append(done, cur) \o <<>> \o ch = done \o <<cur>> \o ch
      BY <2>1, CurrentMoves DEF Types
    <3> QED
      BY <3>1, <3>2, <3>3
  <2>3. Len(Accepted) = Len(done) + 1 + Len(ch)
    <3>1. Len(done \o <<cur>> \o ch) = Len(done) + 1 + Len(ch)
      BY <2>1, LenAround DEF Types
    <3> QED
      BY <2>1, <3>1 DEF Accepted
  <2>4. Len(fates) < Len(Accepted)
    BY <2>3 DEF Types
  <2> QED
    BY <1>3, <2>2, <2>4 DEF Promise!Settle, Accepted, Settled
<1>4. CASE SendOK
  BY <1>3, <1>4 DEF SendOK, Promise!Next
<1>5. CASE SendError
  <2>1. CASE GiveUp /\ Settled("failed")
    BY <1>3, <1>5, <2>1 DEF SendError, Promise!Next
  <2>2. CASE ~GiveUp /\ worker' = "retrying" /\ UNCHANGED <<cur, attempt, done, fates>>
    BY <1>5, <2>2 DEF SendError, Current, Promise!vars
  <2> QED
    BY <1>5, <2>1, <2>2 DEF SendError
<1>6. CASE Close
  BY <1>6 DEF Close, Links, Types, Current, history, Promise!Shut, Promise!Next
<1>7. CASE CloseReturns
  <2>1. cur = NoMessage /\ ch = <<>> /\ closed /\ Current = <<>>
    BY <1>0, <1>7 DEF CloseReturns, Links
  <2>2. Len(fates) = Len(Accepted)
    BY <2>1, ConcatEmptySeq DEF Accepted, Types
  <2> QED
    BY <1>7, <2>1, <2>2 DEF CloseReturns, Accepted, Current, history, Promise!Finish, Promise!Next
<1>8. CASE RunEnds \/ Retry \/ Stop \/ Over \/ UNCHANGED queueVars
  BY <1>8 DEF RunEnds, Retry, Stop, Over, queueVars, history, Current, Promise!vars
<1> QED
  BY <1>1, <1>2, <1>4, <1>5, <1>6, <1>7, <1>8 DEF QueueNext, Promise!Next

\* The queue implements its abstract specification.
THEOREM Refines == QueueSpec => KeepsPromise
<1>1. QueueInit => IInv /\ Promise!Init
  BY InitIInv, ConcatEmptySeq DEF QueueInit, Current, Promise!Init
<1>2. IInv /\ [QueueNext]_queueVars => IInv'
  BY TypesKept, LinksKept DEF IInv
<1>3. IInv /\ [QueueNext]_queueVars => [Promise!Next]_(Promise!vars)
  BY StepRefines
<1> QED
  BY <1>1, <1>2, <1>3, PTL DEF QueueSpec, KeepsPromise, Promise!Spec
====
