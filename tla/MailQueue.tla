---- MODULE MailQueue ----
(***************************************************************************)
(* The background mail queue: callers that enqueue without waiting, one    *)
(* worker that delivers with retries, and Close at shutdown.               *)
(*                                                                         *)
(* Sources: internal/mailer/queue.go and mailer.go (Send, transact), with  *)
(* cmd/boar/main.go deferring Close(mailDrainTime).                        *)
(***************************************************************************)
EXTENDS Naturals, Sequences

CONSTANTS
  Messages,  \* messages the board will try to send, each once
  Size,      \* the channel's capacity
  Retries,   \* len(q.delays)
  NoMessage       \* no message

ASSUME MailQueueConstants ==
  /\ Size \in Nat \ {0} /\ Retries \in Nat
  /\ NoMessage \notin Messages

VARIABLES
  ch,        \* q.ch
  closed,    \* q.closed: the channel is closed too
  stopped,   \* q.ctx is done
  cur,       \* the message deliver is working on
  attempt,   \* deliver's attempt
  worker,    \* run: taking, sending, cut (sending with the context done),
             \* retrying, ended
  closer,    \* Close: not called, waiting, returned
  left,      \* messages nobody has tried to enqueue yet
  done,      \* history: the messages deliver has returned from ...
  fates      \* ... and how

queueVars == <<ch, closed, stopped, cur, attempt, worker, closer, left, done, fates>>
history == <<done, fates>>

QueueInit ==
  /\ ch = <<>>
  /\ closed = FALSE /\ stopped = FALSE
  /\ cur = NoMessage /\ attempt = 0
  /\ worker = "taking" /\ closer = "none"
  /\ left = Messages
  /\ done = <<>> /\ fates = <<>>

\* Neither ErrQueueClosed nor ErrQueueFull.
MayEnqueue == ~closed /\ Len(ch) < Size

\* Enqueue, under the mutex. A message that is refused is logged and
\* forgotten (sendEmail).
Enqueue(m) ==
  /\ m \in left
  /\ left' = left \ {m}
  /\ ch' = IF MayEnqueue THEN Append(ch, m) ELSE ch
  /\ UNCHANGED <<closed, stopped, cur, attempt, worker, closer, history>>

\* Send starts: it cannot connect any more once the context is done.
Sending == IF stopped THEN "cut" ELSE "sending"

\* run: the next message of the channel ...
Receive ==
  /\ worker = "taking"
  /\ ch # <<>>
  /\ cur' = Head(ch) /\ ch' = Tail(ch)
  /\ attempt' = 0
  /\ worker' = Sending
  /\ UNCHANGED <<closed, stopped, closer, left, history>>

\* Mutant: the worker leaves as soon as the channel is closed.
DrainedAtOnce == closed

\* Mutant: Close sets the flag and leaves the channel open.
DrainedNever == FALSE

\* ... and the end of the loop: the channel is closed and empty.
Drained == closed /\ ch = <<>>

RunEnds ==
  /\ worker = "taking"
  /\ Drained
  /\ worker' = "ended"
  /\ UNCHANGED <<ch, closed, stopped, cur, attempt, closer, left, history>>

\* deliver returns.
Settled(f) ==
  /\ done' = Append(done, cur) /\ fates' = Append(fates, f)
  /\ cur' = NoMessage /\ attempt' = 0
  /\ worker' = "taking"

\* Send succeeds; once it has connected the context does not stop it.
SendOK ==
  /\ worker = "sending"
  /\ Settled("sent")
  /\ UNCHANGED <<ch, closed, stopped, closer, left>>

\* No retry is left, or the queue is stopping.
GiveUp == attempt >= Retries \/ stopped

\* Send reports an error, which may be one of QUIT after the relay took the message.
SendError ==
  /\ worker \in {"sending", "cut"}
  /\ \/ GiveUp /\ Settled("failed")
     \/ ~GiveUp /\ worker' = "retrying" /\ UNCHANGED <<cur, attempt, done, fates>>
  /\ UNCHANGED <<ch, closed, stopped, closer, left>>

\* Mutant: the attempts are not counted.
RetryForever ==
  /\ worker = "retrying"
  /\ worker' = Sending
  /\ UNCHANGED <<ch, closed, stopped, cur, attempt, closer, left, history>>

\* The retry delay is over, or the context is done.
Retry ==
  /\ worker = "retrying"
  /\ attempt' = attempt + 1
  /\ worker' = Sending
  /\ UNCHANGED <<ch, closed, stopped, cur, closer, left, history>>

\* Close up to wg.Wait.
Close ==
  /\ closer = "none"
  /\ closed' = TRUE
  /\ closer' = "waiting"
  /\ UNCHANGED <<ch, stopped, cur, attempt, worker, left, history>>

\* The grace period is over.
Stop ==
  /\ closer = "waiting" /\ ~stopped
  /\ stopped' = TRUE
  /\ UNCHANGED <<ch, closed, cur, attempt, worker, closer, left, history>>

CloseReturns ==
  /\ closer = "waiting"
  /\ worker = "ended"
  /\ stopped' = TRUE
  /\ closer' = "returned"
  /\ UNCHANGED <<ch, closed, cur, attempt, worker, left, history>>

\* Nothing is left to do.
Over == closer = "returned" /\ left = {} /\ UNCHANGED queueVars

QueueNext ==
  \/ \E m \in Messages : Enqueue(m)
  \/ Receive \/ RunEnds \/ SendOK \/ SendError \/ Retry
  \/ Close \/ Stop \/ CloseReturns \/ Over

\* The worker keeps going: every Send ends within sendTimeout, every delay in
\* time, and the grace timer fires. Nobody has to enqueue or to call Close.
QueueFairness ==
  /\ WF_queueVars(Receive) /\ WF_queueVars(RunEnds) /\ WF_queueVars(Retry)
  /\ WF_queueVars(SendOK \/ SendError)
  /\ WF_queueVars(Stop) /\ WF_queueVars(CloseReturns)

QueueSpec == QueueInit /\ [][QueueNext]_queueVars

-----------------------------------------------------------------------------
(* Properties.                                                             *)

Current == IF cur = NoMessage THEN <<>> ELSE <<cur>>

Promise == INSTANCE MailPromise WITH
  accepted <- done \o Current \o ch, fates <- fates,
  shut <- closed, over <- (closer = "returned")

\* The queue keeps its promise (module MailPromise): whatever Enqueue accepted
\* is settled once, in order, and Close returns only when all of it is,
\* however sending, retrying, stopping and enqueueing interleave.
KeepsPromise == Promise!Spec

\* Close ends, whatever the relay does: after the grace period every message
\* still waiting gets one short try.
CloseEnds == (closer = "waiting") ~> (closer = "returned")

\* An accepted message does not wait for ever behind one that cannot be sent.
QueueMoves == \A m \in Messages :
  (\E k \in 1..Len(ch) : ch[k] = m) ~> (\E k \in 1..Len(done) : done[k] = m)
====
