---- MODULE MailPromise ----
(***************************************************************************)
(* What mailer.Queue promises its callers (internal/mailer/queue.go,       *)
(* mailer.go), without saying how: a message it accepts is settled once,   *)
(* as sent or as failed, in the order of acceptance; after it shuts it     *)
(* accepts nothing, and it is over only when everything is settled.        *)
(***************************************************************************)
EXTENDS Naturals, Sequences

CONSTANT Messages

VARIABLES
  accepted,  \* the messages accepted so far, in order
  fates,     \* what became of the first of them
  shut,      \* nothing is accepted any more
  over       \* Close has returned

vars == <<accepted, fates, shut, over>>

Init == accepted = <<>> /\ fates = <<>> /\ shut = FALSE /\ over = FALSE

Take(m) ==
  /\ ~shut
  /\ accepted' = Append(accepted, m)
  /\ UNCHANGED <<fates, shut, over>>

Settle ==
  /\ Len(fates) < Len(accepted)
  /\ \E f \in {"sent", "failed"} : fates' = Append(fates, f)
  /\ UNCHANGED <<accepted, shut, over>>

Shut ==
  /\ ~shut
  /\ shut' = TRUE
  /\ UNCHANGED <<accepted, fates, over>>

Finish ==
  /\ shut /\ ~over
  /\ Len(fates) = Len(accepted)
  /\ over' = TRUE
  /\ UNCHANGED <<accepted, fates, shut>>

Next == (\E m \in Messages : Take(m)) \/ Settle \/ Shut \/ Finish

Spec == Init /\ [][Next]_vars
====
