---- MODULE MCShutdown ----
(* What a shutdown waits for: two connections, one on each listener, and then *)
(* the mail queue with four messages for its channel of two and one retry.    *)
(* The two share no state in the model: a behaviour is one of one of them, as *)
(* part says from the start.                                                  *)
EXTENDS Lines, MailQueue, TLC

CONSTANTS c1, c2, telnet, ssh, here, there

MCConns      == {c1, c2}
MCListeners  == {telnet, ssh}
MCAddrs      == {here, there}
MCListenerOf == (c1 :> telnet) @@ (c2 :> ssh)
MCAddrOf     == (c1 :> here) @@ (c2 :> there)

VARIABLE part

ShutdownInit == part \in {"lines", "mail"} /\ Init /\ QueueInit

ShutdownNext ==
  /\ UNCHANGED part
  /\ \/ part = "lines" /\ Next /\ UNCHANGED queueVars
     \/ part = "mail" /\ QueueNext /\ UNCHANGED vars

\* Nothing of the part that does not run is ever enabled by itself, so fairness of one
\* says nothing of the other.
ShutdownSpec ==
  ShutdownInit /\ [][ShutdownNext]_<<part, vars, queueVars>> /\ Fairness /\ QueueFairness
====
