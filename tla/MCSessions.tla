---- MODULE MCSessions ----
(* What sessions hold in common: the lines they come in on, one node with     *)
(* room for two connections, and the private mail they read and write. The    *)
(* two share no state in the model: a behaviour is one of one of them, as     *)
(* part says from the start.                                                  *)
EXTENDS Lines, Mailbox, TLC

CONSTANTS c1, c2, c3, telnet, ssh, here, there, s1, s2

MCConns      == {c1, c2, c3}
MCListeners  == {telnet, ssh}
MCAddrs      == {here, there}
MCListenerOf == (c1 :> telnet) @@ (c2 :> telnet) @@ (c3 :> ssh)
MCAddrOf     == (c1 :> here) @@ (c2 :> here) @@ (c3 :> there)

\* c1 and c2 come in on the same listener from the same address.
Symmetry == Permutations(Sessions)

VARIABLE part

SessionsInit == part \in {"lines", "mailbox"} /\ Init /\ MailInit

SessionsNext ==
  /\ UNCHANGED part
  /\ \/ part = "lines" /\ Next /\ UNCHANGED mailVars
     \/ part = "mailbox" /\ MailNext /\ UNCHANGED vars

SessionsSpec == SessionsInit /\ [][SessionsNext]_<<part, vars, mailVars>>
====
