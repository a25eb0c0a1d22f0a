---- MODULE Notices ----
(***************************************************************************)
(* Notices: what other sessions and the web interface tell a caller, shown *)
(* at the next prompt, or at once in the teleconference.                   *)
(*                                                                         *)
(* Sources: internal/bbs/node.go (addNotice, takeNotices, each, notify,    *)
(* broadcast), session.go (flushNotices), chatui.go (chatRoom, forward).   *)
(*                                                                         *)
(* notify and broadcast go through the nodes under the table's lock, so    *)
(* one of them runs at a time.  For each node addNotice appends under the  *)
(* node's lock and signals after it, on a channel of one.  In chat a       *)
(* goroutine waits for the signal and then takes the notices; a prompt     *)
(* takes them without looking at the signal.                               *)
(***************************************************************************)
EXTENDS Integers, Sequences

CONSTANTS
  Nodes,       \* nodes with a caller on them
  MaxPending,  \* maxPendingNotices
  MaxNotices   \* bound: notices sent

VARIABLES
  at,       \* the session: login, menu, chat, or quit when done is closed
  fwd,      \* forward: off, select, or signalled before it takes the notices
  notices,  \* node.notices, oldest first
  signal,   \* node.notify holds a signal
  todo,     \* nodes the sender that holds the table's lock has still to reach
  adding,   \* nodes where addNotice is between its append and its signal
  sent      \* history: notices sent so far

vars == <<at, fwd, notices, signal, todo, adding, sent>>

Init ==
  /\ at = [n \in Nodes |-> "login"] /\ fwd = [n \in Nodes |-> "off"]
  /\ notices = [n \in Nodes |-> <<>>] /\ signal = [n \in Nodes |-> FALSE]
  /\ todo = {} /\ adding = {} /\ sent = 0

-----------------------------------------------------------------------------
(* Senders.                                                                *)

LoggedIn == {n \in Nodes : at[n] # "login"}

\* notify and broadcast take the table's lock; to are the nodes of one user, or all
\* with a user but the sender's.
Send(to) ==
  /\ todo = {} /\ adding = {} /\ sent < MaxNotices
  /\ to # {} /\ to \subseteq LoggedIn
  /\ todo' = to /\ sent' = sent + 1
  /\ UNCHANGED <<at, fwd, notices, signal, adding>>

\* addNotice's append; a node with MaxPending of them does not get this one.
AddNotice(n) ==
  /\ n \in todo /\ adding = {}
  /\ notices' = IF Len(notices[n]) < MaxPending
                THEN [notices EXCEPT ![n] = Append(@, sent)] ELSE notices
  /\ todo' = todo \ {n} /\ adding' = {n}
  /\ UNCHANGED <<at, fwd, signal, sent>>

\* Mutant: the channel has no buffer, so a signal nobody waits for is lost.
SignalUnbuffered(n) ==
  /\ n \in adding
  /\ signal' = [signal EXCEPT ![n] = signal[n] \/ fwd[n] = "select"] /\ adding' = {}
  /\ UNCHANGED <<at, fwd, notices, todo, sent>>

\* addNotice's signal; one may be pending already.
Signal(n) ==
  /\ n \in adding
  /\ signal' = [signal EXCEPT ![n] = TRUE] /\ adding' = {}
  /\ UNCHANGED <<at, fwd, notices, todo, sent>>

-----------------------------------------------------------------------------
(* The node's own session.                                                 *)

\* setUser.
SetUser(n) ==
  /\ at[n] = "login"
  /\ at' = [at EXCEPT ![n] = "menu"]
  /\ UNCHANGED <<fwd, notices, signal, todo, adding, sent>>

\* flushNotices, at a prompt.
FlushNotices(n) ==
  /\ at[n] = "menu" /\ notices[n] # <<>>
  /\ notices' = [notices EXCEPT ![n] = <<>>]
  /\ UNCHANGED <<at, fwd, signal, todo, adding, sent>>

\* chatRoom starts forward.
EnterChat(n) ==
  /\ at[n] = "menu"
  /\ at' = [at EXCEPT ![n] = "chat"] /\ fwd' = [fwd EXCEPT ![n] = "select"]
  /\ UNCHANGED <<notices, signal, todo, adding, sent>>

\* close(done), and wg.Wait.
QuitChat(n) ==
  /\ at[n] = "chat"
  /\ at' = [at EXCEPT ![n] = "quit"]
  /\ UNCHANGED <<fwd, notices, signal, todo, adding, sent>>

LeaveChat(n) ==
  /\ at[n] = "quit" /\ fwd[n] = "off"
  /\ at' = [at EXCEPT ![n] = "menu"]
  /\ UNCHANGED <<fwd, notices, signal, todo, adding, sent>>

\* forward's select.
TakeSignal(n) ==
  /\ fwd[n] = "select" /\ signal[n]
  /\ signal' = [signal EXCEPT ![n] = FALSE] /\ fwd' = [fwd EXCEPT ![n] = "signalled"]
  /\ UNCHANGED <<at, notices, todo, adding, sent>>

TakeNotices(n) ==
  /\ fwd[n] = "signalled"
  /\ notices' = [notices EXCEPT ![n] = <<>>] /\ fwd' = [fwd EXCEPT ![n] = "select"]
  /\ UNCHANGED <<at, signal, todo, adding, sent>>

\* Mutant: forward does not look at done.
SeeDoneNot(n) == FALSE /\ UNCHANGED vars

SeeDone(n) ==
  /\ fwd[n] = "select" /\ at[n] = "quit"
  /\ fwd' = [fwd EXCEPT ![n] = "off"]
  /\ UNCHANGED <<at, notices, signal, todo, adding, sent>>

Next ==
  \/ \E to \in SUBSET Nodes : Send(to)
  \/ \E n \in Nodes :
       \/ AddNotice(n) \/ Signal(n)
       \/ SetUser(n) \/ FlushNotices(n) \/ EnterChat(n) \/ QuitChat(n) \/ LeaveChat(n)
       \/ TakeSignal(n) \/ TakeNotices(n) \/ SeeDone(n)

Spec == Init /\ [][Next]_vars

\* Goroutines run, and select picks at random among what is ready.
Fairness ==
  \A n \in Nodes :
    /\ WF_vars(AddNotice(n)) /\ WF_vars(Signal(n)) /\ WF_vars(LeaveChat(n))
    /\ SF_vars(TakeSignal(n)) /\ WF_vars(TakeNotices(n)) /\ SF_vars(SeeDone(n))

-----------------------------------------------------------------------------
(* Properties.                                                             *)

TypeOK ==
  /\ at \in [Nodes -> {"login", "menu", "chat", "quit"}]
  /\ fwd \in [Nodes -> {"off", "select", "signalled"}]
  /\ notices \in [Nodes -> Seq(Nat)] /\ signal \in [Nodes -> BOOLEAN]
  /\ todo \subseteq Nodes /\ adding \subseteq Nodes /\ sent \in Nat

\* No notice waits unsignalled (addNotice, forward): whenever one is pending, the
\* signal is there, or addNotice is about to give it, or forward is about to take the
\* notices. So a notice that comes while forward is busy, while a prompt takes the
\* list, or between two visits to the chat is never left for nobody to see.
NoticeWakes ==
  \A n \in Nodes : notices[n] # <<>> => signal[n] \/ n \in adding \/ fwd[n] = "signalled"

\* A notice for a caller in chat is shown at once, or the caller quits ("immediately,
\* in chat", notify); and whoever quits is back in the menu, however many come.
ChatShows ==
  \A n \in Nodes :
    /\ at[n] = "chat" /\ notices[n] # <<>> ~> notices[n] = <<>> \/ at[n] # "chat"
    /\ at[n] = "quit" ~> at[n] = "menu"
====
