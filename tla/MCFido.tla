---- MODULE MCFido ----
(* Incoming and outgoing FidoNet mail, which share no state: a behaviour is  *)
(* one of the one or one of the other, as part says from the start.          *)
EXTENDS Integers, Sequences, TLC

CONSTANTS Tossers, Names, Bundles, MaxEcho, MaxDrops, MaxEchoId, MaxTossFaults,
          Letters, Files, Hop, OwnMail, Spoilt, Huge, QueueTries, MaxRuns, MaxQueueFaults, Parts

\* A bundle is what its packets hold, in order (EachMessage), and an area holds a
\* message at least (MaxEchoMessages).
ASSUME TossAssumption ==
  /\ Bundles \subseteq Seq([id : STRING, kind : {"echo", "net", "transit"},
                         packet : {"fine", "spoilt", "huge"}])
  /\ MaxEcho \in Nat \ {0}

\* Messages are told apart: by the letter or the file they are, and in a file by their
\* place. No writer goes by a name that bsy uses for something else.
ASSUME QueueAssumption ==
  /\ Letters \intersect {"route", "free", "mailer", "dead"} = {}
  /\ \A f \in Files : /\ f \in Seq(STRING)
                      /\ \A i, j \in DOMAIN f : f[i] = f[j] => i = j
                      /\ \A i \in DOMAIN f : f[i] \notin Letters
  /\ Hop = [m \in DOMAIN Hop |-> Hop[m]]

\* Two bundles that share an echo message, the first with packets that cannot be read,
\* one that only has such a packet, and a file that is no bundle.
MCBundles ==
  LET m(id, kind) == [id |-> id, kind |-> kind, packet |-> "fine"]
      torn == [m("n2", "net") EXCEPT !.packet = "spoilt"]
      long == [m("e4", "echo") EXCEPT !.packet = "huge"]
  IN {<<>>, <<torn>>,
      <<m("e1", "echo"), torn, m("n1", "net"), long, m("x1", "transit")>>,
      <<m("e2", "echo"), m("e3", "echo"), m("e1", "echo")>>}

\* A file whose messages all have a way to go but one in a packet that cannot be read,
\* one with a message that has none, and one without a packet that can be read.
MCFiles == {<<"r1", "own", "torn", "r2">>, <<"r1", "astray">>, <<"torn", "long">>}
MCHop   == [x \in {"l1", "r1", "r2", "torn", "long"} |-> "hub"]

VARIABLES part,
  box, done, bad, tossed, echo, net, job, mark, list, drops, tossFaults, ever, strange, listed,
  bundle, bsy, packet, w, sentLog, told, file, sent, ok, runs, queueFaults

tossVars == <<box, done, bad, tossed, echo, net, job, mark, list, drops, tossFaults, ever,
              strange, listed>>
outVars  == <<bundle, bsy, packet, w, sentLog, told, file, sent, ok, runs, queueFaults>>

T == INSTANCE Toss WITH faults <- tossFaults, MaxFaults <- MaxTossFaults
O == INSTANCE Outbound WITH faults <- queueFaults, MaxFaults <- MaxQueueFaults

Init ==
  /\ part \in Parts /\ T!Init /\ O!Init
  /\ part = "toss" => bundle = CHOOSE f \in Files : TRUE

Next ==
  \/ part = "toss" /\ T!Next /\ UNCHANGED <<part, outVars>>
  \/ part = "queue" /\ O!Next /\ UNCHANGED <<part, tossVars>>

Spec == Init /\ [][Next]_<<part, tossVars, outVars>>

\* Fairness of either. The BBS tosses again and again while it runs (RunTosser), and a
\* crashed process is started again; it always has something to do, but only in its part.
LiveSpec == Spec /\ O!Fairness /\ WF_tossVars(part = "toss" /\ T!TossStep("bbs"))

\* Toss: a bundle in tossed/ has its messages in the base.
NothingLost == T!NothingLost

\* Toss: an area has a message once, and no more than it may hold.
EchoOnce == T!EchoOnce

\* Toss: an echo message is new until it has been in a list.
EchoNothingSkipped == T!EchoNothingSkipped

\* Toss: every file of the mailer is moved aside.
BundlesLeave == T!BundlesLeave

\* Toss: netmail of a bundle in tossed/ is in the netmail box, as the README says.
NetmailArrives == T!NetmailArrives

\* Outbound: nothing queued is lost or multiplied.
QueueKeeps == O!QueueKeeps

\* Outbound: a routed file is put away only when what could be read of it is queued.
RoutedQueued == O!RoutedQueued

\* Outbound: a routed file is put away only when everything in it is queued, as the
\* comment of route says.
EverythingQueued == O!EverythingQueued

\* Outbound: what is queued is sent.
QueuedIsSent == O!QueuedIsSent
====
