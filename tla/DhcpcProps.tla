----------------------------- MODULE DhcpcProps -----------------------------
(* What dhcpc promises the machine it configures.                           *)
EXTENDS Dhcpc

Replies == [type : {"OFFER", "ACK", "NAK"}, xid : 0..MaxRuns, server : Servers,
            terms : Terms \cup {Nothing}]
Offers  == {p \in Replies : p.type = "OFFER" /\ p.xid # 0 /\ Complete(p)}
Queries == [type : {"DISCOVER", "REQUEST"}, xid : Xids, try : 0..Tries - 1, server : Servers]

\* Every variable stays within its type, and a run that asks to be run again asks
\* for a time to come.
TypeOK ==
  /\ pc \in {"start", "failed", "discover", "offer", "request", "ack", "configure",
             "giveup", "over"}
  /\ pc = "over" => asked # 0
  /\ run \in Xids /\ tries \in 0..Tries /\ asked \in Nat
  /\ {config, iface, lease_file, dns_file} \subseteq Offers \cup {Nothing}
  /\ {rx[i] : i \in DOMAIN rx} \subseteq Replies
  /\ flight \subseteq Queries
  /\ offered \in [Servers -> [Xids -> Terms \cup {Nothing}]]
  /\ acked \subseteq Servers \X Xids
  /\ waited \in 0..tries /\ lost \in 0..MaxLost /\ stray \in 0..MaxStray

\* With one server, the address in use is one that this server acknowledged, and
\* no answer to an earlier run or to another client was taken for it.
AckedAddress ==
  Cardinality(Servers) = 1 /\ iface # Nothing => <<iface.server, iface.xid>> \in acked

\* While the one server answers, each once and in time, it takes a packet that is
\* lost, refused or of no use for every try to make dhcpc give up: none of these
\* puts it out of step with the server.
GaveUpForLoss ==
  Cardinality(Servers) = 1 /\ pc = "giveup" => lost >= Tries \/ stray > 0

\* dhcpc.c:611 says that the socket's timeout is how long the loop sleeps between
\* tries: when it gives up, it has waited that long at least once.
TriesWait == pc = "giveup" => waited > 0

\* Whatever arrives, a dhcpc that has begun its tries comes to the point where it
\* asks init to run it again.
AsksAgain == pc \notin {"start", "failed"} ~> pc = "over"

=============================================================================
