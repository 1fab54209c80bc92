-------------------------------- MODULE Dhcpc --------------------------------
(***************************************************************************)
(* dhcpc (dhcpc.c): up to ten tries of discover, offer, request and ack,   *)
(* then the interface is configured, or not, and init is asked to run      *)
(* dhcpc again. Every try reads one packet at a time from the socket and   *)
(* is over with the first that is not the one it wants; what comes in      *)
(* meanwhile waits in the socket for the tries after it.                   *)
(*                                                                         *)
(* The other actors are the servers, the network between, the clients of   *)
(* the same servers, whose answers are broadcast, and init.                *)
(***************************************************************************)
EXTENDS Naturals, Sequences, FiniteSets

CONSTANTS
  Servers,
  Terms,          \* what they offer, [addr, lease, dns]
  Tries,          \* of the loop in main()
  RETRY_SECONDS,
  Nothing,        \* no packet, no file; the terms of an offer that lacks some
  MaxRuns,        \* bound: how often init runs dhcpc
  MaxLost,        \* bound: packets that are lost, refused or of no use
  MaxStray        \* bound: packets that come late, twice, or for somebody else

ASSUME CountsAssumption ==
  /\ IsFiniteSet(Servers)
  /\ Tries \in Nat \ {0} /\ RETRY_SECONDS \in Nat \ {0}
  /\ MaxRuns \in Nat \ {0} /\ MaxLost \in Nat /\ MaxStray \in Nat
  /\ \A t \in Terms : t.lease \in Nat
  /\ Nothing \notin Terms

VARIABLES
  pc,
  run,       \* which run of dhcpc this is; its xid
  tries,
  config,    \* the offer taken last
  rx,        \* the socket's buffer
  iface,     \* the offer the interface has its address from
  lease_file, dns_file,
  asked,     \* secs of the last later_ask()
  flight,    \* requests on their way, and answers to them
  offered,   \* what every server offers to every xid
  acked,     \* history: which offers were acknowledged
  waited,    \* history: tries of this run that ended with a timeout
  lost, stray

clientVars == <<pc, run, tries, config, waited>>
stateVars  == <<iface, lease_file, dns_file, asked>>
serverVars == <<offered, acked>>
faultVars  == <<lost, stray>>
vars == <<clientVars, rx, stateVars, flight, serverVars, faultVars>>

Xids == 1..MaxRuns

-----------------------------------------------------------------------------
(* Packets *)

Reply(type, xid, s, terms) == [type |-> type, xid |-> xid, server |-> s, terms |-> terms]

\* Another client's, whose xid is another.
Others == {Reply(type, 0, s, terms) : type \in {"OFFER", "ACK"}, s \in Servers, terms \in Terms}

\* Mutant: the xid is not compared.
CheckPacketAny(p, type) == p.type = type

\* check_packet() and the message type.
check_packet(p, type) == p.xid = run /\ p.type = type

Query(type, s) == [type |-> type, xid |-> run, try |-> tries, server |-> s]

-----------------------------------------------------------------------------
(* The loop of main() *)

\* Mutant: the last try is never made.
NextTryEarly == IF tries + 2 = Tries THEN pc' = "giveup" ELSE pc' = "discover"

NextTry == IF tries + 1 = Tries THEN pc' = "giveup" ELSE pc' = "discover"

TryFails == /\ tries' = tries + 1
            /\ NextTry

\* Broadcast: every server gets its copy.
send_discover ==
  /\ pc = "discover"
  /\ pc' = "offer"
  /\ flight' = flight \cup {Query("DISCOVER", s) : s \in Servers}
  /\ UNCHANGED <<run, tries, config, waited, rx, stateVars, serverVars, faultVars>>

\* The server is named in the request; the others take it for a no.
Requested == {config.server}

send_request ==
  /\ pc = "request"
  /\ pc' = "ack"
  /\ flight' = flight \cup {Query("REQUEST", s) : s \in Requested}
  /\ UNCHANGED <<run, tries, config, waited, rx, stateVars, serverVars, faultVars>>

\* sendto() fails; the try is over at once.
SendFails ==
  /\ pc \in {"discover", "request"} /\ lost < MaxLost
  /\ lost' = lost + 1
  /\ TryFails
  /\ UNCHANGED <<run, config, waited, rx, stateVars, flight, serverVars, stray>>

Listening == pc \in {"offer", "ack"}

\* recvfrom() returns what came first.
Received(p) == Listening /\ rx # <<>> /\ p = Head(rx) /\ rx' = Tail(rx)

\* With a subnet mask and a server id.
Complete(p) == p.terms # Nothing

do_discover ==
  \E p \in {rx[i] : i \in DOMAIN rx} :
    /\ pc = "offer" /\ Received(p) /\ check_packet(p, "OFFER") /\ Complete(p)
    /\ pc' = "request"
    /\ config' = p
    /\ UNCHANGED <<run, tries, waited, stateVars, flight, serverVars, faultVars>>

do_request ==
  \E p \in {rx[i] : i \in DOMAIN rx} :
    /\ pc = "ack" /\ Received(p) /\ check_packet(p, "ACK")
    /\ pc' = "configure"
    /\ UNCHANGED <<run, tries, config, waited, stateVars, flight, serverVars, faultVars>>

Wanted(p) == \/ pc = "offer" /\ check_packet(p, "OFFER") /\ Complete(p)
             \/ pc = "ack" /\ check_packet(p, "ACK")

\* Whatever else it is: the try is over.
WrongPacket ==
  \E p \in {rx[i] : i \in DOMAIN rx} :
    /\ Received(p) /\ ~Wanted(p)
    /\ TryFails
    /\ UNCHANGED <<run, config, waited, stateVars, flight, serverVars, faultVars>>

\* Mutant: the socket has no timeout.
TimeoutNever == FALSE

\* Nothing for RX_TIMEOUT. Whatever is still under way will be late.
Timeout ==
  /\ Listening /\ rx = <<>>
  /\ \/ flight = {} /\ UNCHANGED stray
     \/ flight # {} /\ stray < MaxStray /\ stray' = stray + 1
  /\ TryFails
  /\ waited' = waited + 1
  /\ UNCHANGED <<run, config, rx, stateVars, flight, serverVars, lost>>

\* ask_to_run_again()
Asks(secs) == asked' = secs /\ pc' = "over"

GiveUp ==
  /\ pc = "giveup"
  /\ Asks(RETRY_SECONDS)
  /\ UNCHANGED <<run, tries, config, waited, rx, iface, lease_file, dns_file, flight,
                 serverVars, faultVars>>

\* Mutant: a lease that is too short to halve is never renewed.
RenewAsIs == config.terms.lease \div 2

Renew == IF config.terms.lease \div 2 # 0 THEN config.terms.lease \div 2
         ELSE RETRY_SECONDS

\* Without a server there is no new file: the old one stays.
write_state == /\ lease_file' = config
               /\ dns_file' = IF config.terms.dns = {} THEN dns_file ELSE config

\* Setting the address may fail, and dhcpc goes on.
Configure ==
  /\ pc = "configure"
  /\ iface' \in {iface, config}
  /\ write_state
  /\ Asks(Renew)
  /\ UNCHANGED <<run, tries, config, waited, rx, flight, serverVars, faultVars>>

Client == \/ send_discover \/ send_request \/ SendFails
          \/ do_discover \/ do_request \/ WrongPacket \/ Timeout
          \/ GiveUp \/ Configure

\* No interface, no MAC address or no socket: dhcpc ends without asking.
StartFails ==
  /\ pc = "start"
  /\ pc' = "failed"
  /\ UNCHANGED <<run, tries, config, waited, rx, stateVars, flight, serverVars, faultVars>>

\* The socket is opened; what comes in from now on waits in it.
Start ==
  /\ pc = "start"
  /\ pc' = "discover" /\ tries' = 0 /\ config' = Nothing /\ waited' = 0
  /\ UNCHANGED <<run, rx, stateVars, flight, serverVars, faultVars>>

\* init runs it again when the time has come. A new socket, a new xid.
RunAgain ==
  /\ pc = "over" /\ asked # 0 /\ run < MaxRuns
  /\ pc' = "start" /\ run' = run + 1 /\ rx' = <<>>
  /\ UNCHANGED <<tries, config, waited, stateVars, flight, serverVars, faultVars>>

-----------------------------------------------------------------------------
(* Servers and network. A packet that reaches no socket is gone. *)

Arrives(p) == rx' = IF pc \in {"start", "over", "failed"} THEN rx ELSE Append(rx, p)

\* The request has arrived, and its answer does. It may do so twice.
Delivered(q) == \/ flight' = flight \ {q} /\ UNCHANGED faultVars
                \/ /\ stray < MaxStray /\ stray' = stray + 1
                   /\ UNCHANGED <<flight, lost>>

\* A server sticks to what it offered to an xid.
Offer(q) ==
  /\ q.type = "DISCOVER"
  /\ \E terms \in Terms :
       /\ offered[q.server][q.xid] \in {Nothing, terms}
       /\ offered' = [offered EXCEPT ![q.server][q.xid] = terms]
       /\ Arrives(Reply("OFFER", q.xid, q.server, terms))
  /\ Delivered(q)
  /\ UNCHANGED <<clientVars, stateVars, acked>>

Ack(q) ==
  /\ q.type = "REQUEST"
  /\ acked' = acked \cup {<<q.server, q.xid>>}
  /\ Arrives(Reply("ACK", q.xid, q.server, offered[q.server][q.xid]))
  /\ Delivered(q)
  /\ UNCHANGED <<clientVars, stateVars, offered>>

\* The server's offer lacks the subnet mask or the server id.
BareOffer(q) ==
  /\ q.type = "DISCOVER" /\ lost < MaxLost
  /\ lost' = lost + 1
  /\ flight' = flight \ {q}
  /\ Arrives(Reply("OFFER", q.xid, q.server, Nothing))
  /\ UNCHANGED <<clientVars, stateVars, serverVars, stray>>

\* The server says no.
Nak(q) ==
  /\ q.type = "REQUEST" /\ lost < MaxLost
  /\ lost' = lost + 1
  /\ flight' = flight \ {q}
  /\ Arrives(Reply("NAK", q.xid, q.server, offered[q.server][q.xid]))
  /\ UNCHANGED <<clientVars, stateVars, serverVars, stray>>

\* The request or its answer.
Lose(q) ==
  /\ lost < MaxLost /\ lost' = lost + 1
  /\ flight' = flight \ {q}
  /\ UNCHANGED <<clientVars, rx, stateVars, serverVars, stray>>

Overheard ==
  /\ Listening /\ stray < MaxStray /\ stray' = stray + 1
  /\ \E p \in Others : Arrives(p)
  /\ UNCHANGED <<clientVars, stateVars, flight, serverVars, lost>>

Deliver == \E q \in flight : Offer(q) \/ BareOffer(q) \/ Ack(q) \/ Nak(q) \/ Lose(q)

-----------------------------------------------------------------------------

Init ==
  /\ pc = "start" /\ run = 1 /\ tries = 0 /\ config = Nothing
  /\ rx = <<>> /\ flight = {}
  /\ iface = Nothing /\ lease_file = Nothing /\ dns_file = Nothing /\ asked = 0
  /\ offered = [s \in Servers |-> [x \in Xids |-> Nothing]]
  /\ acked = {} /\ waited = 0 /\ lost = 0 /\ stray = 0

Next == Client \/ StartFails \/ Start \/ RunAgain \/ Deliver \/ Overheard

Spec == Init /\ [][Next]_vars

\* dhcpc is scheduled, and what is under way arrives or is lost.
LiveSpec == Spec /\ WF_vars(Client) /\ WF_vars(Deliver)

=============================================================================
