-------------------------------- MODULE Sntp --------------------------------
(* sntp.c: the addresses of the pool are asked one after the other, over   *)
(* one socket that hears everybody, until one of them sets the clock.      *)
EXTENDS Integers, Sequences

CONSTANTS Addresses,    \* how many resolv may find
          Wrap,         \* NTP counts seconds modulo this, 2^32,
          Delta,        \* NTP_UNIX_DELTA: from 1900 to 1970
          Times,        \* what servers may think it is, in seconds since 1970
          MaxQueue      \* bound: packets in the socket at a time

SntpAssumption == /\ Addresses \in Nat /\ {Wrap, Delta, MaxQueue} \subseteq Nat \ {0}
                  /\ Delta < Wrap /\ Times \subseteq 0..(Wrap - 1)   \* up to 2106

(* A packet: whole, of sizeof(struct ntp_packet) or more; stratum; and tx, *)
(* the server's time as it is sent, of real, the one it means.             *)

VARIABLES num,          \* num_addr_v4
          i,            \* the address being asked
          pc,
          queue,        \* the socket
          asked,        \* the addresses a request has reached
          pkt,          \* the answer
          clock,        \* what CLOCK_REALTIME was set to, or 0
          exit

vars == <<num, i, pc, queue, asked, pkt, clock, exit>>

Stranger == -1          \* what a packet means that is no server's
NoPacket == [whole |-> FALSE, stratum |-> 0, tx |-> 0, real |-> Stranger]

Init == /\ num \in 0..Addresses
        /\ i = 1 /\ queue = <<>> /\ asked = {} /\ pkt = NoPacket
        /\ clock = 0
        /\ IF num = 0 THEN pc = "done" /\ exit = "no time" ELSE pc = "send" /\ exit = ""

\* do_sntp() returns -1: the next address, or "No server had the time for us".
NextAddress == IF i < num THEN i' = i + 1 /\ pc' = "send" /\ exit' = exit
               ELSE i' = i /\ pc' = "done" /\ exit' = "no time"

Send == /\ pc = "send"
        /\ pc' = "recv" /\ asked' = asked \cup {i}
        /\ UNCHANGED <<num, i, queue, pkt, clock, exit>>

SendFails == /\ pc = "send" /\ NextAddress
             /\ UNCHANGED <<num, queue, asked, pkt, clock>>

\* Nothing for NTP_TIMEOUT seconds, or an error.
NoResponse == /\ pc = "recv" /\ NextAddress
              /\ UNCHANGED <<num, queue, asked, pkt, clock>>

\* Mutant: a time before 1970, or after 2036, is taken all the same.
UsableAnyTime(m) == m.whole /\ m.stratum # 0

\* Long enough, from a clock that is in step, and its time is after 1970. Who
\* sent it and what it answers is not looked at.
Usable(m) == m.whole /\ m.stratum # 0 /\ m.tx >= Delta

\* Any other packet ends the turn as well.
Unusable == /\ pc = "recv" /\ queue # <<>> /\ ~Usable(Head(queue))
            /\ NextAddress
            /\ queue' = Tail(queue)
            /\ UNCHANGED <<num, asked, pkt, clock>>

Receive == /\ pc = "recv" /\ queue # <<>> /\ Usable(Head(queue))
           /\ pkt' = Head(queue) /\ queue' = Tail(queue)
           /\ pc' = "set"
           /\ UNCHANGED <<num, i, asked, clock, exit>>

SetClock == /\ pc = "set"
            /\ clock' = pkt.tx - Delta
            /\ pc' = "done" /\ exit' = "ok"
            /\ UNCHANGED <<num, i, queue, asked, pkt>>

SetFails == /\ pc = "set" /\ NextAddress
            /\ UNCHANGED <<num, queue, asked, pkt, clock>>

-----------------------------------------------------------------------------
(* Servers answer, late and more than once; one that is not in step says   *)
(* stratum 0. The port is anybody's to send to, once it is one.            *)

Arrives(m) == /\ pc # "done" /\ Len(queue) < MaxQueue
              /\ queue' = Append(queue, m)
              /\ UNCHANGED <<num, i, pc, asked, pkt, clock, exit>>

ServerAnswers == \E t \in Times, s \in 0..1 :
    asked # {} /\ Arrives([whole |-> TRUE, stratum |-> s, tx |-> (t + Delta) % Wrap, real |-> t])

HasPort == pc # "send" \/ i > 1

SomebodySends ==
    /\ HasPort
    /\ \/ Arrives(NoPacket)
       \/ \E t \in 0..(Wrap - 1) :
             Arrives([whole |-> TRUE, stratum |-> 1, tx |-> t, real |-> Stranger])

SntpStep == \/ Send \/ SendFails \/ NoResponse \/ Unusable \/ Receive \/ SetClock \/ SetFails
Next == SntpStep \/ ServerAnswers \/ SomebodySends

-----------------------------------------------------------------------------

TypeOK == /\ num \in 0..Addresses /\ i \in 1..(Addresses + 1)
          /\ pc \in {"send", "recv", "set", "done"}
          /\ Len(queue) <= MaxQueue /\ asked \subseteq 1..num
          /\ clock \in 0..(Wrap - 1)

\* The clock is set to what the packet taken says, and when that is a server's, to
\* the time the server means, or not at all: when NTP's seconds start anew, in 2036,
\* sntp finds no time, rather than one that is 136 years off (do_sntp). Whatever
\* anybody else sends to the port is taken for a server's time.
TimeMeant ==
    IF exit = "ok" THEN /\ clock = pkt.tx - Delta
                        /\ pkt.real # Stranger => clock = pkt.real /\ asked # {}
    ELSE clock = 0

=============================================================================
