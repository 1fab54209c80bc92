------------------------------- MODULE Resolv -------------------------------
(* resolv.c with smolutils_net_recv() of inc/net.h: each server is asked   *)
(* in turn over one socket and given some seconds; what comes in is sorted *)
(* into answers and everything else.                                       *)
EXTENDS Naturals, Sequences, FiniteSets, SequencesExt

CONSTANTS Servers,      \* how many DHCPC_DNS_PATH may name: DHCPC_MAX_DNS
          Seconds,      \* DNS_TIMEOUT
          MaxResults,   \* RESOLV_MAX_RESULTS
          MaxQueue,     \* bound: packets in the socket at a time
          Replies       \* what a server may say

ResolvAssumption ==
    /\ {Servers, Seconds, MaxResults, MaxQueue} \subseteq Nat \ {0}
    /\ \A r \in Replies : r.code \in {"ok", "nx", "fail"}

(* A reply: code ("ok", "nx", "fail") and its records, each an address, or *)
(* "other", a record of another type, or "cut", one that does not fit.     *)
(* In the socket's queue it is [what |-> "reply", reply]; what else can be *)
(* there is "junk": too short, another id, question or opcode, truncated.  *)
(* A port that is unreachable is an error of the socket.                   *)

VARIABLES num,          \* num_servers
          i,            \* the one being asked, from 1
          pc,
          left,         \* seconds left of the deadline
          peer,         \* whom the socket is connected to, or 0
          queue,        \* the socket: what came in
          refused,      \* and its error
          got,          \* servers the query has reached
          said,         \* history: the replies they have sent to it
          result,       \* addresses found
          exit

vars == <<num, i, pc, left, peer, queue, refused, got, said, result, exit>>

\* dns_servers(): as many as the file has, and one, the fallback, if it has none
\* or is not there or is not whole.
Init == /\ \E n \in 0..Servers : num = IF n = 0 THEN 1 ELSE n
        /\ i = 1 /\ pc = "connect" /\ left = 0 /\ peer = 0
        /\ queue = <<>> /\ refused = FALSE /\ got = {} /\ said = {} /\ result = <<>> /\ exit = "pending"

Ends(how) == pc' = "done" /\ exit' = how /\ UNCHANGED <<num, i, left, peer, refused, got, said>>

\* continue: the next server, or none is left and nobody answered.
NextServer ==
    IF i < num
    THEN i' = i + 1 /\ pc' = "connect" /\ exit' = exit
    ELSE i' = i /\ pc' = "done" /\ exit' = "no answer"

\* The deadline, then connect(): from now on only this server is heard, but what
\* is in the socket stays there, and so does its error.
Connect == /\ pc = "connect"
           /\ left' = Seconds /\ peer' = i /\ pc' = "send"
           /\ UNCHANGED <<num, i, queue, refused, got, said, result, exit>>

ConnectFails == /\ pc = "connect" /\ NextServer
                /\ UNCHANGED <<num, left, peer, queue, refused, got, said, result>>

Send == /\ pc = "send" /\ ~refused
        /\ pc' = "wait"
        /\ got' = got \cup {i}
        /\ UNCHANGED <<num, i, left, peer, queue, refused, said, result, exit>>

\* sendto() fails, maybe for the error of a server asked before.
SendFails == /\ pc = "send" /\ NextServer
             /\ refused' = FALSE
             /\ UNCHANGED <<num, left, peer, queue, got, said, result>>

-----------------------------------------------------------------------------
(* smolutils_net_recv() and the loop around it.                             *)

TimesOut == /\ pc = "wait" /\ left = 0
            /\ NextServer
            /\ UNCHANGED <<num, left, peer, queue, refused, got, said, result>>

Refused == /\ pc = "wait" /\ left > 0 /\ refused
           /\ NextServer
           /\ refused' = FALSE
           /\ UNCHANGED <<num, left, peer, queue, got, said, result>>

Receives(what) == /\ pc = "wait" /\ left > 0 /\ ~refused
                  /\ queue # <<>> /\ Head(queue).what = what
                  /\ queue' = Tail(queue)

\* Mutants: what is no reply to this query is taken for one, or starts the
\* deadline anew.
RecvJunkTaken == /\ Receives("junk") /\ Ends("no such name") /\ result' = result
RecvJunkAnew == /\ Receives("junk") /\ left' = Seconds
                /\ UNCHANGED <<num, i, pc, peer, refused, got, said, result, exit>>

\* Too short, or not a reply to this query: the same deadline goes on.
RecvJunk == /\ Receives("junk")
            /\ UNCHANGED <<num, i, pc, left, peer, refused, got, said, result, exit>>

\* parse_response(): addresses up to the first record that does not fit.
Whole(r) == IF "cut" \in ToSet(r.records)
            THEN SubSeq(r.records, 1, SelectInSeq(r.records, LAMBDA x : x = "cut") - 1)
            ELSE r.records

\* Mutant: the caller's room is not looked at.
AddressesAll(r) == SelectSeq(Whole(r), LAMBDA x : x # "other")

Addresses(r) == LET all == SelectSeq(Whole(r), LAMBDA x : x # "other")
                IN SubSeq(all, 1, IF Len(all) < MaxResults THEN Len(all) ELSE MaxResults)

RecvReply ==
    /\ Receives("reply")
    /\ LET r == Head(queue).reply
           n == IF "cut" \in ToSet(r.records) THEN "bad response"
                ELSE IF Addresses(r) = <<>> THEN "no address" ELSE "ok"
       IN CASE r.code = "nx" -> Ends("no such name") /\ result' = result
            [] r.code = "fail" -> /\ NextServer
                                  /\ UNCHANGED <<num, left, peer, refused, got, said, result>>
            [] r.code = "ok" -> Ends(n) /\ result' = Addresses(r)

-----------------------------------------------------------------------------
(* The servers and the network: a server the query has reached may answer, *)
(* refuse, or repeat itself at any time up to the next connect(); anybody  *)
(* may send junk in its name.                                              *)

Reachable == pc # "done" /\ peer # 0
Arrives(m) == /\ Reachable /\ Len(queue) < MaxQueue
              /\ queue' = Append(queue, m)
              /\ UNCHANGED <<num, i, pc, left, peer, refused, got, result, exit>>

NoReply == [code |-> "", records |-> <<>>]

ServerAnswers == \E r \in Replies :
    /\ peer \in got
    /\ Arrives([what |-> "reply", reply |-> r])
    /\ said' = said \cup {r}

ServerRefuses == /\ peer \in got /\ Reachable
                 /\ refused' = TRUE
                 /\ UNCHANGED <<num, i, pc, left, peer, queue, got, said, result, exit>>

SomebodySends == /\ Arrives([what |-> "junk", reply |-> NoReply])
                 /\ said' = said

\* A second passes.
Tick == /\ pc = "wait" /\ left > 0
        /\ left' = left - 1
        /\ UNCHANGED <<num, i, pc, peer, queue, refused, got, said, result, exit>>

ResolvStep == \/ Connect \/ ConnectFails \/ Send \/ SendFails
              \/ TimesOut \/ Refused \/ RecvJunk \/ RecvReply
Next == ResolvStep \/ ServerAnswers \/ ServerRefuses \/ SomebodySends \/ Tick

\* resolv is scheduled, and time passes: a flood of junk does not stop the clock.
Fairness == WF_vars(ResolvStep) /\ WF_vars(Tick)

Spec == Init /\ [][Next]_vars /\ Fairness

-----------------------------------------------------------------------------

\* What resolv reports, one server has said in reply to this query: addresses
\* are all of one reply, as many as its caller has room for; a name is said not
\* to exist only if a server says so. Junk, and what an earlier server says too
\* late, changes nothing of that (is_reply_to, parse_response, main).
OwnAnswer ==
    CASE exit = "ok" -> \E r \in said : /\ r.code = "ok" /\ result # <<>>
                                        /\ ToSet(r.records) \cap {"cut"} = {}
                                        /\ result = Addresses(r)
      [] exit = "no such name" -> \E r \in said : r.code = "nx"
      [] exit \in {"no address", "bad response"} -> \E r \in said : r.code = "ok"
      [] OTHER -> TRUE

\* However many packets keep coming, resolv ends: each server has its deadline,
\* which a packet that is not the answer does not start anew (deadline_left).
ResolvEnds == pc = "connect" ~> pc = "done"

TypeOK ==
    /\ num \in 1..Servers /\ i \in 1..num /\ peer \in 0..i
    /\ pc \in {"connect", "send", "wait", "done"}
    /\ left \in 0..Seconds /\ Len(queue) <= MaxQueue /\ refused \in BOOLEAN
    /\ Len(result) <= MaxResults

=============================================================================
