-------------------------------- MODULE Ping --------------------------------
(* ping.c with smolutils_net_recv() of inc/net.h: ten requests one after   *)
(* the other, each with a number and a deadline of its own, over a raw     *)
(* socket that hears every echo reply that comes to the machine.           *)
EXTENDS Naturals, Sequences, FiniteSets, SequencesExt

CONSTANTS Requests,     \* 10
          Seconds,      \* TIMEOUT
          MaxQueue      \* bound: packets in the socket at a time

PingAssumption == {Requests, Seconds, MaxQueue} \subseteq Nat \ {0}

VARIABLES i,            \* seq, the request at hand
          pc,
          left,         \* seconds left of its deadline
          queue,        \* the socket: seq of a reply to this ping's id from its host, 0 for others
          sent,         \* history: requests that went out
          answered,     \* history: requests the host has answered
          replies,      \* what was reported, in order
          exit

vars == <<i, pc, left, queue, sent, answered, replies, exit>>

Init == /\ i = 1 /\ pc = "send" /\ left = 0 /\ queue = <<>>
        /\ sent = {} /\ answered = {} /\ replies = <<>> /\ exit = "pending"

Fails == pc' = "done" /\ exit' = "failed" /\ i' = i

\* The next number, or the result: whether there was any reply.
NextRequest(n) ==
    IF i < Requests THEN i' = i + 1 /\ pc' = "send" /\ exit' = exit
    ELSE i' = i /\ pc' = "done" /\ exit' = IF n > 0 THEN "ok" ELSE "none"

\* send_request(), and the deadline of wait_for_response().
Send == /\ pc = "send"
        /\ pc' = "wait" /\ left' = Seconds
        /\ sent' = sent \cup {i}
        /\ UNCHANGED <<i, queue, answered, replies, exit>>

SendFails == /\ pc = "send" /\ Fails
             /\ UNCHANGED <<left, queue, sent, answered, replies>>

TimesOut == /\ pc = "wait" /\ left = 0
            /\ NextRequest(Len(replies))
            /\ UNCHANGED <<left, queue, sent, answered, replies>>

RecvFails == /\ pc = "wait" /\ left > 0 /\ Fails
             /\ UNCHANGED <<left, queue, sent, answered, replies>>

\* Mutant: the number is not looked at.
WantedAny(n) == n # 0

\* An echo reply, to this ping, and to this request.
Wanted(n) == n = i

Receives(wanted) == /\ pc = "wait" /\ left > 0 /\ queue # <<>>
                    /\ Wanted(Head(queue)) = wanted
                    /\ queue' = Tail(queue)

\* From another host, too short, another type, id or number: the deadline goes on.
RecvOther == /\ Receives(FALSE)
             /\ UNCHANGED <<i, pc, left, sent, answered, replies, exit>>

\* "Reply from", and two seconds of sleep.
RecvReply == /\ Receives(TRUE)
             /\ replies' = Append(replies, i)
             /\ NextRequest(Len(replies) + 1)
             /\ UNCHANGED <<left, sent, answered>>

-----------------------------------------------------------------------------
(* The host answers late, twice or not at all; others answer other pings.   *)

Arrives(n) == /\ pc # "done" /\ Len(queue) < MaxQueue
              /\ queue' = Append(queue, n)
              /\ UNCHANGED <<i, pc, left, sent, replies, exit>>

HostAnswers == \E n \in sent : Arrives(n) /\ answered' = answered \cup {n}

OthersAnswer == Arrives(0) /\ answered' = answered

Tick == /\ pc = "wait" /\ left > 0
        /\ left' = left - 1
        /\ UNCHANGED <<i, pc, queue, sent, answered, replies, exit>>

PingStep == Send \/ SendFails \/ TimesOut \/ RecvFails \/ RecvOther \/ RecvReply
Next == PingStep \/ HostAnswers \/ OthersAnswer \/ Tick

-----------------------------------------------------------------------------

TypeOK == /\ i \in 1..Requests /\ pc \in {"send", "wait", "done"}
          /\ left \in 0..Seconds /\ Len(queue) <= MaxQueue
          /\ sent \subseteq 1..Requests /\ answered \subseteq sent

\* Every line ping prints is for a reply to that very request, and there is one
\* line for each at most: neither a late or doubled reply nor another ping's
\* counts (wait_for_response). It succeeds exactly when it printed one.
EachReplyOnce ==
    /\ ToSet(replies) \subseteq answered
    /\ \A j, k \in DOMAIN replies : j < k => replies[j] < replies[k]
    /\ exit = "ok" => replies # <<>>
    /\ exit = "none" => replies = <<>>

\* However many replies to others come in, ping ends (deadline_left).
PingEnds == pc = "send" ~> pc = "done"

=============================================================================
