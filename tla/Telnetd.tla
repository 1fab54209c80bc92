------------------------------- MODULE Telnetd -------------------------------
(***************************************************************************)
(* telnetd (telnetd.c): one loop that serves every session. poll() says    *)
(* what each socket and pty can do, a new connection takes a free session, *)
(* then each session moves bytes both ways through two queues, taking the  *)
(* telnet commands out of what the client sends and escaping what the      *)
(* shell says. The queues are ringbufs, which Ringbuf shows to be what     *)
(* they are here: sequences of at most QueueSize bytes.                    *)
(*                                                                         *)
(* The other actors are the clients, the shells and the kernel's buffers   *)
(* between them and telnetd. What happens between poll() and the last      *)
(* session served happens behind telnetd's back.                           *)
(***************************************************************************)
EXTENDS Naturals, Sequences, FiniteSetsExt

CONSTANTS
  MaxSessions,  \* MAX_SESSIONS
  QueueSize,    \* QUEUE_SIZE
  BufSize,      \* BUF_SIZE
  MinRead,      \* MIN_READ
  ClientBytes,  \* what the client of each connection sends
  ShellBytes,   \* what the shell of each connection says
  SockRoom,     \* bytes a socket takes that its client has not read
  PtyRoom,      \* bytes a pty takes that its shell has not read
  MaxConns,     \* bound: connections made
  Readers,      \* which of them have a client that reads what it is sent
  MaxSend,      \* bound: bytes the client of each sends
  MaxSay        \* bound: bytes the shell of each says

ASSUME SizesAssumption ==
  /\ MaxSessions \in Nat \ {0} /\ QueueSize \in Nat \ {0}
  /\ BufSize \in Nat \ {0} /\ MinRead \in Nat \ {0}
  /\ SockRoom \in Nat \ {0} /\ PtyRoom \in Nat \ {0}

ASSUME ConnsAssumption ==
  /\ MaxConns \in Nat /\ Readers \subseteq 1..MaxConns
  /\ MaxSend \in [1..MaxConns -> Nat] /\ MaxSay \in [1..MaxConns -> Nat]

\* The bytes telnet tells apart; NUL stands for both '\0' and '\n', WILL for
\* WILL, WONT, DO and DONT. Any other byte is data.
IAC == "IAC"
SB == "SB"
SE == "SE"
WILL == "WILL"
CR == "CR"
NUL == "NUL"

\* The three negotiations a session opens with, as one symbol.
HELLO == "HELLO"
hello == <<HELLO>>

Bytes == UNION {ClientBytes[c] \cup ShellBytes[c] : c \in 1..MaxConns}

ASSUME HelloAssumption == HELLO \notin Bytes

Sessions == 1..MaxSessions

VARIABLES
  pc,         \* "poll", "accept" or "serve"
  turn,       \* the session about to be served
  revents,    \* per session, what poll() said of its two fds
  listening,  \* did poll() say there is a connection?
  open,       \* is there an fd, or is it -1?
  state,      \* strip_iac()'s state
  to_sock,    \* the queue for the client
  to_master,  \* the queue for the shell
  conns,      \* connections made so far
  waiting,    \* connections not yet accepted
  nth,        \* per session, which connection it serves
  left,       \* has the client left?
  ended,      \* has the shell ended?
  sent,       \* all that the client sent
  taken,      \* how many of these bytes telnetd has read
  heard,      \* all that was written to the pty
  inpty,      \* how many of these the shell has not read
  said,       \* all that the shell said
  got,        \* how many of these bytes telnetd has read
  seen,       \* all that was written to the socket
  insock      \* how many of these the client has not read

loopVars   == <<pc, turn, revents, listening>>
queueVars  == <<open, state, to_sock, to_master>>
connVars   == <<conns, waiting>>
clientVars == <<nth, left, sent, taken, seen, insock>>
shellVars  == <<ended, said, got, heard, inpty>>
vars == <<loopVars, queueVars, connVars, clientVars, shellVars>>

-----------------------------------------------------------------------------
(* Bytes *)

Goes(acc, s) == [acc EXCEPT !.state = s]
Emits(acc, ch, s) == [state |-> s, out |-> Append(acc.out, ch)]

Data(acc, ch) == IF ch = IAC THEN Goes(acc, "CMD")
                 ELSE Emits(acc, ch, IF ch = CR THEN "CR" ELSE "DATA")

\* One turn of strip_iac()'s loop.
StripByte(acc, ch) ==
  CASE acc.state = "CR"   -> IF ch = NUL THEN Goes(acc, "DATA") ELSE Data(acc, ch)
    [] acc.state = "DATA" -> Data(acc, ch)
    [] acc.state = "CMD"  -> IF ch = IAC THEN Emits(acc, ch, "DATA")
                             ELSE IF ch = SB THEN Goes(acc, "SUB")
                             ELSE Goes(acc, IF ch = WILL THEN "OPT" ELSE "DATA")
    [] acc.state = "OPT"  -> Goes(acc, "DATA")
    [] acc.state = "SUB"  -> Goes(acc, IF ch = IAC THEN "SUB_IAC" ELSE "SUB")
    [] acc.state = "SUB_IAC" -> Goes(acc, IF ch = SE THEN "DATA" ELSE "SUB")

\* What the loop comes to that starts with acc and goes through all of bytes.
StripFrom(acc, bytes) ==
  LET upto[n \in 0..Len(bytes)] ==
        IF n = 0 THEN acc ELSE StripByte(upto[n - 1], bytes[n])
  IN  upto[Len(bytes)]

\* Mutant: every read starts afresh.
StripIacAfresh(st, bytes) == StripFrom([state |-> "DATA", out |-> <<>>], bytes)

strip_iac(st, bytes) == StripFrom([state |-> st, out |-> <<>>], bytes)

\* Mutant: IAC goes out as it is.
EscapedNot(bytes) == bytes

Escaped(bytes) ==
  LET upto[n \in 0..Len(bytes)] ==
        IF n = 0 THEN <<>>
        ELSE upto[n - 1] \o (IF bytes[n] = IAC THEN <<IAC, IAC>> ELSE <<bytes[n]>>)
  IN  upto[Len(bytes)]

-----------------------------------------------------------------------------
(* nonblockingio. write() takes what the kernel has room for, perhaps less: *)
(* a queue that wraps is offered up to its end only.                        *)

Room(q) == QueueSize - Len(q)
First(n, q) == SubSeq(q, 1, n)
After(n, q) == SubSeq(q, n + 1, Len(q))

\* How much a drain() of queue q may write to a kernel buffer with `room` left.
Drains(q, room) == LET most == Min({Len(q), room})
                   IN  {n \in 0..most : n = 0 => most = 0}

\* Mutant: poll() is not asked when the fd can be written.
EventsNever(q) == {}

nonblockingio_events(q) == IF q # <<>> THEN {"OUT"} ELSE {}

-----------------------------------------------------------------------------
(* The loop: poll() *)

\* What poll() is asked for on the socket and the master of s.
SockEvents(s) == {"RDHUP"} \cup nonblockingio_events(to_sock[s])
                   \cup {e \in {"IN"} : Room(to_master[s]) >= MinRead}
MasterEvents(s) == nonblockingio_events(to_master[s])
                     \cup {e \in {"IN"} : Room(to_sock[s]) \div 2 >= MinRead}

\* How the fds are. A socket whose client left is readable, for the end of it;
\* an fd that has lost its other end takes a write, which fails.
SockReady(s) == {e \in {"IN"} : taken[s] < Len(sent[s]) \/ left[s]}
                  \cup {e \in {"OUT"} : insock[s] < SockRoom \/ left[s]}
                  \cup {e \in {"RDHUP"} : left[s]}
MasterReady(s) == {e \in {"IN"} : got[s] < Len(said[s])}
                    \cup {e \in {"OUT"} : inpty[s] < PtyRoom \/ ended[s]}

Quiet == [sock |-> {}, master |-> {}]

\* POLLHUP is told unasked. Of the socket it never comes without POLLRDHUP,
\* which service() looks at first. An fd of -1 has no events.
Told(s) == IF ~open[s] THEN Quiet
           ELSE [sock |-> SockEvents(s) \cap SockReady(s),
                 master |-> (MasterEvents(s) \cap MasterReady(s))
                              \cup {e \in {"HUP"} : ended[s]}]

\* Mutant: the events of a session that is over stay in fds[].
PolledStale == [s \in Sessions |-> IF open[s] THEN Told(s) ELSE revents[s]]

Polled == [s \in Sessions |-> Told(s)]

\* poll() blocks until there is something to tell.
Poll ==
  /\ pc = "poll"
  /\ waiting > 0 \/ \E s \in Sessions : Told(s) # Quiet
  /\ pc' = "accept"
  /\ revents' = Polled
  /\ listening' = (waiting > 0)
  /\ UNCHANGED turn
  /\ UNCHANGED <<queueVars, connVars, clientVars, shellVars>>

-----------------------------------------------------------------------------
(* Sessions *)

\* The kernel's buffers and the histories go with the fds.
Gone(s) ==
  /\ nth' = [nth EXCEPT ![s] = 0] /\ left' = [left EXCEPT ![s] = FALSE]
  /\ sent' = [sent EXCEPT ![s] = <<>>] /\ taken' = [taken EXCEPT ![s] = 0]
  /\ seen' = [seen EXCEPT ![s] = <<>>] /\ insock' = [insock EXCEPT ![s] = 0]
  /\ ended' = [ended EXCEPT ![s] = FALSE]
  /\ said' = [said EXCEPT ![s] = <<>>] /\ got' = [got EXCEPT ![s] = 0]
  /\ heard' = [heard EXCEPT ![s] = <<>>] /\ inpty' = [inpty EXCEPT ![s] = 0]

\* Mutant: the queues keep what they hold.
SessionInitKeeps(s) == UNCHANGED <<to_sock, to_master>>

session_init(s) == /\ to_sock' = [to_sock EXCEPT ![s] = <<>>]
                   /\ to_master' = [to_master EXCEPT ![s] = <<>>]

session_end(s) == /\ open' = [open EXCEPT ![s] = FALSE]
                  /\ session_init(s)
                  /\ Gone(s)
                  /\ UNCHANGED state

Free == {s \in Sessions : ~open[s]}

\* hello is queued and what the socket takes of it is written.
session_start(s) ==
  /\ open' = [open EXCEPT ![s] = TRUE]
  /\ state' = [state EXCEPT ![s] = "DATA"]
  /\ nth' = [nth EXCEPT ![s] = conns - waiting + 1]
  /\ \E n \in Drains(hello, SockRoom) :
       /\ to_sock' = [to_sock EXCEPT ![s] = After(n, hello)]
       /\ seen' = [seen EXCEPT ![s] = First(n, hello)]
       /\ insock' = [insock EXCEPT ![s] = n]
  /\ UNCHANGED <<to_master, left, sent, taken, shellVars>>

\* No pty, no process or no session to spare: the connection is dropped.
Dropped == UNCHANGED <<queueVars, clientVars, shellVars>>

accept_one ==
  /\ waiting' = waiting - 1
  /\ IF Free = {} THEN Dropped ELSE session_start(Min(Free)) \/ Dropped
  /\ UNCHANGED conns

Accept ==
  /\ pc = "accept"
  /\ pc' = "serve" /\ turn' = 1
  /\ IF listening THEN accept_one
     ELSE UNCHANGED <<queueVars, connVars, clientVars, shellVars>>
  /\ UNCHANGED <<revents, listening>>

-----------------------------------------------------------------------------
(* service() *)

InWant(q)  == Min({Room(q), BufSize})
OutWant(q) == Min({Room(q) \div 2, BufSize})

\* read() of up to `want` of `stream`, of which `done` bytes are gone already.
Chunk(stream, done, want) ==
  SubSeq(stream, done + 1, Min({Len(stream), done + want}))

\* drain() when `writable`; otherwise nothing is written.
DrainsIf(writable, q, room) == IF writable THEN Drains(q, room) ELSE {0}

\* The client is gone, though poll() did not say so: the socket may already fail.
SocketFails(s) ==
  /\ left[s] /\ revents[s].sock \cup revents[s].master # {}
  /\ session_end(s)

\* Nothing left to read from either end, and one of them is lost.
OneEndLost(sock, master) == "IN" \notin sock \cup master /\ "HUP" \in master

\* The drains poll() asked for, then what there is to read either way: n and m
\* bytes leave the queues first, i and o after what was read came in.
Move(s) ==
  LET sock == revents[s].sock
      master == revents[s].master
  IN \E n \in DrainsIf("OUT" \in master, to_master[s], PtyRoom - inpty[s]),
       m \in DrainsIf("OUT" \in sock, to_sock[s], SockRoom - insock[s]) :
     LET qm == After(n, to_master[s])
         qs == After(m, to_sock[s])
         in == IF "IN" \in sock THEN Chunk(sent[s], taken[s], InWant(qm)) ELSE <<>>
         out == IF "IN" \in master THEN Chunk(said[s], got[s], OutWant(qs)) ELSE <<>>
         stripped == strip_iac(state[s], in)
         writes == ("OUT" \in master /\ to_master[s] # <<>>) \/ stripped.out # <<>>
     IN IF \/ "RDHUP" \in sock
           \/ ended[s] /\ writes
           \/ Len(stripped.out) > Room(qm)   \* ENOBUFS of ringbuf_add()
           \/ 2 * Len(out) > Room(qs)        \* ENOBUFS of escape()
           \/ OneEndLost(sock, master)
        THEN session_end(s)
        ELSE \E i \in DrainsIf(stripped.out # <<>>, qm \o stripped.out,
                                PtyRoom - inpty[s] - n),
                o \in DrainsIf("IN" \in master, qs \o Escaped(out),
                                SockRoom - insock[s] - m) :
             /\ state' = [state EXCEPT ![s] = stripped.state]
             /\ taken' = [taken EXCEPT ![s] = @ + Len(in)]
             /\ to_master' = [to_master EXCEPT ![s] = After(i, qm \o stripped.out)]
             /\ heard' = [heard EXCEPT ![s] = @ \o First(n + i, to_master[s] \o stripped.out)]
             /\ inpty' = [inpty EXCEPT ![s] = @ + n + i]
             /\ got' = [got EXCEPT ![s] = @ + Len(out)]
             /\ to_sock' = [to_sock EXCEPT ![s] = After(o, qs \o Escaped(out))]
             /\ seen' = [seen EXCEPT ![s] = @ \o First(m + o, to_sock[s] \o Escaped(out))]
             /\ insock' = [insock EXCEPT ![s] = @ + m + o]
             /\ UNCHANGED <<open, nth, left, sent, ended, said>>

service ==
  /\ pc = "serve"
  /\ IF open[turn] THEN Move(turn) \/ SocketFails(turn)
     ELSE UNCHANGED <<queueVars, clientVars, shellVars>>
  /\ IF turn < MaxSessions THEN turn' = turn + 1 /\ UNCHANGED pc
     ELSE pc' = "poll" /\ UNCHANGED turn
  /\ UNCHANGED <<revents, listening, connVars>>

-----------------------------------------------------------------------------
(* The clients and the shells *)

Connect ==
  /\ conns < MaxConns /\ waiting = 0
  /\ conns' = conns + 1 /\ waiting' = waiting + 1
  /\ UNCHANGED <<loopVars, queueVars, clientVars, shellVars>>

\* Before poll(): a byte that comes later is read all the same if there were
\* others to read, and is otherwise one for the next poll().
ClientSends(s, b) ==
  /\ pc = "poll"
  /\ open[s] /\ b \in ClientBytes[nth[s]] /\ ~left[s] /\ Len(sent[s]) < MaxSend[nth[s]]
  /\ sent' = [sent EXCEPT ![s] = Append(@, b)]
  /\ UNCHANGED <<loopVars, queueVars, connVars, nth, left, taken, seen, insock,
                 shellVars>>

ClientReads(s) ==
  /\ open[s] /\ nth[s] \in Readers /\ insock[s] > 0
  /\ insock' = [insock EXCEPT ![s] = @ - 1]
  /\ UNCHANGED <<loopVars, queueVars, connVars, nth, left, sent, taken, seen,
                 shellVars>>

ClientLeaves(s) ==
  /\ open[s] /\ ~left[s]
  /\ left' = [left EXCEPT ![s] = TRUE]
  /\ UNCHANGED <<loopVars, queueVars, connVars, nth, sent, taken, seen, insock,
                 shellVars>>

ShellSays(s, b) ==
  /\ pc = "poll"
  /\ open[s] /\ b \in ShellBytes[nth[s]] /\ ~ended[s] /\ Len(said[s]) < MaxSay[nth[s]]
  /\ said' = [said EXCEPT ![s] = Append(@, b)]
  /\ UNCHANGED <<loopVars, queueVars, connVars, clientVars, ended, got, heard, inpty>>

ShellReads(s) ==
  /\ open[s] /\ ~ended[s] /\ inpty[s] > 0
  /\ inpty' = [inpty EXCEPT ![s] = @ - 1]
  /\ UNCHANGED <<loopVars, queueVars, connVars, clientVars, ended, said, got, heard>>

ShellEnds(s) ==
  /\ open[s] /\ ~ended[s]
  /\ ended' = [ended EXCEPT ![s] = TRUE]
  /\ UNCHANGED <<loopVars, queueVars, connVars, clientVars, said, got, heard, inpty>>

-----------------------------------------------------------------------------

Init ==
  /\ pc = "poll" /\ turn = 1 /\ listening = FALSE
  /\ revents = [s \in Sessions |-> Quiet]
  /\ open = [s \in Sessions |-> FALSE] /\ state = [s \in Sessions |-> "DATA"]
  /\ to_sock = [s \in Sessions |-> <<>>] /\ to_master = [s \in Sessions |-> <<>>]
  /\ conns = 0 /\ waiting = 0
  /\ nth = [s \in Sessions |-> 0] /\ left = [s \in Sessions |-> FALSE]
  /\ sent = [s \in Sessions |-> <<>>] /\ taken = [s \in Sessions |-> 0]
  /\ seen = [s \in Sessions |-> <<>>] /\ insock = [s \in Sessions |-> 0]
  /\ ended = [s \in Sessions |-> FALSE]
  /\ said = [s \in Sessions |-> <<>>] /\ got = [s \in Sessions |-> 0]
  /\ heard = [s \in Sessions |-> <<>>] /\ inpty = [s \in Sessions |-> 0]

main == Poll \/ Accept \/ service

Outside == \/ Connect
           \/ \E s \in Sessions :
                \/ \E b \in Bytes : ClientSends(s, b) \/ ShellSays(s, b)
                \/ ClientReads(s) \/ ClientLeaves(s) \/ ShellReads(s) \/ ShellEnds(s)

Next == main \/ Outside

Spec == Init /\ [][Next]_vars

\* telnetd is scheduled; a client that reads at all goes on reading, and so
\* does a shell.
Fairness == /\ WF_vars(main)
            /\ \A s \in Sessions : WF_vars(ClientReads(s)) /\ WF_vars(ShellReads(s))

LiveSpec == Spec /\ Fairness

=============================================================================
