---------------------------- MODULE TelnetdProps ----------------------------
(* What telnetd promises its clients and their shells.                      *)
EXTENDS Telnetd

States == {"DATA", "CR", "CMD", "OPT", "SUB", "SUB_IAC"}

\* What telnetd sends a client.
Sendable == Bytes \cup {HELLO}

Typed ==
  /\ pc \in {"poll", "accept", "serve"} /\ turn \in Sessions /\ listening \in BOOLEAN
  /\ revents \in [Sessions -> [sock : SUBSET {"IN", "OUT", "RDHUP"},
                               master : SUBSET {"IN", "OUT", "HUP"}]]
  /\ open \in [Sessions -> BOOLEAN] /\ left \in [Sessions -> BOOLEAN]
  /\ ended \in [Sessions -> BOOLEAN] /\ state \in [Sessions -> States]
  /\ sent \in [Sessions -> Seq(Bytes)] /\ said \in [Sessions -> Seq(Bytes)]
  /\ heard \in [Sessions -> Seq(Bytes)] /\ to_master \in [Sessions -> Seq(Bytes)]
  /\ seen \in [Sessions -> Seq(Sendable)] /\ to_sock \in [Sessions -> Seq(Sendable)]
  /\ insock \in [Sessions -> 0..SockRoom] /\ inpty \in [Sessions -> 0..PtyRoom]
  /\ taken \in [Sessions -> Nat] /\ got \in [Sessions -> Nat]
  /\ nth \in [Sessions -> 0..MaxConns]
  /\ waiting \in 0..conns /\ conns \in 0..MaxConns

\* What is queued for session s fits the queues, and it is that of a connection.
Fits(s) ==
  /\ Len(to_sock[s]) <= QueueSize /\ Len(to_master[s]) <= QueueSize
  /\ ~open[s] => to_sock[s] = <<>> /\ to_master[s] = <<>>
  /\ taken[s] <= Len(sent[s]) /\ got[s] <= Len(said[s])
  /\ nth[s] \in IF open[s] THEN 1..conns ELSE {0}

\* Every variable stays within its type: queues and kernel buffers hold no more
\* than they can, and a free session holds nothing.
TypeOK == Typed /\ \A s \in Sessions : Fits(s)

\* What the telnet standard says a stream of bytes means, as a whole: data, with
\* commands taken out and IAC IAC being one IAC; after CR goes one NUL, where
\* `newlines` asks for it. What is cut off in the middle of a command means
\* nothing yet.
Meaning(bytes, newlines) ==
  LET N == Len(bytes)
      Is(i, b) == i <= N /\ bytes[i] = b
      afterSub[i \in 1..N + 2] ==    \* where a subnegotiation read from i on ends
        IF i > N THEN N + 1
        ELSE IF Is(i, IAC) THEN IF Is(i + 1, SE) THEN i + 2 ELSE afterSub[i + 2]
        ELSE afterSub[i + 1]
      from[i \in 1..N + 3] ==
        IF i > N THEN <<>>
        ELSE IF Is(i, HELLO) THEN from[i + 1]
        ELSE IF Is(i, IAC) THEN
               IF i = N THEN <<>>
               ELSE IF Is(i + 1, IAC) THEN <<IAC>> \o from[i + 2]
               ELSE IF Is(i + 1, WILL) THEN from[i + 3]
               ELSE IF Is(i + 1, SB) THEN from[afterSub[i + 2]]
               ELSE from[i + 2]
        ELSE IF Is(i, CR) /\ Is(i + 1, NUL) /\ newlines THEN <<CR>> \o from[i + 2]
        ELSE <<bytes[i]>> \o from[i + 1]
  IN  from[1]

\* However the client's bytes are cut up by the network, by telnetd's reads and
\* by a pty that takes less than it is given, the shell gets what they mean, in
\* order, nothing lost, nothing twice, nothing of the connection before.
ShellInput ==
  \A s \in Sessions : open[s] =>
    heard[s] \o to_master[s] = Meaning(First(taken[s], sent[s]), TRUE)

\* A client that takes the telnet commands out has what its shell said, in order
\* and complete, up to what waits in the queue; a queue is never overrun.
ClientOutput ==
  \A s \in Sessions : open[s] =>
    Meaning(seen[s] \o to_sock[s], FALSE) = First(got[s], said[s])

\* A session ends because one of its two ends is lost, and for no other reason:
\* not because too much was read, nor for what poll() said of the one before.
EndsWhenLost ==
  [][\A s \in Sessions : open[s] /\ ~open'[s] => left[s] \/ ended[s]]_vars

\* The client is there and reads, and its shell has said what it has not been sent.
Unsent(s) == open[s] /\ nth[s] \in Readers /\ (got[s] < Len(said[s]) \/ to_sock[s] # <<>>)

Unheard(s) == open[s] /\ (taken[s] < Len(sent[s]) \/ to_master[s] # <<>>)

\* What the shell says gets to a client that reads, whatever the others do, and
\* what a client sends to a busy shell waits rather than being lost, and gets there.
BytesGetThere ==
  \A s \in Sessions : /\ Unsent(s) ~> ~Unsent(s)
                      /\ Unheard(s) ~> ~Unheard(s)

=============================================================================
