-------------------------------- MODULE Tftp --------------------------------
(***************************************************************************)
(* tftp (tftp.c): one file, fetched or sent in lock step. Every block is   *)
(* answered before the next; what is not answered is sent again, a few     *)
(* times. The server is asked on its port, and answers, once for every     *)
(* request that reaches it, from another, the transfer id.                 *)
(*                                                                         *)
(* The network loses, repeats, delays and reorders: a packet that was sent *)
(* may arrive any number of times, or never. Only the age of a packet is   *)
(* limited, for block numbers come round again (Young). A timeout may      *)
(* happen at any time.                                                     *)
(***************************************************************************)
EXTENDS Naturals, Sequences

CONSTANTS
  FileLen,       \* bytes of the file there is to copy
  Modulus,       \* of block numbers, 2^16
  TFTP_DEF_BLKSIZE, TFTP_MIN_BLKSIZE, TFTP_RETRIES,
  WantSizes,     \* what -b asks for, 0 without it
  ServerSizes,   \* block sizes servers come up with
  Tids,          \* ports servers answer from
  NoTid          \* the port they are asked on

ASSUME NumbersAssumption ==
  /\ FileLen \in Nat /\ Modulus \in Nat /\ Modulus > 2
  /\ TFTP_DEF_BLKSIZE \in Nat \ {0} /\ TFTP_MIN_BLKSIZE \in Nat \ {0}
  /\ TFTP_RETRIES \in Nat \ {0}
  /\ WantSizes \subseteq Nat /\ ServerSizes \subseteq Nat \ {0}
ASSUME TidsAssumption == NoTid \notin Tids

VARIABLES
  op,            \* "get" or "put"
  want_blksize, blksize,
  tid,           \* whom the client listens to, once have_tid
  n,             \* the block waited for, or whose ACK is; on the wire modulo Modulus
  tx,            \* the packet last sent, to be sent again
  tries, oack_ok,
  last,          \* put: tx is the last block
  read,          \* put: bytes of the local file read
  copy,          \* get: the local file
  status,        \* "running", "ok" or "failed"
  sends,         \* history: how often tx was sent, up to one too often
  st,            \* per server: "idle", "get", "put" or "over"
  size,          \* the block size it uses
  sn,            \* the block it sent last, or acknowledged last
  sdata,         \* get: what is in that block
  sdone,         \* get: bytes of the file sent, those in sdata included
  scopy,         \* put: what it has stored
  toServer, toClient

sizeVars   == <<op, want_blksize, blksize>>
clientVars == <<n, tx, tries, oack_ok, last, read, copy, sends>>
serverVars == <<st, size, sn, sdata, sdone, scopy>>
netVars    == <<toServer, toClient>>
vars == <<sizeVars, tid, clientVars, status, serverVars, netVars>>

-----------------------------------------------------------------------------
(* Packets *)

\* Every byte of the file is told from every other by its place.
File == [i \in 1..FileLen |-> i]

Piece(from, bytes) ==
  SubSeq(File, from + 1, IF from + bytes < FileLen THEN from + bytes ELSE FileLen)

\* uint16_t
Num(k) == k % Modulus

\* `tid` is the port on the server's side; `n` goes over the wire as Num(n).
Packet(type, k, data, bytes) == [type |-> type, n |-> k, data |-> data, size |-> bytes]
RRQ(bytes)    == Packet("RRQ", 0, <<>>, bytes)
WRQ(bytes)    == Packet("WRQ", 0, <<>>, bytes)
DATA(k, data) == Packet("DATA", k, data, 0)
ACK(k)        == Packet("ACK", k, <<>>, 0)
ERROR         == Packet("ERROR", 0, <<>>, 0)
OACK(bytes)   == Packet("OACK", 0, <<>>, bytes)   \* 0: blksize is not among them

By(t, packet) == [tid |-> t, p |-> packet]

\* What may still arrive once block k is at hand: a packet Modulus - 1 blocks old
\* is taken to be lost for good.
Young(net, k) == {m \in net : m.p.n + Modulus > k + 1}

-----------------------------------------------------------------------------
(* The client *)

\* tftp_send() of what is in tx already.
tftp_send == /\ toServer' = toServer \cup {By(tid', tx)}
             /\ sends' = IF sends > TFTP_RETRIES THEN sends ELSE sends + 1

\* tftp_transact() begins: a new packet, for block k.
Transact(k, packet) ==
  /\ tx' = packet /\ n' = k /\ tries' = 1 /\ sends' = 1
  /\ toServer' = Young(toServer \cup {By(tid', packet)}, k)
  /\ toClient' = Young(toClient, k)

\* The client gives up, and may tell the server.
Fails == /\ status' = "failed"
         /\ \/ toServer' = toServer \cup {By(tid', ERROR)}
            \/ UNCHANGED toServer
         /\ UNCHANGED <<sizeVars, clientVars, serverVars, toClient>>

Timeout ==
  /\ status = "running" /\ tries < TFTP_RETRIES
  /\ UNCHANGED tid
  /\ tries' = tries + 1
  /\ tftp_send
  /\ UNCHANGED <<sizeVars, n, tx, oack_ok, last, read, copy, status, serverVars,
                 toClient>>

\* No answer to the last try, or sendto(), recvfrom() or the local file fails.
GivesUp ==
  /\ status = "running"
  /\ UNCHANGED tid
  /\ Fails

\* Mutant: packets from any port are taken.
HeardAnyone(m) == TRUE

Heard(m) == tid = NoTid \/ m.tid = tid

\* tftp_recv() returns a packet. The first one settles the port.
tftp_recv(m) ==
  /\ status = "running" /\ m \in toClient
  /\ Heard(m)
  /\ tid' = m.tid

RecvError(m) ==
  /\ tftp_recv(m) /\ m.p.type = "ERROR"
  /\ status' = "failed"
  /\ UNCHANGED <<sizeVars, clientVars, serverVars, netVars>>

\* Mutant: any size is as good as another.
BadSizeNever(bytes) == FALSE

\* Blocks may only be smaller than what was asked for.
BadSize(bytes) == \/ want_blksize = 0 \/ bytes < TFTP_MIN_BLKSIZE
                  \/ bytes > want_blksize

\* Mutant: the number is not looked at.
AwaitedAnyNumber(m) == m.p.type = (IF op = "get" THEN "DATA" ELSE "ACK")

Awaited(m) == m.p.type = (IF op = "get" THEN "DATA" ELSE "ACK") /\ Num(m.p.n) = Num(n)

IsOack(m) == m.p.type = "OACK" /\ oack_ok

\* tftp_parse_oack() fails.
RecvBadOack(m) ==
  /\ tftp_recv(m) /\ IsOack(m)
  /\ m.p.size # 0 /\ BadSize(m.p.size)
  /\ Fails

\* tftp_parse_oack() settles the size of blocks.
TakesOack(m) ==
  /\ IsOack(m) /\ (m.p.size # 0 => ~BadSize(m.p.size))
  /\ blksize' = IF m.p.size = 0 THEN blksize ELSE m.p.size

RecvOackGet(m) ==
  /\ op = "get" /\ tftp_recv(m) /\ TakesOack(m)
  /\ oack_ok' = FALSE
  /\ Transact(n, ACK(0))
  /\ UNCHANGED <<op, want_blksize, last, read, copy, status, serverVars>>

\* tftp_put(): the next block is read and sent.
NextBlock(bytes) ==
  LET data == Piece(read, bytes)
  IN  /\ Transact(n + 1, DATA(n + 1, data))
      /\ read' = read + Len(data)
      /\ last' = (Len(data) < bytes)
      /\ oack_ok' = FALSE

RecvOackPut(m) ==
  /\ op = "put" /\ tftp_recv(m) /\ TakesOack(m)
  /\ NextBlock(blksize')
  /\ UNCHANGED <<op, want_blksize, copy, status, serverVars>>

RecvAck(m) ==
  /\ op = "put" /\ ~last /\ tftp_recv(m) /\ Awaited(m)
  /\ NextBlock(blksize)
  /\ UNCHANGED <<sizeVars, copy, status, serverVars>>

RecvLastAck(m) ==
  /\ op = "put" /\ last /\ tftp_recv(m) /\ Awaited(m)
  /\ status' = "ok"
  /\ UNCHANGED <<sizeVars, clientVars, serverVars, netVars>>

\* tftp_get(): the block does not fit the size agreed upon.
RecvTooBig(m) ==
  /\ op = "get" /\ tftp_recv(m) /\ Awaited(m)
  /\ Len(m.p.data) > blksize
  /\ Fails

\* write_full() fails, when a part of the block may have been written.
WriteFails(m) ==
  /\ op = "get" /\ tftp_recv(m) /\ Awaited(m)
  /\ Len(m.p.data) <= blksize
  /\ \E k \in 0..Len(m.p.data) : copy' = copy \o SubSeq(m.p.data, 1, k)
  /\ toServer' = toServer \cup {By(tid', ERROR)}
  /\ status' = "failed"
  /\ UNCHANGED <<sizeVars, n, tx, tries, oack_ok, last, read, sends, serverVars,
                 toClient>>

IsLast(data) == Len(data) < blksize

Written(m) == /\ Len(m.p.data) <= blksize
              /\ copy' = copy \o m.p.data
              /\ oack_ok' = FALSE

RecvData(m) ==
  /\ op = "get" /\ tftp_recv(m) /\ Awaited(m)
  /\ Written(m) /\ ~IsLast(m.p.data)
  /\ Transact(n + 1, ACK(n))
  /\ UNCHANGED <<sizeVars, last, read, status, serverVars>>

\* The last ACK is sent once, and whether it arrives is not asked.
RecvLastData(m) ==
  /\ op = "get" /\ tftp_recv(m) /\ Awaited(m)
  /\ Written(m) /\ IsLast(m.p.data)
  /\ tx' = ACK(n)
  /\ \/ toServer' = toServer \cup {By(tid', ACK(n))}
     \/ UNCHANGED toServer
  /\ status' = "ok"
  /\ UNCHANGED <<sizeVars, n, tries, last, read, sends, serverVars, toClient>>

\* Mutant: put answers every duplicate, too.
DuplicateOfAny(m) ==
  /\ m.p.type = (IF op = "get" THEN "DATA" ELSE "ACK")
  /\ Num(m.p.n) = Num(n + Modulus - 1)

\* A block acknowledged before: the ACK was lost. Only get answers: a put that
\* did would send everything twice from there on.
Duplicate(m) ==
  op = "get" /\ m.p.type = "DATA" /\ Num(m.p.n) = Num(n + Modulus - 1)

RecvDup(m) ==
  /\ tftp_recv(m) /\ ~IsOack(m) /\ ~Awaited(m) /\ Duplicate(m)
  /\ tftp_send
  /\ UNCHANGED <<sizeVars, n, tx, tries, oack_ok, last, read, copy, status,
                 serverVars, toClient>>

\* Anything else is ignored.
RecvOther(m) ==
  /\ tftp_recv(m) /\ m.p.type # "ERROR"
  /\ ~IsOack(m) /\ ~Awaited(m) /\ ~Duplicate(m)
  /\ UNCHANGED <<sizeVars, clientVars, status, serverVars, netVars>>

Client ==
  \/ Timeout \/ GivesUp
  \/ \E m \in toClient :
       \/ RecvError(m) \/ RecvBadOack(m) \/ RecvOackGet(m) \/ RecvOackPut(m)
       \/ RecvAck(m) \/ RecvLastAck(m) \/ RecvTooBig(m) \/ WriteFails(m)
       \/ RecvData(m) \/ RecvLastData(m) \/ RecvDup(m) \/ RecvOther(m)

-----------------------------------------------------------------------------
(* A server, as RFC 1350 and RFC 2347 have it. What it sends again is in    *)
(* toClient still; one that gives up does nothing any more.                 *)

Answers(t, packet) == toClient' = toClient \cup {By(t, packet)}

\* Block k, from `from` on; and the block after it.
Sends(t, k, from) ==
  /\ sn' = [sn EXCEPT ![t] = k]
  /\ sdata' = [sdata EXCEPT ![t] = Piece(from, size'[t])]
  /\ sdone' = [sdone EXCEPT ![t] = from + Len(sdata'[t])]
  /\ Answers(t, DATA(k, sdata'[t]))

Asked(t, m) == /\ m \in toServer /\ m.p.type \in {"RRQ", "WRQ"} /\ m.tid = NoTid
               /\ st[t] = "idle"
               /\ st' = [st EXCEPT ![t] = op]

\* The options are ignored. Blocks are as long as they should be, or longer.
StartPlain(t, m) ==
  /\ Asked(t, m)
  /\ \E bytes \in ServerSizes :
       bytes >= TFTP_DEF_BLKSIZE /\ size' = [size EXCEPT ![t] = bytes]
  /\ \/ op = "get" /\ Sends(t, 1, 0)
     \/ op = "put" /\ Answers(t, ACK(0)) /\ UNCHANGED <<sn, sdata, sdone>>
  /\ UNCHANGED <<sizeVars, tid, clientVars, status, scopy, toServer>>

\* The options are acknowledged, with or without a block size.
StartOack(t, m) ==
  /\ Asked(t, m) /\ m.p.size # 0
  /\ \E offer \in ServerSizes \cup {0}, bytes \in ServerSizes :
       /\ bytes >= (IF offer = 0 THEN TFTP_DEF_BLKSIZE ELSE offer)
       /\ size' = [size EXCEPT ![t] = bytes]
       /\ Answers(t, OACK(offer))
  /\ UNCHANGED <<sizeVars, tid, clientVars, status, sn, sdata, sdone, scopy, toServer>>

ServerError(t) ==
  /\ st[t] # "over"
  /\ st[t] = "idle" => \E m \in toServer : m.tid = NoTid
  /\ st' = [st EXCEPT ![t] = "over"]
  /\ Answers(t, ERROR)
  /\ UNCHANGED <<sizeVars, tid, clientVars, status, size, sn, sdata, sdone, scopy,
                 toServer>>

To(t, m, type) == m \in toServer /\ m.tid = t /\ m.p.type = type

AllSent(t) == sn[t] > 0 /\ Len(sdata[t]) < size[t]

ServerAcked(t, m) ==
  /\ st[t] = "get" /\ To(t, m, "ACK") /\ Num(m.p.n) = Num(sn[t])
  /\ ~AllSent(t)
  /\ UNCHANGED size
  /\ Sends(t, sn[t] + 1, sdone[t])
  /\ UNCHANGED <<sizeVars, tid, clientVars, status, st, scopy, toServer>>

ServerStores(t, m) ==
  /\ st[t] = "put" /\ To(t, m, "DATA") /\ Num(m.p.n) = Num(sn[t] + 1)
  /\ scopy' = [scopy EXCEPT ![t] = @ \o m.p.data]
  /\ sn' = [sn EXCEPT ![t] = @ + 1]
  /\ Answers(t, ACK(sn[t] + 1))
  /\ st' = [st EXCEPT ![t] = IF Len(m.p.data) < size[t] THEN "over" ELSE "put"]
  /\ UNCHANGED <<sizeVars, tid, clientVars, status, size, sdata, sdone, toServer>>

Server(t) ==
  \/ ServerError(t)
  \/ \E m \in toServer : \/ StartPlain(t, m) \/ StartOack(t, m)
                         \/ ServerAcked(t, m) \/ ServerStores(t, m)

-----------------------------------------------------------------------------

\* tftp_get() and tftp_put() send their request.
Init ==
  /\ op \in {"get", "put"} /\ want_blksize \in WantSizes
  /\ blksize = TFTP_DEF_BLKSIZE
  /\ tid = NoTid /\ oack_ok = TRUE /\ last = FALSE
  /\ n = (IF op = "get" THEN 1 ELSE 0)
  /\ tx = (IF op = "get" THEN RRQ(want_blksize) ELSE WRQ(want_blksize))
  /\ tries = 1 /\ sends = 1
  /\ read = 0 /\ copy = <<>> /\ status = "running"
  /\ toServer = {By(NoTid, tx)} /\ toClient = {}
  /\ st = [t \in Tids |-> "idle"] /\ size = [t \in Tids |-> TFTP_DEF_BLKSIZE]
  /\ sn = [t \in Tids |-> 0]
  /\ sdata = [t \in Tids |-> <<>>] /\ sdone = [t \in Tids |-> 0]
  /\ scopy = [t \in Tids |-> <<>>]

Next == Client \/ \E t \in Tids : Server(t)

Spec == Init /\ [][Next]_vars

=============================================================================
