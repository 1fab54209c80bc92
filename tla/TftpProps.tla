------------------------------ MODULE TftpProps ------------------------------
(* What tftp promises whoever calls it.                                     *)
EXTENDS Tftp

Bytes == Seq(1..FileLen)
PacketTypes == {"RRQ", "WRQ", "DATA", "ACK", "ERROR", "OACK"}
Packets == [type : PacketTypes, n : Nat, data : Bytes, size : Nat]
Ports == Tids \cup {NoTid}

\* Every variable stays within its type, and no block is larger than was asked for.
TypeOK ==
  /\ op \in {"get", "put"} /\ want_blksize \in Nat /\ blksize \in Nat \ {0}
  /\ blksize = TFTP_DEF_BLKSIZE \/ blksize <= want_blksize
  /\ tid \in Ports
  /\ n \in Nat /\ tx \in Packets /\ tries \in 1..TFTP_RETRIES
  /\ oack_ok \in BOOLEAN /\ last \in BOOLEAN
  /\ read \in 0..FileLen /\ copy \in Bytes
  /\ status \in {"running", "ok", "failed"}
  /\ sends \in 1..TFTP_RETRIES + 1
  /\ st \in [Tids -> {"idle", "get", "put", "over"}]
  /\ size \in [Tids -> Nat \ {0}]
  /\ sn \in [Tids -> Nat] /\ sdata \in [Tids -> Bytes]
  /\ sdone \in [Tids -> 0..FileLen] /\ scopy \in [Tids -> Bytes]
  /\ toServer \in SUBSET [tid : Ports, p : Packets]
  /\ toClient \in SUBSET [tid : Tids, p : Packets]

\* The file at the far end of the transfer.
Copy == IF op = "get" THEN copy ELSE IF tid = NoTid THEN <<>> ELSE scopy[tid]

T == INSTANCE Transfer WITH copy <- Copy, done <- (status = "ok")

\* Whatever the network does to the packets, and though a request that arrives
\* twice is answered by two servers: no block is stored twice, out of turn or of
\* the wrong size, and tftp exits with 0 only if the whole file has arrived.
IsTransfer == T!Spec

\* Client and server are never more than one block apart.
LockStep == tid # NoTid => sn[tid] <= n /\ n <= sn[tid] + 1

\* Sending a file, no packet is sent more often than there are retries, however
\* often it is acknowledged (the "sorcerer's apprentice" of RFC 1123).
NoApprentice == op = "put" => sends <= TFTP_RETRIES

=============================================================================
