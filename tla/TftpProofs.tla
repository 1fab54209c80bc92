----------------------------- MODULE TftpProofs -----------------------------
(* Theorems about Tftp, with their proofs: types, and that every transfer   *)
(* is one, whatever the servers do and the network does to packets that are *)
(* not too old.                                                              *)
(*                                                                          *)
(* Block numbers go round, so all rests on age: a packet that counts is     *)
(* never a turn older than the block the client is at (Request, Answer), so *)
(* a number that fits is the block itself (SameNumber). With that, what is  *)
(* received is the block awaited and what is stored is the block under way  *)
(* (AwaitedIs, StoredIs), and client and server stay in step (InStep).      *)
EXTENDS TftpProps, SequenceTheorems, TLAPS

-----------------------------------------------------------------------------
(* Numbers and parts of the file                                            *)


\* Two numbers less than a turn apart that are the same on the wire are the same.
LEMMA SameNumber ==
  ASSUME NEW a \in Nat, NEW b \in Nat, a <= b, b < a + Modulus, Num(a) = Num(b)
  PROVE  a = b
<1>1. Modulus \in Nat /\ Modulus > 0
  BY NumbersAssumption
<1>2. \A k \in Nat : \E q \in Nat : k = Modulus * q + Num(k)
  BY <1>1, Z3 DEF Num
<1>3. PICK q \in Nat, r \in Nat : a = Modulus * q + Num(a) /\ b = Modulus * r + Num(b)
  BY <1>2
<1>4. Num(a) \in Nat
  BY <1>1 DEF Num
<1>5. Modulus * r - Modulus * q < Modulus /\ Modulus * r - Modulus * q >= 0
  BY <1>1, <1>3, <1>4
<1>6. r = q
  BY <1>1, <1>5
<1>7. QED BY <1>3, <1>6

\* The file is a sequence of its places.
LEMMA FileIs == File \in Seq(1..FileLen) /\ Len(File) = FileLen
<1>1. FileLen \in Nat
  BY NumbersAssumption
<1>2. File \in [1..FileLen -> 1..FileLen]
  BY DEF File
<1>3. File \in Seq(1..FileLen)
  BY <1>1, <1>2, SeqDef
<1>4. QED BY <1>1, <1>2, <1>3, LenProperties

\* A part of it, from one place to another.
LEMMA PartIs ==
  ASSUME NEW a \in 0..FileLen, NEW b \in a..FileLen
  PROVE  SubSeq(File, a + 1, b) \in Bytes /\ Len(SubSeq(File, a + 1, b)) = b - a
<1>1. FileLen \in Nat
  BY NumbersAssumption
<1>2. \A i \in a + 1 .. b : File[i] \in 1..FileLen
  BY <1>1 DEF File
<1>3. QED BY <1>1, <1>2, SubSeqProperties DEF Bytes

\* What Piece() returns is as much as was asked for, or all there is left.
LEMMA PieceIs ==
  ASSUME NEW from \in 0..FileLen, NEW bytes \in Nat
  PROVE  /\ Piece(from, bytes) \in Bytes /\ Len(Piece(from, bytes)) \in 0..bytes
         /\ from + Len(Piece(from, bytes)) \in from..FileLen
         /\ Piece(from, bytes) = SubSeq(File, from + 1, from + Len(Piece(from, bytes)))
         /\ Len(Piece(from, bytes)) < bytes => from + Len(Piece(from, bytes)) = FileLen
<1> DEFINE to == IF from + bytes < FileLen THEN from + bytes ELSE FileLen
<1>1. FileLen \in Nat
  BY NumbersAssumption
<1>2. to \in from..FileLen /\ to - from <= bytes /\ (to - from < bytes => to = FileLen)
  BY <1>1
<1>3. SubSeq(File, from + 1, to) \in Bytes /\ Len(SubSeq(File, from + 1, to)) = to - from
  BY <1>2, PartIs
<1>4. Piece(from, bytes) = SubSeq(File, from + 1, to)
  BY DEF Piece
<1> HIDE DEF to
<1>5. QED BY <1>1, <1>2, <1>3, <1>4

\* The beginning of the file and the part that follows it.
LEMMA Grows ==
  ASSUME NEW a \in 0..FileLen, NEW b \in a..FileLen
  PROVE  SubSeq(File, 1, a) \o SubSeq(File, a + 1, b) = SubSeq(File, 1, b)
<1>1. FileLen \in Nat
  BY NumbersAssumption
<1>2. /\ 1 \in 1..Len(File) + 1 /\ a \in 1 - 1 .. Len(File) /\ b \in a..Len(File)
  BY <1>1, FileIs
<1>3. QED BY <1>2, FileIs, ConcatAdjacentSubSeq

\* The beginning of a part.
LEMMA PartOfPart ==
  ASSUME NEW a \in 0..FileLen, NEW b \in a..FileLen, NEW k \in 0..b - a
  PROVE  SubSeq(SubSeq(File, a + 1, b), 1, k) = SubSeq(File, a + 1, a + k)
<1>1. FileLen \in Nat
  BY NumbersAssumption
<1>2. CASE k = 0
  BY <1>1, <1>2, SubSeqEmpty
<1>3. CASE k > 0
  <2>1. /\ a + 1 \in 1..Len(File) /\ b \in 1..Len(File)
        /\ 1 \in 1..b - (a + 1) + 1 /\ k \in 1..b - (a + 1) + 1
    BY <1>1, <1>3, FileIs
  <2>2. SubSeq(SubSeq(File, a + 1, b), 1, k) = SubSeq(File, a + 1 + 1 - 1, a + 1 + k - 1)
    BY <2>1, FileIs, SubSeqOfSubSeq
  <2>3. QED BY <1>1, <2>2
<1>4. QED BY <1>1, <1>2, <1>3

\* Whatever is sent is a packet.
LEMMA PacketsAre ==
  /\ <<>> \in Bytes /\ ERROR \in Packets
  /\ \A k \in Nat : {ACK(k), OACK(k), RRQ(k), WRQ(k)} \subseteq Packets
  /\ \A k \in Nat, data \in Bytes : DATA(k, data) \in Packets
<1>1. <<>> \in Bytes
  BY EmptySeq DEF Bytes
<1>2. QED
  BY <1>1 DEF ERROR, ACK, OACK, RRQ, WRQ, DATA, Packet, Packets, PacketTypes

-----------------------------------------------------------------------------
(* Type correctness                                                         *)

\* What a packet that is received is.
LEMMA ReceivedType ==
  ASSUME TypeOK, NEW m \in toClient, tftp_recv(m)
  PROVE  /\ m.tid \in Tids /\ m.p \in Packets /\ tid' = m.tid /\ tid' \in Ports
         /\ m.p.n \in Nat /\ m.p.data \in Bytes /\ m.p.size \in Nat
         /\ Len(m.p.data) \in Nat
<1>1. m \in [tid : Tids, p : Packets] /\ tid' = m.tid
  BY DEF TypeOK, tftp_recv
<1>2. m.p.data \in Bytes
  BY <1>1 DEF Packets
<1>3. Len(m.p.data) \in Nat
  BY <1>2, LenProperties DEF Bytes
<1>4. QED BY <1>1, <1>2, <1>3 DEF Packets, Ports

\* A new packet for block k, to a port.
LEMMA TransactType ==
  ASSUME TypeOK, NEW k \in Nat, NEW packet \in Packets, tid' \in Ports, Transact(k, packet)
  PROVE  /\ tx' \in Packets /\ n' \in Nat
         /\ tries' \in 1..TFTP_RETRIES /\ sends' \in 1..TFTP_RETRIES + 1
         /\ toServer' \in SUBSET [tid : Ports, p : Packets]
         /\ toClient' \in SUBSET [tid : Tids, p : Packets]
<1>1. By(tid', packet) \in [tid : Ports, p : Packets]
  BY DEF By
<1>2. TFTP_RETRIES \in Nat \ {0}
  BY NumbersAssumption
<1>3. QED BY <1>1, <1>2 DEF TypeOK, Transact, Young

\* Steps of the client that end the transfer or send again what was sent.
LEMMA SmallStepsType ==
  ASSUME TypeOK,
         \/ Timeout \/ GivesUp
         \/ \E m \in toClient : \/ RecvError(m) \/ RecvBadOack(m) \/ RecvLastAck(m)
                                \/ RecvTooBig(m) \/ RecvDup(m) \/ RecvOther(m)
  PROVE  TypeOK'
<1>1. tid' \in Ports
  BY ReceivedType DEF Timeout, GivesUp, RecvError, RecvBadOack, RecvLastAck, RecvTooBig,
     RecvDup, RecvOther, TypeOK
<1>2. /\ By(tid', ERROR) \in [tid : Ports, p : Packets]
      /\ By(tid', tx) \in [tid : Ports, p : Packets]
  BY <1>1, PacketsAre DEF By, TypeOK
<1>3. toServer' \in SUBSET [tid : Ports, p : Packets]
  BY <1>2 DEF Timeout, GivesUp, RecvError, RecvBadOack, RecvLastAck, RecvTooBig, RecvDup,
     RecvOther, Fails, tftp_send, netVars, TypeOK
<1>4. tries' \in 1..TFTP_RETRIES /\ sends' \in 1..TFTP_RETRIES + 1
  BY NumbersAssumption DEF Timeout, GivesUp, RecvError, RecvBadOack, RecvLastAck,
     RecvTooBig, RecvDup, RecvOther, Fails, tftp_send, clientVars, TypeOK
<1>5. status' \in {"running", "ok", "failed"}
  BY DEF Timeout, GivesUp, RecvError, RecvBadOack, RecvLastAck, RecvTooBig, RecvDup,
     RecvOther, Fails, TypeOK
<1>6. UNCHANGED <<sizeVars, n, tx, oack_ok, last, read, copy, serverVars, toClient>>
  BY DEF Timeout, GivesUp, RecvError, RecvBadOack, RecvLastAck, RecvTooBig, RecvDup,
     RecvOther, Fails, tftp_send, clientVars, netVars
<1>7. QED
  BY <1>1, <1>3, <1>4, <1>5, <1>6 DEF TypeOK, sizeVars, serverVars

\* The size agreed upon is one that was asked for.
LEMMA OackType ==
  ASSUME TypeOK, NEW m \in toClient, tftp_recv(m), TakesOack(m)
  PROVE  blksize' \in Nat \ {0} /\ (blksize' = TFTP_DEF_BLKSIZE \/ blksize' <= want_blksize)
  BY ReceivedType, NumbersAssumption DEF TypeOK, TakesOack, BadSize

\* The next block is read and sent.
LEMMA NextBlockType ==
  ASSUME TypeOK, tid' \in Ports, NEW bytes \in Nat \ {0}, NextBlock(bytes),
         blksize' \in Nat \ {0}, blksize' = TFTP_DEF_BLKSIZE \/ blksize' <= want_blksize,
         UNCHANGED <<op, want_blksize, copy, status, serverVars>>
  PROVE  TypeOK'
<1> DEFINE data == Piece(read, bytes)
<1>0. FileLen \in Nat /\ read \in 0..FileLen
  BY NumbersAssumption DEF TypeOK
<1>1. data \in Bytes /\ Len(data) \in 0..bytes /\ read + Len(data) \in 0..FileLen
  <2>1. bytes \in Nat
    OBVIOUS
  <2>2. data \in Bytes
    BY <1>0, <2>1, PieceIs
  <2>3. Len(data) \in 0..bytes /\ read + Len(data) \in read..FileLen
    BY <1>0, <2>1, PieceIs, Zenon
  <2>4. QED BY <1>0, <2>2, <2>3
<1>2. DATA(n + 1, data) \in Packets /\ n + 1 \in Nat
  BY <1>1, PacketsAre DEF TypeOK
<1>3. Transact(n + 1, DATA(n + 1, data)) /\ read' = read + Len(data)
      /\ last' = (Len(data) < bytes) /\ oack_ok' = FALSE
  BY DEF NextBlock
<1>4. /\ tx' \in Packets /\ n' \in Nat
      /\ tries' \in 1..TFTP_RETRIES /\ sends' \in 1..TFTP_RETRIES + 1
      /\ toServer' \in SUBSET [tid : Ports, p : Packets]
      /\ toClient' \in SUBSET [tid : Tids, p : Packets]
  BY <1>2, <1>3, TransactType
<1> HIDE DEF data
<1>5. last' \in BOOLEAN /\ oack_ok' \in BOOLEAN
  <2> DEFINE short == Len(data) < bytes
  <2>1. short \in BOOLEAN
    OBVIOUS
  <2>2. last' = short /\ oack_ok' = FALSE
    BY <1>3
  <2> HIDE DEF short
  <2>3. QED BY <2>1, <2>2
<1>6. read' \in 0..FileLen
  BY <1>1, <1>3
<1>7. QED BY <1>4, <1>5, <1>6 DEF TypeOK, serverVars

\* Steps of the client that take an answer, and go on or write it.
LEMMA BlocksType ==
  ASSUME TypeOK, NEW m \in toClient,
         \/ RecvOackGet(m) \/ RecvOackPut(m) \/ RecvAck(m)
         \/ WriteFails(m) \/ RecvData(m) \/ RecvLastData(m)
  PROVE  TypeOK'
<1>0. m.tid \in Tids /\ tid' \in Ports /\ m.p.data \in Bytes /\ Len(m.p.data) \in Nat
  BY ReceivedType DEF RecvOackGet, RecvOackPut, RecvAck, WriteFails, RecvData, RecvLastData
<1>1. CASE RecvOackGet(m)
  <2>1. blksize' \in Nat \ {0} /\ (blksize' = TFTP_DEF_BLKSIZE \/ blksize' <= want_blksize)
    BY <1>1, OackType DEF RecvOackGet
  <2>2. n \in Nat /\ ACK(0) \in Packets
    BY PacketsAre DEF TypeOK
  <2>3. Transact(n, ACK(0))
    BY <1>1 DEF RecvOackGet
  <2>4. /\ tx' \in Packets /\ n' \in Nat
        /\ tries' \in 1..TFTP_RETRIES /\ sends' \in 1..TFTP_RETRIES + 1
        /\ toServer' \in SUBSET [tid : Ports, p : Packets]
        /\ toClient' \in SUBSET [tid : Tids, p : Packets]
    BY <1>0, <2>2, <2>3, TransactType
  <2>5. QED BY <1>0, <1>1, <2>1, <2>4 DEF RecvOackGet, TypeOK, serverVars
<1>2. CASE RecvOackPut(m)
  <2>1. blksize' \in Nat \ {0} /\ (blksize' = TFTP_DEF_BLKSIZE \/ blksize' <= want_blksize)
    BY <1>2, OackType DEF RecvOackPut
  <2>2. QED BY <1>0, <1>2, <2>1, NextBlockType DEF RecvOackPut
<1>3. CASE RecvAck(m)
  <2>1. blksize' = blksize /\ blksize \in Nat \ {0} /\ op' = op /\ want_blksize' = want_blksize
    BY <1>3 DEF RecvAck, sizeVars, TypeOK
  <2>2. blksize' = TFTP_DEF_BLKSIZE \/ blksize' <= want_blksize
    BY <2>1 DEF TypeOK
  <2>3. NextBlock(blksize) /\ UNCHANGED <<copy, status, serverVars>>
    BY <1>3 DEF RecvAck
  <2>4. QED BY <1>0, <2>1, <2>2, <2>3, NextBlockType
<1>4. CASE WriteFails(m)
  <2>1. PICK k \in 0..Len(m.p.data) : copy' = copy \o SubSeq(m.p.data, 1, k)
    BY <1>4 DEF WriteFails
  <2>2. SubSeq(m.p.data, 1, k) \in Bytes
    <3>1. \A i \in 1..k : m.p.data[i] \in 1..FileLen
      <4>1. m.p.data \in [1..Len(m.p.data) -> 1..FileLen]
        BY <1>0, LenProperties DEF Bytes
      <4>2. QED BY <1>0, <4>1
    <3>2. QED BY <1>0, <3>1, SubSeqProperties DEF Bytes
  <2>3. copy' \in Bytes
    BY <2>1, <2>2, ConcatProperties DEF TypeOK, Bytes
  <2>4. By(tid', ERROR) \in [tid : Ports, p : Packets]
    BY <1>0, PacketsAre DEF By
  <2>5. toServer' \in SUBSET [tid : Ports, p : Packets]
    BY <1>4, <2>4 DEF WriteFails, TypeOK
  <2>6. QED BY <1>0, <1>4, <2>3, <2>5 DEF WriteFails, TypeOK, sizeVars, serverVars
<1>5. CASE RecvData(m)
  <2>1. copy' \in Bytes
    BY <1>0, <1>5, ConcatProperties DEF RecvData, Written, TypeOK, Bytes
  <2>2. n \in Nat /\ n + 1 \in Nat /\ ACK(n) \in Packets
    BY PacketsAre DEF TypeOK
  <2>3. Transact(n + 1, ACK(n))
    BY <1>5 DEF RecvData
  <2>4. /\ tx' \in Packets /\ n' \in Nat
        /\ tries' \in 1..TFTP_RETRIES /\ sends' \in 1..TFTP_RETRIES + 1
        /\ toServer' \in SUBSET [tid : Ports, p : Packets]
        /\ toClient' \in SUBSET [tid : Tids, p : Packets]
    BY <1>0, <2>2, <2>3, TransactType
  <2>5. QED BY <1>0, <1>5, <2>1, <2>4 DEF RecvData, Written, TypeOK, sizeVars, serverVars
<1>6. CASE RecvLastData(m)
  <2>1. copy' \in Bytes
    BY <1>0, <1>6, ConcatProperties DEF RecvLastData, Written, TypeOK, Bytes
  <2>2. ACK(n) \in Packets
    BY PacketsAre DEF TypeOK
  <2>3. By(tid', ACK(n)) \in [tid : Ports, p : Packets]
    BY <1>0, <2>2 DEF By
  <2>4. toServer' \in SUBSET [tid : Ports, p : Packets]
    BY <1>6, <2>3 DEF RecvLastData, TypeOK
  <2>5. QED
    BY <1>0, <1>6, <2>1, <2>2, <2>4 DEF RecvLastData, Written, TypeOK, sizeVars, serverVars
<1>7. QED BY <1>1, <1>2, <1>3, <1>4, <1>5, <1>6

\* What a server sends of its file, and how far it has come then.
LEMMA SendsIs ==
  ASSUME TypeOK, NEW t \in Tids, NEW k \in Nat, NEW from \in 0..FileLen,
         size' \in [Tids -> Nat \ {0}], Sends(t, k, from)
  PROVE  /\ sn' = [sn EXCEPT ![t] = k]
         /\ sdata' \in [Tids -> Bytes] /\ sdone' \in [Tids -> 0..FileLen]
         /\ sdata'[t] = Piece(from, size'[t]) /\ sdone'[t] = from + Len(sdata'[t])
         /\ \A u \in Tids \ {t} : sdata'[u] = sdata[u] /\ sdone'[u] = sdone[u]
         /\ toClient' = toClient \cup {By(t, DATA(k, sdata'[t]))}
         /\ DATA(k, sdata'[t]) \in Packets
<1> DEFINE data == Piece(from, size'[t])
<1>0. size'[t] \in Nat
  OBVIOUS
<1>1. data \in Bytes /\ from + Len(data) \in 0..FileLen
  <2>1. FileLen \in Nat
    BY NumbersAssumption
  <2>2. data \in Bytes /\ from + Len(data) \in from..FileLen
    BY <1>0, PieceIs, Zenon
  <2>3. QED BY <2>1, <2>2
<1>2. /\ sdata' = [sdata EXCEPT ![t] = data]
      /\ sdone' = [sdone EXCEPT ![t] = from + Len(sdata'[t])]
      /\ sn' = [sn EXCEPT ![t] = k]
      /\ toClient' = toClient \cup {By(t, DATA(k, sdata'[t]))}
  BY DEF Sends, Answers
<1> HIDE DEF data
<1>3. sdata'[t] = data
  BY <1>2 DEF TypeOK
<1>4. DATA(k, data) \in Packets
  BY <1>1, PacketsAre
<1>5. /\ sdata' \in [Tids -> Bytes] /\ sdone' \in [Tids -> 0..FileLen]
      /\ sdone'[t] = from + Len(data)
      /\ \A u \in Tids \ {t} : sdata'[u] = sdata[u] /\ sdone'[u] = sdone[u]
  BY <1>1, <1>2, <1>3 DEF TypeOK
<1>6. QED BY <1>2, <1>3, <1>4, <1>5 DEF data

\* Steps of servers.
LEMMA ServerType ==
  ASSUME TypeOK, NEW t \in Tids, Server(t)
  PROVE  TypeOK'
<1>0. UNCHANGED <<sizeVars, tid, clientVars, status, toServer>>
  BY DEF Server, ServerError, StartPlain, StartOack, ServerAcked, ServerStores
<1>1. \A packet \in Packets : By(t, packet) \in [tid : Tids, p : Packets]
  BY DEF By
<1> DEFINE Rest == /\ st' \in [Tids -> {"idle", "get", "put", "over"}]
                   /\ size' \in [Tids -> Nat \ {0}]
                   /\ sn' \in [Tids -> Nat] /\ sdata' \in [Tids -> Bytes]
                   /\ sdone' \in [Tids -> 0..FileLen] /\ scopy' \in [Tids -> Bytes]
                   /\ toClient' \in SUBSET [tid : Tids, p : Packets]
<1>2. ASSUME ServerError(t) PROVE Rest
  BY <1>1, <1>2, PacketsAre DEF ServerError, Answers, TypeOK
<1>3. ASSUME NEW m \in toServer, StartPlain(t, m) PROVE Rest
  <2>1. /\ st' = [st EXCEPT ![t] = op] /\ scopy' = scopy
        /\ \E bytes \in ServerSizes : size' = [size EXCEPT ![t] = bytes]
    BY <1>3 DEF StartPlain, Asked
  <2>2. size' \in [Tids -> Nat \ {0}]
    BY <2>1, NumbersAssumption DEF TypeOK
  <2>3. CASE op = "get" /\ Sends(t, 1, 0)
    <3>1. 0 \in 0..FileLen /\ 1 \in Nat
      BY NumbersAssumption
    <3>2. Sends(t, 1, 0)
      BY <2>3
    <3>3. /\ sn' = [sn EXCEPT ![t] = 1]
          /\ sdata' \in [Tids -> Bytes] /\ sdone' \in [Tids -> 0..FileLen]
          /\ toClient' = toClient \cup {By(t, DATA(1, sdata'[t]))}
          /\ DATA(1, sdata'[t]) \in Packets
      BY <2>2, <3>1, <3>2, SendsIs
    <3>4. QED BY <1>1, <2>1, <2>2, <3>1, <3>3 DEF TypeOK
  <2>4. CASE op = "put" /\ Answers(t, ACK(0)) /\ UNCHANGED <<sn, sdata, sdone>>
    BY <1>1, <2>1, <2>2, <2>4, PacketsAre DEF Answers, TypeOK
  <2>5. QED BY <1>3, <2>3, <2>4 DEF StartPlain
<1>4. ASSUME NEW m \in toServer, StartOack(t, m) PROVE Rest
  <2>1. PICK offer \in ServerSizes \cup {0}, bytes \in ServerSizes :
           size' = [size EXCEPT ![t] = bytes] /\ Answers(t, OACK(offer))
    BY <1>4 DEF StartOack
  <2>2. OACK(offer) \in Packets
    BY PacketsAre, NumbersAssumption
  <2>3. QED
    BY <1>1, <1>4, <2>1, <2>2, NumbersAssumption DEF StartOack, Asked, Answers, TypeOK
<1>5. ASSUME NEW m \in toServer, ServerAcked(t, m) PROVE Rest
  <2>1. size' = size /\ Sends(t, sn[t] + 1, sdone[t]) /\ st' = st /\ scopy' = scopy
    BY <1>5 DEF ServerAcked
  <2>2. size' \in [Tids -> Nat \ {0}] /\ sdone[t] \in 0..FileLen /\ sn[t] + 1 \in Nat
    BY <2>1 DEF TypeOK
  <2>3. /\ sn' = [sn EXCEPT ![t] = sn[t] + 1]
        /\ sdata' \in [Tids -> Bytes] /\ sdone' \in [Tids -> 0..FileLen]
        /\ toClient' = toClient \cup {By(t, DATA(sn[t] + 1, sdata'[t]))}
        /\ DATA(sn[t] + 1, sdata'[t]) \in Packets
    BY <2>1, <2>2, SendsIs
  <2>4. QED BY <1>1, <2>1, <2>2, <2>3 DEF TypeOK
<1>6. ASSUME NEW m \in toServer, ServerStores(t, m) PROVE Rest
  <2>1. m.p.data \in Bytes /\ sn[t] + 1 \in Nat /\ scopy[t] \in Bytes
    BY DEF TypeOK, Packets
  <2>2. scopy[t] \o m.p.data \in Bytes /\ ACK(sn[t] + 1) \in Packets
    BY <2>1, PacketsAre, ConcatProperties DEF Bytes
  <2>3. QED BY <1>1, <1>6, <2>1, <2>2 DEF ServerStores, Answers, TypeOK
<1>7. Rest
  <2> HIDE DEF Rest
  <2>1. QED BY <1>2, <1>3, <1>4, <1>5, <1>6 DEF Server
<1>8. QED BY <1>0, <1>7 DEF TypeOK, sizeVars, clientVars

\* Where it begins.
LEMMA InitType == ASSUME Init PROVE TypeOK
<1>1. /\ FileLen \in Nat /\ TFTP_DEF_BLKSIZE \in Nat \ {0} /\ TFTP_RETRIES \in Nat \ {0}
      /\ want_blksize \in Nat
  BY NumbersAssumption DEF Init
<1>2. tx \in Packets
  BY <1>1, PacketsAre DEF Init
<1>3. toServer \in SUBSET [tid : Ports, p : Packets]
  BY <1>2 DEF Init, By, Ports
<1>4. /\ tries \in 1..TFTP_RETRIES /\ sends \in 1..TFTP_RETRIES + 1
      /\ n \in Nat /\ read \in 0..FileLen /\ blksize \in Nat \ {0}
  BY <1>1 DEF Init
<1>5. /\ st \in [Tids -> {"idle", "get", "put", "over"}] /\ size \in [Tids -> Nat \ {0}]
      /\ sn \in [Tids -> Nat] /\ sdata \in [Tids -> Bytes]
      /\ sdone \in [Tids -> 0..FileLen] /\ scopy \in [Tids -> Bytes]
  BY <1>1, PacketsAre DEF Init
<1>6. QED
  BY <1>1, <1>2, <1>3, <1>4, <1>5, PacketsAre DEF Init, TypeOK, Ports

\* Every step.
LEMMA TypeStep == TypeOK /\ [Next]_vars => TypeOK'
<1>1. ASSUME TypeOK, Client PROVE TypeOK'
  BY <1>1, SmallStepsType, BlocksType DEF Client
<1>2. ASSUME TypeOK, UNCHANGED vars PROVE TypeOK'
  BY <1>2 DEF TypeOK, vars, sizeVars, clientVars, serverVars, netVars
<1>3. QED BY <1>1, <1>2, ServerType DEF Next

\* Every variable keeps its type, whatever servers, network and file.
THEOREM TypeCorrect == Spec => []TypeOK
  BY InitType, TypeStep, PTL DEF Spec
-----------------------------------------------------------------------------
(* The inductive invariant                                                  *)

\* A server the client listens to, or may come to listen to.
Listened(t) == tid \in {NoTid, t}

\* Not so old that its number has come round again.
IsYoung(m) == m.p.n + Modulus > n + 1

\* The part of the file that ends at a place.
EndingAt(end, bytes) == SubSeq(File, end - Len(bytes) + 1, end)

\* What is under way to servers: nothing for the block after the next, and for
\* the block the client is at, that block.
Request(m) ==
  /\ m.tid \in {NoTid, tid}
  /\ m.p.type = "ACK" => /\ op = "get" /\ m.tid # NoTid /\ IsYoung(m)
                         /\ m.p.n < n \/ (m.p.n = n /\ status = "ok")
  /\ m.p.type = "DATA" => /\ op = "put" /\ m.tid # NoTid /\ IsYoung(m)
                          /\ m.p.n \in 1..n
                          /\ m.p.n = n => m.p.data = tx.data
Requests == \A m \in toServer : Request(m)

\* What is under way to the client: nothing a server has not come to, and of the
\* block it is at, that block.
Answer(m) ==
  /\ st[m.tid] # "idle" /\ m.p.type \in {"DATA", "ACK", "ERROR", "OACK"}
  /\ m.p.type = "DATA" => /\ op = "get" /\ (Listened(m.tid) => IsYoung(m))
                          /\ m.p.n \in 1..sn[m.tid]
                          /\ m.p.n = sn[m.tid] => m.p.data = sdata[m.tid]
  /\ m.p.type = "ACK" => /\ op = "put" /\ (Listened(m.tid) => IsYoung(m))
                         /\ m.p.n <= sn[m.tid]
  /\ m.p.type = "OACK" =>
       size[m.tid] >= IF m.p.size = 0 THEN TFTP_DEF_BLKSIZE ELSE m.p.size
AllAnswers == \A m \in toClient : Answer(m)

\* What was sent last.
Sent ==
  /\ op = "get" /\ status # "ok" =>
       \/ tx.type = "RRQ"
       \/ tx.type = "ACK" /\ tx.n = n - 1 /\ tid # NoTid
  /\ op = "put" /\ n = 0 => tx.type = "WRQ" /\ read = 0
  /\ op = "put" /\ n > 0 => /\ tx.type = "DATA" /\ tx.n = n /\ tid # NoTid
                            /\ Len(tx.data) <= read /\ tx.data = EndingAt(read, tx.data)
  /\ op = "put" /\ last => n > 0 /\ read = FileLen

\* The client before it has heard anyone ...
Unsettled ==
  tid = NoTid => /\ n = IF op = "get" THEN 1 ELSE 0
                 /\ status # "ok" /\ oack_ok /\ blksize = TFTP_DEF_BLKSIZE
                 /\ op = "get" => \A t \in Tids : sn[t] > 0 => size[t] >= blksize

\* ... and after.
Settled ==
  /\ op = "get" => n > 0
  /\ tid # NoTid => st[tid] # "idle"
  /\ tid # NoTid /\ status = "running" => ~oack_ok
  /\ tid # NoTid /\ status # "failed" /\ op = "get" => blksize <= size[tid]

\* A server's place in its file.
Place(t) ==
  /\ Len(sdata[t]) <= sdone[t] /\ sdata[t] = EndingAt(sdone[t], sdata[t])
  /\ op = "get" /\ sn[t] > 0 /\ Len(sdata[t]) < size[t] => sdone[t] = FileLen
  /\ st[t] = "idle" => sn[t] = 0 /\ sdone[t] = 0
Places == \A t \in Tids : Place(t)

\* Client and server are at most a block apart, and what is stored is what has
\* been sent so far, but for the block that is under way.
InStepWith(t) ==
  /\ sn[t] <= n /\ n <= sn[t] + 1
  /\ status = "ok" => n = sn[t] /\ (op = "get" => AllSent(t))
  /\ op = "get" /\ status = "running" =>
       copy = SubSeq(File, 1, IF n > sn[t] THEN sdone[t] ELSE sdone[t] - Len(sdata[t]))
  /\ op = "put" =>
       scopy[t] = SubSeq(File, 1, IF n > sn[t] THEN read - Len(tx.data) ELSE read)
InStep == \A t \in Tids : Listened(t) => InStepWith(t)

\* Sending a file, every sending is one of the tries.
NotTooOften == op = "put" => sends <= tries

IInv == /\ TypeOK /\ Requests /\ AllAnswers /\ Sent /\ Unsettled /\ Settled
        /\ Places /\ InStep /\ NotTooOften


\* What is needed of types, over and over.
LEMMA Numbers ==
  ASSUME TypeOK
  PROVE  /\ Modulus \in Nat /\ Modulus > 2 /\ n \in Nat /\ FileLen \in Nat /\ read \in 0..FileLen
         /\ blksize \in Nat /\ NoTid \notin Tids
         /\ \A t \in Tids : /\ sn[t] \in Nat /\ size[t] \in Nat /\ sdone[t] \in 0..FileLen
                            /\ sdata[t] \in Bytes /\ Len(sdata[t]) \in Nat
         /\ \A m \in toServer : m.p.n \in Nat /\ m.tid \in Ports /\ m.p.data \in Bytes
         /\ \A m \in toClient : m.p.n \in Nat /\ m.tid \in Tids /\ m.p.size \in Nat
         /\ Len(tx.data) \in Nat /\ tx.data \in Bytes
<1>1. tx.data \in Bytes /\ \A t \in Tids : sdata[t] \in Bytes
  BY DEF TypeOK, Packets
<1>2. Len(tx.data) \in Nat /\ \A t \in Tids : Len(sdata[t]) \in Nat
  BY <1>1, LenProperties DEF Bytes
<1>3. QED BY <1>1, <1>2, NumbersAssumption, TidsAssumption DEF TypeOK, Packets

\* What the client receives comes from a server it listens to, and is at most as
\* old as the block it waits for.
LEMMA Received ==
  ASSUME IInv, NEW m \in toClient, tftp_recv(m)
  PROVE  /\ m.tid \in Tids /\ tid' = m.tid /\ Listened(m.tid) /\ status = "running"
         /\ st[m.tid] # "idle" /\ Answer(m) /\ InStepWith(m.tid)
         /\ \A t \in Tids : (tid' \in {NoTid, t}) => t = m.tid
         /\ tid # NoTid => tid' = tid
<1>1. m.tid \in Tids /\ NoTid \notin Tids
  BY Numbers DEF IInv
<1>2. tid' = m.tid /\ Listened(m.tid) /\ status = "running"
  BY DEF tftp_recv, Heard, Listened
<1>3. Answer(m)
  BY DEF IInv, AllAnswers
<1>4. InStepWith(m.tid)
  BY <1>1, <1>2 DEF IInv, InStep
<1>5. QED BY <1>1, <1>2, <1>3, <1>4 DEF Answer, Listened

\* What is awaited is what the server has sent last, or acknowledged last.
LEMMA AwaitedIs ==
  ASSUME IInv, NEW m \in toClient, tftp_recv(m), Awaited(m)
  PROVE  /\ m.p.n = n /\ sn[m.tid] = n
         /\ op = "get" => m.p.data = sdata[m.tid]
<1>1. /\ m.tid \in Tids /\ Listened(m.tid) /\ Answer(m) /\ InStepWith(m.tid)
      /\ op \in {"get", "put"}
  BY Received DEF IInv, TypeOK
<1>2. m.p.n \in Nat /\ n \in Nat /\ sn[m.tid] \in Nat /\ Modulus \in Nat
  BY <1>1, Numbers DEF IInv
<1>3. m.p.n <= sn[m.tid] /\ sn[m.tid] <= n /\ IsYoung(m)
  BY <1>1, <1>2 DEF Awaited, Answer, InStepWith
<1>4. m.p.n = n
  BY <1>2, <1>3, SameNumber DEF Awaited, IsYoung
<1>5. sn[m.tid] = n
  BY <1>2, <1>3, <1>4
<1>6. QED BY <1>1, <1>4, <1>5 DEF Awaited, Answer

\* Who has heard no one takes nothing but the first block, an OACK or an ERROR.
LEMMA FirstHeard ==
  ASSUME IInv, NEW m \in toClient, tftp_recv(m), tid = NoTid
  PROVE  Awaited(m) \/ IsOack(m) \/ m.p.type = "ERROR"
<1>1. /\ m.tid \in Tids /\ Listened(m.tid) /\ Answer(m) /\ InStepWith(m.tid)
      /\ op \in {"get", "put"}
  BY Received DEF IInv, TypeOK
<1>2. m.p.n \in Nat /\ n \in Nat /\ sn[m.tid] \in Nat
  BY <1>1, Numbers DEF IInv
<1>3. oack_ok /\ n = IF op = "get" THEN 1 ELSE 0
  BY DEF IInv, Unsettled
<1>4. m.p.type = "DATA" => op = "get" /\ m.p.n = n
  BY <1>1, <1>2, <1>3 DEF Answer, InStepWith
<1>5. m.p.type = "ACK" => op = "put" /\ m.p.n = n
  BY <1>1, <1>2, <1>3 DEF Answer, InStepWith
<1>6. m.p.type \in {"DATA", "ACK", "ERROR", "OACK"}
  BY <1>1 DEF Answer
<1>7. QED BY <1>3, <1>4, <1>5, <1>6 DEF Awaited, IsOack

\* A step of the client leaves servers alone, and what they have sent.
LEMMA ClientKeeps ==
  ASSUME IInv, UNCHANGED <<op, serverVars>>, toClient' \subseteq toClient,
         \A t \in Tids : Listened(t)' => Listened(t),
         \A m \in toClient' : IsYoung(m) => IsYoung(m)'
  PROVE  AllAnswers' /\ Places'
<1>1. UNCHANGED <<st, size, sn, sdata, sdone, scopy>>
  BY DEF serverVars
<1>2. ASSUME NEW m \in toClient' PROVE Answer(m)'
  <2>1. m \in toClient /\ Answer(m) /\ m.tid \in Tids
    BY <1>2, Numbers DEF IInv, AllAnswers
  <2>2. Listened(m.tid)' => Listened(m.tid)
    BY <2>1
  <2>3. IsYoung(m) => IsYoung(m)'
    BY <1>2
  <2>4. QED BY <1>1, <2>1, <2>2, <2>3 DEF Answer
<1>3. Places'
  BY <1>1 DEF IInv, Places, Place, EndingAt
<1>4. QED BY <1>2, <1>3 DEF AllAnswers

\* The client gives up, or is told to.
LEMMA FailsStep ==
  ASSUME IInv, TypeOK',
         \/ GivesUp
         \/ \E m \in toClient : \/ RecvError(m) \/ RecvBadOack(m) \/ RecvTooBig(m)
                                \/ WriteFails(m)
  PROVE  IInv'
<1> USE DEF GivesUp, RecvError, RecvBadOack, RecvTooBig, WriteFails
<1>1. /\ tid' = tid \/ (tid = NoTid /\ tid' \in Tids /\ st[tid'] # "idle")
      /\ status = "running" /\ status' = "failed"
  <2>1. CASE GivesUp
    BY <2>1 DEF Fails
  <2>2. CASE \E m \in toClient : tftp_recv(m) /\ status' = "failed"
    BY <2>2, Received DEF Listened
  <2>3. QED BY <2>1, <2>2 DEF Fails
<1>2. UNCHANGED <<op, blksize, n, tx, tries, oack_ok, last, read, sends, toClient>>
  BY DEF Fails, sizeVars, clientVars, netVars
<1>3. UNCHANGED serverVars
  BY DEF Fails
<1>4. toServer' \subseteq toServer \cup {By(tid', ERROR)}
  BY DEF Fails, netVars
<1> USE DEF IInv
<1>5. NoTid \notin Tids
  BY Numbers
<1>6. ASSUME NEW m \in toServer' PROVE Request(m)'
  <2>1. CASE m \in toServer
    BY <1>1, <1>2, <2>1 DEF Requests, Request, IsYoung
  <2>2. CASE m = By(tid', ERROR)
    BY <2>2 DEF Request, By, ERROR, Packet
  <2>3. QED BY <1>4, <2>1, <2>2
<1>7. AllAnswers' /\ Places'
  BY <1>1, <1>2, <1>3, ClientKeeps DEF Listened, IsYoung
<1>8. Sent' /\ NotTooOften'
  BY <1>1, <1>2, <1>5 DEF Sent, NotTooOften, EndingAt
<1>9. Unsettled' /\ Settled'
  BY <1>1, <1>2, <1>3, <1>5 DEF Unsettled, Settled, serverVars
<1>10. InStep'
  BY <1>1, <1>2, <1>3 DEF InStep, InStepWith, Listened, AllSent, serverVars
<1>11. QED BY <1>6, <1>7, <1>8, <1>9, <1>10 DEF Requests

\* The packet last sent is sent again.
LEMMA ResendStep ==
  ASSUME IInv, TypeOK', Timeout \/ \E m \in toClient : RecvDup(m)
  PROVE  IInv'
<1>1. tid' = tid
  <2>1. ASSUME NEW m \in toClient, RecvDup(m) PROVE tid' = tid
    <3>1. tftp_recv(m) /\ ~Awaited(m) /\ ~IsOack(m) /\ m.p.type = "DATA"
      BY <2>1 DEF RecvDup, Duplicate
    <3>2. QED BY <3>1, Received, FirstHeard
  <2>2. QED BY <2>1 DEF Timeout
<1>2. /\ UNCHANGED <<op, blksize, n, tx, oack_ok, last, read, copy, status, toClient>>
      /\ UNCHANGED serverVars
      /\ toServer' = toServer \cup {By(tid, tx)}
      /\ status = "running"
  BY <1>1 DEF Timeout, RecvDup, tftp_recv, tftp_send, sizeVars
<1>3. op = "put" => sends' <= tries'
  <2>1. /\ sends \in Nat /\ tries \in Nat /\ TFTP_RETRIES \in Nat
        /\ sends' \in Nat /\ tries' \in Nat
    BY NumbersAssumption DEF IInv, TypeOK
  <2>2. ASSUME op = "put" PROVE sends' <= sends + 1 /\ tries' = tries + 1
    <3>1. Timeout
      BY <2>2 DEF RecvDup, Duplicate
    <3>2. QED BY <2>1, <3>1 DEF Timeout, tftp_send
  <2>3. QED BY <2>1, <2>2 DEF IInv, NotTooOften
<1> USE DEF IInv
<1>4. ASSUME NEW m \in toServer' PROVE Request(m)'
  <2>1. CASE m \in toServer
    BY <1>1, <1>2, <2>1 DEF Requests, Request, IsYoung
  <2>2. CASE m = By(tid, tx)
    <3>1. m.tid = tid /\ m.p = tx
      BY <2>2 DEF By
    <3>2. op \in {"get", "put"} /\ n \in Nat /\ Modulus \in Nat /\ Modulus > 2
      BY Numbers DEF TypeOK
    <3>3. CASE op = "get"
      BY <1>1, <1>2, <3>1, <3>2, <3>3 DEF Request, IsYoung, Sent, Settled
    <3>4. CASE op = "put"
      BY <1>1, <1>2, <3>1, <3>2, <3>4 DEF Request, IsYoung, Sent
    <3>5. QED BY <3>2, <3>3, <3>4
  <2>3. QED BY <1>2, <2>1, <2>2
<1>5. AllAnswers' /\ Places'
  BY <1>1, <1>2, ClientKeeps DEF Listened, IsYoung
<1>6. Sent' /\ Unsettled' /\ Settled'
  BY <1>1, <1>2 DEF Sent, EndingAt, Unsettled, Settled, serverVars
<1>7. ASSUME NEW t \in Tids, Listened(t)' PROVE InStepWith(t)'
  <2>1. InStepWith(t)
    BY <1>1, <1>7 DEF InStep, Listened
  <2>2. QED BY <1>2, <2>1 DEF InStepWith, AllSent, serverVars
<1>8. InStep'
  BY <1>7 DEF InStep
<1>9. QED BY <1>2, <1>3, <1>4, <1>5, <1>6, <1>8 DEF Requests, NotTooOften

\* What is neither awaited nor anything else changes nothing.
LEMMA OtherStep ==
  ASSUME IInv, NEW m \in toClient, RecvOther(m)
  PROVE  UNCHANGED vars
<1>1. tftp_recv(m) /\ ~Awaited(m) /\ ~IsOack(m) /\ m.p.type # "ERROR"
  BY DEF RecvOther
<1>2. tid' = tid
  BY <1>1, Received, FirstHeard
<1>3. QED BY <1>2 DEF RecvOther, vars

\* The last block is acknowledged.
LEMMA LastAckStep ==
  ASSUME IInv, TypeOK', NEW m \in toClient, RecvLastAck(m)
  PROVE  IInv'
<1>1. tftp_recv(m) /\ Awaited(m) /\ op = "put" /\ last /\ status = "running" /\ status' = "ok"
  BY DEF RecvLastAck, tftp_recv
<1> USE DEF IInv
<1>2. tid # NoTid
  BY <1>1 DEF Sent
<1>3. tid' = tid /\ tid = m.tid /\ sn[m.tid] = n
  BY <1>1, <1>2, Received, AwaitedIs
<1>4. /\ UNCHANGED <<op, blksize, n, tx, tries, oack_ok, last, read, copy, sends>>
      /\ UNCHANGED serverVars /\ UNCHANGED <<toServer, toClient>>
  BY DEF RecvLastAck, sizeVars, clientVars, netVars
<1>5. Requests'
  BY <1>1, <1>3, <1>4 DEF Requests, Request, IsYoung
<1>6. AllAnswers' /\ Places'
  BY <1>3, <1>4, ClientKeeps DEF Listened, IsYoung
<1>7. Sent' /\ Unsettled' /\ Settled' /\ NotTooOften'
  BY <1>1, <1>2, <1>3, <1>4 DEF Sent, EndingAt, Unsettled, Settled, NotTooOften, serverVars
<1>8. InStep'
  BY <1>1, <1>2, <1>3, <1>4 DEF InStep, InStepWith, Listened, AllSent, serverVars
<1>9. QED BY <1>5, <1>6, <1>7, <1>8

\* What a new packet, for the block the client is at now, does to what is under way.
LEMMA Transacted ==
  ASSUME IInv, TypeOK', NEW k \in Nat, NEW packet, Transact(k, packet)
  PROVE  /\ tx' = packet /\ n' = k /\ tries' = 1 /\ sends' = 1
         /\ toClient' \subseteq toClient
         /\ \A m \in toClient' : IsYoung(m)'
         /\ \A m \in toServer' : IsYoung(m)' /\ (m \in toServer \/ m = By(tid', packet))
  BY DEF Transact, Young, IsYoung

\* The options are acknowledged, and the acknowledgement is.
LEMMA OackGetStep ==
  ASSUME IInv, TypeOK', NEW m \in toClient, RecvOackGet(m)
  PROVE  IInv'
<1>1. /\ tftp_recv(m) /\ TakesOack(m) /\ op = "get" /\ status = "running"
      /\ Transact(n, ACK(0)) /\ oack_ok' = FALSE
      /\ UNCHANGED <<op, last, read, copy, status>> /\ UNCHANGED serverVars
  BY DEF RecvOackGet, tftp_recv
<1> USE DEF IInv
<1>2. n \in Nat /\ Modulus \in Nat /\ Modulus > 2 /\ NoTid \notin Tids
  BY Numbers
<1>3. /\ m.tid \in Tids /\ tid' = m.tid /\ Answer(m) /\ InStepWith(m.tid) /\ st[m.tid] # "idle"
      /\ \A t \in Tids : Listened(t)' => t = m.tid /\ Listened(t)
  BY <1>1, Received DEF Listened
<1>4. tid = NoTid /\ n = 1 /\ blksize = TFTP_DEF_BLKSIZE
  BY <1>1 DEF TakesOack, IsOack, Settled, Unsettled
<1>5. /\ tx' = ACK(0) /\ n' = n /\ tries' = 1 /\ sends' = 1
      /\ toClient' \subseteq toClient
      /\ \A q \in toServer' : IsYoung(q)' /\ (q \in toServer \/ q = By(tid', ACK(0)))
  BY <1>1, <1>2, Transacted
<1>6. blksize' <= size[m.tid]
  BY <1>1, <1>3, <1>4, Numbers DEF TakesOack, IsOack, Answer
<1>7. ASSUME NEW q \in toServer' PROVE Request(q)'
  <2>1. CASE q \in toServer
    BY <1>1, <1>4, <1>5, <2>1 DEF Requests, Request
  <2>2. CASE q = By(tid', ACK(0))
    BY <1>1, <1>2, <1>3, <1>4, <1>5, <2>2 DEF Request, By, ACK, Packet
  <2>3. QED BY <1>5, <2>1, <2>2
<1>8. AllAnswers' /\ Places'
  BY <1>1, <1>3, <1>5, ClientKeeps DEF IsYoung
<1>9. Sent' /\ NotTooOften'
  BY <1>1, <1>2, <1>3, <1>4, <1>5 DEF Sent, NotTooOften, ACK, Packet
<1>10. Unsettled' /\ Settled'
  BY <1>1, <1>2, <1>3, <1>4, <1>5, <1>6 DEF Unsettled, Settled, serverVars
<1>11. InStep'
  BY <1>1, <1>3, <1>4, <1>5 DEF InStep, InStepWith, AllSent, serverVars
<1>12. QED BY <1>7, <1>8, <1>9, <1>10, <1>11 DEF Requests

\* The next block is read and sent.
LEMMA NextBlockStep ==
  ASSUME IInv, TypeOK', NEW m \in toClient, RecvOackPut(m) \/ RecvAck(m)
  PROVE  IInv'
<1>1. /\ tftp_recv(m) /\ op = "put" /\ status = "running" /\ oack_ok' = FALSE
      /\ UNCHANGED <<op, copy, status>> /\ UNCHANGED serverVars
  BY DEF RecvOackPut, RecvAck, NextBlock, sizeVars, tftp_recv
<1> USE DEF IInv
<1>2. /\ n \in Nat /\ Modulus \in Nat /\ NoTid \notin Tids /\ FileLen \in Nat
      /\ read \in 0..FileLen /\ \A t \in Tids : sn[t] \in Nat
  BY Numbers
<1>3. /\ m.tid \in Tids /\ tid' = m.tid /\ InStepWith(m.tid) /\ st[m.tid] # "idle"
      /\ \A t \in Tids : Listened(t)' => t = m.tid /\ Listened(t)
      /\ tid \in {NoTid, tid'}
  BY <1>1, Received DEF Listened
<1>4. sn[m.tid] = n
  <2>1. CASE RecvOackPut(m)
    <3>1. n = 0
      BY <1>1, <2>1 DEF RecvOackPut, TakesOack, IsOack, Settled, Unsettled
    <3>2. QED BY <1>2, <1>3, <3>1 DEF InStepWith
  <2>2. CASE RecvAck(m)
    BY <2>2, AwaitedIs DEF RecvAck
  <2>3. QED BY <2>1, <2>2
<1>5. PICK bytes \in Nat : NextBlock(bytes)
  BY DEF RecvOackPut, RecvAck, TypeOK
<1> DEFINE data == Piece(read, bytes)
<1>6. /\ Transact(n + 1, DATA(n + 1, data))
      /\ read' = read + Len(data) /\ last' = (Len(data) < bytes)
  BY <1>5 DEF NextBlock
<1>7. /\ Len(data) \in 0..bytes /\ read + Len(data) \in read..FileLen
      /\ data = SubSeq(File, read + 1, read + Len(data))
      /\ Len(data) < bytes => read + Len(data) = FileLen
  BY <1>2, PieceIs, Zenon
<1> HIDE DEF data
<1>8. /\ tx' = DATA(n + 1, data) /\ n' = n + 1 /\ tries' = 1 /\ sends' = 1
      /\ toClient' \subseteq toClient
      /\ \A q \in toClient' : IsYoung(q)'
      /\ \A q \in toServer' : IsYoung(q)' /\ (q \in toServer \/ q = By(tid', DATA(n + 1, data)))
  BY <1>2, <1>6, Transacted
<1>9. /\ tx'.type = "DATA" /\ tx'.n = n + 1 /\ tx'.data = data
  BY <1>8 DEF DATA, Packet
<1>10. ASSUME NEW q \in toServer' PROVE Request(q)'
  <2>1. CASE q \in toServer
    <3>1. Request(q) /\ q.p.n \in Nat
      BY <2>1, Numbers DEF Requests
    <3>2. q.p.type # "ACK" /\ (q.p.type = "DATA" => q.tid # NoTid /\ q.p.n \in 1..n)
      BY <1>1, <3>1 DEF Request
    <3>3. q.p.type = "DATA" => q.p.n \in 1..n' /\ q.p.n # n'
      BY <1>2, <1>8, <3>1, <3>2
    <3>4. q.tid \in {NoTid, tid'} /\ IsYoung(q)'
      BY <1>3, <1>8, <3>1 DEF Request
    <3>5. QED BY <1>1, <3>2, <3>3, <3>4 DEF Request
  <2>2. CASE q = By(tid', DATA(n + 1, data))
    <3>1. q.tid = tid' /\ q.p = tx' /\ IsYoung(q)'
      BY <1>8, <2>2 DEF By
    <3>2. QED BY <1>1, <1>2, <1>3, <1>8, <1>9, <3>1 DEF Request
  <2>3. QED BY <1>8, <2>1, <2>2
<1>11. AllAnswers' /\ Places'
  BY <1>1, <1>3, <1>8, ClientKeeps
<1>12. Sent'
  <2>1. Len(data) \in Nat /\ read' - Len(data) + 1 = read + 1 /\ Len(data) <= read'
    BY <1>2, <1>6, <1>7
  <2>2. data = EndingAt(read', data)
    BY <1>6, <1>7, <2>1 DEF EndingAt
  <2>3. last' => read' = FileLen
    BY <1>6, <1>7
  <2>4. op' = "put" /\ n' = n + 1 /\ n' > 0 /\ tid' # NoTid
    BY <1>1, <1>2, <1>3, <1>8
  <2>5. tx'.data = EndingAt(read', tx'.data) /\ Len(tx'.data) <= read'
    BY <1>9, <2>1, <2>2
  <2>6. QED BY <1>2, <1>9, <2>3, <2>4, <2>5 DEF Sent, EndingAt
<1>13. Unsettled' /\ Settled' /\ NotTooOften'
  BY <1>1, <1>2, <1>3, <1>8 DEF Unsettled, Settled, NotTooOften, serverVars
<1>14. InStep'
  <2>1. scopy[m.tid] = SubSeq(File, 1, read)
    BY <1>1, <1>2, <1>3, <1>4 DEF InStepWith
  <2>2. read' - Len(tx'.data) = read
    BY <1>2, <1>6, <1>7, <1>9
  <2>3. InStepWith(m.tid)'
    BY <1>1, <1>2, <1>3, <1>4, <1>8, <2>1, <2>2 DEF InStepWith, serverVars
  <2>4. QED BY <1>3, <2>3 DEF InStep
<1>15. QED BY <1>10, <1>11, <1>12, <1>13, <1>14 DEF Requests

\* Getting, what is written is the next part of the file, of the size agreed on
\* unless it is the last.
LEMMA WrittenIs ==
  ASSUME IInv, NEW m \in toClient, tftp_recv(m), Awaited(m), op = "get"
  PROVE  /\ m.p.data = EndingAt(sdone[m.tid], m.p.data)
         /\ Len(m.p.data) \in 0..sdone[m.tid] /\ sdone[m.tid] \in 0..FileLen
         /\ copy = SubSeq(File, 1, sdone[m.tid] - Len(m.p.data))
         /\ copy \o m.p.data = SubSeq(File, 1, sdone[m.tid])
         /\ blksize <= size[m.tid] /\ sn[m.tid] > 0 /\ m.p.data = sdata[m.tid]
<1> USE DEF IInv
<1>1. /\ m.tid \in Tids /\ tid' = m.tid /\ Listened(m.tid) /\ InStepWith(m.tid)
      /\ status = "running"
  BY Received
<1>2. /\ m.p.n = n /\ sn[m.tid] = n /\ m.p.data = sdata[m.tid]
  BY AwaitedIs
<1>3. /\ n \in Nat /\ n > 0 /\ FileLen \in Nat /\ sdone[m.tid] \in 0..FileLen
      /\ Len(m.p.data) \in Nat /\ size[m.tid] \in Nat /\ blksize \in Nat
  BY <1>1, <1>2, Numbers DEF Settled
<1>4. Place(m.tid)
  BY <1>1 DEF Places
<1>5. m.p.data = EndingAt(sdone[m.tid], m.p.data) /\ Len(m.p.data) \in 0..sdone[m.tid]
  BY <1>2, <1>3, <1>4 DEF Place
<1>6. copy = SubSeq(File, 1, sdone[m.tid] - Len(m.p.data))
  BY <1>1, <1>2, <1>3 DEF InStepWith
<1>7. copy \o m.p.data = SubSeq(File, 1, sdone[m.tid])
  <2> DEFINE a == sdone[m.tid] - Len(m.p.data)
  <2>1. a \in 0..FileLen /\ sdone[m.tid] \in a..FileLen
    BY <1>3, <1>5
  <2>2. m.p.data = SubSeq(File, a + 1, sdone[m.tid])
    BY <1>5 DEF EndingAt
  <2>3. copy = SubSeq(File, 1, a)
    BY <1>6
  <2> HIDE DEF a
  <2>4. QED BY <2>1, <2>2, <2>3, Grows
<1>8. blksize <= size[m.tid]
  BY <1>1, <1>2, <1>3 DEF Listened, Settled, Unsettled
<1>9. QED BY <1>2, <1>3, <1>5, <1>6, <1>7, <1>8

\* A block is written and acknowledged.
LEMMA DataStep ==
  ASSUME IInv, TypeOK', NEW m \in toClient, RecvData(m)
  PROVE  IInv'
<1>1. /\ tftp_recv(m) /\ Awaited(m) /\ op = "get" /\ status = "running" /\ oack_ok' = FALSE
      /\ copy' = copy \o m.p.data /\ Transact(n + 1, ACK(n))
      /\ UNCHANGED <<op, blksize, last, read, status>> /\ UNCHANGED serverVars
  BY DEF RecvData, Written, sizeVars, tftp_recv
<1> USE DEF IInv
<1>2. /\ n \in Nat /\ Modulus \in Nat /\ NoTid \notin Tids /\ \A t \in Tids : sn[t] \in Nat
  BY Numbers
<1>3. /\ m.tid \in Tids /\ tid' = m.tid /\ InStepWith(m.tid) /\ st[m.tid] # "idle"
      /\ \A t \in Tids : Listened(t)' => t = m.tid /\ Listened(t)
      /\ tid \in {NoTid, tid'}
  BY <1>1, Received DEF Listened
<1>4. sn[m.tid] = n /\ copy' = SubSeq(File, 1, sdone[m.tid]) /\ blksize <= size[m.tid]
  BY <1>1, AwaitedIs, WrittenIs
<1>5. /\ tx' = ACK(n) /\ n' = n + 1 /\ tries' = 1 /\ sends' = 1
      /\ toClient' \subseteq toClient
      /\ \A q \in toClient' : IsYoung(q)'
      /\ \A q \in toServer' : IsYoung(q)' /\ (q \in toServer \/ q = By(tid', ACK(n)))
  BY <1>1, <1>2, Transacted
<1>6. tx'.type = "ACK" /\ tx'.n = n
  BY <1>5 DEF ACK, Packet
<1>7. ASSUME NEW q \in toServer' PROVE Request(q)'
  <2>1. CASE q \in toServer
    <3>1. Request(q) /\ q.p.n \in Nat
      BY <2>1, Numbers DEF Requests
    <3>2. q.p.type # "DATA" /\ (q.p.type = "ACK" => q.tid # NoTid /\ q.p.n < n')
      BY <1>1, <1>2, <1>5, <3>1 DEF Request
    <3>3. q.tid \in {NoTid, tid'} /\ IsYoung(q)'
      BY <1>3, <1>5, <3>1 DEF Request
    <3>4. QED BY <1>1, <3>2, <3>3 DEF Request
  <2>2. CASE q = By(tid', ACK(n))
    <3>1. q.tid = tid' /\ q.p = tx' /\ IsYoung(q)'
      BY <1>5, <2>2 DEF By
    <3>2. QED BY <1>1, <1>2, <1>3, <1>5, <1>6, <3>1 DEF Request
  <2>3. QED BY <1>5, <2>1, <2>2
<1>8. AllAnswers' /\ Places'
  BY <1>1, <1>3, <1>5, ClientKeeps
<1>9. Sent' /\ NotTooOften'
  BY <1>1, <1>2, <1>3, <1>5, <1>6 DEF Sent, NotTooOften
<1>10. Unsettled' /\ Settled'
  BY <1>1, <1>2, <1>3, <1>4, <1>5 DEF Unsettled, Settled, serverVars
<1>11. InStepWith(m.tid)'
  <2>1. n' > sn'[m.tid] /\ n' <= sn'[m.tid] + 1 /\ sn'[m.tid] <= n'
    BY <1>1, <1>2, <1>3, <1>4, <1>5 DEF serverVars
  <2>2. copy' = SubSeq(File, 1, sdone'[m.tid])
    BY <1>1, <1>4 DEF serverVars
  <2>3. QED BY <1>1, <2>1, <2>2 DEF InStepWith
<1>12. QED BY <1>3, <1>7, <1>8, <1>9, <1>10, <1>11 DEF Requests, InStep

\* The last block is written, and perhaps acknowledged.
LEMMA LastDataStep ==
  ASSUME IInv, TypeOK', NEW m \in toClient, RecvLastData(m)
  PROVE  IInv'
<1>1. /\ tftp_recv(m) /\ Awaited(m) /\ op = "get" /\ status = "running" /\ status' = "ok"
      /\ Len(m.p.data) < blksize /\ oack_ok' = FALSE
      /\ UNCHANGED <<op, blksize, n, tries, last, read, sends, toClient>>
      /\ UNCHANGED serverVars
      /\ toServer' \subseteq toServer \cup {By(tid', ACK(n))}
  BY DEF RecvLastData, Written, IsLast, sizeVars, tftp_recv
<1> USE DEF IInv
<1>2. /\ n \in Nat /\ Modulus \in Nat /\ Modulus > 2 /\ NoTid \notin Tids
      /\ blksize \in Nat /\ \A t \in Tids : sn[t] \in Nat /\ size[t] \in Nat
  BY Numbers
<1>3. /\ m.tid \in Tids /\ tid' = m.tid /\ InStepWith(m.tid) /\ st[m.tid] # "idle"
      /\ \A t \in Tids : Listened(t)' => t = m.tid /\ Listened(t)
      /\ tid \in {NoTid, tid'}
  BY <1>1, Received DEF Listened
<1>4. /\ sn[m.tid] = n /\ blksize <= size[m.tid] /\ m.p.data = sdata[m.tid]
      /\ Len(m.p.data) \in Nat /\ sn[m.tid] > 0
  BY <1>1, <1>3, AwaitedIs, WrittenIs, Numbers
<1>5. AllSent(m.tid)
  BY <1>1, <1>2, <1>3, <1>4 DEF AllSent
<1>6. ASSUME NEW q \in toServer' PROVE Request(q)'
  <2>1. CASE q \in toServer
    BY <1>1, <1>3, <2>1 DEF Requests, Request, IsYoung
  <2>2. CASE q = By(tid', ACK(n))
    BY <1>1, <1>2, <1>3, <2>2 DEF Request, IsYoung, By, ACK, Packet
  <2>3. QED BY <1>1, <2>1, <2>2
<1>7. AllAnswers' /\ Places'
  BY <1>1, <1>3, ClientKeeps DEF IsYoung
<1>8. Sent' /\ NotTooOften'
  BY <1>1 DEF Sent, NotTooOften
<1>9. Unsettled' /\ Settled'
  BY <1>1, <1>2, <1>3, <1>4 DEF Unsettled, Settled, serverVars
<1>10. InStepWith(m.tid)'
  BY <1>1, <1>2, <1>3, <1>4, <1>5 DEF InStepWith, AllSent, serverVars
<1>11. QED BY <1>3, <1>6, <1>7, <1>8, <1>9, <1>10 DEF Requests, InStep

-----------------------------------------------------------------------------
(* Steps of servers                                                         *)

\* A step of a server leaves the client alone, and requests.
LEMMA ServerKeeps ==
  ASSUME IInv, UNCHANGED <<sizeVars, tid, clientVars, status, toServer>>
  PROVE  Requests' /\ Sent' /\ NotTooOften'
<1>1. UNCHANGED <<op, tid, n, tx, tries, last, read, sends, status, toServer>>
  BY DEF sizeVars, clientVars
<1>2. Requests'
  BY <1>1 DEF IInv, Requests, Request, IsYoung
<1>3. QED BY <1>1, <1>2 DEF IInv, Sent, NotTooOften, EndingAt

\* Nobody has heard of a server that has not been asked yet.
LEMMA IdleIs ==
  ASSUME IInv, NEW t \in Tids, st[t] = "idle"
  PROVE  /\ sn[t] = 0 /\ sdone[t] = 0 /\ t # tid
         /\ \A m \in toClient : m.tid # t
         /\ Listened(t) => tid = NoTid /\ n = IF op = "get" THEN 1 ELSE 0
<1>1. NoTid \notin Tids
  BY Numbers DEF IInv
<1>2. QED
  BY <1>1 DEF IInv, Places, Place, Settled, Unsettled, AllAnswers, Answer, Listened

\* A server gives up.
LEMMA ServerErrorStep ==
  ASSUME IInv, TypeOK', NEW t \in Tids, ServerError(t)
  PROVE  IInv'
<1>1. /\ UNCHANGED <<sizeVars, tid, clientVars, status, toServer>>
      /\ UNCHANGED <<size, sn, sdata, sdone, scopy>>
      /\ toClient' = toClient \cup {By(t, ERROR)}
      /\ st' = [st EXCEPT ![t] = "over"]
  BY DEF ServerError, Answers
<1> USE DEF IInv
<1>2. Requests' /\ Sent' /\ NotTooOften'
  BY <1>1, ServerKeeps
<1>3. \A u \in Tids : st'[u] = IF u = t THEN "over" ELSE st[u]
  BY <1>1 DEF TypeOK
<1>4. UNCHANGED <<op, blksize, n, tx, oack_ok, read, copy>>
  BY <1>1 DEF sizeVars, clientVars
<1>5. ASSUME NEW m \in toClient' PROVE Answer(m)'
  <2>1. CASE m \in toClient
    BY <1>1, <1>3, <1>4, <2>1, Numbers DEF AllAnswers, Answer, Listened, IsYoung
  <2>2. CASE m = By(t, ERROR)
    BY <1>3, <2>2 DEF Answer, By, ERROR, Packet
  <2>3. QED BY <1>1, <2>1, <2>2
<1>6. Unsettled' /\ Settled'
  BY <1>1, <1>3, <1>4 DEF Unsettled, Settled, TypeOK, Ports
<1>7. Places'
  BY <1>1, <1>3, <1>4 DEF Places, Place, EndingAt
<1>8. InStep'
  BY <1>1, <1>4 DEF InStep, InStepWith, Listened, AllSent
<1>9. QED BY <1>2, <1>5, <1>6, <1>7, <1>8 DEF AllAnswers

\* A server sends its block after the one that was acknowledged, or its first.
LEMMA SendsStep ==
  ASSUME IInv, TypeOK', NEW t \in Tids, NEW m \in toServer,
         (StartPlain(t, m) /\ op = "get") \/ ServerAcked(t, m)
  PROVE  IInv'
<1> USE DEF IInv
<1>1. /\ n \in Nat /\ Modulus \in Nat /\ Modulus > 2 /\ NoTid \notin Tids /\ FileLen \in Nat
      /\ \A u \in Tids : sn[u] \in Nat /\ sdone[u] \in 0..FileLen /\ Len(sdata[u]) \in Nat
      /\ size' \in [Tids -> Nat \ {0}] /\ blksize \in Nat
  BY Numbers DEF TypeOK
<1>2. /\ UNCHANGED <<sizeVars, tid, clientVars, status, scopy, toServer>> /\ op = "get"
      /\ Sends(t, sn[t] + 1, sdone[t])
      /\ \A u \in Tids \ {t} : st'[u] = st[u] /\ size'[u] = size[u]
      /\ st'[t] = "get"
      /\ Listened(t) => n = sn[t] + 1 /\ status # "ok"
      /\ tid = NoTid => size'[t] >= TFTP_DEF_BLKSIZE
      /\ tid = t => size' = size
      /\ \A q \in toClient : q.tid = t => size' = size
  <2>1. CASE StartPlain(t, m) /\ op = "get"
    <3>1. st[t] = "idle" /\ sn[t] = 0 /\ sdone[t] = 0 /\ Sends(t, 1, 0)
      BY <2>1, IdleIs DEF StartPlain, Asked
    <3>2. PICK bytes \in ServerSizes :
             bytes >= TFTP_DEF_BLKSIZE /\ size' = [size EXCEPT ![t] = bytes]
      BY <2>1 DEF StartPlain
    <3>3. /\ UNCHANGED <<sizeVars, tid, clientVars, status, scopy, toServer>>
          /\ st' = [st EXCEPT ![t] = op]
      BY <2>1 DEF StartPlain, Asked
    <3>4. /\ t # tid /\ \A q \in toClient : q.tid # t
          /\ Listened(t) => tid = NoTid /\ n = 1
      BY <2>1, <3>1, IdleIs
    <3>5. size'[t] >= TFTP_DEF_BLKSIZE
      BY <3>2 DEF TypeOK
    <3>6. tid = NoTid => status # "ok"
      BY DEF Unsettled
    <3>7. QED BY <2>1, <3>1, <3>2, <3>3, <3>4, <3>5, <3>6 DEF TypeOK
  <2>2. CASE ServerAcked(t, m)
    <3>1. /\ st[t] = "get" /\ To(t, m, "ACK") /\ Num(m.p.n) = Num(sn[t]) /\ ~AllSent(t)
          /\ st' = st /\ size' = size /\ Sends(t, sn[t] + 1, sdone[t])
          /\ UNCHANGED <<sizeVars, tid, clientVars, status, scopy, toServer>>
      BY <2>2 DEF ServerAcked
    <3>2. /\ tid = t /\ op = "get" /\ IsYoung(m) /\ m.p.n \in Nat
          /\ m.p.n < n \/ (m.p.n = n /\ status = "ok")
      BY <1>1, <3>1, Numbers DEF Requests, Request, To
    <3>3. InStepWith(t)
      BY <3>2 DEF InStep, Listened
    <3>4. sn[t] <= n /\ n <= sn[t] + 1 /\ m.p.n <= n /\ m.p.n + Modulus > n + 1
      BY <1>1, <3>2, <3>3 DEF InStepWith, IsYoung
    <3>5. m.p.n = sn[t]
      <4>1. CASE m.p.n <= sn[t]
        BY <1>1, <3>1, <3>2, <3>4, <4>1, SameNumber
      <4>2. CASE m.p.n > sn[t]
        BY <1>1, <3>1, <3>2, <3>4, <4>2, SameNumber
      <4>3. QED BY <1>1, <3>2, <4>1, <4>2
    <3>6. status # "ok"
      BY <3>1, <3>2, <3>3 DEF InStepWith
    <3>7. n = sn[t] + 1
      BY <1>1, <3>2, <3>4, <3>5, <3>6
    <3>8. QED BY <1>1, <3>1, <3>2, <3>6, <3>7
  <2>3. QED BY <2>1, <2>2
<1> DEFINE data == Piece(sdone[t], size'[t])
<1>3. /\ \A u \in Tids \ {t} : /\ sn'[u] = sn[u] /\ sdata'[u] = sdata[u]
                               /\ sdone'[u] = sdone[u]
      /\ sn'[t] = sn[t] + 1 /\ sdata'[t] = data /\ sdone'[t] = sdone[t] + Len(data)
      /\ toClient' = toClient \cup {By(t, DATA(sn[t] + 1, data))}
  <2>1. sn[t] + 1 \in Nat
    BY <1>1
  <2>2. /\ sn' = [sn EXCEPT ![t] = sn[t] + 1]
        /\ sdata'[t] = Piece(sdone[t], size'[t]) /\ sdone'[t] = sdone[t] + Len(sdata'[t])
        /\ \A u \in Tids \ {t} : sdata'[u] = sdata[u] /\ sdone'[u] = sdone[u]
        /\ toClient' = toClient \cup {By(t, DATA(sn[t] + 1, sdata'[t]))}
    BY <1>1, <1>2, <2>1, SendsIs
  <2>3. QED BY <2>2 DEF TypeOK
<1>4. /\ Len(data) \in 0..size'[t] /\ sdone[t] + Len(data) \in sdone[t]..FileLen
      /\ data = SubSeq(File, sdone[t] + 1, sdone[t] + Len(data))
      /\ Len(data) < size'[t] => sdone[t] + Len(data) = FileLen
  <2>1. size'[t] \in Nat
    BY <1>1
  <2>2. QED BY <1>1, <2>1, PieceIs, Zenon
<1> HIDE DEF data
<1>5. UNCHANGED <<op, blksize, n, tx, oack_ok, read, copy, tid, status, scopy>>
  BY <1>2 DEF sizeVars, clientVars
<1>6. Requests' /\ Sent' /\ NotTooOften'
  BY <1>2, ServerKeeps
<1>7. ASSUME NEW q \in toClient' PROVE Answer(q)'
  <2>1. CASE q \in toClient /\ q.tid # t
    BY <1>2, <1>3, <1>5, <2>1, Numbers DEF AllAnswers, Answer, Listened, IsYoung
  <2>2. CASE q \in toClient /\ q.tid = t
    <3>1. Answer(q) /\ size' = size /\ q.p.n \in Nat
      BY <1>2, <2>2, Numbers DEF AllAnswers
    <3>2. q.p.type = "DATA" => q.p.n \in 1..sn'[t] /\ q.p.n # sn'[t]
      BY <1>1, <1>3, <2>2, <3>1 DEF Answer
    <3>3. q.p.type # "ACK"
      BY <1>2, <3>1 DEF Answer
    <3>4. QED BY <1>2, <1>5, <2>2, <3>1, <3>2, <3>3 DEF Answer, Listened, IsYoung
  <2>3. CASE q = By(t, DATA(sn[t] + 1, data))
    <3>1. q.tid = t /\ q.p.type = "DATA" /\ q.p.n = sn[t] + 1 /\ q.p.data = data
      BY <2>3 DEF By, DATA, Packet
    <3>2. (Listened(t) => IsYoung(q)) /\ q.p.n \in 1..sn'[t]
      BY <1>1, <1>2, <1>3, <3>1 DEF IsYoung
    <3>3. QED BY <1>2, <1>3, <1>5, <3>1, <3>2 DEF Answer, Listened, IsYoung
  <2>4. QED BY <1>3, <2>1, <2>2, <2>3
<1>8. Unsettled' /\ Settled'
  BY <1>1, <1>2, <1>3, <1>5 DEF Unsettled, Settled, TypeOK, Ports
<1>9. Place(t)'
  <2>1. /\ Len(data) <= sdone'[t] /\ sdone'[t] - Len(data) + 1 = sdone[t] + 1
    BY <1>1, <1>3, <1>4
  <2>2. sdata'[t] = EndingAt(sdone'[t], sdata'[t])
    BY <1>3, <1>4, <2>1 DEF EndingAt
  <2>3. QED BY <1>2, <1>3, <1>4, <2>1, <2>2 DEF Place, EndingAt
<1>10. Places'
  BY <1>2, <1>3, <1>5, <1>9 DEF Places, Place, EndingAt
<1>11. ASSUME Listened(t) PROVE InStepWith(t)'
  <2>1. n = sn[t] + 1 /\ InStepWith(t) /\ status # "ok"
    BY <1>2, <1>11 DEF InStep
  <2>2. status = "running" => copy = SubSeq(File, 1, sdone'[t] - Len(sdata'[t]))
    <3>1. sdone'[t] - Len(sdata'[t]) = sdone[t]
      BY <1>1, <1>3, <1>4
    <3>2. QED BY <1>1, <1>2, <2>1, <3>1 DEF InStepWith
  <2>3. sn'[t] = n /\ n' = n
    BY <1>3, <1>5, <2>1
  <2>4. op' = "get" /\ status' = status /\ copy' = copy
    BY <1>2, <1>5
  <2>5. QED BY <1>1, <2>1, <2>2, <2>3, <2>4 DEF InStepWith
<1>12. InStep'
  BY <1>2, <1>3, <1>5, <1>11 DEF InStep, InStepWith, Listened, AllSent
<1>13. QED BY <1>6, <1>7, <1>8, <1>10, <1>12 DEF AllAnswers

\* A server is asked to take a file, or acknowledges the options.
LEMMA StartStep ==
  ASSUME IInv, TypeOK', NEW t \in Tids, NEW m \in toServer,
         (StartPlain(t, m) /\ op = "put") \/ StartOack(t, m)
  PROVE  IInv'
<1> USE DEF IInv
<1>1. /\ n \in Nat /\ Modulus \in Nat /\ Modulus > 2 /\ NoTid \notin Tids /\ FileLen \in Nat
      /\ \A u \in Tids : sn[u] \in Nat /\ sdone[u] \in 0..FileLen /\ Len(sdata[u]) \in Nat
  BY Numbers
<1>2. /\ UNCHANGED <<sizeVars, tid, clientVars, status, scopy, toServer>>
      /\ UNCHANGED <<sn, sdata, sdone>>
      /\ st[t] = "idle" /\ st' = [st EXCEPT ![t] = op]
  BY DEF StartPlain, StartOack, Asked
<1>3. PICK packet \in {ACK(0)} \cup {OACK(k) : k \in ServerSizes \cup {0}} :
        /\ toClient' = toClient \cup {By(t, packet)}
        /\ packet.type = "ACK" => op = "put" /\ packet.n = 0
        /\ packet.type \in {"ACK", "OACK"}
        /\ packet.type = "OACK" =>
             size'[t] >= IF packet.size = 0 THEN TFTP_DEF_BLKSIZE ELSE packet.size
  <2>1. CASE StartPlain(t, m) /\ op = "put"
    BY <2>1 DEF StartPlain, Answers, ACK, Packet
  <2>2. CASE StartOack(t, m)
    <3>1. PICK offer \in ServerSizes \cup {0}, bytes \in ServerSizes :
            /\ bytes >= (IF offer = 0 THEN TFTP_DEF_BLKSIZE ELSE offer)
            /\ size' = [size EXCEPT ![t] = bytes]
            /\ Answers(t, OACK(offer))
      BY <2>2 DEF StartOack
    <3>2. size'[t] = bytes
      BY <3>1 DEF TypeOK
    <3>3. OACK(offer).type = "OACK" /\ OACK(offer).size = offer
      BY DEF OACK, Packet
    <3>4. QED BY <3>1, <3>2, <3>3 DEF Answers
  <2>3. QED BY <2>1, <2>2
<1>4. /\ \A u \in Tids \ {t} : st'[u] = st[u] /\ size'[u] = size[u]
      /\ st'[t] # "idle"
  BY <1>2 DEF StartPlain, StartOack, TypeOK
<1>5. /\ sn[t] = 0 /\ sdone[t] = 0 /\ t # tid /\ \A q \in toClient : q.tid # t
      /\ Listened(t) => tid = NoTid /\ n = IF op = "get" THEN 1 ELSE 0
  BY <1>2, IdleIs
<1>6. UNCHANGED <<op, blksize, n, tx, oack_ok, read, copy, tid, status, scopy>>
  BY <1>2 DEF sizeVars, clientVars
<1>7. Requests' /\ Sent' /\ NotTooOften'
  BY <1>2, ServerKeeps
<1>8. ASSUME NEW q \in toClient' PROVE Answer(q)'
  <2>1. CASE q \in toClient
    <3>1. q.tid \in Tids \ {t} /\ Answer(q)
      BY <1>5, <2>1, Numbers DEF AllAnswers
    <3>2. QED BY <1>2, <1>4, <1>6, <3>1 DEF Answer, Listened, IsYoung
  <2>2. CASE q = By(t, packet)
    <3>1. q.tid = t /\ q.p = packet
      BY <2>2 DEF By
    <3>2. q.p.type = "ACK" => (Listened(t) => IsYoung(q)) /\ q.p.n <= sn[t] /\ op = "put"
      BY <1>1, <1>3, <1>5, <3>1 DEF IsYoung
    <3>3. QED BY <1>2, <1>3, <1>4, <1>6, <3>1, <3>2 DEF Answer, Listened, IsYoung
  <2>3. QED BY <1>3, <2>1, <2>2
<1>9. Unsettled' /\ Settled'
  <2>1. Unsettled'
    <3>1. \A u \in Tids : sn[u] > 0 => u # t
      BY <1>5
    <3>2. QED BY <1>2, <1>4, <1>6, <3>1 DEF Unsettled
  <2>2. tid # NoTid => tid \in Tids \ {t}
    BY <1>5 DEF TypeOK, Ports
  <2>3. QED BY <1>4, <1>6, <2>1, <2>2 DEF Settled
<1>10. Places'
  <2>1. ASSUME NEW u \in Tids PROVE Place(u)'
    <3>1. /\ Place(u)
          /\ sn[u] > 0 => size'[u] = size[u]
          /\ st'[u] = "idle" => st[u] = "idle"
      BY <1>1, <1>2, <1>4, <1>5 DEF Places
    <3>2. QED BY <1>2, <1>6, <3>1 DEF Place, EndingAt
  <2>2. QED BY <2>1 DEF Places
<1>11. InStep'
  BY <1>2, <1>4, <1>5, <1>6 DEF InStep, InStepWith, Listened, AllSent
<1>12. QED BY <1>7, <1>8, <1>9, <1>10, <1>11 DEF AllAnswers

\* What a server stores is the block after the one it acknowledged last.
LEMMA StoredIs ==
  ASSUME IInv, NEW t \in Tids, NEW m \in toServer, ServerStores(t, m)
  PROVE  /\ tid = t /\ op = "put" /\ n = sn[t] + 1 /\ n > 0 /\ status # "ok"
         /\ read - Len(tx.data) \in 0..FileLen /\ read \in read - Len(tx.data)..FileLen
         /\ scopy[t] = SubSeq(File, 1, read - Len(tx.data))
         /\ scopy'[t] = SubSeq(File, 1, read)
<1> USE DEF IInv
<1>1. /\ n \in Nat /\ Modulus \in Nat /\ NoTid \notin Tids /\ FileLen \in Nat
      /\ read \in 0..FileLen /\ sn[t] \in Nat
  BY Numbers
<1>2. /\ To(t, m, "DATA") /\ Num(m.p.n) = Num(sn[t] + 1)
      /\ scopy'[t] = scopy[t] \o m.p.data
  BY DEF ServerStores, TypeOK
<1>3. /\ tid = t /\ op = "put" /\ IsYoung(m) /\ m.p.n \in 1..n
      /\ m.p.n = n => m.p.data = tx.data
  BY <1>1, <1>2, Numbers DEF Requests, Request, To
<1>4. InStepWith(t)
  BY <1>3 DEF InStep, Listened
<1>5. sn[t] + 1 \in Nat /\ m.p.n <= sn[t] + 1 /\ sn[t] + 1 < m.p.n + Modulus
  BY <1>1, <1>3, <1>4 DEF InStepWith, IsYoung
<1>6. m.p.n = sn[t] + 1
  BY <1>1, <1>2, <1>3, <1>5, SameNumber
<1>7. n = sn[t] + 1 /\ m.p.data = tx.data /\ n > 0 /\ status # "ok"
  BY <1>1, <1>3, <1>4, <1>6 DEF InStepWith
<1> DEFINE a == read - Len(tx.data)
<1>8. /\ Len(tx.data) \in Nat /\ Len(tx.data) <= read
      /\ tx.data = SubSeq(File, read - Len(tx.data) + 1, read)
  BY <1>1, <1>3, <1>7, Numbers DEF Sent, EndingAt
<1>9. a \in 0..FileLen /\ read \in a..FileLen
  BY <1>1, <1>8
<1>10. tx.data = SubSeq(File, a + 1, read)
  BY <1>8
<1>11. scopy[t] = SubSeq(File, 1, a)
  BY <1>1, <1>3, <1>4, <1>7 DEF InStepWith
<1>12. scopy'[t] = SubSeq(File, 1, read)
  <2> HIDE DEF a
  <2>1. QED BY <1>2, <1>7, <1>9, <1>10, <1>11, Grows
<1>13. QED BY <1>3, <1>7, <1>9, <1>11, <1>12

\* A server stores a block.
LEMMA StoresStep ==
  ASSUME IInv, TypeOK', NEW t \in Tids, NEW m \in toServer, ServerStores(t, m)
  PROVE  IInv'
<1> USE DEF IInv
<1>1. /\ n \in Nat /\ Modulus \in Nat /\ Modulus > 2 /\ NoTid \notin Tids
      /\ \A u \in Tids : sn[u] \in Nat
  BY Numbers
<1>2. /\ UNCHANGED <<sizeVars, tid, clientVars, status, toServer>>
      /\ UNCHANGED <<size, sdata, sdone>>
      /\ toClient' = toClient \cup {By(t, ACK(sn[t] + 1))}
  BY DEF ServerStores, Answers
<1>3. /\ \A u \in Tids \ {t} : st'[u] = st[u] /\ sn'[u] = sn[u] /\ scopy'[u] = scopy[u]
      /\ st'[t] # "idle" /\ sn'[t] = sn[t] + 1
  BY DEF ServerStores, TypeOK
<1>4. /\ tid = t /\ op = "put" /\ n = sn[t] + 1 /\ n > 0 /\ status # "ok"
      /\ scopy'[t] = SubSeq(File, 1, read)
  BY StoredIs
<1>5. UNCHANGED <<op, blksize, n, tx, oack_ok, read, copy, tid, status>>
  BY <1>2 DEF sizeVars, clientVars
<1>6. Requests' /\ Sent' /\ NotTooOften'
  BY <1>2, ServerKeeps
<1>7. ASSUME NEW q \in toClient' PROVE Answer(q)'
  <2>1. CASE q \in toClient
    <3>1. q.tid \in Tids /\ Answer(q) /\ q.p.n \in Nat
      BY <2>1, Numbers DEF AllAnswers
    <3>2. q.p.type # "DATA" /\ (q.p.type = "ACK" => q.p.n <= sn'[q.tid])
      BY <1>1, <1>3, <1>4, <3>1 DEF Answer
    <3>3. st'[q.tid] # "idle"
      BY <1>3, <3>1 DEF Answer
    <3>4. QED BY <1>2, <1>5, <3>1, <3>2, <3>3 DEF Answer, Listened, IsYoung
  <2>2. CASE q = By(t, ACK(sn[t] + 1))
    <3>1. q.tid = t /\ q.p.type = "ACK" /\ q.p.n = n
      BY <1>4, <2>2 DEF By, ACK, Packet
    <3>2. IsYoung(q) /\ q.p.n <= sn'[t]
      BY <1>1, <1>3, <1>4, <3>1 DEF IsYoung
    <3>3. QED BY <1>3, <1>4, <1>5, <3>1, <3>2 DEF Answer, Listened, IsYoung
  <2>3. QED BY <1>2, <2>1, <2>2
<1>8. Unsettled' /\ Settled'
  BY <1>1, <1>2, <1>3, <1>4, <1>5 DEF Unsettled, Settled
<1>9. Places'
  BY <1>2, <1>3, <1>4, <1>5 DEF Places, Place, EndingAt
<1>10. InStep'
  <2>1. \A u \in Tids : Listened(u)' => u = t
    BY <1>1, <1>4, <1>5 DEF Listened
  <2>2. InStepWith(t)'
    <3>1. n' = sn'[t] /\ n' \in Nat /\ op' = "put" /\ status' # "ok"
      BY <1>1, <1>3, <1>4, <1>5
    <3>2. scopy'[t] = SubSeq(File, 1, read')
      BY <1>4, <1>5
    <3>3. ~(n' > sn'[t]) /\ sn'[t] <= n' /\ n' <= sn'[t] + 1
      BY <3>1
    <3>4. QED BY <3>1, <3>2, <3>3 DEF InStepWith
  <2>3. QED BY <2>1, <2>2 DEF InStep
<1>11. QED BY <1>6, <1>7, <1>8, <1>9, <1>10 DEF AllAnswers

-----------------------------------------------------------------------------
(* The invariant, and what follows from it                                  *)

\* It holds where tftp begins, ...
LEMMA InitInv == Init => IInv
<1> SUFFICES ASSUME Init PROVE IInv
  OBVIOUS
<1>1. TypeOK
  BY InitType
<1>2. /\ FileLen \in Nat /\ Modulus \in Nat /\ Modulus > 2 /\ NoTid \notin Tids
      /\ tid = NoTid /\ op \in {"get", "put"} /\ n = IF op = "get" THEN 1 ELSE 0
  BY NumbersAssumption, TidsAssumption DEF Init
<1>3. tx.type = IF op = "get" THEN "RRQ" ELSE "WRQ"
  BY <1>2 DEF Init, RRQ, WRQ, Packet
<1>4. Requests /\ AllAnswers
  BY <1>2, <1>3 DEF Init, Requests, Request, AllAnswers, By
<1>5. Sent /\ NotTooOften
  BY <1>2, <1>3 DEF Init, Sent, NotTooOften
<1>6. Unsettled /\ Settled
  BY <1>2 DEF Init, Unsettled, Settled
<1>7. SubSeq(File, 1, 0) = <<>> /\ Len(<<>>) = 0
  BY FileIs, SubSeqEmpty
<1>8. Places
  BY <1>2, <1>7, FileIs, SubSeqEmpty DEF Init, Places, Place, EndingAt
<1>9. InStep
  BY <1>2, <1>3, <1>7 DEF Init, InStep, InStepWith
<1>10. QED BY <1>1, <1>4, <1>5, <1>6, <1>8, <1>9 DEF IInv

\* ... every step keeps it ...
LEMMA InvStep == IInv /\ [Next]_vars => IInv'
<1> SUFFICES ASSUME IInv, [Next]_vars PROVE IInv'
  OBVIOUS
<1>1. TypeOK'
  BY TypeStep DEF IInv
<1>2. CASE UNCHANGED vars
  BY <1>2 DEF vars, sizeVars, clientVars, serverVars, netVars, IInv, TypeOK, Requests,
     Request, AllAnswers, Answer, IsYoung, Listened, Sent, EndingAt, Unsettled, Settled,
     Places, Place, InStep, InStepWith, AllSent, NotTooOften
<1>3. CASE Client
  <2>1. ASSUME NEW m \in toClient, RecvOther(m) PROVE IInv'
    BY <1>2, <2>1, OtherStep
  <2>2. QED
    BY <1>1, <1>3, <2>1, FailsStep, ResendStep, LastAckStep, OackGetStep, NextBlockStep,
       DataStep, LastDataStep DEF Client
<1>4. ASSUME NEW t \in Tids, Server(t) PROVE IInv'
  <2>1. op = "get" \/ op = "put"
    BY DEF IInv, TypeOK
  <2>2. QED
    BY <1>1, <1>4, <2>1, ServerErrorStep, SendsStep, StartStep, StoresStep DEF Server
<1>5. QED BY <1>2, <1>3, <1>4 DEF Next

\* ... and so it holds.
LEMMA Invariant == Spec => []IInv
  BY InitInv, InvStep, PTL DEF Spec

\* Client and server are never more than one block apart.
THEOREM LockStepCorrect == Spec => []LockStep
<1>1. IInv => LockStep
  BY DEF IInv, TypeOK, Ports, InStep, InStepWith, Listened, LockStep
<1>2. QED BY <1>1, Invariant, PTL

\* Sending a file, no packet is sent more often than there are retries.
THEOREM NoApprenticeCorrect == Spec => []NoApprentice
<1>1. IInv => NoApprentice
  BY NumbersAssumption DEF IInv, TypeOK, NotTooOften, NoApprentice
<1>2. QED BY <1>1, Invariant, PTL

-----------------------------------------------------------------------------
(* The transfer                                                             *)

\* A part is added, or success reported of the whole.
LEMMA Adds ==
  ASSUME NEW a \in 0..FileLen, NEW b \in a..FileLen,
         Copy = SubSeq(File, 1, a), Copy' = SubSeq(File, 1, b),
         status # "ok", status' = "ok" => b = FileLen
  PROVE  T!Next
<1>1. FileLen \in Nat /\ Len(File) = FileLen
  BY NumbersAssumption, FileIs
<1>2. Len(Copy) = a
  <2>1. Len(SubSeq(File, 0 + 1, a)) = a - 0
    BY <1>1, PartIs
  <2>2. QED BY <1>1, <2>1
<1>3. b \in Len(Copy)..Len(File)
  BY <1>1, <1>2
<1>4. (status' = "ok") \in {FALSE, b = Len(File)}
  <2>1. CASE status' = "ok"
    <3>1. (status' = "ok") = TRUE /\ (b = Len(File)) = TRUE
      BY <1>1, <2>1
    <3>2. QED BY <3>1, Zenon
  <2>2. CASE status' # "ok"
    <3>1. (status' = "ok") = FALSE
      BY <2>2
    <3>2. QED BY <3>1, Zenon
  <2>3. QED BY <2>1, <2>2
<1>5. T!Add
  BY <1>3, <1>4, Zenon DEF T!Add
<1>6. QED BY <1>5 DEF T!Next

\* Whoever is heard first has stored nothing yet.
LEMMA CopyAsHeard ==
  ASSUME IInv, NEW m \in toClient, tftp_recv(m), op = "put", UNCHANGED <<op, serverVars>>
  PROVE  Copy' = Copy
<1>1. m.tid \in Tids /\ tid' = m.tid /\ InStepWith(m.tid) /\ (tid # NoTid => tid' = tid)
  BY Received
<1>2. n \in Nat /\ sn[m.tid] \in Nat /\ NoTid \notin Tids
  BY <1>1, Numbers DEF IInv
<1>3. scopy' = scopy /\ op' = "put"
  BY DEF serverVars
<1>4. CASE tid = NoTid
  <2>1. n = 0 /\ read = 0
    BY <1>4 DEF IInv, Unsettled, Sent
  <2>2. scopy[m.tid] = SubSeq(File, 1, 0)
    BY <1>1, <1>2, <2>1 DEF InStepWith
  <2>3. SubSeq(File, 1, 0) = <<>>
    BY FileIs, SubSeqEmpty
  <2>4. QED BY <1>1, <1>2, <1>3, <1>4, <2>2, <2>3 DEF Copy
<1>5. CASE tid # NoTid
  BY <1>1, <1>3, <1>5 DEF Copy
<1>6. QED BY <1>4, <1>5

\* What is written of a block that is received, all of it or a part.
LEMMA WrittenAdds ==
  ASSUME IInv, NEW m \in toClient, tftp_recv(m), Awaited(m), op = "get", op' = "get",
         NEW k \in 0..Len(m.p.data), copy' = copy \o SubSeq(m.p.data, 1, k),
         status' = "ok" => k = Len(m.p.data) /\ sdone[m.tid] = FileLen
  PROVE  T!Next
<1> DEFINE a == sdone[m.tid] - Len(m.p.data)
<1>1. /\ m.p.data = EndingAt(sdone[m.tid], m.p.data)
      /\ Len(m.p.data) \in 0..sdone[m.tid] /\ sdone[m.tid] \in 0..FileLen
      /\ copy = SubSeq(File, 1, a)
  BY WrittenIs
<1>2. FileLen \in Nat
  BY NumbersAssumption
<1>3. a \in 0..FileLen /\ sdone[m.tid] \in a..FileLen /\ k \in 0..sdone[m.tid] - a
  BY <1>1, <1>2
<1>4. m.p.data = SubSeq(File, a + 1, sdone[m.tid])
  BY <1>1 DEF EndingAt
<1>5. status # "ok"
  BY DEF tftp_recv
<1>6. status' = "ok" => a + k = FileLen
  BY <1>1, <1>2
<1> HIDE DEF a
<1>7. SubSeq(m.p.data, 1, k) = SubSeq(File, a + 1, a + k)
  BY <1>3, <1>4, PartOfPart
<1>8. a + k \in a..FileLen
  BY <1>1, <1>2, <1>3
<1>9. copy' = SubSeq(File, 1, a + k)
  BY <1>1, <1>3, <1>7, <1>8, Grows
<1>10. Copy = SubSeq(File, 1, a) /\ Copy' = SubSeq(File, 1, a + k)
  BY <1>1, <1>9 DEF Copy
<1>11. QED BY <1>3, <1>5, <1>6, <1>8, <1>10, Adds

\* Steps of the client.
LEMMA ClientTransfers ==
  ASSUME IInv, Client
  PROVE  T!Next \/ UNCHANGED <<Copy, status = "ok">>
<1> DEFINE Goal == T!Next \/ UNCHANGED <<Copy, status = "ok">>
<1> USE DEF IInv
<1>1. op \in {"get", "put"} /\ FileLen \in Nat
  BY NumbersAssumption DEF TypeOK
<1>2. UNCHANGED <<op, serverVars>>
  BY DEF Client, Timeout, GivesUp, Fails, RecvError, RecvBadOack, RecvOackGet, RecvOackPut,
     RecvAck, RecvLastAck, RecvTooBig, WriteFails, RecvData, RecvLastData, RecvDup,
     RecvOther, sizeVars
<1>3. ASSUME UNCHANGED copy, (status' = "ok") = (status = "ok"),
             tid' = tid \/ \E m \in toClient : tftp_recv(m)
      PROVE  Goal
  <2>1. CASE op = "get"
    BY <1>2, <1>3, <2>1 DEF Copy
  <2>2. CASE op = "put" /\ tid' = tid
    BY <1>2, <1>3, <2>2 DEF Copy, serverVars
  <2>3. CASE op = "put" /\ \E m \in toClient : tftp_recv(m)
    BY <1>2, <1>3, <2>3, CopyAsHeard
  <2>4. QED BY <1>1, <1>3, <2>1, <2>2, <2>3
<1>4. ASSUME NEW m \in toClient, RecvLastAck(m) PROVE Goal
  <2>1. /\ tftp_recv(m) /\ Awaited(m) /\ op = "put" /\ last
        /\ status = "running" /\ status' = "ok"
    BY <1>4 DEF RecvLastAck, tftp_recv
  <2>2. read = FileLen /\ tid # NoTid
    BY <2>1 DEF Sent
  <2>3. m.tid \in Tids /\ tid = m.tid /\ InStepWith(m.tid) /\ sn[m.tid] = n /\ n \in Nat
    BY <2>1, <2>2, Received, AwaitedIs, Numbers
  <2>4. Copy = SubSeq(File, 1, FileLen)
    BY <2>1, <2>2, <2>3 DEF Copy, InStepWith
  <2>5. Copy' = Copy
    BY <1>2, <2>1, CopyAsHeard
  <2>6. FileLen \in 0..FileLen /\ FileLen \in FileLen..FileLen
    BY <1>1
  <2>7. QED BY <2>1, <2>4, <2>5, <2>6, Adds
<1>5. ASSUME NEW m \in toClient, WriteFails(m) PROVE Goal
  <2>1. PICK k \in 0..Len(m.p.data) : copy' = copy \o SubSeq(m.p.data, 1, k)
    BY <1>5 DEF WriteFails
  <2>2. /\ tftp_recv(m) /\ Awaited(m) /\ op = "get" /\ op' = "get" /\ status' # "ok"
    BY <1>2, <1>5 DEF WriteFails
  <2>3. QED BY <2>1, <2>2, WrittenAdds
<1>6. ASSUME NEW m \in toClient, RecvData(m) \/ RecvLastData(m) PROVE Goal
  <2>1. /\ tftp_recv(m) /\ Awaited(m) /\ op = "get" /\ op' = "get" /\ status = "running"
        /\ copy' = copy \o m.p.data
        /\ status' = "ok" => IsLast(m.p.data)
    BY <1>2, <1>6 DEF RecvData, RecvLastData, Written, tftp_recv
  <2>2. /\ m.tid \in Tids /\ Len(m.p.data) \in Nat /\ blksize <= size[m.tid]
        /\ m.p.data = sdata[m.tid] /\ sn[m.tid] > 0 /\ Place(m.tid)
        /\ size[m.tid] \in Nat /\ blksize \in Nat
    BY <2>1, Received, WrittenIs, Numbers DEF Places
  <2>3. status' = "ok" => sdone[m.tid] = FileLen
    BY <2>1, <2>2 DEF IsLast, Place
  <2>4. SubSeq(m.p.data, 1, Len(m.p.data)) = m.p.data
    BY <2>2, Numbers, SubSeqFull DEF Bytes
  <2>5. Len(m.p.data) \in 0..Len(m.p.data)
    BY <2>2
  <2>6. QED BY <2>1, <2>3, <2>4, <2>5, WrittenAdds
<1>7. ASSUME Timeout \/ GivesUp PROVE Goal
  BY <1>3, <1>7 DEF Timeout, GivesUp, Fails, clientVars
<1>8. ASSUME NEW m \in toClient,
             \/ RecvError(m) \/ RecvBadOack(m) \/ RecvOackGet(m) \/ RecvOackPut(m)
             \/ RecvAck(m) \/ RecvTooBig(m) \/ RecvDup(m) \/ RecvOther(m)
      PROVE  Goal
  BY <1>3, <1>8 DEF RecvError, RecvBadOack, RecvOackGet, RecvOackPut, RecvAck, RecvTooBig,
     RecvDup, RecvOther, Fails, clientVars, tftp_recv
<1> HIDE DEF Goal
<1>9. Goal
  BY <1>4, <1>5, <1>6, <1>7, <1>8 DEF Client
<1>10. QED BY <1>9 DEF Goal

\* Steps of servers: only what is stored counts.
LEMMA ServerTransfers ==
  ASSUME IInv, NEW t \in Tids, Server(t)
  PROVE  T!Next \/ UNCHANGED <<Copy, status = "ok">>
<1>1. CASE UNCHANGED scopy
  BY <1>1 DEF Server, ServerError, StartPlain, StartOack, ServerAcked, ServerStores, Copy,
     sizeVars, clientVars
<1>2. ASSUME NEW m \in toServer, ServerStores(t, m) PROVE T!Next
  <2>1. /\ tid = t /\ op = "put" /\ status # "ok" /\ NoTid \notin Tids
        /\ read - Len(tx.data) \in 0..FileLen /\ read \in read - Len(tx.data)..FileLen
        /\ scopy[t] = SubSeq(File, 1, read - Len(tx.data))
        /\ scopy'[t] = SubSeq(File, 1, read)
    BY <1>2, StoredIs, TidsAssumption
  <2>2. op' = op /\ tid' = tid /\ status' = status
    BY <1>2 DEF ServerStores, sizeVars
  <2>3. Copy = SubSeq(File, 1, read - Len(tx.data)) /\ Copy' = SubSeq(File, 1, read)
    BY <2>1, <2>2 DEF Copy
  <2>4. QED BY <2>1, <2>2, <2>3, Adds
<1>3. QED
  BY <1>1, <1>2 DEF Server, ServerError, StartPlain, StartOack, ServerAcked

\* Where it begins.
LEMMA InitTransfers == Init => T!Init
  BY DEF Init, T!Init, Copy

\* The whole is a transfer: every step adds a part to the copy, reports success of
\* the whole, or does neither.
THEOREM IsTransferCorrect == Spec => IsTransfer
<1>1. IInv /\ [Next]_vars => [T!Next]_<<Copy, status = "ok">>
  <2>1. UNCHANGED vars => UNCHANGED <<Copy, status = "ok">>
    BY DEF vars, sizeVars, serverVars, clientVars, Copy
  <2>2. QED BY <2>1, ClientTransfers, ServerTransfers DEF Next
<1>2. QED BY <1>1, InitTransfers, Invariant, PTL DEF Spec, IsTransfer, T!Spec

=============================================================================
