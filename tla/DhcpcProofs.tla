----------------------------- MODULE DhcpcProofs -----------------------------
(* Theorems about Dhcpc, with their proofs: types, whose address is in use,  *)
(* and why dhcpc gives up.                                                   *)
(*                                                                           *)
(* Two inductive invariants: SafeInv follows an offer from the server to the *)
(* interface, whatever is under way besides; OnlyThisTry counts the packets  *)
(* of one try, when the one server answers each of them once and in time.    *)
EXTENDS DhcpcProps, SequenceTheorems, FiniteSetTheorems, TLAPS

-----------------------------------------------------------------------------
(* What is in the socket                                                    *)

InRx == {rx[i] : i \in DOMAIN rx}

\* What comes in is one more, ...
LEMMA AppendIs ==
  ASSUME NEW S, NEW s \in Seq(S), NEW e \in S
  PROVE  /\ Append(s, e) \in Seq(S)
         /\ {Append(s, e)[i] : i \in DOMAIN Append(s, e)} = {s[i] : i \in DOMAIN s} \cup {e}
<1> DEFINE t == Append(s, e)
<1>1. /\ t \in Seq(S) /\ Len(t) = Len(s) + 1 /\ t[Len(s) + 1] = e
      /\ \A i \in 1..Len(s) : t[i] = s[i]
  BY AppendProperties
<1>2. DOMAIN t = 1..Len(s) + 1 /\ DOMAIN s = 1..Len(s) /\ Len(s) \in Nat
  BY <1>1, LenProperties
<1> HIDE DEF t
<1>3. {t[i] : i \in DOMAIN t} = {s[i] : i \in DOMAIN s} \cup {e}
  BY <1>1, <1>2
<1>4. QED BY <1>1, <1>3 DEF t

\* ... and what is taken is the first of them.
LEMMA TakenIs ==
  ASSUME NEW S, NEW s \in Seq(S), s # <<>>
  PROVE  /\ Tail(s) \in Seq(S)
         /\ {Tail(s)[i] : i \in DOMAIN Tail(s)} \subseteq {s[i] : i \in DOMAIN s}
         /\ Head(s) \in {s[i] : i \in DOMAIN s}
<1>1. /\ Tail(s) \in Seq(S) /\ Len(Tail(s)) = Len(s) - 1
      /\ \A i \in 1..Len(Tail(s)) : Tail(s)[i] = s[i + 1]
  BY HeadTailProperties
<1>2. /\ Len(s) \in Nat \ {0} /\ DOMAIN s = 1..Len(s)
      /\ DOMAIN Tail(s) = 1..Len(s) - 1
  BY <1>1, EmptySeq, LenProperties
<1>3. Head(s) = s[1]
  OBVIOUS
<1>4. QED BY <1>1, <1>2, <1>3

\* A packet arrives, ...
LEMMA ArrivesIs ==
  ASSUME rx \in Seq(Replies), NEW p \in Replies, Arrives(p)
  PROVE  rx' \in Seq(Replies) /\ InRx' \subseteq InRx \cup {p}
<1>1. CASE rx' = rx
  BY <1>1 DEF InRx
<1>2. CASE rx' = Append(rx, p)
  BY <1>2, AppendIs DEF InRx
<1>3. QED BY <1>1, <1>2 DEF Arrives

\* ... and is read.
LEMMA ReceivedIs ==
  ASSUME rx \in Seq(Replies), NEW p \in InRx, Received(p)
  PROVE  rx' \in Seq(Replies) /\ InRx' \subseteq InRx /\ Listening
  BY TakenIs DEF Received, InRx

-----------------------------------------------------------------------------
(* The inductive invariants                                                 *)

\* What is read is compared with what was sent in between only.
InTry == pc \in {"discover", "offer", "request", "ack", "configure"}

\* An offer was made before it is under way, before it is asked for, and before its
\* address is in use.
Offered ==
  /\ rx \in Seq(Replies)
  /\ InTry => tries < Tries
  /\ pc = "giveup" => tries = Tries
  /\ \A p \in InRx \cap Offers : offered[p.server][p.xid] = p.terms
  /\ \A q \in flight : q.type = "REQUEST" => offered[q.server][q.xid] \in Terms
  /\ pc \in {"request", "ack", "configure"} =>
       config \in Offers /\ config.xid = run /\ offered[config.server][run] = config.terms
  /\ iface # Nothing => offered[iface.server][iface.xid] = iface.terms

\* Whose acknowledgement is under way has acknowledged, and somebody has what is in use.
Acked ==
  /\ \A p \in InRx :
       p.type = "ACK" /\ p.xid # 0 => <<p.server, p.xid>> \in acked
  /\ pc = "configure" => \E s \in Servers : <<s, run>> \in acked
  /\ iface # Nothing => \E s \in Servers : <<s, iface.xid>> \in acked

\* What a complete offer says.
LEMMA OfferIs ==
  ASSUME NEW p \in Offers
  PROVE  p.server \in Servers /\ p.xid \in Xids /\ p.terms \in Terms
  BY CountsAssumption DEF Offers, Replies, Complete, Xids

\* The first invariant.
SafeInv == TypeOK /\ Offered /\ Acked

\* It holds where dhcpc begins, ...
LEMMA InitSafe == Init => SafeInv
<1> SUFFICES ASSUME Init PROVE SafeInv
  OBVIOUS
<1>1. /\ Tries \in Nat \ {0} /\ MaxRuns \in Nat \ {0} /\ MaxLost \in Nat /\ MaxStray \in Nat
  BY CountsAssumption
<1>2. rx = <<>> /\ rx \in Seq(Replies) /\ InRx = {}
  BY EmptySeq DEF Init, InRx
<1>3. TypeOK
  BY <1>1, <1>2 DEF Init, TypeOK, Xids, InRx
<1>4. QED BY <1>2, <1>3 DEF Init, SafeInv, Offered, Acked, InTry

\* A try fails, and perhaps was the last.
LEMMA FailsTry ==
  ASSUME TypeOK, InTry, tries < Tries, TryFails
  PROVE  /\ tries' \in 0..Tries /\ tries' = tries + 1 /\ waited \in 0..tries'
         /\ pc' \in {"giveup", "discover"}
         /\ pc' = "giveup" => tries' = Tries
         /\ pc' = "discover" => tries' < Tries
  BY CountsAssumption DEF TypeOK, TryFails, NextTry

\* What the client does before an answer is acceptable, or gives up.
LEMMA TriesSafe ==
  ASSUME SafeInv,
         \/ send_discover \/ send_request \/ SendFails \/ WrongPacket \/ Timeout
         \/ GiveUp \/ StartFails \/ Start \/ RunAgain
  PROVE  SafeInv'
<1> USE DEF SafeInv
<1>1. /\ Tries \in Nat \ {0} /\ MaxRuns \in Nat \ {0} /\ MaxLost \in Nat /\ MaxStray \in Nat
      /\ RETRY_SECONDS \in Nat \ {0} /\ Nothing \notin Terms
  BY CountsAssumption
<1>2. CASE send_discover
  <2>1. flight' \subseteq Queries
    BY <1>1, <1>2 DEF send_discover, TypeOK, Offered, InTry, Query, Queries
  <2>2. \A q \in flight' : q.type = "REQUEST" => q \in flight
    BY <1>2 DEF send_discover, Query
  <2>3. QED BY <1>2, <2>1, <2>2 DEF send_discover, TypeOK, Offered, Acked, InTry, InRx,
               stateVars, serverVars, faultVars
<1>3. CASE send_request
  <2>1. /\ config \in Offers /\ config.server \in Servers /\ config.xid = run
        /\ config.terms \in Terms
    BY <1>3 DEF send_request, Offered, Offers, Replies, Complete
  <2>2. flight' = flight \cup {Query("REQUEST", config.server)}
    BY <1>3 DEF send_request, Requested
  <2>3. flight' \subseteq Queries
    BY <1>1, <1>3, <2>1, <2>2 DEF send_request, TypeOK, Offered, InTry, Query, Queries
  <2>4. \A q \in flight' : q.type = "REQUEST" => offered[q.server][q.xid] \in Terms
    BY <1>3, <2>1, <2>2 DEF send_request, Query, Offered
  <2>5. QED BY <1>3, <2>3, <2>4 DEF send_request, TypeOK, Offered, Acked, InTry, InRx,
               stateVars, serverVars, faultVars
<1>4. CASE SendFails
  <2>1. InTry /\ TryFails /\ lost' = lost + 1 /\ lost < MaxLost
    BY <1>4 DEF SendFails, InTry
  <2>2. /\ tries' \in 0..Tries /\ waited \in 0..tries' /\ pc' \in {"giveup", "discover"}
        /\ pc' = "giveup" => tries' = Tries
        /\ pc' = "discover" => tries' < Tries
    BY <2>1, FailsTry DEF Offered
  <2>3. lost' \in 0..MaxLost
    BY <1>1, <2>1 DEF TypeOK
  <2>4. QED BY <1>4, <2>2, <2>3 DEF SendFails, TypeOK, Offered, Acked, InTry, InRx,
               stateVars, serverVars
<1>5. CASE WrongPacket
  <2>1. PICK p \in InRx : Received(p)
    BY <1>5 DEF WrongPacket, InRx
  <2>2. rx' \in Seq(Replies) /\ InRx' \subseteq InRx /\ Listening
    BY <2>1, ReceivedIs DEF Offered
  <2>3. InTry /\ TryFails
    BY <1>5, <2>2 DEF WrongPacket, InTry, Listening
  <2>4. /\ tries' \in 0..Tries /\ waited \in 0..tries' /\ pc' \in {"giveup", "discover"}
        /\ pc' = "giveup" => tries' = Tries
        /\ pc' = "discover" => tries' < Tries
    BY <2>3, FailsTry DEF Offered
  <2>5. QED BY <1>5, <2>2, <2>4 DEF WrongPacket, TypeOK, Offered, Acked, InTry, InRx,
               stateVars, serverVars, faultVars
<1>6. CASE Timeout
  <2>1. InTry /\ TryFails /\ waited' = waited + 1
    BY <1>6 DEF Timeout, InTry, Listening
  <2>2. /\ tries' \in 0..Tries /\ tries' = tries + 1 /\ pc' \in {"giveup", "discover"}
        /\ pc' = "giveup" => tries' = Tries
        /\ pc' = "discover" => tries' < Tries
    BY <2>1, FailsTry DEF Offered
  <2>3. waited' \in 0..tries' /\ stray' \in 0..MaxStray
    BY <1>1, <1>6, <2>1, <2>2 DEF Timeout, TypeOK
  <2>4. QED BY <1>6, <2>2, <2>3 DEF Timeout, TypeOK, Offered, Acked, InTry, InRx,
               stateVars, serverVars
<1>7. CASE GiveUp
  BY <1>1, <1>7 DEF GiveUp, Asks, TypeOK, Offered, Acked, InTry, InRx, serverVars, faultVars
<1>8. CASE StartFails
  BY <1>1, <1>8 DEF StartFails, TypeOK, Offered, Acked, InTry, InRx, stateVars, serverVars,
     faultVars
<1>9. CASE Start
  <2>1. /\ pc = "start" /\ pc' = "discover" /\ tries' = 0 /\ config' = Nothing
        /\ waited' = 0 /\ UNCHANGED <<run, rx, stateVars, flight, serverVars, faultVars>>
    BY <1>9 DEF Start
  <2>2. TypeOK'
    BY <1>1, <2>1 DEF TypeOK, InRx, stateVars, serverVars, faultVars
  <2>3. Offered' /\ Acked'
    BY <1>1, <2>1 DEF Offered, Acked, InTry, InRx, stateVars, serverVars
  <2>4. QED BY <2>2, <2>3
<1>10. CASE RunAgain
  <2>1. rx' = <<>> /\ rx' \in Seq(Replies) /\ InRx' = {}
    BY <1>10, EmptySeq DEF RunAgain, InRx
  <2>2. run' \in Xids
    BY <1>1, <1>10 DEF RunAgain, TypeOK, Xids
  <2>3. QED BY <1>10, <2>1, <2>2 DEF RunAgain, TypeOK, Offered, Acked, InTry, InRx,
               stateVars, serverVars, faultVars
<1>11. QED BY <1>2, <1>3, <1>4, <1>5, <1>6, <1>7, <1>8, <1>9, <1>10

\* The client takes an offer, an acknowledgement, and the address.
LEMMA AnswersSafe ==
  ASSUME SafeInv, do_discover \/ do_request \/ Configure
  PROVE  SafeInv'
<1> USE DEF SafeInv
<1>1. run \in Xids /\ run # 0
  BY CountsAssumption DEF TypeOK, Xids
<1>2. CASE do_discover
  <2>1. PICK p \in InRx : /\ Received(p) /\ check_packet(p, "OFFER") /\ pc = "offer"
                          /\ pc' = "request" /\ config' = p /\ Complete(p)
    BY <1>2 DEF do_discover, InRx
  <2>2. rx' \in Seq(Replies) /\ InRx' \subseteq InRx
    BY <2>1, ReceivedIs DEF Offered
  <2>3. p \in Offers /\ p.xid = run /\ offered[p.server][run] = p.terms
    BY <1>1, <2>1 DEF check_packet, TypeOK, InRx, Offers, Offered
  <2>4. UNCHANGED <<run, tries, waited, stateVars, flight, serverVars, faultVars>>
    BY <1>2 DEF do_discover
  <2>5. QED BY <2>1, <2>2, <2>3, <2>4 DEF TypeOK, Offered, Acked, InTry, InRx, stateVars,
               serverVars, faultVars
<1>3. CASE do_request
  <2>1. PICK p \in InRx : /\ Received(p) /\ check_packet(p, "ACK") /\ pc = "ack"
                          /\ pc' = "configure"
    BY <1>3 DEF do_request, InRx
  <2>2. rx' \in Seq(Replies) /\ InRx' \subseteq InRx
    BY <2>1, ReceivedIs DEF Offered
  <2>3. p.server \in Servers /\ <<p.server, run>> \in acked
    BY <1>1, <2>1 DEF check_packet, TypeOK, InRx, Replies, Acked
  <2>4. UNCHANGED <<run, tries, config, waited, stateVars, flight, serverVars, faultVars>>
    BY <1>3 DEF do_request
  <2>5. QED BY <2>1, <2>2, <2>3, <2>4 DEF TypeOK, Offered, Acked, InTry, InRx, stateVars,
               serverVars, faultVars
<1>4. CASE Configure
  <2>1. config \in Offers /\ config.xid = run /\ config.terms.lease \in Nat
    BY <1>4, CountsAssumption DEF Configure, Offered, Offers, Replies, Complete
  <2>2. Renew \in Nat \ {0}
    BY <2>1, CountsAssumption DEF Renew
  <2>3. /\ iface' \in {iface, config} /\ lease_file' = config /\ dns_file' \in {dns_file, config}
        /\ asked' = Renew /\ pc = "configure" /\ pc' = "over"
        /\ UNCHANGED <<run, tries, config, waited, rx, flight, serverVars, faultVars>>
    BY <1>4 DEF Configure, write_state, Asks
  <2>4. {iface', lease_file', dns_file'} \subseteq Offers \cup {Nothing}
    BY <2>1, <2>3 DEF TypeOK
  <2>5. iface' # Nothing => /\ \E s \in Servers : <<s, iface'.xid>> \in acked'
                            /\ offered'[iface'.server][iface'.xid] = iface'.terms
    BY <2>1, <2>3 DEF Offered, Acked, serverVars
  <2>6. QED BY <2>2, <2>3, <2>4, <2>5 DEF TypeOK, Offered, Acked, InTry, InRx, serverVars,
               faultVars
<1>5. QED BY <1>2, <1>3, <1>4

\* Servers and network.
LEMMA NetworkSafe ==
  ASSUME SafeInv, Deliver \/ Overheard
  PROVE  SafeInv'
<1> USE DEF SafeInv
<1>1. /\ MaxRuns \in Nat \ {0} /\ MaxLost \in Nat /\ MaxStray \in Nat
      /\ rx \in Seq(Replies) /\ flight \subseteq Queries
  BY CountsAssumption DEF Offered, TypeOK
<1>2. ASSUME NEW q \in flight, Offer(q) PROVE SafeInv'
  <2>1. q.server \in Servers /\ q.xid \in Xids /\ q.xid # 0 /\ q.xid \in 0..MaxRuns
    BY <1>1 DEF Queries, Xids
  <2>2. PICK terms \in Terms :
          /\ offered[q.server][q.xid] \in {Nothing, terms}
          /\ offered' = [offered EXCEPT ![q.server][q.xid] = terms]
          /\ Arrives(Reply("OFFER", q.xid, q.server, terms))
    BY <1>2 DEF Offer
  <2>3. Reply("OFFER", q.xid, q.server, terms) \in Replies
    BY <2>1 DEF Reply, Replies
  <2>4. /\ rx' \in Seq(Replies)
        /\ InRx' \subseteq InRx \cup {Reply("OFFER", q.xid, q.server, terms)}
    BY <1>1, <2>2, <2>3, ArrivesIs
  <2>5. /\ offered' \in [Servers -> [Xids -> Terms \cup {Nothing}]]
        /\ offered'[q.server][q.xid] = terms
        /\ \A s \in Servers, x \in Xids :
             offered[s][x] \in Terms => offered'[s][x] = offered[s][x]
    <3>1. offered' \in [Servers -> [Xids -> Terms \cup {Nothing}]]
      BY <2>1, <2>2 DEF TypeOK
    <3>2. \A s \in Servers, x \in Xids :
            offered'[s][x] = IF s = q.server /\ x = q.xid THEN terms ELSE offered[s][x]
      BY <2>1, <2>2 DEF TypeOK
    <3>3. Nothing \notin Terms
      BY CountsAssumption
    <3>4. QED BY <2>1, <2>2, <3>1, <3>2, <3>3
  <2>6. flight' \subseteq flight /\ stray' \in 0..MaxStray /\ lost' = lost
    BY <1>1, <1>2 DEF Offer, Delivered, TypeOK, faultVars
  <2>7. \A p \in InRx' \cap Offers : offered'[p.server][p.xid] = p.terms
    <3>1. ASSUME NEW p \in InRx \cap Offers
          PROVE  offered'[p.server][p.xid] = p.terms
      BY <2>5, OfferIs DEF Offered
    <3>2. QED BY <2>4, <2>5, <3>1 DEF Reply
  <2>8. \A r \in flight' : r.type = "REQUEST" => offered'[r.server][r.xid] \in Terms
    BY <1>1, <2>5, <2>6 DEF Offered, Queries
  <2>9. /\ pc \in {"request", "ack", "configure"} =>
             offered'[config.server][run] = config.terms
        /\ iface # Nothing => offered'[iface.server][iface.xid] = iface.terms
    BY <2>5, OfferIs DEF Offered, TypeOK
  <2>10. \A p \in InRx' : p.type = "ACK" => p \in InRx
    BY <2>4 DEF Reply
  <2>11. /\ InRx' \subseteq Replies /\ flight' \subseteq Queries
    BY <1>1, <2>3, <2>4, <2>6 DEF TypeOK, InRx
  <2>12. UNCHANGED <<clientVars, stateVars, acked>>
    BY <1>2 DEF Offer
  <2>13. TypeOK'
    BY <2>5, <2>6, <2>11, <2>12 DEF TypeOK, InRx, clientVars, stateVars
  <2>14. QED BY <2>4, <2>7, <2>8, <2>9, <2>10, <2>12, <2>13 DEF Offered, Acked, InTry,
                clientVars, stateVars
<1>3. ASSUME NEW q \in flight, BareOffer(q) PROVE SafeInv'
  <2> DEFINE p0 == Reply("OFFER", q.xid, q.server, Nothing)
  <2>1. p0 \in Replies /\ p0 \notin Offers /\ p0.type = "OFFER"
    BY <1>1, <1>3 DEF Queries, Xids, Reply, Replies, Offers, Complete
  <2>2. rx' \in Seq(Replies) /\ InRx' \subseteq InRx \cup {p0}
    BY <1>1, <1>3, <2>1, ArrivesIs DEF BareOffer
  <2> HIDE DEF p0
  <2>3. /\ flight' \subseteq flight /\ lost' \in 0..MaxLost /\ InRx' \subseteq Replies
        /\ UNCHANGED <<clientVars, stateVars, serverVars, stray>>
    BY <1>1, <1>3, <2>1, <2>2 DEF BareOffer, TypeOK, InRx
  <2>4. TypeOK'
    BY <2>3 DEF TypeOK, InRx, clientVars, stateVars, serverVars
  <2>5. QED BY <2>1, <2>2, <2>3, <2>4 DEF Offered, Acked, InTry, clientVars, stateVars,
               serverVars
<1>4. ASSUME NEW q \in flight, Ack(q) \/ Nak(q) PROVE SafeInv'
  <2>1. /\ q.server \in Servers /\ q.xid \in Xids /\ q.xid # 0 /\ q.xid \in 0..MaxRuns
        /\ offered[q.server][q.xid] \in Terms
    BY <1>1, <1>4 DEF Queries, Xids, Offered, Ack, Nak
  <2>2. PICK type \in {"ACK", "NAK"} :
          /\ Arrives(Reply(type, q.xid, q.server, offered[q.server][q.xid]))
          /\ type = "ACK" => <<q.server, q.xid>> \in acked'
          /\ acked \subseteq acked' /\ acked' \subseteq Servers \X Xids
    BY <1>4, <2>1 DEF Ack, Nak, TypeOK, serverVars
  <2> DEFINE p0 == Reply(type, q.xid, q.server, offered[q.server][q.xid])
  <2>3. p0 \in Replies
    BY <2>1 DEF Reply, Replies
  <2>4. rx' \in Seq(Replies) /\ InRx' \subseteq InRx \cup {p0}
    BY <1>1, <2>2, <2>3, ArrivesIs
  <2>5. p0.type = type /\ p0.xid = q.xid /\ p0.server = q.server
    BY DEF Reply
  <2> HIDE DEF p0
  <2>6. flight' \subseteq flight /\ stray' \in 0..MaxStray /\ lost' \in 0..MaxLost
    BY <1>1, <1>4 DEF Ack, Nak, Delivered, TypeOK, faultVars
  <2>7. UNCHANGED <<clientVars, stateVars, offered>>
    BY <1>4 DEF Ack, Nak, serverVars
  <2>8. InRx' \subseteq Replies
    BY <2>3, <2>4 DEF TypeOK, InRx
  <2>9. TypeOK'
    BY <1>1, <2>2, <2>6, <2>7, <2>8 DEF TypeOK, InRx, clientVars, stateVars
  <2>10. Offered'
    BY <2>2, <2>4, <2>5, <2>6, <2>7 DEF Offered, Offers, InTry, clientVars, stateVars
  <2>11. Acked'
    BY <2>2, <2>4, <2>5, <2>7 DEF Acked, clientVars, stateVars
  <2>12. QED BY <2>9, <2>10, <2>11
<1>5. ASSUME NEW q \in flight, Lose(q) PROVE SafeInv'
  <2>1. lost' \in 0..MaxLost /\ flight' \subseteq flight
    BY <1>1, <1>5 DEF Lose, TypeOK
  <2>2. UNCHANGED <<clientVars, rx, stateVars, serverVars, stray>>
    BY <1>5 DEF Lose
  <2>3. TypeOK'
    BY <2>1, <2>2 DEF TypeOK, InRx, clientVars, stateVars, serverVars
  <2>4. QED BY <2>1, <2>2, <2>3 DEF Offered, Acked, InTry, InRx, clientVars, stateVars,
               serverVars
<1>6. CASE Overheard
  <2>1. PICK p \in Others : Arrives(p)
    BY <1>6 DEF Overheard
  <2>2. p \in Replies /\ p.xid = 0
    BY <1>1, <2>1 DEF Others, Reply, Replies
  <2>3. rx' \in Seq(Replies) /\ InRx' \subseteq InRx \cup {p}
    BY <1>1, <2>1, <2>2, ArrivesIs
  <2>4. InRx' \subseteq Replies
    BY <2>2, <2>3 DEF TypeOK, InRx
  <2>5. stray' \in 0..MaxStray
    BY <1>1, <1>6 DEF Overheard, TypeOK
  <2>6. UNCHANGED <<clientVars, stateVars, flight, serverVars, lost>>
    BY <1>6 DEF Overheard
  <2>7. TypeOK'
    BY <2>4, <2>5, <2>6 DEF TypeOK, InRx, clientVars, stateVars, serverVars
  <2>8. InRx' \cap Offers \subseteq InRx
    BY <2>2, <2>3 DEF Offers
  <2>9. QED BY <2>2, <2>3, <2>6, <2>7, <2>8
            DEF Offered, Acked, InTry, clientVars, stateVars, serverVars
<1>7. QED BY <1>2, <1>3, <1>4, <1>5, <1>6 DEF Deliver

\* ... every step keeps it ...
LEMMA SafeStep == SafeInv /\ [Next]_vars => SafeInv'
<1>1. ASSUME SafeInv, UNCHANGED vars PROVE SafeInv'
  BY <1>1 DEF SafeInv, TypeOK, Offered, Acked, InTry, InRx, vars, clientVars, stateVars,
     serverVars, faultVars
<1>2. QED BY <1>1, TriesSafe, AnswersSafe, NetworkSafe DEF Next, Client

\* ... and so it holds.
LEMMA Safe == Spec => []SafeInv
  BY InitSafe, SafeStep, PTL DEF Spec

\* Every variable stays within its type.
THEOREM TypeCorrect == Spec => []TypeOK
  BY Safe, PTL DEF SafeInv

\* However many servers there are, whatever they offer and the network does: the address
\* in use is what its server offered to a run of dhcpc, and a request of that run was
\* acknowledged, if not by the same server.
THEOREM OfferedAndAcked ==
  Spec => [](iface # Nothing => /\ offered[iface.server][iface.xid] = iface.terms
                                /\ \E s \in Servers : <<s, iface.xid>> \in acked)
  BY Safe, PTL DEF SafeInv, Offered, Acked

\* There is one of what there is one of.
LEMMA OnlyOne ==
  ASSUME Cardinality(Servers) = 1
  PROVE  \E s : Servers = {s}
  BY CountsAssumption, FS_Singleton

\* With one server, it is the one that acknowledged the address in use.
THEOREM AckedAddressCorrect == Spec => []AckedAddress
<1>1. SafeInv => AckedAddress
  <2> SUFFICES ASSUME SafeInv, Cardinality(Servers) = 1, iface # Nothing
               PROVE  <<iface.server, iface.xid>> \in acked
    BY DEF AckedAddress
  <2>1. iface.server \in Servers
    BY DEF SafeInv, TypeOK, Offers, Replies
  <2>2. PICK s \in Servers : <<s, iface.xid>> \in acked
    BY DEF SafeInv, Acked
  <2>3. s = iface.server
    BY <2>1, OnlyOne
  <2>4. QED BY <2>2, <2>3
<1>2. QED BY <1>1, Safe, PTL

-----------------------------------------------------------------------------
(* Out of step for no other reason than a loss                              *)

Quiet == flight = {} /\ rx = <<>>

\* The one packet a try is about is under way to the server or back, has been read, or
\* is lost.
Pending(query, wanted) ==
  \/ Quiet /\ lost > tries
  \/ rx = <<>> /\ \E s \in Servers : flight = {Query(query, s)}
  \/ /\ flight = {}
     /\ \E p \in Replies : /\ rx = <<p>> /\ p.xid = run
                           /\ \/ lost > tries
                              \/ p.type = wanted /\ (wanted = "OFFER" => Complete(p))

\* Nothing else is under way, and every try that failed has lost a packet.
OnlyThis ==
  /\ lost >= tries
  /\ pc = "offer" => Pending("DISCOVER", "OFFER")
  /\ pc = "ack" => Pending("REQUEST", "ACK")
  /\ ~Listening => Quiet

\* With one server that answers in time.
OnlyThisTry == Cardinality(Servers) = 1 /\ stray = 0 => OnlyThis

\* One packet is the first of one, and nothing follows it.
LEMMA OneIs ==
  ASSUME NEW S, NEW p \in S
  PROVE  /\ <<p>> # <<>> /\ Head(<<p>>) = p /\ Tail(<<p>>) = <<>>
         /\ Append(<<>>, p) = <<p>>
  OBVIOUS

\* The step of a client.
LEMMA ClientInTry ==
  ASSUME SafeInv, OnlyThis, Cardinality(Servers) = 1, stray' = stray,
         Client \/ StartFails \/ Start \/ RunAgain
  PROVE  OnlyThis'
<1> USE DEF SafeInv
<1>1. lost \in Nat /\ tries \in Nat /\ Tries \in Nat \ {0}
  BY CountsAssumption DEF TypeOK
<1>2. CASE send_discover
  <2>1. PICK s : Servers = {s}
    BY OnlyOne
  <2>2. flight = {} /\ rx = <<>> /\ rx' = rx /\ pc' = "offer"
    BY <1>2 DEF send_discover, OnlyThis, Listening, Quiet
  <2>3. flight' = {Query("DISCOVER", s)}
    BY <1>2, <2>1, <2>2 DEF send_discover
  <2>4. UNCHANGED <<run, tries, lost>>
    BY <1>2 DEF send_discover, faultVars
  <2>5. Pending("DISCOVER", "OFFER")'
    BY <2>1, <2>2, <2>3, <2>4 DEF Pending, Query
  <2>6. QED BY <2>2, <2>4, <2>5 DEF OnlyThis, Listening
<1>3. CASE send_request
  <2>1. config.server \in Servers
    BY <1>3 DEF send_request, Offered, Offers, Replies
  <2>2. flight = {} /\ rx = <<>> /\ rx' = rx /\ pc' = "ack"
    BY <1>3 DEF send_request, OnlyThis, Listening, Quiet
  <2>3. flight' = {Query("REQUEST", config.server)}
    BY <1>3, <2>2 DEF send_request, Requested
  <2>4. UNCHANGED <<run, tries, lost>>
    BY <1>3 DEF send_request, faultVars
  <2>5. Pending("REQUEST", "ACK")'
    BY <2>1, <2>2, <2>3, <2>4 DEF Pending, Query
  <2>6. QED BY <2>2, <2>4, <2>5 DEF OnlyThis, Listening
<1>4. CASE SendFails
  <2>1. Quiet /\ lost >= tries /\ lost' = lost + 1 /\ tries' = tries + 1
    BY <1>4 DEF SendFails, TryFails, OnlyThis, Listening
  <2>2. pc' \in {"giveup", "discover"} /\ Quiet'
    BY <1>4, <2>1 DEF SendFails, TryFails, NextTry, Quiet
  <2>3. QED BY <1>1, <2>1, <2>2 DEF OnlyThis, Listening
<1>5. ASSUME NEW type \in {"OFFER", "ACK"}, NEW query,
             Listening, Pending(query, type), rx # <<>>
      PROVE  /\ flight = {} /\ Tail(rx) = <<>> /\ Head(rx).xid = run
             /\ \/ lost > tries
                \/ Head(rx).type = type /\ (type = "OFFER" => Complete(Head(rx)))
  BY <1>5, OneIs DEF Pending, Quiet
<1>6. ASSUME rx # <<>>, Listening
      PROVE  /\ flight = {} /\ Tail(rx) = <<>>
             /\ Wanted(Head(rx)) \/ lost > tries
  <2>1. CASE pc = "offer"
    BY <1>5, <1>6, <2>1 DEF OnlyThis, Wanted, check_packet
  <2>2. CASE pc = "ack"
    BY <1>5, <1>6, <2>2 DEF OnlyThis, Wanted, check_packet
  <2>3. QED BY <1>6, <2>1, <2>2 DEF Listening
<1>7. CASE do_discover \/ do_request
  <2>1. /\ rx # <<>> /\ Listening /\ rx' = Tail(rx) /\ pc' \in {"request", "configure"}
        /\ UNCHANGED <<tries, flight, lost>>
    BY <1>7 DEF do_discover, do_request, Received, faultVars
  <2>2. QED BY <1>6, <2>1 DEF OnlyThis, Listening, Quiet
<1>8. CASE WrongPacket
  <2>1. /\ rx # <<>> /\ Listening /\ rx' = Tail(rx) /\ ~Wanted(Head(rx))
        /\ TryFails /\ UNCHANGED <<flight, lost>>
    BY <1>8 DEF WrongPacket, Received, faultVars
  <2>2. lost > tries /\ flight = {} /\ Tail(rx) = <<>>
    BY <1>6, <2>1
  <2>3. tries' = tries + 1 /\ pc' \in {"giveup", "discover"}
    BY <2>1 DEF TryFails, NextTry
  <2>4. QED BY <1>1, <2>1, <2>2, <2>3 DEF OnlyThis, Listening, Quiet
<1>9. CASE Timeout
  <2>1. Listening /\ rx = <<>> /\ flight = {} /\ UNCHANGED <<rx, flight, lost>>
    BY <1>9 DEF Timeout, TypeOK
  <2>2. lost > tries
    BY <2>1 DEF OnlyThis, Listening, Pending
  <2>3. tries' = tries + 1 /\ pc' \in {"giveup", "discover"}
    BY <1>9 DEF Timeout, TryFails, NextTry
  <2>4. QED BY <1>1, <2>1, <2>2, <2>3 DEF OnlyThis, Listening, Quiet
<1>10. CASE GiveUp \/ Configure \/ StartFails
  BY <1>10 DEF GiveUp, Configure, StartFails, Asks, OnlyThis, Listening, Quiet, faultVars
<1>11. CASE Start \/ RunAgain
  BY <1>1, <1>11 DEF Start, RunAgain, OnlyThis, Listening, Quiet, faultVars
<1>12. QED
  BY <1>2, <1>3, <1>4, <1>7, <1>8, <1>9, <1>10, <1>11 DEF Client

\* The query is answered, once, or it or its answer is lost.
LEMMA NetworkInTry ==
  ASSUME SafeInv, OnlyThis, stray' = stray, Deliver \/ Overheard
  PROVE  OnlyThis'
<1> USE DEF SafeInv
<1>1. /\ lost \in Nat /\ tries \in Nat /\ stray \in Nat /\ flight \subseteq Queries
      /\ MaxRuns \in Nat \ {0}
  BY CountsAssumption DEF TypeOK
<1>2. ~Overheard
  BY <1>1 DEF Overheard
<1>3. PICK q \in flight : Offer(q) \/ BareOffer(q) \/ Ack(q) \/ Nak(q) \/ Lose(q)
  BY <1>2 DEF Deliver
<1>4. Listening /\ rx = <<>> /\ flight = {q} /\ q.xid = run
  BY <1>3 DEF OnlyThis, Listening, Pending, Quiet, Query
<1>5. /\ pc = "offer" => q.type = "DISCOVER"
      /\ pc = "ack" => q.type = "REQUEST"
  BY <1>4 DEF OnlyThis, Pending, Quiet, Query
<1>6. flight' = {} /\ UNCHANGED <<pc, run, tries>>
  BY <1>1, <1>3, <1>4 DEF Offer, BareOffer, Ack, Nak, Lose, Delivered, clientVars,
     faultVars
<1>7. CASE Lose(q)
  <2>1. lost' = lost + 1 /\ rx' = rx
    BY <1>7 DEF Lose
  <2>2. QED BY <1>1, <1>4, <1>6, <2>1 DEF OnlyThis, Listening, Pending, Quiet
<1>8. CASE Offer(q) \/ BareOffer(q) \/ Ack(q) \/ Nak(q)
  <2>1. /\ q.server \in Servers /\ q.xid \in 0..MaxRuns
        /\ q.type = "REQUEST" => offered[q.server][q.xid] \in Terms
    BY <1>1, <1>3 DEF Queries, Xids, Offered
  <2>2. PICK p \in Replies :
          /\ Arrives(p) /\ p.xid = run
          /\ \/ lost' = lost + 1
             \/ p.type = "OFFER" /\ Complete(p) /\ q.type = "DISCOVER" /\ lost' = lost
             \/ p.type = "ACK" /\ q.type = "REQUEST" /\ lost' = lost
    <3>1. CASE Offer(q)
      <4>1. PICK terms \in Terms : Arrives(Reply("OFFER", q.xid, q.server, terms))
        BY <3>1 DEF Offer
      <4>2. Reply("OFFER", q.xid, q.server, terms) \in Replies
        BY <2>1 DEF Reply, Replies
      <4>3. q.type = "DISCOVER" /\ lost' = lost
        BY <3>1 DEF Offer, Delivered, faultVars
      <4>4. QED BY <1>4, <4>1, <4>2, <4>3, CountsAssumption DEF Reply, Complete
    <3>2. CASE BareOffer(q)
      <4>1. Arrives(Reply("OFFER", q.xid, q.server, Nothing)) /\ lost' = lost + 1
        BY <3>2 DEF BareOffer
      <4>2. Reply("OFFER", q.xid, q.server, Nothing) \in Replies
        BY <2>1 DEF Reply, Replies
      <4>3. QED BY <1>4, <4>1, <4>2 DEF Reply
    <3>3. CASE Ack(q)
      <4>1. /\ Arrives(Reply("ACK", q.xid, q.server, offered[q.server][q.xid]))
            /\ q.type = "REQUEST" /\ lost' = lost
        BY <3>3 DEF Ack, Delivered, faultVars
      <4>2. Reply("ACK", q.xid, q.server, offered[q.server][q.xid]) \in Replies
        BY <2>1, <4>1 DEF Reply, Replies
      <4>3. QED BY <1>4, <4>1, <4>2 DEF Reply
    <3>4. CASE Nak(q)
      <4>1. /\ Arrives(Reply("NAK", q.xid, q.server, offered[q.server][q.xid]))
            /\ q.type = "REQUEST" /\ lost' = lost + 1
        BY <3>4 DEF Nak
      <4>2. Reply("NAK", q.xid, q.server, offered[q.server][q.xid]) \in Replies
        BY <2>1, <4>1 DEF Reply, Replies
      <4>3. QED BY <1>4, <4>1, <4>2 DEF Reply
    <3>5. QED BY <1>8, <3>1, <3>2, <3>3, <3>4
  <2>3. rx' = <<p>>
    BY <1>4, <2>2, OneIs DEF Arrives, Listening
  <2>4. lost' >= tries' /\ (lost' = lost + 1 => lost' > tries')
    BY <1>1, <1>6, <2>2 DEF OnlyThis
  <2>5. pc = "offer" => Pending("DISCOVER", "OFFER")'
    BY <1>5, <1>6, <2>2, <2>3, <2>4 DEF Pending
  <2>6. pc = "ack" => Pending("REQUEST", "ACK")'
    BY <1>5, <1>6, <2>2, <2>3, <2>4 DEF Pending
  <2>7. QED BY <1>4, <1>6, <2>4, <2>5, <2>6 DEF OnlyThis, Listening
<1>9. QED BY <1>3, <1>7, <1>8

\* A step that goes astray is the end of it.
LEMMA OnlyStep == SafeInv /\ OnlyThisTry /\ [Next]_vars => OnlyThisTry'
<1> SUFFICES ASSUME SafeInv, OnlyThisTry, [Next]_vars, Cardinality(Servers) = 1, stray' = 0
             PROVE  OnlyThis'
  BY DEF OnlyThisTry
<1>1. stray = 0
  BY CountsAssumption DEF SafeInv, TypeOK, Next, vars, Client, send_discover, send_request, SendFails,
     do_discover, do_request, WrongPacket, Timeout, GiveUp, Configure, StartFails, Start,
     RunAgain, Deliver, Offer, BareOffer, Ack, Nak, Lose, Delivered, Overheard, faultVars
<1>2. OnlyThis /\ stray' = stray
  BY <1>1 DEF OnlyThisTry
<1>3. CASE UNCHANGED vars
  BY <1>2, <1>3 DEF vars, clientVars, faultVars, OnlyThis, Pending, Quiet, Listening, Query
<1>4. QED BY <1>2, <1>3, ClientInTry, NetworkInTry DEF Next

\* While the one server answers, each once and in time, dhcpc gives up only when a packet
\* was lost for every try.
THEOREM GaveUpForLossCorrect == Spec => []GaveUpForLoss
<1>1. Init => OnlyThisTry
  BY DEF Init, OnlyThisTry, OnlyThis, Listening, Quiet
<1>2. SafeInv /\ OnlyThisTry => GaveUpForLoss
  BY CountsAssumption DEF SafeInv, TypeOK, Offered, OnlyThisTry, OnlyThis, GaveUpForLoss
<1>3. QED BY <1>1, <1>2, OnlyStep, Safe, PTL DEF Spec

=============================================================================
