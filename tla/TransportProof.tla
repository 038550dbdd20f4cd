--------------------------- MODULE TransportProof ---------------------------
(***************************************************************************)
(* For every packet limit, queue limit and set of host keys: sequence      *)
(* numbers never come near wrapping under one key, the client stays with   *)
(* the host key it trusted first, the session id never changes (IInv); the *)
(* two ends have the same keys in turn, so that rekeys which cross disturb *)
(* nothing (FlowInv); and application packets arrive once and in order     *)
(* (OnceInv).                                                              *)
(***************************************************************************)
EXTENDS Transport, TLAPS

\* What the type invariant says of the state the proofs below need, with the
\* sequence numbers on the wire already bounded.
Typed ==
    /\ phase \in [Side -> Phases]
    /\ tx \in [Side -> Key] /\ rx \in [Side -> Key]
    /\ tx_seq \in [Side -> 0..RekeyPackets + 2]
    /\ wire \in [Side -> Seq(Packet(0..RekeyPackets + 2))]
    /\ kexinits \in [Side -> Nat]
    /\ theirs \in [Side -> Nat]
    /\ hash \in [Side -> Hash \cup {None}]
    /\ session_id \in [Side -> Hash \cup {None}]
    /\ sent \in [Side -> Nat]

\* How many packets a side can have sealed under its key, by where it is.
\* A phase reached from "open" is entered with the packets of the exchange on
\* top of the limit that send() and recv() enforce.
SeqByPhase ==
    \A s \in Side :
        /\ phase[s] \in {"start", "newkeys"} => tx_seq[s] = 0
        /\ phase[s] = "init_wait" => tx_seq[s] = 1
        /\ phase[s] = "open" => tx_seq[s] <= RekeyPackets
        /\ phase[s] \in {"rekey_wait", "ecdh_init"}
             => tx_seq[s] <= RekeyPackets + 1

\* run_kex has computed the hash and the session id before it waits for
\* NEWKEYS, and each side runs only its own half of the exchange.
Exchanging ==
    /\ \A s \in Side :
         phase[s] = "newkeys" => hash[s] \in Hash /\ session_id[s] \in Hash
    /\ phase["client"] # "ecdh_init"
    /\ phase["server"] # "ecdh_reply"

IInv == Typed /\ SeqByPhase /\ Exchanging

-----------------------------------------------------------------------------
\* Small numbers are their own remainder.
LEMMA ModSmall == ASSUME NEW a \in Nat, NEW m \in Nat, a < m PROVE a % m = a
  BY SMT

\* Concatenation stays among the sequences over a set and adds lengths.
LEMMA Concatenated ==
    ASSUME NEW S, NEW a \in Seq(S), NEW b \in Seq(S)
    PROVE  a \o b \in Seq(S) /\ Len(a \o b) = Len(a) + Len(b)
  OBVIOUS

\* There are two sides.
LEMMA PeerSide == \A s \in Side : Peer(s) \in Side /\ Peer(s) # s
<1>1. \A s \in Side : \E p \in Side : p # s
  BY DEF Side
<1> QED
  BY <1>1 DEF Peer

\* Sealing at most enough packets to reach the bound gives packets within it.
LEMMA SealBounded ==
    ASSUME NEW key \in Key, NEW q \in Nat, NEW bodies \in Seq(Body),
           q + Len(bodies) <= RekeyPackets + 3
    PROVE  Seal(key, q, bodies) \in Seq(Packet(0..RekeyPackets + 2))
<1>1. ASSUME NEW i \in 1..Len(bodies)
      PROVE  (q + i - 1) % SeqMod \in 0..RekeyPackets + 2
  <2>1. q + i - 1 \in Nat /\ q + i - 1 <= RekeyPackets + 2
    BY TransportAssumption
  <2>2. q + i - 1 < SeqMod
    BY <2>1, TransportAssumption
  <2>3. (q + i - 1) % SeqMod = q + i - 1
    BY <2>1, <2>2, ModSmall, TransportAssumption
  <2> QED
    BY <2>1, <2>3, TransportAssumption
<1>2. \A i \in 1..Len(bodies) :
        [key |-> key, seq |-> (q + i - 1) % SeqMod, body |-> bodies[i]]
          \in Packet(0..RekeyPackets + 2)
  BY <1>1 DEF Packet
<1> QED
  BY <1>2 DEF Seal

\* Adding n packets to the count keeps it within the bound.
LEMMA SeqAdds ==
    ASSUME NEW q \in Nat, NEW n \in Nat, q + n <= RekeyPackets + 2
    PROVE  (q + n) % SeqMod = q + n
  BY ModSmall, TransportAssumption

\* Taking a packet from the peer's stream and appending to one's own keeps
\* both streams within the bound.
LEMMA WireBounded ==
    ASSUME NEW s \in Side, NEW P, wire \in [Side -> Seq(P)],
           wire[Peer(s)] # <<>>, NEW pkts \in Seq(P)
    PROVE  [wire EXCEPT ![Peer(s)] = Tail(@), ![s] = @ \o pkts]
             \in [Side -> Seq(P)]
<1>1. Peer(s) \in Side /\ Peer(s) # s
  BY PeerSide
<1>2. wire[Peer(s)] \in Seq(P) /\ wire[s] \in Seq(P)
  BY <1>1
<1>3. Tail(wire[Peer(s)]) \in Seq(P) /\ wire[s] \o pkts \in Seq(P)
  BY <1>2
<1> QED
  BY <1>1, <1>3

\* The bodies the handlers send are messages.
LEMMA Messages ==
    /\ \A n \in Nat : KexInit(n) \in Body /\ App(n) \in Body
    /\ \A t \in {"ecdh_init", "newkeys", "ext_info", "disconnect"} :
         Msg(t) \in Body
    /\ \A k \in HostKeys, h \in Hash : EcdhReply(k, h) \in Body
  BY DEF KexInit, App, Msg, EcdhReply, Body

\* The exchange hash of a running exchange.
LEMMA HashType ==
    ASSUME Typed, NEW s \in Side, NEW k \in HostKeys
    PROVE  exchange_hash(s, k) \in Hash
  BY DEF Typed, exchange_hash, Hash

\* What is read from the stream is a message, and a reply names a host key.
LEMMA HeadType ==
    ASSUME Typed, NEW s \in Side, wire[Peer(s)] # <<>>
    PROVE  Head(wire[Peer(s)]).body \in Body
<1>1. Head(wire[Peer(s)]) \in Packet(0..RekeyPackets + 2)
  BY PeerSide DEF Typed
<1> QED
  BY <1>1 DEF Packet

\* A reply names one of the host keys.
LEMMA ReplyType ==
    ASSUME NEW m \in Body, m.type = "ecdh_reply"
    PROVE  m.host \in HostKeys
  BY DEF Body

\* A KEXINIT is the n-th of its sender.
LEMMA CookieType ==
    ASSUME NEW m \in Body, m.type = "kexinit"
    PROVE  m.cookie \in Nat
  BY DEF Body

-----------------------------------------------------------------------------
\* Nothing has been sent or agreed at the start.
LEMMA InitIInv == Init => IInv
<1> SUFFICES ASSUME Init PROVE IInv
  OBVIOUS
<1>1. Typed
  BY TransportAssumption DEF Init, Typed, Phases, Key
<1>2. SeqByPhase /\ Exchanging
  BY TransportAssumption DEF Init, SeqByPhase, Exchanging, Side
<1> QED
  BY <1>1, <1>2 DEF IInv

\* A side that dies changes nothing the invariant speaks of but its phase.
LEMMA DieIInv ==
    ASSUME IInv, NEW s \in Side, NEW why, Die(s, why)
    PROVE  IInv'
  BY DEF IInv, Typed, SeqByPhase, Exchanging, Die, Goto, Phases, kexVars,
         appVars, Side

\* Sending n bodies outside an exchange.
LEMMA SendRawIInv ==
    ASSUME IInv, NEW s \in Side, NEW bodies \in Seq(Body),
           tx_seq[s] + Len(bodies) <= RekeyPackets + 2, SendRaw(s, bodies)
    PROVE  /\ wire' \in [Side -> Seq(Packet(0..RekeyPackets + 2))]
           /\ tx_seq' = [tx_seq EXCEPT ![s] = @ + Len(bodies)]
           /\ tx_seq' \in [Side -> 0..RekeyPackets + 2]
<1> DEFINE P == Packet(0..RekeyPackets + 2)
           pkts == Seal(tx[s], tx_seq[s], bodies)
<1>1. tx[s] \in Key /\ tx_seq[s] \in Nat /\ Len(bodies) \in Nat
  BY TransportAssumption DEF IInv, Typed
<1>2. pkts \in Seq(P)
  BY <1>1, SealBounded, TransportAssumption
<1>3. wire[s] \o pkts \in Seq(P)
  <2> HIDE DEF P, pkts
  <2>1. wire \in [Side -> Seq(P)]
    BY DEF IInv, Typed, P
  <2> QED
    BY <1>2, <2>1
<1>4. wire' \in [Side -> Seq(P)]
  BY <1>3 DEF IInv, Typed, SendRaw
<1>5. (tx_seq[s] + Len(bodies)) % SeqMod = tx_seq[s] + Len(bodies)
  BY <1>1, SeqAdds
<1>6. tx_seq' = [tx_seq EXCEPT ![s] = @ + Len(bodies)]
  BY <1>5 DEF SendRaw
<1>7. tx_seq' \in [Side -> 0..RekeyPackets + 2]
  <2>1. tx_seq \in [Side -> 0..RekeyPackets + 2]
    BY DEF IInv, Typed
  <2>2. tx_seq[s] + Len(bodies) \in 0..RekeyPackets + 2
    BY <1>1, TransportAssumption
  <2> QED
    BY <1>6, <2>1, <2>2
<1> QED
  BY <1>4, <1>6, <1>7

\* Taking a packet and answering with n bodies.
LEMMA TookIInv ==
    ASSUME IInv, NEW s \in Side, NEW bodies \in Seq(Body),
           wire[Peer(s)] # <<>>,
           tx_seq[s] + Len(bodies) <= RekeyPackets + 2, Took(s, bodies)
    PROVE  /\ wire' \in [Side -> Seq(Packet(0..RekeyPackets + 2))]
           /\ tx_seq' = [tx_seq EXCEPT ![s] = @ + Len(bodies)]
           /\ tx_seq' \in [Side -> 0..RekeyPackets + 2]
<1> DEFINE P == Packet(0..RekeyPackets + 2)
           pkts == Seal(tx[s], tx_seq[s], bodies)
<1>1. tx[s] \in Key /\ tx_seq[s] \in Nat /\ Len(bodies) \in Nat
  BY TransportAssumption DEF IInv, Typed
<1>2. pkts \in Seq(P)
  BY <1>1, SealBounded, TransportAssumption
<1>3. wire \in [Side -> Seq(P)]
  BY DEF IInv, Typed
<1>4. wire' = [wire EXCEPT ![Peer(s)] = Tail(@), ![s] = @ \o pkts]
  BY DEF Took
<1>5. wire' \in [Side -> Seq(P)]
  <2> HIDE DEF P, pkts
  <2> QED
    BY <1>2, <1>3, <1>4, WireBounded
<1>6. (tx_seq[s] + Len(bodies)) % SeqMod = tx_seq[s] + Len(bodies)
  BY <1>1, SeqAdds
<1>7. tx_seq' = [tx_seq EXCEPT ![s] = @ + Len(bodies)]
  BY <1>6 DEF Took
<1>8. tx_seq' \in [Side -> 0..RekeyPackets + 2]
  <2>1. tx_seq \in [Side -> 0..RekeyPackets + 2]
    BY DEF IInv, Typed
  <2>2. tx_seq[s] + Len(bodies) \in 0..RekeyPackets + 2
    BY <1>1, TransportAssumption
  <2> QED
    BY <1>7, <2>1, <2>2
<1> QED
  BY <1>5, <1>7, <1>8

\* Switching the sending direction: the last packets of the old key stay
\* within the bound and the count restarts.
LEMMA SwitchIInv ==
    ASSUME IInv, NEW s \in Side, NEW h \in Hash, NEW bodies \in Seq(Body),
           wire[Peer(s)] # <<>>,
           tx_seq[s] + Len(bodies) <= RekeyPackets + 2, Switch(s, h, bodies),
           UNCHANGED <<rx, kexinits, theirs, sent>>
    PROVE  IInv'
<1> DEFINE P == Packet(0..RekeyPackets + 2)
           all == bodies \o <<Msg("newkeys")>>
           pkts == Seal(tx[s], tx_seq[s], all)
           sid == IF session_id[s] = None THEN h ELSE session_id[s]
<1>1. tx[s] \in Key /\ tx_seq[s] \in Nat
  BY TransportAssumption DEF IInv, Typed
<1>2. all \in Seq(Body) /\ Len(all) = Len(bodies) + 1
  BY Messages
<1>3. pkts \in Seq(P)
  <2>1. tx_seq[s] + Len(all) <= RekeyPackets + 3
    BY <1>1, <1>2, TransportAssumption
  <2> HIDE DEF all
  <2> QED
    BY <1>1, <1>2, <2>1, SealBounded
<1>4. wire' \in [Side -> Seq(P)]
  <2>1. wire \in [Side -> Seq(P)]
    BY DEF IInv, Typed
  <2>2. wire' = [wire EXCEPT ![Peer(s)] = Tail(@), ![s] = @ \o pkts]
    BY DEF Switch
  <2> HIDE DEF P, pkts
  <2> QED
    BY <1>3, <2>1, <2>2, WireBounded
<1>5. sid \in Hash
  BY DEF IInv, Typed
<1>6. /\ hash' = [hash EXCEPT ![s] = h]
      /\ session_id' = [session_id EXCEPT ![s] = sid]
      /\ tx' = [tx EXCEPT ![s] = make_cipher(h, sid)]
      /\ tx_seq' = [tx_seq EXCEPT ![s] = 0]
      /\ phase' = [phase EXCEPT ![s] = "newkeys"]
  BY DEF Switch, SessionId, Goto
<1>7. make_cipher(h, sid) \in Key
  BY <1>5 DEF make_cipher, Key
<1>8. Typed'
  <2> HIDE DEF sid, pkts, all
  <2>1. /\ hash' \in [Side -> Hash \cup {None}]
        /\ session_id' \in [Side -> Hash \cup {None}]
    BY <1>5, <1>6 DEF IInv, Typed
  <2>2. tx' \in [Side -> Key] /\ tx_seq' \in [Side -> 0..RekeyPackets + 2]
    BY <1>6, <1>7, TransportAssumption DEF IInv, Typed
  <2>3. phase' \in [Side -> Phases]
    BY <1>6 DEF IInv, Typed, Phases
  <2> QED
    BY <1>4, <2>1, <2>2, <2>3 DEF IInv, Typed
<1>9. SeqByPhase'
  <2> HIDE DEF sid, pkts, all
  <2> QED
    BY <1>6 DEF IInv, Typed, SeqByPhase
<1>10. Exchanging'
  <2> HIDE DEF sid, pkts, all
  <2> QED
    BY <1>5, <1>6 DEF IInv, Typed, Exchanging, Side
<1> QED
  BY <1>8, <1>9, <1>10 DEF IInv

\* Every handler preserves the invariant.
LEMMA HandleIInv ==
    ASSUME IInv, NEW s \in Side, wire[Peer(s)] # <<>>, NEW m \in Body,
           Handle(s, m)
    PROVE  IInv'
<1>0. /\ tx_seq[s] \in Nat /\ kexinits[s] + 1 \in Nat /\ RekeyPackets \in Nat
      /\ tx_seq \in [Side -> 0..RekeyPackets + 2] /\ phase \in [Side -> Phases]
  BY TransportAssumption DEF IInv, Typed
<1>a. <<>> \in Seq(Body) /\ Len(<<>>) = 0
  OBVIOUS
<1>1. CASE OnKexInit(s, m)
  <2> DEFINE ours == IF phase[s] = "open" THEN <<KexInit(kexinits[s] + 1)>> ELSE <<>>
             share == IF s = "client" THEN <<Msg("ecdh_init")>> ELSE <<>>
             next == IF s = "client" THEN "ecdh_reply" ELSE "ecdh_init"
  <2>1. /\ phase[s] \in {"init_wait", "rekey_wait", "open"}
        /\ Took(s, ours \o share) /\ phase' = [phase EXCEPT ![s] = next]
        /\ kexinits' = [kexinits EXCEPT ![s] = @ + Len(ours)]
        /\ theirs' = [theirs EXCEPT ![s] = m.cookie]
        /\ UNCHANGED <<tx, rx, hash, session_id, sent>>
    BY <1>1 DEF OnKexInit, Share, Goto, appVars
  <2>2. /\ ours \in Seq(Body) /\ share \in Seq(Body)
        /\ Len(ours) = (IF phase[s] = "open" THEN 1 ELSE 0)
        /\ Len(share) = (IF s = "client" THEN 1 ELSE 0)
    BY <1>0, Messages
  <2> HIDE DEF ours, share
  <2>3. /\ ours \o share \in Seq(Body)
        /\ Len(ours \o share) = Len(ours) + Len(share)
    BY <2>2, Concatenated
  <2>4. tx_seq[s] + Len(ours \o share)
          <= RekeyPackets + (IF s = "client" THEN 2 ELSE 1)
    BY <1>0, <2>1, <2>2, <2>3, TransportAssumption DEF IInv, SeqByPhase
  <2>5. /\ wire' \in [Side -> Seq(Packet(0..RekeyPackets + 2))]
        /\ tx_seq' = [tx_seq EXCEPT ![s] = @ + Len(ours \o share)]
        /\ tx_seq' \in [Side -> 0..RekeyPackets + 2]
    <3> DEFINE both == ours \o share
    <3>1. both \in Seq(Body) /\ Took(s, both)
      BY <2>1, <2>3
    <3>2. tx_seq[s] + Len(both) <= RekeyPackets + 2
      BY <1>0, <2>2, <2>3, <2>4
    <3> HIDE DEF both
    <3>3. /\ wire' \in [Side -> Seq(Packet(0..RekeyPackets + 2))]
          /\ tx_seq' = [tx_seq EXCEPT ![s] = @ + Len(both)]
          /\ tx_seq' \in [Side -> 0..RekeyPackets + 2]
      BY <3>1, <3>2, TookIInv
    <3> QED
      BY <3>3 DEF both
  <2>6. Typed'
    <3>1. m.cookie \in Nat
      BY <1>1, CookieType DEF OnKexInit
    <3>2. kexinits' \in [Side -> Nat] /\ theirs' \in [Side -> Nat]
      BY <2>1, <2>2, <3>1 DEF IInv, Typed
    <3>3. phase' \in [Side -> Phases]
      BY <1>0, <2>1 DEF Phases
    <3> QED
      BY <2>1, <2>5, <3>2, <3>3 DEF IInv, Typed
  <2>7. SeqByPhase'
    <3>1. tx_seq'[s] = tx_seq[s] + Len(ours \o share)
      BY <2>5, <1>0
    <3>2. \A t \in Side \ {s} : tx_seq'[t] = tx_seq[t] /\ phase'[t] = phase[t]
      BY <2>1, <2>5, <1>0
    <3>3. phase'[s] = next
      BY <2>1, <1>0
    <3> QED
      BY <2>4, <3>1, <3>2, <3>3 DEF IInv, SeqByPhase
  <2>8. Exchanging'
    BY <1>0, <2>1 DEF IInv, Exchanging, Side
  <2> QED
    BY <2>6, <2>7, <2>8 DEF IInv
<1>2. CASE OnEcdhInit(s, m)
  <2>1. PICK k \in HostKeys :
          Switch(s, exchange_hash(s, k), <<EcdhReply(k, exchange_hash(s, k))>>)
    BY <1>2 DEF OnEcdhInit
  <2> DEFINE h == exchange_hash(s, k)
             reply == <<EcdhReply(k, h)>>
  <2>2. h \in Hash
    BY HashType DEF IInv
  <2>3. reply \in Seq(Body) /\ Len(reply) = 1
    BY <2>2, Messages
  <2>4. tx_seq[s] + Len(reply) <= RekeyPackets + 2
    BY <1>0, <1>2, <2>3 DEF OnEcdhInit, IInv, SeqByPhase
  <2>5. UNCHANGED <<rx, kexinits, theirs, sent>>
    BY <1>2 DEF OnEcdhInit, appVars
  <2> HIDE DEF h, reply
  <2> QED
    BY <2>1, <2>2, <2>3, <2>4, <2>5, SwitchIInv DEF h, reply
<1>3. CASE OnEcdhReply(s, m)
  <2> DEFINE h == exchange_hash(s, m.host)
  <2>1. h \in Hash
    BY <1>3, ReplyType, HashType DEF IInv, OnEcdhReply
  <2>2. Switch(s, h, <<>>) /\ UNCHANGED <<rx, kexinits, theirs, sent>>
    BY <1>3 DEF OnEcdhReply, appVars
  <2>3. tx_seq[s] + Len(<<>>) <= RekeyPackets + 2
    BY <1>0, <1>a
  <2> HIDE DEF h
  <2> QED
    BY <1>a, <2>1, <2>2, <2>3, SwitchIInv
<1>4. CASE OnEcdhReplyBad(s, m)
  BY <1>4, DieIInv DEF OnEcdhReplyBad
<1>5. CASE OnNewKeys(s, m)
  <2> DEFINE P == Packet(0..RekeyPackets + 2)
             ext == s = "server" /\ rx[s] = Plain
             pkts == IF ext THEN Seal(tx[s], tx_seq[s], <<Msg("ext_info")>>)
                            ELSE <<>>
  <2>1. tx_seq[s] = 0 /\ phase[s] = "newkeys"
    BY <1>5 DEF OnNewKeys, IInv, SeqByPhase
  <2>2. pkts \in Seq(P)
    <3> DEFINE info == <<Msg("ext_info")>>
    <3>1. info \in Seq(Body) /\ Len(info) = 1
      BY Messages
    <3>2. tx[s] \in Key
      BY DEF IInv, Typed
    <3>3. Seal(tx[s], tx_seq[s], info) \in Seq(P)
      <4>1. tx_seq[s] + Len(info) <= RekeyPackets + 3
        BY <1>0, <2>1, <3>1
      <4> HIDE DEF info
      <4> QED
        BY <1>0, <3>1, <3>2, <4>1, SealBounded
    <3> HIDE DEF P, info
    <3>4. pkts = (IF ext THEN Seal(tx[s], tx_seq[s], info) ELSE <<>>)
      BY DEF info
    <3> HIDE DEF pkts
    <3> QED
      BY <3>3, <3>4
  <2>3. wire' = [wire EXCEPT ![Peer(s)] = Tail(@), ![s] = @ \o pkts]
    <3>1. wire[s] \o <<>> = wire[s]
      <4>1. wire[s] \in Seq(P)
        BY DEF IInv, Typed
      <4> HIDE DEF P
      <4> QED
        BY <4>1
    <3>2. Peer(s) # s
      BY PeerSide
    <3> QED
      BY <1>5, <3>1, <3>2 DEF OnNewKeys
  <2>4. wire' \in [Side -> Seq(P)]
    <3>1. wire \in [Side -> Seq(P)]
      BY DEF IInv, Typed
    <3> HIDE DEF P, pkts
    <3> QED
      BY <2>2, <2>3, <3>1, WireBounded
  <2>5. tx_seq' = [tx_seq EXCEPT ![s] = IF ext THEN 1 ELSE 0]
    <3>1. (0 + 1) % SeqMod = 1
      BY ModSmall, TransportAssumption
    <3>2. tx_seq' = [tx_seq EXCEPT ![s] = IF ext THEN (tx_seq[s] + 1) % SeqMod
                                                 ELSE tx_seq[s]]
      BY <1>5 DEF OnNewKeys
    <3> QED
      BY <2>1, <3>1, <3>2
  <2>6. /\ phase' = [phase EXCEPT ![s] = "open"]
        /\ rx' = [rx EXCEPT ![s] = make_cipher(hash[s], session_id[s])]
        /\ hash' = [hash EXCEPT ![s] = None]
        /\ UNCHANGED <<tx, kexinits, theirs, session_id, sent>>
    BY <1>5 DEF OnNewKeys, Goto, appVars
  <2>7. make_cipher(hash[s], session_id[s]) \in Key
    BY <2>1 DEF IInv, Exchanging, make_cipher, Key
  <2>8. Typed'
    <3>1. rx' \in [Side -> Key] /\ hash' \in [Side -> Hash \cup {None}]
      BY <2>6, <2>7 DEF IInv, Typed
    <3>2. tx_seq' \in [Side -> 0..RekeyPackets + 2]
      BY <1>0, <2>5
    <3>3. phase' \in [Side -> Phases]
      BY <1>0, <2>6 DEF Phases
    <3> QED
      BY <2>4, <2>6, <3>1, <3>2, <3>3 DEF IInv, Typed
  <2>9. SeqByPhase'
    BY <1>0, <2>5, <2>6, TransportAssumption DEF IInv, SeqByPhase
  <2>10. Exchanging'
    BY <1>0, <2>6 DEF IInv, Typed, Exchanging, Side
  <2> QED
    BY <2>8, <2>9, <2>10 DEF IInv
<1>6. ASSUME Took(s, <<>>), UNCHANGED <<phase, tx, rx, kexinits, kexVars, sent>>
      PROVE  IInv'
  <2>1. tx_seq[s] + Len(<<>>) <= RekeyPackets + 2
    BY <1>0, <1>a
  <2>2. /\ wire' \in [Side -> Seq(Packet(0..RekeyPackets + 2))]
        /\ tx_seq' = [tx_seq EXCEPT ![s] = @ + Len(<<>>)]
    BY <1>6, <1>a, <2>1, TookIInv
  <2>3. tx_seq' = tx_seq
    BY <1>0, <1>a, <2>2
  <2> QED
    BY <1>6, <2>2, <2>3
       DEF IInv, Typed, SeqByPhase, Exchanging, kexVars
<1>7. CASE OnApp(s, m)
  BY <1>6, <1>7 DEF OnApp
<1>8. CASE OnExtInfo(s, m)
  BY <1>6, <1>8 DEF OnExtInfo
<1>9. CASE Enqueue(s, m)
  <2>1. CASE Die(s, "queue")
    BY <2>1, DieIInv
  <2>2. CASE Took(s, <<>>) /\ UNCHANGED <<phase, tx, rx, kexinits, kexVars, sent>>
    BY <1>6, <2>2
  <2> QED
    BY <1>9, <2>1, <2>2 DEF Enqueue
<1>10. CASE OnDisconnect(s, m)
  BY <1>10, DieIInv DEF OnDisconnect
<1> QED
  BY <1>1, <1>2, <1>3, <1>4, <1>5, <1>7, <1>8, <1>9, <1>10 DEF Handle

\* One packet sent outside an exchange, by a side that is then in phase ph.
LEMMA SendOneIInv ==
    ASSUME IInv, NEW s \in Side, NEW m \in Body,
           NEW ph \in {"init_wait", "rekey_wait", "open", "dead"},
           SendRaw(s, <<m>>), phase' = [phase EXCEPT ![s] = ph],
           kexinits' \in [Side -> Nat], sent' \in [Side -> Nat],
           UNCHANGED <<tx, rx, kexVars>>,
           tx_seq[s] <= RekeyPackets,
           ph = "init_wait" => tx_seq[s] = 0,
           ph = "open" => tx_seq[s] < RekeyPackets
    PROVE  IInv'
<1>0. /\ tx_seq \in [Side -> 0..RekeyPackets + 2] /\ phase \in [Side -> Phases]
      /\ RekeyPackets \in Nat
  BY TransportAssumption DEF IInv, Typed
<1> DEFINE one == <<m>>
<1>1. one \in Seq(Body) /\ Len(one) = 1
  OBVIOUS
<1>2. tx_seq[s] + Len(one) <= RekeyPackets + 2
  BY <1>0, <1>1
<1>3. SendRaw(s, one)
  OBVIOUS
<1> HIDE DEF one
<1>4. /\ wire' \in [Side -> Seq(Packet(0..RekeyPackets + 2))]
      /\ tx_seq' = [tx_seq EXCEPT ![s] = @ + 1]
      /\ tx_seq' \in [Side -> 0..RekeyPackets + 2]
  BY <1>1, <1>2, <1>3, SendRawIInv
<1>5. Typed'
  BY <1>0, <1>4 DEF IInv, Typed, kexVars, Phases
<1>6. SeqByPhase'
  BY <1>0, <1>4 DEF IInv, SeqByPhase
<1>7. Exchanging'
  BY <1>0 DEF IInv, Exchanging, kexVars, Side
<1> QED
  BY <1>5, <1>6, <1>7 DEF IInv

\* Every step preserves the invariant.
LEMMA NextIInv == IInv /\ [Next]_vars => IInv'
<1> SUFFICES ASSUME IInv, [Next]_vars PROVE IInv'
  OBVIOUS
<1>0. /\ tx_seq \in [Side -> 0..RekeyPackets + 2] /\ phase \in [Side -> Phases]
      /\ kexinits \in [Side -> Nat] /\ sent \in [Side -> Nat]
      /\ RekeyPackets \in Nat
  BY TransportAssumption DEF IInv, Typed
<1>1. CASE UNCHANGED vars
  BY <1>1 DEF vars, IInv, Typed, SeqByPhase, Exchanging
<1>3. ASSUME NEW s \in Side, Start(s) PROVE IInv'
  <2> DEFINE msg == KexInit(kexinits[s] + 1)
  <2>1. tx_seq[s] = 0 /\ KexInit(kexinits[s] + 1) \in Body
    BY <1>0, <1>3, Messages DEF Start, IInv, SeqByPhase
  <2>2. kexinits' \in [Side -> Nat]
    BY <1>0, <1>3 DEF Start
  <2>3. /\ SendRaw(s, <<msg>>) /\ phase' = [phase EXCEPT ![s] = "init_wait"]
        /\ kexinits' \in [Side -> Nat] /\ sent' \in [Side -> Nat]
        /\ UNCHANGED <<tx, rx, kexVars>>
    BY <1>0, <1>3, <2>1, <2>2 DEF Start, Goto, appVars
  <2>4. msg \in Body /\ tx_seq[s] <= RekeyPackets
    BY <1>0, <2>1
  <2> HIDE DEF msg
  <2> QED
    BY <1>0, <2>1, <2>3, <2>4, SendOneIInv
<1>4. ASSUME NEW s \in Side, RekeyInitiate(s) PROVE IInv'
  <2> DEFINE msg == KexInit(kexinits[s] + 1)
  <2>1. tx_seq[s] <= RekeyPackets /\ KexInit(kexinits[s] + 1) \in Body
    BY <1>0, <1>4, Messages DEF RekeyInitiate, IInv, SeqByPhase
  <2>2. kexinits' \in [Side -> Nat]
    BY <1>0, <1>4 DEF RekeyInitiate
  <2>3. /\ SendRaw(s, <<msg>>) /\ phase' = [phase EXCEPT ![s] = "rekey_wait"]
        /\ kexinits' \in [Side -> Nat] /\ sent' \in [Side -> Nat]
        /\ UNCHANGED <<tx, rx, kexVars>>
    BY <1>0, <1>4, <2>1, <2>2 DEF RekeyInitiate, Goto, appVars
  <2>4. msg \in Body /\ tx_seq[s] <= RekeyPackets
    BY <1>0, <2>1
  <2> HIDE DEF msg
  <2> QED
    BY <1>0, <2>1, <2>3, <2>4, SendOneIInv
<1>5. ASSUME NEW s \in Side, SendApp(s) PROVE IInv'
  <2> DEFINE msg == App(sent[s] + 1)
  <2>1. tx_seq[s] < RekeyPackets /\ App(sent[s] + 1) \in Body
    BY <1>0, <1>5, Messages DEF SendApp, MaySend, should_rekey, PacketsDue
  <2>2. sent' \in [Side -> Nat] /\ phase' = [phase EXCEPT ![s] = "open"]
    BY <1>0, <1>5 DEF SendApp, MaySend
  <2>3. /\ SendRaw(s, <<msg>>) /\ phase' = [phase EXCEPT ![s] = "open"]
        /\ kexinits' \in [Side -> Nat] /\ sent' \in [Side -> Nat]
        /\ UNCHANGED <<tx, rx, kexVars>>
    BY <1>0, <1>5, <2>1, <2>2 DEF SendApp, Goto
  <2>4. msg \in Body /\ tx_seq[s] <= RekeyPackets
    BY <1>0, <2>1
  <2> HIDE DEF msg
  <2> QED
    BY <1>0, <2>1, <2>3, <2>4, SendOneIInv
<1>6. ASSUME NEW s \in Side, Disconnect(s) PROVE IInv'
  <2> DEFINE msg == Msg("disconnect")
  <2>1. tx_seq[s] <= RekeyPackets /\ Msg("disconnect") \in Body
    BY <1>0, <1>6, Messages DEF Disconnect, IInv, SeqByPhase
  <2>2. /\ SendRaw(s, <<msg>>) /\ phase' = [phase EXCEPT ![s] = "dead"]
        /\ kexinits' \in [Side -> Nat] /\ sent' \in [Side -> Nat]
        /\ UNCHANGED <<tx, rx, kexVars>>
    BY <1>0, <1>6, <2>1 DEF Disconnect, Goto, appVars
  <2>4. msg \in Body /\ tx_seq[s] <= RekeyPackets
    BY <1>0, <2>1
  <2> HIDE DEF msg
  <2> QED
    BY <1>0, <2>1, <2>2, <2>4, SendOneIInv
<1>7. ASSUME NEW s \in Side, Receive(s) PROVE IInv'
  <2> DEFINE p == Head(wire[Peer(s)])
  <2>1. wire[Peer(s)] # <<>> /\ p.body \in Body
    BY <1>7, HeadType DEF Receive, IInv
  <2>2. Die(s, "mac") \/ Die(s, "proto") \/ Handle(s, p.body)
    BY <1>7 DEF Receive
  <2> HIDE DEF p
  <2> QED
    BY <2>1, <2>2, DieIInv, HandleIInv
<1>8. ASSUME NEW s \in Side, PopQueued(s) \/ Age(s) PROVE IInv'
  BY <1>8 DEF PopQueued, Age, IInv, Typed, SeqByPhase, Exchanging, kexVars,
              appVars
<1>9. ASSUME NEW s \in Side, Break(s) \/ PeerClosed(s) PROVE IInv'
  BY <1>9, DieIInv DEF Break, PeerClosed
<1>10. CASE CertExpires
  BY <1>10 DEF CertExpires, IInv, Typed, SeqByPhase, Exchanging, kexVars,
               appVars
<1> QED
  BY <1>1, <1>3, <1>4, <1>5, <1>6, <1>7, <1>8, <1>9, <1>10 DEF Next, Step

\* The invariant above holds throughout.
THEOREM Inductive == Spec => []IInv
  BY InitIInv, NextIInv, PTL DEF Spec

\* No sequence number, in a counter or on the wire, is ever more than two past
\* REKEY_PACKETS: with u32 counters and a limit of 2^28 none is used twice
\* under a key (send_raw, should_rekey, run_kex).
THEOREM NonceSafety == Spec => []NonceBound
<1>1. IInv => NonceBound
  <2> SUFFICES ASSUME IInv, NEW s \in Side
               PROVE  /\ tx_seq[s] <= RekeyPackets + 2
                      /\ \A i \in 1..Len(wire[s]) :
                           wire[s][i].seq <= RekeyPackets + 2
    BY DEF NonceBound
  <2>1. wire[s] \in Seq(Packet(0..RekeyPackets + 2))
    BY DEF IInv, Typed
  <2>2. \A i \in 1..Len(wire[s]) : wire[s][i] \in Packet(0..RekeyPackets + 2)
    BY <2>1
  <2>3. tx_seq[s] \in 0..RekeyPackets + 2
    BY DEF IInv, Typed
  <2> QED
    BY <2>2, <2>3, TransportAssumption DEF Packet
<1> QED
  BY <1>1, Inductive, PTL

-----------------------------------------------------------------------------
\* A step that leaves the client's view of the host alone keeps it pinned.
LEMMA PinnedUnchanged ==
    ASSUME HostKeyPinned,
           UNCHANGED <<peer_host_key, peer_host_sig>>,
           session_id'["client"] = session_id["client"],
           tx'["client"] = tx["client"]
    PROVE  HostKeyPinned'
  BY DEF HostKeyPinned

\* Only the client's handling of KEX_ECDH_REPLY touches that view.
LEMMA PinnedNext == IInv /\ HostKeyPinned /\ [Next]_vars => HostKeyPinned'
<1> SUFFICES ASSUME IInv, HostKeyPinned, [Next]_vars PROVE HostKeyPinned'
  OBVIOUS
<1>0. /\ session_id \in [Side -> Hash \cup {None}] /\ tx \in [Side -> Key]
      /\ phase["client"] # "ecdh_init" /\ phase["server"] # "ecdh_reply"
      /\ Side = {"client", "server"}
  BY DEF IInv, Typed, Exchanging, Side
<1>1. ASSUME NEW s \in Side, NEW m \in Body, OnEcdhReply(s, m)
      PROVE  HostKeyPinned'
  <2> DEFINE h == exchange_hash(s, m.host)
             sid == IF session_id[s] = None THEN h ELSE session_id[s]
  <2>1. s = "client" /\ m.host \in HostKeys
    BY <1>0, <1>1, ReplyType DEF OnEcdhReply
  <2>2. h \in Hash /\ h.k_s = m.host
    BY <2>1, HashType DEF IInv, exchange_hash
  <2>3. session_id'["client"] = sid /\ tx'["client"].h = h
    BY <1>0, <1>1, <2>1 DEF OnEcdhReply, Switch, SessionId, make_cipher
  <2>4. peer_host_key' = m.host /\ HostKeyAccepted(m.host)
    BY <1>1 DEF OnEcdhReply
  <2>5. CASE session_id["client"] = None
    <3>1. m.host \in Trusted /\ peer_host_sig' = [key |-> m.host, over |-> h]
      BY <1>1, <2>1, <2>4, <2>5 DEF OnEcdhReply, HostKeyAccepted, first_kex
    <3>2. session_id'["client"] = h
      BY <2>1, <2>3, <2>5
    <3> HIDE DEF h
    <3> QED
      BY <2>2, <2>3, <2>4, <3>1, <3>2 DEF HostKeyPinned
  <2>6. CASE session_id["client"] # None
    <3>1. m.host = peer_host_key /\ peer_host_sig' = peer_host_sig
      BY <1>1, <2>1, <2>4, <2>6 DEF OnEcdhReply, HostKeyAccepted, first_kex
    <3>2. session_id'["client"] = session_id["client"]
      BY <2>1, <2>3, <2>6
    <3> HIDE DEF h
    <3> QED
      BY <2>2, <2>3, <2>4, <2>6, <3>1, <3>2 DEF HostKeyPinned
  <2> QED
    BY <2>5, <2>6
<1>2. ASSUME NEW s \in Side, NEW m \in Body, OnEcdhInit(s, m)
      PROVE  HostKeyPinned'
  <2>1. s = "server"
    BY <1>0, <1>2 DEF OnEcdhInit
  <2>2. PICK h, sid, reply : Switch(s, h, reply)
    BY <1>2 DEF OnEcdhInit
  <2>3. /\ session_id'["client"] = session_id["client"]
        /\ tx'["client"] = tx["client"]
    BY <1>0, <2>1, <2>2 DEF Switch
  <2> QED
    BY <1>2, <2>3, PinnedUnchanged DEF OnEcdhInit
<1>3. ASSUME UNCHANGED <<tx, session_id, peer_host_key, peer_host_sig>>
      PROVE  HostKeyPinned'
  BY <1>3, PinnedUnchanged
<1>4. ASSUME NEW s \in Side, NEW why, Die(s, why) PROVE HostKeyPinned'
  BY <1>3, <1>4 DEF Die, kexVars
<1>5. ASSUME NEW s \in Side, Receive(s) PROVE HostKeyPinned'
  <2> DEFINE p == Head(wire[Peer(s)])
  <2>1. p.body \in Body
    BY <1>5, HeadType DEF Receive, IInv
  <2>2. Die(s, "mac") \/ Die(s, "proto") \/ Handle(s, p.body)
    BY <1>5 DEF Receive
  <2> HIDE DEF p
  <2>3. CASE OnKexInit(s, p.body) \/ OnNewKeys(s, p.body)
    BY <1>3, <2>3 DEF OnKexInit, OnNewKeys
  <2>4. CASE OnEcdhReplyBad(s, p.body) \/ OnDisconnect(s, p.body)
    BY <1>4, <2>4 DEF OnEcdhReplyBad, OnDisconnect
  <2>5. CASE OnApp(s, p.body) \/ OnExtInfo(s, p.body)
    BY <1>3, <2>5 DEF OnApp, OnExtInfo, kexVars
  <2>6. CASE Enqueue(s, p.body)
    BY <1>3, <1>4, <2>6 DEF Enqueue, kexVars
  <2> QED
    BY <1>1, <1>2, <1>4, <2>1, <2>2, <2>3, <2>4, <2>5, <2>6 DEF Handle
<1>6. ASSUME NEW s \in Side,
             Start(s) \/ RekeyInitiate(s) \/ PopQueued(s) \/ SendApp(s)
               \/ Disconnect(s) \/ Age(s)
      PROVE  HostKeyPinned'
  BY <1>3, <1>6 DEF Start, RekeyInitiate, PopQueued, SendApp, Disconnect, Age,
                    kexVars
<1>7. ASSUME NEW s \in Side, Break(s) \/ PeerClosed(s) PROVE HostKeyPinned'
  BY <1>4, <1>7 DEF Break, PeerClosed
<1>8. CASE CertExpires \/ UNCHANGED vars
  BY <1>3, <1>8 DEF CertExpires, vars, kexVars
<1> QED
  BY <1>5, <1>6, <1>7, <1>8 DEF Next, Step

\* Through every rekey the client stays with the key its verifier accepted,
\* and what host_binding() returns is that key's signature over the session id
\* (run_kex, client side).
THEOREM HostPinned == Spec => []HostKeyPinned
<1>1. Init => HostKeyPinned
  BY DEF Init, HostKeyPinned, Side
<1> QED
  BY <1>1, Inductive, PinnedNext, PTL DEF Spec

\* The session id is the hash of the first exchange for the life of the
\* connection (run_kex: set only while it is empty).
THEOREM SessionFixed == Spec => SessionIdFixed
<1> DEFINE Fixed == \A s \in Side :
                      session_id[s] # None => session_id'[s] = session_id[s]
<1>1. ASSUME IInv, [Next]_vars PROVE [Fixed]_vars
  <2>1. session_id \in [Side -> Hash \cup {None}]
    BY <1>1 DEF IInv, Typed
  <2>2. ASSUME NEW s \in Side, NEW h, NEW reply, Switch(s, h, reply) PROVE Fixed
    BY <2>1, <2>2 DEF Switch, SessionId
  <2>3. CASE session_id' = session_id
    BY <2>3
  <2>4. ASSUME NEW s \in Side, NEW m, Handle(s, m) PROVE Fixed
    <3>1. CASE OnEcdhInit(s, m) \/ OnEcdhReply(s, m)
      BY <2>2, <3>1 DEF OnEcdhInit, OnEcdhReply
    <3>2. CASE OnKexInit(s, m) \/ OnEcdhReplyBad(s, m) \/ OnNewKeys(s, m)
               \/ OnDisconnect(s, m)
      BY <2>3, <3>2
         DEF OnKexInit, OnEcdhReplyBad, OnNewKeys, OnDisconnect, Die, kexVars
    <3>3. CASE OnApp(s, m) \/ OnExtInfo(s, m) \/ Enqueue(s, m)
      BY <2>3, <3>3 DEF OnApp, OnExtInfo, Enqueue, Die, kexVars
    <3> QED
      BY <2>4, <3>1, <3>2, <3>3 DEF Handle
  <2>5. ASSUME NEW s \in Side, Receive(s) PROVE Fixed
    <3>1. Die(s, "mac") \/ Die(s, "proto")
            \/ Handle(s, Head(wire[Peer(s)]).body)
      BY <2>5 DEF Receive
    <3> QED
      BY <2>3, <2>4, <3>1 DEF Die, kexVars
  <2>6. ASSUME NEW s \in Side,
               Start(s) \/ RekeyInitiate(s) \/ PopQueued(s) \/ SendApp(s)
                 \/ Disconnect(s) \/ Age(s) \/ Break(s) \/ PeerClosed(s)
        PROVE  Fixed
    BY <2>3, <2>6 DEF Start, RekeyInitiate, PopQueued, SendApp, Disconnect,
                      Age, Break, PeerClosed, Die, kexVars
  <2>7. CASE CertExpires
    BY <2>3, <2>7 DEF CertExpires, kexVars
  <2> QED
    BY <1>1, <2>5, <2>6, <2>7 DEF Next, Step
<1> QED
  BY <1>1, Inductive, PTL DEF Spec, SessionIdFixed

-----------------------------------------------------------------------------
(* The two directions.  What a side has sent and what its peer has taken of *)
(* it are each summed up by how many KEXINITs, shares (or replies) and      *)
(* NEWKEYS there were, and by the key and the number of the next packet.    *)
(* What is on the wire leads from the receiver's sum to the sender's.       *)

Epoch(key) == IF key = Plain THEN 0 ELSE key.h.i_c
Sums == [k : Nat, e : Nat, n : Nat, key : Key, seq : Nat]

SentSum(s) ==
    [k |-> kexinits[s], e |-> IF s = "client" THEN theirs[s] ELSE Epoch(tx[s]),
     n |-> Epoch(tx[s]), key |-> tx[s], seq |-> tx_seq[s]]
GotSum(s) ==
    [k |-> theirs[s], e |-> Epoch(tx[s]), n |-> Epoch(rx[s]), key |-> rx[s], seq |-> rx_seq[s]]

\* Where in an exchange such a sum stands, and what may come next from side s.
Sound(v) == \/ v.k = v.n /\ v.e = v.n
            \/ v.k = v.n + 1 /\ v.e = v.n
            \/ v.k = v.n + 1 /\ v.e = v.n + 1
Allowed(v, s) ==
    IF v.k = v.n
      THEN IF v.k = 0 THEN {"kexinit"} ELSE {"kexinit", "app", "ext_info", "disconnect"}
      ELSE IF v.e = v.k THEN {"newkeys"}
      ELSE IF s = "client" THEN {"ecdh_init"} ELSE {"ecdh_reply"}

\* x may follow v; key is the sender's key after the exchange.
Takes(v, x, s, key) ==
    /\ x.key = v.key /\ x.seq = v.seq
    /\ x.body.type \in Allowed(v, s)
    /\ x.body.type = "kexinit" => x.body.cookie = v.k + 1
    /\ x.body.type = "ecdh_reply" => x.body.sig.over = key.h
Moved(v, x, key) ==
    [k |-> IF x.body.type = "kexinit" THEN v.k + 1 ELSE v.k,
     e |-> IF x.body.type \in {"ecdh_init", "ecdh_reply"} THEN v.e + 1 ELSE v.e,
     n |-> IF x.body.type = "newkeys" THEN v.n + 1 ELSE v.n,
     key |-> IF x.body.type = "newkeys" THEN key ELSE v.key,
     seq |-> IF x.body.type = "newkeys" THEN 0 ELSE v.seq + 1]
Before(v, w) == v.k <= w.k /\ v.e <= w.e /\ v.n <= w.n

\* f leads through q from sum r to sum v.
Leads(f, q, s, key, r, v) ==
    /\ f \in [0..Len(q) -> Sums] /\ f[0] = r /\ f[Len(q)] = v
    /\ \A i \in 0..Len(q) : Sound(f[i])
    /\ \A i, j \in 0..Len(q) : i <= j => Before(f[i], f[j])
    /\ \A i \in 1..Len(q) : Takes(f[i - 1], q[i], s, key) /\ f[i] = Moved(f[i - 1], q[i], key)
Leading(q, s, key, r, v) == \E f : Leads(f, q, s, key, r, v)

WireInv == \A s \in Side : Leading(wire[s], s, tx[s], GotSum(Peer(s)), SentSum(s))

\* Where a side is: n KEXINITs made, t taken, the sending key of exchange x and
\* the receiving key of exchange y.
Place(ph, n, t, x, y) ==
    /\ \/ n = y /\ t = y /\ x = y
       \/ n = y + 1 /\ t = y /\ x = y
       \/ n = y + 1 /\ t = y + 1 /\ x = y
       \/ n = y + 1 /\ t = y + 1 /\ x = y + 1
    /\ ph = "start" => n = 0 /\ y = 0
    /\ ph = "init_wait" => n = 1 /\ t = 0 /\ y = 0
    /\ ph = "open" => y > 0 /\ n = y
    /\ ph = "rekey_wait" => y > 0 /\ n = y + 1 /\ t = y
    /\ ph \in {"ecdh_init", "ecdh_reply"} => t = y + 1 /\ x = y
    /\ ph = "newkeys" => x = y + 1
PlaceInv ==
    \A s \in Side : Place(phase[s], kexinits[s], theirs[s], Epoch(tx[s]), Epoch(rx[s]))

\* The keys of one exchange are the same at both ends, and all are derived with
\* the hash of the first exchange as the session id.
KeyInv ==
    /\ Epoch(tx["client"]) = Epoch(tx["server"]) => tx["client"] = tx["server"]
    /\ \A s \in Side :
          /\ tx[s] = Plain <=> session_id[s] = None
          /\ tx[s] # Plain => tx[s].sid = session_id[s] /\ Epoch(tx[s]) > 0
          /\ Epoch(tx[s]) = 1 => tx[s].h = tx[s].sid
          /\ phase[s] = "newkeys" => tx[s] = make_cipher(hash[s], session_id[s])
    /\ (session_id["client"] # None /\ session_id["server"] # None) =>
          session_id["client"] = session_id["server"]

ErrInv ==
    /\ rx_seq \in [Side -> Nat] /\ queued \in [Side -> Seq(Body)]
    /\ \A s \in Side : Len(queued[s]) <= MaxRekeyQueue
    /\ err \in [Side -> {"none", "closed", "hostkey", "queue"}]
    /\ err["server"] # "hostkey"
    /\ \A s \in Side : err[s] = "queue" => Len(queued[s]) = MaxRekeyQueue
    /\ \A s \in Side : err[s] # "none" => phase[s] = "dead"

FlowInv == WireInv /\ PlaceInv /\ KeyInv /\ ErrInv

-----------------------------------------------------------------------------
(* Lemmas about sums and what leads from one to another.                    *)

\* A packet that may follow a sound sum moves it to a sound one.
LEMMA MovedSound ==
    ASSUME NEW v \in Sums, NEW x, NEW s, NEW key \in Key, Sound(v), Takes(v, x, s, key)
    PROVE  Moved(v, x, key) \in Sums /\ Sound(Moved(v, x, key)) /\ Before(v, Moved(v, x, key))
<1>0. /\ v.k \in Nat /\ v.e \in Nat /\ v.n \in Nat /\ v.key \in Key /\ v.seq \in Nat
      /\ Sound(v) /\ x.body.type \in Allowed(v, s)
  BY DEF Sums, Takes
<1> DEFINE w == Moved(v, x, key)
<1>1. /\ w.k = (IF x.body.type = "kexinit" THEN v.k + 1 ELSE v.k)
      /\ w.e = (IF x.body.type \in {"ecdh_init", "ecdh_reply"} THEN v.e + 1 ELSE v.e)
      /\ w.n = (IF x.body.type = "newkeys" THEN v.n + 1 ELSE v.n)
  BY DEF Moved
<1>2. w \in Sums
  BY <1>0 DEF Moved, Sums
<1> HIDE DEF w
<1>3. Sound(w)
  BY <1>0, <1>1 DEF Sound, Allowed
<1>4. Before(v, w)
  BY <1>0, <1>1 DEF Before
<1> QED
  BY <1>2, <1>3, <1>4 DEF w

\* Before is transitive.
LEMMA BeforeTrans ==
    ASSUME NEW a \in Sums, NEW b \in Sums, NEW c \in Sums, Before(a, b), Before(b, c)
    PROVE  Before(a, c)
<1>1. /\ a.k \in Nat /\ a.e \in Nat /\ a.n \in Nat /\ b.k \in Nat /\ b.e \in Nat /\ b.n \in Nat
      /\ c.k \in Nat /\ c.e \in Nat /\ c.n \in Nat
  BY DEF Sums
<1> QED
  BY <1>1 DEF Before

\* The ends of what leads from one to the other.
LEMMA LeadsEnds ==
    ASSUME NEW P, NEW q \in Seq(P), NEW s, NEW key, NEW r, NEW v, Leading(q, s, key, r, v)
    PROVE  /\ r \in Sums /\ v \in Sums /\ Sound(r) /\ Sound(v) /\ Before(r, v)
           /\ q = <<>> => r = v
<1>1. PICK f : Leads(f, q, s, key, r, v)
  BY DEF Leading
<1>2. Len(q) \in Nat /\ 0 \in 0..Len(q) /\ Len(q) \in 0..Len(q) /\ 0 <= Len(q)
  OBVIOUS
<1>3. q = <<>> => Len(q) = 0
  OBVIOUS
<1> HIDE DEF Sums
<1>4. f[0] = r /\ f[Len(q)] = v /\ f[0] \in Sums /\ f[Len(q)] \in Sums
  BY <1>1, <1>2 DEF Leads
<1>5. Sound(f[0]) /\ Sound(f[Len(q)]) /\ Before(f[0], f[Len(q)])
  BY <1>1, <1>2 DEF Leads
<1> QED
  BY <1>3, <1>4, <1>5

\* One more packet at the end.
LEMMA LeadsSend ==
    ASSUME NEW P, NEW q \in Seq(P), NEW x \in P, NEW s, NEW key \in Key, NEW r, NEW v,
           Leading(q, s, key, r, v), Takes(v, x, s, key)
    PROVE  Leading(Append(q, x), s, key, r, Moved(v, x, key))
<1>1. PICK f : Leads(f, q, s, key, r, v)
  BY DEF Leading
<1> DEFINE n == Len(q)
           w == Moved(v, x, key)
           g == [i \in 0..n + 1 |-> IF i = n + 1 THEN w ELSE f[i]]
           z == Append(q, x)
<1>2. n \in Nat /\ Len(z) = n + 1 /\ z[n + 1] = x /\ \A i \in 1..n : z[i] = q[i]
  OBVIOUS
<1>3. /\ f \in [0..n -> Sums] /\ f[0] = r /\ f[n] = v
      /\ \A i \in 0..n : Sound(f[i])
      /\ \A i, j \in 0..n : i <= j => Before(f[i], f[j])
      /\ \A i \in 1..n : Takes(f[i - 1], q[i], s, key) /\ f[i] = Moved(f[i - 1], q[i], key)
  BY <1>1 DEF Leads
<1>4. v \in Sums /\ Sound(v)
  BY <1>2, <1>3
<1>5. w \in Sums /\ Sound(w) /\ Before(v, w)
  BY <1>4, MovedSound
<1>w. w = Moved(v, x, key)
  OBVIOUS
<1> HIDE DEF n, z, w
<1>6. /\ \A i \in 0..n : g[i] = f[i]
      /\ g[n + 1] = w
  BY <1>2
<1>7. \A i \in 0..n : Before(f[i], w)
  <2> SUFFICES ASSUME NEW i \in 0..n PROVE Before(f[i], w)
    OBVIOUS
  <2>1. f[i] \in Sums
    BY <1>3
  <2>2. n \in 0..n /\ i <= n
    BY <1>2
  <2>3. Before(f[i], v)
    BY <1>3, <2>2
  <2> QED
    BY <2>1, <2>3, <1>4, <1>5, BeforeTrans
<1>8. Before(w, w)
  BY <1>5 DEF Before, Sums
<1>9. g \in [0..n + 1 -> Sums]
  BY <1>2, <1>3, <1>5
<1> HIDE DEF g
<1>10. \A i \in 0..n + 1 : i \in 0..n \/ i = n + 1
  BY <1>2
<1>11. \A i \in 0..n + 1 : Sound(g[i])
  BY <1>3, <1>5, <1>6, <1>10
<1>12. ASSUME NEW i \in 0..n + 1, NEW j \in 0..n + 1, i <= j PROVE Before(g[i], g[j])
  <2>1. CASE j = n + 1
    BY <2>1, <1>6, <1>7, <1>8, <1>10
  <2>2. CASE j \in 0..n
    <3>1. i \in 0..n
      BY <1>2, <1>12, <2>2
    <3> QED
      BY <3>1, <2>2, <1>3, <1>6, <1>12
  <2> QED
    BY <1>10, <2>1, <2>2
<1>13. ASSUME NEW i \in 1..n + 1
       PROVE  Takes(g[i - 1], z[i], s, key) /\ g[i] = Moved(g[i - 1], z[i], key)
  <2>1. CASE i = n + 1
    <3>1. i - 1 = n /\ n \in 0..n
      BY <1>2, <2>1
    <3>2. g[i - 1] = v /\ z[i] = x /\ g[i] = w
      BY <3>1, <2>1, <1>2, <1>3, <1>6
    <3> QED
      BY <3>2, <1>w
  <2>2. CASE i # n + 1
    <3>1. i \in 1..n /\ i \in 0..n /\ i - 1 \in 0..n
      BY <1>2, <2>2
    <3>2. g[i - 1] = f[i - 1] /\ g[i] = f[i] /\ z[i] = q[i]
      BY <3>1, <1>2, <1>6
    <3> QED
      BY <3>1, <3>2, <1>3
  <2> QED
    BY <2>1, <2>2
<1>14. g[0] = r /\ g[n + 1] = w
  BY <1>2, <1>3, <1>6
<1>15. Leads(g, z, s, key, r, w)
  BY <1>2, <1>9, <1>11, <1>12, <1>13, <1>14 DEF Leads
<1> QED
  BY <1>15 DEF Leading, z, w

\* The first packet taken.
LEMMA LeadsTake ==
    ASSUME NEW P, NEW q \in Seq(P), NEW s, NEW key \in Key, NEW r, NEW v,
           Leading(q, s, key, r, v), q # <<>>
    PROVE  /\ Takes(r, Head(q), s, key)
           /\ Leading(Tail(q), s, key, Moved(r, Head(q), key), v)
<1>1. PICK f : Leads(f, q, s, key, r, v)
  BY DEF Leading
<1> DEFINE n == Len(q)
           g == [i \in 0..n - 1 |-> f[i + 1]]
           z == Tail(q)
<1>2. /\ n \in Nat /\ n >= 1 /\ Len(z) = n - 1 /\ Head(q) = q[1]
      /\ \A i \in 1..n - 1 : z[i] = q[i + 1]
  OBVIOUS
<1>3. /\ f \in [0..n -> Sums] /\ f[0] = r /\ f[n] = v
      /\ \A i \in 0..n : Sound(f[i])
      /\ \A i, j \in 0..n : i <= j => Before(f[i], f[j])
      /\ \A i \in 1..n : Takes(f[i - 1], q[i], s, key) /\ f[i] = Moved(f[i - 1], q[i], key)
  BY <1>1 DEF Leads
<1> HIDE DEF n, z
<1>4. 1 \in 1..n /\ 1 - 1 = 0
  BY <1>2
<1>5. Takes(r, Head(q), s, key) /\ f[1] = Moved(r, Head(q), key)
  BY <1>2, <1>3, <1>4
<1>6. \A i \in 0..n - 1 : i + 1 \in 0..n /\ g[i] = f[i + 1]
  BY <1>2
<1>7. g \in [0..n - 1 -> Sums]
  BY <1>2, <1>3, <1>6
<1> HIDE DEF g
<1>8. \A i \in 0..n - 1 : Sound(g[i])
  BY <1>3, <1>6
<1>9. ASSUME NEW i \in 0..n - 1, NEW j \in 0..n - 1, i <= j PROVE Before(g[i], g[j])
  <2>1. i + 1 \in 0..n /\ j + 1 \in 0..n /\ i + 1 <= j + 1
    BY <1>2, <1>9
  <2> QED
    BY <2>1, <1>3, <1>6
<1>10. ASSUME NEW i \in 1..n - 1
       PROVE  Takes(g[i - 1], z[i], s, key) /\ g[i] = Moved(g[i - 1], z[i], key)
  <2>1. /\ i + 1 \in 1..n /\ (i + 1) - 1 = i /\ i - 1 \in 0..n - 1 /\ i \in 0..n - 1
        /\ (i - 1) + 1 = i
    BY <1>2
  <2>2. g[i - 1] = f[i] /\ g[i] = f[i + 1] /\ z[i] = q[i + 1]
    BY <2>1, <1>2, <1>6
  <2>3. Takes(f[(i + 1) - 1], q[i + 1], s, key) /\ f[i + 1] = Moved(f[(i + 1) - 1], q[i + 1], key)
    BY <2>1, <1>3
  <2> QED
    BY <2>1, <2>2, <2>3
<1>11. g[0] = f[1] /\ g[n - 1] = v
  <2>1. 0 \in 0..n - 1 /\ n - 1 \in 0..n - 1 /\ (n - 1) + 1 = n /\ 0 + 1 = 1
    BY <1>2
  <2> QED
    BY <2>1, <1>3, <1>6
<1>12. Leads(g, z, s, key, f[1], v)
  BY <1>2, <1>7, <1>8, <1>9, <1>10, <1>11 DEF Leads
<1> QED
  BY <1>5, <1>12 DEF Leading, z

\* While no switch is on the wire, what it leads to does not depend on the
\* sender's next key: nor does a reply, which signs what that key is made from.
LEMMA LeadsKey ==
    ASSUME NEW P, NEW q \in Seq(P), NEW s, NEW key, NEW new, NEW r, NEW v,
           Leading(q, s, key, r, v), v.n = r.n, s = "client" \/ v.e = r.e
    PROVE  Leading(q, s, new, r, v)
<1>1. PICK f : Leads(f, q, s, key, r, v)
  BY DEF Leading
<1> DEFINE n == Len(q)
<1>2. n \in Nat
  OBVIOUS
<1>3. /\ f \in [0..n -> Sums] /\ f[0] = r /\ f[n] = v
      /\ \A i \in 0..n : Sound(f[i])
      /\ \A i, j \in 0..n : i <= j => Before(f[i], f[j])
      /\ \A i \in 1..n : Takes(f[i - 1], q[i], s, key) /\ f[i] = Moved(f[i - 1], q[i], key)
  BY <1>1 DEF Leads
<1> HIDE DEF n
<1>4. ASSUME NEW i \in 1..n
      PROVE  Takes(f[i - 1], q[i], s, new) /\ f[i] = Moved(f[i - 1], q[i], new)
  <2> DEFINE a == f[i - 1]
             b == f[i]
             x == q[i]
  <2>1. /\ i \in 0..n /\ i - 1 \in 0..n /\ 0 \in 0..n /\ n \in 0..n
        /\ 0 <= i - 1 /\ i <= n
    BY <1>2
  <2>2. a \in Sums /\ b \in Sums /\ Before(r, a) /\ Before(b, v) /\ r \in Sums /\ v \in Sums
    BY <2>1, <1>3
  <2>3. Takes(a, x, s, key) /\ b = Moved(a, x, key)
    BY <1>3
  <2> HIDE DEF a, b, x
  <2>4. /\ r.n \in Nat /\ r.e \in Nat /\ v.n \in Nat /\ v.e \in Nat
        /\ a.n \in Nat /\ a.e \in Nat /\ b.n \in Nat /\ b.e \in Nat
    BY <2>2 DEF Sums
  <2>5. /\ b.n = (IF x.body.type = "newkeys" THEN a.n + 1 ELSE a.n)
        /\ b.e = (IF x.body.type \in {"ecdh_init", "ecdh_reply"} THEN a.e + 1 ELSE a.e)
    BY <2>3 DEF Moved
  <2>6. r.n <= a.n /\ b.n <= v.n /\ r.e <= a.e /\ b.e <= v.e
    BY <2>2 DEF Before
  <2>7. x.body.type # "newkeys"
    BY <2>4, <2>5, <2>6
  <2>8. x.body.type # "ecdh_reply"
    <3>1. CASE s = "client"
      BY <2>3, <3>1 DEF Takes, Allowed
    <3>2. CASE v.e = r.e
      BY <2>4, <2>5, <2>6, <3>2
    <3> QED
      BY <3>1, <3>2
  <2>9. Takes(a, x, s, new)
    BY <2>3, <2>8 DEF Takes
  <2>10. Moved(a, x, new) = Moved(a, x, key)
    BY <2>7 DEF Moved
  <2> QED
    BY <2>3, <2>9, <2>10 DEF a, b, x
<1>5. Leads(f, q, s, new, r, v)
  BY <1>1, <1>4 DEF Leads, n
<1> QED
  BY <1>5 DEF Leading

\* An empty wire leads nowhere.
LEMMA LeadsNone ==
    ASSUME NEW s, NEW key, NEW r \in Sums, Sound(r)
    PROVE  Leading(<<>>, s, key, r, r)
<1> DEFINE f == [i \in 0..0 |-> r]
<1>1. Len(<<>>) = 0 /\ 0..0 = {0} /\ 1..0 = {}
  OBVIOUS
<1>2. Before(r, r)
  BY DEF Before, Sums
<1>3. f \in [0..0 -> Sums] /\ f[0] = r
  BY <1>1
<1> HIDE DEF f
<1>4. Leads(f, <<>>, s, key, r, r)
  BY <1>1, <1>2, <1>3 DEF Leads
<1> QED
  BY <1>4 DEF Leading

-----------------------------------------------------------------------------
(* What the invariant says of one side and its peer.                        *)

Pkts == Packet(0..RekeyPackets + 2)
Pkt(key, q, m) == [key |-> key, seq |-> q, body |-> m]

\* A derived key is not the plain one, and a hash is not None.
LEMMA KeyKinds ==
    /\ \A h, sid : make_cipher(h, sid) # Plain
    /\ None \notin Hash
<1>1. ASSUME NEW h, NEW sid, make_cipher(h, sid) = Plain PROVE FALSE
  <2>1. DOMAIN make_cipher(h, sid) = {"h", "sid"} /\ DOMAIN Plain = {"plain"}
    BY DEF make_cipher, Plain
  <2> QED
    BY <1>1, <2>1
<1>2. None \notin Hash
  <2>1. DOMAIN None = {"none"} /\ \A h \in Hash : DOMAIN h = {"i_c", "i_s", "k_s"}
    BY DEF None, Hash
  <2> QED
    BY <2>1
<1> QED
  BY <1>1, <1>2

\* The exchange a key is from.
LEMMA EpochType ==
    /\ \A key \in Key : Epoch(key) \in Nat
    /\ \A h \in Hash : \A sid : Epoch(make_cipher(h, sid)) = h.i_c
    /\ Epoch(Plain) = 0
<1>1. ASSUME NEW key \in Key PROVE Epoch(key) \in Nat
  BY DEF Key, Epoch, Hash
<1>2. ASSUME NEW h \in Hash, NEW sid PROVE Epoch(make_cipher(h, sid)) = h.i_c
  <2>1. make_cipher(h, sid) # Plain /\ make_cipher(h, sid).h = h
    BY KeyKinds DEF make_cipher
  <2> QED
    BY <2>1 DEF Epoch
<1> QED
  BY <1>1, <1>2 DEF Epoch

\* What is sealed, packet by packet.
LEMMA SealOne ==
    ASSUME NEW key \in Key, NEW q \in Nat, q <= RekeyPackets + 2, NEW m \in Body
    PROVE  Pkt(key, q, m) \in Pkts /\ Seal(key, q, <<m>>) = <<Pkt(key, q, m)>>
<1>1. q < SeqMod /\ (q + 1) - 1 = q
  BY TransportAssumption
<1>2. q % SeqMod = q
  BY <1>1, ModSmall, TransportAssumption
<1>3. Pkt(key, q, m) \in Pkts
  BY TransportAssumption DEF Pkt, Pkts, Packet
<1>4. Len(<<m>>) = 1 /\ <<m>>[1] = m
  OBVIOUS
<1> DEFINE z == Seal(key, q, <<m>>)
<1>5. DOMAIN z = 1..1 /\ z[1] = [key |-> key, seq |-> (q + 1 - 1) % SeqMod, body |-> m]
  BY <1>4 DEF Seal
<1>6. z \in Seq(Pkts) /\ Len(z) = 1 /\ z[1] = Pkt(key, q, m)
  <2>1. z[1] = Pkt(key, q, m)
    BY <1>1, <1>2, <1>5 DEF Pkt
  <2>2. z \in Seq(Pkts)
    <3> DEFINE one == <<m>>
    <3>1. one \in Seq(Body) /\ q + Len(one) <= RekeyPackets + 3
      BY <1>4, TransportAssumption
    <3> HIDE DEF one
    <3>2. Seal(key, q, one) \in Seq(Pkts)
      BY <3>1, SealBounded DEF Pkts
    <3> QED
      BY <3>2 DEF one
  <2>3. Len(z) = 1
    <3> HIDE DEF z
    <3> QED
      BY <1>5, <2>2
  <2> QED
    BY <2>1, <2>2, <2>3
<1> HIDE DEF z
<1>7. z = <<Pkt(key, q, m)>>
  BY <1>6
<1> QED
  BY <1>3, <1>7 DEF z

\* Both ends, and what leads from one to the other.
LEMMA Ends ==
    ASSUME IInv, FlowInv, NEW s \in Side
    PROVE  /\ Peer(s) \in Side /\ Peer(s) # s /\ Peer(Peer(s)) = s
           /\ wire[s] \in Seq(Pkts) /\ tx[s] \in Key /\ rx[s] \in Key
           /\ kexinits[s] \in Nat /\ theirs[s] \in Nat
           /\ tx_seq[s] \in 0..RekeyPackets + 2 /\ rx_seq[s] \in Nat
           /\ Epoch(tx[s]) \in Nat /\ Epoch(rx[s]) \in Nat
           /\ Leading(wire[s], s, tx[s], GotSum(Peer(s)), SentSum(s))
           /\ Leading(wire[Peer(s)], Peer(s), tx[Peer(s)], GotSum(s), SentSum(Peer(s)))
           /\ Place(phase[s], kexinits[s], theirs[s], Epoch(tx[s]), Epoch(rx[s]))
<1>1. Peer(s) \in Side /\ Peer(s) # s /\ Peer(Peer(s)) = s
  <2>1. Peer(s) \in Side /\ Peer(s) # s /\ Peer(Peer(s)) \in Side /\ Peer(Peer(s)) # Peer(s)
    BY PeerSide
  <2> QED
    BY <2>1 DEF Side
<1>2. /\ wire[s] \in Seq(Pkts) /\ tx[s] \in Key /\ rx[s] \in Key
      /\ kexinits[s] \in Nat /\ theirs[s] \in Nat
      /\ tx_seq[s] \in 0..RekeyPackets + 2 /\ rx_seq[s] \in Nat
  BY DEF IInv, Typed, FlowInv, ErrInv, Pkts
<1>3. Epoch(tx[s]) \in Nat /\ Epoch(rx[s]) \in Nat
  BY <1>2, EpochType
<1>4. /\ Leading(wire[s], s, tx[s], GotSum(Peer(s)), SentSum(s))
      /\ Leading(wire[Peer(s)], Peer(s), tx[Peer(s)], GotSum(s), SentSum(Peer(s)))
  BY <1>1 DEF FlowInv, WireInv
<1> QED
  BY <1>1, <1>2, <1>3, <1>4 DEF FlowInv, PlaceInv

\* A sum's fields.
LEMMA SumFields ==
    \A s : /\ SentSum(s).k = kexinits[s] /\ SentSum(s).n = Epoch(tx[s])
           /\ SentSum(s).e = (IF s = "client" THEN theirs[s] ELSE Epoch(tx[s]))
           /\ SentSum(s).key = tx[s] /\ SentSum(s).seq = tx_seq[s]
           /\ GotSum(s).k = theirs[s] /\ GotSum(s).e = Epoch(tx[s])
           /\ GotSum(s).n = Epoch(rx[s]) /\ GotSum(s).key = rx[s] /\ GotSum(s).seq = rx_seq[s]
  BY DEF SentSum, GotSum

\* A side has taken no more than its peer has sent.
LEMMA Bounds ==
    ASSUME IInv, FlowInv, NEW s \in Side
    PROVE  /\ theirs[Peer(s)] <= kexinits[s]
           /\ Epoch(rx[Peer(s)]) <= Epoch(tx[s])
           /\ s = "client" => Epoch(tx[Peer(s)]) <= theirs[s]
           /\ s = "server" => Epoch(tx[Peer(s)]) <= Epoch(tx[s])
<1>1. wire[s] \in Seq(Pkts) /\ Leading(wire[s], s, tx[s], GotSum(Peer(s)), SentSum(s))
  BY Ends
<1>2. Before(GotSum(Peer(s)), SentSum(s))
  BY <1>1, LeadsEnds
<1> QED
  BY <1>2, SumFields DEF Before

\* Two packets sealed one after the other.
LEMMA SealTwo ==
    ASSUME NEW key \in Key, NEW q \in Nat, q + 1 <= RekeyPackets + 2, NEW a \in Body, NEW b \in Body
    PROVE  Seal(key, q, <<a, b>>) = <<Pkt(key, q, a), Pkt(key, q + 1, b)>>
<1>1. q < SeqMod /\ q + 1 < SeqMod /\ (q + 1) - 1 = q /\ (q + 2) - 1 = q + 1
  BY TransportAssumption
<1>2. q % SeqMod = q /\ (q + 1) % SeqMod = q + 1
  BY <1>1, ModSmall, TransportAssumption
<1>4. Len(<<a, b>>) = 2 /\ <<a, b>>[1] = a /\ <<a, b>>[2] = b
  OBVIOUS
<1> DEFINE z == Seal(key, q, <<a, b>>)
<1>5. /\ DOMAIN z = 1..2
      /\ z[1] = [key |-> key, seq |-> (q + 1 - 1) % SeqMod, body |-> a]
      /\ z[2] = [key |-> key, seq |-> (q + 2 - 1) % SeqMod, body |-> b]
  BY <1>4 DEF Seal
<1>6. z[1] = Pkt(key, q, a) /\ z[2] = Pkt(key, q + 1, b)
  BY <1>1, <1>2, <1>5 DEF Pkt
<1>7. z \in Seq(Pkts)
  <2> DEFINE two == <<a, b>>
  <2>1. two \in Seq(Body) /\ q + Len(two) <= RekeyPackets + 3
    BY <1>4, TransportAssumption
  <2> HIDE DEF two
  <2>2. Seal(key, q, two) \in Seq(Pkts)
    BY <2>1, SealBounded DEF Pkts
  <2> QED
    BY <2>2 DEF two
<1> HIDE DEF z
<1>8. Len(z) = 2
  BY <1>5, <1>7
<1>9. z = <<Pkt(key, q, a), Pkt(key, q + 1, b)>>
  BY <1>6, <1>7, <1>8
<1> QED
  BY <1>9 DEF z

\* Sealed packets at the end of a wire.
LEMMA SealEnd ==
    ASSUME NEW w \in Seq(Pkts), NEW key \in Key, NEW q \in Nat, q <= RekeyPackets + 2
    PROVE  /\ \A a \in Body : w \o Seal(key, q, <<a>>) = Append(w, Pkt(key, q, a))
           /\ q + 1 <= RekeyPackets + 2 =>
                \A a, b \in Body : w \o Seal(key, q, <<a, b>>)
                                     = Append(Append(w, Pkt(key, q, a)), Pkt(key, q + 1, b))
<1>1. ASSUME NEW a \in Body
      PROVE  w \o Seal(key, q, <<a>>) = Append(w, Pkt(key, q, a))
  <2> DEFINE x == Pkt(key, q, a)
  <2>1. Seal(key, q, <<a>>) = <<x>> /\ x \in Pkts
    BY SealOne
  <2> HIDE DEF x
  <2>2. w \o <<x>> = Append(w, x)
    BY <2>1
  <2> QED
    BY <2>1, <2>2 DEF x
<1>2. ASSUME NEW a \in Body, NEW b \in Body, q + 1 <= RekeyPackets + 2
      PROVE  w \o Seal(key, q, <<a, b>>)
               = Append(Append(w, Pkt(key, q, a)), Pkt(key, q + 1, b))
  <2> DEFINE x == Pkt(key, q, a)
             y == Pkt(key, q + 1, b)
  <2>1. Seal(key, q, <<a, b>>) = <<x, y>>
    BY <1>2, SealTwo
  <2>2. x \in Pkts /\ y \in Pkts
    <3>1. x \in Pkts
      BY SealOne
    <3>2. \A n \in Nat : n <= RekeyPackets + 2 => Pkt(key, n, b) \in Pkts
      BY SealOne
    <3>3. q + 1 \in Nat
      OBVIOUS
    <3> QED
      BY <1>2, <3>1, <3>2, <3>3
  <2> HIDE DEF x, y
  <2>3. w \o <<x, y>> = Append(Append(w, x), y)
    BY <2>2
  <2> QED
    BY <2>1, <2>3 DEF x, y
<1> QED
  BY <1>1, <1>2

\* A step of one side leaves its peer where it was.
Same(p) ==
    /\ phase'[p] = phase[p] /\ kexinits'[p] = kexinits[p] /\ theirs'[p] = theirs[p]
    /\ tx'[p] = tx[p] /\ rx'[p] = rx[p] /\ tx_seq'[p] = tx_seq[p] /\ rx_seq'[p] = rx_seq[p]
    /\ session_id'[p] = session_id[p] /\ hash'[p] = hash[p]

\* A direction nothing happens to has the same accounts.
LEMMA SameSums ==
    ASSUME NEW p, Same(p) PROVE GotSum(p)' = GotSum(p) /\ SentSum(p)' = SentSum(p)
  BY DEF Same, GotSum, SentSum

\* What is left to show of a step: both wires and where the side then is.
LEMMA WireStep ==
    ASSUME IInv, FlowInv, NEW s \in Side, Same(Peer(s)),
           Leading(wire'[s], s, tx'[s], GotSum(Peer(s)), SentSum(s)'),
           Leading(wire'[Peer(s)], Peer(s), tx[Peer(s)], GotSum(s)', SentSum(Peer(s))),
           Place(phase'[s], kexinits'[s], theirs'[s], Epoch(tx'[s]), Epoch(rx'[s]))
    PROVE  WireInv' /\ PlaceInv'
<1> DEFINE p == Peer(s)
<1>1. p \in Side /\ p # s /\ Peer(p) = s /\ Side = {s, p}
  BY Ends DEF Side
<1>2. GotSum(p)' = GotSum(p) /\ SentSum(p)' = SentSum(p) /\ tx'[p] = tx[p]
  BY SameSums DEF Same
<1>3. /\ Leading(wire'[s], s, tx'[s], GotSum(p)', SentSum(s)')
      /\ Leading(wire'[p], p, tx'[p], GotSum(s)', SentSum(p)')
  BY <1>2
<1>4. Place(phase'[p], kexinits'[p], theirs'[p], Epoch(tx'[p]), Epoch(rx'[p]))
  <2>1. Place(phase[p], kexinits[p], theirs[p], Epoch(tx[p]), Epoch(rx[p]))
    BY <1>1, Ends
  <2> QED
    BY <2>1 DEF Same
<1>5. p = Peer(s)
  OBVIOUS
<1> HIDE DEF p
<1>6. WireInv'
  <2> SUFFICES ASSUME NEW t \in Side
               PROVE  Leading(wire'[t], t, tx'[t], GotSum(Peer(t))', SentSum(t)')
    BY DEF WireInv
  <2>1. CASE t = s
    BY <2>1, <1>3, <1>5
  <2>2. CASE t = p
    BY <2>2, <1>1, <1>3, <1>5
  <2> QED
    BY <1>1, <2>1, <2>2
<1>7. PlaceInv'
  <2> SUFFICES ASSUME NEW t \in Side
               PROVE  Place(phase'[t], kexinits'[t], theirs'[t], Epoch(tx'[t]), Epoch(rx'[t]))
    BY DEF PlaceInv, Epoch
  <2> QED
    BY <1>1, <1>4
<1> QED
  BY <1>6, <1>7

\* The keys are as before when none changes.
LEMMA KeyStep ==
    ASSUME IInv, FlowInv, NEW s \in Side, Same(Peer(s)), UNCHANGED <<tx, session_id>>,
           phase'[s] # "newkeys"
    PROVE  KeyInv'
<1>1. Side = {s, Peer(s)}
  BY Ends DEF Side
<1>2. KeyInv
  BY DEF FlowInv
<1>3. /\ phase'[Peer(s)] = phase[Peer(s)] /\ hash'[Peer(s)] = hash[Peer(s)]
  BY DEF Same
<1>4. \A t \in Side : phase'[t] = "newkeys" => t = Peer(s)
  BY <1>1
<1>5. \A t \in Side : phase'[t] = "newkeys" => tx'[t] = make_cipher(hash'[t], session_id'[t])
  BY <1>2, <1>3, <1>4 DEF KeyInv
<1> QED
  BY <1>2, <1>5 DEF KeyInv, Epoch

\* One packet sent by a side outside an exchange, or opening one.
LEMMA SendOneFlow ==
    ASSUME IInv, FlowInv, NEW s \in Side, NEW m \in Body, SendRaw(s, <<m>>),
           UNCHANGED <<tx, rx, rx_seq, kexVars>>, tx_seq[s] <= RekeyPackets,
           kexinits' = [kexinits EXCEPT ![s] = IF m.type = "kexinit" THEN @ + 1 ELSE @],
           m.type \in Allowed(SentSum(s), s), m.type \in {"kexinit", "app", "disconnect"},
           m.type = "kexinit" => m.cookie = kexinits[s] + 1,
           phase'[Peer(s)] = phase[Peer(s)], phase'[s] # "newkeys",
           Place(phase'[s], kexinits'[s], theirs[s], Epoch(tx[s]), Epoch(rx[s]))
    PROVE  WireInv' /\ PlaceInv' /\ KeyInv'
<1> DEFINE p == Peer(s)
           x == Pkt(tx[s], tx_seq[s], m)
<1>1. /\ p \in Side /\ p # s /\ wire[s] \in Seq(Pkts) /\ tx[s] \in Key /\ tx_seq[s] \in Nat
      /\ Leading(wire[s], s, tx[s], GotSum(p), SentSum(s))
      /\ Leading(wire[p], p, tx[p], GotSum(s), SentSum(p))
      /\ RekeyPackets \in Nat /\ tx_seq[s] <= RekeyPackets + 2 /\ tx_seq[s] + 1 <= RekeyPackets + 2
  BY Ends, TransportAssumption
<1>2. wire \in [Side -> Seq(Packet(0..RekeyPackets + 2))] /\ kexinits \in [Side -> Nat]
      /\ tx_seq \in [Side -> 0..RekeyPackets + 2]
  BY DEF IInv, Typed
<1>3. wire'[s] = Append(wire[s], x) /\ wire'[p] = wire[p] /\ x \in Pkts
  <2>1. wire[s] \o Seal(tx[s], tx_seq[s], <<m>>) = Append(wire[s], x)
    BY <1>1, SealEnd
  <2> HIDE DEF x
  <2>2. wire'[s] = wire[s] \o Seal(tx[s], tx_seq[s], <<m>>) /\ wire'[p] = wire[p]
    BY <1>1, <1>2 DEF SendRaw
  <2>3. x \in Pkts
    BY <1>1, SealOne DEF x
  <2> QED
    BY <2>1, <2>2, <2>3
<1>4. tx_seq'[s] = tx_seq[s] + 1 /\ tx_seq'[p] = tx_seq[p]
  <2> DEFINE one == <<m>>
  <2>1. one \in Seq(Body) /\ Len(one) = 1 /\ SendRaw(s, one)
    OBVIOUS
  <2> HIDE DEF one
  <2>2. tx_seq' = [tx_seq EXCEPT ![s] = @ + Len(one)]
    BY <1>1, <2>1, SendRawIInv
  <2> QED
    BY <1>1, <1>2, <2>1, <2>2
<1>5. Takes(SentSum(s), x, s, tx[s])
  <2>1. x.key = tx[s] /\ x.seq = tx_seq[s] /\ x.body = m
    BY DEF Pkt
  <2> QED
    BY <2>1, SumFields DEF Takes
<1>6. SentSum(s)' = Moved(SentSum(s), x, tx[s])
  <2>1. x.body = m
    BY DEF Pkt
  <2>2. kexinits'[s] = (IF m.type = "kexinit" THEN kexinits[s] + 1 ELSE kexinits[s])
    BY <1>2
  <2>3. theirs' = theirs /\ tx' = tx
    BY DEF kexVars
  <2> HIDE DEF x
  <2> QED
    BY <1>4, <2>1, <2>2, <2>3 DEF SentSum, Moved
<1>7. Leading(wire'[s], s, tx'[s], GotSum(p), SentSum(s)')
  <2>1. Leading(Append(wire[s], x), s, tx[s], GotSum(p), Moved(SentSum(s), x, tx[s]))
    BY <1>1, <1>3, <1>5, LeadsSend
  <2> QED
    BY <1>3, <1>6, <2>1
<1>8. Same(p)
  BY <1>1, <1>2, <1>4 DEF Same, kexVars
<1>9. GotSum(s)' = GotSum(s)
  BY DEF GotSum, kexVars
<1>10. Leading(wire'[p], p, tx[p], GotSum(s)', SentSum(p))
  BY <1>1, <1>3, <1>9
<1>11. WireInv' /\ PlaceInv'
  BY <1>7, <1>8, <1>10, WireStep DEF kexVars
<1> QED
  BY <1>8, <1>11, KeyStep DEF kexVars

\* The packet a side reads next is the one its receiving direction waits for.
LEMMA NextPacket ==
    ASSUME IInv, FlowInv, NEW s \in Side, wire[Peer(s)] # <<>>
    PROVE  LET p == Peer(s)
               x == Head(wire[p])
           IN  /\ x \in Pkts /\ x.body \in Body
               /\ Takes(GotSum(s), x, p, tx[p])
               /\ Leading(Tail(wire[p]), p, tx[p], Moved(GotSum(s), x, tx[p]), SentSum(p))
               /\ Authentic(s, x)
               /\ (rx_seq[s] + 1) % SeqMod = rx_seq[s] + 1
<1> DEFINE p == Peer(s)
           x == Head(wire[p])
<1>1. /\ p \in Side /\ wire[p] \in Seq(Pkts) /\ tx[p] \in Key
      /\ Leading(wire[p], p, tx[p], GotSum(s), SentSum(p)) /\ rx_seq[s] \in Nat
  BY Ends
<1>2. x \in Pkts
  BY <1>1
<1>3. /\ Takes(GotSum(s), x, p, tx[p])
      /\ Leading(Tail(wire[p]), p, tx[p], Moved(GotSum(s), x, tx[p]), SentSum(p))
  BY <1>1, LeadsTake
<1> HIDE DEF x
<1>4. x.body \in Body /\ x.seq \in 0..RekeyPackets + 2
  BY <1>2 DEF Pkts, Packet
<1>5. x.key = rx[s] /\ x.seq = rx_seq[s]
  BY <1>3, SumFields DEF Takes
<1>6. (rx_seq[s] + 1) % SeqMod = rx_seq[s] + 1
  <2>1. rx_seq[s] + 1 < SeqMod /\ rx_seq[s] + 1 \in Nat
    BY <1>1, <1>4, <1>5, TransportAssumption
  <2> QED
    BY <2>1, ModSmall, TransportAssumption
<1> QED
  BY <1>2, <1>3, <1>4, <1>5, <1>6 DEF Authentic, x

\* The wires and counters after a packet is taken and others are sent.
LEMMA TookWires ==
    ASSUME IInv, FlowInv, NEW s \in Side, wire[Peer(s)] # <<>>, NEW bodies, Took(s, bodies)
    PROVE  LET p == Peer(s)
           IN  /\ wire'[p] = Tail(wire[p])
               /\ wire'[s] = wire[s] \o Seal(tx[s], tx_seq[s], bodies)
               /\ rx_seq'[s] = rx_seq[s] + 1 /\ rx_seq'[p] = rx_seq[p]
<1> DEFINE p == Peer(s)
<1>1. /\ p \in Side /\ p # s /\ (rx_seq[s] + 1) % SeqMod = rx_seq[s] + 1
      /\ wire \in [Side -> Seq(Packet(0..RekeyPackets + 2))] /\ rx_seq \in [Side -> Nat]
  BY Ends, NextPacket DEF IInv, Typed, FlowInv, ErrInv
<1> QED
  BY <1>1 DEF Took

\* A packet taken outside an exchange, with nothing to send.
LEMMA TakeOneFlow ==
    ASSUME IInv, FlowInv, NEW s \in Side, wire[Peer(s)] # <<>>, Took(s, <<>>),
           Head(wire[Peer(s)]).body.type \in {"app", "ext_info"}, phase[s] # "newkeys",
           UNCHANGED <<phase, tx, rx, kexinits, kexVars>>
    PROVE  WireInv' /\ PlaceInv' /\ KeyInv'
<1> DEFINE p == Peer(s)
           x == Head(wire[p])
<1>1. /\ p \in Side /\ p # s /\ wire[s] \in Seq(Pkts) /\ tx_seq[s] \in Nat
      /\ Leading(wire[s], s, tx[s], GotSum(p), SentSum(s))
      /\ Place(phase[s], kexinits[s], theirs[s], Epoch(tx[s]), Epoch(rx[s]))
      /\ tx_seq[s] \in 0..RekeyPackets + 2 /\ tx_seq \in [Side -> 0..RekeyPackets + 2]
  BY Ends DEF IInv, Typed
<1>2. /\ wire'[p] = Tail(wire[p]) /\ wire'[s] = wire[s] \o Seal(tx[s], tx_seq[s], <<>>)
      /\ rx_seq'[s] = rx_seq[s] + 1 /\ rx_seq'[p] = rx_seq[p]
  BY TookWires
<1>3. Len(<<>>) = 0 /\ <<>> \in Seq(Body)
  OBVIOUS
<1>4. Seal(tx[s], tx_seq[s], <<>>) = <<>>
  BY <1>3 DEF Seal
<1>5. wire'[s] = wire[s]
  <2>1. \A w \in Seq(Pkts) : w \o <<>> = w
    OBVIOUS
  <2>2. wire'[s] = wire[s] \o <<>>
    BY <1>2, <1>4
  <2> QED
    BY <1>1, <2>1, <2>2
<1>6. tx_seq' = tx_seq
  <2>1. tx_seq' = [tx_seq EXCEPT ![s] = @ + Len(<<>>)]
    <3>1. tx_seq[s] + Len(<<>>) <= RekeyPackets + 2
      BY <1>1, <1>3, TransportAssumption
    <3> QED
      BY <1>3, <3>1, TookIInv
  <2> QED
    BY <1>1, <1>3, <2>1
<1>7. Leading(Tail(wire[p]), p, tx[p], Moved(GotSum(s), x, tx[p]), SentSum(p))
  BY NextPacket
<1>8. GotSum(s)' = Moved(GotSum(s), x, tx[p])
  <2>1. x.body.type \in {"app", "ext_info"}
    OBVIOUS
  <2> HIDE DEF x
  <2> QED
    BY <1>2, <2>1 DEF GotSum, Moved, kexVars
<1>9. SentSum(s)' = SentSum(s)
  BY <1>6 DEF SentSum, kexVars
<1>10. Same(p)
  BY <1>2, <1>6 DEF Same, kexVars
<1>11. /\ Leading(wire'[s], s, tx'[s], GotSum(p), SentSum(s)')
       /\ Leading(wire'[p], p, tx[p], GotSum(s)', SentSum(p))
  BY <1>1, <1>2, <1>5, <1>7, <1>8, <1>9
<1>12. Place(phase'[s], kexinits'[s], theirs'[s], Epoch(tx'[s]), Epoch(rx'[s]))
  BY <1>1 DEF kexVars
<1>13. WireInv' /\ PlaceInv'
  BY <1>10, <1>11, <1>12, WireStep
<1> QED
  BY <1>10, <1>13, KeyStep DEF kexVars

\* Where the elements of a concatenation are.
LEMMA ConcatAt ==
    ASSUME NEW S, NEW a \in Seq(S), NEW b \in Seq(S)
    PROVE  /\ \A i \in 1..Len(a) : (a \o b)[i] = a[i]
           /\ \A i \in 1..Len(b) : (a \o b)[Len(a) + i] = b[i]
<1>1. \A i \in 1..Len(a) : (a \o b)[i] = a[i]
  OBVIOUS
<1>2. \A i \in 1..Len(b) : (a \o b)[Len(a) + i] = b[i]
  OBVIOUS
<1> QED
  BY <1>1, <1>2

\* Two sequences of one make one of two.
LEMMA PairSeq ==
    ASSUME NEW S, NEW a \in S, NEW b \in S
    PROVE  <<a>> \o <<b>> = <<a, b>>
<1> DEFINE u == <<a>>
           v == <<b>>
           z == u \o v
<1>1. u \in Seq(S) /\ v \in Seq(S) /\ Len(u) = 1 /\ Len(v) = 1 /\ u[1] = a /\ v[1] = b
  OBVIOUS
<1> HIDE DEF u, v
<1>2. z \in Seq(S) /\ Len(z) = 2 /\ z[1] = u[1] /\ z[2] = v[1]
  <2>1. z \in Seq(S) /\ Len(z) = Len(u) + Len(v)
    BY <1>1, Concatenated
  <2>2. /\ \A i \in 1..Len(u) : z[i] = u[i]
        /\ \A i \in 1..Len(v) : z[Len(u) + i] = v[i]
    <3>1. u \in Seq(S) /\ v \in Seq(S)
      BY <1>1
    <3> QED
      BY <3>1, ConcatAt, SMTT(30)
  <2>3. 1 \in 1..Len(u) /\ 1 \in 1..Len(v) /\ Len(u) + 1 = 2
    BY <1>1
  <2>4. z[1] = u[1] /\ z[Len(u) + 1] = v[1]
    BY <2>2, <2>3
  <2> QED
    BY <1>1, <2>1, <2>3, <2>4
<1> HIDE DEF z
<1>3. z = <<a, b>>
  BY <1>1, <1>2
<1> QED
  BY <1>3 DEF z, u, v

\* The peer's KEXINIT is taken; ours may follow, and the client's share does.
LEMMA OnKexInitFlow ==
    ASSUME IInv, FlowInv, NEW s \in Side, wire[Peer(s)] # <<>>,
           OnKexInit(s, Head(wire[Peer(s)]).body)
    PROVE  WireInv' /\ PlaceInv' /\ KeyInv'
<1> DEFINE p == Peer(s)
           x == Head(wire[p])
           y == Epoch(rx[s])
           o == IF phase[s] = "open" THEN 1 ELSE 0
           K == Pkt(tx[s], tx_seq[s], KexInit(kexinits[s] + 1))
           E == Pkt(tx[s], tx_seq[s] + o, Msg("ecdh_init"))
           ours == IF phase[s] = "open" THEN <<KexInit(kexinits[s] + 1)>> ELSE <<>>
           w1 == IF phase[s] = "open" THEN Append(wire[s], K) ELSE wire[s]
           v1 == [k |-> y + 1, e |-> y, n |-> y, key |-> tx[s], seq |-> tx_seq[s] + o]
<1>1. /\ p \in Side /\ p # s /\ wire[s] \in Seq(Pkts) /\ tx_seq[s] \in Nat /\ tx[s] \in Key
      /\ Leading(wire[s], s, tx[s], GotSum(p), SentSum(s))
      /\ Place(phase[s], kexinits[s], theirs[s], Epoch(tx[s]), Epoch(rx[s]))
      /\ tx_seq[s] \in 0..RekeyPackets + 2 /\ tx_seq \in [Side -> 0..RekeyPackets + 2]
      /\ kexinits \in [Side -> Nat] /\ theirs \in [Side -> Nat] /\ phase \in [Side -> Phases]
      /\ y \in Nat /\ kexinits[s] \in Nat /\ theirs[s] \in Nat /\ Epoch(tx[s]) \in Nat
      /\ RekeyPackets \in Nat /\ RekeyPackets >= 2
  <2>1. RekeyPackets \in Nat /\ RekeyPackets >= 2
    BY TransportAssumption
  <2>2. /\ tx_seq \in [Side -> 0..RekeyPackets + 2]
        /\ kexinits \in [Side -> Nat] /\ theirs \in [Side -> Nat] /\ phase \in [Side -> Phases]
    BY DEF IInv, Typed
  <2>3. tx_seq[s] \in 0..RekeyPackets + 2
    BY <2>2
  <2>4. tx_seq[s] \in Nat
    BY <2>1, <2>3
  <2> QED
    BY <2>1, <2>2, <2>3, <2>4, Ends
<1>2. /\ phase[s] \in {"init_wait", "rekey_wait", "open"} /\ x.body.type = "kexinit"
      /\ kexinits' = [kexinits EXCEPT ![s] = @ + Len(ours)]
      /\ theirs' = [theirs EXCEPT ![s] = x.body.cookie]
      /\ Took(s, ours \o Share(s))
      /\ phase' = [phase EXCEPT ![s] = IF s = "client" THEN "ecdh_reply" ELSE "ecdh_init"]
      /\ UNCHANGED <<tx, rx, hash, session_id>>
  BY DEF OnKexInit, Goto
<1>3. /\ Takes(GotSum(s), x, p, tx[p])
      /\ Leading(Tail(wire[p]), p, tx[p], Moved(GotSum(s), x, tx[p]), SentSum(p))
  BY NextPacket
<1>4. /\ theirs[s] = y /\ Epoch(tx[s]) = y /\ kexinits[s] + o = y + 1
  BY <1>1, <1>2 DEF Place
<1>5. x.body.cookie = y + 1
  BY <1>2, <1>3, <1>4, SumFields DEF Takes
<1>6. Len(ours) = o
  OBVIOUS
<1>7. theirs'[s] = y + 1 /\ theirs'[p] = theirs[p] /\ kexinits'[s] = y + 1 /\ kexinits'[p] = kexinits[p]
  BY <1>1, <1>2, <1>4, <1>5, <1>6
<1>8. tx_seq[s] + o + (IF s = "client" THEN 1 ELSE 0) <= RekeyPackets + 2 /\ o \in {0, 1}
  BY <1>1, <1>2 DEF IInv, SeqByPhase
<1>9. KexInit(kexinits[s] + 1) \in Body /\ Msg("ecdh_init") \in Body
  <2>1. kexinits[s] + 1 \in Nat
    BY <1>1
  <2> QED
    BY <2>1, Messages
<1>10. K \in Pkts
  <2>1. tx_seq[s] <= RekeyPackets + 2
    BY <1>1
  <2> QED
    BY <1>1, <1>9, <2>1, SealOne
<1>11. s = "client" => E \in Pkts
  <2>1. ASSUME s = "client" PROVE tx_seq[s] + o <= RekeyPackets + 2 /\ tx_seq[s] + o \in Nat
    BY <1>1, <1>8, <2>1
  <2> HIDE DEF o
  <2> QED
    BY <1>1, <1>9, <2>1, SealOne
<1>12. SentSum(s) = [k |-> kexinits[s], e |-> y, n |-> y, key |-> tx[s], seq |-> tx_seq[s]]
  BY <1>4 DEF SentSum
<1>13. Leading(w1, s, tx[s], GotSum(p), v1) /\ w1 \in Seq(Pkts)
  <2>1. CASE phase[s] = "open"
    <3>1. kexinits[s] = y /\ o = 1 /\ y > 0
      BY <1>1, <2>1 DEF Place
    <3>2. K.key = tx[s] /\ K.seq = tx_seq[s] /\ K.body = KexInit(kexinits[s] + 1)
          /\ K.body.type = "kexinit" /\ K.body.cookie = kexinits[s] + 1
      BY DEF Pkt, KexInit
    <3> HIDE DEF K, y
    <3>3. Takes(SentSum(s), K, s, tx[s])
      BY <1>12, <3>1, <3>2 DEF Takes, Allowed
    <3>4. Moved(SentSum(s), K, tx[s]) = v1
      BY <1>12, <3>1, <3>2 DEF Moved
    <3>5. Leading(Append(wire[s], K), s, tx[s], GotSum(p), Moved(SentSum(s), K, tx[s]))
      BY <1>1, <1>10, <3>3, LeadsSend
    <3>6. Append(wire[s], K) \in Seq(Pkts)
      BY <1>1, <1>10
    <3> QED
      BY <2>1, <3>4, <3>5, <3>6
  <2>2. CASE phase[s] # "open"
    <3>1. kexinits[s] = y + 1 /\ o = 0 /\ tx_seq[s] + 0 = tx_seq[s]
      BY <1>1, <1>4, <2>2
    <3>2. SentSum(s) = v1
      BY <1>12, <3>1
    <3> QED
      BY <1>1, <2>2, <3>2
  <2> QED
    BY <2>1, <2>2
<1>14. wire'[p] = Tail(wire[p]) /\ rx_seq'[s] = rx_seq[s] + 1 /\ rx_seq'[p] = rx_seq[p]
       /\ wire'[s] = wire[s] \o Seal(tx[s], tx_seq[s], ours \o Share(s))
  BY <1>2, TookWires
<1>15. wire'[s] = IF s = "client" THEN Append(w1, E) ELSE w1
  <2> DEFINE a == KexInit(kexinits[s] + 1)
             b == Msg("ecdh_init")
             z == tx_seq[s]
  <2>0. z \in Nat /\ z <= RekeyPackets + 2 /\ a \in Body /\ b \in Body
    BY <1>1, <1>9
  <2>1. ours = (IF phase[s] = "open" THEN <<a>> ELSE <<>>)
        /\ Share(s) = (IF s = "client" THEN <<b>> ELSE <<>>)
    BY DEF Share
  <2>2. K = Pkt(tx[s], z, a) /\ E = Pkt(tx[s], z + o, b)
    OBVIOUS
  <2>3. /\ wire[s] \o Seal(tx[s], z, <<a>>) = Append(wire[s], Pkt(tx[s], z, a))
        /\ wire[s] \o Seal(tx[s], z, <<b>>) = Append(wire[s], Pkt(tx[s], z, b))
    <3>1. \A c \in Body : wire[s] \o Seal(tx[s], z, <<c>>) = Append(wire[s], Pkt(tx[s], z, c))
      BY <1>1, <2>0, SealEnd, ZenonT(60)
    <3> QED
      BY <2>0, <3>1
  <2>4. z + 1 <= RekeyPackets + 2 =>
          wire[s] \o Seal(tx[s], z, <<a, b>>)
            = Append(Append(wire[s], Pkt(tx[s], z, a)), Pkt(tx[s], z + 1, b))
    <3>1. z + 1 <= RekeyPackets + 2 =>
            \A c, d \in Body : wire[s] \o Seal(tx[s], z, <<c, d>>)
                = Append(Append(wire[s], Pkt(tx[s], z, c)), Pkt(tx[s], z + 1, d))
      BY <1>1, <2>0, SealEnd, ZenonT(60)
    <3> QED
      BY <2>0, <3>1
  <2>5. wire[s] \o Seal(tx[s], z, <<>>) = wire[s]
    <3>1. Seal(tx[s], z, <<>>) = <<>>
      BY DEF Seal
    <3>2. \A w \in Seq(Pkts) : w \o <<>> = w
      OBVIOUS
    <3> QED
      BY <1>1, <3>1, <3>2
  <2>6. <<a>> \o <<b>> = <<a, b>> /\ <<>> \o <<b>> = <<b>> /\ <<a>> \o <<>> = <<a>> /\ <<>> \o <<>> = <<>>
    <3> HIDE DEF a, b
    <3>1. <<a>> \o <<b>> = <<a, b>>
      BY <2>0, PairSeq
    <3>2. <<>> \o <<b>> = <<b>> /\ <<a>> \o <<>> = <<a>>
      BY <2>0
    <3>3. <<>> \o <<>> = <<>>
      OBVIOUS
    <3> QED
      BY <3>1, <3>2, <3>3
  <2>7. z + 0 = z
    BY <2>0
  <2> HIDE DEF a, b, z, K, E, ours
  <2>8. CASE phase[s] = "open" /\ s = "client"
    <3>1. z + 1 <= RekeyPackets + 2
      BY <1>8, <2>0, <2>8, <1>1 DEF z
    <3>2. ours \o Share(s) = <<a, b>> /\ o = 1
      BY <2>1, <2>6, <2>8
    <3> QED
      BY <1>14, <2>2, <2>4, <2>8, <3>1, <3>2 DEF z
  <2>9. CASE phase[s] = "open" /\ s # "client"
    <3>2. ours \o Share(s) = <<a>>
      BY <2>1, <2>6, <2>9
    <3> QED
      BY <1>14, <2>2, <2>3, <2>9, <3>2 DEF z
  <2>10. CASE phase[s] # "open" /\ s = "client"
    <3>2. ours \o Share(s) = <<b>> /\ o = 0
      BY <2>1, <2>6, <2>10
    <3> QED
      BY <1>14, <2>2, <2>3, <2>7, <2>10, <3>2 DEF z
  <2>11. CASE phase[s] # "open" /\ s # "client"
    <3>2. ours \o Share(s) = <<>>
      BY <2>1, <2>6, <2>11
    <3> QED
      BY <1>14, <2>5, <2>11, <3>2 DEF z
  <2> QED
    BY <2>8, <2>9, <2>10, <2>11
<1>16. tx_seq'[s] = tx_seq[s] + o + (IF s = "client" THEN 1 ELSE 0) /\ tx_seq'[p] = tx_seq[p]
  <2> DEFINE both == ours \o Share(s)
  <2>1. both \in Seq(Body) /\ Len(both) = o + (IF s = "client" THEN 1 ELSE 0)
    BY <1>9 DEF Share
  <2>2. Took(s, both)
    BY <1>2
  <2> HIDE DEF both, o
  <2>3. tx_seq[s] + Len(both) <= RekeyPackets + 2
    BY <1>1, <1>8, <2>1
  <2>4. tx_seq' = [tx_seq EXCEPT ![s] = @ + Len(both)]
    BY <2>1, <2>2, <2>3, TookIInv
  <2>5. tx_seq'[s] = tx_seq[s] + Len(both)
    BY <1>1, <2>4
  <2> QED
    BY <1>1, <1>8, <2>1, <2>4, <2>5
<1>17. SentSum(s)' = IF s = "client" THEN Moved(v1, E, tx[s]) ELSE v1
  <2>1. E.body.type = "ecdh_init"
    BY DEF Pkt, Msg
  <2>2. tx'[s] = tx[s]
    BY <1>2
  <2>3. tx_seq[s] + o + 0 = tx_seq[s] + o
    BY <1>1, <1>8
  <2> HIDE DEF E, o, y
  <2>4. CASE s = "client"
    BY <1>4, <1>7, <1>16, <2>1, <2>2, <2>4 DEF SentSum, Moved
  <2>5. CASE s # "client"
    BY <1>4, <1>7, <1>16, <2>2, <2>3, <2>5 DEF SentSum
  <2> QED
    BY <2>4, <2>5
<1>18. Leading(wire'[s], s, tx'[s], GotSum(p), SentSum(s)')
  <2>1. E.body.type = "ecdh_init" /\ E.key = tx[s] /\ E.seq = tx_seq[s] + o
    BY DEF Pkt, Msg
  <2>2. tx'[s] = tx[s]
    BY <1>2
  <2> HIDE DEF E, o, y, w1
  <2>3. CASE s = "client"
    <3>1. Takes(v1, E, s, tx[s])
      BY <1>1, <2>1, <2>3 DEF Takes, Allowed
    <3> HIDE DEF v1
    <3>2. Leading(Append(w1, E), s, tx[s], GotSum(p), Moved(v1, E, tx[s]))
      BY <1>1, <1>11, <1>13, <2>3, <3>1, LeadsSend
    <3> QED
      BY <1>15, <1>17, <2>2, <2>3, <3>2
  <2>4. CASE s # "client"
    BY <1>13, <1>15, <1>17, <2>2, <2>4
  <2> QED
    BY <2>3, <2>4
<1>19. GotSum(s)' = Moved(GotSum(s), x, tx[p])
  <2>1. x.body.type = "kexinit"
    BY <1>2
  <2> HIDE DEF x
  <2> QED
    BY <1>2, <1>4, <1>7, <1>14, <2>1 DEF GotSum, Moved
<1>20. Same(p)
  BY <1>1, <1>2, <1>7, <1>14, <1>16 DEF Same
<1>21. Leading(wire'[p], p, tx[p], GotSum(s)', SentSum(p))
  BY <1>3, <1>14, <1>19
<1>22. phase'[s] = IF s = "client" THEN "ecdh_reply" ELSE "ecdh_init"
  BY <1>1, <1>2
<1>23. Place(phase'[s], kexinits'[s], theirs'[s], Epoch(tx'[s]), Epoch(rx'[s]))
  <2>1. tx'[s] = tx[s] /\ rx'[s] = rx[s]
    BY <1>2
  <2> HIDE DEF y
  <2>2. Epoch(tx'[s]) = y /\ Epoch(rx'[s]) = y
    BY <1>4, <2>1 DEF y
  <2> QED
    BY <1>1, <1>7, <1>22, <2>2 DEF Place
<1>24. WireInv' /\ PlaceInv'
  BY <1>18, <1>20, <1>21, <1>23, WireStep
<1> QED
  BY <1>2, <1>20, <1>22, <1>24, KeyStep

\* What run_kex's switch of the sending direction leaves behind.
LEMMA SwitchFacts ==
    ASSUME IInv, FlowInv, NEW s \in Side, wire[Peer(s)] # <<>>, NEW h \in Hash, NEW bodies,
           Switch(s, h, bodies), UNCHANGED <<rx, kexinits, theirs>>
    PROVE  LET p == Peer(s)
               sid == IF session_id[s] = None THEN h ELSE session_id[s]
           IN  /\ wire'[p] = Tail(wire[p])
               /\ wire'[s] = wire[s] \o Seal(tx[s], tx_seq[s], bodies \o <<Msg("newkeys")>>)
               /\ tx'[s] = make_cipher(h, sid) /\ tx_seq'[s] = 0 /\ rx_seq'[s] = rx_seq[s] + 1
               /\ phase'[s] = "newkeys" /\ hash'[s] = h /\ session_id'[s] = sid
               /\ Same(p) /\ sid \in Hash /\ make_cipher(h, sid) \in Key
               /\ Epoch(tx'[s]) = h.i_c
<1> DEFINE p == Peer(s)
           sid == IF session_id[s] = None THEN h ELSE session_id[s]
<1>1. /\ p \in Side /\ p # s /\ (rx_seq[s] + 1) % SeqMod = rx_seq[s] + 1
      /\ wire \in [Side -> Seq(Packet(0..RekeyPackets + 2))] /\ rx_seq \in [Side -> Nat]
      /\ tx \in [Side -> Key] /\ tx_seq \in [Side -> 0..RekeyPackets + 2]
      /\ phase \in [Side -> Phases] /\ hash \in [Side -> Hash \cup {None}]
      /\ session_id \in [Side -> Hash \cup {None}]
  BY Ends, NextPacket DEF IInv, Typed, FlowInv, ErrInv
<1>2. sid \in Hash
  BY <1>1
<1>3. make_cipher(h, sid) \in Key
  BY <1>2 DEF make_cipher, Key
<1>4. /\ wire'[p] = Tail(wire[p])
      /\ wire'[s] = wire[s] \o Seal(tx[s], tx_seq[s], bodies \o <<Msg("newkeys")>>)
      /\ tx'[s] = make_cipher(h, sid) /\ tx_seq'[s] = 0 /\ rx_seq'[s] = rx_seq[s] + 1
      /\ phase'[s] = "newkeys" /\ hash'[s] = h /\ session_id'[s] = sid
  BY <1>1 DEF Switch, SessionId, Goto
<1>5. Same(p)
  BY <1>1 DEF Switch, Goto, Same
<1>6. Epoch(tx'[s]) = h.i_c
  BY <1>4, EpochType
<1> QED
  BY <1>2, <1>3, <1>4, <1>5, <1>6

\* The switched side's own part of the key invariant.
LEMMA OwnKey ==
    ASSUME IInv, FlowInv, NEW s \in Side, NEW h \in Hash, NEW sid \in Hash,
           sid = IF session_id[s] = None THEN h ELSE session_id[s],
           tx'[s] = make_cipher(h, sid), hash'[s] = h, session_id'[s] = sid,
           h.i_c = Epoch(tx[s]) + 1
    PROVE  /\ tx'[s] = Plain <=> session_id'[s] = None
           /\ tx'[s] # Plain => tx'[s].sid = session_id'[s] /\ Epoch(tx'[s]) > 0
           /\ Epoch(tx'[s]) = 1 => tx'[s].h = tx'[s].sid
           /\ tx'[s] = make_cipher(hash'[s], session_id'[s])
<1>1. tx'[s] # Plain /\ session_id'[s] # None
  BY KeyKinds
<1>2. tx'[s].sid = sid /\ tx'[s].h = h
  BY DEF make_cipher
<1>3. Epoch(tx'[s]) = Epoch(tx[s]) + 1 /\ Epoch(tx[s]) \in Nat
  BY Ends, EpochType
<1>4. Epoch(tx[s]) = 0 => session_id[s] = None
  BY DEF FlowInv, KeyInv
<1>5. Epoch(tx'[s]) = 1 => h = sid
  BY <1>3, <1>4
<1> QED
  BY <1>1, <1>2, <1>3, <1>5

\* KEX_ECDH_INIT: the server replies, sends NEWKEYS and switches.
LEMMA OnEcdhInitFlow ==
    ASSUME IInv, FlowInv, NEW s \in Side, wire[Peer(s)] # <<>>,
           OnEcdhInit(s, Head(wire[Peer(s)]).body)
    PROVE  WireInv' /\ PlaceInv' /\ KeyInv'
<1> DEFINE p == Peer(s)
           x == Head(wire[p])
           y == Epoch(rx[s])
<1>1. PICK k \in HostKeys :
        Switch(s, exchange_hash(s, k), <<EcdhReply(k, exchange_hash(s, k))>>)
  BY DEF OnEcdhInit
<1> DEFINE h == exchange_hash(s, k)
           sid == IF session_id[s] = None THEN h ELSE session_id[s]
           new == make_cipher(h, sid)
           R == Pkt(tx[s], tx_seq[s], EcdhReply(k, h))
           N == Pkt(tx[s], tx_seq[s] + 1, Msg("newkeys"))
           v0 == [k |-> y + 1, e |-> y, n |-> y, key |-> tx[s], seq |-> tx_seq[s]]
           v1 == [k |-> y + 1, e |-> y + 1, n |-> y, key |-> tx[s], seq |-> tx_seq[s] + 1]
           v2 == [k |-> y + 1, e |-> y + 1, n |-> y + 1, key |-> new, seq |-> 0]
<1>2. /\ phase[s] = "ecdh_init" /\ x.body.type = "ecdh_init"
      /\ UNCHANGED <<rx, kexinits, theirs>>
  BY DEF OnEcdhInit
<1>3. s = "server" /\ p = "client"
  <2>1. s = "server"
    BY <1>2 DEF IInv, Exchanging, Side
  <2> QED
    BY <2>1, PeerSide DEF Side
<1>4. /\ wire[s] \in Seq(Pkts) /\ tx[s] \in Key /\ p \in Side /\ tx_seq[s] \in Nat
      /\ y \in Nat /\ kexinits[s] \in Nat /\ theirs[s] \in Nat /\ Epoch(tx[s]) \in Nat
      /\ Leading(wire[s], s, tx[s], GotSum(p), SentSum(s))
      /\ Place(phase[s], kexinits[s], theirs[s], Epoch(tx[s]), Epoch(rx[s]))
      /\ Place(phase[p], kexinits[p], theirs[p], Epoch(tx[p]), Epoch(rx[p]))
      /\ Epoch(rx[p]) \in Nat /\ Epoch(tx[p]) \in Nat /\ theirs[p] \in Nat /\ kexinits[p] \in Nat
      /\ wire[p] \in Seq(Pkts) /\ tx[p] \in Key
  BY Ends, PeerSide
<1>5. /\ tx_seq[s] <= RekeyPackets + 1
      /\ tx_seq[s] <= RekeyPackets + 2 /\ tx_seq[s] + 1 <= RekeyPackets + 2 /\ tx_seq[s] + 1 \in Nat
  <2>1. \A n, r \in Nat : n <= r + 1 => n <= r + 2 /\ n + 1 <= r + 2 /\ n + 1 \in Nat
    OBVIOUS
  <2>2. tx_seq[s] <= RekeyPackets + 1 /\ RekeyPackets \in Nat
    BY <1>2, TransportAssumption DEF IInv, SeqByPhase
  <2> QED
    BY <1>4, <2>1, <2>2
<1>6. theirs[s] = y + 1 /\ kexinits[s] = y + 1 /\ Epoch(tx[s]) = y
  BY <1>2, <1>4 DEF Place
<1>7. h \in Hash /\ h.i_c = y + 1
  <2>1. h \in Hash
    BY HashType DEF IInv
  <2>2. h.i_c = theirs[s]
    BY <1>3 DEF exchange_hash
  <2> QED
    BY <2>1, <2>2, <1>6
<1>8. /\ Takes(GotSum(s), x, p, tx[p])
      /\ Leading(Tail(wire[p]), p, tx[p], Moved(GotSum(s), x, tx[p]), SentSum(p))
  BY NextPacket
<1>h. h = exchange_hash(s, k)
  OBVIOUS
<1> HIDE DEF h
<1>9. /\ wire'[p] = Tail(wire[p])
      /\ wire'[s] = wire[s] \o Seal(tx[s], tx_seq[s], <<EcdhReply(k, h)>> \o <<Msg("newkeys")>>)
      /\ tx'[s] = new /\ tx_seq'[s] = 0 /\ rx_seq'[s] = rx_seq[s] + 1
      /\ phase'[s] = "newkeys" /\ hash'[s] = h /\ session_id'[s] = sid
      /\ Same(p) /\ sid \in Hash /\ new \in Key
      /\ Epoch(tx'[s]) = h.i_c
  <2>1. Switch(s, h, <<EcdhReply(k, h)>>)
    BY <1>1, <1>h
  <2> QED
    BY <1>2, <1>7, <2>1, SwitchFacts
<1> HIDE DEF sid, new
<1>10. Epoch(rx[p]) = y /\ Epoch(tx[p]) = y
  <2>1. Tail(wire[p]) \in Seq(Pkts)
    BY <1>4
  <2>2. Before(Moved(GotSum(s), x, tx[p]), SentSum(p))
    BY <1>8, <2>1, LeadsEnds
  <2>3. Moved(GotSum(s), x, tx[p]).e = Epoch(tx[s]) + 1
    <3>1. x.body.type = "ecdh_init"
      BY <1>2
    <3> HIDE DEF x
    <3> QED
      BY <3>1, SumFields DEF Moved
  <2>4. y + 1 <= theirs[p]
    BY <1>3, <1>6, <2>2, <2>3, SumFields DEF Before
  <2>5. Epoch(rx[p]) <= Epoch(tx[s]) /\ Epoch(tx[p]) <= Epoch(tx[s])
    BY <1>3, Bounds
  <2> HIDE DEF y
  <2> QED
    BY <1>4, <1>6, <2>4, <2>5 DEF Place
<1>11. SentSum(s) = v0
  BY <1>3, <1>6 DEF SentSum
<1>12. Leading(wire[s], s, new, GotSum(p), v0)
  <2>1. v0.n = GotSum(p).n /\ v0.e = GotSum(p).e
    BY <1>10, SumFields
  <2>2. Leading(wire[s], s, tx[s], GotSum(p), v0)
    BY <1>4, <1>11
  <2> HIDE DEF v0
  <2> QED
    BY <1>4, <2>1, <2>2, LeadsKey
<1>13. EcdhReply(k, h) \in Body /\ Msg("newkeys") \in Body
  BY <1>7, Messages
<1>14. R \in Pkts /\ N \in Pkts
  <2>1. \A n \in Nat, m \in Body : n <= RekeyPackets + 2 => Pkt(tx[s], n, m) \in Pkts
    BY <1>4, SealOne
  <2> QED
    BY <1>4, <1>5, <1>13, <2>1
<1>15. wire'[s] = Append(Append(wire[s], R), N)
  <2> DEFINE a == EcdhReply(k, h)
             b == Msg("newkeys")
  <2>2. <<a>> \o <<b>> = <<a, b>>
    BY <1>13, PairSeq
  <2>3. wire[s] \o Seal(tx[s], tx_seq[s], <<a, b>>) = Append(Append(wire[s], R), N)
    <3>0. /\ wire[s] \in Seq(Pkts) /\ tx[s] \in Key /\ tx_seq[s] \in Nat
          /\ tx_seq[s] <= RekeyPackets + 2 /\ tx_seq[s] + 1 <= RekeyPackets + 2
      BY <1>4, <1>5
    <3>1. \A c, d \in Body : wire[s] \o Seal(tx[s], tx_seq[s], <<c, d>>)
            = Append(Append(wire[s], Pkt(tx[s], tx_seq[s], c)), Pkt(tx[s], tx_seq[s] + 1, d))
      BY <3>0, SealEnd, ZenonT(30)
    <3> QED
      BY <1>13, <3>1
  <2> HIDE DEF R, N
  <2> QED
    BY <1>9, <2>2, <2>3
<1>16. Takes(v0, R, s, new) /\ Moved(v0, R, new) = v1
  <2>1. /\ R.key = tx[s] /\ R.seq = tx_seq[s] /\ R.body.type = "ecdh_reply"
        /\ R.body.sig.over = h
    BY DEF Pkt, EcdhReply
  <2>2. new.h = h
    BY DEF new, make_cipher
  <2> HIDE DEF R, y
  <2>3. Takes(v0, R, s, new)
    BY <1>3, <1>4, <2>1, <2>2 DEF Takes, Allowed
  <2> QED
    BY <2>1, <2>3 DEF Moved
<1>17. Takes(v1, N, s, new) /\ Moved(v1, N, new) = v2
  <2>1. N.key = tx[s] /\ N.seq = tx_seq[s] + 1 /\ N.body.type = "newkeys"
    BY DEF Pkt, Msg
  <2> HIDE DEF N, y
  <2>3. Takes(v1, N, s, new)
    BY <1>3, <1>4, <2>1 DEF Takes, Allowed
  <2> QED
    BY <2>1, <2>3 DEF Moved
<1>18. SentSum(s)' = v2
  BY <1>2, <1>3, <1>6, <1>7, <1>9 DEF SentSum
<1>19. Leading(wire'[s], s, tx'[s], GotSum(p), SentSum(s)')
  <2> HIDE DEF v0, v1, v2, R, N
  <2>1. Leading(Append(wire[s], R), s, new, GotSum(p), v1)
    BY <1>4, <1>9, <1>12, <1>14, <1>16, LeadsSend
  <2>2. Append(wire[s], R) \in Seq(Pkts)
    BY <1>4, <1>14
  <2>3. Leading(Append(Append(wire[s], R), N), s, new, GotSum(p), v2)
    BY <1>9, <1>14, <1>17, <2>1, <2>2, LeadsSend
  <2> QED
    BY <1>9, <1>15, <1>18, <2>3
<1>20. GotSum(s)' = Moved(GotSum(s), x, tx[p])
  <2>1. x.body.type = "ecdh_init"
    BY <1>2
  <2> HIDE DEF x
  <2> QED
    BY <1>2, <1>6, <1>7, <1>9, <2>1 DEF GotSum, Moved
<1>21. Leading(wire'[p], p, tx[p], GotSum(s)', SentSum(p))
  BY <1>8, <1>9, <1>20
<1>22. Place(phase'[s], kexinits'[s], theirs'[s], Epoch(tx'[s]), Epoch(rx'[s]))
  <2>1. Epoch(tx'[s]) = y + 1 /\ Epoch(rx'[s]) = y /\ kexinits'[s] = y + 1 /\ theirs'[s] = y + 1
    BY <1>2, <1>6, <1>7, <1>9
  <2> HIDE DEF y
  <2> QED
    BY <1>4, <1>9, <2>1 DEF Place
<1>23. WireInv' /\ PlaceInv'
  BY <1>9, <1>19, <1>21, <1>22, WireStep
<1>24. KeyInv'
  <2>1. h.i_c = Epoch(tx[s]) + 1
    BY <1>6, <1>7
  <2>2. /\ tx'[s] = Plain <=> session_id'[s] = None
        /\ tx'[s] # Plain => tx'[s].sid = session_id'[s] /\ Epoch(tx'[s]) > 0
        /\ Epoch(tx'[s]) = 1 => tx'[s].h = tx'[s].sid
        /\ tx'[s] = make_cipher(hash'[s], session_id'[s])
    BY <1>7, <1>9, <2>1, OwnKey DEF sid, new
  <2>3. tx'[p] = tx[p] /\ session_id'[p] = session_id[p] /\ phase'[p] = phase[p] /\ hash'[p] = hash[p]
    BY <1>9 DEF Same
  <2>4. KeyInv
    BY DEF FlowInv
  <2>5. Epoch(tx'[p]) # Epoch(tx'[s])
    <3>1. Epoch(tx'[p]) = y /\ Epoch(tx'[s]) = y + 1
      BY <1>7, <1>9, <1>10, <2>3
    <3> QED
      BY <1>4, <3>1
  <2>6. session_id'[p] # None => session_id'[p] = session_id'[s]
    <3>1. CASE session_id[s] = None
      <4>1. tx[s] = Plain
        BY <3>1, <2>4 DEF KeyInv
      <4>2. Epoch(tx[p]) = 0
        BY <1>6, <1>10, <4>1, EpochType
      <4>3. session_id[p] = None
        BY <1>4, <2>4, <4>2 DEF KeyInv
      <4> QED
        BY <2>3, <4>3
    <3>2. CASE session_id[s] # None
      BY <1>3, <1>9, <2>3, <2>4, <3>2 DEF KeyInv, sid
    <3> QED
      BY <3>1, <3>2
  <2>7. ASSUME NEW t \in Side
        PROVE  /\ tx'[t] = Plain <=> session_id'[t] = None
               /\ tx'[t] # Plain => tx'[t].sid = session_id'[t] /\ Epoch(tx'[t]) > 0
               /\ Epoch(tx'[t]) = 1 => tx'[t].h = tx'[t].sid
               /\ phase'[t] = "newkeys" => tx'[t] = make_cipher(hash'[t], session_id'[t])
    <3>1. t = s \/ t = p
      BY <1>3 DEF Side
    <3>2. CASE t = s
      BY <2>2, <3>2
    <3>3. CASE t = p
      BY <2>3, <2>4, <3>3 DEF KeyInv
    <3> QED
      BY <3>1, <3>2, <3>3
  <2>8. Epoch(tx'["client"]) = Epoch(tx'["server"]) => tx'["client"] = tx'["server"]
    BY <1>3, <2>5
  <2>9. (session_id'["client"] # None /\ session_id'["server"] # None) =>
          session_id'["client"] = session_id'["server"]
    BY <1>3, <2>6
  <2> QED
    BY <2>7, <2>8, <2>9 DEF KeyInv, Epoch
<1> QED
  BY <1>23, <1>24

\* KEX_ECDH_REPLY: the client accepts a signature over its own hash, sends
\* NEWKEYS and switches to the key the server already sends with.
LEMMA OnEcdhReplyFlow ==
    ASSUME IInv, FlowInv, NEW s \in Side, wire[Peer(s)] # <<>>,
           OnEcdhReply(s, Head(wire[Peer(s)]).body)
    PROVE  WireInv' /\ PlaceInv' /\ KeyInv'
<1> DEFINE p == Peer(s)
           x == Head(wire[p])
           y == Epoch(rx[s])
           h == exchange_hash(s, x.body.host)
           sid == IF session_id[s] = None THEN h ELSE session_id[s]
           new == make_cipher(h, sid)
           N == Pkt(tx[s], tx_seq[s], Msg("newkeys"))
           v0 == [k |-> y + 1, e |-> y + 1, n |-> y, key |-> tx[s], seq |-> tx_seq[s]]
           v1 == [k |-> y + 1, e |-> y + 1, n |-> y + 1, key |-> new, seq |-> 0]
<1>2. /\ phase[s] = "ecdh_reply" /\ x.body.type = "ecdh_reply"
      /\ x.body.sig = [key |-> x.body.host, over |-> h]
      /\ Switch(s, h, <<>>)
      /\ UNCHANGED <<rx, kexinits, theirs>>
  BY DEF OnEcdhReply
<1>3. s = "client" /\ p = "server"
  <2>1. s = "client"
    BY <1>2 DEF IInv, Exchanging, Side
  <2> QED
    BY <2>1, PeerSide DEF Side
<1>4. /\ wire[s] \in Seq(Pkts) /\ tx[s] \in Key /\ p \in Side
      /\ y \in Nat /\ kexinits[s] \in Nat /\ theirs[s] \in Nat /\ Epoch(tx[s]) \in Nat
      /\ Leading(wire[s], s, tx[s], GotSum(p), SentSum(s))
      /\ Place(phase[s], kexinits[s], theirs[s], Epoch(tx[s]), Epoch(rx[s]))
      /\ Place(phase[p], kexinits[p], theirs[p], Epoch(tx[p]), Epoch(rx[p]))
      /\ Epoch(rx[p]) \in Nat /\ Epoch(tx[p]) \in Nat /\ theirs[p] \in Nat /\ kexinits[p] \in Nat
      /\ wire[p] \in Seq(Pkts) /\ tx[p] \in Key
  BY Ends, PeerSide
<1>5. tx_seq[s] \in Nat /\ tx_seq[s] <= RekeyPackets + 2
  <2>1. tx_seq[s] \in 0..RekeyPackets + 2
    BY Ends
  <2> QED
    BY <2>1, TransportAssumption
<1>6. theirs[s] = y + 1 /\ kexinits[s] = y + 1 /\ Epoch(tx[s]) = y
  BY <1>2, <1>4 DEF Place
<1>7. h \in Hash /\ h.i_c = y + 1
  <2>1. h \in Hash
    <3>1. x.body \in Body
      BY NextPacket
    <3>2. x.body.host \in HostKeys
      BY <1>2, <3>1, ReplyType
    <3> QED
      BY <3>2, HashType DEF IInv
  <2>2. h.i_c = kexinits[s]
    BY <1>3 DEF exchange_hash
  <2> QED
    BY <2>1, <2>2, <1>6
<1>8. /\ Takes(GotSum(s), x, p, tx[p])
      /\ Leading(Tail(wire[p]), p, tx[p], Moved(GotSum(s), x, tx[p]), SentSum(p))
  BY NextPacket
<1>9. tx[p].h = h
  <2>1. x.body.sig.over = h
    BY <1>2
  <2> HIDE DEF x, h
  <2> QED
    BY <1>2, <1>8, <2>1 DEF Takes
<1> HIDE DEF h
<1>10. /\ wire'[p] = Tail(wire[p])
       /\ wire'[s] = wire[s] \o Seal(tx[s], tx_seq[s], <<>> \o <<Msg("newkeys")>>)
       /\ tx'[s] = new /\ tx_seq'[s] = 0 /\ rx_seq'[s] = rx_seq[s] + 1
       /\ phase'[s] = "newkeys" /\ hash'[s] = h /\ session_id'[s] = sid
       /\ Same(p) /\ sid \in Hash /\ new \in Key
       /\ Epoch(tx'[s]) = h.i_c
  BY <1>2, <1>7, SwitchFacts
<1> HIDE DEF sid, new
<1>11. Epoch(rx[p]) = y /\ Epoch(tx[p]) = y + 1
  <2>1. Tail(wire[p]) \in Seq(Pkts)
    BY <1>4
  <2>2. Before(Moved(GotSum(s), x, tx[p]), SentSum(p))
    BY <1>8, <2>1, LeadsEnds
  <2>3. Moved(GotSum(s), x, tx[p]).e = Epoch(tx[s]) + 1
    <3>1. x.body.type = "ecdh_reply"
      BY <1>2
    <3> HIDE DEF x
    <3> QED
      BY <3>1, SumFields DEF Moved
  <2>4. y + 1 <= Epoch(tx[p])
    BY <1>3, <1>6, <2>2, <2>3, SumFields DEF Before
  <2>5. Epoch(rx[p]) <= Epoch(tx[s]) /\ theirs[p] <= kexinits[s]
    BY Bounds
  <2> HIDE DEF y
  <2> QED
    BY <1>4, <1>6, <2>4, <2>5 DEF Place
<1>12. SentSum(s) = v0
  BY <1>3, <1>6 DEF SentSum
<1>13. Leading(wire[s], s, new, GotSum(p), v0)
  <2>1. v0.n = GotSum(p).n
    BY <1>11, SumFields
  <2>2. Leading(wire[s], s, tx[s], GotSum(p), v0)
    BY <1>4, <1>12
  <2> HIDE DEF v0
  <2> QED
    BY <1>3, <1>4, <2>1, <2>2, LeadsKey
<1>14. Msg("newkeys") \in Body /\ N \in Pkts
  <2>1. Msg("newkeys") \in Body
    BY Messages
  <2> QED
    BY <1>4, <1>5, <2>1, SealOne
<1>15. wire'[s] = Append(wire[s], N)
  <2> DEFINE b == Msg("newkeys")
  <2>1. wire[s] \o Seal(tx[s], tx_seq[s], <<b>>) = Append(wire[s], N)
    <3>1. /\ wire[s] \in Seq(Pkts) /\ tx[s] \in Key /\ tx_seq[s] \in Nat
          /\ tx_seq[s] <= RekeyPackets + 2
      BY <1>4, <1>5
    <3>2. \A c \in Body : wire[s] \o Seal(tx[s], tx_seq[s], <<c>>)
            = Append(wire[s], Pkt(tx[s], tx_seq[s], c))
      BY <3>1, SealEnd, ZenonT(30)
    <3> QED
      BY <1>14, <3>2
  <2>2. <<>> \o <<b>> = <<b>>
    <3> HIDE DEF b
    <3>1. b \in Body
      BY <1>14 DEF b
    <3> QED
      BY <3>1
  <2> HIDE DEF N
  <2> QED
    BY <1>10, <2>1, <2>2
<1>16. Takes(v0, N, s, new) /\ Moved(v0, N, new) = v1
  <2>1. N.key = tx[s] /\ N.seq = tx_seq[s] /\ N.body.type = "newkeys"
    BY DEF Pkt, Msg
  <2> HIDE DEF N, y
  <2>3. Takes(v0, N, s, new)
    BY <1>3, <1>4, <2>1 DEF Takes, Allowed
  <2> QED
    BY <2>1, <2>3 DEF Moved
<1>17. SentSum(s)' = v1
  BY <1>2, <1>3, <1>6, <1>7, <1>10 DEF SentSum
<1>18. Leading(wire'[s], s, tx'[s], GotSum(p), SentSum(s)')
  <2> HIDE DEF v0, v1, N
  <2>1. Leading(Append(wire[s], N), s, new, GotSum(p), v1)
    BY <1>4, <1>10, <1>13, <1>14, <1>16, LeadsSend
  <2> QED
    BY <1>10, <1>15, <1>17, <2>1
<1>19. GotSum(s)' = Moved(GotSum(s), x, tx[p])
  <2>1. x.body.type = "ecdh_reply"
    BY <1>2
  <2> HIDE DEF x
  <2> QED
    BY <1>2, <1>6, <1>7, <1>10, <2>1 DEF GotSum, Moved
<1>20. Leading(wire'[p], p, tx[p], GotSum(s)', SentSum(p))
  BY <1>8, <1>10, <1>19
<1>21. Place(phase'[s], kexinits'[s], theirs'[s], Epoch(tx'[s]), Epoch(rx'[s]))
  <2>1. Epoch(tx'[s]) = y + 1 /\ Epoch(rx'[s]) = y /\ kexinits'[s] = y + 1 /\ theirs'[s] = y + 1
    BY <1>2, <1>6, <1>7, <1>10
  <2> HIDE DEF y
  <2> QED
    BY <1>4, <1>10, <2>1 DEF Place
<1>22. WireInv' /\ PlaceInv'
  BY <1>10, <1>18, <1>20, <1>21, WireStep
<1>23. KeyInv'
  <2>1. h.i_c = Epoch(tx[s]) + 1
    BY <1>6, <1>7
  <2>2. /\ tx'[s] = Plain <=> session_id'[s] = None
        /\ tx'[s] # Plain => tx'[s].sid = session_id'[s] /\ Epoch(tx'[s]) > 0
        /\ Epoch(tx'[s]) = 1 => tx'[s].h = tx'[s].sid
        /\ tx'[s] = make_cipher(hash'[s], session_id'[s])
    BY <1>7, <1>10, <2>1, OwnKey DEF sid, new
  <2>3. tx'[p] = tx[p] /\ session_id'[p] = session_id[p] /\ phase'[p] = phase[p] /\ hash'[p] = hash[p]
    BY <1>10 DEF Same
  <2>4. KeyInv
    BY DEF FlowInv
  <2>5. tx[p] # Plain /\ session_id[p] # None /\ tx[p].sid = session_id[p]
    <3>1. tx[p] # Plain
      <4>1. Epoch(tx[p]) # 0
        BY <1>4, <1>11
      <4> QED
        BY <4>1, EpochType
    <3> QED
      BY <1>4, <2>4, <3>1 DEF KeyInv
  <2>6. session_id[p] = sid
    <3>1. CASE session_id[s] = None
      <4>1. tx[s] = Plain
        BY <3>1, <2>4 DEF KeyInv
      <4>2. Epoch(tx[p]) = 1
        BY <1>6, <1>11, <4>1, EpochType
      <4>3. tx[p].h = tx[p].sid
        BY <1>4, <2>4, <4>2 DEF KeyInv
      <4> QED
        BY <1>9, <2>5, <3>1, <4>3 DEF sid
    <3>2. CASE session_id[s] # None
      BY <1>3, <2>4, <2>5, <3>2 DEF KeyInv, sid
    <3> QED
      BY <3>1, <3>2
  <2>7. tx'[s] = tx'[p]
    <3>1. tx[p] \in [h : Hash, sid : Hash]
      BY <1>4, <2>5 DEF Key
    <3>2. tx[p] = [h |-> h, sid |-> sid]
      BY <1>9, <2>5, <2>6, <3>1
    <3> QED
      BY <1>10, <2>3, <3>2 DEF new, make_cipher
  <2>8. ASSUME NEW t \in Side
        PROVE  /\ tx'[t] = Plain <=> session_id'[t] = None
               /\ tx'[t] # Plain => tx'[t].sid = session_id'[t] /\ Epoch(tx'[t]) > 0
               /\ Epoch(tx'[t]) = 1 => tx'[t].h = tx'[t].sid
               /\ phase'[t] = "newkeys" => tx'[t] = make_cipher(hash'[t], session_id'[t])
    <3>1. t = s \/ t = p
      BY <1>3 DEF Side
    <3>2. CASE t = s
      BY <2>2, <3>2
    <3>3. CASE t = p
      BY <2>3, <2>4, <3>3 DEF KeyInv
    <3> QED
      BY <3>1, <3>2, <3>3
  <2>9. tx'["client"] = tx'["server"] /\ session_id'["client"] = session_id'["server"]
    BY <1>3, <1>10, <2>3, <2>6, <2>7
  <2> QED
    BY <2>8, <2>9 DEF KeyInv, Epoch
<1> QED
  BY <1>22, <1>23

\* NEWKEYS: the receiving direction takes the key the peer switched to.
LEMMA OnNewKeysFlow ==
    ASSUME IInv, FlowInv, NEW s \in Side, wire[Peer(s)] # <<>>,
           OnNewKeys(s, Head(wire[Peer(s)]).body)
    PROVE  WireInv' /\ PlaceInv' /\ KeyInv'
<1> DEFINE p == Peer(s)
           x == Head(wire[p])
           y == Epoch(rx[s])
           ext == s = "server" /\ rx[s] = Plain
           X == Pkt(tx[s], 0, Msg("ext_info"))
<1>1. /\ wire[s] \in Seq(Pkts) /\ tx[s] \in Key /\ p \in Side /\ p # s
      /\ y \in Nat /\ kexinits[s] \in Nat /\ theirs[s] \in Nat /\ Epoch(tx[s]) \in Nat
      /\ Leading(wire[s], s, tx[s], GotSum(p), SentSum(s))
      /\ Place(phase[s], kexinits[s], theirs[s], Epoch(tx[s]), Epoch(rx[s]))
      /\ Place(phase[p], kexinits[p], theirs[p], Epoch(tx[p]), Epoch(rx[p]))
      /\ Epoch(rx[p]) \in Nat /\ Epoch(tx[p]) \in Nat /\ theirs[p] \in Nat /\ kexinits[p] \in Nat
      /\ wire[p] \in Seq(Pkts) /\ tx[p] \in Key
  BY Ends, PeerSide
<1>2. /\ phase \in [Side -> Phases] /\ wire \in [Side -> Seq(Packet(0..RekeyPackets + 2))]
      /\ tx_seq \in [Side -> 0..RekeyPackets + 2] /\ rx_seq \in [Side -> Nat]
      /\ rx \in [Side -> Key] /\ hash \in [Side -> Hash \cup {None}]
  BY DEF IInv, Typed, FlowInv, ErrInv
<1>3. /\ phase[s] = "newkeys" /\ x.body.type = "newkeys"
      /\ wire'[p] = Tail(wire[p])
      /\ wire'[s] = (IF ext THEN wire[s] \o Seal(tx[s], tx_seq[s], <<Msg("ext_info")>>)
                            ELSE wire[s])
      /\ tx_seq'[s] = (IF ext THEN (tx_seq[s] + 1) % SeqMod ELSE tx_seq[s])
      /\ rx'[s] = make_cipher(hash[s], session_id[s]) /\ rx_seq'[s] = 0 /\ phase'[s] = "open"
      /\ tx_seq'[p] = tx_seq[p] /\ rx'[p] = rx[p] /\ rx_seq'[p] = rx_seq[p]
      /\ phase'[p] = phase[p] /\ hash'[p] = hash[p]
      /\ UNCHANGED <<tx, kexinits, theirs, session_id>>
  BY <1>1, <1>2 DEF OnNewKeys, Goto
<1>4. Same(p)
  BY <1>3 DEF Same
<1>5. tx_seq[s] = 0
  BY <1>3 DEF IInv, SeqByPhase
<1>6. theirs[s] = y + 1 /\ kexinits[s] = y + 1 /\ Epoch(tx[s]) = y + 1
  BY <1>1, <1>3 DEF Place
<1>7. /\ Takes(GotSum(s), x, p, tx[p])
      /\ Leading(Tail(wire[p]), p, tx[p], Moved(GotSum(s), x, tx[p]), SentSum(p))
  BY NextPacket
<1>8. Epoch(tx[p]) = y + 1
  <2>1. Tail(wire[p]) \in Seq(Pkts)
    BY <1>1
  <2>2. Before(Moved(GotSum(s), x, tx[p]), SentSum(p))
    BY <1>7, <2>1, LeadsEnds
  <2>3. Moved(GotSum(s), x, tx[p]).n = y + 1
    <3>1. x.body.type = "newkeys"
      BY <1>3
    <3> HIDE DEF x
    <3> QED
      BY <3>1, SumFields DEF Moved
  <2>4. y + 1 <= Epoch(tx[p])
    BY <2>2, <2>3, SumFields DEF Before
  <2>5. theirs[p] <= kexinits[s]
    BY Bounds
  <2> HIDE DEF y
  <2> QED
    BY <1>1, <1>6, <2>4, <2>5 DEF Place
<1>9. tx[p] = tx[s] /\ rx'[s] = tx[p]
  <2>1. KeyInv
    BY DEF FlowInv
  <2>2. tx[p] = tx[s]
    <3>1. \/ s = "client" /\ p = "server"
          \/ s = "server" /\ p = "client"
      BY <1>1 DEF Side
    <3> QED
      BY <1>6, <1>8, <2>1, <3>1 DEF KeyInv
  <2>3. tx[s] = make_cipher(hash[s], session_id[s])
    BY <1>3, <2>1 DEF KeyInv
  <2> QED
    BY <1>3, <2>2, <2>3
<1>10. GotSum(s)' = Moved(GotSum(s), x, tx[p])
  <2>1. x.body.type = "newkeys"
    BY <1>3
  <2>2. Epoch(rx'[s]) = y + 1
    BY <1>8, <1>9
  <2> HIDE DEF x
  <2> QED
    BY <1>3, <1>6, <1>9, <2>1, <2>2 DEF GotSum, Moved
<1>11. Leading(wire'[p], p, tx[p], GotSum(s)', SentSum(p))
  BY <1>3, <1>7, <1>10
<1>12. Leading(wire'[s], s, tx'[s], GotSum(p), SentSum(s)')
  <2>1. CASE ~ext
    <3>1. SentSum(s)' = SentSum(s)
      BY <1>3, <2>1 DEF SentSum
    <3> QED
      BY <1>1, <1>3, <2>1, <3>1
  <2>2. CASE ext
    <3>1. Msg("ext_info") \in Body /\ 0 \in Nat /\ 0 <= RekeyPackets + 2
      BY Messages, TransportAssumption
    <3>2. X \in Pkts
      BY <1>1, <3>1, SealOne
    <3>3. wire[s] \o Seal(tx[s], 0, <<Msg("ext_info")>>) = Append(wire[s], X)
      <4>1. wire[s] \in Seq(Pkts) /\ tx[s] \in Key
        BY <1>1
      <4>2. \A c \in Body : wire[s] \o Seal(tx[s], 0, <<c>>)
              = Append(wire[s], Pkt(tx[s], 0, c))
        BY <3>1, <4>1, SealEnd, ZenonT(30)
      <4> QED
        BY <3>1, <4>2
    <3>4. X.key = tx[s] /\ X.seq = 0 /\ X.body.type = "ext_info"
      BY DEF Pkt, Msg
    <3> HIDE DEF X
    <3>5. wire'[s] = Append(wire[s], X)
      BY <1>3, <1>5, <2>2, <3>3
    <3>6. tx_seq'[s] = 0 + 1
      <4>1. (0 + 1) % SeqMod = 0 + 1
        BY ModSmall, TransportAssumption
      <4> QED
        BY <1>3, <1>5, <2>2, <4>1
    <3>7. SentSum(s) = [k |-> y + 1, e |-> y + 1, n |-> y + 1, key |-> tx[s], seq |-> 0]
      BY <1>5, <1>6 DEF SentSum
    <3>8. Takes(SentSum(s), X, s, tx[s])
      BY <1>1, <3>4, <3>7 DEF Takes, Allowed
    <3>9. SentSum(s)' = Moved(SentSum(s), X, tx[s])
      BY <1>3, <1>5, <3>4, <3>6 DEF SentSum, Moved
    <3>10. Leading(Append(wire[s], X), s, tx[s], GotSum(p), Moved(SentSum(s), X, tx[s]))
      BY <1>1, <3>2, <3>8, LeadsSend
    <3> QED
      BY <1>3, <3>5, <3>9, <3>10
  <2> QED
    BY <2>1, <2>2
<1>13. Place(phase'[s], kexinits'[s], theirs'[s], Epoch(tx'[s]), Epoch(rx'[s]))
  <2>1. Epoch(tx'[s]) = y + 1 /\ Epoch(rx'[s]) = y + 1 /\ kexinits'[s] = y + 1 /\ theirs'[s] = y + 1
    BY <1>3, <1>6, <1>8, <1>9
  <2> HIDE DEF y
  <2> QED
    BY <1>1, <1>3, <2>1 DEF Place
<1>14. WireInv' /\ PlaceInv'
  BY <1>4, <1>11, <1>12, <1>13, WireStep
<1> QED
  BY <1>3, <1>4, <1>14, KeyStep

-----------------------------------------------------------------------------
(* Every step preserves the invariant.                                      *)

\* What arrives is what the receiver's phase expects.
LEMMA ExpectedNext ==
    ASSUME IInv, FlowInv, NEW s \in Side, wire[Peer(s)] # <<>>, phase[s] \notin {"start", "dead"}
    PROVE  Head(wire[Peer(s)]).body.type \in Expected[phase[s]]
<1> DEFINE p == Peer(s)
           x == Head(wire[p])
           n == kexinits[s]
           t == theirs[s]
           u == Epoch(tx[s])
           y == Epoch(rx[s])
<1>1. /\ Place(phase[s], n, t, u, y) /\ n \in Nat /\ t \in Nat /\ u \in Nat /\ y \in Nat
      /\ p \in Side /\ p # s
  BY Ends
<1>2. x.body.type \in Allowed(GotSum(s), p)
  BY NextPacket DEF Takes
<1>3. GotSum(s).k = t /\ GotSum(s).e = u /\ GotSum(s).n = y
  BY SumFields
<1>4. phase[s] \in Phases /\ phase["client"] # "ecdh_init" /\ phase["server"] # "ecdh_reply"
  BY DEF IInv, Typed, Exchanging
<1>5. (s = "client" /\ p = "server") \/ (s = "server" /\ p = "client")
  BY <1>1 DEF Side
<1> SUFFICES x.body.type \in Expected[phase[s]]
  OBVIOUS
<1> HIDE DEF x, n, t, u, y, p
<1>6. CASE phase[s] = "init_wait"
  BY <1>1, <1>2, <1>3, <1>6 DEF Place, Allowed, Expected
<1>7. CASE phase[s] = "open" \/ phase[s] = "rekey_wait"
  <2>1. t = y /\ y > 0
    BY <1>1, <1>7 DEF Place
  <2>2. x.body.type \in {"kexinit", "app", "ext_info", "disconnect"}
    BY <1>1, <1>2, <1>3, <2>1 DEF Allowed
  <2> QED
    BY <1>7, <2>2 DEF Expected
<1>8. CASE phase[s] = "ecdh_init" \/ phase[s] = "ecdh_reply"
  <2>1. t = y + 1 /\ u = y
    BY <1>1, <1>8 DEF Place
  <2>2. x.body.type = IF p = "client" THEN "ecdh_init" ELSE "ecdh_reply"
    BY <1>1, <1>2, <1>3, <2>1 DEF Allowed
  <2> QED
    BY <1>4, <1>5, <1>8, <2>2 DEF Expected
<1>9. CASE phase[s] = "newkeys"
  <2>1. t = y + 1 /\ u = y + 1
    BY <1>1, <1>9 DEF Place
  <2>2. x.body.type = "newkeys"
    BY <1>1, <1>2, <1>3, <2>1 DEF Allowed
  <2> QED
    BY <1>9, <2>2 DEF Expected
<1> QED
  BY <1>4, <1>6, <1>7, <1>8, <1>9 DEF Phases

\* A step that only ends a side, or touches nothing here.
LEMMA QuietFlow ==
    ASSUME IInv, FlowInv, NEW s \in Side, phase'[Peer(s)] = phase[Peer(s)],
           phase'[s] \in {phase[s], "dead"},
           UNCHANGED <<wire, tx, rx, tx_seq, rx_seq, kexinits, theirs, hash, session_id>>
    PROVE  WireInv' /\ PlaceInv' /\ KeyInv'
<1>1. /\ Leading(wire[s], s, tx[s], GotSum(Peer(s)), SentSum(s))
      /\ Leading(wire[Peer(s)], Peer(s), tx[Peer(s)], GotSum(s), SentSum(Peer(s)))
      /\ Place(phase[s], kexinits[s], theirs[s], Epoch(tx[s]), Epoch(rx[s]))
  BY Ends
<1>2. GotSum(s)' = GotSum(s) /\ SentSum(s)' = SentSum(s)
  BY DEF GotSum, SentSum
<1>3. Same(Peer(s))
  BY DEF Same
<1>4. Place(phase'[s], kexinits'[s], theirs'[s], Epoch(tx'[s]), Epoch(rx'[s]))
  <2>1. CASE phase'[s] = phase[s]
    BY <1>1, <2>1
  <2>2. CASE phase'[s] = "dead"
    <3>1. Place("dead", kexinits[s], theirs[s], Epoch(tx[s]), Epoch(rx[s]))
      BY <1>1 DEF Place
    <3> QED
      BY <2>2, <3>1
  <2> QED
    BY <2>1, <2>2
<1>5. WireInv' /\ PlaceInv'
  BY <1>1, <1>2, <1>3, <1>4, WireStep
<1>6. KeyInv'
  <2>1. CASE phase'[s] = "newkeys"
    <3>1. \A t \in Side : phase'[t] = phase[t]
      BY <2>1, Ends DEF Side
    <3> QED
      BY <3>1 DEF FlowInv, KeyInv, Epoch
  <2>2. CASE phase'[s] # "newkeys"
    BY <1>3, <2>2, KeyStep
  <2> QED
    BY <2>1, <2>2
<1> QED
  BY <1>5, <1>6

\* A step of a living side that does not end it.
LEMMA ErrKeep ==
    ASSUME IInv, FlowInv, NEW s \in Side, phase[s] # "dead", err' = err,
           rx_seq' \in [Side -> Nat], queued' \in [Side -> Seq(Body)],
           queued'[Peer(s)] = queued[Peer(s)], Len(queued'[s]) <= MaxRekeyQueue,
           phase'[Peer(s)] = phase[Peer(s)]
    PROVE  ErrInv'
<1>1. ErrInv
  BY DEF FlowInv
<1>2. err[s] = "none" /\ Side = {s, Peer(s)}
  BY <1>1, Ends DEF ErrInv, Side
<1>3. err[s] # "queue"
  BY <1>2
<1> QED
  BY <1>1, <1>2, <1>3 DEF ErrInv

\* A step that ends a side.
LEMMA ErrDie ==
    ASSUME IInv, FlowInv, NEW s \in Side,
           NEW why \in {"closed", "hostkey", "queue"},
           err' = [err EXCEPT ![s] = why], why = "hostkey" => s = "client",
           why = "queue" => Len(queued[s]) = MaxRekeyQueue,
           phase' = [phase EXCEPT ![s] = "dead"], UNCHANGED <<rx_seq, queued>>
    PROVE  ErrInv'
<1>1. ErrInv
  BY DEF FlowInv
<1>2. /\ phase \in [Side -> Phases] /\ Side = {s, Peer(s)} /\ Peer(s) # s
      /\ err \in [Side -> {"none", "closed", "hostkey", "queue"}]
  BY <1>1, Ends DEF IInv, Typed, Side, ErrInv
<1>3. err'[s] = why /\ err'[Peer(s)] = err[Peer(s)] /\ phase'[s] = "dead" /\ phase'[Peer(s)] = phase[Peer(s)]
  BY <1>2
<1>4. (s = "client" /\ Peer(s) = "server") \/ (s = "server" /\ Peer(s) = "client")
  BY <1>2, Ends DEF Side
<1>5. err' \in [Side -> {"none", "closed", "hostkey", "queue"}] /\ err'["server"] # "hostkey"
  BY <1>1, <1>3, <1>4 DEF ErrInv
<1>6. \A t \in Side : /\ err'[t] = "queue" => Len(queued[t]) = MaxRekeyQueue
                      /\ err'[t] # "none" => phase'[t] = "dead"
  BY <1>1, <1>2, <1>3 DEF ErrInv
<1> QED
  BY <1>1, <1>5, <1>6 DEF ErrInv

\* A side that ends, for a reason the two ends may have.
LEMMA DieFlow ==
    ASSUME IInv, FlowInv, NEW s \in Side, NEW why \in {"closed", "hostkey", "queue"}, Die(s, why),
           why = "hostkey" => s = "client", why = "queue" => Len(queued[s]) = MaxRekeyQueue
    PROVE  FlowInv'
<1>1. /\ phase' = [phase EXCEPT ![s] = "dead"] /\ err' = [err EXCEPT ![s] = why]
      /\ UNCHANGED <<wire, tx, rx, tx_seq, rx_seq, kexinits, theirs, hash, session_id, queued>>
  BY DEF Die, Goto, kexVars, appVars
<1>2. phase'[s] = "dead" /\ phase'[Peer(s)] = phase[Peer(s)]
  BY <1>1, Ends DEF IInv, Typed
<1>3. WireInv' /\ PlaceInv' /\ KeyInv'
  BY <1>1, <1>2, QuietFlow
<1>4. ErrInv'
  BY <1>1, ErrDie
<1> QED
  BY <1>3, <1>4 DEF FlowInv

\* Each handler preserves the invariant.
LEMMA HandleFlow ==
    ASSUME IInv, FlowInv, NEW s \in Side, wire[Peer(s)] # <<>>, phase[s] # "dead",
           Handle(s, Head(wire[Peer(s)]).body)
    PROVE  FlowInv'
<1> DEFINE p == Peer(s)
           m == Head(wire[p]).body
<1>0. /\ p \in Side /\ p # s /\ m \in Body /\ (rx_seq[s] + 1) % SeqMod = rx_seq[s] + 1
      /\ rx_seq \in [Side -> Nat] /\ queued \in [Side -> Seq(Body)]
      /\ \A t \in Side : Len(queued[t]) <= MaxRekeyQueue /\ Len(queued[t]) \in Nat
      /\ phase \in [Side -> Phases] /\ MaxRekeyQueue \in Nat
  <2>1. \A t \in Side : Len(queued[t]) <= MaxRekeyQueue /\ Len(queued[t]) \in Nat
    BY DEF FlowInv, ErrInv
  <2> QED
    BY <2>1, Ends, NextPacket, TransportAssumption DEF IInv, Typed, FlowInv, ErrInv
<1>1. ASSUME NEW bodies, Took(s, bodies) PROVE rx_seq' \in [Side -> Nat]
  <2>1. rx_seq' = [rx_seq EXCEPT ![s] = rx_seq[s] + 1]
    BY <1>0, <1>1 DEF Took
  <2> QED
    BY <1>0, <2>1
<1>2. ASSUME NEW h, NEW bodies, Switch(s, h, bodies)
      PROVE  rx_seq' \in [Side -> Nat] /\ phase'[p] = phase[p]
  <2>1. rx_seq' = [rx_seq EXCEPT ![s] = rx_seq[s] + 1] /\ phase' = [phase EXCEPT ![s] = "newkeys"]
    BY <1>0, <1>2 DEF Switch, Goto
  <2> QED
    BY <1>0, <2>1
<1>3. ASSUME rx_seq' \in [Side -> Nat], UNCHANGED <<err, queued>>, phase'[p] = phase[p]
      PROVE  ErrInv'
  BY <1>0, <1>3, ErrKeep
<1>m. m = Head(wire[Peer(s)]).body
  OBVIOUS
<1> HIDE DEF m
<1>4. CASE OnKexInit(s, m)
  <2>1. WireInv' /\ PlaceInv' /\ KeyInv'
    BY <1>4, <1>m, OnKexInitFlow
  <2>2. rx_seq' \in [Side -> Nat] /\ UNCHANGED <<err, queued>>
    BY <1>1, <1>4 DEF OnKexInit, appVars
  <2>3. phase'[p] = phase[p]
    BY <1>0, <1>4 DEF OnKexInit, Goto
  <2> QED
    BY <1>3, <2>1, <2>2, <2>3 DEF FlowInv
<1>5. CASE OnEcdhInit(s, m)
  <2>1. WireInv' /\ PlaceInv' /\ KeyInv'
    BY <1>5, <1>m, OnEcdhInitFlow
  <2>2. rx_seq' \in [Side -> Nat] /\ phase'[p] = phase[p]
    BY <1>2, <1>5 DEF OnEcdhInit
  <2>3. UNCHANGED <<err, queued>>
    BY <1>5 DEF OnEcdhInit, appVars
  <2> QED
    BY <1>3, <2>1, <2>2, <2>3 DEF FlowInv
<1>6. CASE OnEcdhReply(s, m)
  <2>1. WireInv' /\ PlaceInv' /\ KeyInv'
    BY <1>6, <1>m, OnEcdhReplyFlow
  <2>2. rx_seq' \in [Side -> Nat] /\ phase'[p] = phase[p]
    BY <1>2, <1>6 DEF OnEcdhReply
  <2>3. UNCHANGED <<err, queued>>
    BY <1>6 DEF OnEcdhReply, appVars
  <2> QED
    BY <1>3, <2>1, <2>2, <2>3 DEF FlowInv
<1>7. CASE OnEcdhReplyBad(s, m)
  <2>1. s = "client"
    BY <1>7 DEF OnEcdhReplyBad, IInv, Exchanging, Side
  <2> QED
    BY <1>7, <2>1, DieFlow DEF OnEcdhReplyBad
<1>8. CASE OnNewKeys(s, m)
  <2>1. WireInv' /\ PlaceInv' /\ KeyInv'
    BY <1>8, <1>m, OnNewKeysFlow
  <2>2. rx_seq' \in [Side -> Nat] /\ phase'[p] = phase[p]
    BY <1>0, <1>8 DEF OnNewKeys, Goto
  <2>3. UNCHANGED <<err, queued>>
    BY <1>8 DEF OnNewKeys, appVars
  <2> QED
    BY <1>3, <2>1, <2>2, <2>3 DEF FlowInv
<1>9. CASE OnApp(s, m) \/ OnExtInfo(s, m)
  <2>1. /\ Took(s, <<>>) /\ UNCHANGED <<phase, tx, rx, kexinits, kexVars>>
        /\ m.type \in {"app", "ext_info"} /\ phase[s] = "open" /\ UNCHANGED <<err, queued>>
    BY <1>9 DEF OnApp, OnExtInfo
  <2>2. WireInv' /\ PlaceInv' /\ KeyInv'
    BY <1>m, <2>1, TakeOneFlow
  <2> QED
    BY <1>1, <1>3, <2>1, <2>2 DEF FlowInv
<1>10. CASE Enqueue(s, m)
  <2>1. CASE Len(queued[s]) >= MaxRekeyQueue
    <3>1. Len(queued[s]) = MaxRekeyQueue
      BY <1>0, <2>1
    <3> QED
      BY <1>10, <2>1, <3>1, DieFlow DEF Enqueue
  <2>2. CASE ~(Len(queued[s]) >= MaxRekeyQueue)
    <3>1. /\ Took(s, <<>>) /\ UNCHANGED <<phase, tx, rx, kexinits, kexVars>>
          /\ m.type \in {"app", "ext_info"} /\ phase[s] = "rekey_wait" /\ UNCHANGED err
          /\ queued' = [queued EXCEPT ![s] = Append(@, m)]
      BY <1>10, <2>2 DEF Enqueue, SetAside
    <3>2. WireInv' /\ PlaceInv' /\ KeyInv'
      BY <1>m, <3>1, TakeOneFlow
    <3>3. queued' \in [Side -> Seq(Body)] /\ queued'[p] = queued[p]
          /\ Len(queued'[s]) = Len(queued[s]) + 1
      BY <1>0, <3>1
    <3>4. Len(queued'[s]) <= MaxRekeyQueue
      BY <1>0, <2>2, <3>3
    <3>5. rx_seq' \in [Side -> Nat]
      BY <1>1, <3>1
    <3>6. ErrInv'
      BY <3>1, <3>3, <3>4, <3>5, ErrKeep
    <3> QED
      BY <3>2, <3>6 DEF FlowInv
  <2> QED
    BY <2>1, <2>2
<1>11. CASE OnDisconnect(s, m)
  BY <1>11, DieFlow DEF OnDisconnect
<1> QED
  BY <1>4, <1>5, <1>6, <1>7, <1>8, <1>9, <1>10, <1>11, <1>m DEF Handle

\* One packet sent preserves the invariant, by a side that goes on or ends.
LEMMA SendFlow ==
    ASSUME IInv, FlowInv, NEW s \in Side, NEW m \in Body, SendRaw(s, <<m>>),
           NEW ph \in {"init_wait", "rekey_wait", "open", "dead"},
           phase' = [phase EXCEPT ![s] = ph], phase[s] # "dead",
           IF ph = "dead" THEN err' = [err EXCEPT ![s] = "closed"] ELSE err' = err,
           UNCHANGED <<tx, rx, rx_seq, kexVars, queued>>,
           kexinits' = [kexinits EXCEPT ![s] = IF m.type = "kexinit" THEN @ + 1 ELSE @],
           m.type \in {"kexinit", "app", "disconnect"},
           m.type = "kexinit" => m.cookie = kexinits[s] + 1,
           phase[s] \in {"start", "open"}, phase[s] = "start" => m.type = "kexinit" /\ ph = "init_wait",
           phase[s] = "open" => ph = IF m.type = "kexinit" THEN "rekey_wait"
                                     ELSE IF m.type = "app" THEN "open" ELSE "dead"
    PROVE  FlowInv'
<1> DEFINE p == Peer(s)
           y == Epoch(rx[s])
<1>1. /\ Place(phase[s], kexinits[s], theirs[s], Epoch(tx[s]), Epoch(rx[s]))
      /\ kexinits[s] \in Nat /\ theirs[s] \in Nat /\ Epoch(tx[s]) \in Nat /\ y \in Nat
      /\ p \in Side /\ p # s /\ phase \in [Side -> Phases] /\ kexinits \in [Side -> Nat]
  BY Ends DEF IInv, Typed
<1>2. phase'[s] = ph /\ phase'[p] = phase[p] /\ ph # "newkeys"
  BY <1>1
<1>3. tx_seq[s] <= RekeyPackets
  BY TransportAssumption DEF IInv, SeqByPhase
<1>4. /\ kexinits[s] = y /\ theirs[s] = y /\ Epoch(tx[s]) = y
      /\ phase[s] = "start" => y = 0
      /\ phase[s] = "open" => y > 0
  BY <1>1 DEF Place
<1>5. m.type \in Allowed(SentSum(s), s)
  <2>1. SentSum(s).k = y /\ SentSum(s).n = y
    BY <1>4, SumFields
  <2>2. y = 0 => m.type = "kexinit"
    BY <1>1, <1>4
  <2> QED
    BY <2>1, <2>2 DEF Allowed
<1>6. kexinits'[s] = IF m.type = "kexinit" THEN y + 1 ELSE y
  BY <1>1, <1>4
<1>7. Place(phase'[s], kexinits'[s], theirs[s], Epoch(tx[s]), Epoch(rx[s]))
  <2>1. Epoch(rx[s]) = y
    OBVIOUS
  <2> HIDE DEF y
  <2>2. CASE m.type = "kexinit"
    BY <1>1, <1>2, <1>4, <1>6, <2>1, <2>2 DEF Place
  <2>3. CASE m.type # "kexinit"
    BY <1>1, <1>2, <1>4, <1>6, <2>1, <2>3 DEF Place
  <2> QED
    BY <2>2, <2>3
<1>8. WireInv' /\ PlaceInv' /\ KeyInv'
  BY <1>2, <1>3, <1>5, <1>7, SendOneFlow
<1>9. ErrInv'
  <2>1. CASE ph = "dead"
    BY <2>1, ErrDie
  <2>2. CASE ph # "dead"
    <3>1. rx_seq' \in [Side -> Nat] /\ queued' \in [Side -> Seq(Body)] /\ Len(queued'[s]) <= MaxRekeyQueue
      BY DEF FlowInv, ErrInv
    <3> QED
      BY <1>2, <2>2, <3>1, ErrKeep
  <2> QED
    BY <2>1, <2>2
<1> QED
  BY <1>8, <1>9 DEF FlowInv

\* Both directions are in order before the first KEXINIT.
LEMMA InitFlow == Init => FlowInv
<1> SUFFICES ASSUME Init PROVE FlowInv
  OBVIOUS
<1> DEFINE z == [k |-> 0, e |-> 0, n |-> 0, key |-> Plain, seq |-> 0]
<1>1. z \in Sums /\ Sound(z)
  BY DEF Sums, Sound, Key
<1>2. ASSUME NEW s \in Side
      PROVE  /\ wire[s] = <<>> /\ tx[s] = Plain /\ rx[s] = Plain /\ kexinits[s] = 0 /\ theirs[s] = 0
             /\ tx_seq[s] = 0 /\ rx_seq[s] = 0 /\ phase[s] = "start" /\ err[s] = "none"
             /\ queued[s] = <<>> /\ session_id[s] = None
  BY DEF Init
<1>3. ASSUME NEW s \in Side PROVE SentSum(s) = z /\ GotSum(s) = z
  <2>1. /\ tx[s] = Plain /\ rx[s] = Plain /\ kexinits[s] = 0 /\ theirs[s] = 0
        /\ tx_seq[s] = 0 /\ rx_seq[s] = 0
    BY <1>2
  <2> QED
    BY <2>1, EpochType DEF SentSum, GotSum
<1>4. WireInv
  <2> SUFFICES ASSUME NEW s \in Side
               PROVE  Leading(wire[s], s, tx[s], GotSum(Peer(s)), SentSum(s))
    BY DEF WireInv
  <2>1. wire[s] = <<>> /\ SentSum(s) = z /\ GotSum(Peer(s)) = z
    BY <1>2, <1>3, PeerSide
  <2> HIDE DEF z
  <2>2. Leading(<<>>, s, tx[s], z, z)
    BY <1>1, LeadsNone
  <2> QED
    BY <2>1, <2>2
<1>5. PlaceInv
  <2> SUFFICES ASSUME NEW s \in Side
               PROVE  Place(phase[s], kexinits[s], theirs[s], Epoch(tx[s]), Epoch(rx[s]))
    BY DEF PlaceInv
  <2>1. /\ phase[s] = "start" /\ kexinits[s] = 0 /\ theirs[s] = 0
        /\ Epoch(tx[s]) = 0 /\ Epoch(rx[s]) = 0
    BY <1>2, EpochType
  <2> QED
    BY <2>1 DEF Place
<1>6. KeyInv
  <2>1. \A s \in Side : tx[s] = Plain /\ session_id[s] = None /\ phase[s] = "start" /\ Epoch(tx[s]) = 0
    BY <1>2, EpochType
  <2>2. "client" \in Side /\ "server" \in Side
    BY DEF Side
  <2> QED
    BY <2>1, <2>2 DEF KeyInv
<1>7. ErrInv
  <2>1. \A s \in Side : Len(queued[s]) = 0 /\ err[s] = "none"
    BY <1>2
  <2>2. rx_seq \in [Side -> Nat] /\ queued \in [Side -> Seq(Body)]
        /\ err \in [Side -> {"none", "closed", "hostkey", "queue"}]
    BY DEF Init
  <2>3. "server" \in Side /\ MaxRekeyQueue \in Nat
    BY TransportAssumption DEF Side
  <2> QED
    BY <2>1, <2>2, <2>3 DEF ErrInv
<1> QED
  BY <1>4, <1>5, <1>6, <1>7 DEF FlowInv

\* Every step keeps both directions in order.
LEMMA NextFlow == IInv /\ FlowInv /\ [Next]_vars => FlowInv'
<1> SUFFICES ASSUME IInv, FlowInv, [Next]_vars PROVE FlowInv'
  OBVIOUS
<1>0. /\ phase \in [Side -> Phases] /\ kexinits \in [Side -> Nat] /\ sent \in [Side -> Nat]
      /\ \A s \in Side : Peer(s) \in Side /\ Peer(s) # s /\ kexinits[s] + 1 \in Nat /\ sent[s] + 1 \in Nat
      /\ rx_seq \in [Side -> Nat] /\ queued \in [Side -> Seq(Body)]
      /\ \A s \in Side : Len(queued[s]) <= MaxRekeyQueue
  <2>1. phase \in [Side -> Phases] /\ kexinits \in [Side -> Nat] /\ sent \in [Side -> Nat]
    BY DEF IInv, Typed
  <2>2. \A s \in Side : kexinits[s] + 1 \in Nat /\ sent[s] + 1 \in Nat
    BY <2>1
  <2>3. /\ rx_seq \in [Side -> Nat] /\ queued \in [Side -> Seq(Body)]
        /\ \A s \in Side : Len(queued[s]) <= MaxRekeyQueue
    BY DEF FlowInv, ErrInv
  <2> QED
    BY <2>1, <2>2, <2>3, PeerSide
<1>1. ASSUME UNCHANGED <<phase, err, wire, tx, rx, tx_seq, rx_seq, kexinits, theirs, hash, session_id, queued>>
      PROVE  FlowInv'
  <2>1. "client" \in Side
    BY DEF Side
  <2>2. WireInv' /\ PlaceInv' /\ KeyInv'
    BY <1>1, <2>1, QuietFlow
  <2>3. ErrInv'
    BY <1>1 DEF FlowInv, ErrInv
  <2> QED
    BY <2>2, <2>3 DEF FlowInv
<1>2. ASSUME NEW s \in Side, Start(s) PROVE FlowInv'
  <2> DEFINE m == KexInit(kexinits[s] + 1)
  <2>1. m \in Body /\ m.type = "kexinit" /\ m.cookie = kexinits[s] + 1
    BY <1>0, Messages DEF KexInit
  <2>2. /\ phase[s] = "start" /\ phase' = [phase EXCEPT ![s] = "init_wait"] /\ SendRaw(s, <<m>>)
        /\ kexinits' = [kexinits EXCEPT ![s] = @ + 1]
        /\ UNCHANGED <<err, tx, rx, rx_seq, kexVars, queued>>
    BY <1>2 DEF Start, Goto, appVars
  <2> HIDE DEF m
  <2>3. kexinits' = [kexinits EXCEPT ![s] = IF m.type = "kexinit" THEN @ + 1 ELSE @]
    BY <2>1, <2>2
  <2> QED
    BY <2>1, <2>2, <2>3, SendFlow
<1>3. ASSUME NEW s \in Side, RekeyInitiate(s) PROVE FlowInv'
  <2> DEFINE m == KexInit(kexinits[s] + 1)
  <2>1. m \in Body /\ m.type = "kexinit" /\ m.cookie = kexinits[s] + 1
    BY <1>0, Messages DEF KexInit
  <2>2. /\ phase[s] = "open" /\ phase' = [phase EXCEPT ![s] = "rekey_wait"] /\ SendRaw(s, <<m>>)
        /\ kexinits' = [kexinits EXCEPT ![s] = @ + 1]
        /\ UNCHANGED <<err, tx, rx, rx_seq, kexVars, queued>>
    BY <1>3 DEF RekeyInitiate, Goto, appVars
  <2> HIDE DEF m
  <2>3. kexinits' = [kexinits EXCEPT ![s] = IF m.type = "kexinit" THEN @ + 1 ELSE @]
    BY <2>1, <2>2
  <2> QED
    BY <2>1, <2>2, <2>3, SendFlow
<1>4. ASSUME NEW s \in Side, SendApp(s) PROVE FlowInv'
  <2> DEFINE m == App(sent[s] + 1)
  <2>1. m \in Body /\ m.type = "app"
    BY <1>0, Messages DEF App
  <2>2. /\ phase[s] = "open" /\ phase' = [phase EXCEPT ![s] = "open"] /\ SendRaw(s, <<m>>)
        /\ kexinits' = kexinits
        /\ UNCHANGED <<err, tx, rx, rx_seq, kexVars, queued>>
    BY <1>0, <1>4 DEF SendApp, MaySend
  <2> HIDE DEF m
  <2>3. kexinits' = [kexinits EXCEPT ![s] = IF m.type = "kexinit" THEN @ + 1 ELSE @]
    BY <1>0, <2>1, <2>2
  <2> QED
    BY <2>1, <2>2, <2>3, SendFlow
<1>5. ASSUME NEW s \in Side, Disconnect(s) PROVE FlowInv'
  <2> DEFINE m == Msg("disconnect")
  <2>1. m \in Body /\ m.type = "disconnect"
    BY Messages DEF Msg
  <2>2. /\ phase[s] = "open" /\ phase' = [phase EXCEPT ![s] = "dead"] /\ SendRaw(s, <<m>>)
        /\ kexinits' = kexinits /\ err' = [err EXCEPT ![s] = "closed"]
        /\ UNCHANGED <<tx, rx, rx_seq, kexVars, queued>>
    BY <1>5 DEF Disconnect, Goto, appVars
  <2> HIDE DEF m
  <2>3. kexinits' = [kexinits EXCEPT ![s] = IF m.type = "kexinit" THEN @ + 1 ELSE @]
    BY <1>0, <2>1, <2>2
  <2> QED
    BY <2>1, <2>2, <2>3, SendFlow
<1>6. ASSUME NEW s \in Side, Receive(s) PROVE FlowInv'
  <2>1. wire[Peer(s)] # <<>> /\ phase[s] \notin {"start", "dead"}
    BY <1>6 DEF Receive
  <2>2. /\ Authentic(s, Head(wire[Peer(s)]))
        /\ Head(wire[Peer(s)]).body.type \in Expected[phase[s]]
    BY <2>1, NextPacket, ExpectedNext
  <2>3. Handle(s, Head(wire[Peer(s)]).body)
    BY <1>6, <2>2 DEF Receive
  <2> QED
    BY <2>1, <2>3, HandleFlow
<1>7. ASSUME NEW s \in Side, PopQueued(s) PROVE FlowInv'
  <2>1. /\ phase[s] = "open" /\ queued[s] # <<>> /\ queued' = [queued EXCEPT ![s] = Tail(@)]
        /\ UNCHANGED <<phase, err, tx, rx, tx_seq, rx_seq, wire, kexinits, theirs, hash, session_id>>
    BY <1>7 DEF PopQueued, kexVars
  <2>2. WireInv' /\ PlaceInv' /\ KeyInv'
    BY <2>1, QuietFlow
  <2>3. queued[s] \in Seq(Body) /\ Len(queued[s]) <= MaxRekeyQueue /\ MaxRekeyQueue \in Nat
    BY <1>0, TransportAssumption
  <2>4. Tail(queued[s]) \in Seq(Body) /\ Len(Tail(queued[s])) <= MaxRekeyQueue
    BY <2>1, <2>3
  <2>5. queued' \in [Side -> Seq(Body)] /\ queued'[Peer(s)] = queued[Peer(s)]
        /\ Len(queued'[s]) <= MaxRekeyQueue
    BY <1>0, <2>1, <2>4
  <2>6. ErrInv'
    BY <1>0, <2>1, <2>5, ErrKeep
  <2> QED
    BY <2>2, <2>6 DEF FlowInv
<1>8. ASSUME NEW s \in Side, Break(s) \/ PeerClosed(s) PROVE FlowInv'
  BY <1>8, DieFlow DEF Break, PeerClosed
<1>9. ASSUME NEW s \in Side, Age(s) PROVE FlowInv'
  BY <1>1, <1>9 DEF Age, kexVars, appVars
<1>10. CASE CertExpires \/ UNCHANGED vars
  BY <1>1, <1>10 DEF CertExpires, vars, kexVars, appVars
<1> QED
  BY <1>2, <1>3, <1>4, <1>5, <1>6, <1>7, <1>8, <1>9, <1>10 DEF Next, Step

\* The invariant of the two directions holds throughout.
THEOREM Flow == Spec => []FlowInv
  BY Inductive, InitFlow, NextFlow, PTL DEF Spec

\* After a KEXINIT come the share or reply, then NEWKEYS.
LEMMA FlowStrict ==
    ASSUME IInv, FlowInv
    PROVE  StrictKex
<1> SUFFICES ASSUME NEW s \in Side, NEW i \in 1..Len(wire[s]), NEW j \in 1..Len(wire[s]),
                    i < j, wire[s][i].body.type = "kexinit",
                    wire[s][j].body.type \in {"app", "ext_info", "disconnect"}
             PROVE  \E k \in i..j : wire[s][k].body.type = "newkeys"
  BY DEF StrictKex
<1> DEFINE q == wire[s]
           n == Len(q)
<1>1. n \in Nat /\ i \in Nat /\ j \in Nat /\ i >= 1 /\ j <= n /\ i < j
  BY Ends
<1>2. PICK f : Leads(f, q, s, tx[s], GotSum(Peer(s)), SentSum(s))
  BY Ends DEF Leading
<1>3. /\ f \in [0..n -> Sums]
      /\ \A l \in 0..n : Sound(f[l])
      /\ \A l \in 1..n : Takes(f[l - 1], q[l], s, tx[s]) /\ f[l] = Moved(f[l - 1], q[l], tx[s])
  BY <1>2 DEF Leads
<1> DEFINE ty(l) == q[l].body.type
<1>4. ty(i) = "kexinit" /\ ty(j) \in {"app", "ext_info", "disconnect"}
  OBVIOUS
<1> SUFFICES \E k \in i..j : ty(k) = "newkeys"
  OBVIOUS
<1>5. ASSUME NEW l \in 1..n
      PROVE  /\ f[l - 1].k \in Nat /\ f[l - 1].e \in Nat /\ f[l - 1].n \in Nat
             /\ f[l].k = (IF ty(l) = "kexinit" THEN f[l - 1].k + 1 ELSE f[l - 1].k)
             /\ f[l].e = (IF ty(l) \in {"ecdh_init", "ecdh_reply"} THEN f[l - 1].e + 1 ELSE f[l - 1].e)
             /\ f[l].n = (IF ty(l) = "newkeys" THEN f[l - 1].n + 1 ELSE f[l - 1].n)
             /\ ty(l) \in Allowed(f[l - 1], s) /\ Sound(f[l - 1])
  <2>1. l - 1 \in 0..n /\ l \in 0..n
    BY <1>1
  <2>2. f[l - 1] \in Sums /\ Sound(f[l - 1])
    BY <1>3, <2>1
  <2>3. f[l - 1].k \in Nat /\ f[l - 1].e \in Nat /\ f[l - 1].n \in Nat
    BY <2>2 DEF Sums
  <2>4. Takes(f[l - 1], q[l], s, tx[s]) /\ f[l] = Moved(f[l - 1], q[l], tx[s])
    BY <1>3
  <2> HIDE DEF q
  <2> QED
    BY <2>2, <2>3, <2>4 DEF Moved, Takes
<1> HIDE DEF ty, q, n
<1>6. f[i].k = f[i].n + 1 /\ f[i].e = f[i].n /\ f[i].n \in Nat
  <2>1. i \in 1..n
    BY <1>1
  <2> QED
    BY <1>4, <1>5, <2>1 DEF Sound, Allowed
<1>7. i + 1 \in 1..n /\ (i + 1) - 1 = i /\ i + 1 <= j
  BY <1>1
<1>8. ty(i + 1) \in {"ecdh_init", "ecdh_reply"}
  <2>1. ty(i + 1) \in Allowed(f[i], s)
    BY <1>5, <1>7
  <2> QED
    BY <1>6, <2>1 DEF Allowed
<1>9. f[i + 1].k = f[i].n + 1 /\ f[i + 1].e = f[i].n + 1 /\ f[i + 1].n = f[i].n
  <2>1. /\ f[i + 1].k = (IF ty(i + 1) = "kexinit" THEN f[i].k + 1 ELSE f[i].k)
        /\ f[i + 1].e = (IF ty(i + 1) \in {"ecdh_init", "ecdh_reply"} THEN f[i].e + 1 ELSE f[i].e)
        /\ f[i + 1].n = (IF ty(i + 1) = "newkeys" THEN f[i].n + 1 ELSE f[i].n)
    BY <1>5, <1>7
  <2> QED
    BY <1>6, <1>8, <2>1
<1>10. j # i + 1
  BY <1>4, <1>8
<1>11. i + 2 \in 1..n /\ (i + 2) - 1 = i + 1 /\ i + 2 \in i..j
  BY <1>1, <1>7, <1>10
<1>12. ty(i + 2) \in Allowed(f[i + 1], s)
  BY <1>5, <1>11
<1>13. ty(i + 2) = "newkeys"
  BY <1>6, <1>9, <1>12 DEF Allowed
<1> QED
  BY <1>11, <1>13

\* Whatever rekeys cross, no packet fails to open and none is unexpected: the
\* only ways to end are the ones listed, and the queue's only when it is full
\* (recv_raw, expect, rekey_initiate, rekey_respond, run_kex).
THEOREM NeverDisturbed == Spec => []Undisturbed
<1>1. IInv /\ FlowInv => Undisturbed
  <2> SUFFICES ASSUME IInv, FlowInv PROVE Undisturbed
    OBVIOUS
  <2>1. StrictKex
    BY FlowStrict
  <2>2. ErrInv /\ "client" \in Side /\ "server" \in Side
    BY DEF FlowInv, Side
  <2>3. /\ err["client"] \in {"none", "closed", "hostkey", "queue"}
        /\ err["server"] \in {"none", "closed", "queue"}
        /\ \A s \in Side : err[s] = "queue" => Len(queued[s]) = MaxRekeyQueue
    BY <2>2 DEF ErrInv
  <2> QED
    BY <2>1, <2>3 DEF Undisturbed
<1> QED
  BY <1>1, Inductive, Flow, PTL

\* Both ends derive every key with one session id, and a drained direction
\* has the same key and the same sequence number at both ends (run_kex).
THEOREM SessionsAgree == Spec => []SessionAgreed
<1>1. IInv /\ FlowInv => SessionAgreed
  <2> SUFFICES ASSUME IInv, FlowInv PROVE SessionAgreed
    OBVIOUS
  <2>1. (session_id["client"] # None /\ session_id["server"] # None) =>
          session_id["client"] = session_id["server"]
    BY DEF FlowInv, KeyInv
  <2>2. ASSUME NEW s \in Side, wire[s] = <<>>
        PROVE  tx[s] = rx[Peer(s)] /\ tx_seq[s] = rx_seq[Peer(s)]
    <3>1. wire[s] \in Seq(Pkts) /\ Leading(wire[s], s, tx[s], GotSum(Peer(s)), SentSum(s))
      BY Ends
    <3>2. GotSum(Peer(s)) = SentSum(s)
      BY <2>2, <3>1, LeadsEnds
    <3> QED
      BY <3>2, SumFields
  <2> QED
    BY <2>1, <2>2 DEF SessionAgreed
<1> QED
  BY <1>1, Inductive, Flow, PTL

-----------------------------------------------------------------------------
(* Application packets: each once, in order.                                *)

\* Lemmas about numbered sequences: growing by other messages, growing by the
\* next number, losing another message, losing the first number.
LEMMA NumGrow ==
    ASSUME NEW u \in Seq(Body), NEW v \in Seq(Body), NEW a \in Nat, NEW b \in Nat,
           Numbered(u, a, b), Len(v) >= Len(u), \A i \in 1..Len(u) : v[i] = u[i],
           \A i \in 1..Len(v) : i > Len(u) => v[i].type # "app"
    PROVE  Numbered(v, a, b)
<1> DEFINE n == Len(u)
           k == Len(v)
<1>1. n \in Nat /\ k \in Nat /\ n <= k
  OBVIOUS
<1>2. /\ \A i \in 1..n : u[i].type = "app" => a < u[i].n /\ u[i].n <= b
      /\ \A i, j \in 1..n : (i < j /\ u[i].type = "app" /\ u[j].type = "app") => u[i].n < u[j].n
      /\ \A l \in (a + 1)..b : \E i \in 1..n : u[i].type = "app" /\ u[i].n = l
      /\ \A i \in 1..n : v[i] = u[i]
      /\ \A i \in 1..k : v[i].type = "app" => i \in 1..n
  BY <1>1, SMTT(60) DEF Numbered
<1> HIDE DEF n, k
<1>3. \A i \in 1..n : i \in 1..k
  BY <1>1
<1>4. /\ \A i \in 1..k : v[i].type = "app" => a < v[i].n /\ v[i].n <= b
      /\ \A i, j \in 1..k : (i < j /\ v[i].type = "app" /\ v[j].type = "app") => v[i].n < v[j].n
  BY <1>2
<1>5. \A l \in (a + 1)..b : \E i \in 1..k : v[i].type = "app" /\ v[i].n = l
  BY <1>2, <1>3
<1> QED
  BY <1>4, <1>5 DEF Numbered, k

\* Sending the next application packet keeps the numbering.
LEMMA NumApp ==
    ASSUME NEW u \in Seq(Body), NEW v \in Seq(Body), NEW a \in Nat, NEW b \in Nat, a <= b,
           Numbered(u, a, b), Len(v) = Len(u) + 1, \A i \in 1..Len(u) : v[i] = u[i],
           v[Len(u) + 1].type = "app", v[Len(u) + 1].n = b + 1
    PROVE  Numbered(v, a, b + 1)
<1> DEFINE n == Len(u)
<1>1. n \in Nat /\ Len(v) = n + 1
  OBVIOUS
<1>2. /\ \A i \in 1..n : u[i].type = "app" => a < u[i].n /\ u[i].n <= b
      /\ \A i, j \in 1..n : (i < j /\ u[i].type = "app" /\ u[j].type = "app") => u[i].n < u[j].n
      /\ \A l \in (a + 1)..b : \E i \in 1..n : u[i].type = "app" /\ u[i].n = l
      /\ \A i \in 1..n : v[i] = u[i]
      /\ v[n + 1].type = "app" /\ v[n + 1].n = b + 1
  BY DEF Numbered
<1>n. \A i \in 1..n : u[i].type = "app" => u[i].n \in Nat
  <2>1. \A m \in Body : m.type = "app" => m.n \in Nat
    BY DEF Body
  <2> QED
    BY <2>1
<1> HIDE DEF n
<1>3. \A i \in 1..n + 1 : i \in 1..n \/ i = n + 1
  BY <1>1
<1>4. \A i \in 1..n + 1 : v[i].type = "app" => a < v[i].n /\ v[i].n <= b + 1
  <2> SUFFICES ASSUME NEW i \in 1..n + 1, v[i].type = "app" PROVE a < v[i].n /\ v[i].n <= b + 1
    OBVIOUS
  <2>1. CASE i = n + 1
    BY <1>2, <2>1
  <2>2. CASE i \in 1..n
    <3>1. a < u[i].n /\ u[i].n <= b /\ u[i].n \in Nat /\ v[i] = u[i]
      BY <1>2, <1>n, <2>2
    <3> QED
      BY <3>1
  <2> QED
    BY <1>3, <2>1, <2>2
<1>5. \A i, j \in 1..n + 1 : (i < j /\ v[i].type = "app" /\ v[j].type = "app") => v[i].n < v[j].n
  <2> SUFFICES ASSUME NEW i \in 1..n + 1, NEW j \in 1..n + 1, i < j, v[i].type = "app", v[j].type = "app"
               PROVE  v[i].n < v[j].n
    OBVIOUS
  <2>1. i \in 1..n
    BY <1>1
  <2>2. CASE j = n + 1
    <3>1. u[i].n <= b /\ u[i].n \in Nat /\ v[i] = u[i]
      BY <1>2, <1>n, <2>1
    <3> QED
      BY <1>2, <2>2, <3>1
  <2>3. CASE j \in 1..n
    BY <1>2, <2>1, <2>3
  <2> QED
    BY <1>3, <2>2, <2>3
<1>6. \A l \in (a + 1)..(b + 1) : \E i \in 1..n + 1 : v[i].type = "app" /\ v[i].n = l
  <2> SUFFICES ASSUME NEW l \in (a + 1)..(b + 1)
               PROVE  \E i \in 1..n + 1 : v[i].type = "app" /\ v[i].n = l
    OBVIOUS
  <2>1. CASE l = b + 1
    <3>1. n + 1 \in 1..n + 1
      BY <1>1
    <3> QED
      BY <1>2, <2>1, <3>1
  <2>2. CASE l # b + 1
    <3>1. l \in (a + 1)..b
      BY <2>2
    <3>2. PICK i \in 1..n : u[i].type = "app" /\ u[i].n = l
      BY <1>2, <3>1
    <3>3. i \in 1..n + 1
      BY <1>1
    <3> QED
      BY <1>2, <3>2, <3>3
  <2> QED
    BY <2>1, <2>2
<1> QED
  BY <1>1, <1>4, <1>5, <1>6 DEF Numbered

\* Removing a packet that is not the application's keeps the numbering.
LEMMA NumCut ==
    ASSUME NEW u \in Seq(Body), NEW v \in Seq(Body), NEW a \in Nat, NEW b \in Nat,
           NEW c \in 1..Len(u), Numbered(u, a, b), Len(v) = Len(u) - 1,
           \A i \in 1..Len(v) : v[i] = IF i < c THEN u[i] ELSE u[i + 1],
           u[c].type # "app"
    PROVE  Numbered(v, a, b)
<1> DEFINE n == Len(u)
           z(i) == IF i < c THEN i ELSE i + 1
<1>1. n \in Nat /\ Len(v) = n - 1 /\ c \in 1..n
  OBVIOUS
<1>2. /\ \A i \in 1..n : u[i].type = "app" => a < u[i].n /\ u[i].n <= b
      /\ \A i, j \in 1..n : (i < j /\ u[i].type = "app" /\ u[j].type = "app") => u[i].n < u[j].n
      /\ \A l \in (a + 1)..b : \E i \in 1..n : u[i].type = "app" /\ u[i].n = l
      /\ u[c].type # "app"
  BY DEF Numbered
<1>3. \A i \in 1..n - 1 : v[i] = u[z(i)]
  OBVIOUS
<1> HIDE DEF n
<1>4. \A i \in 1..n - 1 : z(i) \in 1..n
  BY <1>1
<1>5. \A i, j \in 1..n - 1 : i < j => z(i) < z(j)
  BY <1>1
<1>6. \A i \in 1..n : i # c => \E j \in 1..n - 1 : z(j) = i
  <2> SUFFICES ASSUME NEW i \in 1..n, i # c PROVE \E j \in 1..n - 1 : z(j) = i
    OBVIOUS
  <2>1. CASE i < c
    <3>1. i \in 1..n - 1 /\ z(i) = i
      BY <1>1, <2>1
    <3> QED
      BY <3>1
  <2>2. CASE i > c
    <3>1. i - 1 \in 1..n - 1 /\ z(i - 1) = i
      BY <1>1, <2>2
    <3> QED
      BY <3>1
  <2> QED
    BY <1>1, <2>1, <2>2
<1> HIDE DEF z
<1>7. /\ \A i \in 1..n - 1 : v[i].type = "app" => a < v[i].n /\ v[i].n <= b
      /\ \A i, j \in 1..n - 1 : (i < j /\ v[i].type = "app" /\ v[j].type = "app") => v[i].n < v[j].n
  <2>1. ASSUME NEW i \in 1..n - 1, v[i].type = "app" PROVE a < v[i].n /\ v[i].n <= b
    BY <1>2, <1>3, <1>4, <2>1
  <2>2. ASSUME NEW i \in 1..n - 1, NEW j \in 1..n - 1, i < j, v[i].type = "app", v[j].type = "app"
        PROVE  v[i].n < v[j].n
    <3>1. z(i) \in 1..n /\ z(j) \in 1..n /\ z(i) < z(j) /\ v[i] = u[z(i)] /\ v[j] = u[z(j)]
      BY <1>3, <1>4, <1>5, <2>2
    <3> QED
      BY <1>2, <2>2, <3>1
  <2> QED
    BY <2>1, <2>2
<1>8. \A l \in (a + 1)..b : \E j \in 1..n - 1 : v[j].type = "app" /\ v[j].n = l
  <2> SUFFICES ASSUME NEW l \in (a + 1)..b PROVE \E j \in 1..n - 1 : v[j].type = "app" /\ v[j].n = l
    OBVIOUS
  <2>1. PICK i \in 1..n : u[i].type = "app" /\ u[i].n = l
    BY <1>2
  <2>2. i # c
    BY <1>2, <2>1
  <2>3. PICK j \in 1..n - 1 : z(j) = i
    BY <1>6, <2>2
  <2> QED
    BY <1>3, <2>1, <2>3
<1> QED
  BY <1>1, <1>7, <1>8 DEF Numbered

\* The first application packet is the next one to deliver.
LEMMA NumHead ==
    ASSUME NEW u \in Seq(Body), NEW v \in Seq(Body), NEW a \in Nat, NEW b \in Nat,
           Numbered(u, a, b), u # <<>>, Len(v) = Len(u) - 1,
           \A i \in 1..Len(v) : v[i] = u[i + 1], u[1].type = "app"
    PROVE  u[1].n = a + 1 /\ a + 1 <= b /\ Numbered(v, a + 1, b)
<1> DEFINE n == Len(u)
<1>1. n \in Nat /\ n >= 1 /\ Len(v) = n - 1 /\ 1 \in 1..n
  OBVIOUS
<1>2. /\ \A i \in 1..n : u[i].type = "app" => a < u[i].n /\ u[i].n <= b
      /\ \A i, j \in 1..n : (i < j /\ u[i].type = "app" /\ u[j].type = "app") => u[i].n < u[j].n
      /\ \A l \in (a + 1)..b : \E i \in 1..n : u[i].type = "app" /\ u[i].n = l
      /\ u[1].type = "app"
  BY DEF Numbered
<1>n. \A i \in 1..n : u[i].type = "app" => u[i].n \in Nat
  <2>1. \A m \in Body : m.type = "app" => m.n \in Nat
    BY DEF Body
  <2> QED
    BY <2>1
<1>3. \A i \in 1..n - 1 : v[i] = u[i + 1]
  OBVIOUS
<1> HIDE DEF n
<1>4. a < u[1].n /\ u[1].n <= b /\ u[1].n \in Nat
  BY <1>1, <1>2, <1>n
<1>5. a + 1 <= b /\ a + 1 \in (a + 1)..b
  BY <1>4
<1>6. u[1].n = a + 1
  <2>1. PICK i \in 1..n : u[i].type = "app" /\ u[i].n = a + 1
    BY <1>2, <1>5
  <2>2. CASE i = 1
    BY <2>1, <2>2
  <2>3. CASE i # 1
    <3>1. 1 < i
      BY <1>1, <2>3
    <3>2. u[1].n < u[i].n
      BY <1>1, <1>2, <2>1, <3>1
    <3> QED
      BY <1>4, <2>1, <3>2
  <2> QED
    BY <2>2, <2>3
<1>7. \A i \in 1..n - 1 : i + 1 \in 1..n /\ 1 < i + 1
  BY <1>1
<1>8. \A i \in 1..n - 1 : v[i].type = "app" => a + 1 < v[i].n /\ v[i].n <= b
  <2> SUFFICES ASSUME NEW i \in 1..n - 1, v[i].type = "app" PROVE a + 1 < v[i].n /\ v[i].n <= b
    OBVIOUS
  <2>1. i + 1 \in 1..n /\ 1 < i + 1 /\ v[i] = u[i + 1]
    BY <1>3, <1>7
  <2>2. u[1].n < u[i + 1].n /\ u[i + 1].n <= b
    BY <1>1, <1>2, <2>1
  <2> QED
    BY <1>6, <2>1, <2>2
<1>9. \A i, j \in 1..n - 1 : (i < j /\ v[i].type = "app" /\ v[j].type = "app") => v[i].n < v[j].n
  <2> SUFFICES ASSUME NEW i \in 1..n - 1, NEW j \in 1..n - 1, i < j, v[i].type = "app", v[j].type = "app"
               PROVE  v[i].n < v[j].n
    OBVIOUS
  <2>1. i + 1 \in 1..n /\ j + 1 \in 1..n /\ i + 1 < j + 1 /\ v[i] = u[i + 1] /\ v[j] = u[j + 1]
    BY <1>1, <1>3, <1>7
  <2> QED
    BY <1>2, <2>1
<1>10. \A l \in (a + 2)..b : \E j \in 1..n - 1 : v[j].type = "app" /\ v[j].n = l
  <2> SUFFICES ASSUME NEW l \in (a + 2)..b PROVE \E j \in 1..n - 1 : v[j].type = "app" /\ v[j].n = l
    OBVIOUS
  <2>1. l \in (a + 1)..b /\ l # a + 1
    OBVIOUS
  <2>2. PICK i \in 1..n : u[i].type = "app" /\ u[i].n = l
    BY <1>2, <2>1
  <2>3. i # 1
    BY <1>6, <2>1, <2>2
  <2>4. i - 1 \in 1..n - 1 /\ (i - 1) + 1 = i
    BY <1>1, <2>3
  <2>5. v[i - 1] = u[i]
    BY <1>3, <2>4
  <2> QED
    BY <2>2, <2>4, <2>5
<1>11. (a + 1) + 1 = a + 2
  OBVIOUS
<1>12. Numbered(v, a + 1, b)
  BY <1>1, <1>8, <1>9, <1>10, <1>11 DEF Numbered
<1> QED
  BY <1>5, <1>6, <1>12

AnyPkt == [key : Key, seq : Nat, body : Body]
Pend(q, w) == q \o Bodies(w)
Once(del, q, w, b) ==
    /\ \A i \in 1..Len(del) : del[i] = i
    /\ Len(del) <= b
    /\ Numbered(Pend(q, w), Len(del), b)

\* What is set aside and what is on the wire, element by element.
LEMMA PendView ==
    ASSUME NEW q \in Seq(Body), NEW w \in Seq(AnyPkt)
    PROVE  /\ Pend(q, w) \in Seq(Body) /\ Len(Pend(q, w)) = Len(q) + Len(w)
           /\ \A i \in 1..Len(q) + Len(w) :
                Pend(q, w)[i] = IF i <= Len(q) THEN q[i] ELSE w[i - Len(q)].body
<1> DEFINE z == Bodies(w)
           n == Len(w)
<1>1. n \in Nat /\ \A i \in 1..n : w[i].body \in Body
  <2>1. \A i \in 1..n : w[i] \in AnyPkt
    OBVIOUS
  <2> QED
    BY <2>1 DEF AnyPkt
<1>2. z = [i \in 1..n |-> w[i].body]
  BY DEF Bodies
<1>3. z \in Seq(Body) /\ Len(z) = n /\ \A i \in 1..n : z[i] = w[i].body
  <2> HIDE DEF z, n
  <2> QED
    BY <1>1, <1>2
<1> HIDE DEF z, n
<1>4. q \o z \in Seq(Body) /\ Len(q \o z) = Len(q) + n
  BY <1>3, Concatenated
<1>5. ASSUME NEW i \in 1..Len(q) + n
      PROVE  (q \o z)[i] = IF i <= Len(q) THEN q[i] ELSE w[i - Len(q)].body
  <2>0. Len(q) \in Nat
    OBVIOUS
  <2>1. CASE i <= Len(q)
    <3>1. i \in 1..Len(q)
      BY <1>1, <2>0, <2>1
    <3> QED
      BY <1>3, <2>1, <3>1, ConcatAt
  <2>2. CASE ~(i <= Len(q))
    <3>1. i - Len(q) \in 1..Len(z) /\ Len(q) + (i - Len(q)) = i
      BY <1>1, <1>3, <2>0, <2>2
    <3>2. (q \o z)[Len(q) + (i - Len(q))] = z[i - Len(q)]
      BY <1>3, <3>1, ConcatAt
    <3> QED
      BY <1>3, <2>2, <3>1, <3>2
  <2> QED
    BY <2>1, <2>2
<1> QED
  BY <1>4, <1>5 DEF Pend, z, n

\* Packets at the end of the wire that are not the application's.
LEMMA OnceGrow ==
    ASSUME NEW del \in Seq(Nat), NEW q \in Seq(Body), NEW w \in Seq(AnyPkt), NEW b \in Nat,
           NEW z \in Seq(AnyPkt), Once(del, q, w, b),
           \A i \in 1..Len(z) : z[i].body.type # "app"
    PROVE  Once(del, q, w \o z, b)
<1> DEFINE u == Pend(q, w)
           v == Pend(q, w \o z)
           a == Len(q)
           n == Len(w)
           k == Len(z)
<1>1. /\ w \o z \in Seq(AnyPkt) /\ Len(w \o z) = n + k /\ a \in Nat /\ n \in Nat /\ k \in Nat
      /\ Len(del) \in Nat
  BY Concatenated
<1>2. /\ \A i \in 1..n : (w \o z)[i] = w[i]
      /\ \A i \in 1..k : (w \o z)[n + i] = z[i]
  BY ConcatAt
<1>3. /\ u \in Seq(Body) /\ Len(u) = a + n
      /\ \A i \in 1..a + n : u[i] = IF i <= a THEN q[i] ELSE w[i - a].body
  BY PendView
<1>4. /\ v \in Seq(Body) /\ Len(v) = a + (n + k)
      /\ \A i \in 1..a + (n + k) : v[i] = IF i <= a THEN q[i] ELSE (w \o z)[i - a].body
  BY <1>1, PendView
<1> HIDE DEF u, v, a, n, k
<1>5. ASSUME NEW i \in 1..Len(u) PROVE v[i] = u[i]
  <2>1. i \in 1..a + n /\ i \in 1..a + (n + k)
    BY <1>1, <1>3
  <2>2. CASE i <= a
    BY <1>3, <1>4, <2>1, <2>2
  <2>3. CASE ~(i <= a)
    <3>1. i - a \in 1..n
      BY <1>1, <2>1, <2>3
    <3> QED
      BY <1>2, <1>3, <1>4, <2>1, <2>3, <3>1
  <2> QED
    BY <2>2, <2>3
<1>6. ASSUME NEW i \in 1..Len(v), i > Len(u) PROVE v[i].type # "app"
  <2>1. i \in 1..a + (n + k) /\ ~(i <= a) /\ (i - a) - n \in 1..k /\ n + ((i - a) - n) = i - a
    BY <1>1, <1>3, <1>4, <1>6
  <2>2. (w \o z)[n + ((i - a) - n)] = z[(i - a) - n]
    BY <1>2, <2>1
  <2>3. v[i] = z[(i - a) - n].body
    BY <1>4, <2>1, <2>2
  <2> QED
    BY <2>1, <2>3 DEF k
<1>7. Len(v) >= Len(u)
  BY <1>1, <1>3, <1>4, SMTT(60)
<1>8. Numbered(u, Len(del), b)
  BY DEF Once, u
<1>9. Numbered(v, Len(del), b)
  BY <1>1, <1>3, <1>4, <1>5, <1>6, <1>7, <1>8, NumGrow
<1> QED
  BY <1>9 DEF Once, v

\* The next application packet at the end of the wire.
LEMMA OnceSent ==
    ASSUME NEW del \in Seq(Nat), NEW q \in Seq(Body), NEW w \in Seq(AnyPkt), NEW b \in Nat,
           NEW x \in AnyPkt, Once(del, q, w, b), x.body.type = "app", x.body.n = b + 1
    PROVE  Once(del, q, Append(w, x), b + 1)
<1> DEFINE z == Append(w, x)
           u == Pend(q, w)
           v == Pend(q, z)
           a == Len(q)
           n == Len(w)
<1>1. /\ z \in Seq(AnyPkt) /\ Len(z) = n + 1 /\ a \in Nat /\ n \in Nat /\ Len(del) \in Nat
      /\ z[n + 1] = x /\ \A i \in 1..n : z[i] = w[i]
  OBVIOUS
<1>3. /\ u \in Seq(Body) /\ Len(u) = a + n
      /\ \A i \in 1..a + n : u[i] = IF i <= a THEN q[i] ELSE w[i - a].body
  BY PendView
<1> HIDE DEF z
<1>4. /\ v \in Seq(Body) /\ Len(v) = a + (n + 1)
      /\ \A i \in 1..a + (n + 1) : v[i] = IF i <= a THEN q[i] ELSE z[i - a].body
  BY <1>1, PendView, ZenonT(60)
<1> HIDE DEF u, v, a, n
<1>5. ASSUME NEW i \in 1..Len(u) PROVE v[i] = u[i]
  <2>1. i \in 1..a + n /\ i \in 1..a + (n + 1)
    BY <1>1, <1>3
  <2>2. CASE i <= a
    BY <1>3, <1>4, <2>1, <2>2
  <2>3. CASE ~(i <= a)
    <3>1. i - a \in 1..n
      BY <1>1, <2>1, <2>3
    <3> QED
      BY <1>1, <1>3, <1>4, <2>1, <2>3, <3>1
  <2> QED
    BY <2>2, <2>3
<1>6. Len(v) = Len(u) + 1 /\ v[Len(u) + 1] = x.body
  <2>1. Len(u) + 1 \in 1..a + (n + 1) /\ ~(Len(u) + 1 <= a) /\ (Len(u) + 1) - a = n + 1
    BY <1>1, <1>3
  <2>2. v[Len(u) + 1] = z[(Len(u) + 1) - a].body
    BY <1>4, <2>1
  <2> QED
    BY <1>1, <1>3, <1>4, <2>1, <2>2
<1>7. Numbered(u, Len(del), b) /\ Len(del) <= b
  BY DEF Once, u
<1>8. Numbered(v, Len(del), b + 1)
  BY <1>1, <1>3, <1>4, <1>5, <1>6, <1>7, NumApp
<1>9. Len(del) <= b + 1
  BY <1>1, <1>7
<1> QED
  BY <1>8, <1>9 DEF Once, v, z

\* A packet of the protocol's taken from the wire.
LEMMA OnceDrop ==
    ASSUME NEW del \in Seq(Nat), NEW q \in Seq(Body), NEW w \in Seq(AnyPkt), NEW b \in Nat,
           Once(del, q, w, b), w # <<>>, Head(w).body.type # "app"
    PROVE  Once(del, q, Tail(w), b)
<1> DEFINE z == Tail(w)
           u == Pend(q, w)
           v == Pend(q, z)
           a == Len(q)
           n == Len(w)
<1>1. /\ z \in Seq(AnyPkt) /\ Len(z) = n - 1 /\ a \in Nat /\ n \in Nat /\ n >= 1 /\ Len(del) \in Nat
      /\ Head(w) = w[1] /\ \A i \in 1..n - 1 : z[i] = w[i + 1]
  OBVIOUS
<1>3. /\ u \in Seq(Body) /\ Len(u) = a + n
      /\ \A i \in 1..a + n : u[i] = IF i <= a THEN q[i] ELSE w[i - a].body
  BY PendView
<1> HIDE DEF z
<1>4. /\ v \in Seq(Body) /\ Len(v) = a + (n - 1)
      /\ \A i \in 1..a + (n - 1) : v[i] = IF i <= a THEN q[i] ELSE z[i - a].body
  <2>1. /\ v \in Seq(Body) /\ Len(v) = a + Len(z)
        /\ \A i \in 1..a + Len(z) : v[i] = IF i <= a THEN q[i] ELSE z[i - a].body
    BY <1>1, PendView
  <2> HIDE DEF v, a, n
  <2>2. a + Len(z) = a + (n - 1)
    BY <1>1
  <2> QED
    BY <2>1, <2>2
<1>w. w[1].body.type # "app"
  BY <1>1
<1> HIDE DEF u, v, a, n
<1>5. a + 1 \in 1..Len(u) /\ u[a + 1].type # "app"
  <2>1. a + 1 \in 1..a + n /\ ~(a + 1 <= a) /\ (a + 1) - a = 1
    BY <1>1
  <2> QED
    BY <1>3, <1>w, <2>1
<1>6. Len(v) = Len(u) - 1
  BY <1>1, <1>3, <1>4
<1>7. ASSUME NEW i \in 1..Len(v) PROVE v[i] = IF i < a + 1 THEN u[i] ELSE u[i + 1]
  <2>1. i \in 1..a + (n - 1) /\ i \in 1..a + n /\ i + 1 \in 1..a + n
    BY <1>1, <1>4
  <2>2. CASE i <= a
    <3>1. i < a + 1
      BY <1>1, <2>1, <2>2
    <3> QED
      BY <1>3, <1>4, <2>1, <2>2, <3>1
  <2>3. CASE ~(i <= a)
    <3>1. i - a \in 1..n - 1 /\ ~(i < a + 1) /\ ~(i + 1 <= a) /\ (i + 1) - a = (i - a) + 1
      BY <1>1, <2>1, <2>3
    <3>2. v[i] = z[i - a].body /\ z[i - a] = w[(i - a) + 1] /\ u[i + 1] = w[(i + 1) - a].body
      BY <1>1, <1>3, <1>4, <2>1, <2>3, <3>1
    <3> QED
      BY <3>1, <3>2
  <2> QED
    BY <2>2, <2>3
<1>8. Numbered(u, Len(del), b)
  BY DEF Once, u
<1>9. Numbered(v, Len(del), b)
  BY <1>1, <1>3, <1>4, <1>5, <1>6, <1>7, <1>8, NumCut
<1> QED
  BY <1>9 DEF Once, v, z

\* The first application packet read from the wire and returned by recv(),
\* with nothing set aside.
LEMMA OnceTake ==
    ASSUME NEW del \in Seq(Nat), NEW w \in Seq(AnyPkt), NEW b \in Nat,
           Once(del, <<>>, w, b), w # <<>>, Head(w).body.type = "app"
    PROVE  Once(Append(del, Head(w).body.n), <<>>, Tail(w), b)
<1> DEFINE q == <<>>
           z == Tail(w)
           u == Pend(q, w)
           v == Pend(q, z)
           n == Len(w)
           x == Head(w).body.n
           d == Append(del, x)
           a == Len(del)
<1>1. /\ z \in Seq(AnyPkt) /\ Len(z) = n - 1 /\ n \in Nat /\ n >= 1 /\ a \in Nat
      /\ Head(w) = w[1] /\ \A i \in 1..n - 1 : z[i] = w[i + 1]
  OBVIOUS
<1>2. q \in Seq(Body) /\ Len(q) = 0
  OBVIOUS
<1> HIDE DEF q
<1>3. /\ u \in Seq(Body) /\ Len(u) = n /\ \A i \in 1..n : u[i] = w[i].body
  <2>1. /\ u \in Seq(Body) /\ Len(u) = 0 + n
        /\ \A i \in 1..0 + n : u[i] = IF i <= 0 THEN q[i] ELSE w[i - 0].body
    BY <1>2, PendView
  <2>2. 0 + n = n /\ \A i \in 1..n : ~(i <= 0) /\ i - 0 = i
    BY <1>1
  <2> HIDE DEF u, n
  <2> QED
    BY <2>1, <2>2
<1> HIDE DEF z
<1>4. /\ v \in Seq(Body) /\ Len(v) = n - 1 /\ \A i \in 1..n - 1 : v[i] = z[i].body
  <2>1. /\ v \in Seq(Body) /\ Len(v) = 0 + Len(z)
        /\ \A i \in 1..0 + Len(z) : v[i] = IF i <= 0 THEN q[i] ELSE z[i - 0].body
    BY <1>1, <1>2, PendView
  <2>2. 0 + Len(z) = n - 1 /\ \A i \in 1..n - 1 : ~(i <= 0) /\ i - 0 = i
    BY <1>1
  <2> HIDE DEF v, n
  <2> QED
    BY <2>1, <2>2
<1>5. Numbered(u, a, b) /\ a <= b /\ \A i \in 1..a : del[i] = i
  BY DEF Once, q
<1>6. w[1].body.type = "app" /\ x = w[1].body.n
  BY <1>1
<1>d. x \in Nat => d \in Seq(Nat) /\ Len(d) = a + 1 /\ d[a + 1] = x /\ \A i \in 1..a : d[i] = del[i]
  <2> HIDE DEF x
  <2> QED
    OBVIOUS
<1> HIDE DEF u, v, n, x, d, a
<1>7. u # <<>> /\ Len(v) = Len(u) - 1 /\ 1 \in 1..n
  BY <1>1, <1>3, <1>4
<1>8. u[1].type = "app" /\ u[1].n = x
  BY <1>3, <1>6, <1>7
<1>9. \A i \in 1..Len(v) : v[i] = u[i + 1]
  <2> SUFFICES ASSUME NEW i \in 1..n - 1 PROVE v[i] = u[i + 1]
    BY <1>4
  <2>1. i + 1 \in 1..n
    BY <1>1
  <2> QED
    BY <1>1, <1>3, <1>4, <2>1
<1>10. x = a + 1 /\ a + 1 <= b /\ Numbered(v, a + 1, b)
  <2>1. u[1].n = a + 1 /\ a + 1 <= b /\ Numbered(v, a + 1, b)
    BY <1>1, <1>3, <1>4, <1>5, <1>7, <1>8, <1>9, NumHead, Zenon
  <2> QED
    BY <1>8, <2>1
<1>11. Len(d) = a + 1 /\ \A i \in 1..a + 1 : d[i] = i
  <2>1. x \in Nat
    BY <1>1, <1>10
  <2>2. \A i \in 1..a + 1 : i \in 1..a \/ i = a + 1
    BY <1>1
  <2> QED
    BY <1>d, <1>5, <1>10, <2>1, <2>2
<1>12. Once(d, q, z, b)
  BY <1>10, <1>11 DEF Once, v
<1> QED
  BY <1>12 DEF d, q, z, x

\* The first thing on the wire set aside.
LEMMA OnceAside ==
    ASSUME NEW del \in Seq(Nat), NEW q \in Seq(Body), NEW w \in Seq(AnyPkt), NEW b \in Nat,
           Once(del, q, w, b), w # <<>>
    PROVE  Once(del, Append(q, Head(w).body), Tail(w), b)
<1> DEFINE z == Tail(w)
           m == Head(w).body
           r == Append(q, m)
           u == Pend(q, w)
           v == Pend(r, z)
           a == Len(q)
           n == Len(w)
<1>1. /\ z \in Seq(AnyPkt) /\ Len(z) = n - 1 /\ a \in Nat /\ n \in Nat /\ n >= 1
      /\ Head(w) = w[1] /\ \A i \in 1..n - 1 : z[i] = w[i + 1]
  OBVIOUS
<1>2. m \in Body /\ m = w[1].body
  <2>1. w[1] \in AnyPkt
    BY <1>1
  <2> QED
    BY <1>1, <2>1 DEF AnyPkt
<1> HIDE DEF m, z
<1>3. r \in Seq(Body) /\ Len(r) = a + 1 /\ r[a + 1] = m /\ \A i \in 1..a : r[i] = q[i]
  BY <1>2
<1> HIDE DEF r
<1>4. /\ u \in Seq(Body) /\ Len(u) = a + n
      /\ \A i \in 1..a + n : u[i] = IF i <= a THEN q[i] ELSE w[i - a].body
  BY PendView
<1>5. /\ v \in Seq(Body) /\ Len(v) = a + n
      /\ \A i \in 1..a + n : v[i] = IF i <= a + 1 THEN r[i] ELSE z[i - (a + 1)].body
  <2>1. /\ v \in Seq(Body) /\ Len(v) = Len(r) + Len(z)
        /\ \A i \in 1..Len(r) + Len(z) : v[i] = IF i <= Len(r) THEN r[i] ELSE z[i - Len(r)].body
    BY <1>1, <1>3, PendView
  <2> HIDE DEF v, a, n
  <2>2. Len(r) + Len(z) = a + n /\ Len(r) = a + 1
    BY <1>1, <1>3
  <2> QED
    BY <2>1, <2>2
<1> HIDE DEF u, v, a, n
<1>6. ASSUME NEW i \in 1..a + n PROVE v[i] = u[i]
  <2>1. CASE i <= a
    <3>1. i \in 1..a /\ i <= a + 1
      BY <1>1, <2>1
    <3> QED
      BY <1>3, <1>4, <1>5, <2>1, <3>1
  <2>2. CASE i = a + 1
    <3>1. ~(i <= a) /\ i <= a + 1 /\ i - a = 1
      BY <1>1, <2>2
    <3> QED
      BY <1>2, <1>3, <1>4, <1>5, <2>2, <3>1
  <2>3. CASE i > a + 1
    <3>1. ~(i <= a) /\ ~(i <= a + 1) /\ i - (a + 1) \in 1..n - 1 /\ (i - (a + 1)) + 1 = i - a
      BY <1>1, <2>3
    <3>2. v[i] = z[i - (a + 1)].body /\ u[i] = w[i - a].body /\ z[i - (a + 1)] = w[(i - (a + 1)) + 1]
      BY <1>1, <1>4, <1>5, <3>1
    <3> QED
      BY <3>1, <3>2
  <2> QED
    BY <1>1, <2>1, <2>2, <2>3
<1>7. u = v
  BY <1>4, <1>5, <1>6
<1>8. Once(del, r, z, b)
  BY <1>7 DEF Once, u, v
<1> QED
  BY <1>8 DEF r, m, z

\* What was set aside first is returned, or dropped when it is not the
\* application's.
LEMMA OncePop ==
    ASSUME NEW del \in Seq(Nat), NEW q \in Seq(Body), NEW w \in Seq(AnyPkt), NEW b \in Nat,
           Once(del, q, w, b), q # <<>>
    PROVE  IF Head(q).type = "app" THEN Once(Append(del, Head(q).n), Tail(q), w, b)
                                   ELSE Once(del, Tail(q), w, b)
<1> DEFINE r == Tail(q)
           u == Pend(q, w)
           v == Pend(r, w)
           c == Len(q)
           n == Len(w)
           x == Head(q).n
           d == Append(del, x)
           a == Len(del)
<1>1. /\ r \in Seq(Body) /\ Len(r) = c - 1 /\ n \in Nat /\ c \in Nat /\ c >= 1 /\ a \in Nat
      /\ Head(q) = q[1] /\ \A i \in 1..c - 1 : r[i] = q[i + 1]
  OBVIOUS
<1>3. /\ u \in Seq(Body) /\ Len(u) = c + n
      /\ \A i \in 1..c + n : u[i] = IF i <= c THEN q[i] ELSE w[i - c].body
  BY PendView
<1> HIDE DEF r
<1>4. /\ v \in Seq(Body) /\ Len(v) = (c - 1) + n
      /\ \A i \in 1..(c - 1) + n : v[i] = IF i <= c - 1 THEN r[i] ELSE w[i - (c - 1)].body
  <2>1. /\ v \in Seq(Body) /\ Len(v) = Len(r) + n
        /\ \A i \in 1..Len(r) + n : v[i] = IF i <= Len(r) THEN r[i] ELSE w[i - Len(r)].body
    BY <1>1, PendView
  <2> HIDE DEF v, c, n
  <2> QED
    BY <1>1, <2>1
<1>5. Numbered(u, a, b) /\ a <= b /\ \A i \in 1..a : del[i] = i
  BY DEF Once
<1>6. Head(q) = q[1] /\ x = q[1].n
  BY <1>1
<1>d. x \in Nat => d \in Seq(Nat) /\ Len(d) = a + 1 /\ d[a + 1] = x /\ \A i \in 1..a : d[i] = del[i]
  <2> HIDE DEF x
  <2> QED
    OBVIOUS
<1> HIDE DEF u, v, c, n, x, d, a
<1>7. u # <<>> /\ Len(v) = Len(u) - 1 /\ 1 \in 1..Len(u) /\ u[1] = q[1]
  <2>1. 1 \in 1..c + n /\ 1 <= c /\ Len(u) >= 1
    BY <1>1, <1>3
  <2>2. u[1] = q[1]
    BY <1>3, <2>1
  <2> QED
    BY <1>1, <1>3, <1>4, <2>1, <2>2
<1>9. \A i \in 1..Len(v) : v[i] = u[i + 1]
  <2> SUFFICES ASSUME NEW i \in 1..(c - 1) + n PROVE v[i] = u[i + 1]
    BY <1>4
  <2>1. i + 1 \in 1..c + n
    BY <1>1
  <2>2. CASE i <= c - 1
    <3>1. i \in 1..c - 1 /\ i + 1 <= c
      BY <1>1, <2>2
    <3> QED
      BY <1>1, <1>3, <1>4, <2>1, <2>2, <3>1
  <2>3. CASE ~(i <= c - 1)
    <3>1. ~(i + 1 <= c) /\ (i + 1) - c = i - (c - 1)
      BY <1>1, <2>3
    <3>2. v[i] = w[i - (c - 1)].body /\ u[i + 1] = w[(i + 1) - c].body
      BY <1>3, <1>4, <2>1, <2>3, <3>1
    <3> QED
      BY <3>1, <3>2
  <2> QED
    BY <2>2, <2>3
<1>10. CASE q[1].type = "app"
  <2>1. u[1].type = "app" /\ u[1].n = x
    BY <1>6, <1>7, <1>10
  <2>2. x = a + 1 /\ a + 1 <= b /\ Numbered(v, a + 1, b)
    <3>1. u[1].n = a + 1 /\ a + 1 <= b /\ Numbered(v, a + 1, b)
      BY <1>1, <1>3, <1>4, <1>5, <1>7, <1>9, <2>1, NumHead, Zenon
    <3> QED
      BY <2>1, <3>1
  <2>3. Len(d) = a + 1 /\ \A i \in 1..a + 1 : d[i] = i
    <3>1. x \in Nat
      BY <1>1, <2>2
    <3>2. \A i \in 1..a + 1 : i \in 1..a \/ i = a + 1
      BY <1>1
    <3> QED
      BY <1>d, <1>5, <2>2, <3>1, <3>2
  <2>4. Once(d, r, w, b)
    BY <2>2, <2>3 DEF Once, v
  <2> QED
    BY <1>6, <1>10, <2>4 DEF d, r, x
<1>11. CASE q[1].type # "app"
  <2>1. \A i \in 1..Len(v) : v[i] = IF i < 1 THEN u[i] ELSE u[i + 1]
    <3>1. Len(v) \in Nat
      BY <1>4
    <3>2. \A i \in 1..Len(v) : ~(i < 1)
      BY <3>1
    <3> QED
      BY <1>9, <3>2
  <2>2. u[1].type # "app"
    BY <1>7, <1>11
  <2>3. Numbered(v, a, b)
    BY <1>1, <1>3, <1>4, <1>5, <1>7, <2>1, <2>2, NumCut
  <2>4. Once(del, r, w, b)
    BY <1>5, <2>3 DEF Once, v, a
  <2> QED
    BY <1>6, <1>11, <2>4 DEF r
<1> QED
  BY <1>10, <1>11

\* Nothing of what a living side is to receive is lost, doubled or reordered.
OnceInv ==
    /\ delivered \in [Side -> Seq(Nat)]
    /\ \A s \in Side : phase[s] # "dead" =>
          Once(delivered[s], queued[s], wire[Peer(s)], sent[Peer(s)])

\* Sealed packets carry the bodies they were given, in order.
LEMMA SealAny ==
    ASSUME NEW key \in Key, NEW q \in Nat, NEW bodies \in Seq(Body)
    PROVE  /\ Seal(key, q, bodies) \in Seq(AnyPkt)
           /\ Len(Seal(key, q, bodies)) = Len(bodies)
           /\ \A i \in 1..Len(bodies) : Seal(key, q, bodies)[i].body = bodies[i]
<1>1. ASSUME NEW i \in 1..Len(bodies) PROVE (q + i - 1) % SeqMod \in Nat
  <2>1. q + i - 1 \in Nat /\ SeqMod \in Nat /\ SeqMod > 0
    BY TransportAssumption
  <2> QED
    BY <2>1
<1>2. \A i \in 1..Len(bodies) :
        [key |-> key, seq |-> (q + i - 1) % SeqMod, body |-> bodies[i]] \in AnyPkt
  BY <1>1 DEF AnyPkt
<1> QED
  BY <1>2 DEF Seal

\* The types the proof of ExactlyOnce needs.
LEMMA OnceTyped ==
    ASSUME IInv, FlowInv, OnceInv, NEW s \in Side
    PROVE  /\ Peer(s) \in Side /\ Peer(s) # s /\ Peer(Peer(s)) = s
           /\ wire[s] \in Seq(AnyPkt) /\ queued[s] \in Seq(Body) /\ delivered[s] \in Seq(Nat)
           /\ sent[s] \in Nat /\ tx[s] \in Key /\ tx_seq[s] \in Nat
<1>1. wire[s] \in Seq(Pkts) /\ tx_seq[s] \in 0..RekeyPackets + 2
  BY Ends
<1>2. RekeyPackets \in Nat
  BY TransportAssumption
<1>3. tx_seq[s] \in Nat
  BY <1>1, <1>2
<1>4. \A x \in Pkts : x \in AnyPkt
  BY <1>2 DEF Pkts, Packet, AnyPkt
<1>5. wire[s] \in Seq(AnyPkt)
  <2>1. \A i \in 1..Len(wire[s]) : wire[s][i] \in AnyPkt
    BY <1>1, <1>4
  <2> QED
    BY <1>1, <2>1
<1>6. queued[s] \in Seq(Body) /\ delivered[s] \in Seq(Nat) /\ sent[s] \in Nat
  BY DEF IInv, Typed, FlowInv, ErrInv, OnceInv
<1> QED
  BY <1>3, <1>5, <1>6, Ends

\* What one side's step leaves to show: its own view, and its peer's of the
\* packets it sent.
LEMMA OnceStep ==
    ASSUME IInv, FlowInv, OnceInv, NEW s \in Side, delivered' \in [Side -> Seq(Nat)],
           phase'[Peer(s)] = phase[Peer(s)],
           delivered'[Peer(s)] = delivered[Peer(s)], queued'[Peer(s)] = queued[Peer(s)],
           Once(delivered[Peer(s)], queued[Peer(s)], wire[s], sent[s])
             => Once(delivered[Peer(s)], queued[Peer(s)], wire'[s], sent'[s]),
           phase'[s] # "dead"
             => Once(delivered'[s], queued'[s], wire'[Peer(s)], sent'[Peer(s)])
    PROVE  OnceInv'
<1> DEFINE p == Peer(s)
<1>1. p \in Side /\ Peer(p) = s /\ Side = {s, p}
  BY Ends DEF Side
<1>2. phase[p] # "dead" => Once(delivered[p], queued[p], wire[s], sent[s])
  BY <1>1 DEF OnceInv
<1>3. phase'[p] # "dead" => Once(delivered'[p], queued'[p], wire'[s], sent'[s])
  BY <1>2
<1>4. \A t \in Side : phase'[t] # "dead" =>
        Once(delivered'[t], queued'[t], wire'[Peer(t)], sent'[Peer(t)])
  BY <1>1, <1>3
<1> QED
  BY <1>4 DEF OnceInv, Once, Numbered, Pend, Bodies

\* Packets of the protocol's sent by s change nothing for its peer.
LEMMA OncePeer ==
    ASSUME IInv, FlowInv, OnceInv, NEW s \in Side, NEW bodies \in Seq(Body),
           \A i \in 1..Len(bodies) : bodies[i].type # "app",
           wire'[s] = wire[s] \o Seal(tx[s], tx_seq[s], bodies), sent'[s] = sent[s],
           Once(delivered[Peer(s)], queued[Peer(s)], wire[s], sent[s])
    PROVE  Once(delivered[Peer(s)], queued[Peer(s)], wire'[s], sent'[s])
<1> DEFINE p == Peer(s)
           z == Seal(tx[s], tx_seq[s], bodies)
<1>1. /\ delivered[p] \in Seq(Nat) /\ queued[p] \in Seq(Body) /\ wire[s] \in Seq(AnyPkt)
      /\ sent[s] \in Nat /\ tx[s] \in Key /\ tx_seq[s] \in Nat
  BY OnceTyped
<1>2. z \in Seq(AnyPkt) /\ \A i \in 1..Len(z) : z[i].body.type # "app"
  <2>1. z \in Seq(AnyPkt) /\ Len(z) = Len(bodies) /\ \A i \in 1..Len(bodies) : z[i].body = bodies[i]
    BY <1>1, SealAny
  <2> HIDE DEF z
  <2> QED
    BY <2>1
<1> HIDE DEF z
<1>3. Once(delivered[p], queued[p], wire[s] \o z, sent[s])
  BY <1>1, <1>2, OnceGrow
<1> QED
  BY <1>3 DEF z

\* Each handler keeps the application's packets.
LEMMA HandleOnce ==
    ASSUME IInv, FlowInv, OnceInv, NEW s \in Side, wire[Peer(s)] # <<>>, phase[s] # "dead",
           phase[s] = "open" => queued[s] = <<>>,
           Handle(s, Head(wire[Peer(s)]).body)
    PROVE  OnceInv'
<1> DEFINE p == Peer(s)
           w == wire[p]
           m == Head(w).body
<1>0. /\ p \in Side /\ p # s /\ Peer(p) = s /\ w \in Seq(AnyPkt) /\ queued[s] \in Seq(Body)
      /\ delivered[s] \in Seq(Nat) /\ sent[p] \in Nat /\ m \in Body
      /\ Once(delivered[s], queued[s], w, sent[p])
  BY OnceTyped, PeerSide, NextPacket DEF OnceInv
<1>1. /\ wire \in [Side -> Seq(Packet(0..RekeyPackets + 2))] /\ phase \in [Side -> Phases]
      /\ delivered \in [Side -> Seq(Nat)] /\ queued \in [Side -> Seq(Body)]
  BY DEF IInv, Typed, FlowInv, ErrInv, OnceInv
<1>2. m.type # "app" => Once(delivered[s], queued[s], Tail(w), sent[p])
  BY <1>0, OnceDrop
<1>3. ASSUME NEW bodies \in Seq(Body), \A i \in 1..Len(bodies) : bodies[i].type # "app",
             wire'[p] = Tail(w), wire'[s] = wire[s] \o Seal(tx[s], tx_seq[s], bodies),
             UNCHANGED <<sent, queued, delivered>>, phase'[p] = phase[p], m.type # "app"
      PROVE  OnceInv'
  <2>1. Once(delivered[p], queued[p], wire[s], sent[s]) => Once(delivered[p], queued[p], wire'[s], sent'[s])
    BY <1>3, OncePeer
  <2>2. Once(delivered'[s], queued'[s], wire'[p], sent'[p])
    BY <1>2, <1>3
  <2> QED
    BY <1>1, <1>3, <2>1, <2>2, OnceStep
<1>4. <<>> \in Seq(Body) /\ \A i \in 1..Len(<<>>) : <<>>[i].type # "app"
  <2>1. <<>> \in Seq(Body) /\ 1..Len(<<>>) = {}
    OBVIOUS
  <2> QED
    BY <2>1
<1>5. ASSUME NEW bodies, Took(s, bodies)
      PROVE  wire'[p] = Tail(w) /\ wire'[s] = wire[s] \o Seal(tx[s], tx_seq[s], bodies)
  BY <1>5, TookWires
<1>6. ASSUME NEW h, NEW bodies, Switch(s, h, bodies)
      PROVE  /\ wire'[p] = Tail(w) /\ phase'[p] = phase[p]
             /\ wire'[s] = wire[s] \o Seal(tx[s], tx_seq[s], bodies \o <<Msg("newkeys")>>)
  BY <1>0, <1>1, <1>6 DEF Switch, Goto
<1>m. m = Head(wire[Peer(s)]).body
  OBVIOUS
<1> HIDE DEF m
<1>t. /\ \A n \in Nat : KexInit(n) \in Body /\ KexInit(n).type # "app"
      /\ \A t \in {"ecdh_init", "newkeys", "ext_info"} : Msg(t) \in Body /\ Msg(t).type # "app"
      /\ \A k \in HostKeys, h \in Hash : EcdhReply(k, h) \in Body /\ EcdhReply(k, h).type # "app"
  BY Messages DEF KexInit, Msg, EcdhReply
<1>7. CASE OnKexInit(s, m)
  <2> DEFINE ours == IF phase[s] = "open" THEN <<KexInit(kexinits[s] + 1)>> ELSE <<>>
             both == ours \o Share(s)
  <2>1. /\ Took(s, both) /\ m.type = "kexinit" /\ UNCHANGED <<sent, queued, delivered>>
        /\ phase'[p] = phase[p]
    BY <1>0, <1>1, <1>7 DEF OnKexInit, appVars, Goto
  <2>2. both \in Seq(Body) /\ \A i \in 1..Len(both) : both[i].type # "app"
    <3>1. kexinits[s] + 1 \in Nat
      BY DEF IInv, Typed
    <3> DEFINE a == KexInit(kexinits[s] + 1)
               b == Msg("ecdh_init")
    <3>2. a \in Body /\ a.type # "app" /\ b \in Body /\ b.type # "app"
      BY <1>t, <3>1
    <3>3. Share(s) = IF s = "client" THEN <<b>> ELSE <<>>
      BY DEF Share
    <3>4. ours = IF phase[s] = "open" THEN <<a>> ELSE <<>>
      OBVIOUS
    <3> HIDE DEF a, b, ours
    <3>5. ours \in Seq(Body) /\ Share(s) \in Seq(Body) /\ Len(ours) \in Nat /\ Len(Share(s)) \in Nat
      BY <3>2, <3>3, <3>4
    <3>6. /\ \A i \in 1..Len(ours) : ours[i].type # "app"
          /\ \A i \in 1..Len(Share(s)) : Share(s)[i].type # "app"
      <4>1. \A c \in Body : c.type # "app" => \A i \in 1..Len(<<c>>) : <<c>>[i].type # "app"
        OBVIOUS
      <4> QED
        BY <1>4, <3>2, <3>3, <3>4, <4>1
    <3>7. both \in Seq(Body) /\ Len(both) = Len(ours) + Len(Share(s))
      BY <3>5, Concatenated
    <3>8. /\ \A i \in 1..Len(ours) : both[i] = ours[i]
          /\ \A i \in 1..Len(Share(s)) : both[Len(ours) + i] = Share(s)[i]
      BY <3>5, ConcatAt
    <3> HIDE DEF both
    <3>9. ASSUME NEW i \in 1..Len(both) PROVE both[i].type # "app"
      <4>1. CASE i <= Len(ours)
        <5>1. i \in 1..Len(ours)
          BY <3>5, <3>7, <4>1
        <5> QED
          BY <3>6, <3>8, <5>1
      <4>2. CASE ~(i <= Len(ours))
        <5>1. i - Len(ours) \in 1..Len(Share(s)) /\ Len(ours) + (i - Len(ours)) = i
          BY <3>5, <3>7, <4>2
        <5>2. both[Len(ours) + (i - Len(ours))] = Share(s)[i - Len(ours)]
          BY <3>8, <5>1
        <5> QED
          BY <3>6, <5>1, <5>2
      <4> QED
        BY <4>1, <4>2
    <3> QED
      BY <3>7, <3>9
  <2>3. wire'[p] = Tail(w) /\ wire'[s] = wire[s] \o Seal(tx[s], tx_seq[s], both)
    BY <1>5, <2>1
  <2> HIDE DEF both, w
  <2>4. m.type # "app"
    BY <2>1
  <2> QED
    BY <1>3, <2>1, <2>2, <2>3, <2>4
<1>8. CASE OnEcdhInit(s, m)
  <2>1. PICK k \in HostKeys :
          Switch(s, exchange_hash(s, k), <<EcdhReply(k, exchange_hash(s, k))>>)
    BY <1>8 DEF OnEcdhInit
  <2> DEFINE a == EcdhReply(k, exchange_hash(s, k))
             b == Msg("newkeys")
             both == <<a>> \o <<b>>
  <2>2. a \in Body /\ a.type # "app" /\ b \in Body /\ b.type # "app"
    <3>1. exchange_hash(s, k) \in Hash
      BY HashType DEF IInv
    <3> QED
      BY <1>t, <3>1
  <2>3. m.type = "ecdh_init" /\ UNCHANGED <<sent, queued, delivered>>
    BY <1>8 DEF OnEcdhInit, appVars
  <2>4. wire'[p] = Tail(w) /\ phase'[p] = phase[p] /\ wire'[s] = wire[s] \o Seal(tx[s], tx_seq[s], both)
    BY <1>6, <2>1
  <2>5. both \in Seq(Body) /\ \A i \in 1..Len(both) : both[i].type # "app"
    <3> HIDE DEF a, b
    <3>1. both = <<a, b>>
      BY <2>2, PairSeq
    <3> HIDE DEF both
    <3> QED
      BY <2>2, <3>1
  <2> HIDE DEF both, w
  <2>6. m.type # "app"
    BY <2>3
  <2> QED
    BY <1>3, <2>3, <2>4, <2>5, <2>6
<1>9. CASE OnEcdhReply(s, m)
  <2> DEFINE b == Msg("newkeys")
             both == <<>> \o <<b>>
  <2>1. /\ Switch(s, exchange_hash(s, m.host), <<>>) /\ m.type = "ecdh_reply"
        /\ UNCHANGED <<sent, queued, delivered>>
    BY <1>9 DEF OnEcdhReply, appVars
  <2>2. b \in Body /\ b.type # "app"
    BY <1>t
  <2>4. wire'[p] = Tail(w) /\ phase'[p] = phase[p] /\ wire'[s] = wire[s] \o Seal(tx[s], tx_seq[s], both)
    BY <1>6, <2>1
  <2>5. both \in Seq(Body) /\ \A i \in 1..Len(both) : both[i].type # "app"
    <3> HIDE DEF b
    <3>1. both = <<b>>
      BY <2>2
    <3> HIDE DEF both
    <3> QED
      BY <2>2, <3>1
  <2> HIDE DEF both, w
  <2>6. m.type # "app"
    BY <2>1
  <2> QED
    BY <1>3, <2>1, <2>4, <2>5, <2>6
<1>10. CASE OnEcdhReplyBad(s, m) \/ OnDisconnect(s, m) \/ (Enqueue(s, m) /\ Len(queued[s]) >= MaxRekeyQueue)
  <2>1. PICK why : Die(s, why)
    BY <1>10 DEF OnEcdhReplyBad, OnDisconnect, Enqueue
  <2>2. UNCHANGED <<wire, sent, queued, delivered>> /\ phase'[s] = "dead" /\ phase'[p] = phase[p]
    BY <1>0, <1>1, <2>1 DEF Die, Goto, appVars
  <2> QED
    BY <1>1, <2>2, OnceStep
<1>11. CASE OnNewKeys(s, m)
  <2> DEFINE ext == s = "server" /\ rx[s] = Plain
             b == Msg("ext_info")
             both == IF ext THEN <<b>> ELSE <<>>
  <2>1. /\ wire'[p] = Tail(w) /\ m.type = "newkeys" /\ phase'[p] = phase[p]
        /\ wire'[s] = (IF ext THEN wire[s] \o Seal(tx[s], tx_seq[s], <<b>>) ELSE wire[s])
        /\ UNCHANGED <<sent, queued, delivered>>
    BY <1>0, <1>1, <1>11 DEF OnNewKeys, appVars, Goto
  <2>2. b \in Body /\ b.type # "app"
    BY <1>t
  <2>3. both \in Seq(Body) /\ \A i \in 1..Len(both) : both[i].type # "app"
    <3> HIDE DEF b
    <3>1. \A c \in Body : c.type # "app" => \A i \in 1..Len(<<c>>) : <<c>>[i].type # "app"
      OBVIOUS
    <3>2. CASE ext
      BY <2>2, <3>1, <3>2
    <3>3. CASE ~ext
      BY <1>4, <3>3
    <3> QED
      BY <3>2, <3>3
  <2>4. wire'[s] = wire[s] \o Seal(tx[s], tx_seq[s], both)
    <3>1. CASE ext
      BY <2>1, <3>1
    <3>2. CASE ~ext
      <4>1. Seal(tx[s], tx_seq[s], <<>>) = <<>>
        BY DEF Seal
      <4>2. wire[s] \in Seq(AnyPkt) /\ \A u \in Seq(AnyPkt) : u \o <<>> = u
        BY OnceTyped
      <4> QED
        BY <2>1, <3>2, <4>1, <4>2
    <3> QED
      BY <3>1, <3>2
  <2> HIDE DEF both, w
  <2>5. m.type # "app"
    BY <2>1
  <2> QED
    BY <1>3, <2>1, <2>3, <2>4, <2>5
<1>12. CASE OnExtInfo(s, m)
  <2>1. Took(s, <<>>) /\ m.type # "app" /\ UNCHANGED <<sent, queued, delivered, phase>>
    BY <1>12 DEF OnExtInfo
  <2>2. wire'[p] = Tail(w) /\ wire'[s] = wire[s] \o Seal(tx[s], tx_seq[s], <<>>)
    BY <1>5, <2>1
  <2> HIDE DEF w
  <2> QED
    BY <1>3, <1>4, <2>1, <2>2
<1>13. ASSUME Took(s, <<>>), sent' = sent, phase' = phase, delivered' \in [Side -> Seq(Nat)],
              delivered'[p] = delivered[p], queued'[p] = queued[p],
              Once(delivered'[s], queued'[s], Tail(w), sent[p])
       PROVE  OnceInv'
  <2>1. wire'[p] = Tail(w) /\ wire'[s] = wire[s] \o Seal(tx[s], tx_seq[s], <<>>)
    BY <1>5, <1>13
  <2>2. Once(delivered[p], queued[p], wire[s], sent[s]) => Once(delivered[p], queued[p], wire'[s], sent'[s])
    BY <1>4, <1>13, <2>1, OncePeer
  <2> HIDE DEF w
  <2> QED
    BY <1>13, <2>1, <2>2, OnceStep
<1>14. CASE OnApp(s, m)
  <2>1. /\ Took(s, <<>>) /\ m.type = "app" /\ UNCHANGED <<sent, queued, phase>>
        /\ phase[s] = "open" /\ delivered' = [delivered EXCEPT ![s] = Append(@, m.n)]
    BY <1>14 DEF OnApp
  <2>2. m.n \in Nat
    BY <1>0, <2>1 DEF Body
  <2>3. /\ delivered' \in [Side -> Seq(Nat)] /\ delivered'[p] = delivered[p]
        /\ delivered'[s] = Append(delivered[s], m.n)
    BY <1>0, <1>1, <2>1, <2>2
  <2>4. queued[s] = <<>>
    BY <2>1
  <2>5. Once(Append(delivered[s], m.n), <<>>, Tail(w), sent[p])
    <3>1. Once(delivered[s], <<>>, w, sent[p]) /\ Head(w).body.type = "app"
      BY <1>0, <1>m, <2>1, <2>4
    <3> QED
      BY <1>0, <1>m, <3>1, OnceTake
  <2> QED
    BY <1>13, <2>1, <2>3, <2>4, <2>5
<1>15. CASE Enqueue(s, m) /\ ~(Len(queued[s]) >= MaxRekeyQueue)
  <2>1. /\ Took(s, <<>>) /\ UNCHANGED <<sent, delivered, phase>>
        /\ queued' = [queued EXCEPT ![s] = Append(@, m)]
    BY <1>15 DEF Enqueue, SetAside
  <2>2. queued'[p] = queued[p] /\ queued'[s] = Append(queued[s], m)
    BY <1>0, <1>1, <2>1
  <2>3. Once(delivered[s], Append(queued[s], m), Tail(w), sent[p])
    BY <1>0, <1>m, OnceAside
  <2> QED
    BY <1>1, <1>13, <2>1, <2>2, <2>3
<1> QED
  BY <1>7, <1>8, <1>9, <1>10, <1>11, <1>12, <1>14, <1>15, <1>m DEF Handle

\* Every step keeps application packets numbered without gap or repetition.
LEMMA NextOnce == IInv /\ FlowInv /\ OnceInv /\ [Next]_vars => OnceInv'
<1> SUFFICES ASSUME IInv, FlowInv, OnceInv, [Next]_vars PROVE OnceInv'
  OBVIOUS
<1>0. /\ phase \in [Side -> Phases] /\ sent \in [Side -> Nat] /\ delivered \in [Side -> Seq(Nat)]
      /\ queued \in [Side -> Seq(Body)]
      /\ wire \in [Side -> Seq(Packet(0..RekeyPackets + 2))] /\ kexinits \in [Side -> Nat]
      /\ \A s \in Side : Peer(s) \in Side /\ Peer(s) # s
  BY PeerSide DEF IInv, Typed, FlowInv, ErrInv, OnceInv
<1>1. ASSUME NEW s \in Side, UNCHANGED <<wire, sent, queued, delivered>>,
             phase'[Peer(s)] = phase[Peer(s)], phase'[s] \in {phase[s], "dead"}
      PROVE  OnceInv'
  <2>1. phase'[s] # "dead" => Once(delivered'[s], queued'[s], wire'[Peer(s)], sent'[Peer(s)])
    BY <1>1 DEF OnceInv
  <2> QED
    BY <1>0, <1>1, <2>1, OnceStep
<1>2. ASSUME NEW s \in Side, NEW m \in Body, m.type # "app", SendRaw(s, <<m>>),
             UNCHANGED <<sent, queued, delivered>>, phase'[Peer(s)] = phase[Peer(s)],
             phase[s] # "dead"
      PROVE  OnceInv'
  <2> DEFINE one == <<m>>
  <2>1. wire'[s] = wire[s] \o Seal(tx[s], tx_seq[s], one) /\ wire'[Peer(s)] = wire[Peer(s)]
    BY <1>0, <1>2 DEF SendRaw
  <2>2. one \in Seq(Body) /\ \A i \in 1..Len(one) : one[i].type # "app"
    BY <1>2
  <2> HIDE DEF one
  <2>3. Once(delivered[Peer(s)], queued[Peer(s)], wire[s], sent[s])
          => Once(delivered[Peer(s)], queued[Peer(s)], wire'[s], sent'[s])
    BY <1>2, <2>1, <2>2, OncePeer
  <2>4. Once(delivered'[s], queued'[s], wire'[Peer(s)], sent'[Peer(s)])
    BY <1>2, <2>1 DEF OnceInv
  <2> QED
    BY <1>0, <1>2, <2>3, <2>4, OnceStep
<1>3. ASSUME NEW s \in Side, Start(s) \/ RekeyInitiate(s) PROVE OnceInv'
  <2> DEFINE m == KexInit(kexinits[s] + 1)
  <2>1. kexinits[s] + 1 \in Nat
    BY <1>0
  <2>2. m \in Body /\ m.type # "app"
    BY <2>1, Messages DEF KexInit
  <2>3. /\ SendRaw(s, <<m>>) /\ UNCHANGED <<sent, queued, delivered>> /\ phase'[Peer(s)] = phase[Peer(s)]
        /\ phase[s] # "dead"
    BY <1>0, <1>3 DEF Start, RekeyInitiate, Goto, appVars
  <2> HIDE DEF m
  <2> QED
    BY <1>2, <2>2, <2>3
<1>4. ASSUME NEW s \in Side, Disconnect(s) PROVE OnceInv'
  <2> DEFINE m == Msg("disconnect")
  <2>2. m \in Body /\ m.type # "app"
    BY Messages DEF Msg
  <2>3. /\ SendRaw(s, <<m>>) /\ UNCHANGED <<sent, queued, delivered>> /\ phase'[Peer(s)] = phase[Peer(s)]
        /\ phase[s] # "dead"
    BY <1>0, <1>4 DEF Disconnect, Goto, appVars
  <2> HIDE DEF m
  <2> QED
    BY <1>2, <2>2, <2>3
<1>5. ASSUME NEW s \in Side, SendApp(s) PROVE OnceInv'
  <2> DEFINE p == Peer(s)
             m == App(sent[s] + 1)
             x == Pkt(tx[s], tx_seq[s], m)
  <2>0. /\ p \in Side /\ p # s /\ wire[s] \in Seq(AnyPkt) /\ sent[s] \in Nat /\ sent[s] + 1 \in Nat
        /\ queued[p] \in Seq(Body) /\ delivered[p] \in Seq(Nat) /\ tx[s] \in Key /\ tx_seq[s] \in Nat
        /\ wire[s] \in Seq(Pkts) /\ tx_seq[s] \in 0..RekeyPackets + 2
    <3>1. p \in Side /\ p # s
      BY <1>0
    <3> QED
      BY <3>1, OnceTyped, Ends
  <2>1. m \in Body /\ m.type = "app" /\ m.n = sent[s] + 1
    BY <2>0, Messages DEF App
  <2>2. /\ SendRaw(s, <<m>>) /\ sent' = [sent EXCEPT ![s] = @ + 1] /\ phase[s] = "open"
        /\ UNCHANGED <<queued, delivered, phase>>
    BY <1>5 DEF SendApp, MaySend
  <2>3. tx_seq[s] <= RekeyPackets + 2
    BY <2>0, TransportAssumption
  <2>4. wire'[s] = Append(wire[s], x) /\ wire'[p] = wire[p]
    <3>1. wire[s] \o Seal(tx[s], tx_seq[s], <<m>>) = Append(wire[s], x)
      BY <2>0, <2>1, <2>3, SealEnd
    <3>2. wire'[s] = wire[s] \o Seal(tx[s], tx_seq[s], <<m>>) /\ wire'[p] = wire[p]
      BY <1>0, <2>0, <2>2 DEF SendRaw
    <3> HIDE DEF x
    <3> QED
      BY <3>1, <3>2
  <2>5. x \in AnyPkt /\ x.body.type = "app" /\ x.body.n = sent[s] + 1
    BY <2>0, <2>1 DEF Pkt, AnyPkt
  <2> HIDE DEF x, m
  <2>6. sent'[s] = sent[s] + 1 /\ sent'[p] = sent[p]
    BY <1>0, <2>0, <2>2
  <2>7. Once(delivered[p], queued[p], wire[s], sent[s]) => Once(delivered[p], queued[p], wire'[s], sent'[s])
    BY <2>0, <2>4, <2>5, <2>6, OnceSent
  <2>8. Once(delivered'[s], queued'[s], wire'[p], sent'[p])
    BY <2>2, <2>4, <2>6 DEF OnceInv
  <2> QED
    BY <1>0, <2>2, <2>7, <2>8, OnceStep
<1>6. ASSUME NEW s \in Side, PopQueued(s) PROVE OnceInv'
  <2> DEFINE p == Peer(s)
             m == Head(queued[s])
  <2>1. /\ phase[s] = "open" /\ queued[s] # <<>> /\ queued' = [queued EXCEPT ![s] = Tail(@)]
        /\ delivered' = (IF m.type = "app" THEN [delivered EXCEPT ![s] = Append(@, m.n)] ELSE delivered)
        /\ UNCHANGED <<phase, wire, sent>>
    BY <1>6 DEF PopQueued
  <2>2. /\ p \in Side /\ p # s /\ queued[s] \in Seq(Body) /\ delivered[s] \in Seq(Nat)
        /\ wire[p] \in Seq(AnyPkt) /\ sent[p] \in Nat
    <3>1. p \in Side /\ p # s
      BY <1>0
    <3> QED
      BY <3>1, OnceTyped
  <2>3. m \in Body
    BY <2>1, <2>2
  <2>4. m.type = "app" => m.n \in Nat
    BY <2>3 DEF Body
  <2>5. IF m.type = "app" THEN Once(Append(delivered[s], m.n), Tail(queued[s]), wire[p], sent[p])
                          ELSE Once(delivered[s], Tail(queued[s]), wire[p], sent[p])
    <3>1. Once(delivered[s], queued[s], wire[p], sent[p])
      BY <2>1 DEF OnceInv
    <3> QED
      BY <2>1, <2>2, <3>1, OncePop
  <2> HIDE DEF m
  <2>6. delivered' \in [Side -> Seq(Nat)] /\ delivered'[p] = delivered[p] /\ queued'[p] = queued[p]
        /\ queued'[s] = Tail(queued[s])
        /\ delivered'[s] = (IF m.type = "app" THEN Append(delivered[s], m.n) ELSE delivered[s])
    BY <1>0, <2>1, <2>2, <2>4
  <2>7. Once(delivered'[s], queued'[s], wire'[p], sent'[p])
    BY <2>1, <2>5, <2>6
  <2> QED
    BY <2>1, <2>6, <2>7, OnceStep
<1>7. ASSUME NEW s \in Side, Receive(s) PROVE OnceInv'
  <2>1. /\ wire[Peer(s)] # <<>> /\ phase[s] \notin {"start", "dead"}
        /\ phase[s] = "open" => queued[s] = <<>>
    BY <1>7 DEF Receive
  <2>2. /\ Authentic(s, Head(wire[Peer(s)]))
        /\ Head(wire[Peer(s)]).body.type \in Expected[phase[s]]
    BY <2>1, NextPacket, ExpectedNext
  <2>3. Handle(s, Head(wire[Peer(s)]).body)
    BY <1>7, <2>2 DEF Receive
  <2> QED
    BY <2>1, <2>3, HandleOnce
<1>8. ASSUME NEW s \in Side, Break(s) \/ PeerClosed(s) PROVE OnceInv'
  <2>1. UNCHANGED <<wire, sent, queued, delivered>> /\ phase'[Peer(s)] = phase[Peer(s)] /\ phase'[s] = "dead"
    BY <1>0, <1>8 DEF Break, PeerClosed, Die, Goto, appVars
  <2> QED
    BY <1>1, <2>1
<1>9. CASE (\E s \in Side : Age(s)) \/ CertExpires \/ UNCHANGED vars
  <2>1. UNCHANGED <<wire, sent, queued, delivered, phase>>
    BY <1>9 DEF Age, CertExpires, vars, appVars
  <2>2. "client" \in Side
    BY DEF Side
  <2> QED
    BY <1>1, <2>1, <2>2
<1> QED
  BY <1>3, <1>4, <1>5, <1>6, <1>7, <1>8, <1>9 DEF Next, Step

\* Whatever rekeys interleave with the application's packets, recv() returns
\* each once and in the order of the peer's send(), and none is missing (send,
\* recv, rekey_initiate's queue).
THEOREM DeliveredOnce == Spec => []ExactlyOnce
<1>1. Init => OnceInv
  <2> SUFFICES ASSUME Init PROVE OnceInv
    OBVIOUS
  <2>1. delivered \in [Side -> Seq(Nat)]
    BY DEF Init
  <2>2. ASSUME NEW s \in Side PROVE Once(delivered[s], queued[s], wire[Peer(s)], sent[Peer(s)])
    <3>1. delivered[s] = <<>> /\ queued[s] = <<>> /\ wire[Peer(s)] = <<>> /\ sent[Peer(s)] = 0
      BY PeerSide DEF Init
    <3>2. <<>> \in Seq(Body) /\ <<>> \in Seq(AnyPkt) /\ Len(<<>>) = 0 /\ 1..0 = {} /\ (0 + 1)..0 = {}
      OBVIOUS
    <3> DEFINE u == Pend(<<>>, <<>>)
    <3>3. Len(u) = 0
      <4>1. \A q \in Seq(Body), w \in Seq(AnyPkt) : Len(Pend(q, w)) = Len(q) + Len(w)
        BY PendView
      <4>2. Len(u) = Len(<<>>) + Len(<<>>)
        BY <3>2, <4>1
      <4> QED
        BY <3>2, <4>2
    <3> HIDE DEF u
    <3>4. Numbered(u, 0, 0)
      BY <3>2, <3>3 DEF Numbered
    <3>5. Once(<<>>, <<>>, <<>>, 0)
      BY <3>2, <3>4 DEF Once, u
    <3> QED
      BY <3>1, <3>5
  <2> QED
    BY <2>1, <2>2 DEF OnceInv
<1>2. OnceInv => ExactlyOnce
  BY DEF OnceInv, Once, Pend, ExactlyOnce
<1> QED
  BY <1>1, <1>2, Inductive, Flow, NextOnce, PTL DEF Spec
=============================================================================
