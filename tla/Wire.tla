-------------------------------- MODULE Wire --------------------------------
(***************************************************************************)
(* The byte stream under a Transport (transport/mod.rs), from the first    *)
(* byte to the first packets under the negotiated ciphers: identification  *)
(* lines, KEXINITs with or without a guessed packet, the exchange, NEWKEYS,*)
(* and recv_raw, which reads a packet in pieces and is dropped half way    *)
(* whenever another branch of the connection's select wins.                *)
(*                                                                         *)
(* One side or both are this implementation; the other may be any peer: it *)
(* chooses its lists, banner lines and guess at the start.  What it does   *)
(* with the lists is what RFC 4253 prescribes, which is what this code     *)
(* does.  Keys are not modelled here (module Transport): a packet opens    *)
(* under the algorithm and nonce it was sealed with, unaltered.  A plain   *)
(* packet has no tag: what is altered in it may be read as something else, *)
(* and only the signature over the exchange hash tells.                    *)
(***************************************************************************)
EXTENDS Frames

CONSTANTS
    Hellos,         \* pairs of KEXINITs and lines the two sides start with
    Misread,        \* what an altered KEXINIT may be read as
    Sizes,          \* lengths of the payloads sent as data
    ReadSizes,      \* how much of what is wanted one read may return
    MaxLine,        \* 1024: the length of a line
    MaxLines,       \* 32: banner lines a client puts up with
    MaxTotal,       \* 8192: their length together
    MaxData,        \* bound: data packets sent by the two sides
    MaxCancels      \* bound: times recv_raw is dropped half way

Side == {"client", "server"}

ASSUME WireAssumption ==
    /\ Sizes \subseteq Nat \ {0}
    /\ ReadSizes \subseteq Nat \ {0}
    /\ MaxLine \in Nat /\ MaxLines \in Nat /\ MaxTotal \in Nat
    /\ MaxData \in Nat /\ MaxCancels \in Nat

\* What a side starts with: a KEXINIT (name-lists, a flag and a cookie) and its
\* lines, the last of which is its identification.  A line knows at which byte
\* it ends, line breaks not counted.
IsList(list) == list \in Seq(Names(list))
IsOffer(o) ==
    /\ IsList(o.kex) /\ IsList(o.host_keys) /\ IsList(o.comp_c2s) /\ IsList(o.comp_s2c)
    /\ IsList(o.enc_c2s) /\ IsList(o.enc_s2c)
    /\ o.first_packet_follows \in BOOLEAN

LineKinds == [line : {"banner", "ssh1", "ssh2"}, end : Nat, text : BOOLEAN]
IsPreamble(q) ==
    /\ q \in Seq(LineKinds) /\ q # <<>>
    /\ \A i \in 1..Len(q) : q[i].line = "banner" <=> i < Len(q)

ASSUME HelloAssumption ==
    /\ \A h \in Hellos : \A s \in Side : IsOffer(h[s].offer) /\ IsPreamble(h[s].lines)
    /\ \A o \in Misread : IsOffer(o)

\* One of the two sides is this implementation: what both list is implemented
\* (neither lists a flag of the other).  In these exchanges the client speaks
\* first, so that a server has nothing to guess.
Implemented(c, v) ==
    /\ Names(c.kex) \cap Names(v.kex) \subseteq KexNames
    /\ Names(c.host_keys) \cap Names(v.host_keys) \subseteq HostKeyNames
    /\ Names(c.enc_c2s) \cap Names(v.enc_c2s) \subseteq Algorithms
    /\ Names(c.enc_s2c) \cap Names(v.enc_s2c) \subseteq Algorithms

ASSUME PeerAssumption ==
    \A h \in Hellos : /\ Implemented(h["client"].offer, h["server"].offer)
                      /\ ~h["server"].offer.first_packet_follows

\* Payloads leave room for the padding: a channel's packets are far smaller.
ASSUME SizesAssumption == \A n \in Sizes : n + 20 <= MAX_PACKET

VARIABLES
    hello,          \* hello[s]: [offer, lines], fixed at the start
    phase,          \* what each side's task is waiting for
    why,            \* the error a failed side returned
    lines, total,   \* lines read before the packets, and their length
    tx, rx,         \* the ciphers of each side
    net,            \* net[s]: lines and packets on their way to s
    off,            \* off[s]: bytes of the first of them that s has read
    read_state,     \* ReadState of each side
    heard,          \* the KEXINIT each side has read, as a set
    neg,            \* what each side negotiated from it
    sent, got,      \* data: payloads given to send_raw, returned by recv_raw
    cancels,
    altered         \* something was altered under way

vars == <<hello, phase, why, lines, total, tx, rx, net, off, read_state, heard, neg, sent,
          got, cancels, altered>>

Idle == [at |-> "idle", got |-> 0, need |-> 0]
IsLine(x) == "line" \in DOMAIN x

KexInit(o) == [kind |-> "kexinit", n |-> 1, offer |-> o]
EcdhInit(k) == [kind |-> "ecdh_init", n |-> 1, kex |-> k, share |-> "own"]
EcdhReply(t) == [kind |-> "ecdh_reply", n |-> 1, signed |-> t]
Plainly(k) == [kind |-> k, n |-> 1]
Data(i, n) == [kind |-> "data", n |-> n, i |-> i]

Init ==
    /\ hello \in Hellos
    /\ phase = [s \in Side |-> "start"]
    /\ why = [s \in Side |-> "none"]
    /\ lines = [s \in Side |-> 0]
    /\ total = [s \in Side |-> 0]
    /\ tx = [s \in Side |-> PlainCipher]
    /\ rx = [s \in Side |-> PlainCipher]
    /\ net = [s \in Side |-> <<>>]
    /\ off = [s \in Side |-> 0]
    /\ read_state = [s \in Side |-> Idle]
    /\ heard = [s \in Side |-> {}]
    /\ neg = [s \in Side |-> {}]
    /\ sent = [s \in Side |-> <<>>]
    /\ got = [s \in Side |-> <<>>]
    /\ cancels = [s \in Side |-> 0]
    /\ altered = FALSE

Goto(s, p) == phase' = [phase EXCEPT ![s] = p]
\* An error returned: the caller drops the transport and with it the socket.
Fail(s, e) == Goto(s, "failed") /\ why' = [why EXCEPT ![s] = e]

\* The packets ms sealed one after the other, the first under cipher c.
Sealed(c, ms) == [i \in DOMAIN ms |-> seal(After(c, i - 1), ms[i])]

\* send_raw of several messages: the cipher after it is After(tx[s], Len(ms)).
SendRaw(s, ms) ==
    net' = [net EXCEPT ![Other(s)] = @ \o Sealed(tx[s], ms)]

kexVars == <<hello, lines, total, heard, neg, cancels, altered>>
dataVars == <<sent, got>>

-----------------------------------------------------------------------------
(* Identification. *)

\* A peer may put banner lines before its own; this code never does.
SendIdent(s) ==
    /\ phase[s] = "start"
    /\ Goto(s, "ident")
    /\ net' = [net EXCEPT ![Other(s)] = @ \o hello[s].lines]
    /\ UNCHANGED <<why, tx, rx, off, read_state>> /\ UNCHANGED kexVars
    /\ UNCHANGED dataVars

\* read_line: no line too long, and UTF-8 only.
Readable(s, x) == x.end - total[s] <= MaxLine /\ x.text

TakeLine(s) ==
    /\ phase[s] = "ident"
    /\ net[s] # <<>> /\ IsLine(Head(net[s]))
    /\ net' = [net EXCEPT ![s] = Tail(@)]
    /\ lines' = [lines EXCEPT ![s] = @ + 1]
    /\ total' = [total EXCEPT ![s] = Head(net[s]).end]
    /\ UNCHANGED <<hello, tx, rx, off, read_state, heard, neg, cancels, altered>>
    /\ UNCHANGED dataVars

\* A server's client has no licence to put anything before its identification.
TooMuchJunk(s) == s = "server" \/ lines[s] + 1 > MaxLines \/ Head(net[s]).end > MaxTotal

OnIdent(s) ==
    /\ TakeLine(s) /\ Readable(s, Head(net[s])) /\ Head(net[s]).line = "ssh2"
    /\ Goto(s, "hello") /\ UNCHANGED why

OnJunk(s) ==
    /\ TakeLine(s) /\ Readable(s, Head(net[s])) /\ Head(net[s]).line = "banner"
    /\ ~TooMuchJunk(s)
    /\ UNCHANGED <<phase, why>>

OnBadIdent(s) ==
    /\ TakeLine(s)
    /\ \/ ~Readable(s, Head(net[s]))
       \/ Head(net[s]).line = "ssh1"
       \/ Head(net[s]).line = "banner" /\ TooMuchJunk(s)
    /\ Fail(s, "ident")

-----------------------------------------------------------------------------
(* recv_raw. *)

Reading(s) ==
    \/ phase[s] \in {"kexinit", "discard", "reply", "newkeys", "open"}
    \/ s = "server" /\ phase[s] = "exchange"
PacketThere(s) == net[s] # <<>> /\ ~IsLine(Head(net[s]))
Packet(s) == Head(net[s])
Want(s) == IF read_state[s].at = "body" THEN read_state[s].need - read_state[s].got
                                        ELSE 4 - read_state[s].got

\* What one read can get: no more than is wanted, and from one packet.
Ready(s) == LET left == WireSize(Packet(s)) - off[s]
            IN  IF left < Want(s) THEN left ELSE Want(s)

\* io.read returns some of what is wanted and there; from Idle the loop goes on
\* to the header at once.  Bound: a field comes in one piece or in two.
Read(s) ==
    /\ Reading(s) /\ Want(s) > 0
    /\ PacketThere(s) /\ Ready(s) > 0
    /\ \E n \in {Ready(s)} \cup (IF read_state[s].got = 0 THEN ReadSizes ELSE {}) :
          /\ n <= Ready(s)
          /\ read_state' = [read_state EXCEPT ![s] =
                              [at |-> IF @.at = "idle" THEN "header" ELSE @.at,
                               got |-> @.got + n, need |-> @.need]]
          /\ off' = [off EXCEPT ![s] = @ + n]
    /\ UNCHANGED <<phase, why, tx, rx, net>> /\ UNCHANGED kexVars
    /\ UNCHANGED dataVars

\* The four bytes of a packet's length field give its length when they are its
\* first four, unaltered, under the cipher it was sealed with.
LengthReadable(s) ==
    off[s] = 4 /\ Packet(s).bad # "length" /\ Matches(rx[s], Packet(s))

HeaderRead(s) ==
    /\ Reading(s) /\ read_state[s].at = "header" /\ Want(s) = 0

ToBody(s, len) ==
    /\ read_state' = [read_state EXCEPT ![s] =
                        [at |-> "body", got |-> 0, need |-> body_len(rx[s].alg, len)]]
    /\ UNCHANGED <<phase, why>>

\* packet_length.  A length field that does not read as sealed is anything: it
\* is refused, or taken for a length that need not be the packet's.
OnHeader(s) ==
    /\ HeaderRead(s)
    /\ IF LengthReadable(s)
         THEN IF check_length(rx[s].alg, Packet(s).len)
                THEN ToBody(s, Packet(s).len) ELSE Fail(s, "length") /\ UNCHANGED read_state
         ELSE \E extra \in {0, Align(rx[s].alg)} : ToBody(s, Packet(s).len + extra)
    /\ UNCHANGED <<tx, rx, net, off>> /\ UNCHANGED kexVars /\ UNCHANGED dataVars

OnBadHeader(s) ==
    /\ HeaderRead(s) /\ ~LengthReadable(s)
    /\ Fail(s, "length")
    /\ UNCHANGED <<tx, rx, net, off, read_state>> /\ UNCHANGED kexVars
    /\ UNCHANGED dataVars

Damaged(x, part) == [x EXCEPT !.bad = part]

\* A body that is too long goes on into the next packet, whose bytes it spoils.
ReadOn(s) ==
    /\ Reading(s) /\ Want(s) > 0 /\ read_state[s].at # "idle"
    /\ PacketThere(s) /\ off[s] = WireSize(Packet(s)) /\ Len(net[s]) > 1
    /\ net' = [net EXCEPT ![s] = [Tail(@) EXCEPT ![1] = Damaged(net[s][2], "body")]]
    /\ off' = [off EXCEPT ![s] = 0]
    /\ UNCHANGED <<phase, why, tx, rx, read_state>> /\ UNCHANGED kexVars
    /\ UNCHANGED dataVars

BodyRead(s) ==
    /\ Reading(s) /\ read_state[s].at = "body" /\ Want(s) = 0

OpensUnchecked(s) == PaddingOk(Packet(s).len, Packet(s).pad)

\* open: the tag covers the length field too.
Opens(s) ==
    /\ Matches(rx[s], Packet(s)) /\ Packet(s).bad = "none"
    /\ PaddingOk(Packet(s).len, Packet(s).pad)

OpenFails(s) ==
    /\ BodyRead(s) /\ ~Opens(s)
    /\ Fail(s, "open")
    /\ read_state' = [read_state EXCEPT ![s] = Idle]
    /\ UNCHANGED <<tx, rx, net, off>> /\ UNCHANGED kexVars /\ UNCHANGED dataVars

\* The next payload is returned: the packet is gone and rx has moved on.
Opened(s) == BodyRead(s) /\ Opens(s)
Took(s) ==
    /\ read_state' = [read_state EXCEPT ![s] = Idle]
    /\ off' = [off EXCEPT ![s] = 0]
Returned(s) == IF Packet(s).bad = "none" THEN Packet(s).m ELSE Plainly("garbage")
Rest(s) == Tail(net[s])

\* The peer has closed and everything it sent has been read.
Ended(s) ==
    /\ phase[Other(s)] = "failed"
    /\ IF net[s] = <<>> THEN TRUE
       ELSE Len(net[s]) = 1 /\ PacketThere(s) /\ off[s] = WireSize(Packet(s)) /\ Want(s) > 0

OnEof(s) ==
    /\ Ended(s)
    /\ IF Reading(s) THEN TRUE ELSE phase[s] = "ident"
    /\ Fail(s, "eof")
    /\ UNCHANGED <<tx, rx, net, off, read_state>> /\ UNCHANGED kexVars
    /\ UNCHANGED dataVars

CancelForgets(s) ==
    /\ phase[s] = "open" /\ read_state[s].at # "idle"
    /\ cancels[s] < MaxCancels
    /\ cancels' = [cancels EXCEPT ![s] = @ + 1]
    /\ read_state' = [read_state EXCEPT ![s] = Idle]
    /\ UNCHANGED <<hello, phase, why, lines, total, tx, rx, net, off, heard, neg, altered>>
    /\ UNCHANGED dataVars

\* Another branch of the select wins: the future is dropped, read_state and
\* the buffer in it stay in the transport.
Cancel(s) ==
    /\ phase[s] = "open" /\ read_state[s].at # "idle"
    /\ cancels[s] < MaxCancels
    /\ cancels' = [cancels EXCEPT ![s] = @ + 1]
    /\ UNCHANGED <<hello, phase, why, lines, total, tx, rx, net, off, read_state, heard, neg,
                   altered>>
    /\ UNCHANGED dataVars

-----------------------------------------------------------------------------
(* The first exchange. *)

\* initial_kex.  A guessing client sends its share for its favourite at once.
SendKexInit(s) ==
    /\ phase[s] = "hello"
    /\ LET o == hello[s].offer
           ms == IF o.first_packet_follows THEN <<KexInit(o), EcdhInit(Head(o.kex))>>
                                           ELSE <<KexInit(o)>>
       IN  /\ SendRaw(s, ms)
           /\ tx' = [tx EXCEPT ![s] = After(@, Len(ms))]
    /\ Goto(s, "kexinit")
    /\ UNCHANGED <<why, rx, off, read_state>> /\ UNCHANGED kexVars /\ UNCHANGED dataVars

OnKexInit(s) ==
    /\ Opened(s) /\ phase[s] = "kexinit" /\ Returned(s).kind = "kexinit"
    /\ heard' = [heard EXCEPT ![s] = {Returned(s).offer}]
    /\ neg' = [neg EXCEPT ![s] = negotiate(s, hello[s].offer, Returned(s).offer)]
    /\ IF neg'[s] = {}
         THEN Fail(s, "negotiation")
         ELSE /\ Goto(s, IF \E x \in neg'[s] : x.discard_guess THEN "discard" ELSE "exchange")
              /\ UNCHANGED why
    /\ Took(s) /\ net' = [net EXCEPT ![s] = Rest(s)]
    /\ rx' = [rx EXCEPT ![s] = Bump(@)]
    /\ UNCHANGED <<hello, lines, total, tx, cancels, altered>> /\ UNCHANGED dataVars

Discard(s) ==
    /\ Opened(s) /\ phase[s] = "discard"
    /\ Goto(s, "exchange")
    /\ Took(s) /\ net' = [net EXCEPT ![s] = Rest(s)]
    /\ rx' = [rx EXCEPT ![s] = Bump(@)]
    /\ UNCHANGED <<why, tx>> /\ UNCHANGED kexVars /\ UNCHANGED dataVars

Negotiated(s) == CHOOSE x \in neg[s] : TRUE
GuessStands(s) ==
    /\ hello[s].offer.first_packet_follows
    /\ \A o \in heard[s] : guess_right(hello[s].offer, o)

\* The client's share, unless its guess already was it.
SendShare ==
    /\ phase["client"] = "exchange"
    /\ LET ms == IF GuessStands("client") THEN <<>> ELSE <<EcdhInit(Negotiated("client").kex)>>
       IN  /\ SendRaw("client", ms)
           /\ tx' = [tx EXCEPT !["client"] = After(@, Len(ms))]
    /\ Goto("client", "reply")
    /\ UNCHANGED <<why, rx, off, read_state>> /\ UNCHANGED kexVars /\ UNCHANGED dataVars

TxAlg(s) == IF s = "client" THEN Negotiated(s).cipher_c2s ELSE Negotiated(s).cipher_s2c
RxAlg(s) == IF s = "client" THEN Negotiated(s).cipher_s2c ELSE Negotiated(s).cipher_c2s

\* The messages ms and NEWKEYS leave under the old cipher, the rest under the new.
Switch(s, ms) ==
    /\ tx' = [tx EXCEPT ![s] = make(TxAlg(s))]
    /\ net' = [net EXCEPT ![s] = Rest(s),
                          ![Other(s)] = @ \o Sealed(tx[s], ms \o <<Plainly("newkeys")>>)]

\* exchange_hash, as side s sees the exchange: both KEXINITs and the shares.
Hash(s, share) ==
    [client |-> IF s = "client" THEN {hello[s].offer} ELSE heard[s],
     server |-> IF s = "server" THEN {hello[s].offer} ELSE heard[s],
     share |-> share]

\* server_exchange refuses a share that is not of the negotiated algorithm.
FitsExchange(s, m) == m.kind = "ecdh_init" /\ m.kex = Negotiated(s).kex

OnEcdhInit ==
    /\ Opened("server") /\ phase["server"] = "exchange"
    /\ FitsExchange("server", Returned("server"))
    /\ Switch("server", <<EcdhReply(Hash("server", Returned("server").share))>>)
    /\ Goto("server", "newkeys")
    /\ Took("server") /\ rx' = [rx EXCEPT !["server"] = Bump(@)]
    /\ UNCHANGED why /\ UNCHANGED kexVars /\ UNCHANGED dataVars

ReplyUnverified ==
    /\ Opened("client") /\ phase["client"] = "reply"
    /\ Returned("client").kind = "ecdh_reply"
    /\ Switch("client", <<>>)
    /\ Goto("client", "newkeys")
    /\ Took("client") /\ rx' = [rx EXCEPT !["client"] = Bump(@)]
    /\ UNCHANGED why /\ UNCHANGED kexVars /\ UNCHANGED dataVars

\* The host key's signature is over the hash of what the server saw.
OnEcdhReply ==
    /\ Opened("client") /\ phase["client"] = "reply"
    /\ Returned("client").kind = "ecdh_reply"
    /\ Returned("client").signed = Hash("client", "own")
    /\ Switch("client", <<>>)
    /\ Goto("client", "newkeys")
    /\ Took("client") /\ rx' = [rx EXCEPT !["client"] = Bump(@)]
    /\ UNCHANGED why /\ UNCHANGED kexVars /\ UNCHANGED dataVars

\* What the host key is judged by first is in module ClientSetup.
OnBadReply ==
    /\ Opened("client") /\ phase["client"] = "reply"
    /\ Returned("client").kind = "ecdh_reply"
    /\ Returned("client").signed # Hash("client", "own")
    /\ Fail("client", "hostkey")
    /\ Took("client") /\ net' = [net EXCEPT !["client"] = Rest("client")]
    /\ rx' = [rx EXCEPT !["client"] = Bump(@)]
    /\ UNCHANGED tx /\ UNCHANGED kexVars /\ UNCHANGED dataVars

\* rx_seq is reset with the cipher: strict key exchange.
OnNewKeys(s) ==
    /\ Opened(s) /\ phase[s] = "newkeys" /\ Returned(s).kind = "newkeys"
    /\ rx' = [rx EXCEPT ![s] = make(RxAlg(s))]
    /\ Goto(s, "open")
    /\ Took(s) /\ net' = [net EXCEPT ![s] = Rest(s)]
    /\ UNCHANGED <<why, tx>> /\ UNCHANGED kexVars /\ UNCHANGED dataVars

SendData(s) ==
    /\ phase[s] = "open" /\ Len(sent["client"]) + Len(sent["server"]) < MaxData
    /\ \E n \in Sizes :
          LET m == Data(Len(sent[s]) + 1, n)
          IN  /\ sent' = [sent EXCEPT ![s] = Append(@, m)]
              /\ SendRaw(s, <<m>>)
    /\ tx' = [tx EXCEPT ![s] = Bump(@)]
    /\ UNCHANGED <<phase, why, rx, off, read_state, got>> /\ UNCHANGED kexVars

OnData(s) ==
    /\ Opened(s) /\ phase[s] = "open"
    /\ got' = [got EXCEPT ![s] = Append(@, Returned(s))]
    /\ Took(s) /\ net' = [net EXCEPT ![s] = Rest(s)]
    /\ rx' = [rx EXCEPT ![s] = Bump(@)]
    /\ UNCHANGED <<phase, why, tx, sent>> /\ UNCHANGED kexVars

Expected(s) ==
    CASE phase[s] = "kexinit"  -> Returned(s).kind = "kexinit"
      [] phase[s] = "exchange" -> FitsExchange(s, Returned(s))
      [] phase[s] = "reply"    -> Returned(s).kind = "ecdh_reply"
      [] phase[s] = "newkeys"  -> Returned(s).kind = "newkeys"
      [] OTHER                 -> TRUE

OnUnexpected(s) ==
    /\ Opened(s) /\ ~Expected(s)
    /\ Fail(s, "unexpected")
    /\ Took(s) /\ net' = [net EXCEPT ![s] = Rest(s)]
    /\ rx' = [rx EXCEPT ![s] = Bump(@)]
    /\ UNCHANGED tx /\ UNCHANGED kexVars /\ UNCHANGED dataVars

\* External: a byte of a packet under way is altered, in its length field or
\* after it.  A plain packet has no tag: a KEXINIT, a share or a reply may still
\* read as one, with other contents.
Misreadings(m) ==
    {Plainly("other")} \cup
    CASE m.kind = "kexinit"    -> {KexInit(o) : o \in Misread}
      [] m.kind = "ecdh_init"  -> {[m EXCEPT !.share = "altered"]}
      [] m.kind = "ecdh_reply" -> {EcdhReply([m.signed EXCEPT !.share = "altered"])}
      [] OTHER                 -> {}
Alterations(x, part) ==
    IF part = "body" /\ x.alg = "plain" THEN {[x EXCEPT !.m = m] : m \in Misreadings(x.m)}
                                        ELSE {Damaged(x, part)}
Alter(s) ==
    /\ ~altered
    /\ \E i \in DOMAIN net[s], part \in {"length", "body"} :
          /\ ~IsLine(net[s][i])
          /\ (IF i = 1 THEN off[s] ELSE 0) <
                (IF part = "length" THEN 4 ELSE WireSize(net[s][i]))
          /\ \E x \in Alterations(net[s][i], part) :
                net' = [net EXCEPT ![s] = [@ EXCEPT ![i] = x]]
    /\ altered' = TRUE
    /\ UNCHANGED <<hello, phase, why, lines, total, tx, rx, off, read_state, heard, neg, cancels>>
    /\ UNCHANGED dataVars

-----------------------------------------------------------------------------
Receives(s) ==
    OnIdent(s) \/ OnBadIdent(s) \/ OnJunk(s) \/ Read(s) \/ ReadOn(s) \/ OnHeader(s)
    \/ OnBadHeader(s) \/ OpenFails(s) \/ OnEof(s) \/ OnKexInit(s) \/ Discard(s)
    \/ OnNewKeys(s) \/ OnData(s) \/ OnUnexpected(s)
Handshake(s) == SendIdent(s) \/ SendKexInit(s)

Next ==
    \/ \E s \in Side : Receives(s) \/ Handshake(s) \/ Cancel(s) \/ SendData(s) \/ Alter(s)
    \/ SendShare \/ OnEcdhInit \/ OnEcdhReply \/ OnBadReply

Spec == Init /\ [][Next]_vars

\* Every task keeps running: recv_raw is called again after each cancel.
FairSpec ==
    /\ Spec
    /\ \A s \in Side : WF_vars(Receives(s)) /\ WF_vars(Handshake(s))
    /\ WF_vars(SendShare) /\ WF_vars(OnEcdhInit) /\ WF_vars(OnEcdhReply \/ OnBadReply)

-----------------------------------------------------------------------------
\* Whatever pieces a packet arrives in, whatever its length and wherever the
\* select loop drops recv_raw, what recv_raw returned is a prefix of what the
\* peer's send_raw was given: no byte is read twice, skipped or taken for part
\* of another packet.
Reassembled ==
    \A s \in Side :
        /\ Len(got[s]) <= Len(sent[Other(s)])
        /\ \A i \in DOMAIN got[s] : got[s][i] = sent[Other(s)][i]

\* What the two lists have in common, without regard to order.
Compatible(c, v) ==
    /\ Names(c.kex) \cap Names(v.kex) \cap KexNames # {}
    /\ Names(c.host_keys) \cap Names(v.host_keys) # {}
    /\ Names(c.enc_c2s) \cap Names(v.enc_c2s) # {}
    /\ Names(c.enc_s2c) \cap Names(v.enc_s2c) # {}
    /\ Names(c.comp_c2s) \cap Names(v.comp_c2s) # {}
    /\ Names(c.comp_s2c) \cap Names(v.comp_s2c) # {}
    /\ StrictFlag("client") \in Names(c.kex) /\ StrictFlag("server") \in Names(v.kex)
\* Lines its peer must put up with: short, of text, banners only from a server
\* and not too many or too long together, and SSH 2.0 at the end.
GoodLine(q, i) == q[i].text /\ q[i].end - (IF i = 1 THEN 0 ELSE q[i - 1].end) <= MaxLine
GoodHello(s) ==
    LET q == hello[s].lines
    IN  /\ \A i \in DOMAIN q : /\ GoodLine(q, i) /\ q[i].line # "ssh1"
                               /\ q[i].line = "banner" => s = "server" /\ q[i].end <= MaxTotal
        /\ Len(q) - 1 <= MaxLines

\* No side gives up without a reason: a length, a tag or the host key's
\* signature is refused only if a packet was altered under way, a message is
\* never out of turn (not even after a guess that turned out wrong), a
\* negotiation fails only when there is nothing in common, an identification
\* only when the peer's was bad.
NoFalseAlarm ==
    \A s \in Side :
        /\ why[s] \in {"length", "open", "unexpected", "hostkey"} => altered
        /\ why[s] = "negotiation" =>
              altered \/ ~Compatible(hello["client"].offer, hello["server"].offer)
        /\ why[s] = "ident" => ~GoodHello(Other(s))

\* The part of a negotiation that both sides must hold in common.
Agreed(s) ==
    {[kex |-> x.kex, host |-> x.host_key_algo, c2s |-> x.cipher_c2s, s2c |-> x.cipher_s2c] :
        x \in neg[s]}

\* The client has checked the signature; the server has heard of it.
Verified == tx["client"].alg # "plain" \/ rx["server"].alg # "plain"

\* Two sides that went through the negotiation agree on the exchange, the host
\* key and the cipher of each direction, each of them the client's favourite
\* among what both offered.  A KEXINIT altered under way may mislead a side at
\* first, but never past the host key's signature over the exchange hash: the
\* client switches no key, and the server takes no packet under a new one,
\* without the agreement; nor do incompatible peers get that far.
NegotiationAgrees ==
    LET c == hello["client"].offer
        v == hello["server"].offer
        Best(list, other, name) ==
            \E i \in DOMAIN list :
                /\ list[i] = name /\ name \in Names(other)
                /\ \A j \in 1..(i - 1) : list[j] \notin Names(other)
    IN  /\ ~altered \/ Verified =>
              /\ (\A s \in Side : neg[s] # {}) => Agreed("client") = Agreed("server")
              /\ \A s \in Side : \A x \in neg[s] :
                    /\ Best(c.kex, v.kex, x.kex)
                    /\ Best(c.host_keys, v.host_keys, x.host_key_algo)
                    /\ Best(c.enc_c2s, v.enc_c2s, x.cipher_c2s)
                    /\ Best(c.enc_s2c, v.enc_s2c, x.cipher_s2c)
        /\ Verified => Compatible(c, v) /\ \A s \in Side : neg[s] # {}

\* Every payload sent is delivered unless bytes were altered, however often its
\* reader is dropped: again and again nothing is outstanding.  And a handshake
\* that two good peers begin is finished.
AllArrive ==
    /\ \A s \in Side : []<>(altered \/ Len(got[Other(s)]) = Len(sent[s]))
    /\ ((\A s \in Side : GoodHello(s)) /\ Compatible(hello["client"].offer, hello["server"].offer))
          ~> (altered \/ \A s \in Side : phase[s] = "open")
=============================================================================
