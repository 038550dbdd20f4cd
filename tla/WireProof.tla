---------------------------- MODULE WireProof -------------------------------
(***************************************************************************)
(* Modules Frames and Wire: what the two ends of a connection can rely on  *)
(* below the packets, for payloads of any length, any two KEXINITs, any    *)
(* pieces a packet arrives in and any number of dropped reads.             *)
(*                                                                         *)
(* First the operators of Frames.  Then IInv, which holds whatever the     *)
(* network alters and gives that what recv_raw returns is a prefix of what *)
(* send_raw was given.  Last CleanInv: as long as nothing was altered,     *)
(* what is under way is a stretch of the one stream of items each side     *)
(* sends, and each side reads it from the right place.                     *)
(***************************************************************************)
EXTENDS Wire, WellFoundedInduction, TLAPS

-----------------------------------------------------------------------------
(* Lengths.                                                                *)

\* Two kinds of block, and a header that counts in one framing only.
LEMMA BlockSizes ==
    ASSUME NEW a \in Framings
    PROVE  \/ Align(a) = 16 /\ CountedLength(a) = 0
           \/ Align(a) = 8 /\ CountedLength(a) \in {0, 4}
BY DEF Framings, Algorithms, Align, CountedLength

\* padded: at least MIN_PAD bytes, less than a block more, up to a whole block.
LEMMA Padding ==
    ASSUME NEW a \in Framings, NEW n \in Nat
    PROVE  /\ Pad(a, n) \in Nat
           /\ MIN_PAD <= Pad(a, n) /\ Pad(a, n) < MIN_PAD + Align(a)
           /\ (PacketLength(a, n) + CountedLength(a)) % Align(a) = 0
<1>1. CASE Align(a) = 16 /\ CountedLength(a) = 0
  BY <1>1 DEF Pad, PacketLength, MIN_PAD
<1>2. CASE Align(a) = 8 /\ CountedLength(a) = 0
  BY <1>2 DEF Pad, PacketLength, MIN_PAD
<1>3. CASE Align(a) = 8 /\ CountedLength(a) = 4
  BY <1>3 DEF Pad, PacketLength, MIN_PAD
<1> QED  BY <1>1, <1>2, <1>3, BlockSizes

\* For every framing and every payload that fits: the length field a sender
\* writes is one check_length accepts, the padding is one unpad accepts (and fits
\* its byte), and taking it off leaves the payload: no packet of our own is ever
\* refused for its shape.
THEOREM FramesFit ==
    ASSUME NEW a \in Framings, NEW n \in Nat, PacketLength(a, n) <= MAX_PACKET
    PROVE  /\ check_length(a, PacketLength(a, n))
           /\ PaddingOk(PacketLength(a, n), Pad(a, n))
           /\ Pad(a, n) < 256
           /\ PacketLength(a, n) - 1 - Pad(a, n) = n
<1>1. /\ Pad(a, n) \in Nat
      /\ MIN_PAD <= Pad(a, n) /\ Pad(a, n) < MIN_PAD + Align(a)
      /\ (PacketLength(a, n) + CountedLength(a)) % Align(a) = 0
  BY Padding
<1>2. PacketLength(a, n) = 1 + n + Pad(a, n)
  BY DEF PacketLength
<1>3. Align(a) \in {8, 16}
  BY BlockSizes
<1>4. check_length(a, PacketLength(a, n))
  BY <1>1, <1>2 DEF check_length, MIN_PAD
<1> QED  BY <1>1, <1>2, <1>3, <1>4 DEF PaddingOk, MIN_PAD

-----------------------------------------------------------------------------
(* Negotiation.                                                            *)

\* choose has at most one answer, and who asks makes no difference to it.
LEMMA ChooseIsFunction ==
    ASSUME NEW client, IsList(client), NEW server,
           NEW x \in choose(client, server), NEW y \in choose(client, server)
    PROVE  x = y
<1>1. DOMAIN client = 1..Len(client) /\ Len(client) \in Nat
  BY DEF IsList
<1>2. PICK i \in DOMAIN client : /\ x = client[i] /\ client[i] \in Names(server)
                                 /\ \A j \in DOMAIN client : client[j] \in Names(server) => i <= j
  BY DEF choose, FirstOf
<1>3. PICK k \in DOMAIN client : /\ y = client[k] /\ client[k] \in Names(server)
                                 /\ \A j \in DOMAIN client : client[j] \in Names(server) => k <= j
  BY DEF choose, FirstOf
<1>4. i \in Int /\ k \in Int /\ i <= k /\ k <= i
  BY <1>1, <1>2, <1>3
<1>5. i = k
  BY <1>4
<1> QED  BY <1>2, <1>3, <1>5

\* What choose returns is the client's favourite among what both have.
Favourite(list, other, name) ==
    \E i \in DOMAIN list :
        /\ list[i] = name /\ name \in Names(other)
        /\ \A j \in 1..(i - 1) : list[j] \notin Names(other)

\* choose returns the client's first name that the server has too.
LEMMA ChooseIsFavourite ==
    ASSUME NEW client, IsList(client), NEW server, NEW x \in choose(client, server)
    PROVE  Favourite(client, server, x) /\ x \in Names(client) /\ x \in Names(server)
<1>1. DOMAIN client = 1..Len(client) /\ Len(client) \in Nat
  BY DEF IsList
<1>2. PICK i \in DOMAIN client : /\ x = client[i] /\ client[i] \in Names(server)
                                 /\ \A j \in DOMAIN client : client[j] \in Names(server) => i <= j
  BY DEF choose, FirstOf
<1>3. ASSUME NEW j \in 1..(i - 1)  PROVE client[j] \notin Names(server)
  <2>1. j \in DOMAIN client /\ ~(i <= j)
    BY <1>1
  <2> QED  BY <2>1, <1>2
<1> QED  BY <1>2, <1>3 DEF Favourite, Names

\* A non-empty set of naturals has a least member.
LEMMA LeastNat ==
    ASSUME NEW T, T \subseteq Nat, T # {}
    PROVE  \E x \in T : \A y \in T : x <= y
<1>1. PICK x \in T : \A y \in T : ~(<<y, x>> \in OpToRel(<, Nat))
  BY NatLessThanWellFounded, WFMin
<1>2. \A y \in T : ~(y < x)
  BY <1>1 DEF OpToRel
<1>3. \A y \in T : x \in Nat /\ y \in Nat
  BY <1>1
<1>4. \A y \in T : x <= y
  BY <1>2, <1>3
<1> QED  BY <1>1, <1>4

\* Lists with a name in common have a first choice.
LEMMA ChooseFinds ==
    ASSUME NEW client, IsList(client), NEW server, Names(client) \cap Names(server) # {}
    PROVE  choose(client, server) # {}
<1> DEFINE T == {i \in DOMAIN client : client[i] \in Names(server)}
<1>1. DOMAIN client = 1..Len(client) /\ Len(client) \in Nat
  BY DEF IsList
<1>2. T \subseteq Nat /\ T # {}
  BY <1>1 DEF Names
<1>3. PICK k \in T : \A j \in T : k <= j
  BY <1>2, LeastNat
<1> QED  BY <1>3 DEF choose, FirstOf

\* What both ends list is implemented: a negotiation fails only when there is
\* nothing in common, or no strict key exchange.
LEMMA NegotiationFinds ==
    ASSUME NEW c, NEW v, IsOffer(c), IsOffer(v), Implemented(c, v), Compatible(c, v)
    PROVE  negotiate("client", c, v) # {} /\ negotiate("server", v, c) # {}
<1>1. /\ IsList(c.kex) /\ IsList(c.host_keys) /\ IsList(c.enc_c2s) /\ IsList(c.enc_s2c)
      /\ IsList(c.comp_c2s) /\ IsList(c.comp_s2c)
  BY DEF IsOffer
<1>2. PICK k \in choose(c.kex, v.kex) : k \in KexNames
  <2>1. choose(c.kex, v.kex) # {}
    BY <1>1, ChooseFinds DEF Compatible
  <2> QED  BY <1>1, <2>1, ChooseIsFavourite DEF Implemented
<1>3. PICK h \in choose(c.host_keys, v.host_keys) : h \in HostKeyNames
  <2>1. choose(c.host_keys, v.host_keys) # {}
    BY <1>1, ChooseFinds DEF Compatible
  <2> QED  BY <1>1, <2>1, ChooseIsFavourite DEF Implemented
<1>4. PICK a \in choose(c.enc_c2s, v.enc_c2s) : a \in Algorithms
  <2>1. choose(c.enc_c2s, v.enc_c2s) # {}
    BY <1>1, ChooseFinds DEF Compatible
  <2> QED  BY <1>1, <2>1, ChooseIsFavourite DEF Implemented
<1>5. PICK b \in choose(c.enc_s2c, v.enc_s2c) : b \in Algorithms
  <2>1. choose(c.enc_s2c, v.enc_s2c) # {}
    BY <1>1, ChooseFinds DEF Compatible
  <2> QED  BY <1>1, <2>1, ChooseIsFavourite DEF Implemented
<1>6. PICK z \in choose(c.comp_c2s, v.comp_c2s), w \in choose(c.comp_s2c, v.comp_s2c) : TRUE
  BY <1>1, ChooseFinds DEF Compatible
<1>7. ASSUME NEW s, NEW theirs  PROVE Suites(s, c, v, theirs) # {}
  <2> DEFINE p == ExtInfoFlag(Other(s)) \in Names(theirs.kex)
             d == theirs.first_packet_follows /\ ~guess_right(c, v)
  <2>1. [kex |-> k, host_key_algo |-> h, cipher_c2s |-> a, cipher_s2c |-> b,
         peer_ext_info |-> p, discard_guess |-> d] \in Suites(s, c, v, theirs)
    BY <1>2, <1>3, <1>4, <1>5, <1>6 DEF Suites
  <2> QED  BY <2>1
<1>8. /\ Other("client") = "server" /\ Other("server") = "client"
      /\ StrictFlag("client") \in Names(c.kex) /\ StrictFlag("server") \in Names(v.kex)
  BY DEF Other, Compatible
<1> QED  BY <1>7, <1>8 DEF negotiate

\* A guess that both favourites confirm is the choice.
LEMMA RightGuess ==
    ASSUME NEW client, IsList(client), NEW server, Head(client) = Head(server),
           NEW x \in choose(client, server), IsList(server)
    PROVE  x = Head(client)
<1>1. PICK i \in DOMAIN client : /\ x = client[i] /\ client[i] \in Names(server)
                                 /\ \A j \in DOMAIN client : client[j] \in Names(server) => i <= j
  BY DEF choose, FirstOf
<1>2. /\ DOMAIN client = 1..Len(client) /\ Len(client) \in Nat
      /\ DOMAIN server = 1..Len(server) /\ Len(server) \in Nat
  BY DEF IsList
<1>3. 1 \in DOMAIN client /\ 1 \in DOMAIN server
  BY <1>1, <1>2 DEF Names
<1>4. client[1] = Head(client) /\ server[1] = Head(server)
  BY <1>2, <1>3 DEF IsList
<1>5. client[1] \in Names(server)
  BY <1>3, <1>4 DEF Names
<1>6. i = 1
  BY <1>1, <1>2, <1>3, <1>5
<1> QED  BY <1>1, <1>4, <1>6

\* A suite is one choice from each pair of lists.
LEMMA SuiteFrom ==
    ASSUME NEW s, NEW c, NEW v, NEW theirs, NEW x \in Suites(s, c, v, theirs)
    PROVE  /\ x.kex \in choose(c.kex, v.kex) /\ x.kex \in KexNames
           /\ x.host_key_algo \in choose(c.host_keys, v.host_keys)
           /\ x.cipher_c2s \in choose(c.enc_c2s, v.enc_c2s) /\ x.cipher_c2s \in Algorithms
           /\ x.cipher_s2c \in choose(c.enc_s2c, v.enc_s2c) /\ x.cipher_s2c \in Algorithms
           /\ choose(c.comp_c2s, v.comp_c2s) # {} /\ choose(c.comp_s2c, v.comp_s2c) # {}
           /\ x.discard_guess = (theirs.first_packet_follows /\ ~guess_right(c, v))
<1>1. PICK k \in choose(c.kex, v.kex) \cap KexNames, h \in choose(c.host_keys, v.host_keys),
           a \in choose(c.enc_c2s, v.enc_c2s) \cap Algorithms,
           b \in choose(c.enc_s2c, v.enc_s2c) \cap Algorithms,
           z \in choose(c.comp_c2s, v.comp_c2s), w \in choose(c.comp_s2c, v.comp_s2c) :
        x = [kex |-> k, host_key_algo |-> h, cipher_c2s |-> a, cipher_s2c |-> b,
             peer_ext_info |-> ExtInfoFlag(Other(s)) \in Names(theirs.kex),
             discard_guess |-> theirs.first_packet_follows /\ ~guess_right(c, v)]
  BY DEF Suites
<1> QED  BY <1>1

\* For any two KEXINITs: when both ends get through negotiate they have the same
\* algorithms in every place, and each discards a guess exactly when the lists
\* disagree and its peer announced one.
THEOREM BothChooseAlike ==
    ASSUME NEW c, IsOffer(c), NEW v, NEW x \in negotiate("client", c, v),
           NEW y \in negotiate("server", v, c)
    PROVE  /\ x.kex = y.kex /\ x.host_key_algo = y.host_key_algo
           /\ x.cipher_c2s = y.cipher_c2s /\ x.cipher_s2c = y.cipher_s2c
           /\ x.discard_guess = (v.first_packet_follows /\ ~guess_right(c, v))
           /\ y.discard_guess = (c.first_packet_follows /\ ~guess_right(c, v))
<1>0. x \in Suites("client", c, v, v) /\ y \in Suites("server", c, v, c)
  BY DEF negotiate
<1>1. /\ x.kex \in choose(c.kex, v.kex) /\ x.host_key_algo \in choose(c.host_keys, v.host_keys)
      /\ x.cipher_c2s \in choose(c.enc_c2s, v.enc_c2s)
      /\ x.cipher_s2c \in choose(c.enc_s2c, v.enc_s2c)
      /\ x.discard_guess = (v.first_packet_follows /\ ~guess_right(c, v))
  BY <1>0, SuiteFrom
<1>2. /\ y.kex \in choose(c.kex, v.kex) /\ y.host_key_algo \in choose(c.host_keys, v.host_keys)
      /\ y.cipher_c2s \in choose(c.enc_c2s, v.enc_c2s)
      /\ y.cipher_s2c \in choose(c.enc_s2c, v.enc_s2c)
      /\ y.discard_guess = (c.first_packet_follows /\ ~guess_right(c, v))
  BY <1>0, SuiteFrom
<1>3. IsList(c.kex) /\ IsList(c.host_keys) /\ IsList(c.enc_c2s) /\ IsList(c.enc_s2c)
  BY DEF IsOffer
<1> QED  BY <1>1, <1>2, <1>3, ChooseIsFunction

\* One end at a time: what negotiate returns, and that it has one answer.
LEMMA NegotiateFrom ==
    ASSUME NEW s \in Side, NEW ours, NEW theirs, NEW x \in negotiate(s, ours, theirs),
           NEW c, NEW v, IsOffer(c),
           c = (IF s = "client" THEN ours ELSE theirs),
           v = (IF s = "client" THEN theirs ELSE ours)
    PROVE  /\ x.kex \in KexNames /\ x.cipher_c2s \in Algorithms /\ x.cipher_s2c \in Algorithms
           /\ Favourite(c.kex, v.kex, x.kex)
           /\ Favourite(c.host_keys, v.host_keys, x.host_key_algo)
           /\ Favourite(c.enc_c2s, v.enc_c2s, x.cipher_c2s)
           /\ Favourite(c.enc_s2c, v.enc_s2c, x.cipher_s2c)
           /\ x.kex \in Names(c.kex) /\ x.kex \in Names(v.kex)
           /\ x.host_key_algo \in Names(c.host_keys) /\ x.host_key_algo \in Names(v.host_keys)
           /\ x.cipher_c2s \in Names(c.enc_c2s) /\ x.cipher_c2s \in Names(v.enc_c2s)
           /\ x.cipher_s2c \in Names(c.enc_s2c) /\ x.cipher_s2c \in Names(v.enc_s2c)
           /\ Names(c.comp_c2s) \cap Names(v.comp_c2s) # {}
           /\ Names(c.comp_s2c) \cap Names(v.comp_s2c) # {}
           /\ x.discard_guess = (theirs.first_packet_follows /\ ~guess_right(c, v))
           /\ StrictFlag(Other(s)) \in Names(theirs.kex)
<1>1. x \in Suites(s, c, v, theirs) /\ StrictFlag(Other(s)) \in Names(theirs.kex)
  BY DEF negotiate, Side
<1>2. IsList(c.kex) /\ IsList(c.host_keys) /\ IsList(c.enc_c2s) /\ IsList(c.enc_s2c)
      /\ IsList(c.comp_c2s) /\ IsList(c.comp_s2c)
  BY DEF IsOffer
<1>3. /\ x.kex \in choose(c.kex, v.kex) /\ x.kex \in KexNames
      /\ x.host_key_algo \in choose(c.host_keys, v.host_keys)
      /\ x.cipher_c2s \in choose(c.enc_c2s, v.enc_c2s) /\ x.cipher_c2s \in Algorithms
      /\ x.cipher_s2c \in choose(c.enc_s2c, v.enc_s2c) /\ x.cipher_s2c \in Algorithms
      /\ choose(c.comp_c2s, v.comp_c2s) # {} /\ choose(c.comp_s2c, v.comp_s2c) # {}
      /\ x.discard_guess = (theirs.first_packet_follows /\ ~guess_right(c, v))
  BY <1>1, SuiteFrom
<1>4. /\ Favourite(c.kex, v.kex, x.kex) /\ x.kex \in Names(c.kex) /\ x.kex \in Names(v.kex)
  BY <1>2, <1>3, ChooseIsFavourite
<1>5. /\ Favourite(c.host_keys, v.host_keys, x.host_key_algo)
      /\ x.host_key_algo \in Names(c.host_keys) /\ x.host_key_algo \in Names(v.host_keys)
  BY <1>2, <1>3, ChooseIsFavourite
<1>6. /\ Favourite(c.enc_c2s, v.enc_c2s, x.cipher_c2s)
      /\ x.cipher_c2s \in Names(c.enc_c2s) /\ x.cipher_c2s \in Names(v.enc_c2s)
  BY <1>2, <1>3, ChooseIsFavourite
<1>7. /\ Favourite(c.enc_s2c, v.enc_s2c, x.cipher_s2c)
      /\ x.cipher_s2c \in Names(c.enc_s2c) /\ x.cipher_s2c \in Names(v.enc_s2c)
  BY <1>2, <1>3, ChooseIsFavourite
<1>8. /\ Names(c.comp_c2s) \cap Names(v.comp_c2s) # {}
      /\ Names(c.comp_s2c) \cap Names(v.comp_s2c) # {}
  <2>1. \A list, other : IsList(list) /\ choose(list, other) # {} =>
            Names(list) \cap Names(other) # {}
    BY ChooseIsFavourite
  <2> QED  BY <1>2, <1>3, <2>1
<1> QED  BY <1>1, <1>3, <1>4, <1>5, <1>6, <1>7, <1>8

-----------------------------------------------------------------------------
(* The inductive invariant of Wire, whatever is altered under way.          *)

Phases == {"start", "ident", "hello", "kexinit", "discard", "exchange", "reply",
           "newkeys", "open", "failed"}
Errors == {"none", "ident", "length", "open", "eof", "negotiation", "unexpected", "hostkey"}
\* What a side may take for its peer's KEXINIT.
AllOffers == {h[s].offer : h \in Hellos, s \in Side} \cup Misread
Shares == KexNames \cup {Head(h[s].offer.kex) : h \in Hellos, s \in Side}
Hashes == [client : SUBSET AllOffers, server : SUBSET AllOffers, share : {"own", "altered"}]
Messages ==
    {KexInit(o) : o \in AllOffers}
    \cup {[EcdhInit(k) EXCEPT !.share = z] : k \in Shares, z \in {"own", "altered"}}
    \cup {EcdhReply(t) : t \in Hashes}
    \cup {Plainly(k) : k \in {"newkeys", "other"}}
    \cup {Data(i, n) : i \in Nat, n \in Sizes}
Packets == [m : Messages, alg : Framings, nonce : Nat, pad : Nat, len : Nat,
            bad : {"none", "length", "body"}]
Items == LineKinds \cup Packets
Ciphers == [alg : Framings, seq : Nat, iv : Nat]
ReadStates == [at : {"idle", "header", "body"}, got : Nat, need : Nat]

TypeOK ==
    /\ hello \in Hellos
    /\ phase \in [Side -> Phases]
    /\ lines \in [Side -> Nat] /\ total \in [Side -> Nat] /\ why \in [Side -> Errors]
    /\ tx \in [Side -> Ciphers] /\ rx \in [Side -> Ciphers]
    /\ net \in [Side -> Seq(Items)] /\ off \in [Side -> Nat]
    /\ read_state \in [Side -> ReadStates]
    /\ heard \in [Side -> SUBSET AllOffers] /\ DOMAIN neg = Side
    /\ sent \in [Side -> Seq(Messages)] /\ got \in [Side -> Seq(Messages)]

\* Who has negotiated has heard one KEXINIT, if not always the peer's, and
\* negotiated from it.  A client that has switched keys has seen a signature over
\* what both sides sent: both have heard the other.  A server reads no packet
\* under a new key before that.
NegotiatedFrom(s, o) == heard[s] = {o} /\ neg[s] = negotiate(s, hello[s].offer, o)
NegInv ==
    /\ \A s \in Side :
          /\ neg[s] # {} => \E o \in AllOffers : NegotiatedFrom(s, o)
          /\ phase[s] \in {"start", "ident", "hello", "kexinit"} => neg[s] = {} /\ heard[s] = {}
          /\ phase[s] \in {"discard", "exchange", "reply", "newkeys", "open"} => neg[s] # {}
          /\ tx["client"].alg # "plain" => neg[s] # {} /\ heard[s] = {hello[Other(s)].offer}
    /\ rx["server"].alg # "plain" => tx["client"].alg # "plain"

\* The nonces of the negotiated ciphers count the data packets, and a packet
\* under such a cipher is the one its nonce says.
Counts(c, q) == IF c.alg = "plain" THEN q = <<>> ELSE Nonce(c) = Len(q)
CipherInv ==
    \A s \in Side :
        /\ Counts(tx[s], sent[s]) /\ Counts(rx[s], got[s])
        /\ phase[s] # "failed" => (tx[s].alg = "plain" <=> phase[s] \notin {"newkeys", "open"})
        /\ phase[s] # "failed" => (rx[s].alg = "plain" <=> phase[s] # "open")

\* What a line or packet x under way says about its sender, who started with h,
\* knows g and was given the payloads q; x is the n-th item if it is a line.  A
\* line is the sender's n-th.  Who replies has negotiated, and what it signed is
\* the KEXINIT it heard and its own; who sends NEWKEYS has switched.  A packet
\* under a negotiated cipher is the payload its nonce counts.
Known(s) == [neg |-> neg[s], heard |-> heard[s], alg |-> tx[s].alg]
Learns(g, g2) ==
    /\ g.neg # {} => g2.neg # {} /\ g2.heard = g.heard
    /\ g.alg # "plain" => g2.alg # "plain"
FineLine(x, n, h) == n \in 1..Len(h.lines) /\ x = h.lines[n]
FinePacket(x, h, g, q) ==
    /\ x.m.kind = "ecdh_reply" =>
          /\ g.neg # {}
          /\ x.m.signed.share = "own" =>
                x.m.signed.client = g.heard /\ x.m.signed.server = {h.offer}
    /\ x.m.kind = "newkeys" => g.alg # "plain"
    /\ (x.alg # "plain" /\ x.bad = "none") => x.nonce < Len(q) /\ x.m = q[x.nonce + 1]
Fine(x, n, h, g, q) == IF IsLine(x) THEN FineLine(x, n, h) ELSE FinePacket(x, h, g, q)
ItemInv ==
    \A s \in Side : \A i \in DOMAIN net[s] :
        Fine(net[s][i], lines[s] + i, hello[Other(s)], Known(Other(s)), sent[Other(s)])

EndOf(q, n) == IF n = 0 THEN 0 ELSE q[n].end
BeginInv ==
    \A s \in Side :
        /\ phase[Other(s)] = "start" => net[s] = <<>> /\ lines[s] = 0
        /\ why[s] = "ident" => ~GoodHello(Other(s))
        /\ total[s] = EndOf(hello[Other(s)].lines, lines[s])

\* Lines come before packets, and who reads a packet reads the first.
Ordered(q) == \A i, j \in DOMAIN q : i < j /\ ~IsLine(q[i]) => ~IsLine(q[j])
OrderInv ==
    \A s \in Side :
        /\ Ordered(net[s])
        /\ read_state[s].at # "idle" => PacketThere(s)

IInv == /\ TypeOK /\ NegInv /\ CipherInv /\ ItemInv /\ BeginInv /\ OrderInv
        /\ Reassembled

-----------------------------------------------------------------------------
(* Packets and lines.                                                      *)

\* Two sides, each the other's.
LEMMA Sides ==
    /\ "client" \in Side /\ "server" \in Side
    /\ Other("client") = "server" /\ Other("server") = "client"
    /\ \A s \in Side : Other(s) \in Side /\ Other(s) # s /\ Other(Other(s)) = s
    /\ \A s, r \in Side : r = s \/ r = Other(s)
BY DEF Side, Other

\* What is under way is a line or a packet.
LEMMA ItemKinds ==
    /\ \A x \in LineKinds : IsLine(x)
    /\ \A x \in Packets : ~IsLine(x)
    /\ \A x \in Items : (~IsLine(x) => x \in Packets) /\ (IsLine(x) => x \in LineKinds)
<1>1. \A x \in LineKinds : IsLine(x)
  BY DEF LineKinds, IsLine
<1>2. \A x \in Packets : ~IsLine(x)
  BY DEF Packets, IsLine
<1> QED  BY <1>1, <1>2 DEF Items

\* Every message has a length.
LEMMA MessageSizes ==
    /\ \A m \in Messages : m.n \in Nat /\ (m.n = 1 \/ \E i \in Nat, n \in Sizes : m = Data(i, n))
    /\ \A m \in Messages : m.kind = "kexinit" => m.offer \in AllOffers
    /\ \A m \in Messages : m.kind = "ecdh_init" => m.share \in {"own", "altered"}
    /\ \A m \in Messages : m.kind = "ecdh_reply" => m.signed \in Hashes
<1> SUFFICES ASSUME NEW m \in Messages
             PROVE  /\ m.n \in Nat /\ (m.n = 1 \/ \E i \in Nat, n \in Sizes : m = Data(i, n))
                    /\ m.kind = "kexinit" => m.offer \in AllOffers
                    /\ m.kind = "ecdh_init" => m.share \in {"own", "altered"}
                    /\ m.kind = "ecdh_reply" => m.signed \in Hashes
  OBVIOUS
<1>1. CASE \E o \in AllOffers : m = KexInit(o)
  BY <1>1 DEF KexInit
<1>2. CASE \E k \in Shares, z \in {"own", "altered"} : m = [EcdhInit(k) EXCEPT !.share = z]
  BY <1>2 DEF EcdhInit
<1>3. CASE \E t \in Hashes : m = EcdhReply(t)
  BY <1>3 DEF EcdhReply
<1>4. CASE \E k \in {"newkeys", "other"} : m = Plainly(k)
  BY <1>4 DEF Plainly
<1>5. CASE \E i \in Nat, n \in Sizes : m = Data(i, n)
  <2>1. PICK i \in Nat, n \in Sizes : m = Data(i, n)
    BY <1>5
  <2> QED  BY <2>1, WireAssumption DEF Data
<1> QED  BY <1>1, <1>2, <1>3, <1>4, <1>5 DEF Messages

\* The messages a side makes.
LEMMA OwnMessages ==
    /\ \A o \in AllOffers : KexInit(o) \in Messages
    /\ \A k \in Shares : EcdhInit(k) \in Messages
    /\ \A t \in Hashes : EcdhReply(t) \in Messages
    /\ Plainly("newkeys") \in Messages /\ Plainly("other") \in Messages
    /\ \A h \in Hellos : \A s \in Side : h[s].offer \in AllOffers
<1>1. \A k : EcdhInit(k) = [EcdhInit(k) EXCEPT !.share = "own"]
  BY DEF EcdhInit
<1>2. \A k \in Shares : EcdhInit(k) \in Messages
  BY <1>1 DEF Messages
<1> QED  BY <1>2 DEF Messages, AllOffers

\* A nonce counts the packets under a negotiated cipher.
LEMMA CipherMoves ==
    ASSUME NEW c \in Ciphers
    PROVE  /\ c.alg \in Framings /\ Nonce(c) \in Nat
           /\ \A k \in Nat : /\ After(c, k) \in Ciphers /\ After(c, k).alg = c.alg
                             /\ c.alg # "plain" => Nonce(After(c, k)) = Nonce(c) + k
                             /\ c.alg = "plain" => Nonce(After(c, k)) = 0
<1>1. c.alg \in Framings /\ c.seq \in Nat /\ c.iv \in Nat
  BY DEF Ciphers
<1>2. Nonce(c) \in Nat
  BY <1>1 DEF Nonce, Framings, Algorithms
<1>3. ASSUME NEW k \in Nat
      PROVE  /\ After(c, k) \in Ciphers /\ After(c, k).alg = c.alg
             /\ After(c, k).seq = c.seq + k
             /\ After(c, k).iv = (IF c.alg = "gcm" THEN c.iv + k ELSE c.iv)
  BY <1>1 DEF After, Ciphers
<1>4. ASSUME NEW k \in Nat
      PROVE  /\ c.alg # "plain" => Nonce(After(c, k)) = Nonce(c) + k
             /\ c.alg = "plain" => Nonce(After(c, k)) = 0
  BY <1>1, <1>3 DEF Nonce, Framings, Algorithms
<1> QED  BY <1>1, <1>2, <1>3, <1>4

\* A cipher starts at nonce zero.
LEMMA FreshCiphers ==
    /\ PlainCipher \in Ciphers /\ PlainCipher.alg = "plain"
    /\ \A a \in Algorithms : make(a) \in Ciphers /\ make(a).alg = a /\ a # "plain"
                             /\ Nonce(make(a)) = 0
BY DEF PlainCipher, make, Ciphers, Framings, Algorithms, Nonce

\* What seal puts under way is a sound packet of its message.
LEMMA SealType ==
    ASSUME NEW c \in Ciphers, NEW m \in Messages
    PROVE  /\ seal(c, m) \in Packets
           /\ seal(c, m).m = m /\ seal(c, m).alg = c.alg /\ seal(c, m).bad = "none"
           /\ seal(c, m).nonce = Nonce(c)
<1>1. m.n \in Nat
  BY MessageSizes
<1>2. c.alg \in Framings /\ Nonce(c) \in Nat
  BY CipherMoves
<1>3. Pad(c.alg, m.n) \in Nat
  BY <1>1, <1>2, Padding
<1>4. PacketLength(c.alg, m.n) \in Nat
  BY <1>1, <1>3 DEF PacketLength
<1> QED  BY <1>2, <1>3, <1>4 DEF seal, Packets

\* A batch of messages sealed: packets under one cipher, in their order.
LEMMA SealedType ==
    ASSUME NEW c \in Ciphers, NEW ms \in Seq(Messages)
    PROVE  /\ Sealed(c, ms) \in Seq(Packets) /\ Len(Sealed(c, ms)) = Len(ms)
           /\ \A i \in 1..Len(ms) :
                 /\ Sealed(c, ms)[i] \in Packets
                 /\ Sealed(c, ms)[i].m = ms[i] /\ Sealed(c, ms)[i].alg = c.alg
                 /\ Sealed(c, ms)[i].bad = "none"
                 /\ c.alg # "plain" => Sealed(c, ms)[i].nonce = Nonce(c) + i - 1
                 /\ Sealed(c, ms)[i] = seal(After(c, i - 1), ms[i])
<1>1. ASSUME NEW i \in 1..Len(ms)
      PROVE  /\ seal(After(c, i - 1), ms[i]) \in Packets
             /\ seal(After(c, i - 1), ms[i]).m = ms[i]
             /\ seal(After(c, i - 1), ms[i]).alg = c.alg
             /\ seal(After(c, i - 1), ms[i]).bad = "none"
             /\ c.alg # "plain" => seal(After(c, i - 1), ms[i]).nonce = Nonce(c) + i - 1
  <2>1. i - 1 \in Nat /\ ms[i] \in Messages
    OBVIOUS
  <2>2. /\ After(c, i - 1) \in Ciphers /\ After(c, i - 1).alg = c.alg
        /\ c.alg # "plain" => Nonce(After(c, i - 1)) = Nonce(c) + (i - 1)
    BY <2>1, CipherMoves
  <2>3. Nonce(c) \in Nat
    BY CipherMoves
  <2> QED  BY <2>1, <2>2, <2>3, SealType
<1>2. Sealed(c, ms) = [i \in 1..Len(ms) |-> seal(After(c, i - 1), ms[i])]
  BY DEF Sealed
<1>3. Len(ms) \in Nat
  OBVIOUS
<1>4. Sealed(c, ms) \in Seq(Packets) /\ Len(Sealed(c, ms)) = Len(ms)
  BY <1>1, <1>2, <1>3
<1> QED  BY <1>1, <1>2, <1>4

-----------------------------------------------------------------------------
(* What a step does to the items under way.                                *)

\* A sender's knowledge only grows.
Grows ==
    /\ hello' = hello
    /\ \A r \in Side : Learns(Known(r), Known(r)')
    /\ \A r \in Side : /\ Len(sent[r]) <= Len(sent'[r])
                       /\ \A k \in 1..Len(sent[r]) : sent'[r][k] = sent[r][k]

\* An item under way stays what it should be while its receiver reads lines
\* and its sender sends more.
LEMMA StaysFine ==
    ASSUME NEW x \in Items, NEW n \in Int, NEW n2 \in Int, IsLine(x) => n2 = n, NEW h,
           NEW g, NEW g2, Learns(g, g2),
           NEW q \in Seq(Messages), NEW q2 \in Seq(Messages), Len(q) <= Len(q2),
           \A k \in 1..Len(q) : q2[k] = q[k],
           Fine(x, n, h, g, q)
    PROVE  Fine(x, n2, h, g2, q2)
<1>1. CASE IsLine(x)
  BY <1>1 DEF Fine
<1>2. CASE ~IsLine(x)
  <2>1. x.nonce \in Nat
    BY <1>2, ItemKinds DEF Packets
  <2>2. x.nonce < Len(q) => x.nonce + 1 \in 1..Len(q) /\ x.nonce < Len(q2)
    BY <2>1
  <2> QED  BY <1>2, <2>1, <2>2 DEF Fine, FinePacket, Learns
<1> QED  BY <1>1, <1>2

\* Every item under way after a step was there before it, further back or with a
\* larger count of lines before it, or is a fine new one.
LEMMA ItemsKept ==
    ASSUME TypeOK, TypeOK', ItemInv, Grows,
           \A s \in Side : \A i \in DOMAIN net'[s] :
              \/ \E j \in DOMAIN net[s] :
                    net'[s][i] = net[s][j] /\ (IsLine(net[s][j]) => lines'[s] + i = lines[s] + j)
              \/ Fine(net'[s][i], lines'[s] + i, hello'[Other(s)], Known(Other(s))',
                      sent'[Other(s)])
    PROVE  ItemInv'
<1> SUFFICES ASSUME NEW s \in Side, NEW i \in DOMAIN net'[s], NEW j \in DOMAIN net[s],
                    net'[s][i] = net[s][j], IsLine(net[s][j]) => lines'[s] + i = lines[s] + j
             PROVE  Fine(net'[s][i], lines'[s] + i, hello'[Other(s)], Known(Other(s))',
                         sent'[Other(s)])
  BY DEF ItemInv
<1> DEFINE r == Other(s)
<1>1. r \in Side
  BY Sides
<1>2. net[s] \in Seq(Items) /\ net'[s] \in Seq(Items) /\ lines[s] \in Nat /\ lines'[s] \in Nat
  BY DEF TypeOK
<1>3. net[s][j] \in Items /\ i \in Int /\ j \in Int
  BY <1>2
<1>4. hello'[r] = hello[r]
  BY <1>1 DEF Grows
<1>5. sent[r] \in Seq(Messages) /\ sent'[r] \in Seq(Messages)
  BY <1>1 DEF TypeOK
<1>6. /\ Learns(Known(r), Known(r)')
      /\ Len(sent[r]) <= Len(sent'[r])
      /\ \A k \in 1..Len(sent[r]) : sent'[r][k] = sent[r][k]
  BY <1>1 DEF Grows
<1>7. Fine(net[s][j], lines[s] + j, hello[r], Known(r), sent[r])
  BY DEF ItemInv
<1>8. lines[s] + j \in Int /\ lines'[s] + i \in Int
  BY <1>2, <1>3
<1> HIDE DEF r
<1>9. Fine(net[s][j], lines'[s] + i, hello[r], Known(r)', sent'[r])
  BY <1>3, <1>5, <1>6, <1>7, <1>8, StaysFine
<1> QED  BY <1>4, <1>9 DEF r

\* A queue with one element more.
LEMMA OneMore ==
    ASSUME NEW S, NEW q \in Seq(S), NEW x \in S
    PROVE  /\ q \o <<x>> \in Seq(S) /\ Len(q \o <<x>>) = Len(q) + 1
           /\ (q \o <<x>>)[Len(q) + 1] = x
           /\ \A i \in 1..Len(q) : (q \o <<x>>)[i] = q[i]
OBVIOUS

\* A queue without its first element.
LEMMA TailItems ==
    ASSUME NEW S, NEW q \in Seq(S), q # <<>>
    PROVE  /\ Tail(q) \in Seq(S) /\ Len(Tail(q)) = Len(q) - 1
           /\ \A i \in DOMAIN Tail(q) :
                 i \in Int /\ i + 1 \in DOMAIN q /\ Tail(q)[i] = q[i + 1]
OBVIOUS

\* Behind a packet are packets.
LEMMA NoLineBehind ==
    ASSUME NEW q \in Seq(Items), q # <<>>, Ordered(q), ~IsLine(Head(q))
    PROVE  \A i \in DOMAIN Tail(q) : ~IsLine(Tail(q)[i])
<1> SUFFICES ASSUME NEW i \in DOMAIN Tail(q) PROVE ~IsLine(Tail(q)[i])
  OBVIOUS
<1>1. i \in Int /\ i + 1 \in DOMAIN q /\ Tail(q)[i] = q[i + 1] /\ i \in 1..Len(Tail(q))
  BY TailItems
<1>2. Head(q) = q[1] /\ 1 \in DOMAIN q /\ 1 < i + 1
  BY <1>1
<1> QED  BY <1>1, <1>2 DEF Ordered

\* The first item is taken.
LEMMA TakeKeepsItems ==
    ASSUME TypeOK, TypeOK', ItemInv, Grows, NEW s \in Side, net[s] # <<>>,
           net' = [net EXCEPT ![s] = Tail(@)], lines'[Other(s)] = lines[Other(s)],
           lines'[s] = lines[s] + 1 \/ (Ordered(net[s]) /\ ~IsLine(Head(net[s])))
    PROVE  ItemInv'
<1>1. ASSUME NEW r \in Side, NEW i \in DOMAIN net'[r]
      PROVE  \E j \in DOMAIN net[r] :
                net'[r][i] = net[r][j] /\ (IsLine(net[r][j]) => lines'[r] + i = lines[r] + j)
  <2>0. net[r] \in Seq(Items) /\ lines[r] \in Nat /\ lines'[r] \in Nat
    BY DEF TypeOK
  <2>1. CASE r = s
    <3>1. net'[r] = Tail(net[r]) /\ net[r] # <<>>
      BY <2>1 DEF TypeOK
    <3>2. i + 1 \in DOMAIN net[r] /\ net'[r][i] = net[r][i + 1] /\ i \in Int
      BY <2>0, <3>1, TailItems
    <3>3. CASE lines'[r] = lines[r] + 1
      <4>0. \A a, b, c \in Int : b = a + 1 => b + c = a + (c + 1)
        OBVIOUS
      <4>1. PICK a \in Nat, b \in Nat : a = lines[r] /\ b = lines'[r]
        BY <2>0
      <4>2. b = a + 1
        BY <3>3, <4>1
      <4>4. i \in Int /\ a \in Int /\ b \in Int
        BY <3>2, <4>1
      <4>5. b + i = a + (i + 1)
        BY <4>0, <4>2, <4>4
      <4>3. lines'[r] + i = lines[r] + (i + 1)
        BY <4>1, <4>5
      <4> QED  BY <3>2, <4>3
    <3>4. CASE Ordered(net[r]) /\ ~IsLine(Head(net[r]))
      <4>1. ~IsLine(net'[r][i])
        BY <2>0, <3>1, <3>4, NoLineBehind
      <4> QED  BY <3>2, <4>1
    <3> QED  BY <2>1, <3>3, <3>4
  <2>2. CASE r = Other(s)
    <3>1. net'[r] = net[r] /\ lines'[r] = lines[r]
      BY <2>2, Sides DEF TypeOK
    <3> QED  BY <3>1
  <2> QED  BY <2>1, <2>2, Sides
<1> QED  BY <1>1, ItemsKept

\* Nothing is sent or taken.
LEMMA QuietKeepsItems ==
    ASSUME TypeOK, TypeOK', ItemInv, Grows, net' = net, lines' = lines
    PROVE  ItemInv'
BY ItemsKept

\* A side sends packets, perhaps having taken one.
LEMMA SendKeepsItems ==
    ASSUME TypeOK, TypeOK', ItemInv, Grows, NEW s \in Side, lines' = lines, Ordered(net[s]),
           NEW q \in Seq(Packets), net'[Other(s)] = net[Other(s)] \o q,
           \/ net'[s] = net[s]
           \/ net[s] # <<>> /\ ~IsLine(Head(net[s])) /\ net'[s] = Tail(net[s]),
           \A k \in 1..Len(q) : FinePacket(q[k], hello[s], Known(s)', sent'[s])
    PROVE  ItemInv'
<1>1. ASSUME NEW i \in DOMAIN net'[s]
      PROVE  \E j \in DOMAIN net[s] :
                net'[s][i] = net[s][j] /\ (IsLine(net[s][j]) => lines'[s] + i = lines[s] + j)
  <2>1. net[s] \in Seq(Items)
    BY DEF TypeOK
  <2>2. CASE net'[s] = net[s]
    BY <2>2
  <2>3. CASE net[s] # <<>> /\ ~IsLine(Head(net[s])) /\ net'[s] = Tail(net[s])
    <3>1. i + 1 \in DOMAIN net[s] /\ net'[s][i] = net[s][i + 1]
      BY <2>1, <2>3, TailItems
    <3>2. ~IsLine(net'[s][i])
      BY <2>1, <2>3, NoLineBehind
    <3> QED  BY <3>1, <3>2
  <2> QED  BY <2>2, <2>3
<1>2. ASSUME NEW i \in DOMAIN net'[Other(s)]
      PROVE  \/ \E j \in DOMAIN net[Other(s)] :
                   net'[Other(s)][i] = net[Other(s)][j]
                   /\ (IsLine(net[Other(s)][j]) =>
                          lines'[Other(s)] + i = lines[Other(s)] + j)
             \/ Fine(net'[Other(s)][i], lines'[Other(s)] + i, hello'[s], Known(s)', sent'[s])
  <2> DEFINE r == Other(s)
  <2>1. net[r] \in Seq(Items) /\ lines[r] \in Nat
    BY Sides DEF TypeOK
  <2> HIDE DEF r
  <2>2. net'[r] = net[r] \o q
    BY DEF r
  <2>3. q \in Seq(Items)
    BY DEF Items
  <2>4. DOMAIN net'[r] = 1..(Len(net[r]) + Len(q)) /\ DOMAIN net[r] = 1..Len(net[r])
    BY <2>1, <2>2, <2>3
  <2>5. CASE i \in 1..Len(net[r])
    <3>1. net'[r][i] = net[r][i] /\ i \in DOMAIN net[r] /\ i \in Int
      BY <2>1, <2>2, <2>3, <2>4, <2>5
    <3> QED  BY <3>1, <2>1 DEF r
  <2>6. CASE i \notin 1..Len(net[r])
    <3>1. i - Len(net[r]) \in 1..Len(q) /\ net'[r][i] = q[i - Len(net[r])]
      BY <2>1, <2>2, <2>3, <2>4, <2>6 DEF r
    <3>2. q[i - Len(net[r])] \in Packets
      BY <3>1
    <3>3. ~IsLine(net'[r][i]) /\ FinePacket(net'[r][i], hello[s], Known(s)', sent'[s])
      BY <3>1, <3>2, ItemKinds
    <3> QED  BY <3>3 DEF r, Fine, Grows
  <2> QED  BY <2>5, <2>6
<1>3. ASSUME NEW r \in Side, NEW i \in DOMAIN net'[r]
      PROVE  \/ \E j \in DOMAIN net[r] :
                   net'[r][i] = net[r][j] /\ (IsLine(net[r][j]) => lines'[r] + i = lines[r] + j)
             \/ Fine(net'[r][i], lines'[r] + i, hello'[Other(r)], Known(Other(r))',
                     sent'[Other(r)])
  <2>1. CASE r = s
    BY <1>1, <2>1
  <2>2. CASE r = Other(s)
    <3>1. Other(r) = s
      BY <2>2, Sides
    <3> QED  BY <1>2, <2>2, <3>1
  <2> QED  BY <2>1, <2>2, Sides
<1> QED  BY <1>3, ItemsKept

\* Lines still come before packets once the first is taken.
LEMMA TailOrdered ==
    ASSUME NEW q \in Seq(Items), q # <<>>, Ordered(q)
    PROVE  Ordered(Tail(q))
<1> SUFFICES ASSUME NEW i \in DOMAIN Tail(q), NEW j \in DOMAIN Tail(q), i < j,
                    ~IsLine(Tail(q)[i])
             PROVE  ~IsLine(Tail(q)[j])
  BY DEF Ordered
<1>1. /\ i \in Int /\ i + 1 \in DOMAIN q /\ Tail(q)[i] = q[i + 1]
      /\ j \in Int /\ j + 1 \in DOMAIN q /\ Tail(q)[j] = q[j + 1]
  BY TailItems
<1> QED  BY <1>1 DEF Ordered

\* Lines still come before packets once packets are added.
LEMMA SendOrdered ==
    ASSUME NEW q \in Seq(Items), NEW ps \in Seq(Packets), Ordered(q)
    PROVE  /\ Ordered(q \o ps) /\ q \o ps \in Seq(Items)
           /\ q # <<>> => q \o ps # <<>> /\ Head(q \o ps) = Head(q)
<1>1. ps \in Seq(Items)
  BY DEF Items
<1>2. /\ q \o ps \in Seq(Items) /\ Len(q \o ps) = Len(q) + Len(ps)
      /\ \A i \in 1..Len(q) : (q \o ps)[i] = q[i]
      /\ \A i \in 1..(Len(q) + Len(ps)) : i \notin 1..Len(q) =>
            i - Len(q) \in 1..Len(ps) /\ (q \o ps)[i] = ps[i - Len(q)]
  BY <1>1
<1>3. \A i \in 1..(Len(q) + Len(ps)) : i \notin 1..Len(q) => ~IsLine((q \o ps)[i])
  BY <1>2, ItemKinds
<1>4. ASSUME NEW i \in 1..(Len(q) + Len(ps)), NEW j \in 1..(Len(q) + Len(ps)), i < j,
             ~IsLine((q \o ps)[i])
      PROVE  ~IsLine((q \o ps)[j])
  <2>1. CASE j \in 1..Len(q)
    <3>1. i \in 1..Len(q)
      BY <1>4, <2>1
    <3> QED  BY <1>2, <1>4, <2>1, <3>1 DEF Ordered
  <2> QED  BY <1>3, <2>1
<1>5. DOMAIN (q \o ps) = 1..(Len(q) + Len(ps))
  BY <1>2
<1>6. Ordered(q \o ps)
  BY <1>4, <1>5 DEF Ordered
<1>7. q # <<>> => q \o ps # <<>> /\ Head(q \o ps) = Head(q)
  BY <1>1
<1> QED  BY <1>2, <1>6, <1>7

\* A packet whose payload, or part of it, was spoiled says no more than before.
LEMMA SpoiltStaysFine ==
    ASSUME NEW x \in Packets, NEW part \in {"length", "body"}, NEW h, NEW g, NEW q,
           FinePacket(x, h, g, q)
    PROVE  /\ Damaged(x, part) \in Packets /\ FinePacket(Damaged(x, part), h, g, q)
           /\ \A y \in Alterations(x, part) : y \in Packets /\ FinePacket(y, h, g, q)
<1>1. /\ Damaged(x, part) \in Packets /\ Damaged(x, part).bad = part
      /\ Damaged(x, part).m = x.m
  BY DEF Damaged, Packets
<1>2. FinePacket(Damaged(x, part), h, g, q)
  BY <1>1 DEF FinePacket
<1>3. CASE part = "body" /\ x.alg = "plain"
  <2> SUFFICES ASSUME NEW m \in Misreadings(x.m), NEW y, y = [x EXCEPT !.m = m]
               PROVE  y \in Packets /\ FinePacket(y, h, g, q)
    BY <1>1, <1>2, <1>3 DEF Alterations
  <2>0. x.m \in Messages
    BY DEF Packets
  <2>1. /\ m \in Messages /\ m.kind # "newkeys"
        /\ m.kind = "ecdh_reply" => x.m.kind = "ecdh_reply" /\ m.signed.share = "altered"
    <3>1. CASE m = Plainly("other")
      BY <3>1, OwnMessages DEF Plainly
    <3>2. CASE x.m.kind = "kexinit" /\ \E o \in Misread : m = KexInit(o)
      BY <3>2, OwnMessages DEF KexInit, AllOffers
    <3>3. CASE x.m.kind = "ecdh_init" /\ m = [x.m EXCEPT !.share = "altered"]
      <4>1. PICK k \in Shares, z \in {"own", "altered"} : x.m = [EcdhInit(k) EXCEPT !.share = z]
        BY <2>0, <3>3 DEF Messages, KexInit, EcdhReply, Plainly, Data
      <4>2. m = [EcdhInit(k) EXCEPT !.share = "altered"] /\ m.kind = "ecdh_init"
        BY <3>3, <4>1 DEF EcdhInit
      <4> QED  BY <4>2 DEF Messages
    <3>4. CASE x.m.kind = "ecdh_reply"
               /\ m = EcdhReply([x.m.signed EXCEPT !.share = "altered"])
      <4>1. x.m.signed \in Hashes
        BY <2>0, <3>4, MessageSizes
      <4>2. PICK t : t = [x.m.signed EXCEPT !.share = "altered"]
        OBVIOUS
      <4>3. t \in Hashes /\ t.share = "altered"
        BY <4>1, <4>2 DEF Hashes
      <4>4. m = EcdhReply(t) /\ m.kind = "ecdh_reply" /\ m.signed = t
        BY <3>4, <4>2 DEF EcdhReply
      <4> QED  BY <3>4, <4>3, <4>4, OwnMessages
    <3> QED  BY <3>1, <3>2, <3>3, <3>4 DEF Misreadings
  <2>2. y \in Packets /\ y.m = m /\ y.alg = "plain"
    BY <1>3, <2>1 DEF Packets
  <2> QED  BY <2>1, <2>2 DEF FinePacket
<1>4. CASE ~(part = "body" /\ x.alg = "plain")
  BY <1>1, <1>2, <1>4 DEF Alterations
<1> QED  BY <1>1, <1>2, <1>3, <1>4

-----------------------------------------------------------------------------
(* Every step keeps the invariant.                                         *)

\* Who has opened a packet has one, in the state of its cipher.
LEMMA OpenedPacket ==
    ASSUME IInv, NEW s \in Side, Opened(s)
    PROVE  /\ net[s] # <<>> /\ net[s] \in Seq(Items) /\ Packet(s) \in Packets
           /\ Packet(s).bad = "none" /\ Returned(s) = Packet(s).m /\ Packet(s).m \in Messages
           /\ rx[s].alg = Packet(s).alg /\ Nonce(rx[s]) = Packet(s).nonce
           /\ FinePacket(Packet(s), hello[Other(s)], Known(Other(s)), sent[Other(s)])
           /\ Ordered(net[s]) /\ ~IsLine(Head(net[s]))
<1>1. PacketThere(s) /\ net[s] \in Seq(Items)
  BY DEF IInv, TypeOK, OrderInv, Opened, BodyRead
<1>2. /\ net[s] # <<>> /\ ~IsLine(Packet(s)) /\ Packet(s) \in Items /\ Packet(s) = net[s][1]
      /\ 1 \in DOMAIN net[s]
  BY <1>1 DEF PacketThere, Packet
<1>3. Packet(s) \in Packets
  BY <1>2, ItemKinds
<1>4. FinePacket(Packet(s), hello[Other(s)], Known(Other(s)), sent[Other(s)])
  BY <1>2 DEF IInv, ItemInv, Fine
<1>5. Ordered(net[s]) /\ ~IsLine(Head(net[s]))
  BY <1>1 DEF IInv, OrderInv, PacketThere
<1> QED  BY <1>1, <1>2, <1>3, <1>4, <1>5 DEF Opened, Opens, Matches, Returned, Packets

\* A side negotiates only once.
Settling(r) ==
    \/ phase'[r] = phase[r] \/ phase'[r] = "failed"
    \/ neg[r] # {} /\ phase'[r] \notin {"start", "ident", "hello", "kexinit"}
    \/ /\ phase'[r] \in {"ident", "hello", "kexinit"}
       /\ phase[r] \in {"start", "ident", "hello", "kexinit"}

\* Steps that neither negotiate nor switch the client's sending key.
LEMMA NegKept ==
    ASSUME NegInv, UNCHANGED <<hello, neg, heard>>,
           tx'["client"].alg = tx["client"].alg,
           rx'["server"].alg # "plain" => tx["client"].alg # "plain",
           \A r \in Side : Settling(r)
    PROVE  NegInv'
<1>1. ASSUME NEW r \in Side
      PROVE  /\ neg'[r] # {} => \E o \in AllOffers : NegotiatedFrom(r, o)'
             /\ phase'[r] \in {"start", "ident", "hello", "kexinit"} => neg'[r] = {} /\ heard'[r] = {}
             /\ phase'[r] \in {"discard", "exchange", "reply", "newkeys", "open"} => neg'[r] # {}
             /\ tx'["client"].alg # "plain" => neg'[r] # {} /\ heard'[r] = {hello'[Other(r)].offer}
  BY DEF NegInv, NegotiatedFrom, Settling
<1> QED  BY <1>1 DEF NegInv

\* A reader that gets no further, or gives up.
LEMMA QuietStep ==
    ASSUME IInv, NEW s \in Side,
           UNCHANGED <<hello, lines, total, tx, rx, net, heard, neg, sent, got>>,
           phase' = phase \/ (phase' = [phase EXCEPT ![s] = "failed"] /\ phase[s] # "start"),
           why' = why \/ (\E e \in {"length", "open", "eof"} : why' = [why EXCEPT ![s] = e]),
           off' \in [Side -> Nat], read_state' \in [Side -> ReadStates],
           \A r \in Side : read_state'[r].at # "idle" =>
                (read_state[r].at # "idle" \/ PacketThere(r))
    PROVE  IInv'
<1> USE DEF IInv
<1>1. /\ phase' \in [Side -> Phases]
      /\ \A r \in Side : phase'[r] = phase[r] \/ (phase'[r] = "failed" /\ phase[r] # "start")
  BY DEF TypeOK, Phases
<1>2. TypeOK'
  <2>1. why' \in [Side -> Errors]
    BY DEF TypeOK, Errors
  <2> QED  BY <1>1, <2>1 DEF TypeOK
<1>3. Grows
  BY DEF Grows, TypeOK, Known, Learns
<1>4. ItemInv'
  BY <1>2, <1>3, QuietKeepsItems
<1>5. NegInv'
  <2>1. rx'["server"].alg # "plain" => tx["client"].alg # "plain"
    BY DEF NegInv
  <2>2. \A r \in Side : Settling(r)
    BY <1>1 DEF Settling
  <2> QED  BY <2>1, <2>2, NegKept
<1>6. CipherInv'
  BY <1>1 DEF CipherInv
<1>7. BeginInv'
  <2>1. \A r \in Side : why'[r] = "ident" => why[r] = "ident"
    BY DEF TypeOK, Errors
  <2> QED  BY <1>1, <2>1, Sides DEF BeginInv, GoodHello
<1>8. OrderInv'
  BY DEF OrderInv, PacketThere
<1> QED  BY <1>2, <1>4, <1>5, <1>6, <1>7, <1>8 DEF Reassembled

\* The packet a side reads, and its size.
LEMMA PacketSizes ==
    ASSUME TypeOK, NEW s \in Side, PacketThere(s)
    PROVE  /\ Packet(s) \in Packets /\ Packet(s) = net[s][1] /\ net[s] \in Seq(Items)
           /\ WireSize(Packet(s)) \in Nat
<1>1. net[s] \in Seq(Items) /\ net[s] # <<>> /\ ~IsLine(Head(net[s]))
  BY DEF TypeOK, PacketThere
<1>2. Packet(s) = net[s][1] /\ Packet(s) \in Items
  BY <1>1 DEF Packet
<1>3. Packet(s) \in Packets
  BY <1>1, <1>2, ItemKinds DEF Packet
<1>4. Packet(s).len \in Nat
  BY <1>3 DEF Packets
<1> QED  BY <1>1, <1>2, <1>3, <1>4 DEF WireSize, body_len, TagLen, TAG_LEN

\* A read of some bytes keeps the invariant.
LEMMA ReadStep ==
    ASSUME IInv, NEW s \in Side, Read(s)
    PROVE  IInv'
<1> USE DEF IInv
<1> DEFINE u == read_state[s]
<1>1. u \in ReadStates /\ off[s] \in Nat /\ u.got \in Nat /\ u.need \in Nat
      /\ u.at \in {"idle", "header", "body"}
  BY DEF TypeOK, ReadStates
<1>2. Want(s) \in Int
  BY <1>1 DEF Want
<1>3. Ready(s) \in Nat
  <2>1. WireSize(Packet(s)) \in Nat
    BY PacketSizes DEF Read
  <2> QED  BY <1>1, <1>2, <2>1 DEF Ready, Read
<1>4. PICK n \in {Ready(s)} \cup (IF read_state[s].got = 0 THEN ReadSizes ELSE {}) :
        /\ read_state' = [read_state EXCEPT ![s] =
                            [at |-> IF @.at = "idle" THEN "header" ELSE @.at,
                             got |-> @.got + n, need |-> @.need]]
        /\ off' = [off EXCEPT ![s] = @ + n]
  BY DEF Read
<1>5. n \in Nat
  BY <1>3, WireAssumption
<1> DEFINE w == [at |-> IF u.at = "idle" THEN "header" ELSE u.at, got |-> u.got + n, need |-> u.need]
<1>6. w \in ReadStates
  BY <1>1, <1>5 DEF ReadStates
<1>7. read_state' = [read_state EXCEPT ![s] = w]
  BY <1>4
<1> HIDE DEF w
<1>8. /\ read_state' \in [Side -> ReadStates] /\ off' \in [Side -> Nat]
      /\ \A r \in Side : r # s => read_state'[r] = read_state[r]
  <2>1. read_state \in [Side -> ReadStates] /\ off \in [Side -> Nat]
    BY DEF TypeOK
  <2>2. off[s] + n \in Nat /\ off' = [off EXCEPT ![s] = off[s] + n]
    BY <1>1, <1>4, <1>5
  <2>3. off' \in [Side -> Nat]
    BY <2>1, <2>2
  <2>4. /\ read_state' \in [Side -> ReadStates]
        /\ \A r \in Side : r # s => read_state'[r] = read_state[r]
    BY <1>6, <1>7, <2>1
  <2> QED  BY <2>3, <2>4
<1>9. PacketThere(s)
  BY DEF Read
<1> QED  BY <1>8, <1>9, QuietStep DEF Read, kexVars, dataVars

\* ReadState::Idle.
LEMMA IdleState == Idle \in ReadStates /\ Idle.at = "idle"
BY DEF Idle, ReadStates

\* A header that passes check_length keeps the invariant.
LEMMA HeaderStep ==
    ASSUME IInv, NEW s \in Side, OnHeader(s)
    PROVE  IInv'
<1> USE DEF IInv
<1>1. read_state[s].at # "idle" /\ phase[s] # "start"
  BY DEF OnHeader, HeaderRead, Reading
<1>2. PacketThere(s)
  BY <1>1 DEF OrderInv
<1>3. Packet(s).len \in Nat /\ rx[s].alg \in Framings
  BY <1>2, PacketSizes DEF Packets, TypeOK, Ciphers
<1>4. ASSUME NEW len \in Nat, ToBody(s, len)
      PROVE  read_state' \in [Side -> ReadStates] /\ UNCHANGED <<phase, why>>
             /\ \A r \in Side : r # s => read_state'[r] = read_state[r]
  <2>1. body_len(rx[s].alg, len) \in Nat
    BY DEF body_len, TagLen, TAG_LEN
  <2> DEFINE w == [at |-> "body", got |-> 0, need |-> body_len(rx[s].alg, len)]
  <2>2. w \in ReadStates
    BY <2>1 DEF ReadStates
  <2>3. read_state' = [read_state EXCEPT ![s] = w]
    BY <1>4 DEF ToBody
  <2> HIDE DEF w
  <2> QED  BY <1>4, <2>2, <2>3 DEF ToBody, TypeOK
<1>5. \A extra \in {0, Align(rx[s].alg)} : Packet(s).len + extra \in Nat
  BY <1>3 DEF Align
<1>6. \/ /\ read_state' \in [Side -> ReadStates] /\ UNCHANGED <<phase, why>>
         /\ \A r \in Side : r # s => read_state'[r] = read_state[r]
      \/ Fail(s, "length") /\ UNCHANGED read_state
  BY <1>3, <1>4, <1>5 DEF OnHeader
<1>7. /\ phase' = phase \/ (phase' = [phase EXCEPT ![s] = "failed"] /\ phase[s] # "start")
      /\ why' = why \/ (\E e \in {"length", "open", "eof"} : why' = [why EXCEPT ![s] = e])
      /\ read_state' \in [Side -> ReadStates]
      /\ \A r \in Side : read_state'[r].at # "idle" => (read_state[r].at # "idle" \/ PacketThere(r))
  BY <1>1, <1>2, <1>6 DEF Fail, Goto, TypeOK
<1>8. UNCHANGED <<hello, lines, total, tx, rx, net, heard, neg, sent, got>> /\ off' \in [Side -> Nat]
  BY DEF OnHeader, kexVars, dataVars, TypeOK
<1> QED  BY <1>7, <1>8, QuietStep

\* Errors and dropped reads keep the invariant.
LEMMA GiveUpSteps ==
    ASSUME IInv, NEW s \in Side,
           OnBadHeader(s) \/ OpenFails(s) \/ OnEof(s) \/ Cancel(s)
    PROVE  IInv'
<1>1. /\ UNCHANGED <<hello, lines, total, tx, rx, net, heard, neg, sent, got>>
      /\ off' = off
      /\ phase' = phase \/ (phase' = [phase EXCEPT ![s] = "failed"] /\ phase[s] # "start")
      /\ why' = why \/ (\E e \in {"length", "open", "eof"} : why' = [why EXCEPT ![s] = e])
      /\ read_state' = read_state \/ read_state' = [read_state EXCEPT ![s] = Idle]
  BY DEF OnBadHeader, OpenFails, OnEof, Cancel, HeaderRead, BodyRead, Reading, Fail, Goto,
         kexVars, dataVars
<1>2. off' \in [Side -> Nat] /\ read_state' \in [Side -> ReadStates]
      /\ \A r \in Side : read_state'[r].at # "idle" => read_state[r].at # "idle"
  <2>1. off \in [Side -> Nat] /\ read_state \in [Side -> ReadStates]
    BY DEF IInv, TypeOK
  <2>2. CASE read_state' = read_state
    BY <1>1, <2>1, <2>2
  <2>3. CASE read_state' = [read_state EXCEPT ![s] = Idle]
    BY <1>1, <2>1, <2>3, IdleState
  <2> QED  BY <1>1, <2>2, <2>3
<1> QED  BY <1>1, <1>2, QuietStep

\* A packet is taken, and nothing is sent: what the phases, the negotiation, the
\* ciphers and the payloads become is left to the caller.
LEMMA TakeStep ==
    ASSUME IInv, NEW s \in Side, Opened(s), Took(s), Grows, UNCHANGED <<lines, total>>,
           net' = [net EXCEPT ![s] = Rest(s)], sent' = sent,
           NEW p \in Phases \ {"start"}, phase' = [phase EXCEPT ![s] = p],
           NEW e \in Errors \ {"ident"}, why' = why \/ why' = [why EXCEPT ![s] = e],
           tx' \in [Side -> Ciphers], rx' \in [Side -> Ciphers], got' \in [Side -> Seq(Messages)],
           heard' \in [Side -> SUBSET AllOffers] /\ DOMAIN neg' = Side
    PROVE  /\ TypeOK' /\ ItemInv' /\ BeginInv' /\ OrderInv'
           /\ phase'[s] = p /\ \A r \in Side : r # s => phase'[r] = phase[r]
<1> USE DEF IInv
<1>1. net[s] # <<>> /\ net[s] \in Seq(Items) /\ Ordered(net[s]) /\ ~IsLine(Head(net[s]))
  BY OpenedPacket
<1>2. Tail(net[s]) \in Seq(Items)
  BY <1>1
<1>3. /\ net' = [net EXCEPT ![s] = Tail(net[s])] /\ net' \in [Side -> Seq(Items)]
      /\ net'[s] = Tail(net[s]) /\ \A r \in Side : r # s => net'[r] = net[r]
  BY <1>2 DEF Rest, TypeOK
<1>4. /\ phase' \in [Side -> Phases] /\ why' \in [Side -> Errors]
      /\ phase'[s] = p /\ \A r \in Side : r # s => phase'[r] = phase[r]
      /\ \A r \in Side : why'[r] = "ident" => why[r] = "ident"
  BY DEF TypeOK
<1>5. /\ off' \in [Side -> Nat] /\ read_state' \in [Side -> ReadStates]
      /\ read_state'[s].at = "idle" /\ \A r \in Side : r # s => read_state'[r] = read_state[r]
  BY IdleState DEF Took, TypeOK
<1>6. TypeOK'
  BY <1>3, <1>4, <1>5 DEF TypeOK, Grows
<1>7. ItemInv'
  BY <1>1, <1>3, <1>6, TakeKeepsItems
<1>8. BeginInv'
  <2>1. ASSUME NEW r \in Side, phase'[Other(r)] = "start"
        PROVE  net'[r] = <<>> /\ lines'[r] = 0
    <3>1. phase[Other(r)] = "start"
      BY <1>4, <2>1, Sides
    <3>2. net[r] = <<>> /\ lines[r] = 0
      BY <3>1 DEF BeginInv
    <3>3. r # s
      BY <1>1, <3>2
    <3> QED  BY <1>3, <3>2, <3>3
  <2>2. ASSUME NEW r \in Side, why'[r] = "ident"
        PROVE  ~GoodHello(Other(r))'
    BY <1>4, <2>2 DEF BeginInv, GoodHello, Grows
  <2>3. \A r \in Side : total'[r] = EndOf(hello'[Other(r)].lines, lines'[r])
    BY DEF BeginInv, Grows
  <2> QED  BY <2>1, <2>2, <2>3 DEF BeginInv
<1>9. OrderInv'
  <2>1. ASSUME NEW r \in Side  PROVE Ordered(net'[r])
    BY <1>1, <1>3, TailOrdered DEF OrderInv
  <2>2. ASSUME NEW r \in Side, read_state'[r].at # "idle"  PROVE PacketThere(r)'
    BY <1>3, <1>5, <2>2 DEF OrderInv, PacketThere
  <2> QED  BY <2>1, <2>2 DEF OrderInv
<1> QED  BY <1>4, <1>6, <1>7, <1>8, <1>9

\* What a side negotiated, and the ciphers it follows from.
LEMMA NegotiatedCiphers ==
    ASSUME TypeOK, NegInv, NEW s \in Side, neg[s] # {}
    PROVE  Negotiated(s) \in neg[s] /\ TxAlg(s) \in Algorithms /\ RxAlg(s) \in Algorithms
           /\ Negotiated(s).kex \in KexNames
<1>1. PICK o \in AllOffers : neg[s] = negotiate(s, hello[s].offer, o)
  BY DEF NegInv, NegotiatedFrom
<1>2. Negotiated(s) \in neg[s] /\ Negotiated(s) \in negotiate(s, hello[s].offer, o)
  BY <1>1 DEF Negotiated
<1>3. IsOffer(hello[s].offer) /\ IsOffer(o)
  BY <1>1, HelloAssumption DEF TypeOK, AllOffers
<1>4. /\ Negotiated(s).kex \in KexNames
      /\ Negotiated(s).cipher_c2s \in Algorithms /\ Negotiated(s).cipher_s2c \in Algorithms
  <2>1. CASE s = "client"
    BY <1>2, <1>3, <2>1, NegotiateFrom
  <2>2. CASE s = "server"
    BY <1>2, <1>3, <2>2, NegotiateFrom
  <2> QED  BY <2>1, <2>2 DEF Side
<1> QED  BY <1>2, <1>4 DEF TxAlg, RxAlg

\* run_kex's negotiation keeps the invariant.
LEMMA KexInitStep ==
    ASSUME IInv, NEW s \in Side, OnKexInit(s)
    PROVE  IInv'
<1> USE DEF IInv
<1>1. Opened(s) /\ phase[s] = "kexinit" /\ Returned(s).kind = "kexinit"
  BY DEF OnKexInit
<1>2. PICK o \in AllOffers : o = Returned(s).offer
  BY <1>1, OpenedPacket, MessageSizes
<1>3. PICK g : g = negotiate(s, hello[s].offer, o)
  OBVIOUS
<1>4. /\ neg' = [neg EXCEPT ![s] = g] /\ heard' = [heard EXCEPT ![s] = {o}]
      /\ DOMAIN neg = Side /\ heard \in [Side -> SUBSET AllOffers]
  BY <1>2, <1>3 DEF OnKexInit, TypeOK
<1>5. /\ neg'[s] = g /\ heard'[s] = {o} /\ DOMAIN neg' = Side
      /\ heard' \in [Side -> SUBSET AllOffers]
      /\ \A r \in Side : r # s => neg'[r] = neg[r] /\ heard'[r] = heard[r]
  BY <1>2, <1>4
<1>6. PICK p \in {"failed", "discard", "exchange"} :
        /\ phase' = [phase EXCEPT ![s] = p]
        /\ neg'[s] = {} => p = "failed"
        /\ why' = why \/ why' = [why EXCEPT ![s] = "negotiation"]
  BY DEF OnKexInit, Fail, Goto
<1>7. /\ rx' = [rx EXCEPT ![s] = Bump(rx[s])] /\ rx' \in [Side -> Ciphers] /\ tx' = tx
      /\ rx'[s].alg = rx[s].alg /\ \A r \in Side : r # s => rx'[r] = rx[r]
  BY CipherMoves DEF OnKexInit, Bump, TypeOK
<1>8. sent' = sent /\ got' = got /\ hello' = hello /\ lines' = lines /\ total' = total
  BY DEF OnKexInit, dataVars
<1>9. neg[s] = {} /\ tx["client"].alg = "plain" /\ rx["server"].alg = "plain"
  BY <1>1 DEF NegInv
<1>10. Grows
  <2>1. ASSUME NEW r \in Side  PROVE Learns(Known(r), Known(r)')
    <3>1. CASE r = s
      BY <1>7, <1>9, <3>1 DEF Known, Learns
    <3>2. CASE r # s
      BY <1>5, <1>7, <3>2 DEF Known, Learns
    <3> QED  BY <3>1, <3>2
  <2> QED  BY <1>8, <2>1 DEF Grows, TypeOK
<1>11. /\ TypeOK' /\ ItemInv' /\ BeginInv' /\ OrderInv'
       /\ phase'[s] = p /\ \A r \in Side : r # s => phase'[r] = phase[r]
  <2>1. p \in Phases \ {"start"} /\ "negotiation" \in Errors \ {"ident"}
    BY DEF Phases, Errors
  <2>2. /\ Took(s) /\ net' = [net EXCEPT ![s] = Rest(s)]
        /\ tx' \in [Side -> Ciphers] /\ got' \in [Side -> Seq(Messages)]
    BY <1>7, <1>8 DEF OnKexInit, TypeOK
  <2> QED  BY <1>1, <1>5, <1>6, <1>7, <1>8, <1>10, <2>1, <2>2, TakeStep
<1>12. NegInv'
  <2>1. tx'["client"].alg = "plain" /\ rx'["server"].alg = "plain"
    BY <1>7, <1>9, Sides
  <2>2. NegotiatedFrom(s, o)'
    BY <1>3, <1>5, <1>8 DEF NegotiatedFrom
  <2>3. ASSUME NEW r \in Side
        PROVE  /\ neg'[r] # {} => \E z \in AllOffers : NegotiatedFrom(r, z)'
               /\ phase'[r] \in {"start", "ident", "hello", "kexinit"} => neg'[r] = {} /\ heard'[r] = {}
               /\ phase'[r] \in {"discard", "exchange", "reply", "newkeys", "open"} => neg'[r] # {}
    <3>1. CASE r = s
      BY <1>2, <1>6, <1>11, <2>2, <3>1
    <3>2. CASE r # s
      BY <1>5, <1>8, <1>11, <3>2 DEF NegInv, NegotiatedFrom
    <3> QED  BY <3>1, <3>2
  <2> QED  BY <2>1, <2>3 DEF NegInv
<1>13. CipherInv'
  <2>1. rx[s].alg = "plain" /\ tx[s].alg = "plain" /\ got[s] = <<>>
    BY <1>1 DEF CipherInv, Counts
  <2> QED  BY <1>6, <1>7, <1>8, <1>11, <2>1 DEF CipherInv, Counts
<1> QED  BY <1>8, <1>11, <1>12, <1>13 DEF Reassembled

\* The other packets of the exchange that are only taken.
LEMMA PlainTakeSteps ==
    ASSUME IInv, NEW s \in Side,
           Discard(s) \/ OnUnexpected(s) \/ (s = "client" /\ OnBadReply)
    PROVE  IInv'
<1> USE DEF IInv
<1>1. /\ Opened(s) /\ Took(s) /\ net' = [net EXCEPT ![s] = Rest(s)] /\ lines' = lines
      /\ tx' = tx /\ rx' = [rx EXCEPT ![s] = Bump(rx[s])] /\ sent' = sent /\ got' = got
      /\ hello' = hello /\ neg' = neg /\ heard' = heard /\ total' = total
  BY DEF Discard, OnUnexpected, OnBadReply, kexVars, dataVars
<1>2. PICK p \in {"failed", "exchange"} :
        /\ phase' = [phase EXCEPT ![s] = p]
        /\ p = "exchange" => phase[s] = "discard"
        /\ \E e \in {"unexpected", "hostkey"} : why' = why \/ why' = [why EXCEPT ![s] = e]
  BY DEF Discard, OnUnexpected, OnBadReply, Fail, Goto
<1>3. /\ rx' \in [Side -> Ciphers] /\ rx'[s].alg = rx[s].alg
      /\ \A r \in Side : r # s => rx'[r] = rx[r]
      /\ rx[s].alg # "plain" => Nonce(rx'[s]) = Nonce(rx[s]) + 1
  BY <1>1, CipherMoves DEF Bump, TypeOK
<1>4. Grows
  BY <1>1 DEF Grows, TypeOK, Known, Learns
<1>5. /\ TypeOK' /\ ItemInv' /\ BeginInv' /\ OrderInv'
      /\ phase'[s] = p /\ \A r \in Side : r # s => phase'[r] = phase[r]
  <2>1. p \in Phases \ {"start"} /\ "unexpected" \in Errors \ {"ident"}
        /\ "hostkey" \in Errors \ {"ident"}
    BY DEF Phases, Errors
  <2>2. /\ tx' \in [Side -> Ciphers] /\ got' \in [Side -> Seq(Messages)]
        /\ heard' \in [Side -> SUBSET AllOffers] /\ DOMAIN neg' = Side
    BY <1>1 DEF TypeOK
  <2>3. PICK e \in {"unexpected", "hostkey"} : why' = why \/ why' = [why EXCEPT ![s] = e]
    BY <1>2
  <2>4. e \in Errors \ {"ident"} /\ phase' = [phase EXCEPT ![s] = p]
    BY <1>2, <2>1, <2>3
  <2> QED  BY <1>1, <1>3, <1>4, <2>1, <2>2, <2>3, <2>4, TakeStep
<1>6. NegInv'
  <2>1. phase[s] = "discard" => neg[s] # {}
    BY DEF NegInv
  <2>2. rx'["server"].alg # "plain" => tx["client"].alg # "plain"
    BY <1>3, Sides DEF NegInv
  <2>3. \A r \in Side : Settling(r)
    BY <1>2, <1>5, <2>1 DEF Settling
  <2> QED  BY <1>1, <2>2, <2>3, NegKept
<1>7. rx[s].alg = "plain"
  <2>1. phase[s] \notin {"open", "failed"}
    BY DEF Discard, OnUnexpected, OnBadReply, Expected, Opened, BodyRead, Reading
  <2> QED  BY <2>1 DEF CipherInv
<1>8. CipherInv'
  BY <1>1, <1>2, <1>3, <1>5, <1>7 DEF CipherInv, Counts
<1> QED  BY <1>1, <1>5, <1>6, <1>8 DEF Reassembled

\* NEWKEYS changes the receiving cipher and keeps the invariant.
LEMMA NewKeysStep ==
    ASSUME IInv, NEW s \in Side, OnNewKeys(s)
    PROVE  IInv'
<1> USE DEF IInv
<1>1. /\ Opened(s) /\ Took(s) /\ net' = [net EXCEPT ![s] = Rest(s)] /\ lines' = lines
      /\ tx' = tx /\ rx' = [rx EXCEPT ![s] = make(RxAlg(s))] /\ sent' = sent /\ got' = got
      /\ hello' = hello /\ neg' = neg /\ heard' = heard /\ total' = total
      /\ phase[s] = "newkeys" /\ why' = why
      /\ phase' = [phase EXCEPT ![s] = "open"] /\ Returned(s).kind = "newkeys"
  BY DEF OnNewKeys, kexVars, dataVars, Goto
<1>2. neg[s] # {} /\ tx[Other(s)].alg # "plain"
  BY <1>1, OpenedPacket DEF NegInv, FinePacket, Known
<1>3. /\ rx' \in [Side -> Ciphers] /\ rx'[s].alg # "plain" /\ Nonce(rx'[s]) = 0
      /\ \A r \in Side : r # s => rx'[r] = rx[r]
  BY <1>1, <1>2, NegotiatedCiphers, FreshCiphers DEF TypeOK
<1>4. Grows
  BY <1>1 DEF Grows, TypeOK, Known, Learns
<1>5. /\ TypeOK' /\ ItemInv' /\ BeginInv' /\ OrderInv'
      /\ phase'[s] = "open" /\ \A r \in Side : r # s => phase'[r] = phase[r]
  <2>1. "open" \in Phases \ {"start"} /\ "unexpected" \in Errors \ {"ident"}
    BY DEF Phases, Errors
  <2>2. /\ tx' \in [Side -> Ciphers] /\ got' \in [Side -> Seq(Messages)]
        /\ heard' \in [Side -> SUBSET AllOffers] /\ DOMAIN neg' = Side
    BY <1>1 DEF TypeOK
  <2> QED  BY <1>1, <1>3, <1>4, <2>1, <2>2, TakeStep
<1>6. NegInv'
  <2>1. rx'["server"].alg # "plain" => tx["client"].alg # "plain"
    BY <1>2, <1>3, Sides DEF NegInv
  <2>2. \A r \in Side : Settling(r)
    BY <1>1, <1>2, <1>5 DEF Settling
  <2> QED  BY <1>1, <2>1, <2>2, NegKept
<1>7. got[s] = <<>>
  BY <1>1 DEF CipherInv, Counts
<1>8. CipherInv'
  <2>1. Len(got[s]) = 0
    BY <1>7
  <2> QED  BY <1>1, <1>3, <1>5, <2>1 DEF CipherInv, Counts
<1> QED  BY <1>1, <1>5, <1>6, <1>8 DEF Reassembled

\* The payload returned is the next of those the peer was given: the nonce of
\* the receiver has counted the ones before it.
LEMMA DataStep ==
    ASSUME IInv, NEW s \in Side, OnData(s)
    PROVE  IInv'
<1> USE DEF IInv
<1>1. /\ Opened(s) /\ Took(s) /\ net' = [net EXCEPT ![s] = Rest(s)] /\ lines' = lines
      /\ tx' = tx /\ rx' = [rx EXCEPT ![s] = Bump(rx[s])] /\ sent' = sent
      /\ got' = [got EXCEPT ![s] = Append(@, Returned(s))]
      /\ hello' = hello /\ neg' = neg /\ heard' = heard /\ total' = total /\ phase[s] = "open"
      /\ why' = why /\ phase' = phase
  BY DEF OnData, kexVars
<1> DEFINE m == Returned(s)
<1>2. rx[s].alg # "plain" /\ Nonce(rx[s]) = Len(got[s])
  BY <1>1 DEF CipherInv, Counts
<1>3. /\ m \in Messages /\ Len(got[s]) < Len(sent[Other(s)])
      /\ m = sent[Other(s)][Len(got[s]) + 1]
  BY <1>1, <1>2, OpenedPacket DEF FinePacket
<1> HIDE DEF m
<1>4. got[s] \in Seq(Messages) /\ got[Other(s)] \in Seq(Messages) /\ Other(s) \in Side
      /\ Other(s) # s /\ sent[Other(s)] \in Seq(Messages)
  BY Sides DEF TypeOK
<1>5. got'[s] = Append(got[s], m) /\ got' \in [Side -> Seq(Messages)]
      /\ \A r \in Side : r # s => got'[r] = got[r]
  BY <1>1, <1>3, <1>4 DEF TypeOK, m
<1>6. /\ rx' \in [Side -> Ciphers] /\ rx'[s].alg = rx[s].alg
      /\ \A r \in Side : r # s => rx'[r] = rx[r]
      /\ Nonce(rx'[s]) = Nonce(rx[s]) + 1
  BY <1>1, <1>2, CipherMoves DEF Bump, TypeOK
<1>7. Grows
  BY <1>1 DEF Grows, TypeOK, Known, Learns
<1>8. phase' = [phase EXCEPT ![s] = "open"]
  BY <1>1 DEF TypeOK
<1>9. /\ TypeOK' /\ ItemInv' /\ BeginInv' /\ OrderInv'
  <2>1. "open" \in Phases \ {"start"} /\ "unexpected" \in Errors \ {"ident"}
    BY DEF Phases, Errors
  <2>2. /\ tx' \in [Side -> Ciphers]
        /\ heard' \in [Side -> SUBSET AllOffers] /\ DOMAIN neg' = Side
    BY <1>1 DEF TypeOK
  <2>3. /\ Opened(s) /\ Took(s) /\ net' = [net EXCEPT ![s] = Rest(s)] /\ lines' = lines
        /\ total' = total /\ sent' = sent /\ why' = why
        /\ rx' \in [Side -> Ciphers] /\ got' \in [Side -> Seq(Messages)]
    BY <1>1, <1>5, <1>6
  <2> QED  BY <1>7, <1>8, <2>1, <2>2, <2>3, TakeStep
<1>10. NegInv'
  <2>1. rx'["server"].alg # "plain" => tx["client"].alg # "plain"
    BY <1>6, Sides DEF NegInv
  <2>2. \A r \in Side : Settling(r)
    BY <1>1 DEF Settling
  <2> QED  BY <1>1, <2>1, <2>2, NegKept
<1>11. CipherInv'
  <2>1. Len(got'[s]) = Len(got[s]) + 1
    BY <1>3, <1>4, <1>5
  <2>2. Counts(rx'[s], got'[s])
    BY <1>2, <1>6, <2>1 DEF Counts
  <2>3. ASSUME NEW r \in Side  PROVE Counts(rx'[r], got'[r]) /\ rx'[r].alg = rx[r].alg
    BY <1>5, <1>6, <2>2 DEF CipherInv
  <2> QED  BY <1>1, <2>3 DEF CipherInv
<1>12. Reassembled'
  <2>1. ASSUME NEW r \in Side
        PROVE  /\ Len(got'[r]) <= Len(sent'[Other(r)])
               /\ \A i \in DOMAIN got'[r] : got'[r][i] = sent'[Other(r)][i]
    <3>1. CASE r = s
      <4>1. /\ Len(got'[s]) = Len(got[s]) + 1 /\ DOMAIN got'[s] = 1..(Len(got[s]) + 1)
            /\ Len(got[s]) \in Nat /\ got'[s][Len(got[s]) + 1] = m
            /\ \A i \in 1..Len(got[s]) : got'[s][i] = got[s][i]
        BY <1>3, <1>4, <1>5
      <4>2. \A i \in 1..Len(got[s]) : got[s][i] = sent[Other(s)][i]
        BY <1>4 DEF Reassembled
      <4>3. Len(sent[Other(s)]) \in Nat
        BY <1>4
      <4>4. \A i \in 1..(Len(got[s]) + 1) : i = Len(got[s]) + 1 \/ i \in 1..Len(got[s])
        BY <4>1
      <4>5. sent' = sent
        BY <1>1
      <4>6. Len(got'[s]) <= Len(sent[Other(s)])
        BY <1>3, <4>1, <4>3
      <4> QED  BY <1>3, <3>1, <4>1, <4>2, <4>4, <4>5, <4>6
    <3>2. CASE r # s
      BY <1>1, <1>5, <3>2 DEF Reassembled
    <3> QED  BY <3>1, <3>2
  <2> QED  BY <2>1 DEF Reassembled
<1> QED  BY <1>9, <1>10, <1>11, <1>12

\* A side sends messages, perhaps after having taken a packet.
LEMMA SendStep ==
    ASSUME IInv, NEW s \in Side, NEW ms \in Seq(Messages),
           \/ /\ net' = [net EXCEPT ![Other(s)] = @ \o Sealed(tx[s], ms)]
              /\ UNCHANGED <<off, read_state>>
           \/ /\ Opened(s) /\ Took(s)
              /\ net' = [net EXCEPT ![s] = Rest(s), ![Other(s)] = @ \o Sealed(tx[s], ms)],
           UNCHANGED <<hello, lines, total, why, heard, neg, got>>, Grows, sent' \in [Side -> Seq(Messages)],
           NEW p \in Phases \ {"start"}, phase' = [phase EXCEPT ![s] = p], phase[s] # "start",
           tx' \in [Side -> Ciphers], rx' \in [Side -> Ciphers],
           \A k \in 1..Len(ms) : FinePacket(Sealed(tx[s], ms)[k], hello[s], Known(s)', sent'[s])
    PROVE  /\ TypeOK' /\ ItemInv' /\ BeginInv' /\ OrderInv'
           /\ phase'[s] = p /\ \A r \in Side : r # s => phase'[r] = phase[r]
<1> USE DEF IInv
<1> DEFINE r == Other(s)
           q == Sealed(tx[s], ms)
<1>1. /\ r \in Side /\ r # s /\ \A z \in Side : z = s \/ z = r
      /\ Other(r) = s /\ Other(s) = r
  BY Sides
<1>2. q \in Seq(Packets) /\ Len(q) = Len(ms)
  BY SealedType DEF TypeOK
<1>3. net[s] \in Seq(Items) /\ net[r] \in Seq(Items) /\ net \in [Side -> Seq(Items)]
  BY <1>1 DEF TypeOK
<1>4. /\ Ordered(net[r] \o q) /\ net[r] \o q \in Seq(Items)
      /\ net[r] # <<>> => net[r] \o q # <<>> /\ Head(net[r] \o q) = Head(net[r])
  <2>1. Ordered(net[r])
    BY <1>1 DEF OrderInv
  <2> QED  BY <1>2, <1>3, <2>1, SendOrdered
<1>5. Ordered(net[s]) /\ (Opened(s) => net[s] # <<>> /\ ~IsLine(Head(net[s])))
  BY OpenedPacket DEF OrderInv
<1>6. Rest(s) = Tail(net[s])
  BY DEF Rest
<1>7. \/ net' = [net EXCEPT ![r] = net[r] \o q] /\ UNCHANGED <<off, read_state>>
      \/ /\ Opened(s) /\ Took(s)
         /\ net' = [net EXCEPT ![s] = Tail(net[s]), ![r] = net[r] \o q]
  BY <1>1, <1>3, <1>6
<1> HIDE DEF q, r
<1>8. /\ net' \in [Side -> Seq(Items)] /\ net'[r] = net[r] \o q
      /\ \/ net'[s] = net[s] /\ UNCHANGED <<off, read_state>>
         \/ /\ net[s] # <<>> /\ ~IsLine(Head(net[s]))
            /\ net'[s] = Tail(net[s]) /\ Took(s)
  <2>1. CASE net' = [net EXCEPT ![r] = net[r] \o q] /\ UNCHANGED <<off, read_state>>
    BY <1>1, <1>3, <1>4, <2>1
  <2>2. CASE /\ Opened(s) /\ Took(s)
             /\ net' = [net EXCEPT ![s] = Tail(net[s]), ![r] = net[r] \o q]
    <3>1. net[s] # <<>> /\ ~IsLine(Head(net[s])) /\ Tail(net[s]) \in Seq(Items)
      BY <1>3, <1>5, <2>2
    <3> QED  BY <1>1, <1>3, <1>4, <2>2, <3>1
  <2> QED  BY <1>7, <2>1, <2>2
<1>9. /\ phase' \in [Side -> Phases] /\ phase'[s] = p
      /\ \A z \in Side : z # s => phase'[z] = phase[z]
  BY DEF TypeOK
<1>10. /\ off' \in [Side -> Nat] /\ read_state' \in [Side -> ReadStates]
       /\ read_state'[r] = read_state[r]
       /\ \/ net'[s] = net[s] /\ read_state'[s] = read_state[s]
          \/ read_state'[s].at = "idle"
  <2>1. CASE net'[s] = net[s] /\ UNCHANGED <<off, read_state>>
    BY <2>1 DEF TypeOK
  <2>2. CASE Took(s)
    <3>1. off' = [off EXCEPT ![s] = 0] /\ read_state' = [read_state EXCEPT ![s] = Idle]
      BY <2>2 DEF Took
    <3>2. off \in [Side -> Nat] /\ read_state \in [Side -> ReadStates]
      BY DEF TypeOK
    <3> QED  BY <1>1, <3>1, <3>2, IdleState
  <2> QED  BY <1>8, <2>1, <2>2
<1>11. TypeOK'
  BY <1>8, <1>9, <1>10 DEF TypeOK
<1>12. ItemInv'
  <2>1. \A k \in 1..Len(q) : FinePacket(q[k], hello[s], Known(s)', sent'[s])
    BY <1>2 DEF q
  <2>2. /\ net'[Other(s)] = net[Other(s)] \o q
        /\ \/ net'[s] = net[s]
           \/ net[s] # <<>> /\ ~IsLine(Head(net[s])) /\ net'[s] = Tail(net[s])
    BY <1>8 DEF r
  <2> QED  BY <1>2, <1>5, <1>11, <2>1, <2>2, SendKeepsItems
<1>13. BeginInv'
  <2>1. ASSUME NEW z \in Side, phase'[Other(z)] = "start"
        PROVE  net'[z] = <<>> /\ lines'[z] = 0
    <3>1. z = s /\ phase[Other(s)] = "start"
      BY <1>1, <1>9, <2>1 DEF r
    <3>2. net[s] = <<>> /\ lines[s] = 0
      BY <3>1 DEF BeginInv
    <3> QED  BY <1>8, <3>1, <3>2
  <2>2. ASSUME NEW z \in Side, why'[z] = "ident"  PROVE ~GoodHello(Other(z))'
    BY <2>2 DEF BeginInv, GoodHello
  <2>3. \A z \in Side : total'[z] = EndOf(hello'[Other(z)].lines, lines'[z])
    BY DEF BeginInv
  <2> QED  BY <2>1, <2>2, <2>3 DEF BeginInv
<1>14. OrderInv'
  <2>1. Ordered(net'[s])
    BY <1>3, <1>8, TailOrdered DEF OrderInv
  <2>2. Ordered(net'[r])
    BY <1>4, <1>8
  <2>3. read_state'[s].at # "idle" => PacketThere(s)'
    BY <1>8, <1>10 DEF OrderInv, PacketThere
  <2>4. read_state'[r].at # "idle" => PacketThere(r)'
    BY <1>1, <1>4, <1>8, <1>10 DEF OrderInv, PacketThere
  <2> QED  BY <1>1, <2>1, <2>2, <2>3, <2>4 DEF OrderInv
<1> QED  BY <1>9, <1>11, <1>12, <1>13, <1>14

\* What is sent in the plain is fine by what it is.
LEMMA PlainSealedFine ==
    ASSUME NEW c \in Ciphers, c.alg = "plain", NEW ms \in Seq(Messages), NEW h, NEW g, NEW q,
           NEW k \in 1..Len(ms),
           ms[k].kind = "ecdh_reply" => g.neg # {} /\ ms[k].signed.client = g.heard
                                        /\ ms[k].signed.server = {h.offer},
           ms[k].kind = "newkeys" => g.alg # "plain"
    PROVE  FinePacket(Sealed(c, ms)[k], h, g, q)
BY SealedType DEF FinePacket

\* Sending a KEXINIT, and a guess after it, keeps the invariant.
LEMMA SendKexInitStep ==
    ASSUME IInv, NEW s \in Side, SendKexInit(s)
    PROVE  IInv'
<1> USE DEF IInv
<1> DEFINE o == hello[s].offer
           ms == IF o.first_packet_follows THEN <<KexInit(o), EcdhInit(Head(o.kex))>>
                                           ELSE <<KexInit(o)>>
<1>1. KexInit(o) \in Messages /\ EcdhInit(Head(o.kex)) \in Messages
  <2>1. hello \in Hellos
    BY DEF TypeOK
  <2>2. Head(o.kex) \in Shares
    BY <2>1 DEF Shares
  <2> QED  BY <2>1, <2>2, OwnMessages
<1>2. ms \in Seq(Messages) /\ Len(ms) \in Nat
  BY <1>1
<1>3. \A k \in 1..Len(ms) : ms[k] = KexInit(o) \/ ms[k] = EcdhInit(Head(o.kex))
  OBVIOUS
<1>4. /\ net' = [net EXCEPT ![Other(s)] = @ \o Sealed(tx[s], ms)]
      /\ tx' = [tx EXCEPT ![s] = After(tx[s], Len(ms))]
      /\ phase[s] = "hello" /\ phase' = [phase EXCEPT ![s] = "kexinit"]
      /\ UNCHANGED <<why, rx, off, read_state, hello, lines, total, heard, neg, sent, got>>
  BY DEF SendKexInit, SendRaw, Goto, kexVars, dataVars
<1> HIDE DEF ms
<1>5. tx[s] \in Ciphers /\ tx[s].alg = "plain"
  BY <1>4 DEF TypeOK, CipherInv
<1>6. tx' \in [Side -> Ciphers] /\ tx'[s].alg = tx[s].alg /\ \A r \in Side : r # s => tx'[r] = tx[r]
  BY <1>2, <1>4, <1>5, CipherMoves DEF TypeOK
<1>7. Grows /\ sent' \in [Side -> Seq(Messages)] /\ rx' \in [Side -> Ciphers]
  BY <1>4, <1>6 DEF Grows, TypeOK, Known, Learns
<1>8. ASSUME NEW k \in 1..Len(ms)
      PROVE  FinePacket(Sealed(tx[s], ms)[k], hello[s], Known(s)', sent'[s])
  <2>1. ms[k].kind \notin {"ecdh_reply", "newkeys"}
    BY <1>3 DEF KexInit, EcdhInit
  <2> QED  BY <1>2, <1>5, <2>1, PlainSealedFine
<1>9. /\ TypeOK' /\ ItemInv' /\ BeginInv' /\ OrderInv'
      /\ phase'[s] = "kexinit" /\ \A r \in Side : r # s => phase'[r] = phase[r]
  <2>1. "kexinit" \in Phases \ {"start"}
    BY DEF Phases
  <2> QED  BY <1>2, <1>4, <1>6, <1>7, <1>8, <2>1, SendStep
<1>10. NegInv'
  <2>1. tx'["client"].alg = tx["client"].alg
    BY <1>6, Sides
  <2>2. rx'["server"].alg # "plain" => tx["client"].alg # "plain"
    BY <1>4 DEF NegInv
  <2>3. \A r \in Side : Settling(r)
    BY <1>4, <1>9 DEF Settling
  <2> QED  BY <1>4, <2>1, <2>2, <2>3, NegKept
<1>11. CipherInv'
  BY <1>4, <1>5, <1>6, <1>9 DEF CipherInv, Counts
<1> QED  BY <1>4, <1>9, <1>10, <1>11 DEF Reassembled

\* Sending the client's share keeps the invariant.
LEMMA SendShareStep ==
    ASSUME IInv, SendShare
    PROVE  IInv'
<1> USE DEF IInv
<1> DEFINE s == "client"
           ms == IF GuessStands("client") THEN <<>> ELSE <<EcdhInit(Negotiated("client").kex)>>
<1>0. s \in Side
  BY Sides
<1>1. /\ net' = [net EXCEPT ![Other(s)] = @ \o Sealed(tx[s], ms)]
      /\ tx' = [tx EXCEPT ![s] = After(tx[s], Len(ms))]
      /\ phase[s] = "exchange" /\ phase' = [phase EXCEPT ![s] = "reply"]
      /\ UNCHANGED <<why, rx, off, read_state, hello, lines, total, heard, neg, sent, got>>
  BY DEF SendShare, SendRaw, Goto, kexVars, dataVars
<1>2. EcdhInit(Negotiated("client").kex) \in Messages
  <2>1. Negotiated(s).kex \in KexNames
    BY <1>0, <1>1, NegotiatedCiphers DEF NegInv
  <2> QED  BY <2>1, OwnMessages DEF Shares
<1>3. ms \in Seq(Messages) /\ Len(ms) \in Nat
  BY <1>2
<1>4. \A k \in 1..Len(ms) : ms[k] = EcdhInit(Negotiated("client").kex)
  OBVIOUS
<1> HIDE DEF ms, s
<1>5. tx[s] \in Ciphers /\ tx[s].alg = "plain"
  BY <1>0, <1>1 DEF TypeOK, CipherInv
<1>6. tx' \in [Side -> Ciphers] /\ tx'[s].alg = tx[s].alg /\ \A r \in Side : r # s => tx'[r] = tx[r]
  BY <1>0, <1>3, <1>1, <1>5, CipherMoves DEF TypeOK
<1>7. Grows /\ sent' \in [Side -> Seq(Messages)] /\ rx' \in [Side -> Ciphers]
  BY <1>0, <1>1, <1>6 DEF Grows, TypeOK, Known, Learns
<1>8. ASSUME NEW k \in 1..Len(ms)
      PROVE  FinePacket(Sealed(tx[s], ms)[k], hello[s], Known(s)', sent'[s])
  <2>1. ms[k].kind = "ecdh_init"
    BY <1>4 DEF EcdhInit
  <2> QED  BY <1>3, <1>5, <2>1, PlainSealedFine
<1>9. /\ TypeOK' /\ ItemInv' /\ BeginInv' /\ OrderInv'
      /\ phase'[s] = "reply" /\ \A r \in Side : r # s => phase'[r] = phase[r]
  <2>1. "reply" \in Phases \ {"start"}
    BY DEF Phases
  <2> QED  BY <1>0, <1>1, <1>3, <1>6, <1>7, <1>8, <2>1, SendStep
<1>10. NegInv'
  <2>1. tx'["client"].alg = tx["client"].alg /\ neg[s] # {}
    BY <1>0, <1>1, <1>6 DEF s, NegInv
  <2>2. rx'["server"].alg # "plain" => tx["client"].alg # "plain"
    BY <1>1 DEF NegInv
  <2>3. \A r \in Side : Settling(r)
    BY <1>9, <2>1 DEF Settling
  <2> QED  BY <1>1, <2>1, <2>2, <2>3, NegKept
<1>11. CipherInv'
  BY <1>0, <1>1, <1>5, <1>6, <1>9 DEF CipherInv, Counts
<1> QED  BY <1>1, <1>9, <1>10, <1>11 DEF Reassembled

\* send_raw of a payload keeps the invariant.
LEMMA SendDataStep ==
    ASSUME IInv, NEW s \in Side, SendData(s)
    PROVE  IInv'
<1> USE DEF IInv
<1>1. PICK n \in Sizes :
        /\ sent' = [sent EXCEPT ![s] = Append(@, Data(Len(sent[s]) + 1, n))]
        /\ net' = [net EXCEPT ![Other(s)] = @ \o Sealed(tx[s], <<Data(Len(sent[s]) + 1, n)>>)]
  BY DEF SendData, SendRaw
<1> DEFINE m == Data(Len(sent[s]) + 1, n)
           ms == <<m>>
<1>2. /\ phase[s] = "open" /\ tx' = [tx EXCEPT ![s] = After(tx[s], 1)]
      /\ UNCHANGED <<phase, why, rx, off, read_state, got, hello, lines, total, heard, neg>>
  BY DEF SendData, Bump, kexVars
<1>3. sent[s] \in Seq(Messages) /\ Len(sent[s]) + 1 \in Nat
  BY DEF TypeOK
<1>4. m \in Messages
  BY <1>3 DEF Messages
<1>5. sent' = [sent EXCEPT ![s] = Append(sent[s], m)]
      /\ net' = [net EXCEPT ![Other(s)] = @ \o Sealed(tx[s], ms)]
  BY <1>1
<1> HIDE DEF m
<1>6. ms \in Seq(Messages) /\ Len(ms) = 1 /\ ms[1] = m
  BY <1>4
<1> HIDE DEF ms
<1>7. /\ sent' \in [Side -> Seq(Messages)] /\ sent'[s] = Append(sent[s], m)
      /\ \A r \in Side : r # s => sent'[r] = sent[r]
  BY <1>3, <1>4, <1>5 DEF TypeOK
<1>8. /\ Len(sent'[s]) = Len(sent[s]) + 1 /\ sent'[s][Len(sent[s]) + 1] = m
      /\ \A k \in 1..Len(sent[s]) : sent'[s][k] = sent[s][k]
      /\ \A r \in Side : Len(sent[r]) \in Nat
  BY <1>3, <1>4, <1>7 DEF TypeOK
<1>10. tx[s] \in Ciphers /\ tx[s].alg # "plain" /\ Nonce(tx[s]) = Len(sent[s])
  BY <1>2 DEF TypeOK, CipherInv, Counts
<1>11. /\ tx' \in [Side -> Ciphers] /\ tx'[s].alg = tx[s].alg
       /\ Nonce(tx'[s]) = Nonce(tx[s]) + 1
       /\ \A r \in Side : r # s => tx'[r] = tx[r]
  BY <1>2, <1>10, CipherMoves DEF TypeOK
<1>9. Grows
  <2>1. ASSUME NEW r \in Side
        PROVE  /\ Len(sent[r]) <= Len(sent'[r])
               /\ \A k \in 1..Len(sent[r]) : sent'[r][k] = sent[r][k]
    <3>1. CASE r = s
      BY <1>8, <3>1
    <3>2. CASE r # s
      BY <1>7, <1>8, <3>2
    <3> QED  BY <3>1, <3>2
  <2>2. ASSUME NEW r \in Side  PROVE Learns(Known(r), Known(r)')
    BY <1>2, <1>11 DEF Known, Learns
  <2> QED  BY <1>2, <2>1, <2>2 DEF Grows
<1>12. ASSUME NEW k \in 1..Len(ms)
       PROVE  FinePacket(Sealed(tx[s], ms)[k], hello[s], Known(s)', sent'[s])
  <2>1. k = 1
    BY <1>6
  <2>2. /\ Sealed(tx[s], ms)[1].m = m /\ Sealed(tx[s], ms)[1].nonce = Len(sent[s]) + 1 - 1
    BY <1>6, <1>10, SealedType
  <2>3. m.kind = "data"
    BY DEF m, Data
  <2> QED  BY <1>8, <2>1, <2>2, <2>3 DEF FinePacket
<1>13. TypeOK' /\ ItemInv' /\ BeginInv' /\ OrderInv'
  <2>1. "open" \in Phases \ {"start"} /\ phase' = [phase EXCEPT ![s] = "open"]
    BY <1>2 DEF Phases, TypeOK
  <2>2. rx' \in [Side -> Ciphers]
    BY <1>2 DEF TypeOK
  <2> QED  BY <1>2, <1>5, <1>6, <1>7, <1>9, <1>11, <1>12, <2>1, <2>2, SendStep
<1>14. NegInv'
  <2>1. tx'["client"].alg = tx["client"].alg
    BY <1>11, Sides
  <2>2. rx'["server"].alg # "plain" => tx["client"].alg # "plain"
    BY <1>2 DEF NegInv
  <2>3. \A r \in Side : Settling(r)
    BY <1>2 DEF Settling
  <2> QED  BY <1>2, <2>1, <2>2, <2>3, NegKept
<1>15. CipherInv'
  <2>1. Counts(tx'[s], sent'[s])
    BY <1>8, <1>10, <1>11 DEF Counts
  <2>2. ASSUME NEW r \in Side  PROVE Counts(tx'[r], sent'[r]) /\ tx'[r].alg = tx[r].alg
    BY <1>7, <1>11, <2>1 DEF CipherInv
  <2> QED  BY <1>2, <2>2 DEF CipherInv
<1>16. Reassembled'
  <2>1. ASSUME NEW r \in Side
        PROVE  /\ Len(got'[r]) <= Len(sent'[Other(r)])
               /\ \A i \in DOMAIN got'[r] : got'[r][i] = sent'[Other(r)][i]
    <3>1. /\ Other(r) \in Side /\ got' = got /\ got[r] \in Seq(Messages)
      BY <1>2, Sides DEF TypeOK
    <3>2. /\ Len(got[r]) <= Len(sent[Other(r)]) /\ Len(sent[Other(r)]) <= Len(sent'[Other(r)])
          /\ \A i \in 1..Len(got[r]) : got[r][i] = sent[Other(r)][i]
          /\ \A i \in 1..Len(sent[Other(r)]) : sent'[Other(r)][i] = sent[Other(r)][i]
      BY <1>9, <3>1 DEF Reassembled, Grows
    <3>3. Len(got[r]) \in Nat /\ Len(sent[Other(r)]) \in Nat /\ Len(sent'[Other(r)]) \in Nat
      BY <1>7, <3>1, SMTT(60) DEF TypeOK
    <3>4. DOMAIN got[r] = 1..Len(got[r])
      BY <3>1
    <3>5. 1..Len(got[r]) \subseteq 1..Len(sent[Other(r)])
      BY <3>2, <3>3
    <3> QED  BY <3>1, <3>2, <3>3, <3>4, <3>5
  <2> QED  BY <2>1 DEF Reassembled
<1> QED  BY <1>13, <1>14, <1>15, <1>16

\* The answer to a share or a reply: the last messages under the old cipher, and
\* the switch.
LEMMA SwitchStep ==
    ASSUME IInv, NEW s \in Side, NEW t \in Hashes, NEW ms, ms \in {<<>>, <<EcdhReply(t)>>},
           Opened(s), Took(s), Switch(s, ms), phase[s] \in {"exchange", "reply"},
           s = "server" => t.client = heard[s] /\ t.server = {hello[s].offer},
           s = "client" => ms = <<>> /\ Returned(s).kind = "ecdh_reply"
                           /\ Returned(s).signed = Hash("client", "own"),
           phase' = [phase EXCEPT ![s] = "newkeys"], rx' = [rx EXCEPT ![s] = Bump(@)],
           UNCHANGED <<hello, lines, total, why, heard, neg, sent, got>>
    PROVE  IInv'
<1> USE DEF IInv
<1> DEFINE ns == ms \o <<Plainly("newkeys")>>
<1>1. EcdhReply(t) \in Messages /\ Plainly("newkeys") \in Messages
  BY OwnMessages
<1>2. /\ ns \in Seq(Messages) /\ Len(ns) \in Nat
      /\ \A k \in 1..Len(ns) : \/ ns[k] = Plainly("newkeys")
                               \/ ns[k] = EcdhReply(t) /\ ms # <<>>
  <2>1. /\ ms \in Seq(Messages) /\ Len(ms) \in Nat
        /\ \A k \in 1..Len(ms) : ms[k] = EcdhReply(t) /\ ms # <<>>
    <3>1. CASE ms = <<>>
      BY <3>1
    <3>2. CASE ms = <<EcdhReply(t)>>
      BY <1>1, <3>2
    <3> QED  BY <3>1, <3>2
  <2>2. /\ ns \in Seq(Messages) /\ Len(ns) = Len(ms) + 1
        /\ ns[Len(ms) + 1] = Plainly("newkeys") /\ \A k \in 1..Len(ms) : ns[k] = ms[k]
    BY <1>1, <2>1, OneMore
  <2>3. \A k \in 1..Len(ns) : k = Len(ms) + 1 \/ k \in 1..Len(ms)
    BY <2>1, <2>2
  <2> QED  BY <2>1, <2>2, <2>3
<1>3. /\ net' = [net EXCEPT ![s] = Rest(s), ![Other(s)] = @ \o Sealed(tx[s], ns)]
      /\ tx' = [tx EXCEPT ![s] = make(TxAlg(s))]
  BY DEF Switch
<1> HIDE DEF ns
<1>4. neg[s] # {}
  BY DEF NegInv
<1>5. /\ tx[s] \in Ciphers /\ tx[s].alg = "plain" /\ rx[s].alg = "plain"
      /\ sent[s] = <<>> /\ got[s] = <<>>
  BY DEF TypeOK, CipherInv, Counts
<1>6. /\ tx' \in [Side -> Ciphers] /\ tx'[s].alg # "plain" /\ Nonce(tx'[s]) = 0
      /\ \A r \in Side : r # s => tx'[r] = tx[r]
  BY <1>3, <1>4, NegotiatedCiphers, FreshCiphers DEF TypeOK
<1>7. /\ rx' \in [Side -> Ciphers] /\ rx'[s].alg = "plain"
      /\ \A r \in Side : r # s => rx'[r] = rx[r]
  BY <1>5, CipherMoves DEF Bump, TypeOK
<1>8. Grows /\ sent' \in [Side -> Seq(Messages)]
  <2>1. ASSUME NEW r \in Side  PROVE Learns(Known(r), Known(r)')
    BY <1>6 DEF Known, Learns
  <2> QED  BY <2>1 DEF Grows, TypeOK
<1>9. ASSUME NEW k \in 1..Len(ns)
      PROVE  FinePacket(Sealed(tx[s], ns)[k], hello[s], Known(s)', sent'[s])
  <2>1. /\ ns[k].kind = "ecdh_reply" => ns[k].signed = t /\ s = "server"
        /\ ns[k].kind \in {"ecdh_reply", "newkeys"}
    BY <1>2 DEF Plainly, EcdhReply, Side
  <2>2. Known(s)'.neg # {} /\ Known(s)'.heard = heard[s] /\ Known(s)'.alg # "plain"
    BY <1>4, <1>6 DEF Known
  <2>3. ns[k].kind = "ecdh_reply" =>
          ns[k].signed.client = Known(s)'.heard /\ ns[k].signed.server = {hello[s].offer}
    BY <2>1, <2>2
  <2> QED  BY <1>2, <1>5, <2>2, <2>3, PlainSealedFine
<1>10. /\ TypeOK' /\ ItemInv' /\ BeginInv' /\ OrderInv'
       /\ phase'[s] = "newkeys" /\ \A r \in Side : r # s => phase'[r] = phase[r]
  <2>1. "newkeys" \in Phases \ {"start"}
    BY DEF Phases
  <2> QED  BY <1>2, <1>3, <1>6, <1>7, <1>8, <1>9, <2>1, SendStep
<1>11. NegInv'
  <2>1. CASE s = "server"
    <3>1. tx'["client"].alg = tx["client"].alg
      BY <1>6, <2>1, Sides
    <3>2. rx'["server"].alg # "plain" => tx["client"].alg # "plain"
      BY <1>7, <2>1
    <3>3. \A r \in Side : Settling(r)
      BY <1>4, <1>10 DEF Settling
    <3> QED  BY <3>1, <3>2, <3>3, NegKept
  <2>2. CASE s = "client"
    <3>1. /\ neg["server"] # {} /\ heard["server"] = {hello["client"].offer}
          /\ heard["client"] = {hello["server"].offer}
      <4>1. /\ Returned(s).signed.client = {hello["client"].offer}
            /\ Returned(s).signed.server = heard["client"] /\ Returned(s).signed.share = "own"
        BY <2>2 DEF Hash
      <4>2. Known("server").neg # {} /\ Known("server").heard = Returned(s).signed.client
            /\ Returned(s).signed.server = {hello["server"].offer}
        BY <2>2, <4>1, OpenedPacket, Sides DEF FinePacket
      <4> QED  BY <4>1, <4>2 DEF Known
    <3>2. ASSUME NEW r \in Side
          PROVE  neg[r] # {} /\ heard[r] = {hello[Other(r)].offer}
      BY <1>4, <2>2, <3>1, Sides DEF Side
    <3>3. ASSUME NEW r \in Side
          PROVE  /\ \E o \in AllOffers : NegotiatedFrom(r, o)'
                 /\ phase'[r] \notin {"start", "ident", "hello", "kexinit"}
      <4>1. phase[r] \notin {"start", "ident", "hello", "kexinit"}
        BY <3>2 DEF NegInv
      <4> QED  BY <1>10, <3>2, <4>1 DEF NegInv, NegotiatedFrom
    <3> QED  BY <1>6, <2>2, <3>2, <3>3 DEF NegInv
  <2> QED  BY <2>1, <2>2 DEF Side
<1>12. CipherInv'
  <2>1. Len(sent[s]) = 0
    BY <1>5
  <2> QED  BY <1>5, <1>6, <1>7, <1>10, <2>1 DEF CipherInv, Counts
<1> QED  BY <1>10, <1>11, <1>12 DEF Reassembled

\* The end of the exchange changes the sending cipher and keeps the invariant.
LEMMA SwitchSteps ==
    ASSUME IInv, OnEcdhInit \/ OnEcdhReply
    PROVE  IInv'
<1>0. ASSUME NEW s \in Side, NEW z \in {"own", "altered"}  PROVE Hash(s, z) \in Hashes
  <2>1. {hello[s].offer} \in SUBSET AllOffers /\ heard[s] \in SUBSET AllOffers
    BY OwnMessages DEF IInv, TypeOK
  <2> QED  BY <2>1 DEF Hash, Hashes
<1>1. CASE OnEcdhInit
  <2>1. PICK z \in {"own", "altered"} : z = Returned("server").share
    BY <1>1, OpenedPacket, MessageSizes, Sides DEF OnEcdhInit, FitsExchange
  <2>2. PICK t \in Hashes : t = Hash("server", z)
    BY <1>0, <2>1, Sides
  <2>3. t.client = heard["server"] /\ t.server = {hello["server"].offer}
    BY <2>2 DEF Hash
  <2>4. /\ Opened("server") /\ Took("server") /\ Switch("server", <<EcdhReply(t)>>)
        /\ phase["server"] = "exchange" /\ phase' = [phase EXCEPT !["server"] = "newkeys"]
        /\ rx' = [rx EXCEPT !["server"] = Bump(@)]
        /\ UNCHANGED <<hello, lines, total, why, heard, neg, sent, got>>
    BY <1>1, <2>1, <2>2 DEF OnEcdhInit, Goto, kexVars, dataVars
  <2> QED  BY <2>2, <2>3, <2>4, SwitchStep, Sides
<1>2. CASE OnEcdhReply
  <2>1. PICK t \in Hashes : t = Hash("client", "own")
    BY <1>0, Sides
  <2>2. /\ Opened("client") /\ Took("client") /\ Switch("client", <<>>)
        /\ phase["client"] = "reply" /\ phase' = [phase EXCEPT !["client"] = "newkeys"]
        /\ Returned("client").kind = "ecdh_reply"
        /\ Returned("client").signed = Hash("client", "own")
        /\ rx' = [rx EXCEPT !["client"] = Bump(@)]
        /\ UNCHANGED <<hello, lines, total, why, heard, neg, sent, got>>
    BY <1>2 DEF OnEcdhReply, Goto, kexVars, dataVars
  <2> QED  BY <2>1, <2>2, SwitchStep, Sides
<1> QED  BY <1>1, <1>2

\* Identification.
LEMMA SendIdentStep ==
    ASSUME IInv, NEW s \in Side, SendIdent(s)
    PROVE  IInv'
<1> USE DEF IInv
<1> DEFINE r == Other(s)
<1>1. r \in Side /\ r # s /\ Other(r) = s /\ \A z \in Side : z = s \/ z = r
  BY Sides
<1>2. PICK q : q = hello[s].lines
  OBVIOUS
<1>3. q \in Seq(LineKinds)
  BY <1>2, HelloAssumption DEF TypeOK, IsPreamble
<1>4. net[r] = <<>> /\ lines[r] = 0
  BY <1>1 DEF SendIdent, BeginInv
<1>5. q \in Seq(Items)
  BY <1>3 DEF Items
<1>6. net' = [net EXCEPT ![r] = q]
  <2>1. net' = [net EXCEPT ![r] = net[r] \o q]
    BY <1>1, <1>2 DEF SendIdent, TypeOK
  <2>2. <<>> \o q = q
    BY <1>5
  <2> QED  BY <1>4, <2>1, <2>2
<1>9. /\ net' \in [Side -> Seq(Items)] /\ net'[r] = q /\ net'[s] = net[s]
  BY <1>1, <1>5, <1>6 DEF TypeOK
<1>10. /\ phase[s] = "start" /\ phase' = [phase EXCEPT ![s] = "ident"]
       /\ UNCHANGED <<why, tx, rx, off, read_state, hello, lines, total, heard, neg, sent, got>>
  BY DEF SendIdent, Goto, kexVars, dataVars
<1>11. /\ phase' \in [Side -> Phases] /\ phase'[s] = "ident"
       /\ \A z \in Side : z # s => phase'[z] = phase[z]
  BY <1>10 DEF TypeOK, Phases
<1>12. TypeOK'
  BY <1>9, <1>10, <1>11 DEF TypeOK
<1>13. ItemInv'
  <2>1. ASSUME NEW i \in DOMAIN net'[r]
        PROVE  Fine(net'[r][i], lines'[r] + i, hello'[Other(r)], Known(Other(r))', sent'[Other(r)])
    <3>1. i \in 1..Len(q) /\ net'[r][i] = q[i] /\ q[i] \in LineKinds
      BY <1>3, <1>9
    <3>2. lines'[r] + i = i
      BY <1>4, <1>10, <3>1
    <3>3. IsLine(q[i])
      BY <3>1, ItemKinds
    <3>4. FineLine(q[i], i, hello[s])
      BY <1>2, <3>1 DEF FineLine
    <3> QED  BY <1>1, <1>10, <3>1, <3>2, <3>3, <3>4 DEF Fine
  <2>2. ASSUME NEW i \in DOMAIN net'[s]
        PROVE  \E j \in DOMAIN net[s] :
                  net'[s][i] = net[s][j] /\ (IsLine(net[s][j]) => lines'[s] + i = lines[s] + j)
    BY <1>9, <1>10
  <2>3. Grows
    BY <1>10 DEF Grows, TypeOK, Known, Learns
  <2>4. ASSUME NEW z \in Side, NEW i \in DOMAIN net'[z]
        PROVE  \/ \E j \in DOMAIN net[z] :
                     net'[z][i] = net[z][j] /\ (IsLine(net[z][j]) => lines'[z] + i = lines[z] + j)
               \/ Fine(net'[z][i], lines'[z] + i, hello'[Other(z)], Known(Other(z))',
                       sent'[Other(z)])
    <3>1. CASE z = r
      BY <2>1, <3>1
    <3>2. CASE z = s
      BY <2>2, <3>2
    <3> QED  BY <1>1, <3>1, <3>2
  <2> QED  BY <1>12, <2>3, <2>4, ItemsKept
<1>14. NegInv'
  <2>1. rx'["server"].alg # "plain" => tx["client"].alg # "plain"
    BY <1>10 DEF NegInv
  <2>2. \A z \in Side : Settling(z)
    BY <1>10, <1>11 DEF Settling
  <2> QED  BY <1>10, <2>1, <2>2, NegKept
<1>15. CipherInv'
  BY <1>10, <1>11 DEF CipherInv
<1>16. BeginInv'
  <2>1. ASSUME NEW z \in Side, phase'[Other(z)] = "start"
        PROVE  net'[z] = <<>> /\ lines'[z] = 0
    <3>1. z = s /\ phase[Other(s)] = "start"
      BY <1>1, <1>11, <2>1
    <3> QED  BY <1>9, <1>10, <3>1 DEF BeginInv
  <2>2. ASSUME NEW z \in Side, why'[z] = "ident"  PROVE ~GoodHello(Other(z))'
    BY <1>10, <2>2 DEF BeginInv, GoodHello
  <2>3. \A z \in Side : total'[z] = EndOf(hello'[Other(z)].lines, lines'[z])
    BY <1>10 DEF BeginInv
  <2> QED  BY <2>1, <2>2, <2>3 DEF BeginInv
<1>17. OrderInv'
  <2>1. \A i \in DOMAIN q : IsLine(q[i])
    BY <1>3, ItemKinds
  <2>2. Ordered(net'[r]) /\ Ordered(net'[s])
    BY <1>9, <2>1 DEF Ordered, OrderInv
  <2>3. read_state[r].at = "idle"
    BY <1>1, <1>4 DEF OrderInv, PacketThere
  <2> QED  BY <1>1, <1>9, <1>10, <2>2, <2>3 DEF OrderInv, PacketThere
<1> QED  BY <1>10, <1>12, <1>13, <1>14, <1>15, <1>16, <1>17 DEF Reassembled

\* Reading version lines keeps the invariant.
LEMMA LineSteps ==
    ASSUME IInv, NEW s \in Side, OnIdent(s) \/ OnBadIdent(s) \/ OnJunk(s)
    PROVE  IInv'
<1> USE DEF IInv
<1>1. /\ TakeLine(s)
      /\ \/ Goto(s, "hello") /\ UNCHANGED why
         \/ /\ ~Readable(s, Head(net[s])) \/ Head(net[s]).line = "ssh1"
               \/ (Head(net[s]).line = "banner" /\ TooMuchJunk(s))
            /\ Fail(s, "ident")
         \/ UNCHANGED <<phase, why>>
  BY DEF OnIdent, OnBadIdent, OnJunk
<1>2. /\ phase[s] = "ident" /\ net[s] # <<>> /\ IsLine(Head(net[s]))
      /\ net' = [net EXCEPT ![s] = Tail(net[s])]
      /\ lines' = [lines EXCEPT ![s] = lines[s] + 1]
      /\ total' = [total EXCEPT ![s] = Head(net[s]).end]
      /\ UNCHANGED <<hello, tx, rx, off, read_state, heard, neg, sent, got>>
  BY <1>1 DEF TakeLine, dataVars
<1>3. net[s] \in Seq(Items) /\ Tail(net[s]) \in Seq(Items) /\ Head(net[s]) = net[s][1]
      /\ 1 \in DOMAIN net[s]
  BY <1>2 DEF TypeOK
<1>4. /\ net' \in [Side -> Seq(Items)] /\ net'[s] = Tail(net[s])
      /\ \A r \in Side : r # s => net'[r] = net[r]
  BY <1>2, <1>3 DEF TypeOK
<1>5. /\ lines' \in [Side -> Nat] /\ lines'[s] = lines[s] + 1 /\ lines[s] \in Nat
      /\ \A r \in Side : r # s => lines'[r] = lines[r]
  BY <1>2 DEF TypeOK
<1>6. FineLine(Head(net[s]), lines[s] + 1, hello[Other(s)])
  BY <1>2, <1>3 DEF ItemInv, Fine
<1>7. PICK x : x = Head(net[s])
  OBVIOUS
<1>8. x \in LineKinds /\ x.end \in Nat
  <2>1. x \in Items
    BY <1>2, <1>3, <1>7
  <2>2. x \in LineKinds
    BY <1>2, <1>7, <2>1, ItemKinds
  <2> QED  BY <2>2 DEF LineKinds
<1>9. /\ total' \in [Side -> Nat] /\ total'[s] = x.end
      /\ \A r \in Side : r # s => total'[r] = total[r]
  BY <1>2, <1>7, <1>8 DEF TypeOK
<1>10. /\ phase' \in [Side -> Phases] /\ why' \in [Side -> Errors]
       /\ phase'[s] \in {"hello", "failed", "ident"}
       /\ \A r \in Side : r # s => phase'[r] = phase[r] /\ why'[r] = why[r]
       /\ why'[s] = "ident" => why[s] = "ident" \/ ~Readable(s, x) \/ x.line = "ssh1"
                                \/ (x.line = "banner" /\ TooMuchJunk(s))
  BY <1>1, <1>2, <1>7 DEF Goto, Fail, TypeOK, Phases, Errors
<1>11. TypeOK'
  BY <1>2, <1>4, <1>5, <1>9, <1>10 DEF TypeOK
<1>12. Grows
  BY <1>2 DEF Grows, TypeOK, Known, Learns
<1>13. ItemInv'
  <2>1. lines'[s] = lines[s] + 1 /\ lines'[Other(s)] = lines[Other(s)]
    BY <1>5, Sides
  <2> QED  BY <1>2, <1>11, <1>12, <2>1, TakeKeepsItems
<1>14. NegInv'
  <2>1. rx'["server"].alg # "plain" => tx["client"].alg # "plain"
    BY <1>2 DEF NegInv
  <2>2. \A z \in Side : Settling(z)
    BY <1>2, <1>10 DEF Settling
  <2> QED  BY <1>2, <2>1, <2>2, NegKept
<1>15. CipherInv'
  BY <1>2, <1>10 DEF CipherInv
<1>16. BeginInv'
  <2>1. ASSUME NEW z \in Side, phase'[Other(z)] = "start"
        PROVE  net'[z] = <<>> /\ lines'[z] = 0
    <3>1. phase[Other(z)] = "start"
      BY <1>10, <2>1, Sides
    <3>2. net[z] = <<>> /\ lines[z] = 0
      BY <3>1 DEF BeginInv
    <3> QED  BY <1>2, <1>4, <1>5, <3>2
  <2>2. PICK q, n, l : q = hello[Other(s)].lines /\ n = lines[s] + 1 /\ l = lines[s]
    OBVIOUS
  <2>3. /\ q \in Seq(LineKinds) /\ Len(q) \in Nat /\ l \in Nat /\ n = l + 1
        /\ \A i \in 1..Len(q) : q[i].line = "banner" <=> i < Len(q)
    <3>1. IsPreamble(q)
      BY <2>2, HelloAssumption, Sides DEF TypeOK
    <3> QED  BY <1>5, <2>2, <3>1 DEF IsPreamble
  <2>4. n \in 1..Len(q) /\ x = q[n]
    BY <1>6, <1>7, <2>2 DEF FineLine
  <2>5. total[s] = EndOf(q, l)
    BY <2>2 DEF BeginInv
  <2>6. ASSUME why'[s] = "ident"  PROVE ~GoodHello(Other(s))
    <3>1. CASE why[s] = "ident"
      BY <3>1 DEF BeginInv
    <3>2. CASE x.line = "ssh1"
      BY <2>2, <2>3, <2>4, <3>2 DEF GoodHello
    <3>3. CASE ~Readable(s, x)
      <4>1. ~x.text \/ ~(x.end - EndOf(q, l) <= MaxLine)
        BY <2>5, <3>3 DEF Readable
      <4>2. EndOf(q, l) = (IF n = 1 THEN 0 ELSE q[n - 1].end)
        BY <2>3 DEF EndOf
      <4>3. ~GoodLine(q, n)
        BY <2>4, <4>1, <4>2 DEF GoodLine
      <4> QED  BY <2>2, <2>3, <2>4, <4>3 DEF GoodHello
    <3>4. CASE x.line = "banner" /\ TooMuchJunk(s)
      <4>1. n < Len(q)
        BY <2>3, <2>4, <3>4
      <4>2. CASE s = "server"
        <5>1. Other(s) # "server"
          BY <4>2, Sides
        <5> QED  BY <2>2, <2>3, <2>4, <3>4, <5>1 DEF GoodHello
      <4>3. CASE lines[s] + 1 > MaxLines
        <5>1. n > MaxLines
          BY <2>2, <4>3
        <5>2. ~(Len(q) - 1 <= MaxLines)
          BY <2>3, <4>1, <5>1, WireAssumption
        <5> QED  BY <2>2, <5>2 DEF GoodHello
      <4>4. CASE Head(net[s]).end > MaxTotal
        <5>1. ~(q[n].end <= MaxTotal)
          BY <1>7, <1>8, <2>4, <4>4, WireAssumption
        <5> QED  BY <2>2, <2>3, <2>4, <3>4, <5>1 DEF GoodHello
      <4> QED  BY <3>4, <4>2, <4>3, <4>4 DEF TooMuchJunk
    <3> QED  BY <1>10, <2>6, <3>1, <3>2, <3>3, <3>4
  <2>7. ASSUME NEW z \in Side, why'[z] = "ident"  PROVE ~GoodHello(Other(z))'
    BY <1>2, <1>10, <2>6, <2>7 DEF BeginInv, GoodHello
  <2>8. ASSUME NEW z \in Side  PROVE total'[z] = EndOf(hello'[Other(z)].lines, lines'[z])
    <3>1. CASE z = s
      <4>1. n # 0 /\ lines'[s] = n /\ hello'[Other(s)].lines = q /\ total'[s] = q[n].end
        BY <1>2, <1>5, <1>9, <2>2, <2>3, <2>4
      <4> QED  BY <3>1, <4>1 DEF EndOf
    <3>2. CASE z # s
      BY <1>2, <1>5, <1>9, <3>2 DEF BeginInv
    <3> QED  BY <3>1, <3>2
  <2> QED  BY <2>1, <2>7, <2>8 DEF BeginInv
<1>17. OrderInv'
  <2>1. \A r \in Side : Ordered(net'[r])
    BY <1>2, <1>3, <1>4, TailOrdered DEF OrderInv
  <2>2. read_state[s].at = "idle"
    BY <1>2 DEF OrderInv, PacketThere
  <2> QED  BY <1>2, <1>4, <2>1, <2>2 DEF OrderInv, PacketThere
<1> QED  BY <1>2, <1>11, <1>13, <1>14, <1>15, <1>16, <1>17 DEF Reassembled

\* Bytes are altered, or a reader spoils the packet it goes on into: what is
\* under way to s becomes q, item by item the same or spoilt.
LEMMA SpoilStep ==
    ASSUME IInv, NEW s \in Side, NEW q \in Seq(Items), NEW d \in {0, 1},
           net' = [net EXCEPT ![s] = q], Len(q) + d = Len(net[s]),
           \A i \in 1..Len(q) :
              \/ q[i] = net[s][i + d]
              \/ /\ ~IsLine(net[s][i + d])
                 /\ \E part \in {"length", "body"} :
                       q[i] = Damaged(net[s][i + d], part)
                       \/ q[i] \in Alterations(net[s][i + d], part),
           d = 1 => \A i \in 1..Len(q) : ~IsLine(net[s][i + d]),
           read_state[s].at # "idle" => (q # <<>> /\ ~IsLine(q[1])), off' \in [Side -> Nat],
           UNCHANGED <<hello, phase, why, lines, total, tx, rx, read_state, heard, neg, sent, got>>
    PROVE  IInv'
<1> USE DEF IInv
<1> DEFINE r == Other(s)
<1>1. r \in Side /\ r # s /\ Other(r) = s /\ \A z \in Side : z = s \/ z = r
  BY Sides
<1>2. /\ net' \in [Side -> Seq(Items)] /\ net'[s] = q /\ net'[r] = net[r]
      /\ net[s] \in Seq(Items) /\ Len(net[s]) \in Nat /\ Len(q) \in Nat
      /\ lines[s] \in Nat /\ lines[r] \in Nat /\ net[r] \in Seq(Items)
  BY <1>1, SMTT(60) DEF TypeOK
<1>3. TypeOK'
  BY <1>2 DEF TypeOK
<1>4. ASSUME NEW i \in 1..Len(q)
      PROVE  /\ i + d \in 1..Len(net[s]) /\ net[s][i + d] \in Items
             /\ IsLine(q[i]) <=> IsLine(net[s][i + d])
             /\ ~IsLine(net[s][i + d]) /\ q[i] # net[s][i + d] =>
                   FinePacket(q[i], hello[r], Known(r), sent[r])
  <2>1. i + d \in 1..Len(net[s]) /\ net[s][i + d] \in Items
    BY <1>2
  <2>2. CASE q[i] = net[s][i + d]
    BY <2>1, <2>2
  <2>3. CASE /\ ~IsLine(net[s][i + d])
             /\ \E part \in {"length", "body"} :
                   q[i] = Damaged(net[s][i + d], part)
                   \/ q[i] \in Alterations(net[s][i + d], part)
    <3>1. net[s][i + d] \in Packets
      BY <2>1, <2>3, ItemKinds
    <3>2. FinePacket(net[s][i + d], hello[r], Known(r), sent[r])
      BY <1>2, <2>1, <2>3 DEF ItemInv, Fine
    <3>3. q[i] \in Packets /\ FinePacket(q[i], hello[r], Known(r), sent[r])
      BY <2>3, <3>1, <3>2, SpoiltStaysFine
    <3> QED  BY <2>1, <2>3, <3>3, ItemKinds
  <2> QED  BY <2>2, <2>3
<1>5. ItemInv'
  <2>1. ASSUME NEW i \in DOMAIN net'[s]
        PROVE  \/ \E j \in DOMAIN net[s] :
                     net'[s][i] = net[s][j] /\ (IsLine(net[s][j]) => lines'[s] + i = lines[s] + j)
               \/ Fine(net'[s][i], lines'[s] + i, hello'[r], Known(r)', sent'[r])
    <3>1. i \in 1..Len(q) /\ net'[s][i] = q[i]
      BY <1>2
    <3>2. CASE q[i] = net[s][i + d]
      <4>1. i + d \in DOMAIN net[s] /\ (d = 0 => i + d = i)
        BY <1>2, <1>4, <3>1
      <4>2. IsLine(net[s][i + d]) => lines'[s] + i = lines[s] + (i + d)
        BY <3>1, <4>1
      <4> QED  BY <3>1, <3>2, <4>1, <4>2
    <3>3. CASE q[i] # net[s][i + d]
      <4>1. ~IsLine(net[s][i + d]) /\ ~IsLine(q[i])
        BY <1>4, <3>1, <3>3
      <4>2. FinePacket(q[i], hello'[r], Known(r)', sent'[r])
        BY <1>4, <3>1, <3>3, <4>1 DEF Known
      <4> QED  BY <3>1, <4>1, <4>2 DEF Fine
    <3> QED  BY <3>2, <3>3
  <2>2. ASSUME NEW i \in DOMAIN net'[r]
        PROVE  \E j \in DOMAIN net[r] :
                  net'[r][i] = net[r][j] /\ (IsLine(net[r][j]) => lines'[r] + i = lines[r] + j)
    BY <1>2
  <2>3. Grows
    BY DEF Grows, TypeOK, Known, Learns
  <2>4. ASSUME NEW z \in Side, NEW i \in DOMAIN net'[z]
        PROVE  \/ \E j \in DOMAIN net[z] :
                     net'[z][i] = net[z][j] /\ (IsLine(net[z][j]) => lines'[z] + i = lines[z] + j)
               \/ Fine(net'[z][i], lines'[z] + i, hello'[Other(z)], Known(Other(z))',
                       sent'[Other(z)])
    <3>1. CASE z = r
      BY <2>2, <3>1
    <3>2. CASE z = s
      BY <2>1, <3>2
    <3> QED  BY <1>1, <3>1, <3>2
  <2> QED  BY <1>3, <2>3, <2>4, ItemsKept
<1>6. NegInv' /\ CipherInv'
  <2>1. rx'["server"].alg # "plain" => tx["client"].alg # "plain"
    BY DEF NegInv
  <2>2. \A z \in Side : Settling(z)
    BY DEF Settling
  <2>3. NegInv'
    BY <2>1, <2>2, NegKept
  <2>4. CipherInv'
    BY DEF CipherInv
  <2> QED  BY <2>3, <2>4
<1>7. BeginInv'
  <2>1. ASSUME phase'[r] = "start"  PROVE net'[s] = <<>> /\ lines'[s] = 0
    <3>1. net[s] = <<>> /\ lines[s] = 0
      BY <2>1 DEF BeginInv
    <3>2. Len(q) = 0
      BY <1>2, <3>1
    <3> QED  BY <1>2, <3>1, <3>2
  <2> QED  BY <1>1, <1>2, <2>1 DEF BeginInv, GoodHello
<1>8. OrderInv'
  <2>1. Ordered(q)
    <3> SUFFICES ASSUME NEW i \in 1..Len(q), NEW j \in 1..Len(q), i < j, ~IsLine(q[i])
                 PROVE  ~IsLine(q[j])
      BY DEF Ordered
    <3>1. /\ ~IsLine(net[s][i + d]) /\ i + d \in DOMAIN net[s] /\ j + d \in DOMAIN net[s]
          /\ i + d < j + d
      BY <1>2, <1>4
    <3>2. ~IsLine(net[s][j + d])
      BY <3>1 DEF OrderInv, Ordered
    <3> QED  BY <1>4, <3>2
  <2>2. read_state'[s].at # "idle" => PacketThere(s)'
    BY <1>2 DEF PacketThere
  <2>3. Ordered(net'[r]) /\ (read_state'[r].at # "idle" => PacketThere(r)')
    BY <1>1, <1>2 DEF OrderInv, PacketThere
  <2> QED  BY <1>1, <1>2, <2>1, <2>2, <2>3 DEF OrderInv
<1> QED  BY <1>3, <1>5, <1>6, <1>7, <1>8 DEF Reassembled

\* Reading past a packet spoils the next and keeps the invariant.
LEMMA ReadOnStep ==
    ASSUME IInv, NEW s \in Side, ReadOn(s)
    PROVE  IInv'
<1> USE DEF IInv
<1> DEFINE w == Tail(net[s])
           x == Damaged(net[s][2], "body")
           q == [w EXCEPT ![1] = x]
<1>1. /\ PacketThere(s) /\ Len(net[s]) > 1 /\ net' = [net EXCEPT ![s] = q]
      /\ off' = [off EXCEPT ![s] = 0]
      /\ UNCHANGED <<hello, phase, why, lines, total, tx, rx, read_state, heard, neg, sent, got>>
  BY DEF ReadOn, kexVars, dataVars, TypeOK
<1>2. net[s] \in Seq(Items) /\ net[s] # <<>> /\ Len(net[s]) \in Nat
  BY <1>1 DEF TypeOK, PacketThere
<1>3. /\ w \in Seq(Items) /\ Len(w) = Len(net[s]) - 1 /\ 1 \in 1..Len(w)
      /\ \A i \in 1..Len(w) : i \in Int /\ w[i] = net[s][i + 1]
  BY <1>1, <1>2, TailItems
<1>4. ~IsLine(net[s][2]) /\ w[1] = net[s][2] /\ w[1] \in Packets
  <2>1. ~IsLine(net[s][1]) /\ 1 \in DOMAIN net[s] /\ 2 \in DOMAIN net[s]
    BY <1>1, <1>2 DEF PacketThere
  <2>2. ~IsLine(net[s][2])
    BY <2>1 DEF OrderInv, Ordered
  <2>3. w[1] = net[s][2] /\ net[s][2] \in Items
    BY <1>2, <1>3, <2>1
  <2> QED  BY <2>2, <2>3, ItemKinds
<1>5. x \in Packets
  BY <1>4 DEF Damaged, Packets
<1> HIDE DEF w
<1>6. x = Damaged(net[s][2], "body")
  OBVIOUS
<1> HIDE DEF x
<1>7. /\ q \in Seq(Items) /\ Len(q) = Len(w) /\ q[1] = x
      /\ \A i \in 1..Len(w) : i # 1 => q[i] = w[i]
  <2>1. x \in Items
    BY <1>5 DEF Items
  <2> QED  BY <1>3, <2>1
<1> HIDE DEF q
<1>8. \A i \in 1..Len(q) :
        \/ q[i] = net[s][i + 1]
        \/ /\ ~IsLine(net[s][i + 1])
           /\ \E part \in {"length", "body"} :
                 q[i] = Damaged(net[s][i + 1], part)
                 \/ q[i] \in Alterations(net[s][i + 1], part)
  <2> SUFFICES ASSUME NEW i \in 1..Len(q), q[i] # net[s][i + 1]
               PROVE  ~IsLine(net[s][i + 1]) /\ q[i] = Damaged(net[s][i + 1], "body")
    OBVIOUS
  <2>1. i = 1
    BY <1>3, <1>7
  <2> QED  BY <1>4, <1>6, <1>7, <2>1
<1>9. q # <<>> /\ ~IsLine(q[1])
  BY <1>3, <1>5, <1>7, ItemKinds
<1>10. off' \in [Side -> Nat] /\ Len(q) + 1 = Len(net[s])
  BY <1>1, <1>2, <1>3, <1>7 DEF TypeOK
<1>11. \A i \in 1..Len(q) : ~IsLine(net[s][i + 1])
  <2>1. \A i \in DOMAIN w : ~IsLine(w[i])
    BY <1>1, <1>2, NoLineBehind DEF w, PacketThere, OrderInv
  <2> QED  BY <1>3, <1>7, <2>1
<1> QED  BY <1>1, <1>7, <1>8, <1>9, <1>10, <1>11, SpoilStep

\* A packet altered under way keeps the invariant.
LEMMA AlterStep ==
    ASSUME IInv, NEW s \in Side, Alter(s)
    PROVE  IInv'
<1> USE DEF IInv
<1>1. PICK k \in DOMAIN net[s], part \in {"length", "body"} :
        /\ ~IsLine(net[s][k])
        /\ \E x \in Alterations(net[s][k], part) :
              net' = [net EXCEPT ![s] = [@ EXCEPT ![k] = x]]
  BY DEF Alter
<1>0. PICK x \in Alterations(net[s][k], part) : net' = [net EXCEPT ![s] = [@ EXCEPT ![k] = x]]
  BY <1>1
<1> DEFINE q == [net[s] EXCEPT ![k] = x]
<1>2. net[s] \in Seq(Items) /\ Len(net[s]) \in Nat /\ net[s][k] \in Items
  BY DEF TypeOK
<1>3. net' = [net EXCEPT ![s] = q]
  BY <1>0 DEF TypeOK
<1>4. net[s][k] \in Packets
  BY <1>1, <1>2, ItemKinds
<1>5. x \in Packets
  <2>1. FinePacket(net[s][k], hello[Other(s)], Known(Other(s)), sent[Other(s)])
    BY <1>1, <1>2 DEF ItemInv, Fine
  <2> QED  BY <1>0, <1>1, <1>4, <2>1, SpoiltStaysFine
<1>6. /\ q \in Seq(Items) /\ Len(q) = Len(net[s]) /\ q[k] = x
      /\ \A i \in 1..Len(q) : i # k => q[i] = net[s][i]
  BY <1>2, <1>5 DEF Items
<1> HIDE DEF q
<1>10. PICK d \in {0, 1} : d = 0
  OBVIOUS
<1>7. \A i \in 1..Len(q) :
        \/ q[i] = net[s][i + d]
        \/ /\ ~IsLine(net[s][i + d])
           /\ \E z \in {"length", "body"} :
                 q[i] = Damaged(net[s][i + d], z) \/ q[i] \in Alterations(net[s][i + d], z)
  <2> SUFFICES ASSUME NEW i \in 1..Len(q), q[i] # net[s][i + d]
               PROVE  ~IsLine(net[s][i + d]) /\ q[i] \in Alterations(net[s][i + d], part)
    BY <1>1
  <2>1. i + d = i /\ i = k
    BY <1>6, <1>10
  <2> QED  BY <1>0, <1>1, <1>6, <2>1
<1>8. read_state[s].at # "idle" => (q # <<>> /\ ~IsLine(q[1]))
  <2> SUFFICES ASSUME read_state[s].at # "idle"
               PROVE  q # <<>> /\ ~IsLine(q[1])
    OBVIOUS
  <2>1. net[s] # <<>> /\ ~IsLine(net[s][1])
    BY <1>2 DEF OrderInv, PacketThere
  <2>2. Len(q) # 0 /\ 1 \in 1..Len(q)
    BY <1>2, <1>6, <2>1
  <2>3. ~IsLine(q[1])
    BY <1>5, <1>6, <2>1, <2>2, ItemKinds
  <2> QED  BY <1>6, <2>2, <2>3
<1>9. /\ UNCHANGED <<hello, phase, why, lines, total, tx, rx, read_state, heard, neg, sent, got>>
      /\ off' \in [Side -> Nat] /\ Len(q) + d = Len(net[s])
  BY <1>2, <1>6, <1>10 DEF Alter, dataVars, TypeOK
<1>11. d = 1 => \A i \in 1..Len(q) : ~IsLine(net[s][i + d])
  BY <1>10
<1> QED  BY <1>3, <1>6, <1>7, <1>8, <1>9, <1>10, <1>11, SpoilStep

\* The invariant holds before the first line.
LEMMA InitInv == Init => IInv
<1> SUFFICES ASSUME Init PROVE IInv
  OBVIOUS
<1> USE DEF Init
<1>1. TypeOK
  BY FreshCiphers, IdleState DEF TypeOK, Phases, Errors
<1>2. NegInv /\ ItemInv /\ BeginInv /\ Reassembled
  BY Sides, FreshCiphers DEF NegInv, ItemInv, BeginInv, EndOf, Reassembled
<1>3. CipherInv
  BY FreshCiphers DEF CipherInv, Counts
<1>4. OrderInv
  BY IdleState DEF OrderInv, Ordered
<1> QED  BY <1>1, <1>2, <1>3, <1>4 DEF IInv

\* Every step keeps the invariant.
LEMMA NextInv == IInv /\ [Next]_vars => IInv'
<1> SUFFICES ASSUME IInv, [Next]_vars PROVE IInv'
  OBVIOUS
<1>1. CASE UNCHANGED vars
  <2> USE <1>1 DEF vars, IInv
  <2>1. TypeOK'
    BY DEF TypeOK
  <2>2. NegInv'
    BY DEF NegInv, NegotiatedFrom
  <2>3. CipherInv'
    BY DEF CipherInv
  <2>4. ItemInv'
    BY DEF ItemInv, Known
  <2>5. BeginInv'
    BY DEF BeginInv, GoodHello
  <2>6. OrderInv' /\ Reassembled'
    BY DEF OrderInv, PacketThere, Reassembled
  <2> QED  BY <2>1, <2>2, <2>3, <2>4, <2>5, <2>6
<1>2. ASSUME NEW s \in Side, Receives(s)  PROVE IInv'
  BY <1>2, LineSteps, ReadStep, ReadOnStep, HeaderStep, GiveUpSteps, KexInitStep,
     PlainTakeSteps, NewKeysStep, DataStep DEF Receives
<1>3. ASSUME NEW s \in Side, Handshake(s) \/ Cancel(s) \/ SendData(s) \/ Alter(s)
      PROVE  IInv'
  BY <1>3, SendIdentStep, SendKexInitStep, GiveUpSteps, SendDataStep, AlterStep DEF Handshake
<1>4. CASE SendShare \/ OnEcdhInit \/ OnEcdhReply \/ OnBadReply
  BY <1>4, SendShareStep, SwitchSteps, PlainTakeSteps, Sides
<1> QED  BY <1>1, <1>2, <1>3, <1>4 DEF Next

\* The invariant holds throughout.
LEMMA Invariant == Spec => []IInv
BY InitInv, NextInv, PTL DEF Spec

\* recv_raw returns the payloads send_raw was given, in their order, from the
\* first on and none twice: for any pieces a packet comes in, any number of
\* dropped reads, any lengths, and whatever is altered under way.
THEOREM RecvRawIsPrefix == Spec => []Reassembled
<1>1. IInv => Reassembled
  BY DEF IInv
<1> QED  BY <1>1, Invariant, PTL

-----------------------------------------------------------------------------
(* No false alarm.  As long as nothing is altered, what is under way to a   *)
(* side is exactly what its peer has sent and it has not yet taken of a     *)
(* stream that the two KEXINITs determine.                                  *)

\* What a side makes of the two KEXINITs, and the lines before its identification.
OutcomeOf(h, s) == negotiate(s, h[s].offer, h[Other(s)].offer)
Outcome(s) == OutcomeOf(hello, s)
Banners(h, s) == Len(h[s].lines) - 1
Guessed(h) == h["client"].offer.first_packet_follows
Wrong(h) == ~guess_right(h["client"].offer, h["server"].offer)

\* How many packets side s sends before its new keys, NEWKEYS included; which
\* they are; and the cipher of the rest.
K(h, s) == IF s = "client" /\ Guessed(h) /\ Wrong(h) THEN 4 ELSE 3
Chosen(h, s) == CHOOSE x \in OutcomeOf(h, s) : TRUE
Share(h) ==
    EcdhInit(IF Guessed(h) /\ ~Wrong(h) THEN Head(h["client"].offer.kex)
                                        ELSE Chosen(h, "client").kex)
Reply(h) == EcdhReply([client |-> {h["client"].offer}, server |-> {h["server"].offer},
                       share |-> "own"])
Message(h, s, j) ==
    IF j = 1 THEN KexInit(h[s].offer)
    ELSE IF j = K(h, s) THEN Plainly("newkeys")
    ELSE IF s = "server" THEN Reply(h)
    ELSE IF j = K(h, s) - 1 THEN Share(h)
    ELSE EcdhInit(Head(h[s].offer.kex))
DataAlg(h, s) == IF s = "client" THEN Chosen(h, s).cipher_c2s ELSE Chosen(h, s).cipher_s2c

\* The k-th line or packet from side s, and a queue of the ones after the a-th
\* up to the n-th.
StreamItem(x, h, s, k) ==
    LET j == k - Banners(h, s) - 1
    IN  IF j <= 0
          THEN IsLine(x) /\ x = h[s].lines[k]
          ELSE /\ ~IsLine(x) /\ x.bad = "none"
               /\ x.pad = Pad(x.alg, x.m.n) /\ x.len = PacketLength(x.alg, x.m.n)
               /\ IF j <= K(h, s) THEN x.alg = "plain" /\ x.nonce = 0 /\ x.m = Message(h, s, j)
                                  ELSE x.alg = DataAlg(h, s) /\ x.nonce = j - K(h, s) - 1
Stream(q, h, s, a, n) ==
    Len(q) = n - a /\ \A i \in 1..Len(q) : StreamItem(q[i], h, s, a + i)

\* Lines and packets that side s has sent, and taken.
EmittedOf(h, s, p, c, q) ==
    IF p = "start" THEN 0
    ELSE Banners(h, s) + 1 + (IF c.alg = "plain" THEN c.seq ELSE K(h, s) + Len(q))
TakenOf(h, s, l, c, q) ==
    l + (IF c.alg = "plain" THEN c.seq ELSE K(h, Other(s)) + Len(q))
Emitted(s) == EmittedOf(hello, s, phase[s], tx[s], sent[s])
Taken(s) == TakenOf(hello, s, lines[s], rx[s], got[s])
StreamInv ==
    \A s \in Side : Stream(net[s], hello, Other(s), Taken(s), Emitted(Other(s)))

\* How far a side is, by its phase: p is the phase, c a cipher, g what was
\* negotiated, l the lines read.
SentOk(h, s, p, c, g) ==
    /\ c.alg = "plain" => c.seq <= K(h, s) - 1
    /\ c.alg # "plain" => c.alg = DataAlg(h, s) /\ g # {}
    /\ (c.alg = "plain" /\ s = "client" /\ c.seq = K(h, s) - 1 /\ ~(Guessed(h) /\ ~Wrong(h))) =>
          g # {}
    /\ p \in {"start", "ident", "hello"} => c.seq = 0
    /\ p \in {"kexinit", "discard", "exchange"} =>
          c.seq = (IF s = "client" /\ Guessed(h) THEN 2 ELSE 1)
    /\ p = "reply" => s = "client" /\ c.seq = K(h, s) - 1
TakenOk(h, s, p, c) ==
    /\ c.alg # "plain" => c.alg = DataAlg(h, Other(s))
    /\ p \in {"start", "ident", "hello", "kexinit"} => c.seq = 0
    /\ p = "discard" => c.seq = 1 /\ s = "server" /\ K(h, Other(s)) = 4
    /\ p \in {"exchange", "reply"} => c.seq = K(h, Other(s)) - 2
    /\ p = "newkeys" => c.seq = K(h, Other(s)) - 1
LinesOk(h, s, p, l) ==
    /\ p \in {"start", "ident"} => l <= Banners(h, Other(s))
    /\ p \notin {"start", "ident", "failed"} => l = Banners(h, Other(s)) + 1
PhaseInv ==
    \A s \in Side : /\ SentOk(hello, s, phase[s], tx[s], neg[s])
                    /\ TakenOk(hello, s, phase[s], rx[s])
                    /\ LinesOk(hello, s, phase[s], lines[s])

\* A reader that has not failed has its bytes from the first packet x.
BytesOk(u, o, x) ==
    /\ u.at = "idle" => o = 0 /\ u.got = 0
    /\ u.at = "header" => o = u.got /\ o <= 4
    /\ u.at = "body" => o = 4 + u.got /\ o <= WireSize(x) /\ u.need = WireSize(x) - 4
BytesInv ==
    \A s \in Side : phase[s] # "failed" => BytesOk(read_state[s], off[s], Packet(s))
AlarmInv ==
    \A s \in Side :
        /\ why[s] \notin {"length", "open", "unexpected", "hostkey"}
        /\ why[s] = "negotiation" => Outcome(s) = {}

\* What a side heard is what its peer sent.
HeardInv == \A s \in Side : heard[s] \in {{}, {hello[Other(s)].offer}}

CleanInv == ~altered /\ StreamInv /\ PhaseInv /\ BytesInv /\ HeardInv /\ AlarmInv

-----------------------------------------------------------------------------
(* The stream of a side.                                                   *)

\* What negotiate yields is implemented, and is the discarding of a guess
\* exactly when the peer sends one packet more.
LEMMA OutcomeFacts ==
    ASSUME NEW h \in Hellos, NEW s \in Side, NEW x \in OutcomeOf(h, s)
    PROVE  /\ x.kex \in KexNames /\ x.cipher_c2s \in Algorithms /\ x.cipher_s2c \in Algorithms
           /\ x.discard_guess <=> K(h, Other(s)) = 4
           /\ x.kex \in choose(h["client"].offer.kex, h["server"].offer.kex)
<1> DEFINE c == h["client"].offer
           v == h["server"].offer
<1>1. IsOffer(c) /\ IsOffer(v) /\ v.first_packet_follows = FALSE
  BY HelloAssumption, PeerAssumption, Sides DEF IsOffer
<1>2. CASE s = "client"
  <2>1. x \in negotiate("client", c, v) /\ x \in Suites("client", c, v, v)
    BY <1>2, Sides DEF OutcomeOf, negotiate
  <2>2. x.discard_guess = (v.first_packet_follows /\ ~guess_right(c, v))
        /\ x.kex \in KexNames /\ x.cipher_c2s \in Algorithms /\ x.cipher_s2c \in Algorithms
        /\ x.kex \in choose(c.kex, v.kex)
    BY <2>1, SuiteFrom
  <2>3. K(h, Other(s)) = 3
    BY <1>2, Sides DEF K
  <2>4. ~x.discard_guess
    BY <1>1, <2>2
  <2> QED  BY <2>2, <2>3, <2>4
<1>3. CASE s = "server"
  <2>1. x \in negotiate("server", v, c) /\ x \in Suites("server", c, v, c)
    BY <1>3, Sides DEF OutcomeOf, negotiate
  <2>2. x.discard_guess = (c.first_packet_follows /\ ~guess_right(c, v))
        /\ x.kex \in KexNames /\ x.cipher_c2s \in Algorithms /\ x.cipher_s2c \in Algorithms
        /\ x.kex \in choose(c.kex, v.kex)
    BY <2>1, SuiteFrom
  <2>3. K(h, Other(s)) = IF c.first_packet_follows /\ ~guess_right(c, v) THEN 4 ELSE 3
    BY <1>3, Sides DEF K, Guessed, Wrong
  <2>4. CASE c.first_packet_follows /\ ~guess_right(c, v)
    <3>1. x.discard_guess
      BY <2>2, <2>4
    <3> QED  BY <2>2, <2>3, <2>4, <3>1
  <2>5. CASE ~(c.first_packet_follows /\ ~guess_right(c, v))
    <3>1. ~x.discard_guess
      BY <2>2, <2>5
    <3> QED  BY <2>2, <2>3, <2>5, <3>1
  <2> QED  BY <2>4, <2>5
<1> QED  BY <1>2, <1>3 DEF Side

\* Two ends that both get through agree on the share and the ciphers.
LEMMA ChosenFacts ==
    ASSUME NEW h \in Hellos
    PROVE  /\ \A s \in Side : OutcomeOf(h, s) # {} =>
                 Chosen(h, s) \in OutcomeOf(h, s) /\ DataAlg(h, s) \in Algorithms
           /\ (\A s \in Side : OutcomeOf(h, s) # {}) =>
                 /\ Share(h) = EcdhInit(Chosen(h, "server").kex)
                 /\ Chosen(h, "client").cipher_c2s = Chosen(h, "server").cipher_c2s
                 /\ Chosen(h, "client").cipher_s2c = Chosen(h, "server").cipher_s2c
           /\ (OutcomeOf(h, "server") # {} /\ Guessed(h) /\ ~Wrong(h)) =>
                 Share(h) = EcdhInit(Chosen(h, "server").kex)
<1> DEFINE c == h["client"].offer
           v == h["server"].offer
           x == Chosen(h, "client")
           y == Chosen(h, "server")
<1>1. \A s \in Side : OutcomeOf(h, s) # {} => Chosen(h, s) \in OutcomeOf(h, s)
  BY DEF Chosen
<1>2. \A s \in Side : OutcomeOf(h, s) # {} => DataAlg(h, s) \in Algorithms
  BY <1>1, OutcomeFacts DEF DataAlg
<1>3. ASSUME OutcomeOf(h, "server") # {}, Guessed(h) /\ ~Wrong(h)
      PROVE  Share(h) = EcdhInit(Chosen(h, "server").kex)
  <2>1. y \in OutcomeOf(h, "server")
    BY <1>1, <1>3, Sides
  <2>2. y.kex \in choose(c.kex, v.kex)
    BY <2>1, OutcomeFacts, Sides
  <2>3. IsList(c.kex) /\ IsList(v.kex)
    BY HelloAssumption, Sides DEF IsOffer
  <2>4. Head(c.kex) = Head(v.kex)
    BY <1>3 DEF Wrong, guess_right
  <2>5. y.kex = Head(c.kex)
    BY <2>2, <2>3, <2>4, RightGuess
  <2> QED  BY <1>3, <2>5 DEF Share
<1>4. ASSUME \A s \in Side : OutcomeOf(h, s) # {}
      PROVE  /\ Share(h) = EcdhInit(Chosen(h, "server").kex)
             /\ x.cipher_c2s = y.cipher_c2s /\ x.cipher_s2c = y.cipher_s2c
  <2>1. x \in OutcomeOf(h, "client") /\ y \in OutcomeOf(h, "server")
    BY <1>1, <1>4, Sides
  <2>2. x \in negotiate("client", c, v) /\ y \in negotiate("server", v, c)
    BY <2>1, Sides DEF OutcomeOf
  <2>3. IsOffer(c)
    BY HelloAssumption, Sides
  <2> HIDE DEF x, y, c, v
  <2>4. x.kex = y.kex /\ x.cipher_c2s = y.cipher_c2s /\ x.cipher_s2c = y.cipher_s2c
    BY <2>2, <2>3, BothChooseAlike
  <2>5. CASE Guessed(h) /\ ~Wrong(h)
    BY <1>3, <1>4, <2>4, <2>5, Sides
  <2>6. CASE ~(Guessed(h) /\ ~Wrong(h))
    BY <2>4, <2>6 DEF Share, x, y
  <2> QED  BY <2>4, <2>5, <2>6
<1> QED  BY <1>1, <1>2, <1>3, <1>4

\* A side's lines: some banners, and one more.
LEMMA BannerFacts ==
    ASSUME NEW h \in Hellos, NEW s \in Side
    PROVE  /\ Banners(h, s) \in Nat /\ Len(h[s].lines) = Banners(h, s) + 1
           /\ h[s].lines \in Seq(LineKinds)
           /\ \A i \in 1..(Banners(h, s) + 1) :
                 h[s].lines[i].line = "banner" <=> i <= Banners(h, s)
<1>1. IsPreamble(h[s].lines)
  BY HelloAssumption
<1>2. PICK q : q = h[s].lines
  OBVIOUS
<1>3. q \in Seq(LineKinds) /\ q # <<>> /\ \A i \in 1..Len(q) : q[i].line = "banner" <=> i < Len(q)
  BY <1>1, <1>2 DEF IsPreamble
<1>4. PICK n : n = Len(q)
  OBVIOUS
<1>5. n \in Nat /\ n >= 1 /\ Banners(h, s) = n - 1
  BY <1>2, <1>3, <1>4 DEF Banners
<1>6. PICK b : b = Banners(h, s)
  OBVIOUS
<1>7. b \in Nat /\ n = b + 1 /\ \A i \in 1..(b + 1) : i < n <=> i <= b
  BY <1>5, <1>6
<1> QED  BY <1>2, <1>3, <1>4, <1>6, <1>7

\* Only a client that guessed wrong sends a fourth packet before its data.
LEMMA KFacts ==
    /\ \A h, s : K(h, s) \in {3, 4}
    /\ \A h : K(h, "server") = 3 /\ (K(h, "client") = 4 <=> Guessed(h) /\ Wrong(h))
BY DEF K

\* What a message of the handshake is, by its place.
LEMMA MessageFacts ==
    ASSUME NEW h, NEW s \in Side
    PROVE  /\ Message(h, s, 1) = KexInit(h[s].offer)
           /\ Message(h, s, K(h, s)) = Plainly("newkeys")
           /\ s = "client" => Message(h, s, K(h, s) - 1) = Share(h)
           /\ s = "server" => Message(h, s, 2) = Reply(h)
           /\ s = "client" /\ Guessed(h) => Message(h, s, 2) = EcdhInit(Head(h[s].offer.kex))
<1>1. K(h, s) \in {3, 4}
  BY KFacts
<1>2. s = "client" /\ Guessed(h) => Message(h, s, 2) = EcdhInit(Head(h[s].offer.kex))
  <2>1. CASE s = "client" /\ Guessed(h) /\ Wrong(h)
    BY <2>1 DEF Message, K
  <2>2. CASE s = "client" /\ Guessed(h) /\ ~Wrong(h)
    BY <2>2 DEF Message, K, Share
  <2> QED  BY <2>1, <2>2
<1>3. s = "server" => K(h, s) = 3
  BY KFacts
<1> QED  BY <1>1, <1>2, <1>3 DEF Message

\* The stream from the next item on.
LEMMA StreamTail ==
    ASSUME NEW q \in Seq(Items), q # <<>>, NEW h, NEW s, NEW a \in Int, NEW n \in Int,
           Stream(q, h, s, a, n)
    PROVE  Stream(Tail(q), h, s, a + 1, n)
<1>1. Len(Tail(q)) = Len(q) - 1 /\ Len(q) \in Nat
  BY TailItems
<1>2. ASSUME NEW i \in 1..Len(Tail(q))
      PROVE  StreamItem(Tail(q)[i], h, s, (a + 1) + i)
  <2>1. i \in DOMAIN Tail(q) /\ i \in Int
    BY TailItems
  <2>2. i + 1 \in 1..Len(q) /\ Tail(q)[i] = q[i + 1]
    BY <2>1, TailItems
  <2>3. a + (i + 1) = (a + 1) + i
    BY <2>1
  <2> QED  BY <2>2, <2>3 DEF Stream
<1> QED  BY <1>1, <1>2 DEF Stream

\* The stream with more items at its end.
LEMMA StreamMore ==
    ASSUME NEW q \in Seq(Items), NEW ps \in Seq(Items), NEW h, NEW s, NEW a \in Int,
           NEW n \in Int, Stream(q, h, s, a, n),
           \A i \in 1..Len(ps) : StreamItem(ps[i], h, s, n + i)
    PROVE  Stream(q \o ps, h, s, a, n + Len(ps))
<1>1. /\ Len(q \o ps) = Len(q) + Len(ps) /\ Len(q) \in Nat /\ Len(ps) \in Nat
      /\ \A i \in 1..Len(q) : (q \o ps)[i] = q[i]
      /\ \A i \in 1..(Len(q) + Len(ps)) : i \notin 1..Len(q) =>
            i - Len(q) \in 1..Len(ps) /\ (q \o ps)[i] = ps[i - Len(q)]
  OBVIOUS
<1>2. ASSUME NEW i \in 1..(Len(q) + Len(ps))
      PROVE  StreamItem((q \o ps)[i], h, s, a + i)
  <2>1. CASE i \in 1..Len(q)
    BY <1>1, <2>1 DEF Stream
  <2>2. CASE i \notin 1..Len(q)
    <3>1. Len(q) = n - a
      BY DEF Stream
    <3>2. n + (i - Len(q)) = a + i
      BY <1>1, <3>1
    <3> QED  BY <1>1, <2>2, <3>2
  <2> QED  BY <2>1, <2>2
<1>3. Len(q \o ps) = (n + Len(ps)) - a
  BY <1>1 DEF Stream
<1> QED  BY <1>1, <1>2, <1>3 DEF Stream

\* What is sealed goes on with the stream.
LEMMA SealedStream ==
    ASSUME NEW h \in Hellos, NEW s \in Side, NEW c \in Ciphers, NEW ms \in Seq(Messages),
           NEW j0 \in Nat, NEW i \in 1..Len(ms),
           \/ c.alg = "plain" /\ j0 + i <= K(h, s) /\ ms[i] = Message(h, s, j0 + i)
           \/ /\ c.alg = DataAlg(h, s) /\ c.alg # "plain" /\ j0 >= K(h, s)
              /\ Nonce(c) = j0 - K(h, s)
    PROVE  StreamItem(Sealed(c, ms)[i], h, s, Banners(h, s) + 1 + j0 + i)
<1> DEFINE x == Sealed(c, ms)[i]
           k == Banners(h, s) + 1 + j0 + i
           j == k - Banners(h, s) - 1
           d == After(c, i - 1)
<1>1. Banners(h, s) \in Nat /\ K(h, s) \in Nat
  BY BannerFacts, KFacts
<1>2. j = j0 + i /\ ~(j <= 0) /\ i \in Int
  BY <1>1, SMTT(60)
<1>3. /\ x \in Packets /\ x.m = ms[i] /\ x.alg = c.alg /\ x.bad = "none"
      /\ c.alg # "plain" => x.nonce = Nonce(c) + i - 1
      /\ x = seal(d, ms[i])
  BY SealedType
<1>4. /\ d \in Ciphers /\ d.alg = c.alg
      /\ c.alg = "plain" => Nonce(d) = 0
  <2>1. i - 1 \in Nat
    OBVIOUS
  <2> QED  BY <2>1, CipherMoves
<1>5. x.pad = Pad(x.alg, x.m.n) /\ x.len = PacketLength(x.alg, x.m.n)
      /\ x.nonce = Nonce(d)
  BY <1>3, <1>4 DEF seal
<1>6. ~IsLine(x)
  BY <1>3, ItemKinds
<1>7. Nonce(c) \in Nat
  BY CipherMoves
<1> HIDE DEF x, k, d
<1> HIDE DEF j
<1>8. IF j <= K(h, s) THEN x.alg = "plain" /\ x.nonce = 0 /\ x.m = Message(h, s, j)
                      ELSE x.alg = DataAlg(h, s) /\ x.nonce = j - K(h, s) - 1
  <2>1. CASE c.alg = "plain" /\ j0 + i <= K(h, s) /\ ms[i] = Message(h, s, j0 + i)
    BY <1>2, <1>3, <1>4, <1>5, <2>1
  <2>2. CASE /\ c.alg = DataAlg(h, s) /\ c.alg # "plain" /\ j0 >= K(h, s)
             /\ Nonce(c) = j0 - K(h, s)
    <3>1. ~(j <= K(h, s))
      BY <1>1, <1>2, <2>2
    <3>2. x.nonce = j - K(h, s) - 1
      BY <1>1, <1>2, <1>3, <1>7, <2>2
    <3> QED  BY <1>3, <2>2, <3>1, <3>2
  <2> QED  BY <2>1, <2>2
<1>9. ~(k - Banners(h, s) - 1 <= 0)
  BY <1>2 DEF j
<1>10. StreamItem(x, h, s, k)
  BY <1>3, <1>5, <1>6, <1>8, <1>9 DEF StreamItem, j
<1> QED  BY <1>10 DEF x, k

-----------------------------------------------------------------------------
(* What a reader finds as long as nothing is altered.                       *)

\* How much each side has read and sent are numbers.
LEMMA CountFacts ==
    ASSUME IInv, NEW s \in Side
    PROVE  /\ Taken(s) \in Nat /\ Emitted(s) \in Nat /\ K(hello, s) \in {3, 4}
           /\ tx[s].seq \in Nat /\ rx[s].seq \in Nat /\ Len(sent[s]) \in Nat /\ Len(got[s]) \in Nat
           /\ Banners(hello, s) \in Nat /\ lines[s] \in Nat /\ hello \in Hellos
           /\ net[s] \in Seq(Items) /\ Other(s) \in Side
<1>1. /\ tx[s].seq \in Nat /\ rx[s].seq \in Nat /\ Len(sent[s]) \in Nat /\ Len(got[s]) \in Nat
      /\ lines[s] \in Nat /\ hello \in Hellos /\ net[s] \in Seq(Items)
  BY DEF IInv, TypeOK, Ciphers
<1>2. Banners(hello, s) \in Nat
  BY <1>1, BannerFacts
<1>3. K(hello, s) \in {3, 4} /\ K(hello, Other(s)) \in {3, 4} /\ Other(s) \in Side
  BY KFacts, Sides
<1>4. Taken(s) \in Nat
  <2>1. CASE rx[s].alg = "plain"
    BY <1>1, <2>1 DEF Taken, TakenOf
  <2>2. CASE rx[s].alg # "plain"
    BY <1>1, <1>3, <2>2 DEF Taken, TakenOf
  <2> QED  BY <2>1, <2>2
<1>5. Emitted(s) \in Nat
  <2>1. CASE phase[s] = "start"
    BY <2>1 DEF Emitted, EmittedOf
  <2>2. CASE phase[s] # "start" /\ tx[s].alg = "plain"
    BY <1>1, <1>2, <2>2 DEF Emitted, EmittedOf
  <2>3. CASE phase[s] # "start" /\ tx[s].alg # "plain"
    BY <1>1, <1>2, <1>3, <2>3, SMTT(60) DEF Emitted, EmittedOf
  <2> QED  BY <2>1, <2>2, <2>3
<1> QED  BY <1>1, <1>2, <1>3, <1>4, <1>5

\* The lengths of our own messages are accepted.
LEMMA OwnLengths ==
    ASSUME NEW a \in Framings, NEW m \in Messages
    PROVE  /\ check_length(a, PacketLength(a, m.n))
           /\ PaddingOk(PacketLength(a, m.n), Pad(a, m.n))
           /\ PacketLength(a, m.n) \in Nat
<1>1. m.n \in Nat /\ m.n + 20 <= MAX_PACKET
  <2>2. \A k : \A n \in Sizes : Data(k, n).n + 20 <= MAX_PACKET
    BY SizesAssumption DEF Data
  <2>3. 21 <= MAX_PACKET
    BY DEF MAX_PACKET
  <2>4. m.n + 20 <= MAX_PACKET
    <3>1. CASE m.n = 1
      BY <2>3, <3>1
    <3>2. CASE \E i \in Nat, n \in Sizes : m = Data(i, n)
      BY <2>2, <3>2
    <3> QED  BY <3>1, <3>2, MessageSizes
  <2> QED  BY <2>4, MessageSizes
<1>2. Pad(a, m.n) \in Nat /\ Pad(a, m.n) < MIN_PAD + Align(a) /\ Align(a) \in {8, 16}
  BY <1>1, Padding, BlockSizes
<1>3. PacketLength(a, m.n) \in Nat /\ PacketLength(a, m.n) <= MAX_PACKET
  BY <1>1, <1>2 DEF PacketLength, MIN_PAD, MAX_PACKET
<1> QED  BY <1>1, <1>3, FramesFit

\* Arithmetic of the items read.
LEMMA Shifted ==
    \A l, b, q \in Nat : l = b + 1 => ((l + q) + 1) - b - 1 = q + 1
OBVIOUS

\* Arithmetic of the items sent.
LEMMA Ahead ==
    \A l, b, e, q \in Nat : (l = b + 1 /\ (b + 1 + e) - (l + q) >= 1) => q + 1 <= e + 0
OBVIOUS

\* The packet at the head is unaltered, in the state of the reader's cipher, with
\* a length and a padding the reader accepts, and the next of the handshake.
LEMMA HeadMatches ==
    ASSUME IInv, CleanInv, NEW s \in Side, Reading(s), PacketThere(s)
    PROVE  /\ Packet(s) \in Packets /\ Packet(s).bad = "none" /\ Matches(rx[s], Packet(s))
           /\ check_length(rx[s].alg, Packet(s).len)
           /\ PaddingOk(Packet(s).len, Packet(s).pad)
           /\ WireSize(Packet(s)) > 4
           /\ rx[s].alg = "plain" =>
                 rx[s].seq + 1 <= K(hello, Other(s))
                 /\ Packet(s).m = Message(hello, Other(s), rx[s].seq + 1)
                 /\ rx[s].seq + 1 <= tx[Other(s)].seq + (IF tx[Other(s)].alg = "plain" THEN 0 ELSE 4)
<1> DEFINE r == Other(s)
           x == Packet(s)
           k == Taken(s) + 1
           j == k - Banners(hello, r) - 1
           n == K(hello, r)
<1> USE DEF CleanInv
<1>1. x \in Packets /\ x = net[s][1] /\ net[s] \in Seq(Items) /\ Len(net[s]) >= 1 /\ ~IsLine(x)
  <2>1. /\ x \in Packets /\ x = net[s][1] /\ net[s] \in Seq(Items)
    BY PacketSizes DEF IInv
  <2> QED  BY <2>1, ItemKinds DEF PacketThere
<1>2. /\ r \in Side /\ Taken(s) \in Nat /\ Emitted(r) \in Nat /\ n \in {3, 4}
      /\ tx[r].seq \in Nat /\ rx[s].seq \in Nat /\ Len(got[s]) \in Nat /\ Len(sent[r]) \in Nat
      /\ Banners(hello, r) \in Nat /\ lines[s] \in Nat
  BY CountFacts, Sides
<1>3. StreamItem(x, hello, r, k) /\ Len(net[s]) = Emitted(r) - Taken(s)
  BY <1>1, <1>2 DEF StreamInv, Stream
<1>4. phase[s] \in {"kexinit", "discard", "reply", "newkeys", "open", "exchange"}
  BY DEF Reading
<1>5. lines[s] = Banners(hello, r) + 1
  BY <1>4 DEF PhaseInv, LinesOk
<1>6. /\ rx[s].alg = "plain" <=> phase[s] # "open"
      /\ rx[s].alg = "plain" => rx[s].seq + 1 <= n
  <2>1. (rx[s].alg = "plain" <=> phase[s] # "open") /\ TakenOk(hello, s, phase[s], rx[s])
    BY <1>4 DEF IInv, CipherInv, PhaseInv
  <2>2. PICK z : z = rx[s].seq
    OBVIOUS
  <2>3. PICK d : d = n
    OBVIOUS
  <2>4. phase[s] # "open" => z \in {0, 1, d - 2, d - 1}
    BY <1>4, <2>1, <2>2, <2>3 DEF TakenOk
  <2>5. d \in {3, 4} /\ z \in Nat
    BY <1>2, <2>2, <2>3
  <2>6. phase[s] # "open" => z + 1 <= d
    BY <2>4, <2>5
  <2> HIDE DEF n
  <2> QED  BY <2>1, <2>2, <2>3, <2>6
<1>7. /\ rx[s].alg = "plain" => j = rx[s].seq + 1 /\ Taken(s) = lines[s] + rx[s].seq
      /\ rx[s].alg # "plain" => j = n + Len(got[s]) + 1
      /\ j \in Int /\ j > 0
  <2>1. CASE rx[s].alg = "plain"
    <3>1. Taken(s) = lines[s] + rx[s].seq
      BY <2>1 DEF Taken, TakenOf
    <3>2. ((lines[s] + rx[s].seq) + 1) - Banners(hello, r) - 1 = rx[s].seq + 1
      <4>1. lines[s] \in Nat /\ Banners(hello, r) \in Nat /\ rx[s].seq \in Nat
        BY <1>2
      <4> HIDE DEF k, j, n
      <4> QED  BY <4>1, <1>5, Shifted
    <3>3. k = (lines[s] + rx[s].seq) + 1
      BY <3>1
    <3> HIDE DEF k
    <3>4. j = rx[s].seq + 1
      BY <3>2, <3>3
    <3> HIDE DEF j
    <3> QED  BY <1>2, <2>1, <3>1, <3>4
  <2>2. CASE rx[s].alg # "plain"
    <3> DEFINE m == n + Len(got[s])
    <3>1. Taken(s) = lines[s] + m
      BY <2>2 DEF Taken, TakenOf
    <3> HIDE DEF n
    <3>2. m \in Nat
      BY <1>2
    <3> HIDE DEF m
    <3>3. ((lines[s] + m) + 1) - Banners(hello, r) - 1 = m + 1
      BY <1>2, <1>5, <3>2, Shifted, SMTT(60)
    <3>4. k = (lines[s] + m) + 1
      BY <3>1
    <3> HIDE DEF k
    <3>5. j = m + 1
      BY <3>3, <3>4
    <3> HIDE DEF j
    <3> QED  BY <1>2, <2>2, <3>2, <3>5 DEF m
  <2> QED  BY <2>1, <2>2
<1>8. /\ x.bad = "none" /\ x.pad = Pad(x.alg, x.m.n) /\ x.len = PacketLength(x.alg, x.m.n)
      /\ IF j <= n THEN x.alg = "plain" /\ x.nonce = 0 /\ x.m = Message(hello, r, j)
                   ELSE x.alg = DataAlg(hello, r) /\ x.nonce = j - n - 1
  <2>1. ~(k - Banners(hello, r) - 1 <= 0)
    BY <1>2, <1>7
  <2>2. StreamItem(x, hello, r, k)
    BY <1>3
  <2> HIDE DEF x, k, r
  <2> QED  BY <2>1, <2>2 DEF StreamItem
<1> HIDE DEF j, n
<1>9. Matches(rx[s], x)
  <2>1. CASE rx[s].alg = "plain"
    BY <1>6, <1>7, <1>8, <2>1 DEF Matches, Nonce
  <2>2. CASE rx[s].alg # "plain"
    <3>1. Nonce(rx[s]) = Len(got[s]) /\ rx[s].alg = DataAlg(hello, r)
      BY <2>2 DEF IInv, CipherInv, Counts, PhaseInv, TakenOk
    <3>2. ~(j <= n) /\ j - n - 1 = Len(got[s])
      BY <1>2, <1>7, <2>2
    <3> QED  BY <1>8, <3>1, <3>2 DEF Matches
  <2> QED  BY <2>1, <2>2
<1>10. x.alg = rx[s].alg /\ x.alg \in Framings /\ x.m \in Messages
  BY <1>1, <1>9 DEF Matches, Packets
<1>11. /\ check_length(rx[s].alg, x.len) /\ PaddingOk(x.len, x.pad) /\ x.len \in Nat
  BY <1>8, <1>10, OwnLengths
<1>12. WireSize(x) > 4
  BY <1>11 DEF WireSize, body_len, TagLen, TAG_LEN, check_length, MIN_PAD
<1>13. rx[s].alg = "plain" => x.m = Message(hello, r, rx[s].seq + 1)
  BY <1>6, <1>7, <1>8
<1>14. rx[s].alg = "plain" =>
          rx[s].seq + 1 <= tx[r].seq + (IF tx[r].alg = "plain" THEN 0 ELSE 4)
  <2>1. CASE tx[r].alg = "plain" /\ rx[s].alg = "plain"
    <3>1. CASE phase[r] = "start"
      BY <1>1, <1>2, <3>1, Sides DEF IInv, BeginInv
    <3>2. CASE phase[r] # "start"
      <4>1. Emitted(r) = Banners(hello, r) + 1 + tx[r].seq
        BY <2>1, <3>2 DEF Emitted, EmittedOf
      <4>2. Taken(s) = lines[s] + rx[s].seq
        BY <1>7, <2>1
      <4>3. (Banners(hello, r) + 1 + tx[r].seq) - (lines[s] + rx[s].seq) >= 1
        BY <1>1, <1>3, <4>1, <4>2
      <4> QED  BY <1>2, <1>5, <2>1, <4>3, Ahead
    <3> QED  BY <3>1, <3>2
  <2>2. CASE tx[r].alg # "plain"
    BY <1>2, <1>6, <2>2, SMTT(60)
  <2> QED  BY <2>1, <2>2
<1> QED  BY <1>1, <1>6, <1>8, <1>9, <1>11, <1>12, <1>13, <1>14 DEF n

-----------------------------------------------------------------------------
(* How a step of side s keeps the stream and the rest of CleanInv.          *)

\* What a side hears it hears from its peer.
HearsTruly == \A r \in Side : heard'[r] = heard[r] \/ heard'[r] = {hello[Other(r)].offer}

\* The other side only finds more in its queue.
OnlySide(s) ==
    /\ hello' = hello /\ altered' = altered /\ HearsTruly
    /\ \A r \in Side : r # s =>
          /\ phase'[r] = phase[r] /\ why'[r] = why[r] /\ lines'[r] = lines[r]
          /\ tx'[r] = tx[r] /\ rx'[r] = rx[r] /\ neg'[r] = neg[r]
          /\ off'[r] = off[r] /\ read_state'[r] = read_state[r]
          /\ sent'[r] = sent[r] /\ got'[r] = got[r]
          /\ net'[r] = net[r] \/ \E ps \in Seq(Items) : net'[r] = net[r] \o ps

\* The queue to side r, whose sender e has sent n and which r has taken a of,
\* before and after a step.
QueueStep(q, q1, h, e, a, a1, n, n1) ==
    \/ q1 = q /\ a1 = a /\ n1 = n
    \/ q # <<>> /\ q1 = Tail(q) /\ a1 = a + 1 /\ n1 = n
    \/ /\ a1 = a
       /\ \E ps \in Seq(Items) :
             /\ q1 = q \o ps /\ n1 = n + Len(ps)
             /\ \A i \in 1..Len(ps) : StreamItem(ps[i], h, e, n + i)

\* Taking the first or adding the next items keeps a stream in order.
LEMMA QueueKept ==
    ASSUME NEW q \in Seq(Items), NEW q1, NEW h, NEW e, NEW a \in Int, NEW a1, NEW n \in Int,
           NEW n1, QueueStep(q, q1, h, e, a, a1, n, n1), Stream(q, h, e, a, n)
    PROVE  Stream(q1, h, e, a1, n1)
<1>1. CASE q1 = q /\ a1 = a /\ n1 = n
  BY <1>1
<1>2. CASE q # <<>> /\ q1 = Tail(q) /\ a1 = a + 1 /\ n1 = n
  BY <1>2, StreamTail
<1>3. CASE /\ a1 = a
           /\ \E ps \in Seq(Items) :
                 /\ q1 = q \o ps /\ n1 = n + Len(ps)
                 /\ \A i \in 1..Len(ps) : StreamItem(ps[i], h, e, n + i)
  BY <1>3, StreamMore
<1> QED  BY <1>1, <1>2, <1>3 DEF QueueStep

\* What a step of s leaves of why[s].
Alarm(s) ==
    \/ why'[s] = why[s] \/ why'[s] \in {"eof", "ident"}
    \/ why'[s] = "negotiation" /\ Outcome(s) = {}

\* A step of one side keeps CleanInv when it does so at that side.
LEMMA CleanStep ==
    ASSUME IInv, CleanInv, NEW s \in Side, OnlySide(s), Alarm(s),
           SentOk(hello, s, phase'[s], tx'[s], neg'[s]),
           TakenOk(hello, s, phase'[s], rx'[s]),
           LinesOk(hello, s, phase'[s], lines'[s]),
           (phase'[s] = "failed" \/ BytesOk(read_state'[s], off'[s], Packet(s)')),
           QueueStep(net[s], net'[s], hello, Other(s), Taken(s), Taken(s)',
                                 Emitted(Other(s)), Emitted(Other(s))'),
           QueueStep(net[Other(s)], net'[Other(s)], hello, s, Taken(Other(s)),
                                 Taken(Other(s))', Emitted(s), Emitted(s)')
    PROVE  CleanInv'
<1> USE DEF CleanInv
<1>1. ~altered' /\ hello' = hello
  BY DEF OnlySide, HearsTruly
<1>2. StreamInv'
  <2> SUFFICES ASSUME NEW r \in Side
               PROVE  Stream(net'[r], hello', Other(r), Taken(r)', Emitted(Other(r))')
    BY <1>1 DEF StreamInv
  <2>1. Stream(net[r], hello, Other(r), Taken(r), Emitted(Other(r)))
    BY DEF StreamInv
  <2>2. net[r] \in Seq(Items) /\ Taken(r) \in Int /\ Emitted(Other(r)) \in Int
    BY CountFacts, Sides
  <2>3. QueueStep(net[r], net'[r], hello, Other(r), Taken(r), Taken(r)',
                  Emitted(Other(r)), Emitted(Other(r))')
    <3>1. CASE r = s
      BY <3>1
    <3>2. CASE r = Other(s)
      <4>1. Other(r) = s
        BY <3>2, Sides
      <4> QED  BY <3>2, <4>1
    <3> QED  BY <3>1, <3>2, Sides
  <2> QED  BY <1>1, <2>1, <2>2, <2>3, QueueKept
<1>3. PhaseInv'
  <2> SUFFICES ASSUME NEW r \in Side
               PROVE  /\ SentOk(hello, r, phase'[r], tx'[r], neg'[r])
                      /\ TakenOk(hello, r, phase'[r], rx'[r])
                      /\ LinesOk(hello, r, phase'[r], lines'[r])
    BY <1>1 DEF PhaseInv
  <2>1. CASE r = s
    BY <2>1
  <2>2. CASE r # s
    BY <2>2 DEF OnlySide, PhaseInv
  <2> QED  BY <2>1, <2>2
<1>4. BytesInv'
  <2> SUFFICES ASSUME NEW r \in Side, phase'[r] # "failed"
               PROVE  BytesOk(read_state'[r], off'[r], Packet(r)')
    BY <1>1 DEF BytesInv
  <2>1. CASE r = s
    BY <2>1
  <2>2. CASE r # s
    <3>1. /\ read_state'[r] = read_state[r] /\ off'[r] = off[r] /\ phase'[r] = phase[r]
          /\ net'[r] = net[r] \/ \E ps \in Seq(Items) : net'[r] = net[r] \o ps
      BY <2>2 DEF OnlySide, HearsTruly
    <3>2. BytesOk(read_state[r], off[r], Packet(r))
      BY <3>1 DEF BytesInv
    <3>3. CASE read_state[r].at # "body"
      BY <3>1, <3>2, <3>3 DEF BytesOk
    <3>4. CASE read_state[r].at = "body"
      <4>1. net[r] # <<>> /\ net[r] \in Seq(Items)
        BY <3>4 DEF IInv, TypeOK, OrderInv, PacketThere
      <4>2. Head(net'[r]) = Head(net[r])
        BY <3>1, <4>1
      <4>3. Packet(r)' = Packet(r)
        BY <4>2 DEF Packet
      <4> QED  BY <3>1, <3>2, <4>3
    <3> QED  BY <3>3, <3>4
  <2> QED  BY <2>1, <2>2
<1>5. AlarmInv'
  <2>1. Outcome(s)' = Outcome(s) /\ \A r \in Side : Outcome(r)' = Outcome(r)
    BY <1>1 DEF Outcome
  <2> SUFFICES ASSUME NEW r \in Side
               PROVE  /\ why'[r] \notin {"length", "open", "unexpected", "hostkey"}
                      /\ why'[r] = "negotiation" => Outcome(r) = {}
    BY <1>1, <2>1 DEF AlarmInv
  <2>2. CASE r = s
    BY <2>2 DEF Alarm, AlarmInv
  <2>3. CASE r # s
    BY <2>3 DEF OnlySide, AlarmInv
  <2> QED  BY <2>2, <2>3
<1>6. HeardInv'
  BY <1>1 DEF HeardInv, OnlySide, HearsTruly
<1> QED  BY <1>1, <1>2, <1>3, <1>4, <1>5, <1>6

\* A side that fails keeps what is known of its place.
LEMMA Failing ==
    \A h, s, p, c, g, l :
        /\ SentOk(h, s, p, c, g) => SentOk(h, s, "failed", c, g)
        /\ TakenOk(h, s, p, c) => TakenOk(h, s, "failed", c)
        /\ LinesOk(h, s, "failed", l)
BY DEF SentOk, TakenOk, LinesOk

\* A reader that gets no further than its own read_state, or gives up.
LEMMA CleanQuiet ==
    ASSUME IInv, CleanInv, NEW s \in Side, Alarm(s),
           UNCHANGED <<hello, altered, lines, tx, rx, net, neg, heard, sent, got>>,
           \A r \in Side : r # s => /\ off'[r] = off[r] /\ read_state'[r] = read_state[r]
                                    /\ why'[r] = why[r],
           \/ phase' = phase /\ (BytesOk(read_state'[s], off'[s], Packet(s)))
           \/ phase' = [phase EXCEPT ![s] = "failed"] /\ phase[s] # "start"
    PROVE  CleanInv'
<1>1. phase \in [Side -> Phases] /\ Other(s) \in Side /\ Other(s) # s
  BY Sides DEF IInv, TypeOK
<1>2. /\ SentOk(hello, s, phase[s], tx[s], neg[s]) /\ TakenOk(hello, s, phase[s], rx[s])
      /\ LinesOk(hello, s, phase[s], lines[s])
  BY DEF CleanInv, PhaseInv
<1>3. phase'[s] = phase[s] \/ phase'[s] = "failed"
  BY <1>1
<1>4. OnlySide(s)
  BY <1>1 DEF OnlySide, HearsTruly
<1>5. /\ SentOk(hello, s, phase'[s], tx'[s], neg'[s]) /\ TakenOk(hello, s, phase'[s], rx'[s])
      /\ LinesOk(hello, s, phase'[s], lines'[s])
  <2>1. CASE phase'[s] = phase[s]
    BY <1>2, <2>1
  <2>2. CASE phase'[s] = "failed"
    BY <1>2, <2>2, Failing
  <2> QED  BY <1>3, <2>1, <2>2
<1>6. (phase'[s] = "failed" \/ BytesOk(read_state'[s], off'[s], Packet(s)'))
  <2>1. Packet(s)' = Packet(s)
    BY DEF Packet
  <2> QED  BY <1>1, <2>1
<1>7. \A r \in Side : Taken(r)' = Taken(r) /\ Emitted(r)' = Emitted(r) /\ net'[r] = net[r]
  <2>1. \A r \in Side : phase'[r] = phase[r] \/ (phase'[r] # "start" /\ phase[r] # "start")
    BY <1>1
  <2> QED  BY <2>1 DEF Taken, Emitted, EmittedOf
<1>8. \A r \in Side : QueueStep(net[r], net'[r], hello, Other(r), Taken(r), Taken(r)',
                                Emitted(Other(r)), Emitted(Other(r))')
  BY <1>7, Sides DEF QueueStep
<1>9. QueueStep(net[Other(s)], net'[Other(s)], hello, s, Taken(Other(s)),
                Taken(Other(s))', Emitted(s), Emitted(s)')
  BY <1>8, Sides
<1> QED  BY <1>4, <1>5, <1>6, <1>8, <1>9, CleanStep

\* A read raises no alarm.
LEMMA CleanRead ==
    ASSUME IInv, CleanInv, NEW s \in Side, Read(s)
    PROVE  CleanInv'
<1> DEFINE u == read_state[s]
           x == Packet(s)
<1>1. u \in ReadStates /\ off[s] \in Nat /\ u.got \in Nat /\ u.need \in Nat
      /\ u.at \in {"idle", "header", "body"} /\ WireSize(x) \in Nat
  BY PacketSizes DEF IInv, TypeOK, ReadStates, Read
<1>2. PICK n \in {Ready(s)} \cup (IF read_state[s].got = 0 THEN ReadSizes ELSE {}) :
        /\ n <= Ready(s)
        /\ read_state' = [read_state EXCEPT ![s] =
                            [at |-> IF @.at = "idle" THEN "header" ELSE @.at,
                             got |-> @.got + n, need |-> @.need]]
        /\ off' = [off EXCEPT ![s] = @ + n]
  BY DEF Read
<1>3. Ready(s) \in Int /\ Ready(s) <= Want(s) /\ Ready(s) <= WireSize(x) - off[s] /\ Want(s) \in Int
  BY <1>1 DEF Ready, Want
<1>4. n \in Nat
  BY <1>2, <1>3, WireAssumption DEF Read
<1>5. read_state \in [Side -> ReadStates] /\ off \in [Side -> Nat]
  BY DEF IInv, TypeOK
<1>6. /\ read_state'[s].at = (IF u.at = "idle" THEN "header" ELSE u.at)
      /\ read_state'[s].got = u.got + n /\ read_state'[s].need = u.need /\ off'[s] = off[s] + n
  BY <1>2, <1>5
<1>7. BytesOk(read_state'[s], off'[s], x)
  <2>1. phase[s] # "failed"
    BY DEF Read, Reading
  <2>2. BytesOk(u, off[s], x)
    BY <2>1 DEF CleanInv, BytesInv
  <2> HIDE DEF u, x
  <2>3. CASE u.at = "idle"
    <3>1. off[s] = 0 /\ u.got = 0 /\ Want(s) = 4
      BY <2>2, <2>3 DEF BytesOk, Want, u
    <3> QED  BY <1>2, <1>3, <1>4, <1>6, <2>3, <3>1 DEF BytesOk
  <2>4. CASE u.at = "header"
    <3>1. off[s] = u.got /\ Want(s) = 4 - u.got
      BY <2>2, <2>4 DEF BytesOk, Want, u
    <3>2. off[s] + n <= 4
      BY <1>1, <1>2, <1>3, <1>4, <3>1
    <3> QED  BY <1>6, <2>4, <3>1, <3>2 DEF BytesOk
  <2>5. CASE u.at = "body"
    <3>1. off[s] = 4 + u.got /\ u.need = WireSize(x) - 4
      BY <2>2, <2>5 DEF BytesOk
    <3>2. off[s] + n <= WireSize(x)
      BY <1>1, <1>2, <1>3, <1>4
    <3>3. off[s] + n = 4 + (u.got + n)
      BY <1>1, <1>4, <3>1
    <3> QED  BY <1>6, <2>5, <3>1, <3>2, <3>3 DEF BytesOk
  <2> QED  BY <1>1, <2>3, <2>4, <2>5
<1>8. /\ UNCHANGED <<hello, altered, lines, tx, rx, net, neg, heard, sent, got, phase, why>>
  BY DEF Read, kexVars, dataVars
<1>9. \A r \in Side : r # s => off'[r] = off[r] /\ read_state'[r] = read_state[r]
  BY <1>2, <1>5
<1>10. Alarm(s)
  BY <1>8 DEF Alarm
<1> QED  BY <1>7, <1>8, <1>9, <1>10, CleanQuiet

\* A reader with its header complete finds it readable, and of an accepted length.
LEMMA CleanHeader ==
    ASSUME IInv, CleanInv, NEW s \in Side, HeaderRead(s)
    PROVE  /\ LengthReadable(s) /\ check_length(rx[s].alg, Packet(s).len)
           /\ off[s] = 4 /\ WireSize(Packet(s)) > 4 /\ WireSize(Packet(s)) \in Nat
           /\ body_len(rx[s].alg, Packet(s).len) = WireSize(Packet(s)) - 4
<1> DEFINE u == read_state[s]
<1>1. u \in ReadStates /\ off[s] \in Nat /\ u.got \in Nat
  BY DEF IInv, TypeOK, ReadStates
<1>2. PacketThere(s) /\ phase[s] # "failed" /\ Reading(s) /\ u.at = "header" /\ Want(s) = 0
  BY DEF HeaderRead, Reading, IInv, OrderInv
<1>3. off[s] = 4
  <2>1. off[s] = u.got
    BY <1>2 DEF CleanInv, BytesInv, BytesOk
  <2>2. Want(s) = 4 - u.got
    BY <1>2 DEF Want
  <2> QED  BY <1>1, <1>2, <2>1, <2>2
<1>4. /\ Packet(s) \in Packets /\ Packet(s).bad = "none" /\ Matches(rx[s], Packet(s))
      /\ check_length(rx[s].alg, Packet(s).len) /\ WireSize(Packet(s)) > 4
  BY <1>2, HeadMatches
<1>5. LengthReadable(s)
  BY <1>3, <1>4 DEF LengthReadable
<1>6. WireSize(Packet(s)) \in Nat
  BY <1>2, PacketSizes DEF IInv
<1>7. WireSize(Packet(s)) = 4 + body_len(rx[s].alg, Packet(s).len)
      /\ body_len(rx[s].alg, Packet(s).len) \in Int
  <2>1. Packet(s).len \in Nat /\ rx[s].alg = Packet(s).alg
    BY <1>4 DEF Packets, Matches
  <2> QED  BY <2>1 DEF WireSize, body_len, TagLen, TAG_LEN
<1> QED  BY <1>3, <1>4, <1>5, <1>6, <1>7

\* A header is one the peer sealed, so its length passes.
LEMMA CleanOnHeader ==
    ASSUME IInv, CleanInv, NEW s \in Side, OnHeader(s)
    PROVE  CleanInv'
<1>1. UNCHANGED <<hello, altered, lines, tx, rx, net, neg, heard, sent, got, off>> /\ HeaderRead(s)
  BY DEF OnHeader, kexVars, dataVars
<1>2. /\ read_state \in [Side -> ReadStates] /\ phase \in [Side -> Phases]
      /\ why \in [Side -> Errors] /\ phase[s] # "start"
  BY <1>1 DEF IInv, TypeOK, HeaderRead, Reading
<1>3. \A r \in Side : r # s => read_state'[r] = read_state[r] /\ why'[r] = why[r]
  BY <1>2 DEF OnHeader, ToBody, Fail
<1>4. /\ LengthReadable(s) /\ check_length(rx[s].alg, Packet(s).len)
      /\ off[s] = 4 /\ WireSize(Packet(s)) > 4 /\ WireSize(Packet(s)) \in Nat
      /\ body_len(rx[s].alg, Packet(s).len) = WireSize(Packet(s)) - 4
  BY <1>1, CleanHeader
<1>5. ToBody(s, Packet(s).len)
  BY <1>4 DEF OnHeader
<1>6. /\ phase' = phase /\ why' = why /\ read_state'[s].at = "body" /\ read_state'[s].got = 0
      /\ read_state'[s].need = WireSize(Packet(s)) - 4
  BY <1>2, <1>4, <1>5 DEF ToBody
<1>7. BytesOk(read_state'[s], off'[s], Packet(s))
  BY <1>1, <1>4, <1>6 DEF BytesOk
<1>8. Alarm(s)
  BY <1>6 DEF Alarm
<1> QED  BY <1>1, <1>3, <1>6, <1>7, <1>8, CleanQuiet

\* A reader that has a whole body finds that it opens.
LEMMA CleanBody ==
    ASSUME IInv, CleanInv, NEW s \in Side, BodyRead(s)
    PROVE  Opens(s) /\ PacketThere(s) /\ Reading(s)
<1>1. PacketThere(s) /\ Reading(s)
  BY DEF BodyRead, IInv, OrderInv
<1> QED  BY <1>1, HeadMatches DEF Opens

\* recv_raw finds no bad length and no bad packet; it may find the end.
LEMMA CleanGiveUp ==
    ASSUME IInv, CleanInv, NEW s \in Side, OnBadHeader(s) \/ OpenFails(s) \/ OnEof(s) \/ Cancel(s)
    PROVE  CleanInv'
<1>1. /\ UNCHANGED <<hello, altered, lines, tx, rx, net, neg, heard, sent, got, off>>
  BY DEF OnBadHeader, OpenFails, OnEof, Cancel, kexVars, dataVars
<1>2. /\ read_state \in [Side -> ReadStates] /\ phase \in [Side -> Phases]
      /\ why \in [Side -> Errors]
  BY DEF IInv, TypeOK
<1>3. ~OnBadHeader(s)
  BY CleanHeader DEF OnBadHeader
<1>4. ~OpenFails(s)
  BY CleanBody DEF OpenFails
<1>5. CASE OnEof(s)
  <2>1. /\ phase' = [phase EXCEPT ![s] = "failed"] /\ why' = [why EXCEPT ![s] = "eof"]
        /\ read_state' = read_state /\ phase[s] # "start"
    BY <1>5 DEF OnEof, Fail, Goto, Reading
  <2>2. Alarm(s)
    BY <1>2, <2>1 DEF Alarm
  <2> QED  BY <1>1, <1>2, <2>1, <2>2, CleanQuiet
<1>6. CASE Cancel(s)
  <2>1. phase' = phase /\ why' = why /\ read_state' = read_state /\ phase[s] = "open"
    BY <1>6 DEF Cancel
  <2>2. Alarm(s)
    BY <2>1 DEF Alarm
  <2>3. BytesOk(read_state'[s], off'[s], Packet(s))
    BY <1>1, <2>1 DEF CleanInv, BytesInv
  <2> QED  BY <1>1, <2>1, <2>2, <2>3, CleanQuiet
<1> QED  BY <1>3, <1>4, <1>5, <1>6

\* A body never runs on into the next packet.
LEMMA CleanReadOn ==
    ASSUME IInv, CleanInv, NEW s \in Side
    PROVE  ~ReadOn(s)
<1> SUFFICES ASSUME ReadOn(s) PROVE FALSE
  OBVIOUS
<1> DEFINE u == read_state[s]
<1>1. /\ u.at \in {"idle", "header", "body"} /\ u.got \in Nat /\ u.need \in Nat
      /\ off[s] \in Nat /\ WireSize(Packet(s)) \in Nat
  BY PacketSizes DEF IInv, TypeOK, ReadStates, ReadOn
<1>2. BytesOk(u, off[s], Packet(s)) /\ u.at # "idle" /\ Want(s) > 0
      /\ off[s] = WireSize(Packet(s))
  BY DEF CleanInv, BytesInv, ReadOn, Reading
<1>3. WireSize(Packet(s)) > 4
  BY HeadMatches DEF ReadOn
<1>4. CASE u.at = "header"
  BY <1>1, <1>2, <1>3, <1>4 DEF BytesOk
<1>5. CASE u.at = "body"
  <2>1. Want(s) = u.need - u.got
    BY <1>5 DEF Want
  <2> QED  BY <1>1, <1>2, <1>5, <2>1 DEF BytesOk
<1> QED  BY <1>1, <1>2, <1>4, <1>5

-----------------------------------------------------------------------------
(* A line or a packet is taken.                                             *)

\* A side that takes the first item keeps CleanInv when its place allows.
LEMMA CleanTake ==
    ASSUME IInv, CleanInv, NEW s \in Side, Alarm(s), net[s] # <<>>, HearsTruly,
           net' = [net EXCEPT ![s] = Tail(@)], UNCHANGED <<hello, altered, tx, sent>>,
           \A r \in Side : r # s =>
              /\ phase'[r] = phase[r] /\ why'[r] = why[r] /\ lines'[r] = lines[r]
              /\ rx'[r] = rx[r] /\ neg'[r] = neg[r] /\ got'[r] = got[r]
              /\ off'[r] = off[r] /\ read_state'[r] = read_state[r],
           phase[s] # "start", phase'[s] # "start",
           SentOk(hello, s, phase'[s], tx[s], neg'[s]),
           TakenOk(hello, s, phase'[s], rx'[s]),
           LinesOk(hello, s, phase'[s], lines'[s]), Taken(s)' = Taken(s) + 1,
           \/ phase'[s] = "failed"
           \/ off'[s] = 0 /\ read_state'[s].at = "idle" /\ read_state'[s].got = 0
    PROVE  CleanInv'
<1>1. net \in [Side -> Seq(Items)] /\ Other(s) \in Side /\ Other(s) # s
  BY Sides DEF IInv, TypeOK
<1>2. net'[s] = Tail(net[s]) /\ \A r \in Side : r # s => net'[r] = net[r]
  BY <1>1
<1>3. OnlySide(s)
  BY <1>2 DEF OnlySide, HearsTruly
<1>4. \A r \in Side : Emitted(r)' = Emitted(r)
  <2>1. \A r \in Side : phase'[r] = phase[r] \/ (phase'[r] # "start" /\ phase[r] # "start")
    OBVIOUS
  <2> QED  BY <2>1 DEF Emitted, EmittedOf
<1>5. Taken(Other(s))' = Taken(Other(s))
  BY <1>1 DEF Taken
<1>6. QueueStep(net[s], net'[s], hello, Other(s), Taken(s), Taken(s)',
                            Emitted(Other(s)), Emitted(Other(s))')
  BY <1>1, <1>2, <1>4 DEF QueueStep
<1>7. QueueStep(net[Other(s)], net'[Other(s)], hello, s, Taken(Other(s)),
                Taken(Other(s))', Emitted(s), Emitted(s)')
  BY <1>1, <1>2, <1>4, <1>5 DEF QueueStep
<1>8. (phase'[s] = "failed" \/ BytesOk(read_state'[s], off'[s], Packet(s)'))
  BY DEF BytesOk
<1> QED  BY <1>3, <1>6, <1>7, <1>8, CleanStep

\* Version lines raise no alarm among peers that follow the protocol.
LEMMA CleanLines ==
    ASSUME IInv, CleanInv, NEW s \in Side, OnIdent(s) \/ OnBadIdent(s) \/ OnJunk(s)
    PROVE  CleanInv'
<1> DEFINE r == Other(s)
           x == Head(net[s])
           b == Banners(hello, r)
<1>1. TakeLine(s)
  BY DEF OnIdent, OnBadIdent, OnJunk
<1>2. /\ phase[s] = "ident" /\ net[s] # <<>> /\ IsLine(x)
      /\ net' = [net EXCEPT ![s] = Tail(@)] /\ lines' = [lines EXCEPT ![s] = @ + 1]
      /\ UNCHANGED <<hello, tx, rx, off, read_state, heard, neg, cancels, altered, sent, got>>
  BY <1>1 DEF TakeLine, dataVars
<1>3. /\ phase \in [Side -> Phases] /\ why \in [Side -> Errors] /\ lines \in [Side -> Nat]
      /\ net[s] \in Seq(Items)
  BY DEF IInv, TypeOK
<1>4. \A q \in Side : q # s => phase'[q] = phase[q] /\ why'[q] = why[q] /\ lines'[q] = lines[q]
  BY <1>2, <1>3 DEF OnIdent, OnBadIdent, OnJunk, Fail, Goto
<1>5. /\ \/ why'[s] = why[s] \/ why'[s] = "ident"
      /\ \/ phase'[s] = "hello" /\ x.line = "ssh2"
         \/ phase'[s] = "ident" /\ x.line = "banner"
         \/ phase'[s] = "failed"
  BY <1>2, <1>3 DEF OnIdent, OnBadIdent, OnJunk, Fail, Goto
<1>6. /\ SentOk(hello, s, "ident", tx[s], neg[s]) /\ TakenOk(hello, s, "ident", rx[s])
      /\ LinesOk(hello, s, "ident", lines[s])
  BY <1>2 DEF CleanInv, PhaseInv
<1>7. SentOk(hello, s, phase'[s], tx[s], neg'[s]) /\ TakenOk(hello, s, phase'[s], rx'[s])
  <2>1. CASE phase'[s] = "failed"
    BY <1>2, <1>6, <2>1, Failing
  <2>2. CASE phase'[s] \in {"hello", "ident"}
    BY <1>2, <1>6, <2>2 DEF SentOk, TakenOk
  <2> QED  BY <1>5, <2>1, <2>2
<1>8. Taken(s)' = Taken(s) + 1
  <2>1. rx[s].alg = "plain" /\ rx[s].seq \in Nat /\ lines[s] \in Nat /\ lines'[s] = lines[s] + 1
    BY <1>2, <1>3, CountFacts DEF IInv, CipherInv
  <2>2. Taken(s) = lines[s] + rx[s].seq /\ Taken(s)' = lines'[s] + rx[s].seq
    BY <1>2, <2>1 DEF Taken, TakenOf
  <2> QED  BY <2>1, <2>2
<1>9. LinesOk(hello, s, phase'[s], lines'[s])
  <2>1. /\ rx[s].alg = "plain" /\ rx[s].seq = 0 /\ lines[s] \in Nat /\ lines'[s] = lines[s] + 1
        /\ b \in Nat /\ hello \in Hellos /\ r \in Side
    BY <1>2, <1>3, <1>6, CountFacts, Sides DEF IInv, CipherInv, TakenOk
  <2>2. lines[s] <= b
    BY <1>6 DEF LinesOk
  <2>3. x = hello[r].lines[lines[s] + 1]
    <3>1. 1 \in DOMAIN net[s] /\ x = net[s][1]
      BY <1>2, <1>3
    <3>2. FineLine(x, lines[s] + 1, hello[r])
      BY <1>2, <3>1 DEF IInv, ItemInv, Fine
    <3> QED  BY <3>2 DEF FineLine
  <2>4. PICK l : l = lines[s]
    OBVIOUS
  <2>5. x.line = "banner" <=> l + 1 <= b
    <3>1. \A i \in 1..(b + 1) : hello[r].lines[i].line = "banner" <=> i <= b
      BY <2>1, BannerFacts
    <3> HIDE DEF b, x
    <3>2. l + 1 \in 1..(b + 1)
      BY <2>1, <2>2, <2>4
    <3> QED  BY <2>3, <2>4, <3>1, <3>2
  <2>6. CASE phase'[s] = "hello" /\ x.line = "ssh2"
    <3> HIDE DEF b, x
    <3>1. l + 1 = b + 1
      BY <2>1, <2>2, <2>4, <2>5, <2>6
    <3> QED  BY <2>1, <2>4, <2>6, <3>1 DEF LinesOk, b
  <2>7. CASE phase'[s] = "ident" /\ x.line = "banner"
    BY <2>1, <2>4, <2>5, <2>7 DEF LinesOk
  <2>8. CASE phase'[s] = "failed"
    BY <2>8 DEF LinesOk
  <2> QED  BY <1>5, <2>6, <2>7, <2>8
<1>10. off'[s] = 0 /\ read_state'[s].at = "idle" /\ read_state'[s].got = 0
  <2>1. read_state[s].at = "idle"
    BY <1>2 DEF IInv, OrderInv, PacketThere
  <2> QED  BY <1>2, <2>1 DEF CleanInv, BytesInv, BytesOk
<1>11. Alarm(s) /\ HearsTruly
  BY <1>2, <1>5 DEF Alarm, HearsTruly
<1>12. phase[s] # "start" /\ phase'[s] # "start"
  BY <1>2, <1>5
<1> QED  BY <1>2, <1>4, <1>7, <1>8, <1>9, <1>10, <1>11, <1>12, CleanTake

\* Every packet before the new keys is the one the handshake is at.
LEMMA PlainTaken ==
    ASSUME IInv, NEW s \in Side, rx[s].alg = "plain",
           hello' = hello, lines' = lines, got' = got, rx' = [rx EXCEPT ![s] = Bump(@)]
    PROVE  /\ Taken(s)' = Taken(s) + 1 /\ rx'[s].seq = rx[s].seq + 1 /\ rx'[s].alg = "plain"
           /\ rx[s].seq \in Nat
<1>1. rx \in [Side -> Ciphers] /\ rx[s].seq \in Nat /\ lines[s] \in Nat
  BY CountFacts DEF IInv, TypeOK
<1>2. rx'[s] = Bump(rx[s])
  BY <1>1
<1>3. rx'[s].alg = "plain" /\ rx'[s].seq = rx[s].seq + 1
  BY <1>2 DEF Bump, After
<1>4. Taken(s) = lines[s] + rx[s].seq /\ Taken(s)' = lines[s] + rx'[s].seq
  BY <1>3 DEF Taken, TakenOf
<1> QED  BY <1>1, <1>3, <1>4

\* What a side negotiated is what the two KEXINITs come to.
LEMMA NegotiatedIsChosen ==
    ASSUME IInv, CleanInv, NEW s \in Side, neg[s] # {}
    PROVE  /\ neg[s] = OutcomeOf(hello, s) /\ OutcomeOf(hello, s) # {}
           /\ Negotiated(s) = Chosen(hello, s) /\ hello \in Hellos
           /\ heard[s] = {hello[Other(s)].offer}
<1>1. PICK o : NegotiatedFrom(s, o)
  BY DEF IInv, NegInv
<1>2. heard[s] \in {{}, {hello[Other(s)].offer}}
  BY DEF CleanInv, HeardInv
<1>3. heard[s] = {hello[Other(s)].offer} /\ neg[s] = negotiate(s, hello[s].offer, hello[Other(s)].offer)
  BY <1>1, <1>2 DEF NegotiatedFrom
<1> QED  BY <1>3 DEF OutcomeOf, Negotiated, Chosen, IInv, TypeOK

\* A packet opened leaves the read state idle.
LEMMA TookPacket ==
    ASSUME IInv, NEW s \in Side, Took(s)
    PROVE  /\ off'[s] = 0 /\ read_state'[s].at = "idle" /\ read_state'[s].got = 0
           /\ \A r \in Side : r # s => off'[r] = off[r] /\ read_state'[r] = read_state[r]
BY DEF IInv, TypeOK, Took, Idle

\* A KEXINIT comes where it is expected.
LEMMA CleanKexInit ==
    ASSUME IInv, CleanInv, NEW s \in Side, OnKexInit(s)
    PROVE  CleanInv'
<1> DEFINE c == tx[s]
           g == OutcomeOf(hello, s)
<1>1. /\ Opened(s) /\ phase[s] = "kexinit" /\ Returned(s).kind = "kexinit" /\ Took(s)
      /\ neg' = [neg EXCEPT ![s] = negotiate(s, hello[s].offer, Returned(s).offer)]
      /\ heard' = [heard EXCEPT ![s] = {Returned(s).offer}]
      /\ net' = [net EXCEPT ![s] = Rest(s)] /\ rx' = [rx EXCEPT ![s] = Bump(@)]
      /\ UNCHANGED <<hello, lines, tx, altered, sent, got>>
  BY DEF OnKexInit, dataVars
<1>2. /\ phase \in [Side -> Phases] /\ why \in [Side -> Errors] /\ rx \in [Side -> Ciphers]
      /\ DOMAIN neg = Side /\ hello \in Hellos /\ DOMAIN heard = Side
  BY DEF IInv, TypeOK
<1>3. net[s] # <<>> /\ Returned(s).offer = hello[Other(s)].offer
  <2>1. /\ net[s] # <<>> /\ Returned(s) = Packet(s).m /\ Reading(s) /\ PacketThere(s)
    BY <1>1, OpenedPacket, CleanBody DEF Opened
  <2>2. rx[s].alg = "plain" /\ rx[s].seq = 0
    BY <1>1 DEF IInv, CipherInv, CleanInv, PhaseInv, TakenOk
  <2>3. Packet(s).m = Message(hello, Other(s), 1)
    <3>1. Packet(s).m = Message(hello, Other(s), rx[s].seq + 1)
      BY <2>1, <2>2, HeadMatches
    <3> QED  BY <2>2, <3>1
  <2>4. Packet(s).m = KexInit(hello[Other(s)].offer)
    BY <2>3, MessageFacts, Sides
  <2> QED  BY <2>1, <2>4 DEF KexInit
<1>4. neg'[s] = g /\ (\A r \in Side : r # s => neg'[r] = neg[r]) /\ HearsTruly
  BY <1>1, <1>2, <1>3 DEF OutcomeOf, HearsTruly
<1>5. /\ \A r \in Side : r # s => phase'[r] = phase[r] /\ why'[r] = why[r] /\ rx'[r] = rx[r]
      /\ \/ g = {} /\ phase'[s] = "failed" /\ why'[s] = "negotiation"
         \/ (\E x \in g : x.discard_guess) /\ phase'[s] = "discard" /\ why'[s] = why[s]
         \/ g # {} /\ ~(\E x \in g : x.discard_guess) /\ phase'[s] = "exchange" /\ why'[s] = why[s]
  BY <1>1, <1>2, <1>4 DEF OnKexInit, Fail, Goto
<1>6. rx[s].alg = "plain"
  BY <1>1 DEF IInv, CipherInv
<1>7. Taken(s)' = Taken(s) + 1 /\ rx'[s].seq = rx[s].seq + 1 /\ rx'[s].alg = "plain"
  BY <1>1, <1>6, PlainTaken
<1>8. /\ SentOk(hello, s, "kexinit", c, neg[s]) /\ TakenOk(hello, s, "kexinit", rx[s])
      /\ LinesOk(hello, s, "kexinit", lines[s])
  BY <1>1 DEF CleanInv, PhaseInv
<1>9. c.alg = "plain" /\ rx'[s].seq = 1
  BY <1>1, <1>7, <1>8 DEF IInv, CipherInv, TakenOk
<1>10. K(hello, "client") \in {3, 4} /\ K(hello, "server") = 3
       /\ (K(hello, "client") = 4 <=> Guessed(hello) /\ Wrong(hello))
  BY KFacts
<1> HIDE DEF c, g
<1>11. SentOk(hello, s, phase'[s], c, g)
  <2>1. c.seq = (IF s = "client" /\ Guessed(hello) THEN 2 ELSE 1) /\ c.seq <= K(hello, s) - 1
    BY <1>8, <1>9 DEF SentOk
  <2>2. s = "client" => (c.seq = K(hello, s) - 1 => Guessed(hello) /\ ~Wrong(hello))
    BY <1>10, <2>1
  <2> QED  BY <1>5, <1>9, <2>1, <2>2 DEF SentOk
<1>12. TakenOk(hello, s, phase'[s], rx'[s])
  <2>1. CASE phase'[s] = "failed"
    BY <1>7, <2>1 DEF TakenOk
  <2>2. CASE phase'[s] = "discard"
    <3>1. PICK x \in g : x.discard_guess
      BY <1>5, <2>2
    <3>2. K(hello, Other(s)) = 4
      BY <1>2, <3>1, OutcomeFacts DEF g
    <3>3. s = "server"
      BY <1>10, <3>2, Sides DEF Side
    <3> QED  BY <1>7, <1>9, <2>2, <3>2, <3>3 DEF TakenOk
  <2>3. CASE phase'[s] = "exchange"
    <3>1. PICK x \in g : ~x.discard_guess
      BY <1>5, <2>3
    <3>2. K(hello, Other(s)) # 4
      BY <1>2, <3>1, OutcomeFacts DEF g
    <3>3. K(hello, Other(s)) = 3
      BY <3>2, KFacts
    <3> QED  BY <1>7, <1>9, <2>3, <3>3 DEF TakenOk
  <2> QED  BY <1>5, <2>1, <2>2, <2>3
<1>13. LinesOk(hello, s, phase'[s], lines'[s])
  BY <1>1, <1>5, <1>8 DEF LinesOk
<1>14. Alarm(s)
  BY <1>5 DEF Alarm, Outcome, g
<1>15. phase[s] # "start" /\ phase'[s] # "start"
  BY <1>1, <1>5
<1>16. net' = [net EXCEPT ![s] = Tail(@)]
  BY <1>1 DEF Rest
<1> QED  BY <1>1, <1>3, <1>4, <1>5, <1>7, <1>11, <1>12, <1>13, <1>14, <1>15, <1>16,
            TookPacket, CleanTake DEF c

\* A packet is taken and nothing but the phase of the reader depends on it.
LEMMA CleanPacket ==
    ASSUME IInv, CleanInv, NEW s \in Side, Opened(s), Took(s), Alarm(s), NEW p,
           net' = [net EXCEPT ![s] = Rest(s)], phase' = [phase EXCEPT ![s] = p],
           UNCHANGED <<hello, altered, tx, sent, lines, neg, heard>>,
           \A r \in Side : r # s => why'[r] = why[r] /\ rx'[r] = rx[r] /\ got'[r] = got[r],
           p \in {"exchange", "newkeys", "open", "failed"},
           SentOk(hello, s, p, tx[s], neg[s]), TakenOk(hello, s, p, rx'[s]),
           Taken(s)' = Taken(s) + 1
    PROVE  CleanInv'
<1>1. phase \in [Side -> Phases] /\ phase'[s] = p /\ \A r \in Side : r # s => phase'[r] = phase[r]
  BY DEF IInv, TypeOK
<1>2. /\ net[s] # <<>> /\ net' = [net EXCEPT ![s] = Tail(@)]
  BY OpenedPacket DEF Rest
<1>3. phase[s] \notin {"start", "ident", "hello", "failed"}
  BY DEF Opened, BodyRead, Reading
<1>4. LinesOk(hello, s, p, lines[s])
  BY <1>3 DEF CleanInv, PhaseInv, LinesOk
<1>5. phase[s] # "start" /\ phase'[s] # "start" /\ HearsTruly
  BY <1>1, <1>3 DEF HearsTruly
<1> QED  BY <1>1, <1>2, <1>4, <1>5, TookPacket, CleanTake

\* What is discarded is the wrong guess and nothing else.
LEMMA CleanDiscard ==
    ASSUME IInv, CleanInv, NEW s \in Side, Discard(s)
    PROVE  CleanInv'
<1>1. /\ Opened(s) /\ Took(s) /\ phase[s] = "discard" /\ net' = [net EXCEPT ![s] = Rest(s)]
      /\ phase' = [phase EXCEPT ![s] = "exchange"] /\ rx' = [rx EXCEPT ![s] = Bump(@)]
      /\ UNCHANGED <<hello, altered, tx, sent, lines, neg, heard, why, got>>
  BY DEF Discard, Goto, kexVars, dataVars
<1>2. rx[s].alg = "plain" /\ tx[s].alg = "plain"
  BY <1>1 DEF IInv, CipherInv
<1>3. /\ Taken(s)' = Taken(s) + 1 /\ rx'[s].seq = rx[s].seq + 1 /\ rx'[s].alg = "plain"
  BY <1>1, <1>2, PlainTaken
<1>4. SentOk(hello, s, "discard", tx[s], neg[s]) /\ TakenOk(hello, s, "discard", rx[s])
  BY <1>1 DEF CleanInv, PhaseInv
<1>5. SentOk(hello, s, "exchange", tx[s], neg[s])
  BY <1>4 DEF SentOk
<1>6. TakenOk(hello, s, "exchange", rx'[s])
  <2>1. rx[s].seq = 1 /\ K(hello, Other(s)) = 4
    BY <1>4 DEF TakenOk
  <2> QED  BY <1>3, <2>1 DEF TakenOk
<1>7. Alarm(s) /\ \A r \in Side : r # s => rx'[r] = rx[r]
  BY <1>1 DEF Alarm, IInv, TypeOK
<1> QED  BY <1>1, <1>3, <1>5, <1>6, <1>7, CleanPacket

\* NEWKEYS comes where it is expected, and the ciphers then agree.
LEMMA CleanNewKeys ==
    ASSUME IInv, CleanInv, NEW s \in Side, OnNewKeys(s)
    PROVE  CleanInv'
<1> DEFINE r == Other(s)
<1>1. /\ Opened(s) /\ Took(s) /\ phase[s] = "newkeys" /\ net' = [net EXCEPT ![s] = Rest(s)]
      /\ phase' = [phase EXCEPT ![s] = "open"] /\ rx' = [rx EXCEPT ![s] = make(RxAlg(s))]
      /\ UNCHANGED <<hello, altered, tx, sent, lines, neg, heard, why, got>>
  BY DEF OnNewKeys, Goto, kexVars, dataVars
<1>2. /\ rx[s].alg = "plain" /\ got[s] = <<>> /\ neg[s] # {} /\ neg[r] # {}
  <2>1. tx[r].alg # "plain"
    <3>1. /\ Returned(s).kind = "newkeys" /\ Returned(s) = Packet(s).m
          /\ FinePacket(Packet(s), hello[r], Known(r), sent[r])
      BY <1>1, OpenedPacket DEF OnNewKeys
    <3> QED  BY <3>1 DEF FinePacket, Known
  <2>2. neg[r] # {}
    BY <2>1, Sides DEF CleanInv, PhaseInv, SentOk
  <2> QED  BY <1>1, <2>2 DEF IInv, CipherInv, Counts, NegInv
<1>3. SentOk(hello, s, "newkeys", tx[s], neg[s]) /\ TakenOk(hello, s, "newkeys", rx[s])
  BY <1>1 DEF CleanInv, PhaseInv
<1>4. SentOk(hello, s, "open", tx[s], neg[s])
  BY <1>3 DEF SentOk
<1>5. /\ rx'[s].alg = RxAlg(s) /\ \A q \in Side : q # s => rx'[q] = rx[q]
      /\ RxAlg(s) \in Algorithms
  BY <1>1, <1>2, NegotiatedCiphers DEF IInv, TypeOK, make
<1>6. rx'[s].alg # "plain"
  BY <1>5 DEF Algorithms
<1>7. RxAlg(s) = DataAlg(hello, r)
  <2>1. /\ Negotiated(s) = Chosen(hello, s) /\ hello \in Hellos
        /\ OutcomeOf(hello, s) # {} /\ OutcomeOf(hello, r) # {}
    BY <1>2, NegotiatedIsChosen, Sides
  <2>2. \A q \in Side : OutcomeOf(hello, q) # {}
    BY <2>1, Sides
  <2>3. /\ Chosen(hello, "client").cipher_c2s = Chosen(hello, "server").cipher_c2s
        /\ Chosen(hello, "client").cipher_s2c = Chosen(hello, "server").cipher_s2c
    BY <2>1, <2>2, ChosenFacts
  <2>4. CASE s = "client"
    BY <2>1, <2>3, <2>4, Sides DEF RxAlg, DataAlg
  <2>5. CASE s = "server"
    BY <2>1, <2>3, <2>5, Sides DEF RxAlg, DataAlg
  <2> QED  BY <2>4, <2>5 DEF Side
<1>8. TakenOk(hello, s, "open", rx'[s])
  BY <1>5, <1>7 DEF TakenOk
<1>9. Taken(s)' = Taken(s) + 1
  <2>1. rx[s].seq = K(hello, r) - 1 /\ K(hello, r) \in {3, 4} /\ lines[s] \in Nat
    BY <1>3, KFacts, CountFacts DEF TakenOk
  <2>2. Taken(s) = lines[s] + rx[s].seq
    BY <1>2 DEF Taken, TakenOf
  <2>3. Len(got[s]) = 0
    BY <1>2
  <2>4. Taken(s)' = lines[s] + (K(hello, r) + Len(got[s]))
    BY <1>1, <1>6 DEF Taken, TakenOf
  <2> QED  BY <2>1, <2>2, <2>3, <2>4
<1>10. Alarm(s)
  BY <1>1 DEF Alarm
<1> QED  BY <1>1, <1>4, <1>5, <1>8, <1>9, <1>10, CleanPacket

\* Data opens under the cipher it was sealed with.
LEMMA CleanData ==
    ASSUME IInv, CleanInv, NEW s \in Side, OnData(s)
    PROVE  CleanInv'
<1>1. /\ Opened(s) /\ Took(s) /\ phase[s] = "open" /\ net' = [net EXCEPT ![s] = Rest(s)]
      /\ phase' = phase /\ rx' = [rx EXCEPT ![s] = Bump(@)]
      /\ got' = [got EXCEPT ![s] = Append(@, Returned(s))]
      /\ UNCHANGED <<hello, altered, tx, sent, lines, neg, heard, why>>
  BY DEF OnData, kexVars, dataVars
<1>2. /\ phase \in [Side -> Phases] /\ rx \in [Side -> Ciphers] /\ got \in [Side -> Seq(Messages)]
  BY DEF IInv, TypeOK
<1>3. phase' = [phase EXCEPT ![s] = "open"]
  BY <1>1, <1>2
<1>4. /\ rx[s].alg # "plain" /\ rx'[s].alg = rx[s].alg
      /\ \A r \in Side : r # s => rx'[r] = rx[r] /\ got'[r] = got[r]
  BY <1>1, <1>2 DEF IInv, CipherInv, Bump, After
<1>5. SentOk(hello, s, "open", tx[s], neg[s]) /\ TakenOk(hello, s, "open", rx[s])
  BY <1>1 DEF CleanInv, PhaseInv
<1>6. TakenOk(hello, s, "open", rx'[s])
  BY <1>4, <1>5 DEF TakenOk
<1>7. Taken(s)' = Taken(s) + 1
  <2> DEFINE n == K(hello, Other(s))
  <2>1. n \in {3, 4} /\ lines[s] \in Nat /\ Len(got[s]) \in Nat /\ Len(got'[s]) = Len(got[s]) + 1
    BY <1>1, <1>2, KFacts, CountFacts
  <2>2. Taken(s) = lines[s] + (n + Len(got[s])) /\ Taken(s)' = lines[s] + (n + Len(got'[s]))
    BY <1>1, <1>4 DEF Taken, TakenOf
  <2> HIDE DEF n
  <2> QED  BY <2>1, <2>2
<1>8. Alarm(s)
  BY <1>1 DEF Alarm
<1> QED  BY <1>1, <1>3, <1>4, <1>5, <1>6, <1>7, <1>8, CleanPacket, ZenonT(60)

\* The packet a reader takes is the one it waits for, the share included.
LEMMA HeadExpected ==
    ASSUME IInv, CleanInv, NEW s \in Side, Opened(s)
    PROVE  Expected(s)
<1> DEFINE r == Other(s)
           k == K(hello, r)
<1>1. /\ Returned(s) = Packet(s).m /\ hello \in Hellos /\ Reading(s) /\ PacketThere(s)
      /\ phase[s] \in {"kexinit", "discard", "reply", "newkeys", "open", "exchange"}
      /\ r \in Side
  BY OpenedPacket, CleanBody, Sides DEF Opened, Reading, IInv, TypeOK
<1>2. TakenOk(hello, s, phase[s], rx[s]) /\ SentOk(hello, r, phase[r], tx[r], neg[r])
  BY <1>1 DEF CleanInv, PhaseInv
<1>3. /\ rx[s].seq \in Nat /\ tx[r].seq \in Nat /\ k \in {3, 4}
  BY <1>1, CountFacts, KFacts
<1>4. phase[s] # "open" =>
         /\ rx[s].alg = "plain" /\ Packet(s).m = Message(hello, r, rx[s].seq + 1)
         /\ rx[s].seq + 1 <= tx[r].seq + (IF tx[r].alg = "plain" THEN 0 ELSE 4)
  BY <1>1, HeadMatches DEF IInv, CipherInv
<1>5. CASE phase[s] = "kexinit"
  <2>1. Packet(s).m = KexInit(hello[r].offer)
    BY <1>1, <1>2, <1>4, <1>5, MessageFacts DEF TakenOk
  <2> QED  BY <1>1, <1>5, <2>1 DEF Expected, KexInit
<1>6. CASE phase[s] = "exchange"
  <2>1. s = "server" /\ r = "client"
    BY <1>1, <1>6, Sides DEF Reading
  <2>2. rx[s].seq + 1 = k - 1
    BY <1>2, <1>3, <1>6 DEF TakenOk
  <2>3. Packet(s).m = Share(hello)
    BY <1>1, <1>4, <1>6, <2>1, <2>2, MessageFacts
  <2>4. neg[s] # {}
    BY <1>6 DEF IInv, NegInv
  <2>5. Negotiated(s) = Chosen(hello, s) /\ OutcomeOf(hello, s) # {}
    BY <2>4, NegotiatedIsChosen
  <2>6. Share(hello) = EcdhInit(Chosen(hello, "server").kex)
    <3>1. CASE Guessed(hello) /\ ~Wrong(hello)
      BY <1>1, <2>1, <2>5, <3>1, ChosenFacts
    <3>2. CASE ~(Guessed(hello) /\ ~Wrong(hello))
      <4>1. neg[r] # {}
        <5>1. CASE tx[r].alg # "plain"
          BY <1>2, <5>1 DEF SentOk
        <5>2. CASE tx[r].alg = "plain"
          <6>1. k - 1 <= tx[r].seq /\ tx[r].seq <= k - 1
            BY <1>2, <1>3, <1>4, <1>6, <2>2, <5>2 DEF SentOk
          <6>2. tx[r].seq = K(hello, r) - 1
            BY <1>3, <6>1
          <6> QED  BY <1>2, <2>1, <3>2, <5>2, <6>2 DEF SentOk
        <5> QED  BY <5>1, <5>2
      <4>2. \A q \in Side : OutcomeOf(hello, q) # {}
        BY <1>1, <2>5, <4>1, NegotiatedIsChosen, Sides
      <4> QED  BY <1>1, <4>2, ChosenFacts
    <3> QED  BY <3>1, <3>2
  <2>7. FitsExchange(s, Returned(s))
    BY <1>1, <2>1, <2>3, <2>5, <2>6 DEF FitsExchange, EcdhInit
  <2> QED  BY <1>6, <2>7 DEF Expected
<1>7. CASE phase[s] = "reply"
  <2>1. s = "client" /\ r = "server"
    BY <1>2, <1>7, Sides DEF CleanInv, PhaseInv, SentOk
  <2>2. rx[s].seq + 1 = 2
    BY <1>2, <1>3, <1>7, <2>1, KFacts DEF TakenOk
  <2>3. Packet(s).m = Reply(hello)
    BY <1>1, <1>4, <1>7, <2>1, <2>2, MessageFacts
  <2> QED  BY <1>1, <1>7, <2>3 DEF Expected, Reply, EcdhReply
<1>8. CASE phase[s] = "newkeys"
  <2>1. rx[s].seq + 1 = k
    BY <1>2, <1>3, <1>8 DEF TakenOk
  <2>2. Packet(s).m = Plainly("newkeys")
    BY <1>1, <1>4, <1>8, <2>1, MessageFacts
  <2> QED  BY <1>1, <1>8, <2>2 DEF Expected, Plainly
<1>9. CASE phase[s] \in {"discard", "open"}
  BY <1>9 DEF Expected
<1> QED  BY <1>1, <1>5, <1>6, <1>7, <1>8, <1>9

\* Nothing unexpected arrives.
LEMMA CleanUnexpected ==
    ASSUME IInv, CleanInv, NEW s \in Side
    PROVE  ~OnUnexpected(s)
BY HeadExpected DEF OnUnexpected

\* The reply a client reads is signed over what it has seen itself.
LEMMA CleanReply ==
    ASSUME IInv, CleanInv
    PROVE  ~OnBadReply
<1> SUFFICES ASSUME OnBadReply PROVE FALSE
  OBVIOUS
<1> DEFINE s == "client"
<1>1. s \in Side /\ Other(s) = "server" /\ "server" \in Side
  BY Sides
<1>2. /\ Opened(s) /\ phase[s] = "reply" /\ Returned(s).signed # Hash("client", "own")
  BY DEF OnBadReply
<1>3. /\ Returned(s) = Packet(s).m /\ Reading(s) /\ PacketThere(s)
  BY <1>1, <1>2, OpenedPacket, CleanBody DEF Opened
<1>4. rx[s].alg = "plain" /\ TakenOk(hello, s, "reply", rx[s])
  BY <1>1, <1>2 DEF IInv, CipherInv, CleanInv, PhaseInv
<1>5. rx[s].seq = 1
  BY <1>1, <1>4, KFacts DEF TakenOk
<1>6. Packet(s).m = Message(hello, "server", 2)
  <2>1. Packet(s).m = Message(hello, Other(s), rx[s].seq + 1)
    BY <1>1, <1>3, <1>4, HeadMatches
  <2> QED  BY <1>1, <1>5, <2>1
<1>7. Packet(s).m = Reply(hello)
  BY <1>1, <1>6, MessageFacts
<1>8. heard[s] = {hello["server"].offer}
  <2>1. neg[s] # {}
    BY <1>1, <1>2 DEF IInv, NegInv
  <2> QED  BY <1>1, <2>1, NegotiatedIsChosen
<1>9. Returned(s).signed = Hash("client", "own")
  BY <1>3, <1>7, <1>8 DEF Reply, EcdhReply, Hash
<1> QED  BY <1>2, <1>9

-----------------------------------------------------------------------------
(* Something is sent.                                                       *)

\* A side that sends keeps CleanInv when its place allows.
LEMMA CleanSend ==
    ASSUME IInv, CleanInv, NEW s \in Side, NEW ps \in Seq(Items),
           net' = [net EXCEPT ![Other(s)] = @ \o ps],
           UNCHANGED <<hello, altered, why, lines, rx, neg, heard, off, read_state, got>>,
           \A r \in Side : r # s => phase'[r] = phase[r] /\ tx'[r] = tx[r] /\ sent'[r] = sent[r],
           phase[s] # "failed",
           SentOk(hello, s, phase'[s], tx'[s], neg[s]), TakenOk(hello, s, phase'[s], rx[s]),
           LinesOk(hello, s, phase'[s], lines[s]),
           Emitted(s)' = Emitted(s) + Len(ps),
           \A i \in 1..Len(ps) : StreamItem(ps[i], hello, s, Emitted(s) + i)
    PROVE  CleanInv'
<1>1. net \in [Side -> Seq(Items)] /\ Other(s) \in Side /\ Other(s) # s
      /\ \A r \in Side : r # s => r = Other(s)
  BY Sides DEF IInv, TypeOK
<1>2. net'[s] = net[s] /\ net'[Other(s)] = net[Other(s)] \o ps
  BY <1>1
<1>3. OnlySide(s)
  BY <1>1, <1>2 DEF OnlySide, HearsTruly
<1>4. \A r \in Side : Taken(r)' = Taken(r)
  BY DEF Taken
<1>5. Emitted(Other(s))' = Emitted(Other(s))
  BY <1>1 DEF Emitted
<1>6. QueueStep(net[s], net'[s], hello, Other(s), Taken(s), Taken(s)',
                Emitted(Other(s)), Emitted(Other(s))')
  BY <1>2, <1>4, <1>5 DEF QueueStep
<1>7. QueueStep(net[Other(s)], net'[Other(s)], hello, s, Taken(Other(s)),
                Taken(Other(s))', Emitted(s), Emitted(s)')
  BY <1>1, <1>2, <1>4 DEF QueueStep
<1>8. BytesOk(read_state'[s], off'[s], Packet(s)')
  <2>1. Packet(s)' = Packet(s)
    BY <1>2 DEF Packet
  <2> QED  BY <2>1 DEF CleanInv, BytesInv
<1>9. Alarm(s)
  BY DEF Alarm
<1> QED  BY <1>3, <1>6, <1>7, <1>8, <1>9, CleanStep

\* What a side has sent before the change of keys.
LEMMA PlainEmitted ==
    ASSUME NEW s \in Side, phase[s] # "start", tx[s].alg = "plain"
    PROVE  Emitted(s) = Banners(hello, s) + 1 + tx[s].seq
BY DEF Emitted, EmittedOf

\* send_raw of messages that go on with the handshake.
LEMMA CleanSendPlain ==
    ASSUME IInv, CleanInv, NEW s \in Side, NEW ms \in Seq(Messages), NEW p,
           net' = [net EXCEPT ![Other(s)] = @ \o Sealed(tx[s], ms)],
           tx' = [tx EXCEPT ![s] = After(@, Len(ms))], phase' = [phase EXCEPT ![s] = p],
           UNCHANGED <<hello, altered, why, lines, rx, neg, heard, off, read_state, got, sent>>,
           phase[s] \notin {"start", "failed"}, p # "start", tx[s].alg = "plain",
           \A i \in 1..Len(ms) :
              tx[s].seq + i <= K(hello, s) /\ ms[i] = Message(hello, s, tx[s].seq + i),
           SentOk(hello, s, p, tx'[s], neg[s]), TakenOk(hello, s, p, rx[s]),
           LinesOk(hello, s, p, lines[s])
    PROVE  CleanInv'
<1> DEFINE ps == Sealed(tx[s], ms)
           b == Banners(hello, s)
<1>1. /\ tx \in [Side -> Ciphers] /\ phase \in [Side -> Phases] /\ tx[s] \in Ciphers
      /\ tx[s].seq \in Nat /\ b \in Nat /\ hello \in Hellos
  BY CountFacts DEF IInv, TypeOK
<1>2. ps \in Seq(Items) /\ Len(ps) = Len(ms) /\ Len(ms) \in Nat
  <2>1. ps \in Seq(Packets) /\ Len(ps) = Len(ms)
    BY <1>1, SealedType
  <2> QED  BY <2>1 DEF Items
<1>3. /\ tx'[s] = After(tx[s], Len(ms)) /\ phase'[s] = p
      /\ \A r \in Side : r # s => tx'[r] = tx[r] /\ phase'[r] = phase[r]
  BY <1>1
<1>4. tx'[s].alg = "plain" /\ tx'[s].seq = tx[s].seq + Len(ms)
  BY <1>3 DEF After
<1>5. Emitted(s) = b + 1 + tx[s].seq
  BY PlainEmitted
<1>6. Emitted(s)' = b + 1 + tx'[s].seq
  BY <1>3, <1>4 DEF Emitted, EmittedOf
<1> HIDE DEF b
<1>7. Emitted(s)' = Emitted(s) + Len(ps)
  BY <1>1, <1>2, <1>4, <1>5, <1>6
<1>8. \A i \in 1..Len(ps) : StreamItem(ps[i], hello, s, Emitted(s) + i)
  <2> SUFFICES ASSUME NEW i \in 1..Len(ms) PROVE StreamItem(ps[i], hello, s, Emitted(s) + i)
    BY <1>2
  <2>1. StreamItem(ps[i], hello, s, b + 1 + tx[s].seq + i)
    BY <1>1, SealedStream DEF b
  <2> QED  BY <1>5, <2>1
<1> QED  BY <1>2, <1>3, <1>7, <1>8, CleanSend

\* A KEXINIT, and a guess after it, are the next items of the stream.
LEMMA CleanSendKexInit ==
    ASSUME IInv, CleanInv, NEW s \in Side, SendKexInit(s)
    PROVE  CleanInv'
<1> DEFINE o == hello[s].offer
           ms == IF o.first_packet_follows THEN <<KexInit(o), EcdhInit(Head(o.kex))>>
                                           ELSE <<KexInit(o)>>
           n == IF s = "client" /\ Guessed(hello) THEN 2 ELSE 1
<1>1. /\ net' = [net EXCEPT ![Other(s)] = @ \o Sealed(tx[s], ms)]
      /\ tx' = [tx EXCEPT ![s] = After(@, Len(ms))]
      /\ phase[s] = "hello" /\ phase' = [phase EXCEPT ![s] = "kexinit"]
      /\ UNCHANGED <<why, rx, off, read_state, hello, lines, neg, heard, sent, got, altered>>
  BY DEF SendKexInit, SendRaw, Goto, kexVars, dataVars
<1>2. hello \in Hellos /\ tx \in [Side -> Ciphers]
  BY DEF IInv, TypeOK
<1>3. KexInit(o) \in Messages /\ EcdhInit(Head(o.kex)) \in Messages
  <2>1. Head(o.kex) \in Shares
    BY <1>2 DEF Shares
  <2> QED  BY <1>2, <2>1, OwnMessages
<1>4. o.first_packet_follows <=> (s = "client" /\ Guessed(hello))
  <2>1. CASE s = "client"
    BY <2>1 DEF Guessed
  <2>2. CASE s = "server"
    BY <1>2, <2>2, PeerAssumption
  <2> QED  BY <2>1, <2>2 DEF Side
<1>5. ms \in Seq(Messages) /\ Len(ms) = n /\ ms[1] = KexInit(o)
      /\ (n = 2 => ms[2] = EcdhInit(Head(o.kex)))
  <2>1. CASE o.first_packet_follows
    <3>1. n = 2
      BY <1>4, <2>1
    <3>2. ms = <<KexInit(o), EcdhInit(Head(o.kex))>>
      BY <2>1
    <3> HIDE DEF ms, n
    <3> QED  BY <1>3, <3>1, <3>2
  <2>2. CASE ~o.first_packet_follows
    <3>1. n = 1
      BY <1>4, <2>2
    <3>2. ms = <<KexInit(o)>>
      BY <2>2
    <3> HIDE DEF ms, n
    <3> QED  BY <1>3, <3>1, <3>2
  <2> QED  BY <2>1, <2>2
<1>6. /\ SentOk(hello, s, "hello", tx[s], neg[s]) /\ TakenOk(hello, s, "hello", rx[s])
      /\ LinesOk(hello, s, "hello", lines[s])
  BY <1>1 DEF CleanInv, PhaseInv
<1>7. tx[s].alg = "plain" /\ tx[s].seq = 0
  BY <1>1, <1>6 DEF IInv, CipherInv, SentOk
<1>8. K(hello, s) \in {3, 4} /\ n \in {1, 2}
      /\ (s = "client" => (K(hello, s) = 4 <=> Guessed(hello) /\ Wrong(hello)))
  BY KFacts
<1> HIDE DEF ms
<1>9. \A i \in 1..Len(ms) :
         tx[s].seq + i <= K(hello, s) /\ ms[i] = Message(hello, s, tx[s].seq + i)
  <2> SUFFICES ASSUME NEW i \in 1..n
               PROVE  0 + i <= K(hello, s) /\ ms[i] = Message(hello, s, 0 + i)
    BY <1>5, <1>7
  <2>1. CASE i = 1
    BY <1>5, <1>8, <2>1, MessageFacts
  <2>2. CASE i = 2 /\ n = 2
    <3>1. s = "client" /\ Guessed(hello)
      BY <2>2
    <3> QED  BY <1>5, <1>8, <2>2, <3>1, MessageFacts
  <2> QED  BY <1>8, <2>1, <2>2
<1>10. tx'[s].alg = "plain" /\ tx'[s].seq = n
  <2>1. tx'[s] = After(tx[s], Len(ms))
    BY <1>1, <1>2
  <2> QED  BY <1>5, <1>7, <1>8, <2>1 DEF After
<1>11. SentOk(hello, s, "kexinit", tx'[s], neg[s])
  <2>1. n <= K(hello, s) - 1
    BY <1>8
  <2>2. s = "client" /\ n = K(hello, s) - 1 => Guessed(hello) /\ ~Wrong(hello)
    BY <1>8
  <2> HIDE DEF n
  <2>3. n = IF s = "client" /\ Guessed(hello) THEN 2 ELSE 1
    BY DEF n
  <2> QED  BY <1>10, <2>1, <2>2, <2>3 DEF SentOk
<1>12. /\ TakenOk(hello, s, "kexinit", rx[s])
       /\ LinesOk(hello, s, "kexinit", lines[s])
  BY <1>6 DEF TakenOk, LinesOk
<1> QED  BY <1>1, <1>5, <1>7, <1>9, <1>11, <1>12, CleanSendPlain

\* The client's share is the next item of the stream.
LEMMA CleanSendShare ==
    ASSUME IInv, CleanInv, SendShare
    PROVE  CleanInv'
<1> DEFINE s == "client"
           m == EcdhInit(Negotiated("client").kex)
           stands == GuessStands("client")
           ms == IF stands THEN <<>> ELSE <<m>>
<1>1. /\ net' = [net EXCEPT ![Other(s)] = @ \o Sealed(tx[s], ms)]
      /\ tx' = [tx EXCEPT ![s] = After(@, Len(ms))]
      /\ phase[s] = "exchange" /\ phase' = [phase EXCEPT ![s] = "reply"]
      /\ UNCHANGED <<why, rx, off, read_state, hello, lines, neg, heard, sent, got, altered>>
  BY DEF SendShare, SendRaw, Goto, kexVars, dataVars
<1>2. hello \in Hellos /\ tx \in [Side -> Ciphers] /\ s \in Side
  BY Sides DEF IInv, TypeOK
<1>3. neg[s] # {}
  BY <1>1, <1>2 DEF IInv, NegInv
<1>4. m = EcdhInit(Chosen(hello, s).kex) /\ m \in Messages
  <2>1. Negotiated(s).kex \in KexNames
    BY <1>2, <1>3, NegotiatedCiphers DEF IInv
  <2>2. Negotiated(s).kex \in Shares
    BY <2>1 DEF Shares
  <2> QED  BY <1>2, <1>3, <2>2, NegotiatedIsChosen, OwnMessages
<1>5. stands <=> (Guessed(hello) /\ ~Wrong(hello))
  <2>1. heard[s] = {hello["server"].offer}
    BY <1>2, <1>3, NegotiatedIsChosen, Sides
  <2> QED  BY <2>1 DEF GuessStands, Guessed, Wrong
<1>6. /\ SentOk(hello, s, "exchange", tx[s], neg[s]) /\ TakenOk(hello, s, "exchange", rx[s])
      /\ LinesOk(hello, s, "exchange", lines[s])
  BY <1>1, <1>2 DEF CleanInv, PhaseInv
<1>7. tx[s].alg = "plain" /\ tx[s].seq = (IF Guessed(hello) THEN 2 ELSE 1)
  BY <1>1, <1>2, <1>6 DEF IInv, CipherInv, SentOk
<1>8. K(hello, s) \in {3, 4} /\ (K(hello, s) = 4 <=> Guessed(hello) /\ Wrong(hello))
  BY KFacts
<1> HIDE DEF m, stands
<1>9. /\ ms \in Seq(Messages) /\ tx[s].seq + Len(ms) = K(hello, s) - 1
      /\ \A i \in 1..Len(ms) :
            tx[s].seq + i <= K(hello, s) /\ ms[i] = Message(hello, s, tx[s].seq + i)
  <2>1. CASE stands
    <3>1. ms = <<>> /\ Len(ms) = 0
      BY <2>1
    <3> HIDE DEF ms
    <3> QED  BY <1>5, <1>7, <1>8, <2>1, <3>1
  <2>2. CASE ~stands
    <3>1. ms = <<m>>
      BY <2>2
    <3> HIDE DEF ms
    <3>2. Len(ms) = 1 /\ ms[1] = m /\ ms \in Seq(Messages)
      BY <1>4, <3>1
    <3>3. tx[s].seq + 1 = K(hello, s) - 1
      BY <1>5, <1>7, <1>8, <2>2
    <3>4. Share(hello) = m
      BY <1>4, <1>5, <2>2 DEF Share
    <3>5. Message(hello, s, tx[s].seq + 1) = m
      BY <1>2, <3>3, <3>4, MessageFacts
    <3>6. tx[s].seq + 1 <= K(hello, s)
      BY <1>8, <3>3
    <3> QED  BY <3>2, <3>3, <3>5, <3>6
  <2> QED  BY <2>1, <2>2
<1> HIDE DEF ms
<1>10. tx'[s].alg = "plain" /\ tx'[s].seq = K(hello, s) - 1
  <2>1. tx'[s] = After(tx[s], Len(ms))
    BY <1>1, <1>2
  <2> QED  BY <1>7, <1>9, <2>1 DEF After
<1>11. SentOk(hello, s, "reply", tx'[s], neg[s])
  BY <1>3, <1>8, <1>10 DEF SentOk
<1>12. /\ TakenOk(hello, s, "reply", rx[s])
       /\ LinesOk(hello, s, "reply", lines[s])
  BY <1>6 DEF TakenOk, LinesOk
<1> QED  BY <1>1, <1>2, <1>7, <1>9, <1>11, <1>12, CleanSendPlain

\* A payload is the next item of the stream.
LEMMA CleanSendData ==
    ASSUME IInv, CleanInv, NEW s \in Side, SendData(s)
    PROVE  CleanInv'
<1> DEFINE k == K(hello, s)
           b == Banners(hello, s)
           n == Len(sent[s])
<1>1. PICK len \in Sizes :
         /\ sent' = [sent EXCEPT ![s] = Append(@, Data(Len(sent[s]) + 1, len))]
         /\ SendRaw(s, <<Data(Len(sent[s]) + 1, len)>>)
  BY DEF SendData
<1> DEFINE m == Data(n + 1, len)
           ps == Sealed(tx[s], <<m>>)
<1>2. /\ net' = [net EXCEPT ![Other(s)] = @ \o ps] /\ tx' = [tx EXCEPT ![s] = Bump(@)]
      /\ phase[s] = "open"
      /\ UNCHANGED <<phase, why, rx, off, read_state, hello, lines, neg, heard, got, altered>>
  BY <1>1 DEF SendData, SendRaw, kexVars
<1>3. /\ hello \in Hellos /\ tx \in [Side -> Ciphers] /\ tx[s] \in Ciphers /\ n \in Nat
      /\ sent \in [Side -> Seq(Messages)] /\ b \in Nat /\ k \in {3, 4}
  BY CountFacts DEF IInv, TypeOK
<1>4. <<m>> \in Seq(Messages) /\ Len(<<m>>) = 1
  <2>1. \A i \in Nat, z \in Sizes : Data(i, z) \in Messages
    BY DEF Messages
  <2>2. n + 1 \in Nat
    BY <1>3
  <2>3. m \in Messages
    BY <2>1, <2>2
  <2> QED  BY <2>3
<1>5. ps \in Seq(Items) /\ Len(ps) = 1
  <2>1. ps \in Seq(Packets) /\ Len(ps) = 1
    BY <1>3, <1>4, SealedType
  <2> QED  BY <2>1 DEF Items
<1>6. /\ tx[s].alg # "plain" /\ Nonce(tx[s]) = n
  BY <1>2 DEF IInv, CipherInv, Counts
<1>7. /\ SentOk(hello, s, "open", tx[s], neg[s]) /\ TakenOk(hello, s, "open", rx[s])
      /\ LinesOk(hello, s, "open", lines[s])
  BY <1>2 DEF CleanInv, PhaseInv
<1>8. /\ tx'[s].alg = tx[s].alg /\ Len(sent'[s]) = n + 1
      /\ \A r \in Side : r # s => tx'[r] = tx[r] /\ sent'[r] = sent[r]
  BY <1>1, <1>2, <1>3 DEF Bump, After
<1>9. SentOk(hello, s, "open", tx'[s], neg[s])
  BY <1>6, <1>7, <1>8 DEF SentOk
<1>10. Emitted(s) = b + 1 + (k + n) /\ Emitted(s)' = b + 1 + (k + Len(sent'[s]))
  BY <1>2, <1>6, <1>8 DEF Emitted, EmittedOf
<1>11. StreamItem(ps[1], hello, s, b + 1 + (k + n) + 1)
  <2>1. tx[s].alg = DataAlg(hello, s)
    BY <1>6, <1>7 DEF SentOk
  <2>2. k + n \in Nat /\ k + n >= K(hello, s) /\ (k + n) - K(hello, s) = n
    <3>1. \A x \in {3, 4} : \A y \in Nat : x + y \in Nat /\ x + y >= x /\ (x + y) - x = y
      OBVIOUS
    <3> HIDE DEF n
    <3> QED  BY <1>3, <3>1
  <2>3. 1 \in 1..Len(<<m>>)
    BY <1>4
  <2> HIDE DEF m
  <2>4. \A j0 \in Nat : (j0 >= K(hello, s) /\ Nonce(tx[s]) = j0 - K(hello, s)) =>
           StreamItem(Sealed(tx[s], <<m>>)[1], hello, s, Banners(hello, s) + 1 + j0 + 1)
    BY <1>3, <1>4, <1>6, <2>1, <2>3, SealedStream
  <2> QED  BY <1>6, <2>2, <2>4
<1> HIDE DEF ps, k, b, n, m
<1>12. Emitted(s)' = Emitted(s) + Len(ps)
  BY <1>3, <1>5, <1>8, <1>10
<1>13. \A i \in 1..Len(ps) : StreamItem(ps[i], hello, s, Emitted(s) + i)
  BY <1>5, <1>10, <1>11
<1> QED  BY <1>2, <1>5, <1>7, <1>8, <1>9, <1>12, <1>13, CleanSend

\* A side takes the last message before its own NEWKEYS and switches keys.
LEMMA CleanSwitch ==
    ASSUME IInv, CleanInv, NEW s \in Side, NEW ms, Opened(s), Took(s), Switch(s, ms),
           \/ s = "server" /\ phase[s] = "exchange" /\ ms = <<Reply(hello)>>
           \/ s = "client" /\ phase[s] = "reply" /\ ms = <<>>,
           phase' = [phase EXCEPT ![s] = "newkeys"], rx' = [rx EXCEPT ![s] = Bump(@)],
           UNCHANGED <<hello, lines, why, neg, heard, sent, got, altered>>
    PROVE  CleanInv'
<1> DEFINE r == Other(s)
           ns == ms \o <<Plainly("newkeys")>>
           ps == Sealed(tx[s], ns)
           b == Banners(hello, s)
           k == K(hello, s)
           c == tx[s]
<1>1. /\ tx \in [Side -> Ciphers] /\ c \in Ciphers /\ c.seq \in Nat /\ b \in Nat /\ k \in {3, 4}
      /\ hello \in Hellos /\ phase \in [Side -> Phases] /\ net \in [Side -> Seq(Items)]
      /\ rx \in [Side -> Ciphers]
  BY CountFacts DEF IInv, TypeOK
<1>2. r \in Side /\ r # s /\ \A q \in Side : q # s => q = r
  BY Sides
<1>3. /\ net[s] # <<>> /\ tx' = [tx EXCEPT ![s] = make(TxAlg(s))]
      /\ net' = [net EXCEPT ![s] = Rest(s), ![r] = @ \o ps]
  BY OpenedPacket DEF Switch
<1>4. net'[s] = Tail(net[s]) /\ net'[r] = net[r] \o ps
  BY <1>1, <1>2, <1>3 DEF Rest
<1>5. /\ SentOk(hello, s, phase[s], c, neg[s]) /\ TakenOk(hello, s, phase[s], rx[s])
      /\ LinesOk(hello, s, phase[s], lines[s])
  BY DEF CleanInv, PhaseInv
<1>6. /\ c.alg = "plain" /\ rx[s].alg = "plain" /\ neg[s] # {} /\ sent[s] = <<>>
  BY DEF IInv, CipherInv, Counts, NegInv
<1>7. /\ ns \in Seq(Messages) /\ Len(ns) \in {1, 2} /\ c.seq + Len(ns) = k
      /\ \A i \in 1..Len(ns) : c.seq + i <= k /\ ns[i] = Message(hello, s, c.seq + i)
  <2>1. Reply(hello) \in Messages /\ Plainly("newkeys") \in Messages
    <3>1. hello["client"].offer \in AllOffers /\ hello["server"].offer \in AllOffers
      BY <1>1, OwnMessages, Sides
    <3>2. [client |-> {hello["client"].offer}, server |-> {hello["server"].offer},
           share |-> "own"] \in Hashes
      BY <3>1 DEF Hashes
    <3> QED  BY <3>2, OwnMessages DEF Reply
  <2>2. \A q \in Seq(Messages), x \in Messages :
           /\ q \o <<x>> \in Seq(Messages) /\ Len(q \o <<x>>) = Len(q) + 1
           /\ (q \o <<x>>)[Len(q) + 1] = x /\ \A i \in 1..Len(q) : (q \o <<x>>)[i] = q[i]
    BY OneMore
  <2>3. CASE s = "server" /\ phase[s] = "exchange" /\ ms = <<Reply(hello)>>
    <3>1. /\ ns \in Seq(Messages) /\ Len(ns) = 2
          /\ ns[1] = Reply(hello) /\ ns[2] = Plainly("newkeys")
      <4>1. ms \in Seq(Messages) /\ Len(ms) = 1 /\ ms[1] = Reply(hello) /\ 1 \in 1..Len(ms)
        BY <2>1, <2>3
      <4>2. /\ ns \in Seq(Messages) /\ Len(ns) = Len(ms) + 1
            /\ ns[Len(ms) + 1] = Plainly("newkeys") /\ \A i \in 1..Len(ms) : ns[i] = ms[i]
        BY <2>1, <2>2, <4>1
      <4> QED  BY <4>1, <4>2
    <3>2. k = 3 /\ c.seq = 1
      BY <1>5, <2>3, KFacts DEF SentOk
    <3>3. /\ Message(hello, s, 2) = Reply(hello) /\ Message(hello, s, k) = Plainly("newkeys")
      BY <2>3, MessageFacts
    <3> HIDE DEF ns, k, c
    <3>4. /\ ns \in Seq(Messages) /\ Len(ns) = 2
          /\ ns[1] = Message(hello, s, 2) /\ ns[2] = Message(hello, s, 3)
      BY <2>1, <3>1, <3>2, <3>3
    <3>5. \A i \in 1..Len(ns) : i = 1 \/ i = 2
      BY <3>4
    <3> QED  BY <3>2, <3>4, <3>5
  <2>4. CASE s = "client" /\ phase[s] = "reply" /\ ms = <<>>
    <3>1. ns = <<Plainly("newkeys")>>
      BY <2>4
    <3>2. c.seq = k - 1
      BY <1>5, <2>4 DEF SentOk
    <3>3. Message(hello, s, k) = Plainly("newkeys")
      BY MessageFacts
    <3>4. c.seq + 1 = k
      BY <1>1, <3>2
    <3> HIDE DEF ns, k, c
    <3>5. ns \in Seq(Messages) /\ Len(ns) = 1 /\ ns[1] = Message(hello, s, k)
      BY <2>1, <3>1, <3>3
    <3>6. \A i \in 1..Len(ns) : i = 1
      BY <3>5
    <3>7. c.seq + 1 <= k
      BY <1>1, <3>4
    <3> QED  BY <3>4, <3>5, <3>6, <3>7
  <2> QED  BY <2>3, <2>4
<1> HIDE DEF ns
<1>8. ps \in Seq(Items) /\ Len(ps) = Len(ns)
  <2>1. ps \in Seq(Packets) /\ Len(ps) = Len(ns)
    BY <1>1, <1>7, SealedType
  <2> QED  BY <2>1 DEF Items
<1>9. /\ tx'[s].alg = TxAlg(s) /\ TxAlg(s) \in Algorithms /\ TxAlg(s) # "plain"
      /\ TxAlg(s) = DataAlg(hello, s)
  <2>1. TxAlg(s) \in Algorithms
    BY <1>6, NegotiatedCiphers DEF IInv
  <2>2. TxAlg(s) = DataAlg(hello, s)
    BY <1>6, NegotiatedIsChosen DEF TxAlg, DataAlg
  <2> QED  BY <1>1, <1>3, <2>1, <2>2 DEF make, Algorithms
<1>10. /\ phase'[s] = "newkeys" /\ Taken(s)' = Taken(s) + 1
       /\ rx'[s].seq = rx[s].seq + 1 /\ rx'[s].alg = "plain" /\ rx[s].seq \in Nat
  BY <1>1, <1>6, PlainTaken
<1>11. SentOk(hello, s, phase'[s], tx'[s], neg'[s])
  BY <1>6, <1>9, <1>10 DEF SentOk
<1>12. TakenOk(hello, s, phase'[s], rx'[s])
  <2>1. rx[s].seq = K(hello, Other(s)) - 2 /\ K(hello, Other(s)) \in {3, 4}
    BY <1>5, KFacts DEF TakenOk
  <2>2. rx'[s].seq = K(hello, Other(s)) - 1
    BY <1>10, <2>1
  <2> QED  BY <1>10, <2>2 DEF TakenOk
<1>13. LinesOk(hello, s, phase'[s], lines'[s])
  BY <1>5, <1>10 DEF LinesOk
<1>14. /\ off'[s] = 0 /\ read_state'[s].at = "idle" /\ read_state'[s].got = 0
       /\ \A q \in Side : q # s => off'[q] = off[q] /\ read_state'[q] = read_state[q]
  BY TookPacket
<1>15. OnlySide(s) /\ Alarm(s)
  <2>1. \A q \in Side : q # s => tx'[q] = tx[q] /\ rx'[q] = rx[q] /\ phase'[q] = phase[q]
    BY <1>1, <1>3
  <2> HIDE DEF ps
  <2> QED  BY <1>2, <1>4, <1>8, <1>14, <2>1 DEF OnlySide, HearsTruly, Alarm
<1>16. BytesOk(read_state'[s], off'[s], Packet(s)')
  BY <1>14 DEF BytesOk
<1>17. QueueStep(net[s], net'[s], hello, r, Taken(s), Taken(s)', Emitted(r), Emitted(r)')
  <2>1. Emitted(r)' = Emitted(r)
    BY <1>2, <1>15 DEF Emitted, OnlySide
  <2> QED  BY <1>3, <1>4, <1>10, <2>1 DEF QueueStep
<1>18. QueueStep(net[r], net'[r], hello, s, Taken(r), Taken(r)', Emitted(s), Emitted(s)')
  <2>1. Taken(r)' = Taken(r)
    BY <1>2, <1>15 DEF Taken, OnlySide
  <2>2. Emitted(s) = b + 1 + c.seq
    BY <1>6, PlainEmitted
  <2>3. Emitted(s)' = b + 1 + (k + 0)
    <3>1. Len(sent'[s]) = 0
      BY <1>6
    <3> QED  BY <1>9, <1>10, <3>1 DEF Emitted, EmittedOf
  <2>4. \A i \in 1..Len(ns) : StreamItem(ps[i], hello, s, b + 1 + c.seq + i)
    BY <1>1, <1>6, <1>7, SealedStream
  <2> HIDE DEF b, k, c, ps
  <2>5. Emitted(s)' = Emitted(s) + Len(ps)
    BY <1>1, <1>7, <1>8, <2>2, <2>3
  <2>6. \A i \in 1..Len(ps) : StreamItem(ps[i], hello, s, Emitted(s) + i)
    BY <1>8, <2>2, <2>4
  <2> QED  BY <1>4, <1>8, <2>1, <2>5, <2>6 DEF QueueStep
<1> QED  BY <1>11, <1>12, <1>13, <1>15, <1>16, <1>17, <1>18, CleanStep

\* The exchange ends with NEWKEYS next in the stream.
LEMMA CleanSwitches ==
    ASSUME IInv, CleanInv, OnEcdhInit \/ OnEcdhReply
    PROVE  CleanInv'
<1>1. ASSUME OnEcdhInit PROVE CleanInv'
  <2> DEFINE s == "server"
             t == Hash(s, Returned(s).share)
  <2>1. s \in Side /\ Other(s) = "client" /\ "client" \in Side
    BY Sides
  <2>2. /\ Opened(s) /\ phase[s] = "exchange" /\ Took(s) /\ Switch(s, <<EcdhReply(t)>>)
        /\ phase' = [phase EXCEPT ![s] = "newkeys"] /\ rx' = [rx EXCEPT ![s] = Bump(@)]
        /\ UNCHANGED <<hello, lines, why, neg, heard, sent, got, altered>>
    BY <1>1 DEF OnEcdhInit, Goto, kexVars, dataVars
  <2>3. /\ Returned(s) = Packet(s).m /\ Reading(s) /\ PacketThere(s)
    BY <2>1, <2>2, OpenedPacket, CleanBody DEF Opened
  <2>4. /\ rx[s].alg = "plain" /\ rx[s].seq = K(hello, "client") - 2
        /\ K(hello, "client") \in {3, 4}
    BY <2>1, <2>2, KFacts DEF IInv, CipherInv, CleanInv, PhaseInv, TakenOk
  <2>5. Packet(s).m = Share(hello)
    <3>1. Packet(s).m = Message(hello, "client", rx[s].seq + 1)
      BY <2>1, <2>3, <2>4, HeadMatches
    <3>2. rx[s].seq + 1 = K(hello, "client") - 1
      BY <2>4
    <3> QED  BY <2>1, <3>1, <3>2, MessageFacts
  <2>6. Returned(s).share = "own"
    BY <2>3, <2>5 DEF Share, EcdhInit
  <2>7. heard[s] = {hello["client"].offer}
    <3>1. neg[s] # {}
      BY <2>1, <2>2 DEF IInv, NegInv
    <3> QED  BY <2>1, <3>1, NegotiatedIsChosen
  <2>8. EcdhReply(t) = Reply(hello)
    BY <2>6, <2>7 DEF Reply, Hash
  <2>9. PICK ms : ms = <<Reply(hello)>>
    OBVIOUS
  <2>10. Switch(s, ms)
    BY <2>2, <2>8, <2>9
  <2> QED  BY <2>1, <2>2, <2>9, <2>10, CleanSwitch
<1>2. ASSUME OnEcdhReply PROVE CleanInv'
  BY <1>2, CleanSwitch, Sides DEF OnEcdhReply, Goto, kexVars, dataVars
<1> QED  BY <1>1, <1>2

\* Banner lines and the identification are the first items of the stream.
LEMMA CleanSendIdent ==
    ASSUME IInv, CleanInv, NEW s \in Side, SendIdent(s)
    PROVE  CleanInv'
<1> DEFINE b == Banners(hello, s)
<1>1. PICK q : q = hello[s].lines
  OBVIOUS
<1>2. /\ b \in Nat /\ q \in Seq(LineKinds) /\ Len(q) = b + 1 /\ phase \in [Side -> Phases]
  BY <1>1, BannerFacts DEF IInv, TypeOK
<1>3. q \in Seq(Items)
  BY <1>2 DEF Items
<1>4. /\ phase[s] = "start" /\ phase' = [phase EXCEPT ![s] = "ident"]
      /\ net' = [net EXCEPT ![Other(s)] = @ \o q]
      /\ UNCHANGED <<why, tx, rx, off, read_state, hello, lines, neg, heard, sent, got, altered>>
  BY <1>1 DEF SendIdent, Goto, kexVars, dataVars
<1>5. /\ phase'[s] = "ident" /\ \A z \in Side : z # s => phase'[z] = phase[z]
  BY <1>2, <1>4
<1>6. /\ SentOk(hello, s, "start", tx[s], neg[s]) /\ TakenOk(hello, s, "start", rx[s])
      /\ LinesOk(hello, s, "start", lines[s])
  BY <1>4 DEF CleanInv, PhaseInv
<1>7. /\ SentOk(hello, s, "ident", tx[s], neg[s]) /\ TakenOk(hello, s, "ident", rx[s])
      /\ LinesOk(hello, s, "ident", lines[s])
  BY <1>6 DEF SentOk, TakenOk, LinesOk
<1>8. tx[s].alg = "plain" /\ tx[s].seq = 0
  BY <1>4, <1>6 DEF IInv, CipherInv, SentOk
<1>9. Emitted(s) = 0 /\ Emitted(s)' = b + 1 + 0
  BY <1>4, <1>5, <1>8 DEF Emitted, EmittedOf
<1>10. Emitted(s)' = Emitted(s) + Len(q)
  BY <1>2, <1>9
<1>11. ASSUME NEW i \in 1..Len(q) PROVE StreamItem(q[i], hello, s, Emitted(s) + i)
  <2>1. i \in 1..(b + 1) /\ Emitted(s) + i = i /\ q[i] \in LineKinds
    BY <1>2, <1>9
  <2>2. IsLine(q[i])
    BY <2>1, ItemKinds
  <2>3. i - b - 1 <= 0
    <3> HIDE DEF b
    <3> QED  BY <1>2, <2>1
  <2> QED  BY <1>1, <2>1, <2>2, <2>3 DEF StreamItem
<1> QED  BY <1>3, <1>4, <1>5, <1>7, <1>10, <1>11, CleanSend

-----------------------------------------------------------------------------
\* Nothing is under way and nothing is wrong at the start.
LEMMA InitClean == Init => CleanInv
<1> SUFFICES ASSUME Init PROVE CleanInv
  OBVIOUS
<1> USE DEF Init
<1>1. \A s \in Side : /\ tx[s].alg = "plain" /\ tx[s].seq = 0 /\ rx[s].alg = "plain"
                      /\ rx[s].seq = 0 /\ phase[s] = "start" /\ lines[s] = 0 /\ net[s] = <<>>
                      /\ Banners(hello, s) \in Nat /\ why[s] = "none" /\ off[s] = 0
                      /\ read_state[s].at = "idle" /\ read_state[s].got = 0
                      /\ K(hello, s) \in {3, 4} /\ Other(s) \in Side
  BY BannerFacts, KFacts, Sides DEF PlainCipher, Idle
<1>2. \A s \in Side : Emitted(s) = 0 /\ Taken(s) = 0
  <2> SUFFICES ASSUME NEW s \in Side PROVE Emitted(s) = 0 /\ Taken(s) = 0
    OBVIOUS
  <2>1. Taken(s) = lines[s] + rx[s].seq
    BY <1>1 DEF Taken, TakenOf
  <2>2. lines[s] = 0 /\ rx[s].seq = 0 /\ phase[s] = "start"
    BY <1>1
  <2> QED  BY <2>1, <2>2 DEF Emitted, EmittedOf
<1>3. StreamInv
  BY <1>1, <1>2 DEF StreamInv, Stream
<1>4. PhaseInv
  <2> SUFFICES ASSUME NEW s \in Side
               PROVE  /\ SentOk(hello, s, phase[s], tx[s], neg[s])
                      /\ TakenOk(hello, s, phase[s], rx[s])
                      /\ LinesOk(hello, s, phase[s], lines[s])
    BY DEF PhaseInv
  <2>1. Banners(hello, Other(s)) \in Nat
    BY <1>1
  <2>2. LinesOk(hello, s, phase[s], lines[s]) /\ TakenOk(hello, s, phase[s], rx[s])
    BY <1>1, <2>1 DEF LinesOk, TakenOk
  <2>3. SentOk(hello, s, phase[s], tx[s], neg[s])
    <3>1. K(hello, s) - 1 >= 1 /\ 0 <= K(hello, s) - 1
      BY <1>1
    <3> QED  BY <1>1, <3>1 DEF SentOk
  <2> QED  BY <2>2, <2>3
<1>5. BytesInv /\ AlarmInv /\ HeardInv
  BY <1>1 DEF BytesInv, BytesOk, AlarmInv, HeardInv
<1> QED  BY <1>3, <1>4, <1>5 DEF CleanInv

\* What was altered stays altered.
LEMMA AlteredStays == altered /\ [Next]_vars => altered'
<1> SUFFICES ASSUME altered, [Next]_vars PROVE altered'
  OBVIOUS
<1> USE DEF kexVars, dataVars
<1>1. CASE UNCHANGED vars
  BY <1>1 DEF vars
<1>2. ASSUME NEW s \in Side, Receives(s)  PROVE altered'
  <2>1. CASE OnIdent(s) \/ OnBadIdent(s) \/ OnJunk(s)
    BY <2>1 DEF OnIdent, OnBadIdent, OnJunk, TakeLine
  <2>2. CASE Read(s) \/ ReadOn(s) \/ OnHeader(s) \/ OnBadHeader(s) \/ OpenFails(s) \/ OnEof(s)
    BY <2>2 DEF Read, ReadOn, OnHeader, OnBadHeader, OpenFails, OnEof
  <2>3. CASE OnKexInit(s) \/ Discard(s) \/ OnNewKeys(s) \/ OnData(s) \/ OnUnexpected(s)
    BY <2>3 DEF OnKexInit, Discard, OnNewKeys, OnData, OnUnexpected
  <2> QED  BY <1>2, <2>1, <2>2, <2>3 DEF Receives
<1>3. ASSUME NEW s \in Side, Handshake(s) \/ Cancel(s) \/ SendData(s) \/ Alter(s)  PROVE altered'
  BY <1>3 DEF Handshake, SendIdent, SendKexInit, Cancel, SendData, Alter
<1>4. CASE SendShare \/ OnEcdhInit \/ OnEcdhReply \/ OnBadReply
  BY <1>4 DEF SendShare, OnEcdhInit, OnEcdhReply, OnBadReply
<1> QED  BY <1>1, <1>2, <1>3, <1>4 DEF Next

\* As long as nothing is altered, every step keeps CleanInv.
Unaltered == altered \/ CleanInv
LEMMA NextClean == IInv /\ Unaltered /\ [Next]_vars => Unaltered'
<1> SUFFICES ASSUME IInv, CleanInv, [Next]_vars PROVE Unaltered'
  BY AlteredStays DEF Unaltered
<1>1. CASE UNCHANGED vars
  <2>1. CleanInv'
    BY <1>1 DEF vars, CleanInv, StreamInv, Taken, Emitted, PhaseInv, BytesInv, Packet, AlarmInv,
                HeardInv, Outcome
  <2> QED  BY <2>1 DEF Unaltered
<1>2. ASSUME NEW s \in Side, Receives(s)  PROVE CleanInv'
  <2>1. ~ReadOn(s) /\ ~OnUnexpected(s)
    BY CleanReadOn, CleanUnexpected
  <2>2. CASE OnIdent(s) \/ OnBadIdent(s) \/ OnJunk(s)
    BY <2>2, CleanLines
  <2>3. CASE OnBadHeader(s) \/ OpenFails(s) \/ OnEof(s)
    BY <2>3, CleanGiveUp
  <2>4. CASE Read(s) \/ OnHeader(s) \/ OnKexInit(s) \/ Discard(s) \/ OnData(s)
    BY <2>4, CleanRead, CleanOnHeader, CleanKexInit, CleanDiscard, CleanData
  <2>5. CASE OnNewKeys(s)
    BY <2>5, CleanNewKeys
  <2> QED  BY <1>2, <2>1, <2>2, <2>3, <2>4, <2>5 DEF Receives
<1>3. ASSUME NEW s \in Side, Handshake(s) \/ Cancel(s) \/ SendData(s)
      PROVE  CleanInv'
  BY <1>3, CleanSendIdent, CleanSendKexInit, CleanGiveUp, CleanSendData DEF Handshake
<1>4. ASSUME NEW s \in Side, Alter(s)  PROVE altered'
  BY <1>4 DEF Alter
<1>5. ASSUME SendShare \/ OnEcdhInit \/ OnEcdhReply \/ OnBadReply  PROVE CleanInv'
  BY <1>5, CleanSendShare, CleanSwitches, CleanReply
<1> QED  BY <1>1, <1>2, <1>3, <1>4, <1>5 DEF Next, Unaltered

\* CleanInv holds until something is altered.
LEMMA CleanUntilAltered == Spec => []Unaltered
<1>1. Init => Unaltered
  BY InitClean DEF Unaltered
<1> QED  BY <1>1, Invariant, NextClean, PTL DEF Spec

\* No alarm without a cause, for any pair of peers, any lengths and any pieces: a
\* length, a tag or the host key's signature is refused, or a message found out of
\* turn, only after a byte was altered under way (a discarded guess, the reset of
\* the nonces and the reads dropped half way included); a negotiation fails only
\* between peers with nothing in common, or over a KEXINIT that was altered; an
\* identification is refused only if it was bad.
THEOREM NoAlarmWithoutCause == Spec => []NoFalseAlarm
<1>1. IInv /\ Unaltered => NoFalseAlarm
  <2> SUFFICES ASSUME IInv, Unaltered, NEW s \in Side
               PROVE  /\ why[s] \in {"length", "open", "unexpected", "hostkey"} => altered
                      /\ why[s] = "negotiation" =>
                            altered \/ ~Compatible(hello["client"].offer, hello["server"].offer)
                      /\ why[s] = "ident" => ~GoodHello(Other(s))
    BY DEF NoFalseAlarm
  <2>1. why[s] = "ident" => ~GoodHello(Other(s))
    BY DEF IInv, BeginInv
  <2>2. CASE altered
    BY <2>1, <2>2
  <2>3. CASE CleanInv
    <3>1. /\ why[s] \notin {"length", "open", "unexpected", "hostkey"}
          /\ why[s] = "negotiation" => OutcomeOf(hello, s) = {}
      BY <2>3 DEF CleanInv, AlarmInv, Outcome
    <3>2. OutcomeOf(hello, s) = {} => ~Compatible(hello["client"].offer, hello["server"].offer)
      <4>1. hello \in Hellos
        BY DEF IInv, TypeOK
      <4>2. /\ IsOffer(hello["client"].offer) /\ IsOffer(hello["server"].offer)
            /\ Implemented(hello["client"].offer, hello["server"].offer)
        BY <4>1, HelloAssumption, PeerAssumption, Sides
      <4>3. OutcomeOf(hello, s) = negotiate("client", hello["client"].offer, hello["server"].offer)
            \/ OutcomeOf(hello, s) = negotiate("server", hello["server"].offer, hello["client"].offer)
        BY Sides DEF OutcomeOf, Side
      <4> QED  BY <4>2, <4>3, NegotiationFinds
    <3> QED  BY <2>1, <3>1, <3>2
  <2> QED  BY <2>2, <2>3 DEF Unaltered
<1> QED  BY <1>1, CleanUntilAltered, Invariant, PTL

-----------------------------------------------------------------------------
(* Agreement.                                                              *)

\* A side that negotiated from what its peer sent.
Truly(s) == neg[s] # {} => neg[s] = OutcomeOf(hello, s)

\* Who has heard the truth agrees, and whoever is past the signature has.
LEMMA AgreementFollows == IInv /\ Unaltered => NegotiationAgrees
<1> SUFFICES ASSUME IInv, Unaltered PROVE NegotiationAgrees
  OBVIOUS
<1> DEFINE c == hello["client"].offer
           v == hello["server"].offer
<1>1. IsOffer(c) /\ hello \in Hellos
  BY HelloAssumption, Sides DEF IInv, TypeOK
<1>2. ASSUME Verified
      PROVE  \A s \in Side : neg[s] # {} /\ neg[s] = OutcomeOf(hello, s)
  <2>1. tx["client"].alg # "plain"
    BY <1>2 DEF IInv, NegInv, Verified
  <2> SUFFICES ASSUME NEW s \in Side PROVE neg[s] # {} /\ neg[s] = OutcomeOf(hello, s)
    OBVIOUS
  <2>2. neg[s] # {} /\ heard[s] = {hello[Other(s)].offer}
    BY <2>1 DEF IInv, NegInv
  <2>3. PICK o : NegotiatedFrom(s, o)
    BY <2>2 DEF IInv, NegInv
  <2> QED  BY <2>2, <2>3 DEF NegotiatedFrom, OutcomeOf
<1>3. ASSUME ~altered \/ Verified, NEW s \in Side  PROVE Truly(s)
  <2>1. CASE Verified
    BY <1>2, <2>1 DEF Truly
  <2>2. CASE CleanInv
    BY <2>2, NegotiatedIsChosen DEF Truly
  <2> QED  BY <1>3, <2>1, <2>2 DEF Unaltered
<1>4. ASSUME NEW s \in Side, NEW x \in neg[s], Truly(s)
      PROVE  /\ Favourite(c.kex, v.kex, x.kex) /\ Favourite(c.host_keys, v.host_keys, x.host_key_algo)
             /\ Favourite(c.enc_c2s, v.enc_c2s, x.cipher_c2s)
             /\ Favourite(c.enc_s2c, v.enc_s2c, x.cipher_s2c)
             /\ x.kex \in KexNames /\ x.kex \in Names(c.kex) /\ x.kex \in Names(v.kex)
             /\ x.host_key_algo \in Names(c.host_keys) /\ x.host_key_algo \in Names(v.host_keys)
             /\ x.cipher_c2s \in Names(c.enc_c2s) /\ x.cipher_c2s \in Names(v.enc_c2s)
             /\ x.cipher_s2c \in Names(c.enc_s2c) /\ x.cipher_s2c \in Names(v.enc_s2c)
             /\ Names(c.comp_c2s) \cap Names(v.comp_c2s) # {}
             /\ Names(c.comp_s2c) \cap Names(v.comp_s2c) # {}
             /\ StrictFlag(Other(s)) \in Names((IF s = "client" THEN v ELSE c).kex)
  <2>1. CASE s = "client"
    <3>1. x \in negotiate("client", c, v)
      BY <1>4, <2>1, Sides DEF Truly, OutcomeOf
    <3> HIDE DEF c, v
    <3> QED  BY <1>1, <2>1, <3>1, Sides, NegotiateFrom
  <2>2. CASE s = "server"
    <3>1. x \in negotiate("server", v, c)
      BY <1>4, <2>2, Sides DEF Truly, OutcomeOf
    <3> HIDE DEF c, v
    <3> QED  BY <1>1, <2>2, <3>1, Sides, NegotiateFrom
  <2> QED  BY <2>1, <2>2 DEF Side
<1>5. ASSUME \A s \in Side : neg[s] # {} /\ Truly(s)
      PROVE  Agreed("client") = Agreed("server")
  <2>1. /\ neg["client"] # {} /\ neg["client"] = negotiate("client", c, v)
        /\ neg["server"] # {} /\ neg["server"] = negotiate("server", v, c)
    BY <1>5, Sides DEF Truly, OutcomeOf
  <2>2. ASSUME NEW x \in neg["client"], NEW y \in neg["server"]
        PROVE  /\ x.kex = y.kex /\ x.host_key_algo = y.host_key_algo
               /\ x.cipher_c2s = y.cipher_c2s /\ x.cipher_s2c = y.cipher_s2c
    BY <1>1, <2>1, BothChooseAlike
  <2> QED  BY <2>1, <2>2 DEF Agreed
<1>6. ASSUME Verified  PROVE Compatible(c, v) /\ \A s \in Side : neg[s] # {}
  <2>1. \A s \in Side : neg[s] # {} /\ Truly(s)
    BY <1>2, <1>6 DEF Truly
  <2>2. PICK x \in neg["client"] : TRUE
    BY <2>1, Sides
  <2>3. PICK y \in neg["server"] : TRUE
    BY <2>1, Sides
  <2>4. StrictFlag("server") \in Names(v.kex) /\ StrictFlag("client") \in Names(c.kex)
    BY <1>4, <2>1, <2>2, <2>3, Sides
  <2> QED  BY <1>4, <2>1, <2>2, <2>4, Sides DEF Compatible
<1> HIDE DEF c, v
<1>7. ASSUME ~altered \/ Verified
      PROVE  /\ (\A s \in Side : neg[s] # {}) => Agreed("client") = Agreed("server")
             /\ \A s \in Side : \A x \in neg[s] :
                   /\ Favourite(c.kex, v.kex, x.kex)
                   /\ Favourite(c.host_keys, v.host_keys, x.host_key_algo)
                   /\ Favourite(c.enc_c2s, v.enc_c2s, x.cipher_c2s)
                   /\ Favourite(c.enc_s2c, v.enc_s2c, x.cipher_s2c)
  BY <1>3, <1>4, <1>5, <1>7
<1> QED  BY <1>6, <1>7 DEF NegotiationAgrees, Favourite, c, v

\* For any pair of peers: as long as nothing was altered under way, two sides past
\* the negotiation hold the same exchange, host key and ciphers, each the client's
\* favourite among what both offered, guessed packets included.  When KEXINITs,
\* shares or replies were altered and read as something else, this holds from the
\* host key's signature on: the client switches no key, and the server accepts no
\* packet under a new one, without it; nor do peers with nothing in common, or
\* without strict key exchange, get that far.
THEOREM PeersAgree == Spec => []NegotiationAgrees
BY Invariant, CleanUntilAltered, AgreementFollows, PTL
=============================================================================
