------------------------------- MODULE Frames -------------------------------
(***************************************************************************)
(* What goes on the wire below the packets of module Transport: the sizes  *)
(* of a sealed packet under the three states of crypto/cipher.rs, and the  *)
(* choice of algorithms of transport/kexinit.rs.  Bytes are counted, not   *)
(* looked at; a cipher is its algorithm and the nonce it uses next.        *)
(***************************************************************************)
EXTENDS Integers, Sequences

MIN_PAD == 4
TAG_LEN == 16
MAX_PACKET == 256 * 1024

Algorithms == {"chacha", "gcm"}
Framings == Algorithms \cup {"plain"}

\* Before the first NEWKEYS; afterwards Algorithm::make(key, iv).  iv counts
\* the invocations since the initial vector the keys came with.  Both counters
\* are far from wrapping: Transport!NonceBound.
PlainCipher == [alg |-> "plain", seq |-> 0, iv |-> 0]
make(a) == [alg |-> a, seq |-> 0, iv |-> 0]

Align(a) == IF a = "gcm" THEN 16 ELSE 8
\* The length field counts towards the alignment in the plain framing only.
CountedLength(a) == IF a = "plain" THEN 4 ELSE 0
TagLen(a) == IF a = "plain" THEN 0 ELSE TAG_LEN

PadUnraised(a, n) == Align(a) - ((CountedLength(a) + 1 + n) % Align(a))

\* padded: the padding of a payload of n bytes.
Pad(a, n) ==
    LET pad == Align(a) - ((CountedLength(a) + 1 + n) % Align(a))
    IN  IF pad < MIN_PAD THEN pad + Align(a) ELSE pad

\* The length field: padlen, payload and padding.
PacketLength(a, n) == 1 + n + Pad(a, n)

\* packet_length: what the receiver accepts as a length field.
check_length(a, len) ==
    /\ 1 + MIN_PAD <= len
    /\ len <= MAX_PACKET
    /\ (len + CountedLength(a)) % Align(a) = 0

body_len(a, len) == len + TagLen(a)

\* unpad: the padding byte against the block it came in.
PaddingOk(len, pad) == MIN_PAD <= pad /\ pad <= len - 1

\* The nonce: the sequence number, or for aes256-gcm the invocation counter.
Nonce(c) == CASE c.alg = "plain" -> 0 [] c.alg = "chacha" -> c.seq [] c.alg = "gcm" -> c.iv
\* The cipher after k packets, and after one.
After(c, k) ==
    [alg |-> c.alg, seq |-> c.seq + k, iv |-> IF c.alg = "gcm" THEN c.iv + k ELSE c.iv]
Bump(c) == After(c, 1)

\* seal: a payload m of m.n bytes under cipher c.  `bad` is the part of the
\* packet that was altered under way.
seal(c, m) ==
    [m |-> m, alg |-> c.alg, nonce |-> Nonce(c), pad |-> Pad(c.alg, m.n),
     len |-> PacketLength(c.alg, m.n), bad |-> "none"]

WireSize(p) == 4 + body_len(p.alg, p.len)

\* The receiver's cipher is in the state the packet was sealed in.
Matches(c, p) == c.alg = p.alg /\ Nonce(c) = p.nonce

-----------------------------------------------------------------------------
(* Negotiation.  A KEXINIT is a record of name-lists, most preferred first; *)
(* an option is a set with at most one member.                              *)

KexNames == {"mlkem768x25519", "curve25519"}
HostKeyNames == {"ssh-ed25519", "ssh-ed25519-cert"}
StrictFlag(s) == IF s = "client" THEN "kex-strict-c" ELSE "kex-strict-s"
ExtInfoFlag(s) == IF s = "client" THEN "ext-info-c" ELSE "ext-info-s"
Other(s) == IF s = "client" THEN "server" ELSE "client"

Names(list) == {list[i] : i \in DOMAIN list}

host_key_algos(withCert) ==
    IF withCert THEN <<"ssh-ed25519-cert", "ssh-ed25519">> ELSE <<"ssh-ed25519">>

\* KexInit::local: this implementation's own lists.
local(s, withCert) ==
    [kex |-> <<"mlkem768x25519", "curve25519", ExtInfoFlag(s), StrictFlag(s)>>,
     host_keys |-> host_key_algos(withCert),
     enc_c2s |-> <<"chacha", "gcm">>, enc_s2c |-> <<"chacha", "gcm">>,
     comp_c2s |-> <<"none">>, comp_s2c |-> <<"none">>, first_packet_follows |-> FALSE,
     cookie |-> "own"]

\* The first member of a list that is one of the given names, if there is any.
FirstOf(list, names) ==
    {list[i] : i \in {k \in DOMAIN list :
                        list[k] \in names /\ \A j \in DOMAIN list : list[j] \in names => k <= j}}

ChooseByServer(client, server) == FirstOf(server, Names(client))

\* choose: the first of the client's names that the server has too.
choose(client, server) == FirstOf(client, Names(server))

\* A guessed packet is right when both first choices agree.
guess_right(client, server) ==
    /\ Head(client.kex) = Head(server.kex)
    /\ Head(client.host_keys) = Head(server.host_keys)

\* What the lists of client and server come to: at most one suite.
Suites(s, client, server, theirs) ==
    {[kex |-> k, host_key_algo |-> h, cipher_c2s |-> a, cipher_s2c |-> b,
      peer_ext_info |-> ExtInfoFlag(Other(s)) \in Names(theirs.kex),
      discard_guess |-> theirs.first_packet_follows /\ ~guess_right(client, server)] :
     k \in choose(client.kex, server.kex) \cap KexNames,
     h \in choose(client.host_keys, server.host_keys) \cap HostKeyNames,
     a \in choose(client.enc_c2s, server.enc_c2s) \cap Algorithms,
     b \in choose(client.enc_s2c, server.enc_s2c) \cap Algorithms,
     z \in choose(client.comp_c2s, server.comp_c2s),
     w \in choose(client.comp_s2c, server.comp_s2c)}

\* negotiate: what side s makes of its own and its peer's lists.
negotiate(s, ours, theirs) ==
    IF StrictFlag(Other(s)) \notin Names(theirs.kex)
      THEN {}
      ELSE IF s = "client" THEN Suites(s, ours, theirs, theirs)
                           ELSE Suites(s, theirs, ours, theirs)
=============================================================================
