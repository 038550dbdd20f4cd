----------------------------- MODULE Transport -----------------------------
(***************************************************************************)
(* The SSH transport of transport/mod.rs: two endpoints over a byte stream *)
(* that is reliable and in order, the first key exchange, rekeying by      *)
(* either side at any time, sequence numbers, and the application packets  *)
(* that cross a rekey.                                                     *)
(*                                                                         *)
(* Cryptography is symbolic.  A KEXINIT is its cookie; the exchange hash is*)
(* what it covers; a key is known by the exchange hash and session id it is*)
(* derived from; a packet opens only under the key and sequence number it  *)
(* was sealed with.                                                        *)
(***************************************************************************)
EXTENDS Integers, Sequences

CONSTANTS
    RekeyPackets,   \* REKEY_PACKETS
    SeqMod,         \* 2^32: sequence numbers are u32 and wrap
    MaxRekeyQueue,  \* MAX_REKEY_QUEUE
    HostKeys,       \* keys the server may present, one per exchange
    Trusted,        \* keys the client's verifier accepts
    Certified,      \* those it presents in a certificate
    MayFail,        \* sides whose connection may break
    MaxApp,         \* bound, per side: application packets sent
    MaxAge          \* bound: times a side's byte or time limit is reached

Side == {"client", "server"}
Peer(s) == CHOOSE p \in Side : p # s

ASSUME TransportAssumption ==
    /\ RekeyPackets \in Nat \ {0, 1}
    /\ SeqMod \in Nat
    /\ RekeyPackets + 3 < SeqMod
    /\ MaxRekeyQueue \in Nat
    /\ Certified \subseteq HostKeys
    /\ MayFail \subseteq Side
    /\ MaxApp \in [Side -> Nat]
    /\ MaxAge \in [Side -> Nat]

VARIABLES
    phase,          \* where each side's task is suspended
    err,            \* why a dead side ended
    tx, rx,         \* the ciphers
    tx_seq, rx_seq,
    due,            \* traffic >= rekey_bytes or kexed_at too long ago
    ages,           \* how often that happened (bounded by MaxAge)
    wire,           \* wire[s]: packets s has written, its peer not yet read
    kexinits,       \* KEXINITs each side has made: the cookies are fresh
    theirs,         \* the peer's KEXINIT of the exchange that is running
    hash,           \* the exchange hash of the exchange that is running
    session_id,
    queued,         \* packets set aside while waiting for the peer's KEXINIT
    peer_host_key,  \* client only
    peer_host_sig,  \* client only: what host_binding() returns
    cert_expired,   \* the host certificate's validity has ended
    ext_info,       \* what became of the server's EXT_INFO
    sent,           \* application packets sent
    delivered       \* application packets returned by recv()

kexVars == <<theirs, hash, session_id, peer_host_key, peer_host_sig>>
appVars == <<queued, ext_info, sent, delivered>>
vars == <<phase, err, tx, rx, tx_seq, rx_seq, due, ages, wire, kexinits, theirs,
          hash, session_id, queued, peer_host_key, peer_host_sig, cert_expired,
          ext_info, sent, delivered>>

None == [none |-> TRUE]
Plain == [plain |-> TRUE]

KexInit(n) == [type |-> "kexinit", cookie |-> n]
EcdhReply(k, h) == [type |-> "ecdh_reply", host |-> k, sig |-> [key |-> k, over |-> h]]
App(n) == [type |-> "app", n |-> n]
Msg(t) == [type |-> t]

\* H covers both KEXINITs and the host key; the ephemeral shares are as fresh
\* as the cookies.
exchange_hash(s, k) ==
    IF s = "client"
      THEN [i_c |-> kexinits[s], i_s |-> theirs[s], k_s |-> k]
      ELSE [i_c |-> theirs[s], i_s |-> kexinits[s], k_s |-> k]

make_cipher(h, sid) == [h |-> h, sid |-> sid]

Init ==
    /\ phase = [s \in Side |-> "start"]
    /\ err = [s \in Side |-> "none"]
    /\ tx = [s \in Side |-> Plain]
    /\ rx = [s \in Side |-> Plain]
    /\ tx_seq = [s \in Side |-> 0]
    /\ rx_seq = [s \in Side |-> 0]
    /\ due = [s \in Side |-> FALSE]
    /\ ages = [s \in Side |-> 0]
    /\ wire = [s \in Side |-> <<>>]
    /\ kexinits = [s \in Side |-> 0]
    /\ theirs = [s \in Side |-> 0]
    /\ hash = [s \in Side |-> None]
    /\ session_id = [s \in Side |-> None]
    /\ queued = [s \in Side |-> <<>>]
    /\ peer_host_key = None
    /\ peer_host_sig = None
    /\ cert_expired = FALSE
    /\ ext_info = [s \in Side |-> "none"]
    /\ sent = [s \in Side |-> 0]
    /\ delivered = [s \in Side |-> <<>>]

-----------------------------------------------------------------------------
(* send_raw and recv_raw.                                                  *)

\* bodies sealed one after the other under s's key, from sequence number q on.
Seal(key, q, bodies) ==
    [i \in 1..Len(bodies) |->
        [key |-> key, seq |-> (q + i - 1) % SeqMod, body |-> bodies[i]]]

SendRaw(s, bodies) ==
    /\ wire' = [wire EXCEPT ![s] = @ \o Seal(tx[s], tx_seq[s], bodies)]
    /\ tx_seq' = [tx_seq EXCEPT ![s] = (@ + Len(bodies)) % SeqMod]

\* recv_raw took a packet; the handler then sends bodies.
Took(s, bodies) ==
    /\ wire' = [wire EXCEPT ![Peer(s)] = Tail(@),
                            ![s] = @ \o Seal(tx[s], tx_seq[s], bodies)]
    /\ tx_seq' = [tx_seq EXCEPT ![s] = (@ + Len(bodies)) % SeqMod]
    /\ rx_seq' = [rx_seq EXCEPT ![s] = (@ + 1) % SeqMod]

Goto(s, ph) == phase' = [phase EXCEPT ![s] = ph]

\* An error return: the side is dead, nothing more is read or written.
Die(s, why) ==
    /\ Goto(s, "dead")
    /\ err' = [err EXCEPT ![s] = why]
    /\ UNCHANGED <<tx, rx, tx_seq, rx_seq, due, ages, wire, kexinits, kexVars,
                   cert_expired, appVars>>

OnlyReceivedCount(s) == rx_seq[s] >= RekeyPackets
PacketsDue(s) == tx_seq[s] >= RekeyPackets \/ rx_seq[s] >= RekeyPackets
should_rekey(s) == due[s] \/ PacketsDue(s)

-----------------------------------------------------------------------------
(* Starting an exchange.                                                   *)

\* initial_kex: our KEXINIT goes first.
Start(s) ==
    /\ phase[s] = "start"
    /\ Goto(s, "init_wait")
    /\ kexinits' = [kexinits EXCEPT ![s] = @ + 1]
    /\ SendRaw(s, <<KexInit(kexinits[s] + 1)>>)
    /\ UNCHANGED <<err, tx, rx, rx_seq, due, ages, kexVars, cert_expired,
                   appVars>>

\* rekey_initiate, from send(), recv() or the connection loop.
RekeyInitiate(s) ==
    /\ phase[s] = "open"
    /\ should_rekey(s)
    /\ Goto(s, "rekey_wait")
    /\ kexinits' = [kexinits EXCEPT ![s] = @ + 1]
    /\ SendRaw(s, <<KexInit(kexinits[s] + 1)>>)
    /\ UNCHANGED <<err, tx, rx, rx_seq, due, ages, kexVars, cert_expired,
                   appVars>>

\* The client's share opens the exchange proper.
ShareOnlyFirst(s) ==
    IF s = "client" /\ phase[s] = "init_wait" THEN <<Msg("ecdh_init")>> ELSE <<>>
Share(s) == IF s = "client" THEN <<Msg("ecdh_init")>> ELSE <<>>

\* The peer's KEXINIT: an answer to ours, or rekey_respond sends ours now.
\* run_kex then has the client send its share and both wait.
OnKexInit(s, m) ==
    LET ours == IF phase[s] = "open" THEN <<KexInit(kexinits[s] + 1)>> ELSE <<>>
    IN  /\ phase[s] \in {"init_wait", "rekey_wait", "open"}
        /\ m.type = "kexinit"
        /\ kexinits' = [kexinits EXCEPT ![s] = @ + Len(ours)]
        /\ theirs' = [theirs EXCEPT ![s] = m.cookie]
        /\ Took(s, ours \o Share(s))
        /\ Goto(s, IF s = "client" THEN "ecdh_reply" ELSE "ecdh_init")
        /\ UNCHANGED <<err, tx, rx, due, ages, hash, session_id,
                       peer_host_key, peer_host_sig, cert_expired, appVars>>

-----------------------------------------------------------------------------
(* run_kex.                                                                *)

\* The hash of the first exchange is the session id for good.
LatestHash(s, h) == h
SessionId(s, h) == IF session_id[s] = None THEN h ELSE session_id[s]

\* Our NEWKEYS is the last packet under the old key; the sending direction
\* switches, its sequence number restarts, and we wait for the peer's.
Switch(s, h, bodies) ==
    LET sid == SessionId(s, h)
    IN  /\ hash' = [hash EXCEPT ![s] = h]
        /\ session_id' = [session_id EXCEPT ![s] = sid]
        /\ wire' = [wire EXCEPT
              ![Peer(s)] = Tail(@),
              ![s] = @ \o Seal(tx[s], tx_seq[s], bodies \o <<Msg("newkeys")>>)]
        /\ tx' = [tx EXCEPT ![s] = make_cipher(h, sid)]
        /\ tx_seq' = [tx_seq EXCEPT ![s] = 0]
        /\ rx_seq' = [rx_seq EXCEPT ![s] = (@ + 1) % SeqMod]
        /\ Goto(s, "newkeys")

\* The server signs the hash and replies.
OnEcdhInit(s, m) ==
    /\ phase[s] = "ecdh_init"
    /\ m.type = "ecdh_init"
    /\ \E k \in HostKeys :
         LET h == exchange_hash(s, k) IN Switch(s, h, <<EcdhReply(k, h)>>)
    /\ UNCHANGED <<err, rx, due, ages, kexinits, theirs, peer_host_key,
                   peer_host_sig, cert_expired, appVars>>

first_kex(s) == session_id[s] = None

HostKeyUnpinned(k) ==
    IF k \in Certified THEN k \in Trusted /\ ~cert_expired
                       ELSE first_kex("client") => k \in Trusted

\* A certificate is verified on every exchange, a bare key only on the first;
\* a rekey must present the key the session began with.
HostKeyAccepted(k) ==
    /\ IF k \in Certified THEN k \in Trusted /\ ~cert_expired
                          ELSE first_kex("client") => k \in Trusted
    /\ ~first_kex("client") => k = peer_host_key

OnEcdhReply(s, m) ==
    LET h == exchange_hash(s, m.host)
    IN  /\ phase[s] = "ecdh_reply"
        /\ m.type = "ecdh_reply"
        /\ HostKeyAccepted(m.host)
        /\ m.sig = [key |-> m.host, over |-> h]
        /\ peer_host_key' = m.host
        /\ peer_host_sig' = IF first_kex(s) THEN m.sig ELSE peer_host_sig
        /\ Switch(s, h, <<>>)
        /\ UNCHANGED <<err, rx, due, ages, kexinits, theirs, cert_expired,
                       appVars>>

OnEcdhReplyBad(s, m) ==
    /\ phase[s] = "ecdh_reply"
    /\ m.type = "ecdh_reply"
    /\ \/ ~HostKeyAccepted(m.host)
       \/ m.sig # [key |-> m.host, over |-> exchange_hash(s, m.host)]
    /\ Die(s, "hostkey")

\* The peer's NEWKEYS: the receiving direction switches too and the counters
\* restart.  After the first exchange the server sends EXT_INFO.
OnNewKeys(s, m) ==
    LET ext == s = "server" /\ rx[s] = Plain
    IN  /\ phase[s] = "newkeys"
        /\ m.type = "newkeys"
        /\ wire' = [wire EXCEPT
              ![Peer(s)] = Tail(@),
              ![s] = IF ext THEN @ \o Seal(tx[s], tx_seq[s], <<Msg("ext_info")>>)
                            ELSE @]
        /\ tx_seq' = [tx_seq EXCEPT ![s] = IF ext THEN (@ + 1) % SeqMod ELSE @]
        /\ rx' = [rx EXCEPT ![s] = make_cipher(hash[s], session_id[s])]
        /\ rx_seq' = [rx_seq EXCEPT ![s] = 0]
        /\ due' = [due EXCEPT ![s] = FALSE]
        /\ hash' = [hash EXCEPT ![s] = None]
        /\ Goto(s, "open")
        /\ UNCHANGED <<err, tx, ages, kexinits, theirs, session_id,
                       peer_host_key, peer_host_sig, cert_expired, appVars>>

-----------------------------------------------------------------------------
(* Application packets.                                                    *)

MaySend(s) == phase[s] = "open" /\ ~should_rekey(s)

\* send(): with no rekey due, straight to send_raw.  (When one is due, send()
\* is RekeyInitiate, and this step once the exchange is over.)
SendApp(s) ==
    /\ MaySend(s)
    /\ sent[s] < MaxApp[s]
    /\ sent' = [sent EXCEPT ![s] = @ + 1]
    /\ SendRaw(s, <<App(sent[s] + 1)>>)
    /\ UNCHANGED <<phase, err, tx, rx, rx_seq, due, ages, kexinits, kexVars,
                   cert_expired, queued, ext_info, delivered>>

\* recv() returns what was set aside before it reads the stream again,
\* without looking at what it is.
PopQueued(s) ==
    LET m == Head(queued[s])
    IN  /\ phase[s] = "open"
        /\ queued[s] # <<>>
        /\ queued' = [queued EXCEPT ![s] = Tail(@)]
        /\ IF m.type = "app"
             THEN /\ delivered' = [delivered EXCEPT ![s] = Append(@, m.n)]
                  /\ UNCHANGED ext_info
             ELSE /\ ext_info' = [ext_info EXCEPT ![s] = "escaped"]
                  /\ UNCHANGED delivered
        /\ UNCHANGED <<phase, err, tx, rx, tx_seq, rx_seq, due, ages, wire,
                       kexinits, kexVars, cert_expired, sent>>

OnApp(s, m) ==
    /\ phase[s] = "open"
    /\ m.type = "app"
    /\ delivered' = [delivered EXCEPT ![s] = Append(@, m.n)]
    /\ Took(s, <<>>)
    /\ UNCHANGED <<phase, err, tx, rx, due, ages, kexinits, kexVars,
                   cert_expired, queued, ext_info, sent>>

OnExtInfo(s, m) ==
    /\ phase[s] = "open"
    /\ m.type = "ext_info"
    /\ ext_info' = [ext_info EXCEPT ![s] = "noted"]
    /\ Took(s, <<>>)
    /\ UNCHANGED <<phase, err, tx, rx, due, ages, kexinits, kexVars,
                   cert_expired, queued, sent, delivered>>

DropAside(s, m) == UNCHANGED queued
SetAside(s, m) == queued' = [queued EXCEPT ![s] = Append(@, m)]

\* rekey_initiate's loop: whatever the peer sent before it saw our KEXINIT.
Enqueue(s, m) ==
    /\ phase[s] = "rekey_wait"
    /\ m.type \in {"app", "ext_info"}
    /\ IF Len(queued[s]) >= MaxRekeyQueue
         THEN Die(s, "queue")
         ELSE /\ SetAside(s, m)
              /\ Took(s, <<>>)
              /\ UNCHANGED <<phase, err, tx, rx, due, ages, kexinits, kexVars,
                             cert_expired, ext_info, sent, delivered>>

OnDisconnect(s, m) ==
    /\ phase[s] \in {"open", "rekey_wait"}
    /\ m.type = "disconnect"
    /\ Die(s, "closed")

ExpectedOnlyKex ==
    [init_wait |-> {"kexinit"}, ecdh_init |-> {"ecdh_init"},
     ecdh_reply |-> {"ecdh_reply"}, newkeys |-> {"newkeys"},
     rekey_wait |-> {"kexinit"},
     open |-> {"kexinit", "app", "ext_info", "disconnect"}]

\* Every other packet in every other phase is a protocol error.
Expected ==
    [init_wait |-> {"kexinit"}, ecdh_init |-> {"ecdh_init"},
     ecdh_reply |-> {"ecdh_reply"}, newkeys |-> {"newkeys"},
     rekey_wait |-> {"kexinit", "app", "ext_info", "disconnect"},
     open |-> {"kexinit", "app", "ext_info", "disconnect"}]

Authentic(s, p) == p.key = rx[s] /\ p.seq = rx_seq[s]

Handle(s, m) ==
    \/ OnKexInit(s, m) \/ OnEcdhInit(s, m) \/ OnEcdhReply(s, m)
    \/ OnEcdhReplyBad(s, m) \/ OnNewKeys(s, m)
    \/ OnApp(s, m) \/ OnExtInfo(s, m) \/ Enqueue(s, m) \/ OnDisconnect(s, m)

\* recv() and the connection loop look at the packet counters and the queue
\* before they read; the clock may pass its limit while they wait.
Receive(s) ==
    /\ phase[s] \notin {"start", "dead"}
    /\ phase[s] = "open" => queued[s] = <<>> /\ ~PacketsDue(s)
    /\ wire[Peer(s)] # <<>>
    /\ LET p == Head(wire[Peer(s)])
       IN  IF ~Authentic(s, p) THEN Die(s, "mac")
           ELSE IF p.body.type \notin Expected[phase[s]] THEN Die(s, "proto")
           ELSE Handle(s, p.body)

-----------------------------------------------------------------------------
(* The environment.                                                        *)

\* disconnect(): DISCONNECT without a rekey check, then shutdown.
Disconnect(s) ==
    /\ phase[s] = "open"
    /\ s \in MayFail
    /\ SendRaw(s, <<Msg("disconnect")>>)
    /\ Goto(s, "dead")
    /\ err' = [err EXCEPT ![s] = "closed"]
    /\ UNCHANGED <<tx, rx, rx_seq, due, ages, kexinits, kexVars, cert_expired,
                   appVars>>

\* The connection breaks, in any phase.
Break(s) ==
    /\ s \in MayFail
    /\ phase[s] # "dead"
    /\ Die(s, "closed")

\* recv_raw reads zero bytes: the peer is gone and its packets are read.
PeerClosed(s) ==
    /\ phase[s] \notin {"start", "dead"}
    /\ phase[Peer(s)] = "dead" /\ wire[Peer(s)] = <<>>
    /\ Die(s, "closed")

\* Bytes sent and received, or the time since the last exchange, reach their
\* limit.
Age(s) ==
    /\ phase[s] = "open"
    /\ ~due[s] /\ ages[s] < MaxAge[s]
    /\ due' = [due EXCEPT ![s] = TRUE]
    /\ ages' = [ages EXCEPT ![s] = @ + 1]
    /\ UNCHANGED <<phase, err, tx, rx, tx_seq, rx_seq, wire, kexinits, kexVars,
                   cert_expired, appVars>>

CertExpires ==
    /\ Certified # {} /\ ~cert_expired
    /\ cert_expired' = TRUE
    /\ UNCHANGED <<phase, err, tx, rx, tx_seq, rx_seq, due, ages, wire,
                   kexinits, kexVars, appVars>>

Step(s) == Start(s) \/ RekeyInitiate(s) \/ PopQueued(s) \/ Receive(s) \/ PeerClosed(s)

Next ==
    \/ \E s \in Side : Step(s) \/ SendApp(s) \/ Disconnect(s) \/ Break(s) \/ Age(s)
    \/ CertExpires

Spec == Init /\ [][Next]_vars

\* A side's task is polled whenever it can go on.  RekeyInitiate is separate:
\* every send, every recv and every turn of the loop checks should_rekey.
\* Nothing is assumed of the application's sends or of the clock.
Fairness ==
    \A s \in Side : WF_vars(Step(s)) /\ WF_vars(RekeyInitiate(s))

FairSpec == Spec /\ Fairness

-----------------------------------------------------------------------------
Phases == {"start", "init_wait", "open", "rekey_wait", "ecdh_init",
           "ecdh_reply", "newkeys", "dead"}

Hash == [i_c : Nat, i_s : Nat, k_s : HostKeys]
Key == {Plain} \cup [h : Hash, sid : Hash]
Body ==
    [type : {"kexinit"}, cookie : Nat]
      \cup [type : {"ecdh_reply"}, host : HostKeys,
            sig : [key : HostKeys, over : Hash]]
      \cup [type : {"app"}, n : Nat]
      \cup [type : {"ecdh_init", "newkeys", "ext_info", "disconnect"}]
Packet(seqs) == [key : Key, seq : seqs, body : Body]

TypeOK ==
    /\ phase \in [Side -> Phases]
    /\ err \in [Side -> {"none", "closed", "hostkey", "queue", "mac", "proto"}]
    /\ tx \in [Side -> Key] /\ rx \in [Side -> Key]
    /\ tx_seq \in [Side -> 0..SeqMod - 1]
    /\ rx_seq \in [Side -> 0..SeqMod - 1]
    /\ due \in [Side -> BOOLEAN]
    /\ ages \in [Side -> Nat]
    /\ wire \in [Side -> Seq(Packet(0..SeqMod - 1))]
    /\ kexinits \in [Side -> Nat]
    /\ theirs \in [Side -> Nat]
    /\ hash \in [Side -> Hash \cup {None}]
    /\ session_id \in [Side -> Hash \cup {None}]
    /\ queued \in [Side -> Seq(Body)]
    /\ peer_host_key \in HostKeys \cup {None}
    /\ peer_host_sig \in [key : HostKeys, over : Hash] \cup {None}
    /\ cert_expired \in BOOLEAN
    /\ ext_info \in [Side -> {"none", "noted", "escaped"}]
    /\ sent \in [Side -> Nat]
    /\ delivered \in [Side -> Seq(Nat)]

Bodies(q) == [i \in 1..Len(q) |-> q[i].body]

\* The application packets among the messages of q are numbers a + 1 to b, each
\* once and in this order.
Numbered(q, a, b) ==
    /\ \A i \in 1..Len(q) : q[i].type = "app" => a < q[i].n /\ q[i].n <= b
    /\ \A i, j \in 1..Len(q) :
          (i < j /\ q[i].type = "app" /\ q[j].type = "app") => q[i].n < q[j].n
    /\ \A n \in (a + 1)..b : \E i \in 1..Len(q) : q[i].type = "app" /\ q[i].n = n

\* Across any number of rekeys, application packets arrive in order, once
\* each, and none is missing: what was delivered, what was set aside during a
\* rekey and what is still on the wire are together exactly what was sent.
ExactlyOnce ==
    \A s \in Side : phase[s] # "dead" =>
        /\ \A i \in 1..Len(delivered[s]) : delivered[s][i] = i
        /\ Len(delivered[s]) <= sent[Peer(s)]
        /\ Numbered(queued[s] \o Bodies(wire[Peer(s)]), Len(delivered[s]), sent[Peer(s)])

\* Strict key exchange: between a side's KEXINIT and its NEWKEYS it sends
\* nothing but key exchange packets.
StrictKex ==
    \A s \in Side : \A i, j \in 1..Len(wire[s]) :
        (i < j /\ wire[s][i].body.type = "kexinit"
               /\ wire[s][j].body.type \in {"app", "ext_info", "disconnect"})
          => \E k \in i..j : wire[s][k].body.type = "newkeys"

\* Two endpoints of this implementation never talk each other into an error:
\* whatever rekeys cross on the wire, each packet opens under the key and
\* sequence number it was sealed with and is expected when it arrives, and
\* strict key exchange is kept to.  The client may refuse a host key that
\* rotates or whose certificate expires, and a side gives up when it has set
\* aside as many packets as it may.
Undisturbed ==
    /\ StrictKex
    /\ err["client"] \in {"none", "closed", "hostkey", "queue"}
    /\ err["server"] \in {"none", "closed", "queue"}
    /\ \A s \in Side : err[s] = "queue" => Len(queued[s]) = MaxRekeyQueue

\* A sequence number is the cipher's nonce: no packet is sealed more than a
\* key exchange beyond the rekey limit, so the counter never wraps under a key.
NonceBound ==
    \A s \in Side :
        /\ tx_seq[s] <= RekeyPackets + 2
        /\ \A i \in 1..Len(wire[s]) : wire[s][i].seq <= RekeyPackets + 2

\* Both ends derive from one session id, and with the stream drained each
\* end's sending key is the other's receiving key.
SessionAgreed ==
    LET c == session_id["client"]
        d == session_id["server"]
    IN  /\ (c # None /\ d # None) => c = d
        /\ \A s \in Side :
             (phase[s] = "open" /\ phase[Peer(s)] = "open" /\ wire[s] = <<>>)
               => (tx[s] = rx[Peer(s)] /\ tx_seq[s] = rx_seq[Peer(s)])

\* The session id, once known, is the same until the connection ends, and the
\* host binding given to the agent stays a signature over it.
SessionIdFixed ==
    [][\A s \in Side :
         session_id[s] # None => session_id'[s] = session_id[s]]_vars

\* The host key the client trusted first is the one it talks to for ever: it
\* is trusted, every later exchange is signed by it, and the proof kept for
\* session-bind is that key's signature over the session id.
HostKeyPinned ==
    session_id["client"] # None =>
        /\ peer_host_key \in Trusted
        /\ peer_host_sig = [key |-> peer_host_key, over |-> session_id["client"]]
        /\ tx["client"].h.k_s = peer_host_key

\* A rekey that is due happens, and an exchange that has begun ends.
RekeyCompletes ==
    \A s \in Side :
        /\ (due[s] ~> (~due[s] \/ phase[s] = "dead"))
        /\ (phase[s] # "open" ~> phase[s] \in {"open", "dead"})

\* Everything sent is delivered, rekeys or not, unless the connection ends,
\* and no rekey holds the connection up for ever.
AllDelivered ==
    /\ RekeyCompletes
    /\ \A s \in Side : \A n \in 1..MaxApp[s] :
        sent[s] >= n ~> (Len(delivered[Peer(s)]) >= n \/ phase[Peer(s)] = "dead")
=============================================================================
