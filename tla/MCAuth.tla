------------------------------ MODULE MCAuth --------------------------------
(* A login with an agent that holds a certificate, an unlisted key and a   *)
(* destination-constrained listed key, while a second agent connection     *)
(* locks, unlocks, adds, removes, binds and signs.                         *)
EXTENDS Auth

Plain(k, algo) ==
    [algo |-> algo, key |-> k, ca |-> "none", type |-> "none", after |-> 0,
     until |-> 0, principals |-> {}, sources |-> {}]
Cert(k, algo, type, until, principals, sources) ==
    [algo |-> algo, key |-> k, ca |-> "ca", type |-> type, after |-> 0,
     until |-> until, principals |-> principals, sources |-> sources]

K1 == Plain("k1", "ed25519")
K2 == Plain("k2", "ed25519")
Sk == Plain("sk", "sk")
C1 == Cert("k1", "cert", "user", 1, {"river"}, {"here"})
SkCert == Cert("sk", "sk-cert", "user", 1, {}, {})
Soon == [C1 EXCEPT !.after = 1, !.until = 2]
H1 == Cert("h1", "cert", "host", 1, {}, {})
H2 == Plain("h2", "ed25519")

Hop(hosts, cas) ==
    {[key |-> k, is_ca |-> FALSE] : k \in hosts} \cup
    {[key |-> k, is_ca |-> TRUE] : k \in cas}
ToHost == {[from |-> {}, to |-> Hop({}, {"ca"})]}       \* any host of the CA
ViaH2 == {[from |-> {}, to |-> Hop({"h2"}, {})],        \* h2, then h1
          [from |-> Hop({"h2"}, {}), to |-> Hop({"h1"}, {})]}

MCHost == H1
MCStock ==
    <<[blob |-> K2, expires |-> Never, constraints |-> {}],
      [blob |-> K1, expires |-> Never, constraints |-> ToHost],
      [blob |-> C1, expires |-> Never, constraints |-> {}]>>

MCPass == {<<1>>, <<1, 0>>, <<1, 0, 0>>}
MCFiles == {<<>>, <<K1>>, <<SkCert, Sk>>, <<Soon>>}
MCPolicies ==
    {[user |-> {}, keys |-> {"k1", "sk"}, cas |-> {}, banner |-> FALSE],
     [user |-> {"river"}, keys |-> {}, cas |-> {"ca"}, banner |-> TRUE],
     [user |-> {"other"}, keys |-> {"k1"}, cas |-> {"ca"}, banner |-> FALSE]}

ForeignRequest(algo, blob, sig) ==
    [t |-> "request", user |-> "river", service |-> "connection",
     method |-> "publickey", algo |-> algo, blob |-> blob, sig |-> sig]
Signs(key, sid, blob) ==
    [key |-> key, sid |-> sid, user |-> "river", algo |-> blob.algo, blob |-> blob]
Elsewhere(blob) == Signs(blob.key, "s0", blob)
MCOutside ==
    {[t |-> "service"],
     [ForeignRequest("none", K1, {}) EXCEPT !.method = "none"],
     [ForeignRequest("ed25519", K1, {}) EXCEPT !.service = "other"],
     ForeignRequest("ed25519", K1, {}),
     ForeignRequest("ed25519", C1, {Elsewhere(C1)}),
     ForeignRequest("ed25519", K1, {Elsewhere(K1)}),
     ForeignRequest("cert", C1, {Elsewhere(C1)}),
     ForeignRequest("cert", H1, {Elsewhere(H1)}),
     ForeignRequest("ed25519", K2,
        {Signs("k2", "s1", K2)})}

Bind(host, sid, key, fwd) ==
    [op |-> "bind", host_key |-> host, session_id |-> sid,
     sig |-> Signature(key, sid), is_forwarding |-> fwd]
Add(blob, sound, lifetime, constraints) ==
    [op |-> "add", blob |-> blob, sound |-> sound, lifetime |-> lifetime,
     constraints |-> constraints]
MCMeddling ==
    {[op |-> "lock", pass |-> p] : p \in MCPass} \cup
    {[op |-> "unlock", pass |-> p] : p \in MCPass} \cup
    {Bind(H2, "s2", "h2", TRUE), Bind(H1, "s1", "h1", FALSE),
     Bind(H2, "s1", "k2", TRUE),
     Add(K1, TRUE, 1, ViaH2), Add(K2, TRUE, 0, {}),
     [op |-> "remove", blob |-> K1], [op |-> "remove_all"],
     [op |-> "sign", blob |-> K1,
      data |-> SignedSpan("s1", "river", "ed25519", K1)]}
=============================================================================
