------------------------------- MODULE MCWire -------------------------------
(***************************************************************************)
(* Pairs of peers for module Wire: at least one side is this               *)
(* implementation, the other has its own order, guess, banner lines or     *)
(* lacks a feature.                                                        *)
(***************************************************************************)
EXTENDS Wire

Line(kind, end) == [line |-> kind, end |-> end, text |-> TRUE]
Says(o) == [offer |-> o, lines |-> <<Line("ssh2", 1)>>]
Pair(c, v) == [s \in Side |-> IF s = "client" THEN c ELSE v]

Client == Says(local("client", FALSE))
Server == Says(local("server", FALSE))
CertServer == Says(local("server", TRUE))
CertClient == Says(local("client", TRUE))

\* A client that prefers the other exchange and ciphers, and guesses.
Guesser(kex, keys) ==
    Says([local("client", FALSE) EXCEPT
            !.kex = kex \o <<"ext-info-c", "kex-strict-c">>,
            !.host_keys = keys,
            !.enc_c2s = <<"gcm", "chacha">>,
            !.first_packet_follows = TRUE])
OtherOrder == <<"curve25519", "mlkem768x25519">>
SameOrder == <<"mlkem768x25519", "curve25519">>

\* A server with its own order, and no ext-info, and what it says before.
Chatty(q) ==
    [Says([local("server", FALSE) EXCEPT
             !.kex = <<"curve25519", "mlkem768x25519", "kex-strict-s">>,
             !.enc_s2c = <<"gcm", "chacha">>])
       EXCEPT !.lines = Append(q, Line("ssh2", q[Len(q)].end + 1))]
Banners(ends) == [i \in DOMAIN ends |-> Line("banner", ends[i])]

\* What an altered KEXINIT may be read as: itself but for the cookie, other
\* orders, a guess that was none.
MCMisread ==
    {[local("client", FALSE) EXCEPT !.cookie = "altered"],
     [local("server", FALSE) EXCEPT !.cookie = "altered"],
     [local("client", FALSE) EXCEPT !.enc_c2s = <<"gcm">>],
     [local("server", FALSE) EXCEPT !.enc_s2c = <<"gcm">>],
     [local("server", FALSE) EXCEPT !.kex = <<"curve25519", "kex-strict-s">>],
     [local("client", FALSE) EXCEPT !.kex = <<"curve25519", "kex-strict-c">>,
                                    !.first_packet_follows = TRUE]}

MCHellos ==
    {Pair(Client, Server), Pair(CertClient, CertServer), Pair(Client, CertServer),
     Pair(Guesser(SameOrder, <<"ssh-ed25519">>), Server),
     Pair(Guesser(SameOrder, <<"ssh-ed25519">>), CertServer),
     Pair(Guesser(OtherOrder, <<"ssh-ed25519">>), Server),
     Pair(Client, Chatty(Banners(<<3, 5>>))),
     Pair(Client, Chatty(Banners(<<1, 2, 3>>))), Pair(Client, Chatty(Banners(<<3, 6>>))),
     Pair(Client, Chatty(Banners(<<4>>))),
     Pair(Client, Chatty(<<[Line("banner", 1) EXCEPT !.text = FALSE]>>)),
     Pair([Client EXCEPT !.lines = <<Line("banner", 1), Line("ssh2", 2)>>], Server),
     Pair([Client EXCEPT !.lines = <<Line("ssh1", 1)>>], Server),
     Pair(Client, Says([local("server", FALSE) EXCEPT !.kex = <<"curve25519">>])),
     Pair(Says([local("client", FALSE) EXCEPT !.enc_s2c = <<"aes256-ctr">>]), Server)}
=============================================================================
