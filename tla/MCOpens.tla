------------------------------ MODULE MCOpens -------------------------------
(* Bounds for model checking Opens.                                        *)
EXTENDS Opens

Forward(bind, port, target) ==
    [kind |-> "tcpip-forward", bind |-> bind, port |-> port, target |-> target]

\* shh -R localhost:... -R *:...; then a session, as shh.rs submits them.
OneForward == <<Forward("localhost", 1, "web"), [kind |-> "session"]>>
\* shh -N, the third in conflict with what the others may have been given.
Forwards == <<Forward("localhost", 0, "web"), Forward("*", 0, "db"),
              Forward("127.0.0.1", 1, "mail")>>

Budget(c, s) == [e \in End |-> IF e = "client" THEN c ELSE s]

AsksFor(reqs, socks, beats, gone) ==
    [requests |-> reqs, sockets |-> socks, probes |-> beats,
     cancels |-> gone]

SomeCancels == {<<"localhost", 0>>, <<"localhost", 1>>, <<"*", 2>>}

\* A session with sockets accepted at both ends; forwards whose replies mix
\* with keepalives; and forwards that a client cancels.
Typical == {AsksFor(OneForward, Budget(2, 1), Budget(0, 0), {}),
            AsksFor(Forwards, Budget(0, 1), Budget(1, 0), {}),
            AsksFor(Forwards, Budget(2, 0), Budget(0, 0), SomeCancels)}

AnyListen ==
    {"localhost", "*", "127.0.0.1", "0.0.0.0"} \X (0..2)
=============================================================================
