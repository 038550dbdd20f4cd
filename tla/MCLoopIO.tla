------------------------------ MODULE MCLoopIO ------------------------------
(* Bounds for model checking LoopIO.                                       *)
EXTENDS LoopIO

Workload(client, server, hang) ==
    [commands |-> [e \in End |-> IF e = "client" THEN client ELSE server],
     hang |-> hang]
Data(n) == [i \in 1..n |-> "data"]

Asks(n) == [i \in 1..n |-> "ask"]

\* Each direction has more to send than its buffers hold, data or requests, and
\* both ends live; or a server stops while what the client has to send fits in
\* the buffers, or does not.
Typical == {Workload(Data(4), Data(4), {}), Workload(Data(3), Asks(3), {}),
            Workload(Asks(4) \o Data(1), Asks(2) \o Data(1), {}),
            Workload(<<"ask">>, <<"data">>, {"server"}),
            Workload(Data(3), <<>>, {"server"})}
=============================================================================
