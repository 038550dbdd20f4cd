------------------------------- MODULE LoopIO -------------------------------
(***************************************************************************)
(* Connection::run (connect/mux.rs) over real sockets.  A loop is one      *)
(* task: while a handler waits in write_all, it reads nothing, and its     *)
(* liveness tick does not fire.  Between the two loops are the kernels'    *)
(* send and receive buffers, both bounded.                                 *)
(*                                                                         *)
(* A packet is as many units as it is long, each unit naming the kind of   *)
(* its packet; recv_raw takes what has arrived and keeps partial progress. *)
(* A loop is "running", its process has "hung", or it has given up a peer  *)
(* it found "unresponsive".                                                *)
(***************************************************************************)
EXTENDS Integers, Sequences, MuxLoop

CONSTANTS
    SndBuf, RcvBuf,  \* units each kernel buffer holds
    PacketLen,       \* length of a data packet; every other packet is 1
    MaxMissed,       \* keepalive_max_missed
    Workloads        \* what may be asked of the two loops: .commands, per end
                     \* what its tasks hand it, "data" or "ask"; .hang, the
                     \* ends whose process may stop, its kernel living on

ASSUME LoopIOAssumption ==
    /\ SndBuf \in Nat \ {0} /\ RcvBuf \in Nat \ {0}
    /\ PacketLen \in Nat \ {0} /\ PacketLen <= RcvBuf
    /\ MaxMissed \in Nat \ {0}
    /\ \A w \in Workloads :
         /\ w.commands \in [End -> Seq({"data", "ask"})]
         /\ w.hang \subseteq End

VARIABLES
    load,                   \* the workload of this behaviour
    out,                    \* units the handler of e has still to write
    snd,                    \* units of e in its kernel's send buffer
    rcv,                    \* units of e in its peer's receive buffer
    got,                    \* packets e has handled, by kind
    recv_since_tick,
    keepalive_outstanding

ioVars == <<load, run, out, cmds, snd, rcv, got, recv_since_tick, keepalive_outstanding>>

\* "ask" is a global request of a task; replies come back in the order of the
\* requests, so that one to a keepalive is told from one to an "ask".
Kind == {"data", "ask", "keepalive", "reply", "alive"}

Length(kind) == IF kind = "data" THEN PacketLen ELSE 1
Units(kind) ==
    [i \in 1..Length(kind) |-> [kind |-> kind, last |-> i = Length(kind)]]

IOInit ==
    /\ load \in Workloads
    /\ run = [e \in End |-> "running"]
    /\ out = [e \in End |-> <<>>]
    /\ cmds = load.commands
    /\ snd = [e \in End |-> <<>>]
    /\ rcv = [e \in End |-> <<>>]
    /\ got = [e \in End |-> [k \in {"data", "ask"} |-> 0]]
    /\ recv_since_tick = [e \in End |-> TRUE]
    /\ keepalive_outstanding = [e \in End |-> 0]

-----------------------------------------------------------------------------
\* Waiting in select!, not in a handler.
Selecting(e) == run[e] = "running" /\ out[e] = <<>>

NothingToRead(e) == rcv[Peer(e)] = <<>>

\* The arms are biased: a command waits while there is something to read, a
\* tick while there is a packet or a command.
Unbiased(e) == TRUE
CommandsTurn(e) == NothingToRead(e)

AnswerUnknownNever(kind) == IF kind = "ask" THEN Units("reply") ELSE <<>>

\* on_global_request answers from within the handler.
Answer(kind) ==
    CASE kind = "ask"       -> Units("reply")
      [] kind = "keepalive" -> Units("alive")
      [] OTHER              -> <<>>

\* on_global_reply: the answer to a keepalive clears the probe count.
ProbesLeft(e, kind) ==
    IF kind = "alive" THEN 0 ELSE keepalive_outstanding[e]

\* recv_raw takes a unit; with the last one the packet is handled.
Read(e) ==
    LET unit == Head(rcv[Peer(e)])
        whole(kind) == unit.last /\ unit.kind = kind
    IN  /\ Selecting(e) /\ ~NothingToRead(e)
        /\ rcv' = [rcv EXCEPT ![Peer(e)] = Tail(@)]
        /\ recv_since_tick' = [recv_since_tick EXCEPT ![e] = @ \/ unit.last]
        /\ out' = [out EXCEPT ![e] = IF unit.last THEN Answer(unit.kind) ELSE @]
        /\ got' = [got EXCEPT ![e] =
              [k \in DOMAIN @ |-> IF whole(k) THEN @[k] + 1 ELSE @[k]]]
        /\ keepalive_outstanding' = [keepalive_outstanding EXCEPT ![e] =
              IF unit.last THEN ProbesLeft(e, unit.kind) ELSE @]
        /\ UNCHANGED <<load, run, cmds, snd>>

\* on_cmd: the packet a task's command stands for.
TakeCmd(e) ==
    /\ Selecting(e) /\ CommandsTurn(e)
    /\ cmds[e] # <<>>
    /\ cmds' = [cmds EXCEPT ![e] = Tail(@)]
    /\ out' = [out EXCEPT ![e] = Units(Head(cmds[e]))]
    /\ UNCHANGED <<load, run, snd, rcv, got, recv_since_tick, keepalive_outstanding>>

\* Everything that can move without a clock has moved.
Settled ==
    \A e \in End :
        /\ Selecting(e) => NothingToRead(e) /\ cmds[e] = <<>>
        /\ run[e] = "running" => (out[e] = <<>> \/ Len(snd[e]) = SndBuf)
        /\ snd[e] = <<>> \/ Len(rcv[e]) = RcvBuf

HeardSinceTick(e) == recv_since_tick[e]

TooManyMissed(e) == keepalive_outstanding[e] >= MaxMissed

\* on_keepalive_tick.  The interval is longer than anything else takes.
Tick(e) ==
    /\ Selecting(e) /\ NothingToRead(e) /\ cmds[e] = <<>>
    /\ Settled
    /\ \/ /\ HeardSinceTick(e)
          /\ recv_since_tick' = [recv_since_tick EXCEPT ![e] = FALSE]
          /\ keepalive_outstanding' = [keepalive_outstanding EXCEPT ![e] = 0]
          /\ UNCHANGED <<run, out>>
       \/ /\ ~HeardSinceTick(e) /\ TooManyMissed(e)
          /\ run' = [run EXCEPT ![e] = "unresponsive"]
          /\ UNCHANGED <<out, recv_since_tick, keepalive_outstanding>>
       \/ /\ ~HeardSinceTick(e) /\ ~TooManyMissed(e)
          /\ keepalive_outstanding' = [keepalive_outstanding EXCEPT ![e] = @ + 1]
          /\ out' = [out EXCEPT ![e] = Units("keepalive")]
          /\ UNCHANGED <<run, recv_since_tick>>
    /\ UNCHANGED <<load, cmds, snd, rcv, got>>

\* write_all: a unit goes out when the send buffer has room.
Write(e) ==
    /\ run[e] = "running" /\ out[e] # <<>>
    /\ Len(snd[e]) < SndBuf
    /\ snd' = [snd EXCEPT ![e] = Append(@, Head(out[e]))]
    /\ out' = [out EXCEPT ![e] = Tail(@)]
    /\ UNCHANGED <<load, run, cmds, rcv, got, recv_since_tick,
                   keepalive_outstanding>>

-----------------------------------------------------------------------------
\* The network.
Carry(e) ==
    /\ snd[e] # <<>> /\ Len(rcv[e]) < RcvBuf
    /\ rcv' = [rcv EXCEPT ![e] = Append(@, Head(snd[e]))]
    /\ snd' = [snd EXCEPT ![e] = Tail(@)]
    /\ UNCHANGED <<load, run, out, cmds, got, recv_since_tick,
                   keepalive_outstanding>>

Hang(e) ==
    /\ e \in load.hang /\ run[e] = "running"
    /\ run' = [run EXCEPT ![e] = "hung"]
    /\ UNCHANGED <<load, out, cmds, snd, rcv, got, recv_since_tick,
                   keepalive_outstanding>>

Turn(e) == Read(e) \/ TakeCmd(e) \/ Write(e) \/ Tick(e)

IONext == \E e \in End : Turn(e) \/ Carry(e) \/ Hang(e)

IOSpec == IOInit /\ [][IONext]_ioVars

\* The runtime polls a task that can go on, and the network carries.
IOFairness == \A e \in End : WF_ioVars(Turn(e)) /\ WF_ioVars(Carry(e))

IOFairSpec == IOSpec /\ IOFairness

-----------------------------------------------------------------------------
Unit == [kind : Kind, last : BOOLEAN]

IOTypeOK ==
    /\ load \in Workloads
    /\ run \in [End -> {"running", "hung", "unresponsive"}]
    /\ \A e \in End : Len(snd[e]) <= SndBuf /\ Len(rcv[e]) <= RcvBuf
    /\ out \in [End -> Seq(Unit)]
    /\ cmds \in [End -> Seq(Kind)]
    /\ snd \in [End -> Seq(Unit)]
    /\ rcv \in [End -> Seq(Unit)]
    /\ got \in [End -> [{"data", "ask"} -> Nat]]
    /\ recv_since_tick \in [End -> BOOLEAN]
    /\ keepalive_outstanding \in [End -> 0..MaxMissed]

\* Only a peer that has stopped is ever declared unresponsive.
LivePeerKept ==
    \A e \in End : run[e] = "unresponsive" => run[Peer(e)] # "running"

Sent(e, kind) == Len(SelectSeq(load.commands[e], LAMBDA k : k = kind))

\* The handler of e waits in write_all, and every buffer on its way is full.
Blocked(e) ==
    /\ run[e] = "running" /\ out[e] # <<>>
    /\ Len(snd[e]) = SndBuf /\ Len(rcv[e]) = RcvBuf

\* Both ends write and neither reads, one of them a reply: replies are written
\* without the guard that holds commands back.
Crossed ==
    /\ \A e \in End : Blocked(e)
    /\ \E e \in End : Head(out[e]).kind \in {"reply", "alive"}

\* Whatever two live ends have to send is all read by the other, unless they
\* are crossed: two loops that write commands, be they bulk data, never wait for
\* each other in write_all, because reading comes first and a packet fits in a
\* receive buffer.
TrafficFlows ==
    load.hang = {} => \A e \in End :
        <>(Crossed \/ \A k \in {"data", "ask"} : got[e][k] = Sent(Peer(e), k))

\* "surfacing dead connections instead of hanging": the end of a peer that has
\* stopped gives up, unless it is in the middle of a write to that peer when
\* the buffers are full: no tick fires in write_all, and nothing ends it.
DeadPeerSurfaces ==
    \A e \in End :
        run[e] = "hung" ~> (run[Peer(e)] # "running" \/ Blocked(Peer(e)))

\* No loop hangs, on a live peer or on one that stopped, but in the two cases
\* above, in which the code does: a reply that crosses a write, and a write to
\* a peer that stopped with its buffers full.
NeverHangs == TrafficFlows /\ DeadPeerSurfaces
=============================================================================
