------------------------------- MODULE Opens --------------------------------
(***************************************************************************)
(* How channels come to be in connect/mux.rs: CHANNEL_OPEN and its two     *)
(* answers, the connects a served open waits for, the cap MAX_CHANNELS,    *)
(* the admission of accepted sockets, and remote forwards (tcpip-forward,  *)
(* its listeners and its reply, correlated in order with keepalives).      *)
(*                                                                         *)
(* Two loops, each the only reader and writer of its transport.  Windows   *)
(* and data are in MuxChannel; here a channel is open until its close      *)
(* handshake is over.  Cmd::Connected is the state of its connect task: a  *)
(* loop takes those in any order, and other commands in that of the queue. *)
(* A loop that no longer runs has "ended" (done) or met an "error".        *)
(***************************************************************************)
EXTENDS Integers, Sequences, FiniteSets, MuxLoop

CONSTANTS
    MaxChannels,      \* MAX_CHANNELS
    MaxPendingOpens,  \* MAX_PENDING_OPENS
    IdSpace,          \* ids are taken modulo this (2^32)
    Scenarios,        \* what programs and peers may do: records of
                      \*   requests  what the client asks of its Handle, in order
                      \*   sockets   per end: how many sockets its acceptors accept
                      \*   probes    per end: how many keepalives it sends
                      \*   cancels   <<bind, port>>s a client may cancel (shh none)
    ServesSessions,   \* whether the server may serve, or refuse, a session
    AgentPath,        \* whether the client splices agent channels (-A)
    Policy,           \* targets a direct-tcpip open may name
    ListenPolicy,     \* <<bind, port>>s a tcpip-forward may name
    Ports             \* ports the server's kernel hands out for port 0

\* What a program asks of its Handle: a session or a remote forward.
Request == [kind : {"session"}] \cup
           [kind : {"tcpip-forward"}, bind : STRING, port : Nat, target : STRING]

ASSUME OpensAssumption ==
    /\ MaxChannels \in Nat /\ MaxPendingOpens \in Nat
    /\ IdSpace \in Nat \ {0}
    /\ \A sc \in Scenarios :
         /\ sc.requests \in Seq(Request)
         /\ sc.sockets \in [End -> Nat] /\ sc.probes \in [End -> Nat]
    /\ ServesSessions \subseteq BOOLEAN
    /\ AgentPath \in BOOLEAN
    /\ Ports \subseteq Nat \ {0}

\* alloc_id wraps without looking at the ids in use: fewer channels than ids
\* (2^32) are opened on a connection.
ASSUME IdsAssumption ==
    \A sc \in Scenarios :
        Cardinality({i \in DOMAIN sc.requests : sc.requests[i].kind = "session"})
            + sc.sockets["client"] + sc.sockets["server"] < IdSpace

VARIABLES
    channels,          \* [id, peer, is_session, end_on_close, sent_close]
    pending,           \* opens sent and not answered: [id, terminal]
    connecting,        \* connect tasks: [peer, state]
    pending_connects,
    next_id,
    open_admission,    \* permits left
    pending_global,
    remote_forwards,   \* client: <<bind, port>> -> target
    listeners,         \* server: <<addr, port>> -> listener
    live,              \* server: [bind, addr, port, target], tasks not aborted
    wire,              \* wire[e]: packets from e
    scenario,          \* the one of Scenarios this behaviour is of
    accepts, probes    \* what is left of its sockets and probes

table == <<channels, pending, connecting, pending_connects, next_id>>
forwards == <<pending_global, remote_forwards, listeners, live>>
queues == <<cmds, open_admission>>
bounds == <<scenario, accepts, probes>>
vars == <<run, table, queues, forwards, wire, bounds>>

Init ==
    /\ run = [e \in End |-> "running"]
    /\ channels = [e \in End |-> {}]
    /\ pending = [e \in End |-> {}]
    /\ connecting = [e \in End |-> {}]
    /\ pending_connects = [e \in End |-> 0]
    /\ next_id = [e \in End |-> 0]
    /\ scenario \in Scenarios
    /\ cmds = [e \in End |-> IF e = "client" THEN scenario.requests ELSE <<>>]
    /\ open_admission = [e \in End |-> MaxPendingOpens]
    /\ pending_global = [e \in End |-> <<>>]
    /\ remote_forwards = <<>>
    /\ listeners = <<>>
    /\ live = {}
    /\ wire = [e \in End |-> <<>>]
    /\ accepts = scenario.sockets
    /\ probes = scenario.probes

-----------------------------------------------------------------------------
Running(e) == run[e] = "running"

AtCapOfChannels(e) ==
    Cardinality(channels[e]) + Cardinality(pending[e]) >= MaxChannels
AtCap(e) ==
    Cardinality(channels[e]) + Cardinality(pending[e]) + pending_connects[e]
        >= MaxChannels

Send(e, p) == wire' = [wire EXCEPT ![e] = Append(@, p)]

Arrives(e, type) ==
    /\ Running(e) /\ wire[Peer(e)] # <<>>
    /\ Head(wire[Peer(e)]).type = type

Packet(e) == Head(wire[Peer(e)])

\* Take the packet, and send nothing or one answer.
Take(e) == wire' = [wire EXCEPT ![Peer(e)] = Tail(@)]
Reply(e, p) ==
    wire' = [wire EXCEPT ![Peer(e)] = Tail(@), ![e] = Append(@, p)]

Commanded(e, kinds) ==
    Running(e) /\ cmds[e] # <<>> /\ Head(cmds[e]).kind \in kinds

\* alloc_id
AllocId(e) == next_id' = [next_id EXCEPT ![e] = (@ + 1) % IdSpace]

\* insert_chan
Chan(id, peer, is_session, end_on_close) ==
    [id |-> id, peer |-> peer, is_session |-> is_session,
     end_on_close |-> end_on_close, sent_close |-> FALSE]
Insert(e, ch) == channels' = [channels EXCEPT ![e] = @ \cup {ch}]

\* Connection::drop, when run returns: listeners are aborted, channels drained.
EndLoop(e, how) ==
    /\ run' = [run EXCEPT ![e] = how]
    /\ channels' = [channels EXCEPT ![e] = {}]
    /\ pending' = [pending EXCEPT ![e] = {}]
    /\ IF e = "server" THEN live' = {} /\ listeners' = <<>>
                       ELSE UNCHANGED <<live, listeners>>

-----------------------------------------------------------------------------
\* Acceptors.  A permit is taken before the command is queued; with the loop
\* gone the semaphore is closed, the socket dropped, and the acceptor goes on.
Admit(e, cmd) ==
    /\ accepts[e] > 0
    /\ accepts' = [accepts EXCEPT ![e] = @ - 1]
    /\ open_admission[e] > 0
    /\ open_admission' = [open_admission EXCEPT ![e] = @ - 1]
    /\ cmds' = [cmds EXCEPT ![e] = Append(@, cmd)]
    /\ UNCHANGED <<run, table, forwards, wire, scenario, probes>>

\* serve_local_forward and open_direct
AcceptLocal(target) ==
    /\ Running("client")
    /\ Admit("client", [kind |-> "direct", target |-> target])

AcceptForNobody ==
    /\ ~Running("client") /\ accepts["client"] > 0
    /\ accepts' = [accepts EXCEPT !["client"] = @ - 1]
    /\ UNCHANGED <<run, table, queues, forwards, wire, scenario, probes>>

\* serve_remote_listener and open_forwarded: the open names the address as
\* the client asked for it.
Echo(l) == <<l.bind, l.port>>
AcceptRemote(l) ==
    /\ Running("server") /\ l \in live
    /\ Admit("server", [kind |-> "forwarded", key |-> Echo(l), target |-> l.target])

\* AgentListener, for a process of a session of the server.
AcceptAgent ==
    /\ Running("server") /\ \E c \in channels["server"] : c.is_session
    /\ Admit("server", [kind |-> "agent"])

-----------------------------------------------------------------------------
\* on_cmd: OpenTunnel and OpenSession.
Released(e, kind) ==
    IF kind = "session" THEN open_admission[e] ELSE open_admission[e] + 1
Open(e) ==
    LET cmd == Head(cmds[e]) IN
    /\ Commanded(e, {"direct", "forwarded", "agent", "session"})
    /\ cmds' = [cmds EXCEPT ![e] = Tail(@)]
    /\ open_admission' = [open_admission EXCEPT ![e] = Released(e, cmd.kind)]
    /\ \/ /\ AtCap(e)
          /\ UNCHANGED <<table, wire>>
       \/ /\ ~AtCap(e)
          /\ AllocId(e)
          /\ pending' = [pending EXCEPT ![e] = @ \cup
                {[id |-> next_id[e], terminal |-> cmd.kind = "session"]}]
          /\ Send(e, [type |-> "open", id |-> next_id[e], open |-> cmd])
          /\ UNCHANGED <<channels, connecting, pending_connects>>
    /\ UNCHANGED <<run, forwards, bounds>>

\* on_cmd: RemoteForward.
RequestForward(e) ==
    LET cmd == Head(cmds[e]) IN
    /\ Commanded(e, {"tcpip-forward"})
    /\ cmds' = [cmds EXCEPT ![e] = Tail(@)]
    /\ pending_global' = [pending_global EXCEPT ![e] = Append(@, cmd)]
    /\ Send(e, [type |-> "tcpip-forward", bind |-> cmd.bind, port |-> cmd.port,
                target |-> cmd.target])
    /\ UNCHANGED <<run, table, open_admission, remote_forwards, listeners, live,
                   bounds>>

\* on_keepalive_tick: a probe takes its place among the requests.
Probe(e) ==
    /\ Running(e) /\ probes[e] > 0
    /\ probes' = [probes EXCEPT ![e] = @ - 1]
    /\ pending_global' =
          [pending_global EXCEPT ![e] = Append(@, [kind |-> "keepalive"])]
    /\ Send(e, [type |-> "keepalive"])
    /\ UNCHANGED <<run, table, queues, remote_forwards, listeners, live,
                   scenario, accepts>>

\* A peer's program takes a remote forward back, asking for no reply.
SendCancel(key) ==
    /\ Running("client") /\ key \in scenario.cancels
    /\ accepts["client"] > 0
    /\ accepts' = [accepts EXCEPT !["client"] = @ - 1]
    /\ Send("client", [type |-> "cancel", key |-> key])
    /\ UNCHANGED <<run, table, queues, forwards, scenario, probes>>

-----------------------------------------------------------------------------
Wild == <<"", "0.0.0.0", "::", "*">>

\* lookup_remote: the exact address, else a wildcard bind on that port.
LookupRemote(key) ==
    LET wild == {i \in DOMAIN Wild : <<Wild[i], key[2]>> \in DOMAIN remote_forwards}
        first == CHOOSE i \in wild : \A j \in wild : i <= j
    IN  CASE key \in DOMAIN remote_forwards -> {remote_forwards[key]}
          [] key \notin DOMAIN remote_forwards /\ wild # {} ->
                {remote_forwards[<<Wild[first], key[2]>>]}
          [] OTHER -> {}

\* A served open waits for a connect unless it is a session or refused.
Connects(e, open) ==
    \/ open.kind = "direct" /\ e = "server" /\ open.target \in Policy
    \/ open.kind = "forwarded" /\ LookupRemote(open.key) # {}
    \/ open.kind = "agent" /\ e = "client" /\ AgentPath

\* A TCP connect; or one to the agent's socket and, before anything else, the
\* agent's answer to a session-bind (inject_bind).
Begun(open) == IF open.kind = "agent" THEN "binding" ELSE "connecting"

Refuse(e, id) == Reply(e, [type |-> "failure", to |-> id])

\* on_channel_open
OnChannelOpen(e) ==
    LET p == Packet(e) IN
    /\ Arrives(e, "open")
    /\ \/ /\ ~AtCap(e) /\ p.open.kind = "session" /\ TRUE \in ServesSessions
          /\ AllocId(e)
          /\ Insert(e, Chan(next_id[e], p.id, TRUE, FALSE))
          /\ Reply(e, [type |-> "confirm", to |-> p.id, id |-> next_id[e]])
          /\ UNCHANGED <<pending, connecting, pending_connects>>
       \/ /\ ~AtCap(e) /\ Connects(e, p.open)
          /\ pending_connects' = [pending_connects EXCEPT ![e] = @ + 1]
          /\ connecting' = [connecting EXCEPT ![e] = @ \cup
                {[peer |-> p.id, state |-> Begun(p.open)]}]
          /\ Take(e)
          /\ UNCHANGED <<channels, pending, next_id>>
       \/ /\ \/ AtCap(e)
             \/ p.open.kind = "session" /\ FALSE \in ServesSessions
             \/ p.open.kind # "session" /\ ~Connects(e, p.open)
          /\ Refuse(e, p.id)
          /\ UNCHANGED table
    /\ UNCHANGED <<run, queues, forwards, bounds>>

\* The task of spawn_connect or spawn_connect_agent reports.
Reports(e, from) ==
    \E c \in connecting[e], state \in {"connected", "failed"} :
        /\ c.state \in from
        /\ connecting' = [connecting EXCEPT ![e] =
              (@ \ {c}) \cup {[c EXCEPT !.state = state]}]
        /\ UNCHANGED <<run, channels, pending, pending_connects, next_id, queues,
                       forwards, wire, bounds>>
Underway == {"connecting", "binding"}
Resolve(e) == Reports(e, Underway)

\* on_cmd: Connected.
Resolved(e) == IF pending_connects[e] = 0 THEN 0 ELSE pending_connects[e] - 1
NoRefusal(e, c) == UNCHANGED wire
RefuseConnect(e, c) == Send(e, [type |-> "failure", to |-> c.peer])
OnConnected(e) ==
    \E c \in connecting[e] :
        /\ Running(e) /\ c.state \notin Underway
        /\ connecting' = [connecting EXCEPT ![e] = @ \ {c}]
        /\ pending_connects' = [pending_connects EXCEPT ![e] = Resolved(e)]
        /\ \/ /\ c.state = "connected"
              /\ AllocId(e)
              /\ Insert(e, Chan(next_id[e], c.peer, FALSE, FALSE))
              /\ Send(e, [type |-> "confirm", to |-> c.peer, id |-> next_id[e]])
           \/ /\ c.state = "failed"
              /\ RefuseConnect(e, c)
              /\ UNCHANGED <<channels, next_id>>
        /\ UNCHANGED <<run, pending, queues, forwards, bounds>>

Opens(e, id) == {o \in pending[e] : o.id = id}

\* on_open_confirm: a confirmation nobody waits for ends the connection.
OnOpenConfirm(e) ==
    LET p == Packet(e) IN
    /\ Arrives(e, "confirm")
    /\ Take(e)
    /\ \/ \E o \in Opens(e, p.to) :
             /\ pending' = [pending EXCEPT ![e] = @ \ {o}]
             /\ Insert(e, Chan(p.to, p.id, o.terminal, o.terminal))
             /\ UNCHANGED <<run, listeners, live>>
       \/ Opens(e, p.to) = {} /\ EndLoop(e, "error")
    /\ UNCHANGED <<connecting, pending_connects, next_id, queues, pending_global,
                   remote_forwards, bounds>>

\* on_open_failure: a terminal session that is refused ends the loop.
RefusalIgnored(e, id) == FALSE
TerminalRefused(e, id) == \E o \in Opens(e, id) : o.terminal
OnOpenFailure(e) ==
    LET p == Packet(e) IN
    /\ Arrives(e, "failure")
    /\ Take(e)
    /\ \/ TerminalRefused(e, p.to) /\ EndLoop(e, "ended")
       \/ /\ ~TerminalRefused(e, p.to)
          /\ pending' = [pending EXCEPT ![e] = @ \ Opens(e, p.to)]
          /\ UNCHANGED <<run, channels, listeners, live>>
    /\ UNCHANGED <<connecting, pending_connects, next_id, queues, pending_global,
                   remote_forwards, bounds>>

-----------------------------------------------------------------------------
\* on_cmd (Close): the task of a channel has finished.
SendClose(e) ==
    \E c \in channels[e] :
        /\ Running(e) /\ ~c.sent_close
        /\ channels' = [channels EXCEPT ![e] =
              (@ \ {c}) \cup {[c EXCEPT !.sent_close = TRUE]}]
        /\ Send(e, [type |-> "close", to |-> c.peer])
        /\ UNCHANGED <<run, pending, connecting, pending_connects, next_id,
                       queues, forwards, bounds>>

\* on_close and close_if_done: the channel goes, and the connection with a
\* terminal one, which says goodbye.
Goodbye(c) == IF c.end_on_close THEN <<[type |-> "disconnect"]>> ELSE <<>>
CloseAnswer(c) ==
    IF c.sent_close THEN <<>> ELSE <<[type |-> "close", to |-> c.peer]>>
OnClose(e) ==
    LET p == Packet(e)
        here == {c \in channels[e] : c.id = p.to}
    IN  /\ Arrives(e, "close")
        /\ \/ here = {} /\ Take(e) /\ UNCHANGED <<run, channels, pending, listeners, live>>
           \/ \E c \in here :
                /\ wire' = [wire EXCEPT ![Peer(e)] = Tail(@),
                              ![e] = @ \o CloseAnswer(c) \o Goodbye(c)]
                /\ \/ c.end_on_close /\ EndLoop(e, "ended")
                   \/ /\ ~c.end_on_close
                      /\ channels' = [channels EXCEPT ![e] = @ \ {c}]
                      /\ UNCHANGED <<run, pending, listeners, live>>
        /\ UNCHANGED <<connecting, pending_connects, next_id, queues,
                       pending_global, remote_forwards, bounds>>

\* A DISCONNECT, or the end of the peer's transport, ends the loop.
OnDisconnect(e) ==
    /\ Arrives(e, "disconnect")
    /\ Take(e)
    /\ EndLoop(e, "ended")
    /\ UNCHANGED <<connecting, pending_connects, next_id, queues, pending_global,
                   remote_forwards, bounds>>

PeerGone(e) ==
    /\ Running(e) /\ ~Running(Peer(e)) /\ wire[Peer(e)] = <<>>
    /\ EndLoop(e, "ended")
    /\ UNCHANGED <<connecting, pending_connects, next_id, queues, pending_global,
                   remote_forwards, wire, bounds>>

-----------------------------------------------------------------------------
\* normalize_bind
Normalize(bind) ==
    CASE bind \in {"", "*"}  -> "0.0.0.0"
      [] bind = "localhost"  -> "127.0.0.1"
      [] OTHER               -> bind

\* The kernel: a port is taken by a listener on it at the same address, or at
\* any when one of the two is the wildcard.
Free(addr, port) ==
    \A l \in live : l.port = port =>
        l.addr # addr /\ l.addr # "0.0.0.0" /\ addr # "0.0.0.0"

Bindable(addr, port) ==
    {p \in (IF port = 0 THEN Ports ELSE {port}) : Free(addr, p)}

ListenPermitted(bind, port) ==
    <<bind, port>> \in ListenPolicy \/ <<Normalize(bind), port>> \in ListenPolicy

Listener(p, actual) ==
    [bind |-> p.bind, addr |-> Normalize(p.bind), port |-> actual, target |-> p.target]

\* The keys a listener is found under: its port, and the port asked for.
OnlyAsked(l, asked) == {<<l.addr, asked>>}
Indexed(l, asked) == {<<l.addr, asked>>, <<l.addr, l.port>>}

Listen(l, asked) ==
    /\ live' = live \cup {l}
    /\ listeners' = [k \in DOMAIN listeners \cup Indexed(l, asked) |->
                       IF k \in Indexed(l, asked) THEN l ELSE listeners[k]]

PortEchoed(port, actual) == IF port = 0 THEN actual ELSE 0

\* handle_tcpip_forward
OnForward ==
    LET p == Packet("server") IN
    /\ Arrives("server", "tcpip-forward")
    /\ \/ \E actual \in Bindable(Normalize(p.bind), p.port) :
             /\ ListenPermitted(p.bind, p.port)
             /\ Listen(Listener(p, actual), p.port)
             /\ Reply("server", [type |-> "success", port |-> PortEchoed(p.port, actual)])
       \* Not permitted, or the bind failed, as it may for any address.
       \/ /\ Reply("server", [type |-> "refused"])
          /\ UNCHANGED <<live, listeners>>
    /\ UNCHANGED <<run, table, queues, pending_global, remote_forwards, bounds>>

\* on_global_request: cancel-tcpip-forward.
OnCancel ==
    LET key == <<Normalize(Packet("server").key[1]), Packet("server").key[2]>> IN
    /\ Arrives("server", "cancel")
    /\ Take("server")
    /\ \/ /\ key \in DOMAIN listeners
          /\ live' = live \ {listeners[key]}
          /\ listeners' = [k \in DOMAIN listeners \ {key} |-> listeners[k]]
       \/ key \notin DOMAIN listeners /\ UNCHANGED <<live, listeners>>
    /\ UNCHANGED <<run, table, queues, pending_global, remote_forwards, bounds>>

\* on_global_request: a request this end does not know is answered.
OnKeepalive(e) ==
    /\ Arrives(e, "keepalive")
    /\ Reply(e, [type |-> "refused"])
    /\ UNCHANGED <<run, table, queues, forwards, bounds>>

\* on_global_reply: replies come in the order of the requests.
LastRequest(q) == q[Len(q)]
Answered(q) == Head(q)
Registered(req, port, target) ==
    [k \in DOMAIN remote_forwards \cup {<<req.bind, port>>} |->
        IF k = <<req.bind, port>> THEN target ELSE remote_forwards[k]]

OnGlobalReply(e) ==
    LET p == Packet(e)
        req == Answered(pending_global[e])
        port == IF req.port = 0 THEN p.port ELSE req.port
    IN  /\ Arrives(e, "success") \/ Arrives(e, "refused")
        /\ Take(e)
        /\ \/ /\ pending_global[e] = <<>>
              /\ UNCHANGED <<pending_global, remote_forwards>>
           \/ /\ pending_global[e] # <<>>
              /\ pending_global' = [pending_global EXCEPT ![e] = Tail(@)]
              /\ remote_forwards' =
                    IF req.kind = "tcpip-forward" /\ p.type = "success"
                    THEN Registered(req, port, req.target)
                    ELSE remote_forwards
        /\ UNCHANGED <<run, table, queues, listeners, live, bounds>>

-----------------------------------------------------------------------------
Step(e) ==
    \/ Open(e) \/ RequestForward(e) \/ OnConnected(e)
    \/ OnChannelOpen(e) \/ OnOpenConfirm(e) \/ OnOpenFailure(e)
    \/ OnClose(e) \/ OnDisconnect(e) \/ PeerGone(e)
    \/ OnKeepalive(e) \/ OnGlobalReply(e)
    \/ e = "server" /\ (OnForward \/ OnCancel)

Environment ==
    \/ \E target \in Policy \cup {"elsewhere"} : AcceptLocal(target)
    \/ AcceptForNobody \/ AcceptAgent
    \/ \E l \in live : AcceptRemote(l)
    \/ \E key \in scenario.cancels : SendCancel(key)
    \/ \E e \in End : Probe(e)

Next ==
    \/ \E e \in End : Step(e) \/ Resolve(e) \/ SendClose(e)
    \/ Environment

Spec == Init /\ [][Next]_vars

\* The loops are polled, and a TCP connect ends, by CONNECT_TIMEOUT if not
\* before.  Nothing makes an agent answer the session-bind that its connection
\* begins with, and nothing bounds the wait.
Fairness ==
    \A e \in End : WF_vars(Step(e)) /\ WF_vars(Reports(e, {"connecting"}))

FairSpec == Spec /\ Fairness

-----------------------------------------------------------------------------
Id == 0..(IdSpace - 1)

TypeOK ==
    /\ run \in [End -> {"running", "ended", "error"}]
    /\ \A e \in End :
        /\ channels[e] \subseteq [id : Id, peer : Id, is_session : BOOLEAN,
                                  end_on_close : BOOLEAN, sent_close : BOOLEAN]
        /\ pending[e] \subseteq [id : Id, terminal : BOOLEAN]
        /\ connecting[e] \subseteq
              [peer : Id, state : Underway \cup {"connected", "failed"}]
    /\ pending_connects \in [End -> 0..MaxChannels]
    /\ open_admission \in [End -> 0..MaxPendingOpens]
    /\ next_id \in [End -> Id]

\* MAX_CHANNELS bounds what a peer, or the acceptors of this end, can make it
\* hold: channels, opens waiting for an answer and connects under way.
Capped ==
    \A e \in End :
        Cardinality(channels[e]) + Cardinality(pending[e]) + pending_connects[e]
            <= MaxChannels

\* A permit of open_admission is held by a queued open and by nothing else:
\* an open dropped at the cap gives it back too.
Admitted(e) ==
    Cardinality({i \in DOMAIN cmds[e] : cmds[e][i].kind \in {"direct", "forwarded", "agent"}})
PermitsKept ==
    \A e \in End : Running(e) => Admitted(e) + open_admission[e] = MaxPendingOpens

\* Two ends of this implementation never make each other fail with a
\* protocol error, however opens, refusals and closes cross.
NoProtocolError == \A e \in End : run[e] # "error"

\* With everything handled nothing is left over: no open without an answer,
\* no reservation without a connect, and every channel has its other half.
Quiet ==
    \A e \in End : Running(e) /\ wire[e] = <<>> /\ connecting[e] = {}
Halves(e) == {<<c.id, c.peer>> : c \in channels[e]}
NothingLeft ==
    Quiet =>
        /\ \A e \in End : pending[e] = {} /\ pending_connects[e] = 0
        /\ Halves("client") = {<<h[2], h[1]>> : h \in Halves("server")}

\* A connection the server accepts for a remote forward is taken by the
\* client to the target of that very forward.  (A client that cancels may see
\* its old port given to its next forward while an open for it is in flight.)
RightTarget ==
    ( /\ scenario.cancels = {}
      /\ Arrives("client", "open") /\ Packet("client").open.kind = "forwarded" ) =>
        LookupRemote(Packet("client").open.key) = {Packet("client").open.target}

\* However opens, refusals, closes and global replies cross, both ends keep
\* the same account: no protocol error, every permit held or free, every
\* channel with its other half, every forward with its own target.
Paired == NoProtocolError /\ PermitsKept /\ NothingLeft /\ RightTarget

\* Every listener that accepts is found by drop, and by a cancel of its port.
ListenersIndexed ==
    \A l \in live :
        <<l.addr, l.port>> \in DOMAIN listeners /\ listeners[<<l.addr, l.port>>] = l

\* The client's loop goes on only as long as the session it exists for,
\* unless the sockets the server accepts can fill the client's table first.
ForSession ==
    /\ \E i \in DOMAIN scenario.requests : scenario.requests[i].kind = "session"
    /\ scenario.sockets["server"] < MaxChannels
SessionOrEnd ==
    ForSession /\ Running("client") =>
        \/ \E i \in DOMAIN cmds["client"] : cmds["client"][i].kind = "session"
        \/ \E o \in pending["client"] : o.terminal
        \/ \E c \in channels["client"] : c.end_on_close

\* The other end awaits an agent's answer for this open.
AgentSilent(e, id) ==
    \E c \in connecting[Peer(e)] : c.peer = id /\ c.state = "binding"

\* Every open is answered, whether its connect succeeds, fails or times out and
\* whoever leaves meanwhile - except one for an agent that never answers the
\* session-bind of its connection.
OpensAnswered ==
    \A e \in End : \A id \in Id :
        Opens(e, id) # {} ~> (Opens(e, id) = {} \/ []AgentSilent(e, id))
=============================================================================
