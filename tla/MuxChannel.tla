----------------------------- MODULE MuxChannel -----------------------------
(***************************************************************************)
(* The connection loop of connect/mux.rs as one channel sees it, at both   *)
(* ends of a connection: the channel-table entry, the send-credit          *)
(* semaphore, and the queues between loop and task.  What the task does is *)
(* left to the modules that extend this one: Channel (a forwarded socket)  *)
(* and Session (a command run on the server).                              *)
(*                                                                         *)
(* The transport between the loops is reliable and FIFO (module Transport  *)
(* shows that it is, across rekeys).                                       *)
(***************************************************************************)
EXTENDS Integers, Sequences, FiniteSetsExt, MuxLoop

CONSTANTS
    LocalWindow,   \* per end: the window it advertises (LOCAL_WINDOW)
    WindowRefill,  \* per end: WINDOW_REFILL
    MaxChunk,      \* per end: its read buffer and advertised packet size
    Ceiling,       \* min(WINDOW_MAX, Semaphore::MAX_PERMITS)
    IsSession,     \* Chan.is_session
    RequestKinds,  \* the channel requests that are sent on it
    EndOnClose,    \* ends whose connection ends with this channel
    MayFail        \* ends whose socket or connection may fail

ASSUME MuxAssumption ==
    /\ LocalWindow \in [End -> Nat]
    /\ WindowRefill \in [End -> Nat \ {0}]
    /\ MaxChunk \in [End -> Nat \ {0}]
    /\ Ceiling \in Nat /\ \A e \in End : LocalWindow[e] <= Ceiling
    /\ IsSession \in BOOLEAN
    /\ EndOnClose \subseteq End /\ MayFail \subseteq End

VARIABLES
    chan,        \* chan[e]: the Chan entry of e, or NoChan
    credit,      \* permits of e's send semaphore
    sem_closed,  \* the semaphore was closed
    to_task,     \* events from the loop of e to its task
    wire         \* wire[e]: packets e has sent and its peer not yet taken

loopVars == <<run, chan, credit, sem_closed, to_task, cmds, wire>>

NoChan == [open |-> FALSE]

\* insert_chan.
NewChan(e) ==
    [open |-> TRUE, local_window |-> LocalWindow[e], pending_consumed |-> 0,
     sent_eof |-> FALSE, sent_close |-> FALSE, peer_closed |-> FALSE]

Bytes(kind, bytes) == [type |-> kind, bytes |-> bytes]
Amount(kind, n) == [type |-> kind, n |-> n]
Request(kind, want_reply) ==
    [type |-> "request", kind |-> kind, want_reply |-> want_reply]
Reply(ok) == [type |-> "reply", ok |-> ok]
Plain(kind) == [type |-> kind]

up(e) == run[e] = "running"
Smaller(a, b) == Min({a, b})

\* spawn_forward, spawn_session_*: the peer's packet size clamped to ours.
remote_max(e) == Max({1, Smaller(MaxChunk[Peer(e)], MaxChunk[e])})

\* Both ends have the channel in their tables and their tasks are starting.
MuxInit ==
    /\ run = [e \in End |-> "running"]
    /\ chan = [e \in End |-> NewChan(e)]
    /\ credit = [e \in End |-> LocalWindow[Peer(e)]]
    /\ sem_closed = [e \in End |-> FALSE]
    /\ to_task = [e \in End |-> <<>>]
    /\ cmds = [e \in End |-> <<>>]
    /\ wire = [e \in End |-> <<>>]

-----------------------------------------------------------------------------
(* What a task does to the shared state.                                   *)

\* cmd_tx.send, of several commands in order: fails, silently for most
\* callers, once the loop is gone.
Command(e, cs) ==
    cmds' = IF up(e) THEN [cmds EXCEPT ![e] = @ \o cs] ELSE cmds

\* to_task.recv(): the head event; None once the loop dropped the entry.
HasEvent(e) == to_task[e] # <<>>
Hung(e) == to_task[e] = <<>> /\ ~chan[e].open
NextEvent(e) == Head(to_task[e])
TakeEvent(e) == to_task' = [to_task EXCEPT ![e] = Tail(@)]

\* acquire_many(n), forgotten: all n permits at once, or wait.
CanSpend(e, n) == ~sem_closed[e] /\ n <= credit[e]
Spend(e, n) == credit' = [credit EXCEPT ![e] = @ - n]

-----------------------------------------------------------------------------
(* The loop: packets from the peer.                                        *)

Took(e, sent) ==
    wire' = [wire EXCEPT ![Peer(e)] = Tail(@), ![e] = @ \o sent]
Event(e, m) == to_task' = [to_task EXCEPT ![e] = Append(@, m)]

\* The entry leaves the table: a task waiting for credit is woken.
CreditLeft(e, gone) == UNCHANGED sem_closed
CloseCredit(e, gone) == sem_closed' = [sem_closed EXCEPT ![e] = @ \/ gone]

\* The end of run(): Drop closes every semaphore and drops both queues.
Dropped(e, why) ==
    /\ run' = [run EXCEPT ![e] = why]
    /\ chan' = [chan EXCEPT ![e] = NoChan]
    /\ CloseCredit(e, TRUE)
    /\ cmds' = [cmds EXCEPT ![e] = <<>>]

\* close_if_done: the entry goes once both sides have closed, and with the
\* terminal channel the connection.  rest: the commands still queued.
Terminal(e, c) == c.sent_close /\ c.peer_closed /\ e \in EndOnClose
Goodbye(e, c) == IF Terminal(e, c) THEN <<Plain("disconnect")>> ELSE <<>>
CloseIfDone(e, c, rest) ==
    IF Terminal(e, c) THEN Dropped(e, "done")
    ELSE LET done == c.sent_close /\ c.peer_closed
         IN  /\ chan' = [chan EXCEPT ![e] = IF done THEN NoChan ELSE c]
             /\ CloseCredit(e, done)
             /\ cmds' = [cmds EXCEPT ![e] = rest]
             /\ UNCHANGED run

WindowKept(e, n) == chan[e].local_window
WindowLeft(e, n) == chan[e].local_window - n

\* on_data, on_ext_data.
OnData(e, p) ==
    /\ p.type \in {"data", "ext"}
    /\ LET len == Len(p.bytes)
       IN  CASE ~chan[e].open ->
                  UNCHANGED <<run, chan, sem_closed, to_task, cmds>>
             [] chan[e].open /\ len <= chan[e].local_window ->
                  /\ chan' = [chan EXCEPT ![e].local_window = WindowLeft(e, len)]
                  /\ Event(e, p)
                  /\ UNCHANGED <<run, sem_closed, cmds>>
             [] OTHER -> Dropped(e, "overflow") /\ UNCHANGED to_task
    /\ Took(e, <<>>)
    /\ UNCHANGED credit

OnWindowAdjust(e, p) ==
    /\ p.type = "adjust"
    /\ credit' = IF chan[e].open
                   THEN [credit EXCEPT ![e] = Smaller(@ + p.n, Ceiling)]
                   ELSE credit
    /\ Took(e, <<>>)
    /\ UNCHANGED <<run, chan, sem_closed, to_task, cmds>>

\* on_eof, on_request_reply.
OnEvent(e, p) ==
    /\ p.type \in {"eof", "reply"}
    /\ IF chan[e].open THEN Event(e, p) ELSE UNCHANGED to_task
    /\ Took(e, <<>>)
    /\ UNCHANGED <<run, chan, sem_closed, credit, cmds>>

\* on_channel_request: a forwarded stream grants none.
OnChannelRequest(e, p) ==
    /\ p.type = "request"
    /\ IF chan[e].open /\ IsSession THEN Event(e, p) ELSE UNCHANGED to_task
    /\ Took(e, IF chan[e].open /\ ~IsSession /\ p.want_reply
                 THEN <<Reply(FALSE)>> ELSE <<>>)
    /\ UNCHANGED <<run, chan, sem_closed, credit, cmds>>

CloseAnswer(e, p) == IF chan[e].sent_close THEN <<>> ELSE <<p>>

OnClose(e, p) ==
    /\ p.type = "close"
    /\ IF chan[e].open
         THEN LET c == [chan[e] EXCEPT !.peer_closed = TRUE, !.sent_close = TRUE]
              IN  /\ Event(e, p)
                  /\ Took(e, CloseAnswer(e, p) \o Goodbye(e, c))
                  /\ CloseIfDone(e, c, cmds[e])
         ELSE /\ Took(e, <<>>)
              /\ UNCHANGED <<run, chan, sem_closed, to_task, cmds>>
    /\ UNCHANGED credit

OnDisconnect(e, p) ==
    /\ p.type = "disconnect"
    /\ Dropped(e, "done")
    /\ Took(e, <<>>)
    /\ UNCHANGED <<credit, to_task>>

OnPacket(e) ==
    /\ up(e)
    /\ wire[Peer(e)] # <<>>
    /\ LET p == Head(wire[Peer(e)])
       IN  \/ OnData(e, p) \/ OnWindowAdjust(e, p) \/ OnEvent(e, p)
           \/ OnChannelRequest(e, p) \/ OnClose(e, p) \/ OnDisconnect(e, p)

-----------------------------------------------------------------------------
(* The loop: commands from the task.                                       *)

Send(e, sent) == wire' = [wire EXCEPT ![e] = @ \o sent]
Rest(e) == Tail(cmds[e])
Dequeue(e) == cmds' = [cmds EXCEPT ![e] = Rest(e)]

\* Data, ExtData, ChannelRequest, RequestReply: one packet while the entry
\* lives.
CmdSend(e, c) ==
    /\ c.type \in {"data", "ext", "request", "reply"}
    /\ Send(e, IF chan[e].open THEN <<c>> ELSE <<>>)
    /\ Dequeue(e)
    /\ UNCHANGED <<run, chan, sem_closed>>

CmdEof(e, c) ==
    /\ c.type = "eof"
    /\ IF chan[e].open /\ ~chan[e].sent_eof
         THEN /\ chan' = [chan EXCEPT ![e].sent_eof = TRUE]
              /\ Send(e, <<c>>)
         ELSE UNCHANGED <<chan, wire>>
    /\ Dequeue(e)
    /\ UNCHANGED <<run, sem_closed>>

CmdClose(e, c) ==
    /\ c.type = "close"
    /\ IF chan[e].open
         THEN LET n == [chan[e] EXCEPT !.sent_close = TRUE]
              IN  /\ Send(e, CloseAnswer(e, c) \o Goodbye(e, n))
                  /\ CloseIfDone(e, n, Rest(e))
         ELSE Dequeue(e) /\ UNCHANGED <<run, chan, wire, sem_closed>>

BatchForgotten(e, n) == n
Batch(e, n) == chan[e].pending_consumed + n

RefillWholeWindow(e, n) == Batch(e, n) >= LocalWindow[e]
RefillDue(e, n) == Batch(e, n) >= WindowRefill[e]

CmdConsumed(e, c) ==
    /\ c.type = "consumed"
    /\ IF chan[e].open
         THEN LET pending == Batch(e, c.n)
                  refill == RefillDue(e, c.n)
              IN  /\ chan' = [chan EXCEPT
                        ![e].pending_consumed = IF refill THEN 0 ELSE pending,
                        ![e].local_window = IF refill THEN @ + pending ELSE @]
                  /\ Send(e, IF refill THEN <<Amount("adjust", pending)>>
                                       ELSE <<>>)
         ELSE UNCHANGED <<chan, wire>>
    /\ Dequeue(e)
    /\ UNCHANGED <<run, sem_closed>>

OnCmd(e) ==
    /\ up(e)
    /\ cmds[e] # <<>>
    /\ LET c == Head(cmds[e])
       IN  CmdSend(e, c) \/ CmdEof(e, c) \/ CmdClose(e, c) \/ CmdConsumed(e, c)
    /\ UNCHANGED <<credit, to_task>>

\* The connection fails under the loop.
ConnectionFails(e) ==
    /\ up(e)
    /\ e \in MayFail
    /\ Dropped(e, "lost")
    /\ UNCHANGED <<credit, to_task, wire>>

\* The peer's loop is gone and everything it sent has been read.
PeerGone(e) ==
    /\ up(e)
    /\ ~up(Peer(e)) /\ wire[Peer(e)] = <<>>
    /\ Dropped(e, "lost")
    /\ UNCHANGED <<credit, to_task, wire>>

Loop(e) == OnPacket(e) \/ OnCmd(e) \/ PeerGone(e)

-----------------------------------------------------------------------------
MuxMsg ==
    [type : {"data", "ext"}, bytes : Seq(Nat)]
      \cup [type : {"adjust", "consumed"}, n : Nat]
      \cup [type : {"request"}, kind : RequestKinds, want_reply : BOOLEAN]
      \cup [type : {"reply"}, ok : BOOLEAN]
      \cup [type : {"eof", "close", "disconnect"}]

MuxTypeOK ==
    /\ run \in [End -> {"running", "overflow", "lost", "done"}]
    /\ \A e \in End :
         \/ chan[e] = NoChan
         \/ chan[e] \in [open : {TRUE}, local_window : Nat,
                         pending_consumed : Nat, sent_eof : BOOLEAN,
                         sent_close : BOOLEAN, peer_closed : BOOLEAN]
    /\ credit \in [End -> 0..Ceiling]
    /\ sem_closed \in [End -> BOOLEAN]
    /\ to_task \in [End -> Seq(MuxMsg)]
    /\ cmds \in [End -> Seq(MuxMsg)]
    /\ wire \in [End -> Seq(MuxMsg)]

\* After CHANNEL_CLOSE an end sends nothing more on the channel (RFC 4254
\* 5.3), although its task may still hold commands for it; only the end of the
\* connection may follow.
QuietAfterClose ==
    \A e \in End : \A i, j \in 1..Len(wire[e]) :
        (i < j /\ wire[e][i].type = "close") => wire[e][j].type = "disconnect"

\* A channel one end has closed is removed by both, even when tasks are
\* blocked on credit or a half of the socket has failed.
CloseCompletes ==
    \A e \in End :
        (chan[e].open /\ chan[e].sent_close) ~> \A f \in End : ~chan[f].open
=============================================================================
