------------------------------ MODULE Channel ------------------------------
(***************************************************************************)
(* One forwarded-TCP channel, from socket to socket: the loops of module   *)
(* MuxChannel and, at each end, the forward_task of connect/forward.rs,    *)
(* whose reader and writer halves run concurrently with each other and     *)
(* with the loop.                                                          *)
(*                                                                         *)
(* A stream byte is its position in the source, so that loss, duplication  *)
(* and reordering are all visible in what the other socket is given.       *)
(***************************************************************************)
EXTENDS MuxChannel

CONSTANT
    TotalBytes     \* bound, per end: bytes its local peer may write

ASSUME ChannelAssumption == TotalBytes \in [End -> Nat]

VARIABLES
    got,         \* bytes e's reader has taken from its socket
    rbuf,        \* the part of e's read buffer not yet sent
    reader,      \* "reading" | "sending" | "done"
    writer,      \* "running" | "done"
    joined,      \* the forward task of e has returned
    written,     \* bytes e's writer has written to its socket
    shut         \* e's writer has shut its socket's write side down

taskVars == <<got, rbuf, reader, writer, joined, written, shut>>
vars == <<loopVars, taskVars>>

Init ==
    /\ MuxInit
    /\ got = [e \in End |-> 0]
    /\ rbuf = [e \in End |-> <<>>]
    /\ reader = [e \in End |-> "reading"]
    /\ writer = [e \in End |-> "running"]
    /\ joined = [e \in End |-> FALSE]
    /\ written = [e \in End |-> <<>>]
    /\ shut = [e \in End |-> FALSE]

-----------------------------------------------------------------------------
(* The reader half of forward_task: socket -> channel.                     *)

ReadSocket(e) ==
    /\ reader[e] = "reading"
    /\ \E n \in 1..Smaller(MaxChunk[e], TotalBytes[e] - got[e]) :
         /\ got' = [got EXCEPT ![e] = @ + n]
         /\ rbuf' = [rbuf EXCEPT ![e] = [i \in 1..n |-> got[e] + i]]
    /\ reader' = [reader EXCEPT ![e] = "sending"]
    /\ UNCHANGED <<loopVars, writer, joined, written, shut>>

\* End of file, or an error on read.
ReadEof(e) ==
    /\ reader[e] = "reading"
    /\ got[e] = TotalBytes[e] \/ e \in MayFail
    /\ reader' = [reader EXCEPT ![e] = "done"]
    /\ Command(e, <<Plain("eof")>>)
    /\ UNCHANGED <<run, chan, credit, sem_closed, to_task, wire, got, rbuf,
                   writer, joined, written, shut>>

Chunk(e) == Smaller(Len(rbuf[e]), remote_max(e))

\* What is left of the buffer once a chunk has gone.
RestDropped(e) == <<>>
Unsent(e) == SubSeq(rbuf[e], Chunk(e) + 1, Len(rbuf[e]))

\* One turn of the inner loop: credit for the chunk, then Cmd::Data.
SendChunk(e) ==
    LET take == Chunk(e)
        rest == Unsent(e)
    IN  /\ reader[e] = "sending"
        /\ CanSpend(e, take)
        /\ Spend(e, take)
        /\ Command(e, <<Bytes("data", SubSeq(rbuf[e], 1, take))>>)
        /\ rbuf' = [rbuf EXCEPT ![e] = rest]
        /\ reader' = [reader EXCEPT ![e] = IF rest = <<>> THEN "reading"
                                                         ELSE "sending"]
        /\ UNCHANGED <<run, chan, sem_closed, to_task, wire, got, writer,
                       joined, written, shut>>

\* The semaphore was closed: the reader returns without an Eof.
CreditClosed(e) ==
    /\ reader[e] = "sending"
    /\ sem_closed[e]
    /\ reader' = [reader EXCEPT ![e] = "done"]
    /\ UNCHANGED <<loopVars, got, rbuf, writer, joined, written, shut>>

-----------------------------------------------------------------------------
(* The writer half: channel -> socket.                                     *)

WriteSocket(e) ==
    /\ writer[e] = "running"
    /\ HasEvent(e) /\ NextEvent(e).type = "data"
    /\ written' = [written EXCEPT ![e] = @ \o NextEvent(e).bytes]
    /\ Command(e, <<Amount("consumed", Len(NextEvent(e).bytes))>>)
    /\ TakeEvent(e)
    /\ UNCHANGED <<run, chan, credit, sem_closed, wire, got, rbuf, reader,
                   writer, joined, shut>>

\* write_all fails: the writer stops, what is queued is never read again.
WriteFails(e) ==
    /\ e \in MayFail
    /\ writer[e] = "running"
    /\ HasEvent(e) /\ NextEvent(e).type = "data"
    /\ writer' = [writer EXCEPT ![e] = "done"]
    /\ UNCHANGED <<loopVars, got, rbuf, reader, joined, written, shut>>

\* Eof shuts the socket's write side and the writer waits for more.
ShutSocket(e) ==
    /\ writer[e] = "running"
    /\ HasEvent(e) /\ NextEvent(e).type = "eof"
    /\ shut' = [shut EXCEPT ![e] = TRUE]
    /\ TakeEvent(e)
    /\ UNCHANGED <<run, chan, credit, sem_closed, cmds, wire, got, rbuf,
                   reader, writer, joined, written>>

\* Close, or the loop dropped its end of the queue: the writer stops.
StopWriter(e) ==
    /\ writer[e] = "running"
    /\ Hung(e) \/ (HasEvent(e) /\ NextEvent(e).type = "close")
    /\ writer' = [writer EXCEPT ![e] = "done"]
    /\ UNCHANGED <<loopVars, got, rbuf, reader, joined, written, shut>>

\* join!(reader, writer): only when both halves are done is Close sent.
BothDone(e) == reader[e] = "done" /\ writer[e] = "done"

Join(e) ==
    /\ BothDone(e)
    /\ ~joined[e]
    /\ joined' = [joined EXCEPT ![e] = TRUE]
    /\ Command(e, <<Plain("close")>>)
    /\ UNCHANGED <<run, chan, credit, sem_closed, to_task, wire, got, rbuf,
                   reader, writer, written, shut>>

Task(e) ==
    \/ ReadSocket(e) \/ ReadEof(e) \/ SendChunk(e) \/ CreditClosed(e)
    \/ WriteSocket(e) \/ WriteFails(e) \/ ShutSocket(e) \/ StopWriter(e)
    \/ Join(e)

LoopStep(e) == (Loop(e) \/ ConnectionFails(e)) /\ UNCHANGED taskVars

Next == \E e \in End : Task(e) \/ LoopStep(e)

Spec == Init /\ [][Next]_vars

\* Tokio polls every ready task, so each half of each forward_task and each
\* loop runs again and again while it has something to do.  Nothing is assumed
\* of the local application's writes (ReadSocket, ReadEof), and WriteSocket's
\* fairness says that it reads what it is sent.
Fairness ==
    \A e \in End :
      /\ WF_vars(SendChunk(e) \/ CreditClosed(e))
      /\ WF_vars(WriteSocket(e) \/ ShutSocket(e) \/ StopWriter(e))
      /\ WF_vars(Join(e))
      /\ WF_vars(Loop(e) /\ UNCHANGED taskVars)

FairSpec == Spec /\ Fairness

-----------------------------------------------------------------------------
(* Each direction of the channel, as module Window sees it: the bytes of a *)
(* kind of message that are in a queue, while both ends have the channel.  *)

Share(m, kind) ==
    IF m.type # kind THEN 0 ELSE IF kind = "data" THEN Len(m.bytes) ELSE m.n
Total(q, kind) ==
    LET sum[n \in 0..Len(q)] == IF n = 0 THEN 0 ELSE sum[n - 1] + Share(q[n], kind)
    IN  sum[Len(q)]

Both == \A e \in End : chan[e].open
While(x) == IF Both THEN x ELSE 0

\* The direction from s, which r receives.
Permits(s) == While(credit[s])
Inflight(s) == While(Total(cmds[s], "data") + Total(wire[s], "data"))
Unread(r) == While(Total(to_task[r], "data"))
Consumed(r) == While(Total(cmds[r], "consumed"))
Adjusting(r) == While(Total(wire[r], "adjust"))

ToServer == INSTANCE Window WITH
    LocalWindow <- LocalWindow["server"], WindowRefill <- WindowRefill["server"],
    MaxChunk <- remote_max("client"),
    open <- Both, credit <- Permits("client"), inflight <- Inflight("client"),
    local_window <- While(chan["server"].local_window),
    unread <- Unread("server"), consumed <- Consumed("server"),
    pending_consumed <- While(chan["server"].pending_consumed),
    adjusting <- Adjusting("server"), overflowed <- (run["server"] = "overflow")

ToClient == INSTANCE Window WITH
    LocalWindow <- LocalWindow["client"], WindowRefill <- WindowRefill["client"],
    MaxChunk <- remote_max("server"),
    open <- Both, credit <- Permits("server"), inflight <- Inflight("server"),
    local_window <- While(chan["client"].local_window),
    unread <- Unread("client"), consumed <- Consumed("client"),
    pending_consumed <- While(chan["client"].pending_consumed),
    adjusting <- Adjusting("client"), overflowed <- (run["client"] = "overflow")

\* Each direction of a channel implements the abstract flow control, whatever
\* the other direction, the tasks and the close handshake do meanwhile.
WindowBothWays == ToServer!WindowSpec /\ ToClient!WindowSpec

-----------------------------------------------------------------------------
TypeOK ==
    /\ MuxTypeOK
    /\ \A e \in End : got[e] \in 0..TotalBytes[e]
    /\ rbuf \in [End -> Seq(Nat)]
    /\ reader \in [End -> {"reading", "sending", "done"}]
    /\ writer \in [End -> {"running", "done"}]
    /\ joined \in [End -> BOOLEAN]
    /\ written \in [End -> Seq(Nat)]
    /\ shut \in [End -> BOOLEAN]

\* What a socket has been given is a prefix of what the other socket's peer
\* wrote: nothing lost, repeated or reordered between read and write_all.  And
\* it is only half-closed after every byte the other reader took has been
\* written to it: an EOF never overtakes data, in either queue.  Nor does
\* anything follow a CHANNEL_CLOSE, for which the other end has no channel left.
StreamsIntact ==
    /\ QuietAfterClose
    /\ \A e \in End :
        /\ written[e] = [i \in 1..Len(written[e]) |-> i]
        /\ shut[e] => Len(written[e]) = got[Peer(e)]

\* Bytes taken from a socket reach the other one, unless that socket fails or
\* the channel dies: the window of a live channel always reopens far enough
\* for the next chunk.
Delivered ==
    \A e \in End :
        Len(written[Peer(e)]) < got[e] ~>
            \/ Len(written[Peer(e)]) = got[e]
            \/ writer[Peer(e)] = "done"
            \/ ~chan[e].open \/ ~chan[Peer(e)].open

\* Once the channel is gone its writer half ends and a reader waiting for
\* credit gives up: the task unwinds as soon as its socket lets it.
Unwinds ==
    \A e \in End : ~chan[e].open ~>
        (writer[e] = "done" /\ reader[e] # "sending")

\* A channel comes to its end on every path: what was read is delivered, a
\* close is answered by the other end whoever it crosses with, and the task
\* does not outlive the channel.
Finishes == Delivered /\ CloseCompletes /\ Unwinds

\* Both directions have reached end of file and both sockets are shut: there
\* is nothing left to carry, and the channel's slot comes free.  The code does
\* not do this: see the README.
Reclaimed ==
    (\A e \in End : shut[e]) ~> (\A e \in End : ~chan[e].open)
=============================================================================
