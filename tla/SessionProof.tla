---------------------------- MODULE SessionProof ----------------------------
(***************************************************************************)
(* Module Session, for every window, packet size, pipe and job: the output *)
(* of a command arrives whole and in order, and no status overtakes it.    *)
(*                                                                         *)
(* IInv is the inductive invariant.  A byte of output is in one of six     *)
(* places: the child's pipe, the server task's buffer, its loop's command  *)
(* queue, the wire, the client task's event queue, or it has been written. *)
(* Flowing says that, of everything the child wrote, each place holds the  *)
(* stretch that follows the one of the next place.  Nothing of this holds  *)
(* of the places behind an end that has dropped the channel: what it still *)
(* had there is lost, and nothing more comes through.                      *)
(***************************************************************************)
EXTENDS Session, SequenceTheorems, TLAPS

\* x is the stretch of s after its first a elements.
Piece(x, s, a) ==
    /\ a + Len(x) <= Len(s)
    /\ \A k \in 1..Len(x) : x[k] = s[a + k]

\* Message m, of a stream s sent as messages of one kind, stands between the
\* first a and the first b bytes; a status stands behind the last byte.
Fits(m, kind, s, a, b) ==
    /\ b = (IF m.type = kind THEN a + Len(m.bytes) ELSE a)
    /\ m.type = kind => Piece(m.bytes, s, a)
    /\ m.type = "request" => a = Len(s)

\* The queue q carries of s what is between its first a and its first b bytes.
Carries(q, kind, s, a, b) ==
    \E at \in [0..Len(q) -> 0..Len(s)] :
        /\ at[0] = a /\ at[Len(q)] = b
        /\ \A i \in 1..Len(q) : Fits(q[i], kind, s, at[i - 1], at[i])

\* The ends that have the channel open, and what they let through.
OpenEnds == {e \in End : chan[e].open}
Reaches(ends) == "client" \in ends
Sends(ends) == "client" \in ends /\ "server" \in ends

\* Three queues, one behind the other, carry what is between a and d, as far as
\* the ends that have the channel open let it through.
Along(kind, s, a, d, tq, wq, cq, ends) ==
    \E b, c \in 0..Len(s) :
        /\ Carries(tq, kind, s, a, b)
        /\ Reaches(ends) => Carries(wq, kind, s, b, c)
        /\ Sends(ends) => Carries(cq, kind, s, c, d)

\* What the server task, at pc, holds in its buffer, and the child's pipe behind it.
Holding(busy, pipe, s, d, f, pc, buf) ==
    /\ f = (IF pc = busy THEN d + Len(buf) ELSE d)
    /\ pc = busy => Piece(buf, s, d)
    /\ Piece(pipe, s, f) /\ f + Len(pipe) = Len(s)

\* All of s, of which the child's pipe still has pipe and the user has seen.
Flow(kind, busy, seen, pipe, s, tq, wq, cq, ends, pc, buf) ==
    /\ Piece(seen, s, 0)
    /\ \E d, f \in 0..Len(s) :
         /\ Along(kind, s, Len(seen), d, tq, wq, cq, ends)
         /\ Sends(ends) /\ pc # "done" => Holding(busy, pipe, s, d, f, pc, buf)

Flowing(kind, busy, seen, pipe, s) ==
    Flow(kind, busy, seen, pipe, s, to_task["client"], wire["server"], cmds["server"],
         OpenEnds, server.pc, server.buf)

OutFlows == Flowing("data", "sending_out", client.stdout, child.stdout, child.out)
ErrFlows == Flowing("ext", "sending_err", client.stderr, child.stderr, child.err)

-----------------------------------------------------------------------------
\* Output and status, which come only from a command that was started.
Payload(m) == m.type \in {"data", "ext", "request"}

\* All that is on its way from an end, in its loop's queue, on the wire or in
\* the queue of the other end's task.
Elems(q) == {q[i] : i \in 1..Len(q)}
Sent(e) == Elems(cmds[e]) \cup Elems(wire[e]) \cup Elems(to_task[Peer(e)])

\* Every payload of q comes behind a reply: granted says one came before q.
HasReply(q) == \E i \in 1..Len(q) : q[i].type = "reply"
Guarded(q, granted) ==
    \A i \in 1..Len(q) : Payload(q[i]) =>
        granted \/ \E j \in 1..(i - 1) : q[j].type = "reply"

\* The client task looks at output only once it has been granted its command.
Pumping(pc) == pc \in {"pump", "sending", "done"}
Started(pc) == pc \notin {"phase1", "done"}

Granted(tq, wq, cq, ends, cpc, spc) ==
    /\ Guarded(tq, Pumping(cpc))
    /\ Reaches(ends) => Guarded(wq, Pumping(cpc) \/ HasReply(tq))
    /\ Sends(ends) => Guarded(cq, Pumping(cpc) \/ HasReply(tq) \/ HasReply(wq))
    /\ Sends(ends) /\ Started(spc) =>
           Pumping(cpc) \/ HasReply(tq) \/ HasReply(wq) \/ HasReply(cq)

GrantFirst == Granted(to_task["client"], wire["server"], cmds["server"], OpenEnds,
                      client.pc, server.pc)

\* Until the client asks for its command, none is started.
Early == client.pc \in {"start", "await_pty", "granted_pty"}
AsksStart(m) == m.type = "request" /\ m.kind \in Start

AskedFirst ==
    /\ Early => child.state = "none" /\ \A m \in Sent("client") : ~AsksStart(m)
    /\ child.state = "none" => ~Started(server.pc) /\ \A m \in Sent("server") : ~Payload(m)

\* Requests to the server ask for a reply, and no data is empty.
Proper(m) ==
    /\ m.type = "request" => m.want_reply
    /\ m.type = "data" => m.bytes # <<>>
RepliesDue == \A m \in Sent("client") : Proper(m)

\* A task that has bytes to send, or to write, has some.
Filled ==
    /\ client.pc = "sending" => client.buf # <<>>
    /\ server.pc = "writing" => server.buf # <<>>

-----------------------------------------------------------------------------
\* What the server task knows of the child.
ServerKnows ==
    /\ server.pc = "phase1" =>
         /\ child.state = "none" /\ server.exited = "none"
         /\ ~server.stdout_eof /\ ~server.stderr_eof
    /\ child.state = "none" => child.out = <<>> /\ child.err = <<>>
                               /\ child.stdout = <<>> /\ child.stderr = <<>>
    /\ server.stdout_eof => child.state # "running" /\ child.stdout = <<>>
    /\ server.stderr_eof => /\ child.state # "running" \/ server.is_pty
                            /\ child.stderr = <<>>
    /\ server.exited # "none" => child.state = "exited" /\ server.exited = child.status

\* A status on its way is the child's own.
StatusTrue == \A m \in Sent("server") : m.type = "request" =>
                  child.state = "exited" /\ m.kind = child.status

\* A status the client has is the child's own, and all output came before it.
Complete(seen, s) == Len(seen) = Len(s)
Final(status) ==
    status \in Status =>
        /\ child.state = "exited" /\ status = child.status
        /\ Complete(client.stdout, child.out) /\ Complete(client.stderr, child.err)

\* The state of the loops has its type, and only a running loop has an entry.
LoopTyped ==
    /\ MuxTypeOK
    /\ chan = [e \in End |-> chan[e]]
    /\ \A e \in End : chan[e].open => up(e)

Typed == TypeOK /\ LoopTyped

IInv ==
    /\ Typed /\ OutFlows /\ ErrFlows /\ GrantFirst /\ AskedFirst /\ RepliesDue /\ Filled
    /\ ServerKnows /\ StatusTrue
    /\ Final(client.exit_status) /\ Final(client.result)

-----------------------------------------------------------------------------
(* Ends, messages and queues.                                              *)

\* Two ends, each the other's peer.
LEMMA TwoEnds ==
    /\ "client" \in End /\ "server" \in End
    /\ Peer("client") = "server" /\ Peer("server") = "client"
    /\ \A e \in End : Peer(e) \in End /\ Peer(e) # e /\ Peer(Peer(e)) = e
    /\ \A e, f \in End : f = e \/ f = Peer(e)
BY DEF End, Peer

\* Smaller is the smaller of two.
LEMMA SmallerOf ==
    ASSUME NEW a \in Int, NEW b \in Int
    PROVE  Smaller(a, b) = IF a <= b THEN a ELSE b
<1>1. CASE a <= b
  <2>1. \A x \in {a, b} : (\A y \in {a, b} : x =< y) => x = a
    BY <1>1
  <2>2. \A y \in {a, b} : a =< y
    BY <1>1
  <2> QED  BY <1>1, <2>1, <2>2 DEF Smaller, Min
<1>2. CASE ~(a <= b)
  <2>1. \A x \in {a, b} : (\A y \in {a, b} : x =< y) => x = b
    BY <1>2
  <2>2. \A y \in {a, b} : b =< y
    BY <1>2
  <2> QED  BY <1>2, <2>1, <2>2 DEF Smaller, Min
<1> QED  BY <1>1, <1>2

\* What the type of a message says of its contents.
LEMMA MessageFacts ==
    ASSUME NEW m \in MuxMsg
    PROVE  /\ m.type \in {"data", "ext"} => m.bytes \in Seq(Nat)
           /\ m.type \in {"adjust", "consumed"} => m.n \in Nat
           /\ m.type = "request" => m.kind \in RequestKinds /\ m.want_reply \in BOOLEAN
           /\ m.type = "reply" => m.ok \in BOOLEAN
           /\ m.type = "close" => m = Plain("close")
           /\ m.type \in {"data", "ext", "adjust", "consumed", "request", "reply", "eof",
                          "close", "disconnect"}
<1>1. CASE m \in [type : {"data", "ext"}, bytes : Seq(Nat)]
  BY <1>1
<1>2. CASE m \in [type : {"adjust", "consumed"}, n : Nat]
  BY <1>2
<1>3. CASE m \in [type : {"request"}, kind : RequestKinds, want_reply : BOOLEAN]
  BY <1>3
<1>4. CASE m \in [type : {"reply"}, ok : BOOLEAN]
  BY <1>4
<1>5. CASE m \in [type : {"eof", "close", "disconnect"}]
  BY <1>5 DEF Plain
<1> QED  BY <1>1, <1>2, <1>3, <1>4, <1>5 DEF MuxMsg

\* Messages as the tasks and the loops make them.
LEMMA Made ==
    /\ \A b \in Seq(Nat) : /\ Bytes("data", b) \in MuxMsg /\ Bytes("ext", b) \in MuxMsg
                            /\ Bytes("data", b).type = "data" /\ Bytes("ext", b).type = "ext"
                            /\ Bytes("data", b).bytes = b /\ Bytes("ext", b).bytes = b
    /\ \A n \in Nat : /\ Amount("adjust", n) \in MuxMsg /\ Amount("adjust", n).type = "adjust"
                       /\ Amount("consumed", n) \in MuxMsg /\ Amount("consumed", n).type = "consumed"
    /\ \A k \in RequestKinds, w \in BOOLEAN :
         /\ Request(k, w) \in MuxMsg /\ Request(k, w).type = "request"
         /\ Request(k, w).kind = k /\ Request(k, w).want_reply = w
    /\ \A ok \in BOOLEAN : Reply(ok) \in MuxMsg /\ Reply(ok).type = "reply" /\ Reply(ok).ok = ok
    /\ \A k \in {"eof", "close", "disconnect"} : Plain(k) \in MuxMsg /\ Plain(k).type = k
<1>1. \A b \in Seq(Nat) : Bytes("data", b) \in MuxMsg /\ Bytes("ext", b) \in MuxMsg
  BY DEF Bytes, MuxMsg
<1>2. \A b : /\ Bytes("data", b).type = "data" /\ Bytes("ext", b).type = "ext"
             /\ Bytes("data", b).bytes = b /\ Bytes("ext", b).bytes = b
  BY DEF Bytes
<1>3. \A n \in Nat : /\ Amount("adjust", n) \in MuxMsg /\ Amount("adjust", n).type = "adjust"
                     /\ Amount("consumed", n) \in MuxMsg /\ Amount("consumed", n).type = "consumed"
  BY DEF Amount, MuxMsg
<1>4. \A k \in RequestKinds, w \in BOOLEAN : Request(k, w) \in MuxMsg
  BY DEF Request, MuxMsg
<1>5. \A k, w : /\ Request(k, w).type = "request"
                /\ Request(k, w).kind = k /\ Request(k, w).want_reply = w
  BY DEF Request
<1>6. \A ok \in BOOLEAN : Reply(ok) \in MuxMsg
  BY DEF Reply, MuxMsg
<1>7. \A ok : Reply(ok).type = "reply" /\ Reply(ok).ok = ok
  BY DEF Reply
<1>8. \A k \in {"eof", "close", "disconnect"} : Plain(k) \in MuxMsg /\ Plain(k).type = k
  BY DEF Plain, MuxMsg
<1> QED  BY <1>1, <1>2, <1>3, <1>4, <1>5, <1>6, <1>7, <1>8

\* A queue with one message more ...
LEMMA OneMore ==
    ASSUME NEW S, NEW q \in Seq(S), NEW m \in S
    PROVE  /\ q \o <<m>> = Append(q, m) /\ Append(q, m) \in Seq(S) /\ q \o <<>> = q
           /\ Len(q) \in Nat /\ Len(Append(q, m)) = Len(q) + 1
           /\ \A i \in 1..Len(q) : Append(q, m)[i] = q[i]
           /\ Append(q, m)[Len(q) + 1] = m
OBVIOUS

\* ... and without its head.
LEMMA OneLess ==
    ASSUME NEW S, NEW q \in Seq(S), q # <<>>
    PROVE  /\ Head(q) \in S /\ Head(q) = q[1] /\ Len(q) \in Nat \ {0}
           /\ Tail(q) \in Seq(S) /\ Len(Tail(q)) = Len(q) - 1
           /\ \A i \in 1..(Len(q) - 1) : Tail(q)[i] = q[i + 1]
OBVIOUS

\* The elements of a queue that grows, of one that shrinks and of an empty one.
LEMMA ElemsMore ==
    ASSUME NEW S, NEW q \in Seq(S), NEW m \in S
    PROVE  Elems(Append(q, m)) = Elems(q) \cup {m}
<1>1. 1..(Len(q) + 1) = (1..Len(q)) \cup {Len(q) + 1}
  BY OneMore
<1> QED  BY <1>1, OneMore DEF Elems

\* ... when its head is taken ...
LEMMA ElemsLess ==
    ASSUME NEW S, NEW q \in Seq(S), q # <<>>
    PROVE  Elems(Tail(q)) \subseteq Elems(q) /\ Head(q) \in Elems(q)
<1>1. \A i \in 1..(Len(q) - 1) : i + 1 \in 1..Len(q)
  BY OneLess
<1>2. 1 \in 1..Len(q)
  BY OneLess
<1> QED  BY <1>1, <1>2, OneLess DEF Elems

\* ... and when it is empty.
LEMMA ElemsNone == Elems(<<>>) = {}
BY DEF Elems

-----------------------------------------------------------------------------
(* What a step of a loop does to the queues.                               *)

\* An entry of the channel table.
Entry == [open : {TRUE}, local_window : Nat, pending_consumed : Nat, sent_eof : BOOLEAN,
          sent_close : BOOLEAN, peer_closed : BOOLEAN]
PlainMsg == {m \in MuxMsg : ~Payload(m)}
Idle(m) == ~Payload(m) /\ m.type # "reply"
Grown(q, r) == \E x \in Seq(PlainMsg) : r = q \o x

\* Nothing of the other end changes but its wire, and no entry comes back.
Frame(e) ==
    /\ to_task'[Peer(e)] = to_task[Peer(e)] /\ cmds'[Peer(e)] = cmds[Peer(e)]
    /\ chan'[Peer(e)] = chan[Peer(e)]
    /\ chan'[e].open => chan[e].open

\* A packet goes to the task, unless it says nothing to it or there is no entry.
PacketStep(e) ==
    LET h == Head(wire[Peer(e)])
    IN  /\ wire[Peer(e)] # <<>> /\ wire'[Peer(e)] = Tail(wire[Peer(e)])
        /\ Grown(wire[e], wire'[e])
        /\ \/ chan[e].open /\ to_task'[e] = Append(to_task[e], h)
           \/ to_task'[e] = to_task[e] /\ (Idle(h) \/ ~chan'[e].open)
        /\ cmds'[e] = cmds[e] \/ (~chan'[e].open /\ cmds'[e] = <<>>)

\* A command goes on the wire, unless it is for the loop or there is no entry.
CmdStep(e) ==
    LET h == Head(cmds[e])
    IN  /\ cmds[e] # <<>>
        /\ cmds'[e] = Tail(cmds[e]) \/ (~chan'[e].open /\ cmds'[e] = <<>>)
        /\ wire'[Peer(e)] = wire[Peer(e)] /\ to_task'[e] = to_task[e]
        /\ \/ chan[e].open /\ wire'[e] = Append(wire[e], h)
           \/ Grown(wire[e], wire'[e]) /\ (Idle(h) \/ ~chan'[e].open)

\* The loop ends.
DropStep(e) ==
    /\ ~chan'[e].open /\ cmds'[e] = <<>>
    /\ wire'[e] = wire[e] /\ wire'[Peer(e)] = wire[Peer(e)] /\ to_task'[e] = to_task[e]

Shape(e) == LoopTyped' /\ Frame(e) /\ (PacketStep(e) \/ CmdStep(e) \/ DropStep(e))

\* An entry, or none.
LEMMA Entries ==
    ASSUME LoopTyped, NEW e \in End
    PROVE  /\ chan[e] = NoChan \/ chan[e] \in Entry
           /\ chan[e].open \in BOOLEAN
           /\ chan[e].open => chan[e] \in Entry
<1>1. chan[e] = NoChan \/ chan[e] \in Entry
  BY DEF LoopTyped, MuxTypeOK, Entry
<1>2. CASE chan[e] = NoChan
  BY <1>2 DEF NoChan
<1>3. CASE chan[e] \in Entry
  BY <1>3 DEF Entry
<1> QED  BY <1>1, <1>2, <1>3

\* Nothing, one or two plain messages are sent.
LEMMA GrownBy ==
    ASSUME NEW q \in Seq(MuxMsg)
    PROVE  /\ Grown(q, q) /\ Grown(q, q \o <<>>)
           /\ \A m \in PlainMsg : Grown(q, q \o <<m>>) /\ q \o <<m>> \in Seq(MuxMsg)
           /\ \A m, n \in PlainMsg : Grown(q, q \o <<m, n>>) /\ q \o <<m, n>> \in Seq(MuxMsg)
<1>1. <<>> \in Seq(PlainMsg) /\ q \o <<>> = q
  OBVIOUS
<1>2. \A m \in PlainMsg : <<m>> \in Seq(PlainMsg) /\ m \in MuxMsg
  BY DEF PlainMsg
<1>3. \A m, n \in PlainMsg : <<m, n>> \in Seq(PlainMsg) /\ <<m, n>> \in Seq(MuxMsg)
  BY DEF PlainMsg
<1>4. \A x \in Seq(MuxMsg) : q \o x \in Seq(MuxMsg)
  OBVIOUS
<1>5. Grown(q, q) /\ Grown(q, q \o <<>>)
  BY <1>1 DEF Grown
<1>6. ASSUME NEW m \in PlainMsg PROVE Grown(q, q \o <<m>>) /\ q \o <<m>> \in Seq(MuxMsg)
  <2>1. <<m>> \in Seq(PlainMsg) /\ <<m>> \in Seq(MuxMsg)
    BY <1>2
  <2> QED  BY <1>4, <2>1 DEF Grown
<1>7. ASSUME NEW m \in PlainMsg, NEW n \in PlainMsg
      PROVE  Grown(q, q \o <<m, n>>) /\ q \o <<m, n>> \in Seq(MuxMsg)
  BY <1>3, <1>4 DEF Grown
<1> QED  BY <1>5, <1>6, <1>7

\* Messages that are neither output nor status.
LEMMA PlainKinds ==
    /\ \A k \in {"eof", "close", "disconnect"} : Plain(k) \in PlainMsg /\ Idle(Plain(k))
    /\ \A n \in Nat : Amount("adjust", n) \in PlainMsg
    /\ \A ok \in BOOLEAN : Reply(ok) \in PlainMsg
BY Made DEF PlainMsg, Payload, Idle

\* A queue of plain messages is a queue.
LEMMA GrownTyped ==
    ASSUME NEW q \in Seq(MuxMsg), NEW r, Grown(q, r)
    PROVE  r \in Seq(MuxMsg)
<1>1. PICK x \in Seq(PlainMsg) : r = q \o x
  BY DEF Grown
<1>2. PlainMsg \subseteq MuxMsg
  BY DEF PlainMsg
<1>3. x \in Seq(MuxMsg)
  BY <1>2
<1>4. q \o x \in Seq(MuxMsg)
  BY <1>3, ConcatProperties
<1> QED  BY <1>1, <1>4

\* A loop's state keeps its type when one entry, and queues, change.
LEMMA Retyped ==
    ASSUME LoopTyped, NEW e \in End, NEW c, c = NoChan \/ c \in Entry,
           chan' = [chan EXCEPT ![e] = c],
           run' = run \/ (c = NoChan /\ \E w \in {"overflow", "lost", "done"} :
                              run' = [run EXCEPT ![e] = w]),
           c.open => up(e),
           credit' \in [End -> 0..Ceiling], sem_closed' \in [End -> BOOLEAN],
           to_task' \in [End -> Seq(MuxMsg)], cmds' \in [End -> Seq(MuxMsg)],
           wire' \in [End -> Seq(MuxMsg)]
    PROVE  LoopTyped' /\ chan'[e] = c /\ chan'[Peer(e)] = chan[Peer(e)]
<1>1. chan'[e] = c /\ \A f \in End : f # e => chan'[f] = chan[f]
  BY DEF LoopTyped
<1>2. run' \in [End -> {"running", "overflow", "lost", "done"}]
  <2>1. run \in [End -> {"running", "overflow", "lost", "done"}]
    BY DEF LoopTyped, MuxTypeOK
  <2> QED  BY <2>1
<1>3. \A f \in End : chan'[f] = NoChan \/ chan'[f] \in Entry
  BY <1>1, Entries
<1>4. MuxTypeOK'
  BY <1>2, <1>3 DEF MuxTypeOK, Entry
<1>5. chan' = [f \in End |-> chan'[f]]
  BY DEF LoopTyped
<1>6. ASSUME NEW f \in End, chan'[f].open PROVE up(f)'
  <2>1. CASE c = NoChan /\ f = e
    BY <1>1, <1>6, <2>1 DEF NoChan
  <2>2. CASE run' = run /\ f = e
    BY <1>1, <1>6, <2>2 DEF up
  <2>3. CASE f # e
    <3>1. up(f) /\ run'[f] = run[f]
      BY <1>1, <1>6, <2>3 DEF LoopTyped, MuxTypeOK
    <3> QED  BY <3>1 DEF up
  <2> QED  BY <2>1, <2>2, <2>3
<1>7. Peer(e) \in End /\ Peer(e) # e
  BY TwoEnds
<1> QED  BY <1>1, <1>4, <1>5, <1>6, <1>7 DEF LoopTyped

\* The types of the parts.
LEMMA LoopTypes ==
    ASSUME LoopTyped, NEW e \in End
    PROVE  /\ run \in [End -> {"running", "overflow", "lost", "done"}]
           /\ credit \in [End -> 0..Ceiling] /\ sem_closed \in [End -> BOOLEAN]
           /\ to_task \in [End -> Seq(MuxMsg)] /\ cmds \in [End -> Seq(MuxMsg)]
           /\ wire \in [End -> Seq(MuxMsg)] /\ chan = [f \in End |-> chan[f]]
           /\ Peer(e) \in End /\ Peer(e) # e
           /\ wire[e] \in Seq(MuxMsg) /\ wire[Peer(e)] \in Seq(MuxMsg)
           /\ to_task[e] \in Seq(MuxMsg) /\ cmds[e] \in Seq(MuxMsg)
BY TwoEnds DEF LoopTyped, MuxTypeOK

\* Took: one wire loses its head, the other grows.
LEMMA TookShape ==
    ASSUME LoopTyped, NEW e \in End, NEW x, Took(e, x), wire[Peer(e)] # <<>>,
           Grown(wire[e], wire[e] \o x)
    PROVE  /\ wire' \in [End -> Seq(MuxMsg)]
           /\ wire'[Peer(e)] = Tail(wire[Peer(e)]) /\ Grown(wire[e], wire'[e])
           /\ Head(wire[Peer(e)]) \in MuxMsg
<1> DEFINE p == Peer(e)
<1>1. wire \in [End -> Seq(MuxMsg)] /\ p \in End /\ p # e
  BY LoopTypes
<1>2. wire[e] \o x \in Seq(MuxMsg)
  BY <1>1, GrownTyped
<1>3. Tail(wire[p]) \in Seq(MuxMsg) /\ Head(wire[p]) \in MuxMsg
  BY <1>1, OneLess
<1>4. wire' = [wire EXCEPT ![p] = Tail(wire[p]), ![e] = wire[e] \o x]
  BY <1>1 DEF Took
<1> HIDE DEF p
<1>5. wire'[p] = Tail(wire[p]) /\ wire'[e] = wire[e] \o x
  BY <1>1, <1>4
<1>6. wire' \in [End -> Seq(MuxMsg)]
  BY <1>1, <1>2, <1>3, <1>4
<1> QED  BY <1>3, <1>5, <1>6 DEF p

\* Event: the queue of one task grows.
LEMMA EventShape ==
    ASSUME LoopTyped, NEW e \in End, NEW m \in MuxMsg, Event(e, m)
    PROVE  /\ to_task' \in [End -> Seq(MuxMsg)]
           /\ to_task'[e] = Append(to_task[e], m) /\ to_task'[Peer(e)] = to_task[Peer(e)]
<1>1. to_task \in [End -> Seq(MuxMsg)] /\ Peer(e) \in End /\ Peer(e) # e
  BY LoopTypes
<1>2. Append(to_task[e], m) \in Seq(MuxMsg)
  BY <1>1, OneMore
<1> QED  BY <1>1, <1>2 DEF Event

\* Dropped: the loop ends, with its entry and its commands.
LEMMA DroppedShape ==
    ASSUME LoopTyped, NEW e \in End, NEW w \in {"overflow", "lost", "done"}, Dropped(e, w),
           credit' = credit, to_task' \in [End -> Seq(MuxMsg)], wire' \in [End -> Seq(MuxMsg)]
    PROVE  /\ LoopTyped' /\ ~chan'[e].open /\ chan'[Peer(e)] = chan[Peer(e)]
           /\ cmds'[e] = <<>> /\ cmds'[Peer(e)] = cmds[Peer(e)]
<1>1. /\ cmds \in [End -> Seq(MuxMsg)] /\ Peer(e) \in End /\ Peer(e) # e
      /\ sem_closed \in [End -> BOOLEAN] /\ credit \in [End -> 0..Ceiling]
  BY LoopTypes
<1>2. cmds' \in [End -> Seq(MuxMsg)] /\ cmds'[e] = <<>> /\ cmds'[Peer(e)] = cmds[Peer(e)]
  BY <1>1 DEF Dropped
<1>3. sem_closed' \in [End -> BOOLEAN]
  BY <1>1 DEF Dropped, CloseCredit
<1>4. chan' = [chan EXCEPT ![e] = NoChan] /\ run' = [run EXCEPT ![e] = w] /\ ~NoChan.open
  BY DEF Dropped, NoChan
<1>5. LoopTyped' /\ chan'[e] = NoChan /\ chan'[Peer(e)] = chan[Peer(e)]
  BY <1>1, <1>2, <1>3, <1>4, Retyped
<1> QED  BY <1>2, <1>4, <1>5

\* The loop of e is about to take a packet, or a command.
Taking(e) == up(e) /\ wire[Peer(e)] # <<>>

\* Packets that change no entry: adjusts, events, requests of a session.
LEMMA PassShape ==
    ASSUME LoopTyped, NEW e \in End, Taking(e), NEW h, h = Head(wire[Peer(e)]),
           Took(e, <<>>), UNCHANGED <<run, chan, sem_closed, cmds>>,
           credit' \in [End -> 0..Ceiling],
           \/ chan[e].open /\ Event(e, h)
           \/ UNCHANGED to_task /\ (Idle(h) \/ ~chan[e].open)
    PROVE  Shape(e)
<1>1. /\ wire' \in [End -> Seq(MuxMsg)] /\ Grown(wire[e], wire'[e]) /\ h \in MuxMsg
      /\ wire'[Peer(e)] = Tail(wire[Peer(e)])
  BY LoopTypes, TookShape, GrownBy DEF Taking
<1>2. to_task' \in [End -> Seq(MuxMsg)] /\ to_task'[Peer(e)] = to_task[Peer(e)]
  BY <1>1, LoopTypes, EventShape
<1>3. LoopTyped'
  <2>1. chan[e] = NoChan \/ chan[e] \in Entry
    BY Entries
  <2>2. chan' = [chan EXCEPT ![e] = chan[e]]
    BY LoopTypes
  <2>3. chan[e].open => up(e)
    BY DEF LoopTyped
  <2> QED  BY <1>1, <1>2, <2>1, <2>2, <2>3, LoopTypes, Retyped
<1>4. Frame(e)
  BY <1>2 DEF Frame
<1>5. \/ chan[e].open /\ to_task'[e] = Append(to_task[e], h)
      \/ to_task'[e] = to_task[e] /\ (Idle(h) \/ ~chan'[e].open)
  BY <1>1, EventShape
<1>6. PacketStep(e)
  BY <1>1, <1>5 DEF PacketStep, Taking
<1> QED  BY <1>3, <1>4, <1>6 DEF Shape

\* on_window_adjust ...
LEMMA AdjustShape ==
    ASSUME LoopTyped, NEW e \in End, Taking(e), OnWindowAdjust(e, Head(wire[Peer(e)]))
    PROVE  Shape(e)
<1> DEFINE h == Head(wire[Peer(e)])
<1>1. h \in MuxMsg /\ h.type = "adjust"
  BY LoopTypes, OneLess DEF Taking, OnWindowAdjust
<1>2. h.n \in Nat /\ credit \in [End -> 0..Ceiling] /\ Ceiling \in Nat
  BY <1>1, MessageFacts, LoopTypes, MuxAssumption
<1>3. credit' \in [End -> 0..Ceiling]
  <2>1. credit[e] + h.n \in Nat
    BY <1>2
  <2>2. Smaller(credit[e] + h.n, Ceiling) \in 0..Ceiling
    <3> HIDE DEF h
    <3> QED  BY <1>2, <2>1, SmallerOf
  <2> QED  BY <1>2, <2>2 DEF OnWindowAdjust
<1>4. Idle(h)
  BY <1>1 DEF Idle, Payload
<1>5. Took(e, <<>>) /\ UNCHANGED <<run, chan, sem_closed, to_task, cmds>>
  BY DEF OnWindowAdjust
<1> HIDE DEF h
<1> QED  BY <1>3, <1>4, <1>5, PassShape DEF h

\* ... on_eof and on_request_reply ...
LEMMA EventStepShape ==
    ASSUME LoopTyped, NEW e \in End, Taking(e), OnEvent(e, Head(wire[Peer(e)]))
    PROVE  Shape(e)
<1>1. /\ Took(e, <<>>) /\ UNCHANGED <<run, chan, sem_closed, cmds>>
      /\ credit' = credit /\ credit \in [End -> 0..Ceiling]
      /\ (chan[e].open /\ Event(e, Head(wire[Peer(e)]))) \/ (UNCHANGED to_task /\ ~chan[e].open)
  BY LoopTypes DEF OnEvent
<1> QED  BY <1>1, PassShape

\* ... and on_channel_request.
LEMMA RequestShape ==
    ASSUME LoopTyped, NEW e \in End, Taking(e), OnChannelRequest(e, Head(wire[Peer(e)]))
    PROVE  Shape(e)
<1>1. IsSession
  BY SessionAssumption
<1>2. /\ Took(e, <<>>) /\ UNCHANGED <<run, chan, sem_closed, cmds>>
      /\ credit' = credit /\ credit \in [End -> 0..Ceiling]
      /\ (chan[e].open /\ Event(e, Head(wire[Peer(e)]))) \/ (UNCHANGED to_task /\ ~chan[e].open)
  BY <1>1, LoopTypes DEF OnChannelRequest
<1> QED  BY <1>2, PassShape

\* on_disconnect, and the end of a loop.
LEMMA DropShape ==
    ASSUME LoopTyped, NEW e \in End, NEW w \in {"overflow", "lost", "done"}, Dropped(e, w),
           UNCHANGED <<credit, to_task, wire>>
    PROVE  Shape(e)
<1>1. /\ LoopTyped' /\ ~chan'[e].open /\ chan'[Peer(e)] = chan[Peer(e)]
      /\ cmds'[e] = <<>> /\ cmds'[Peer(e)] = cmds[Peer(e)]
  BY LoopTypes, DroppedShape
<1> QED  BY <1>1 DEF Shape, Frame, DropStep

\* A packet with which the loop ends.
LEMMA LastPacketShape ==
    ASSUME LoopTyped, NEW e \in End, NEW w \in {"overflow", "lost", "done"}, Taking(e),
           NEW x, Grown(wire[e], wire[e] \o x), Took(e, x),
           Dropped(e, w), UNCHANGED credit,
           UNCHANGED to_task \/ (chan[e].open /\ Event(e, Head(wire[Peer(e)])))
    PROVE  Shape(e)
<1> DEFINE h == Head(wire[Peer(e)])
<1>1. /\ wire' \in [End -> Seq(MuxMsg)] /\ Grown(wire[e], wire'[e]) /\ h \in MuxMsg
      /\ wire'[Peer(e)] = Tail(wire[Peer(e)])
  BY TookShape DEF Taking
<1>2. /\ to_task' \in [End -> Seq(MuxMsg)] /\ to_task'[Peer(e)] = to_task[Peer(e)]
      /\ to_task'[e] = to_task[e] \/ (chan[e].open /\ to_task'[e] = Append(to_task[e], h))
  BY <1>1, LoopTypes, EventShape
<1>3. /\ LoopTyped' /\ ~chan'[e].open /\ chan'[Peer(e)] = chan[Peer(e)]
      /\ cmds'[e] = <<>> /\ cmds'[Peer(e)] = cmds[Peer(e)]
  BY <1>1, <1>2, DroppedShape
<1>4. Frame(e)
  BY <1>2, <1>3 DEF Frame
<1>5. PacketStep(e)
  BY <1>1, <1>2, <1>3 DEF PacketStep, Taking
<1> QED  BY <1>3, <1>4, <1>5 DEF Shape

\* A packet with which the entry changes, and the loop goes on.
LEMMA EntryPacketShape ==
    ASSUME LoopTyped, NEW e \in End, Taking(e), chan[e].open,
           NEW x, Grown(wire[e], wire[e] \o x), Took(e, x),
           NEW c, c = NoChan \/ c \in Entry, chan' = [chan EXCEPT ![e] = c],
           sem_closed' \in [End -> BOOLEAN],
           UNCHANGED <<run, credit, cmds>>, Event(e, Head(wire[Peer(e)]))
    PROVE  Shape(e)
<1> DEFINE h == Head(wire[Peer(e)])
<1>1. /\ wire' \in [End -> Seq(MuxMsg)] /\ Grown(wire[e], wire'[e]) /\ h \in MuxMsg
      /\ wire'[Peer(e)] = Tail(wire[Peer(e)])
  BY TookShape DEF Taking
<1>2. /\ to_task' \in [End -> Seq(MuxMsg)] /\ to_task'[Peer(e)] = to_task[Peer(e)]
      /\ to_task'[e] = Append(to_task[e], h)
  BY <1>1, LoopTypes, EventShape
<1>3. LoopTyped' /\ chan'[Peer(e)] = chan[Peer(e)]
  BY <1>1, <1>2, LoopTypes, Retyped DEF Taking
<1>4. Frame(e)
  BY <1>2, <1>3 DEF Frame
<1>5. PacketStep(e)
  BY <1>1, <1>2 DEF PacketStep, Taking
<1> QED  BY <1>3, <1>4, <1>5 DEF Shape

\* on_data and on_ext_data: within the window, outside it, or without an entry.
LEMMA DataShape ==
    ASSUME LoopTyped, NEW e \in End, Taking(e), OnData(e, Head(wire[Peer(e)]))
    PROVE  Shape(e)
<1> DEFINE h == Head(wire[Peer(e)])  len == Len(h.bytes)
<1>1. h \in MuxMsg /\ h.type \in {"data", "ext"}
  BY LoopTypes, OneLess DEF Taking, OnData
<1>2. h.bytes \in Seq(Nat)
  BY <1>1, MessageFacts
<1>3. len \in Nat
  BY <1>2
<1>4. Took(e, <<>>) /\ credit' = credit /\ credit \in [End -> 0..Ceiling] /\ Grown(wire[e], wire[e] \o <<>>)
  BY LoopTypes, GrownBy DEF OnData
<1> HIDE DEF h, len
<1>5. CASE ~chan[e].open
  <2>1. UNCHANGED <<run, chan, sem_closed, to_task, cmds>>
    BY <1>5 DEF OnData
  <2> QED  BY <1>4, <1>5, <2>1, PassShape
<1>6. CASE chan[e].open /\ len <= chan[e].local_window
  <2> DEFINE c == [chan[e] EXCEPT !.local_window = chan[e].local_window - len]
  <2>1. chan[e] \in Entry
    BY <1>6, Entries
  <2>2. /\ chan' = [chan EXCEPT ![e].local_window = chan[e].local_window - len]
        /\ Event(e, h) /\ UNCHANGED <<run, sem_closed, cmds>>
    <3>1. ~(~chan[e].open)
      BY <1>6
    <3> QED  BY <1>6, <3>1 DEF OnData, WindowLeft, h, len
  <2>3. chan' = [chan EXCEPT ![e] = c]
    BY <2>2, LoopTypes
  <2>4. c \in Entry
    <3>1. chan[e].local_window \in Nat
      BY <2>1 DEF Entry
    <3>2. chan[e].local_window - len \in Nat
      BY <1>3, <1>6, <3>1
    <3> QED  BY <2>1, <3>2 DEF Entry
  <2> HIDE DEF c
  <2>5. sem_closed' \in [End -> BOOLEAN]
    BY <2>2, LoopTypes
  <2> QED  BY <1>4, <1>6, <2>2, <2>3, <2>4, <2>5, EntryPacketShape DEF h
<1>7. CASE chan[e].open /\ ~(len <= chan[e].local_window)
  <2>1. Dropped(e, "overflow") /\ UNCHANGED to_task
    BY <1>7 DEF OnData, h, len
  <2> QED  BY <1>4, <2>1, LastPacketShape
<1> QED  BY <1>5, <1>6, <1>7, Entries

\* What close_if_done leaves of an entry.
LEMMA ClosedEntry ==
    ASSUME LoopTyped, NEW e \in End, chan[e].open,
           NEW c, \/ c = [chan[e] EXCEPT !.peer_closed = TRUE, !.sent_close = TRUE]
                  \/ c = [chan[e] EXCEPT !.sent_close = TRUE],
           NEW rest \in Seq(MuxMsg), CloseIfDone(e, c, rest)
    PROVE  \/ Dropped(e, "done")
           \/ \E d \in Entry \cup {NoChan} :
                 /\ chan' = [chan EXCEPT ![e] = d] /\ run' = run
                 /\ sem_closed' \in [End -> BOOLEAN]
                 /\ cmds' = [cmds EXCEPT ![e] = rest]
<1>1. c \in Entry
  BY Entries DEF Entry
<1>2. c.sent_close \in BOOLEAN /\ c.peer_closed \in BOOLEAN
  BY <1>1 DEF Entry
<1>3. CASE ~Terminal(e, c)
  <2> DEFINE done == c.sent_close /\ c.peer_closed  d == IF done THEN NoChan ELSE c
  <2>1. /\ chan' = [chan EXCEPT ![e] = d] /\ CloseCredit(e, done)
        /\ cmds' = [cmds EXCEPT ![e] = rest] /\ run' = run
    BY <1>3 DEF CloseIfDone
  <2>2. d \in Entry \cup {NoChan}
    BY <1>1
  <2>3. sem_closed' \in [End -> BOOLEAN]
    <3>1. sem_closed \in [End -> BOOLEAN] /\ done \in BOOLEAN
      BY <1>2, LoopTypes
    <3> HIDE DEF done
    <3> QED  BY <2>1, <3>1 DEF CloseCredit
  <2> HIDE DEF d
  <2> QED  BY <2>1, <2>2, <2>3
<1>4. CASE Terminal(e, c)
  BY <1>4 DEF CloseIfDone
<1> QED  BY <1>3, <1>4

\* What is sent with a close: the close itself, a disconnect, both or none.
LEMMA ClosingSends ==
    ASSUME LoopTyped, NEW e \in End, NEW c, NEW m, m = Plain("close")
    PROVE  Grown(wire[e], wire[e] \o (CloseAnswer(e, m) \o Goodbye(e, c)))
<1>1. Plain("close") \in PlainMsg /\ Plain("disconnect") \in PlainMsg
  BY PlainKinds
<1>2. CloseAnswer(e, m) \in Seq(PlainMsg) /\ Goodbye(e, c) \in Seq(PlainMsg)
  BY <1>1 DEF CloseAnswer, Goodbye
<1>3. CloseAnswer(e, m) \o Goodbye(e, c) \in Seq(PlainMsg)
  BY <1>2, ConcatProperties
<1> QED  BY <1>3 DEF Grown

\* on_close.
LEMMA CloseShape ==
    ASSUME LoopTyped, NEW e \in End, Taking(e), OnClose(e, Head(wire[Peer(e)]))
    PROVE  Shape(e)
<1> DEFINE h == Head(wire[Peer(e)])
<1>1. h \in MuxMsg /\ h.type = "close"
  BY LoopTypes, OneLess DEF Taking, OnClose
<1>2. h = Plain("close") /\ Idle(h)
  BY <1>1, MessageFacts DEF Idle, Payload
<1>3. credit' = credit /\ credit \in [End -> 0..Ceiling]
  BY LoopTypes DEF OnClose
<1>4. CASE ~chan[e].open
  BY <1>2, <1>3, <1>4, PassShape DEF OnClose
<1>5. CASE chan[e].open
  <2> DEFINE c == [chan[e] EXCEPT !.peer_closed = TRUE, !.sent_close = TRUE]
             x == CloseAnswer(e, h) \o Goodbye(e, c)
  <2>1. Event(e, h) /\ Took(e, x) /\ CloseIfDone(e, c, cmds[e])
    BY <1>5 DEF OnClose
  <2>2. Grown(wire[e], wire[e] \o x)
    BY <1>2, ClosingSends
  <2>3. cmds[e] \in Seq(MuxMsg) /\ cmds \in [End -> Seq(MuxMsg)]
    BY LoopTypes
  <2>4. \/ Dropped(e, "done")
        \/ \E d \in Entry \cup {NoChan} :
              /\ chan' = [chan EXCEPT ![e] = d] /\ run' = run
              /\ sem_closed' \in [End -> BOOLEAN]
              /\ cmds' = [cmds EXCEPT ![e] = cmds[e]]
    BY <1>5, <2>1, <2>3, ClosedEntry
  <2> HIDE DEF x, h, c
  <2>5. CASE Dropped(e, "done")
    BY <1>3, <1>5, <2>1, <2>2, <2>5, LastPacketShape DEF h
  <2>6. ASSUME NEW d \in Entry \cup {NoChan},
               chan' = [chan EXCEPT ![e] = d], run' = run,
               sem_closed' \in [End -> BOOLEAN], cmds' = [cmds EXCEPT ![e] = cmds[e]]
        PROVE  Shape(e)
    <3>1. cmds' = cmds /\ (d = NoChan \/ d \in Entry)
      BY <2>3, <2>6
    <3> QED  BY <1>3, <1>5, <2>1, <2>2, <2>6, <3>1, EntryPacketShape DEF h
  <2> QED  BY <2>4, <2>5, <2>6
<1> QED  BY <1>4, <1>5

\* Every packet.
LEMMA PacketShape ==
    ASSUME LoopTyped, NEW e \in End, OnPacket(e)
    PROVE  Shape(e)
<1> DEFINE h == Head(wire[Peer(e)])
<1>1. Taking(e)
  BY DEF OnPacket, Taking
<1>2. CASE OnDisconnect(e, h)
  <2>1. Grown(wire[e], wire[e] \o <<>>)
    BY LoopTypes, GrownBy
  <2> QED  BY <1>1, <1>2, <2>1, LastPacketShape DEF OnDisconnect
<1> QED
  BY <1>1, <1>2, DataShape, AdjustShape, EventStepShape, RequestShape, CloseShape DEF OnPacket

\* A command that leaves the entry, and one that changes it.
LEMMA CmdShape ==
    ASSUME LoopTyped, NEW e \in End, up(e), cmds[e] # <<>>,
           NEW c, c = NoChan \/ c \in Entry, c.open => chan[e].open,
           chan' = [chan EXCEPT ![e] = c],
           sem_closed' \in [End -> BOOLEAN], UNCHANGED <<run, credit, to_task>>,
           cmds' = [cmds EXCEPT ![e] = Tail(cmds[e])],
           NEW r, wire' = [wire EXCEPT ![e] = r],
           \/ chan[e].open /\ r = Append(wire[e], Head(cmds[e]))
           \/ Grown(wire[e], r) /\ (Idle(Head(cmds[e])) \/ ~c.open)
    PROVE  Shape(e)
<1> DEFINE h == Head(cmds[e])  p == Peer(e)
<1>1. /\ cmds \in [End -> Seq(MuxMsg)] /\ wire \in [End -> Seq(MuxMsg)] /\ p \in End /\ p # e
      /\ credit \in [End -> 0..Ceiling] /\ to_task \in [End -> Seq(MuxMsg)]
  BY LoopTypes
<1>2. h \in MuxMsg /\ Tail(cmds[e]) \in Seq(MuxMsg)
  BY <1>1, OneLess
<1>3. r \in Seq(MuxMsg)
  <2>1. CASE r = Append(wire[e], h)
    BY <1>1, <1>2, <2>1, OneMore
  <2>2. CASE Grown(wire[e], r)
    BY <1>1, <2>2, GrownTyped
  <2> QED  BY <2>1, <2>2
<1> HIDE DEF h, p
<1>4. /\ cmds' \in [End -> Seq(MuxMsg)] /\ cmds'[e] = Tail(cmds[e]) /\ cmds'[p] = cmds[p]
  BY <1>1, <1>2
<1>5. wire' \in [End -> Seq(MuxMsg)] /\ wire'[e] = r /\ wire'[p] = wire[p]
  BY <1>1, <1>3
<1>6. LoopTyped' /\ chan'[e] = c /\ chan'[p] = chan[p]
  <2>1. credit' \in [End -> 0..Ceiling] /\ to_task' \in [End -> Seq(MuxMsg)]
    BY <1>1
  <2> QED  BY <1>4, <1>5, <2>1, Retyped DEF p
<1>7. Frame(e)
  BY <1>4, <1>6 DEF Frame, p
<1>8. CmdStep(e)
  BY <1>4, <1>5, <1>6 DEF CmdStep, p, h
<1> QED  BY <1>6, <1>7, <1>8 DEF Shape

\* The loop of e has a command to handle.
Handling(e) == up(e) /\ cmds[e] # <<>> /\ UNCHANGED <<credit, to_task>>

\* A command that leaves the entry alone.
LEMMA SameEntryShape ==
    ASSUME LoopTyped, NEW e \in End, Handling(e), UNCHANGED <<run, chan, sem_closed>>,
           Dequeue(e),
           NEW r, wire' = [wire EXCEPT ![e] = r],
           \/ chan[e].open /\ r = Append(wire[e], Head(cmds[e]))
           \/ Grown(wire[e], r) /\ (Idle(Head(cmds[e])) \/ ~chan[e].open)
    PROVE  Shape(e)
<1>1. /\ chan[e] = NoChan \/ chan[e] \in Entry
      /\ chan' = [chan EXCEPT ![e] = chan[e]] /\ sem_closed' \in [End -> BOOLEAN]
  BY Entries, LoopTypes
<1>2. cmds' = [cmds EXCEPT ![e] = Tail(cmds[e])]
  BY DEF Dequeue, Rest
<1> QED  BY <1>1, <1>2, CmdShape DEF Handling

\* Data, ExtData, ChannelRequest, RequestReply ...
LEMMA CmdSendShape ==
    ASSUME LoopTyped, NEW e \in End, Handling(e), CmdSend(e, Head(cmds[e]))
    PROVE  Shape(e)
<1> DEFINE h == Head(cmds[e])
<1>1. wire[e] \in Seq(MuxMsg) /\ h \in MuxMsg
  BY LoopTypes, OneLess DEF Handling
<1>2. UNCHANGED <<run, chan, sem_closed>> /\ Dequeue(e)
  BY DEF CmdSend
<1> HIDE DEF h
<1>3. CASE chan[e].open
  <2>1. wire' = [wire EXCEPT ![e] = wire[e] \o <<h>>]
    BY <1>3 DEF CmdSend, Send, h
  <2>2. wire[e] \o <<h>> = Append(wire[e], h)
    BY <1>1, OneMore
  <2> QED  BY <1>2, <1>3, <2>1, <2>2, SameEntryShape DEF h
<1>4. CASE ~chan[e].open
  <2>1. wire' = [wire EXCEPT ![e] = wire[e] \o <<>>]
    BY <1>4 DEF CmdSend, Send
  <2>2. Grown(wire[e], wire[e] \o <<>>)
    BY <1>1, GrownBy
  <2> QED  BY <1>2, <1>4, <2>1, <2>2, SameEntryShape
<1> QED  BY <1>3, <1>4

\* ... Eof ...
LEMMA CmdEofShape ==
    ASSUME LoopTyped, NEW e \in End, Handling(e), CmdEof(e, Head(cmds[e]))
    PROVE  Shape(e)
<1> DEFINE h == Head(cmds[e])
<1>1. wire[e] \in Seq(MuxMsg) /\ h \in MuxMsg /\ wire = [wire EXCEPT ![e] = wire[e]]
  BY LoopTypes, OneLess DEF Handling
<1>2. h.type = "eof" /\ UNCHANGED <<run, sem_closed>> /\ Dequeue(e)
  BY DEF CmdEof
<1>3. Idle(h) /\ h \in PlainMsg
  BY <1>1, <1>2 DEF Idle, Payload, PlainMsg
<1> HIDE DEF h
<1>4. CASE chan[e].open /\ ~chan[e].sent_eof
  <2> DEFINE c == [chan[e] EXCEPT !.sent_eof = TRUE]
  <2>1. chan' = [chan EXCEPT ![e].sent_eof = TRUE] /\ wire' = [wire EXCEPT ![e] = wire[e] \o <<h>>]
    BY <1>4 DEF CmdEof, Send, h
  <2>2. chan' = [chan EXCEPT ![e] = c]
    BY <2>1, LoopTypes
  <2>3. c \in Entry
    BY <1>4, Entries DEF Entry
  <2>4. Grown(wire[e], wire[e] \o <<h>>)
    BY <1>1, <1>3, GrownBy
  <2>5. sem_closed' \in [End -> BOOLEAN] /\ cmds' = [cmds EXCEPT ![e] = Tail(cmds[e])]
    BY <1>2, LoopTypes DEF Dequeue, Rest
  <2> HIDE DEF c
  <2> QED  BY <1>2, <1>3, <1>4, <2>1, <2>2, <2>3, <2>4, <2>5, CmdShape DEF Handling, h
<1>5. CASE ~(chan[e].open /\ ~chan[e].sent_eof)
  <2>1. UNCHANGED <<chan, wire>>
    BY <1>5 DEF CmdEof
  <2>2. Grown(wire[e], wire[e]) /\ wire' = [wire EXCEPT ![e] = wire[e]]
    BY <1>1, <2>1, GrownBy
  <2> QED  BY <1>2, <1>3, <2>1, <2>2, SameEntryShape DEF h
<1> QED  BY <1>4, <1>5

\* ... Close ...
LEMMA CmdCloseShape ==
    ASSUME LoopTyped, NEW e \in End, Handling(e), CmdClose(e, Head(cmds[e]))
    PROVE  Shape(e)
<1> DEFINE h == Head(cmds[e])
<1>1. /\ wire[e] \in Seq(MuxMsg) /\ h \in MuxMsg /\ wire = [wire EXCEPT ![e] = wire[e]]
      /\ Tail(cmds[e]) \in Seq(MuxMsg)
  BY LoopTypes, OneLess DEF Handling
<1>2. h.type = "close"
  BY DEF CmdClose
<1>3. Idle(h) /\ h \in PlainMsg /\ h = Plain("close")
  BY <1>1, <1>2, MessageFacts DEF Idle, Payload, PlainMsg
<1>4. CASE ~chan[e].open
  <2>1. UNCHANGED <<run, chan, wire, sem_closed>> /\ Dequeue(e)
    BY <1>4 DEF CmdClose
  <2>2. Grown(wire[e], wire[e]) /\ wire' = [wire EXCEPT ![e] = wire[e]]
    BY <1>1, <2>1, GrownBy
  <2> QED  BY <1>3, <2>1, <2>2, SameEntryShape
<1>5. CASE chan[e].open
  <2> DEFINE n == [chan[e] EXCEPT !.sent_close = TRUE]
             x == CloseAnswer(e, h) \o Goodbye(e, n)
  <2>1. wire' = [wire EXCEPT ![e] = wire[e] \o x] /\ CloseIfDone(e, n, Tail(cmds[e]))
    BY <1>5 DEF CmdClose, Send, Rest
  <2>2. Grown(wire[e], wire[e] \o x)
    BY <1>3, ClosingSends
  <2>3. \/ Dropped(e, "done")
        \/ \E d \in Entry \cup {NoChan} :
              /\ chan' = [chan EXCEPT ![e] = d] /\ run' = run
              /\ sem_closed' \in [End -> BOOLEAN]
              /\ cmds' = [cmds EXCEPT ![e] = Tail(cmds[e])]
    <3>1. n = [chan[e] EXCEPT !.sent_close = TRUE] /\ CloseIfDone(e, n, Tail(cmds[e]))
      BY <2>1
    <3>2. Tail(cmds[e]) \in Seq(MuxMsg)
      BY <1>1
    <3> HIDE DEF n, h, x
    <3> QED  BY <1>5, <3>1, <3>2, ClosedEntry
  <2> HIDE DEF h, n, x
  <2>4. CASE Dropped(e, "done")
    <3>1. wire[e] \o x \in Seq(MuxMsg)
      BY <1>1, <2>2, GrownTyped
    <3>2. wire' \in [End -> Seq(MuxMsg)] /\ wire'[e] = wire[e] \o x /\ wire'[Peer(e)] = wire[Peer(e)]
      BY <2>1, <3>1, LoopTypes
    <3>3. credit' = credit /\ to_task' = to_task /\ to_task \in [End -> Seq(MuxMsg)]
      BY LoopTypes DEF Handling
    <3>4. /\ LoopTyped' /\ ~chan'[e].open /\ chan'[Peer(e)] = chan[Peer(e)]
          /\ cmds'[e] = <<>> /\ cmds'[Peer(e)] = cmds[Peer(e)]
      BY <2>4, <3>2, <3>3, DroppedShape
    <3>5. Frame(e)
      BY <3>3, <3>4 DEF Frame
    <3>6. CmdStep(e)
      BY <1>3, <2>2, <3>2, <3>3, <3>4 DEF CmdStep, Handling, h
    <3> QED  BY <3>4, <3>5, <3>6 DEF Shape
  <2>5. ASSUME NEW d \in Entry \cup {NoChan},
               chan' = [chan EXCEPT ![e] = d], run' = run,
               sem_closed' \in [End -> BOOLEAN], cmds' = [cmds EXCEPT ![e] = Tail(cmds[e])]
        PROVE  Shape(e)
    <3>1. d = NoChan \/ d \in Entry
      BY <2>5
    <3> QED  BY <1>3, <1>5, <2>1, <2>2, <2>5, <3>1, CmdShape DEF Handling, h
  <2> QED  BY <2>3, <2>4, <2>5
<1> QED  BY <1>4, <1>5

\* ... and Consumed.
LEMMA CmdConsumedShape ==
    ASSUME LoopTyped, NEW e \in End, Handling(e), CmdConsumed(e, Head(cmds[e]))
    PROVE  Shape(e)
<1> DEFINE h == Head(cmds[e])
<1>1. wire[e] \in Seq(MuxMsg) /\ h \in MuxMsg /\ wire = [wire EXCEPT ![e] = wire[e]]
  BY LoopTypes, OneLess DEF Handling
<1>2. h.type = "consumed" /\ UNCHANGED <<run, sem_closed>> /\ Dequeue(e)
  BY DEF CmdConsumed
<1>3. Idle(h) /\ h.n \in Nat
  BY <1>1, <1>2, MessageFacts DEF Idle, Payload
<1>4. sem_closed' \in [End -> BOOLEAN] /\ cmds' = [cmds EXCEPT ![e] = Tail(cmds[e])]
  BY <1>2, LoopTypes DEF Dequeue, Rest
<1> HIDE DEF h
<1>5. CASE ~chan[e].open
  <2>1. UNCHANGED <<chan, wire>>
    BY <1>5 DEF CmdConsumed
  <2>2. Grown(wire[e], wire[e]) /\ wire' = [wire EXCEPT ![e] = wire[e]]
    BY <1>1, <2>1, GrownBy
  <2> QED  BY <1>2, <1>3, <2>1, <2>2, SameEntryShape DEF h
<1>6. CASE chan[e].open
  <2> DEFINE b == chan[e].pending_consumed + h.n
             w == chan[e].local_window + b
  <2>1. chan[e] \in Entry /\ b \in Nat /\ w \in Nat
    <3>1. chan[e] \in Entry
      BY <1>6, Entries
    <3>2. chan[e].pending_consumed \in Nat /\ chan[e].local_window \in Nat
      BY <3>1 DEF Entry
    <3> QED  BY <1>3, <3>1, <3>2
  <2>2. CASE RefillDue(e, h.n)
    <3> DEFINE c == [chan[e] EXCEPT !.pending_consumed = 0, !.local_window = w]
               a == Amount("adjust", b)
    <3>1. chan' = [chan EXCEPT ![e].pending_consumed = 0, ![e].local_window = w]
      BY <1>6, <2>2, LoopTypes DEF CmdConsumed, Batch, h
    <3>2. wire' = [wire EXCEPT ![e] = wire[e] \o <<a>>]
      BY <1>6, <2>2 DEF CmdConsumed, Batch, Send, h
    <3>3. chan' = [chan EXCEPT ![e] = c]
      BY <3>1, LoopTypes
    <3>4. c \in Entry
      BY <2>1 DEF Entry
    <3>5. Grown(wire[e], wire[e] \o <<a>>)
      BY <1>1, <2>1, GrownBy, PlainKinds
    <3> HIDE DEF c, a
    <3> QED  BY <1>2, <1>3, <1>4, <1>6, <3>2, <3>3, <3>4, <3>5, CmdShape DEF Handling, h
  <2>3. CASE ~RefillDue(e, h.n)
    <3> DEFINE c == [chan[e] EXCEPT !.pending_consumed = b]
    <3>1. chan' = [chan EXCEPT ![e].pending_consumed = b, ![e].local_window = chan[e].local_window]
      BY <1>6, <2>3, LoopTypes DEF CmdConsumed, Batch, h
    <3>2. wire' = [wire EXCEPT ![e] = wire[e] \o <<>>]
      BY <1>6, <2>3 DEF CmdConsumed, Batch, Send, h
    <3>3. chan' = [chan EXCEPT ![e] = c]
      BY <2>1, <3>1, LoopTypes DEF Entry
    <3>4. c \in Entry
      BY <2>1 DEF Entry
    <3>5. Grown(wire[e], wire[e] \o <<>>)
      BY <1>1, GrownBy
    <3> HIDE DEF c
    <3> QED  BY <1>2, <1>3, <1>4, <1>6, <3>2, <3>3, <3>4, <3>5, CmdShape DEF Handling, h
  <2> QED  BY <2>2, <2>3
<1> QED  BY <1>5, <1>6

\* Every step of a loop.
LEMMA LoopShape ==
    ASSUME LoopTyped, NEW e \in End, Loop(e) \/ ConnectionFails(e)
    PROVE  Shape(e)
<1>1. CASE OnPacket(e)
  BY <1>1, PacketShape
<1>2. CASE OnCmd(e)
  <2>1. Handling(e)
    BY <1>2 DEF OnCmd, Handling
  <2> QED
    BY <1>2, <2>1, CmdSendShape, CmdEofShape, CmdCloseShape, CmdConsumedShape DEF OnCmd
<1>3. CASE PeerGone(e) \/ ConnectionFails(e)
  BY <1>3, DropShape DEF PeerGone, ConnectionFails
<1> QED  BY <1>1, <1>2, <1>3 DEF Loop


-----------------------------------------------------------------------------
(* What the queues carry.                                                  *)

\* A message that is neither output of this kind nor a status.
Silent(m, kind) == m.type # kind /\ m.type # "request"

\* An empty queue carries nothing.
LEMMA CarriesNone ==
    ASSUME NEW kind, NEW s \in Seq(Nat), NEW a \in 0..Len(s)
    PROVE  Carries(<<>>, kind, s, a, a)
<1> DEFINE at == [i \in 0..0 |-> a]
<1>1. Len(<<>>) = 0 /\ at \in [0..0 -> 0..Len(s)] /\ at[0] = a
  OBVIOUS
<1>2. \A i \in 1..Len(<<>>) : Fits(<<>>[i], kind, s, at[i - 1], at[i])
  BY <1>1
<1> HIDE DEF at
<1> QED  BY <1>1, <1>2 DEF Carries

\* One message more, where the queue ends.
LEMMA CarriesMore ==
    ASSUME NEW S, NEW q \in Seq(S), NEW m \in S, NEW kind, NEW s \in Seq(Nat),
           NEW a, NEW b, NEW c \in 0..Len(s), Carries(q, kind, s, a, b), Fits(m, kind, s, b, c)
    PROVE  Carries(Append(q, m), kind, s, a, c)
<1>1. PICK at \in [0..Len(q) -> 0..Len(s)] :
          /\ at[0] = a /\ at[Len(q)] = b
          /\ \A i \in 1..Len(q) : Fits(q[i], kind, s, at[i - 1], at[i])
  BY DEF Carries
<1> DEFINE n == Len(q)  new == [i \in 0..(n + 1) |-> IF i <= n THEN at[i] ELSE c]
<1>2. /\ n \in Nat /\ Len(Append(q, m)) = n + 1
      /\ \A i \in 1..n : Append(q, m)[i] = q[i]
      /\ Append(q, m)[n + 1] = m
  BY OneMore
<1>3. new \in [0..(n + 1) -> 0..Len(s)] /\ new[0] = a /\ new[n + 1] = c /\ new[n] = b
  BY <1>1, <1>2
<1>4. ASSUME NEW i \in 1..(n + 1)
      PROVE  Fits(Append(q, m)[i], kind, s, new[i - 1], new[i])
  <2>1. CASE i = n + 1
    <3>1. new[i - 1] = b /\ new[i] = c /\ Append(q, m)[i] = m
      BY <1>2, <1>3, <2>1
    <3> QED  BY <3>1
  <2>2. CASE i \in 1..n
    <3>1. new[i - 1] = at[i - 1] /\ new[i] = at[i] /\ Append(q, m)[i] = q[i]
      BY <1>2, <2>2
    <3> QED  BY <1>1, <2>2, <3>1
  <2> QED  BY <1>2, <2>1, <2>2
<1> HIDE DEF new, n
<1> QED  BY <1>2, <1>3, <1>4 DEF Carries

\* A message that says nothing of the stream.
LEMMA SilentFits ==
    ASSUME NEW m, NEW kind, NEW s \in Seq(Nat), NEW a, Silent(m, kind)
    PROVE  Fits(m, kind, s, a, a) /\ \A b : Fits(m, kind, s, a, b) => b = a
BY DEF Fits, Silent

\* Plain messages more.
LEMMA CarriesGrown ==
    ASSUME NEW q \in Seq(MuxMsg), NEW r, NEW kind \in {"data", "ext"}, NEW s \in Seq(Nat),
           NEW a, NEW b, Carries(q, kind, s, a, b), Grown(q, r)
    PROVE  Carries(r, kind, s, a, b)
<1>1. PICK at \in [0..Len(q) -> 0..Len(s)] :
          /\ at[0] = a /\ at[Len(q)] = b
          /\ \A i \in 1..Len(q) : Fits(q[i], kind, s, at[i - 1], at[i])
  BY DEF Carries
<1>2. PICK x \in Seq(PlainMsg) : r = q \o x
  BY DEF Grown
<1> DEFINE n == Len(q)  l == Len(x)  new == [i \in 0..(n + l) |-> IF i <= n THEN at[i] ELSE b]
<1>3. /\ n \in Nat /\ l \in Nat /\ Len(r) = n + l
      /\ \A i \in 1..n : r[i] = q[i]
      /\ \A i \in 1..(n + l) : i > n => r[i] = x[i - n] /\ i - n \in 1..l
  <2>1. x \in Seq(MuxMsg)
    BY DEF PlainMsg
  <2> QED  BY <1>2, <2>1
<1>4. new \in [0..(n + l) -> 0..Len(s)] /\ new[0] = a /\ new[n + l] = b
  <2>1. b \in 0..Len(s) /\ \A i \in 0..n : at[i] \in 0..Len(s)
    <3>1. Len(q) \in 0..Len(q)
      BY <1>3
    <3>2. \A i \in 0..Len(q) : at[i] \in 0..Len(s)
      OBVIOUS
    <3> QED  BY <1>1, <3>1, <3>2
  <2>2. 0 \in 0..n /\ n \in 0..(n + l) /\ n + l \in 0..(n + l) /\ 0 \in 0..(n + l)
    BY <1>3
  <2>3. new[n + l] = b
    BY <1>1, <1>3, <2>2
  <2> QED  BY <1>1, <1>3, <2>1, <2>2, <2>3
<1>5. ASSUME NEW i \in 1..(n + l)
      PROVE  Fits(r[i], kind, s, new[i - 1], new[i])
  <2>1. CASE i > n
    <3>1. new[i - 1] = b /\ new[i] = b /\ r[i] \in PlainMsg
      <4>1. i \in 0..(n + l) /\ i - 1 \in 0..(n + l) /\ ~(i <= n) /\ (i - 1 <= n => i - 1 = n)
        BY <1>3, <2>1
      <4>2. new[i] = b
        BY <4>1
      <4>3. new[i - 1] = b
        BY <1>1, <4>1
      <4>4. r[i] = x[i - n] /\ i - n \in 1..l
        BY <1>3, <2>1
      <4> QED  BY <4>2, <4>3, <4>4
    <3>2. Silent(r[i], kind)
      BY <3>1 DEF PlainMsg, Payload, Silent
    <3> QED  BY <3>1, <3>2, SilentFits
  <2>2. CASE i \in 1..n
    <3>1. new[i - 1] = at[i - 1] /\ new[i] = at[i] /\ r[i] = q[i]
      BY <1>3, <2>2
    <3> QED  BY <1>1, <2>2, <3>1
  <2> QED  BY <1>3, <2>1, <2>2
<1> HIDE DEF new, n, l
<1> QED  BY <1>3, <1>4, <1>5 DEF Carries

\* The head stands where the queue starts.
LEMMA CarriesLess ==
    ASSUME NEW S, NEW q \in Seq(S), q # <<>>, NEW kind, NEW s \in Seq(Nat),
           NEW a, NEW b, Carries(q, kind, s, a, b)
    PROVE  \E c \in 0..Len(s) : Fits(Head(q), kind, s, a, c) /\ Carries(Tail(q), kind, s, c, b)
<1>1. PICK at \in [0..Len(q) -> 0..Len(s)] :
          /\ at[0] = a /\ at[Len(q)] = b
          /\ \A i \in 1..Len(q) : Fits(q[i], kind, s, at[i - 1], at[i])
  BY DEF Carries
<1> DEFINE n == Len(q)  new == [i \in 0..(n - 1) |-> at[i + 1]]
<1>2. /\ Head(q) = q[1] /\ n \in Nat \ {0} /\ Len(Tail(q)) = n - 1
      /\ \A i \in 1..(n - 1) : Tail(q)[i] = q[i + 1]
  BY OneLess
<1>3. new \in [0..(n - 1) -> 0..Len(s)] /\ new[0] = at[1] /\ new[n - 1] = b /\ at[1] \in 0..Len(s)
  BY <1>1, <1>2
<1>4. ASSUME NEW i \in 1..(n - 1)
      PROVE  Fits(Tail(q)[i], kind, s, new[i - 1], new[i])
  <2>1. new[i - 1] = at[i] /\ new[i] = at[i + 1] /\ Tail(q)[i] = q[i + 1]
    BY <1>2
  <2>2. i + 1 \in 1..n /\ (i + 1) - 1 = i
    BY <1>2
  <2>3. Fits(q[i + 1], kind, s, at[(i + 1) - 1], at[i + 1])
    BY <1>1, <2>2
  <2> QED  BY <2>1, <2>2, <2>3
<1>5. Fits(Head(q), kind, s, a, at[1])
  <2>1. 1 \in 1..n /\ 1 - 1 = 0
    BY <1>2
  <2>2. Fits(q[1], kind, s, at[1 - 1], at[1])
    BY <1>1, <2>1
  <2> QED  BY <1>1, <1>2, <2>1, <2>2
<1> HIDE DEF new
<1>6. Carries(Tail(q), kind, s, at[1], b)
  BY <1>2, <1>3, <1>4 DEF Carries
<1> QED  BY <1>3, <1>5, <1>6

\* The first stretch of a longer stream.
LEMMA PieceLonger ==
    ASSUME NEW y, NEW s \in Seq(Nat), NEW x \in Seq(Nat), NEW a \in Nat,
           Piece(y, s, a), a + Len(y) \in Nat
    PROVE  Piece(y, s \o x, a)
<1>1. Len(s \o x) = Len(s) + Len(x) /\ Len(s) \in Nat /\ Len(x) \in Nat
      /\ \A k \in 1..Len(s) : (s \o x)[k] = s[k]
  OBVIOUS
<1> QED  BY <1>1 DEF Piece

\* The stream grows behind a queue with no status in it.
LEMMA CarriesLonger ==
    ASSUME NEW q, NEW kind, NEW s \in Seq(Nat), NEW x \in Seq(Nat), NEW a, NEW b,
           Carries(q, kind, s, a, b), Len(q) \in Nat,
           \A i \in 1..Len(q) : q[i].type # "request"
    PROVE  Carries(q, kind, s \o x, a, b)
<1>1. PICK at \in [0..Len(q) -> 0..Len(s)] :
          /\ at[0] = a /\ at[Len(q)] = b
          /\ \A i \in 1..Len(q) : Fits(q[i], kind, s, at[i - 1], at[i])
  BY DEF Carries
<1>2. Len(s \o x) = Len(s) + Len(x) /\ Len(s) \in Nat /\ Len(x) \in Nat
      /\ \A k \in 1..Len(s) : (s \o x)[k] = s[k]
  OBVIOUS
<1>3. at \in [0..Len(q) -> 0..Len(s \o x)]
  BY <1>2
<1>4. ASSUME NEW i \in 1..Len(q)
      PROVE  Fits(q[i], kind, s \o x, at[i - 1], at[i])
  <2>1. Fits(q[i], kind, s, at[i - 1], at[i]) /\ q[i].type # "request" /\ at[i - 1] \in 0..Len(s)
    <3>1. i - 1 \in 0..Len(q)
      OBVIOUS
    <3>2. at[i - 1] \in 0..Len(s)
      BY <3>1
    <3> QED  BY <1>1, <3>2
  <2>2. CASE q[i].type # kind
    BY <2>1, <2>2 DEF Fits
  <2>3. CASE q[i].type = kind
    <3>1. Piece(q[i].bytes, s, at[i - 1]) /\ at[i] = at[i - 1] + Len(q[i].bytes) /\ at[i] \in 0..Len(s)
      BY <1>1, <2>1, <2>3 DEF Fits
    <3>2. Piece(q[i].bytes, s \o x, at[i - 1])
      BY <1>2, <2>1, <3>1, PieceLonger
    <3> QED  BY <2>1, <2>3, <3>1, <3>2 DEF Fits
  <2> QED  BY <2>2, <2>3
<1> QED  BY <1>1, <1>3, <1>4 DEF Carries

\* The elements of a queue that plain messages were put in.
LEMMA ElemsGrown ==
    ASSUME NEW q \in Seq(MuxMsg), NEW r, Grown(q, r)
    PROVE  Elems(r) \subseteq Elems(q) \cup PlainMsg
<1>1. PICK x \in Seq(PlainMsg) : r = q \o x
  BY DEF Grown
<1>2. x \in Seq(MuxMsg)
  BY DEF PlainMsg
<1>3. /\ Len(q) \in Nat /\ Len(x) \in Nat /\ Len(r) = Len(q) + Len(x)
      /\ \A i \in 1..Len(q) : r[i] = q[i]
      /\ \A i \in 1..Len(r) : i > Len(q) => r[i] = x[i - Len(q)] /\ i - Len(q) \in 1..Len(x)
  BY <1>1, <1>2
<1>4. ASSUME NEW i \in 1..Len(r) PROVE r[i] \in Elems(q) \cup PlainMsg
  <2>1. CASE i > Len(q)
    BY <1>3, <2>1
  <2>2. CASE i \in 1..Len(q)
    BY <1>3, <2>2 DEF Elems
  <2> QED  BY <1>3, <2>1, <2>2
<1> QED  BY <1>4 DEF Elems

\* A message more, behind a reply if it is output or a status.
LEMMA GuardedMore ==
    ASSUME NEW S, NEW q \in Seq(S), NEW m \in S, NEW g \in BOOLEAN
    PROVE  /\ Guarded(q, g) /\ (Payload(m) => g \/ HasReply(q)) => Guarded(Append(q, m), g)
           /\ HasReply(Append(q, m)) <=> HasReply(q) \/ m.type = "reply"
<1> DEFINE n == Len(q)  r == Append(q, m)
<1>1. n \in Nat /\ Len(r) = n + 1 /\ r[n + 1] = m /\ \A i \in 1..n : r[i] = q[i]
  BY OneMore
<1> HIDE DEF r
<1>2. ASSUME Guarded(q, g), Payload(m) => g \/ HasReply(q)
      PROVE  Guarded(r, g)
  <2>1. SUFFICES ASSUME NEW i \in 1..(n + 1), Payload(r[i]), ~g
                 PROVE  \E j \in 1..(i - 1) : r[j].type = "reply"
    BY <1>1 DEF Guarded
  <2>2. CASE i = n + 1
    <3>1. PICK j \in 1..n : q[j].type = "reply"
      BY <1>1, <1>2, <2>1, <2>2 DEF HasReply
    <3>2. j \in 1..(i - 1)
      BY <1>1, <2>2
    <3> QED  BY <1>1, <3>1, <3>2
  <2>3. CASE i \in 1..n
    <3>1. PICK j \in 1..(i - 1) : q[j].type = "reply"
      BY <1>1, <1>2, <2>1, <2>3 DEF Guarded
    <3>2. j \in 1..n
      BY <1>1, <2>3
    <3> QED  BY <1>1, <3>1, <3>2
  <2> QED  BY <1>1, <2>2, <2>3
<1>3. ASSUME HasReply(r) PROVE HasReply(q) \/ m.type = "reply"
  <2>1. PICK i \in 1..(n + 1) : r[i].type = "reply"
    BY <1>1, <1>3 DEF HasReply
  <2>2. i = n + 1 \/ i \in 1..n
    BY <1>1
  <2> QED  BY <1>1, <2>1, <2>2 DEF HasReply
<1>4. ASSUME HasReply(q) \/ m.type = "reply" PROVE HasReply(r)
  <2>1. \A i \in 1..n : i \in 1..(n + 1)
    BY <1>1
  <2>2. n + 1 \in 1..(n + 1)
    BY <1>1
  <2> QED  BY <1>1, <1>4, <2>1, <2>2 DEF HasReply
<1> QED  BY <1>2, <1>3, <1>4 DEF r

\* The head taken.
LEMMA GuardedLess ==
    ASSUME NEW S, NEW q \in Seq(S), q # <<>>, NEW g \in BOOLEAN
    PROVE  /\ HasReply(q) <=> Head(q).type = "reply" \/ HasReply(Tail(q))
           /\ Guarded(q, g) => Guarded(Tail(q), g \/ Head(q).type = "reply")
           /\ Guarded(q, g) /\ Payload(Head(q)) => g
<1> DEFINE n == Len(q)  r == Tail(q)  h == Head(q)
<1>1. n \in Nat \ {0} /\ Len(r) = n - 1 /\ h = q[1] /\ \A i \in 1..(n - 1) : r[i] = q[i + 1]
  BY OneLess
<1> HIDE DEF r, h
<1>2. ASSUME HasReply(q) PROVE h.type = "reply" \/ HasReply(r)
  <2>1. PICK i \in 1..n : q[i].type = "reply"
    BY <1>2 DEF HasReply
  <2>2. CASE i = 1
    BY <1>1, <2>1, <2>2
  <2>3. CASE i # 1
    <3>1. i - 1 \in 1..(n - 1) /\ (i - 1) + 1 = i
      BY <1>1, <2>3
    <3>2. r[i - 1] = q[i]
      BY <1>1, <3>1
    <3> QED  BY <1>1, <2>1, <3>1, <3>2 DEF HasReply
  <2> QED  BY <2>2, <2>3
<1>3. ASSUME h.type = "reply" \/ HasReply(r) PROVE HasReply(q)
  <2>1. 1 \in 1..n /\ \A i \in 1..(n - 1) : i + 1 \in 1..n
    BY <1>1
  <2> QED  BY <1>1, <1>3, <2>1 DEF HasReply
<1>4. ASSUME Guarded(q, g) PROVE Guarded(r, g \/ h.type = "reply")
  <2>1. SUFFICES ASSUME NEW i \in 1..(n - 1), Payload(r[i]), ~g, h.type # "reply"
                 PROVE  \E j \in 1..(i - 1) : r[j].type = "reply"
    BY <1>1 DEF Guarded
  <2>2. i + 1 \in 1..n /\ r[i] = q[i + 1] /\ (i + 1) - 1 = i
    BY <1>1
  <2>3. PICK j \in 1..i : q[j].type = "reply"
    BY <1>4, <2>1, <2>2 DEF Guarded
  <2>4. j # 1
    BY <1>1, <2>1, <2>3
  <2>5. j - 1 \in 1..(i - 1) /\ j - 1 \in 1..(n - 1) /\ (j - 1) + 1 = j
    BY <1>1, <2>4
  <2>6. r[j - 1] = q[j]
    BY <1>1, <2>5
  <2> QED  BY <2>3, <2>5, <2>6
<1>5. ASSUME Guarded(q, g), Payload(h) PROVE g
  <2>1. 1 \in 1..n /\ 1..(1 - 1) = {}
    BY <1>1
  <2> QED  BY <1>1, <1>5, <2>1 DEF Guarded
<1> QED  BY <1>2, <1>3, <1>4, <1>5 DEF r, h

\* Plain messages more.
LEMMA GuardedGrown ==
    ASSUME NEW q \in Seq(MuxMsg), NEW r, Grown(q, r), NEW g \in BOOLEAN
    PROVE  (Guarded(q, g) => Guarded(r, g)) /\ (HasReply(q) => HasReply(r))
<1>1. PICK x \in Seq(PlainMsg) : r = q \o x
  BY DEF Grown
<1>2. x \in Seq(MuxMsg)
  BY DEF PlainMsg
<1>3. /\ Len(q) \in Nat /\ Len(x) \in Nat /\ Len(r) = Len(q) + Len(x)
      /\ \A i \in 1..Len(q) : r[i] = q[i]
      /\ \A i \in 1..Len(r) : i > Len(q) => r[i] = x[i - Len(q)] /\ i - Len(q) \in 1..Len(x)
  BY <1>1, <1>2
<1>4. ASSUME Guarded(q, g) PROVE Guarded(r, g)
  <2>1. SUFFICES ASSUME NEW i \in 1..Len(r), Payload(r[i]), ~g
                 PROVE  \E j \in 1..(i - 1) : r[j].type = "reply"
    BY DEF Guarded
  <2>2. CASE i > Len(q)
    <3>1. r[i] \in PlainMsg
      BY <1>3, <2>2
    <3> QED  BY <2>1, <3>1 DEF PlainMsg
  <2>3. CASE i \in 1..Len(q)
    <3>1. PICK j \in 1..(i - 1) : q[j].type = "reply"
      BY <1>3, <1>4, <2>1, <2>3 DEF Guarded
    <3>2. j \in 1..Len(q)
      BY <1>3, <2>3
    <3> QED  BY <1>3, <3>1, <3>2
  <2> QED  BY <1>3, <2>2, <2>3
<1>5. ASSUME HasReply(q) PROVE HasReply(r)
  <2>1. PICK j \in 1..Len(q) : q[j].type = "reply"
    BY <1>5 DEF HasReply
  <2>2. j \in 1..Len(r) /\ r[j] = q[j]
    BY <1>3
  <2> QED  BY <2>1, <2>2 DEF HasReply
<1> QED  BY <1>4, <1>5

\* A reply that came earlier guards as well.
LEMMA GuardedStill ==
    ASSUME NEW q, NEW g \in BOOLEAN, NEW h \in BOOLEAN, Guarded(q, g), g => h
    PROVE  Guarded(q, h)
BY DEF Guarded

\* A queue without output is guarded.
LEMMA GuardedFree ==
    ASSUME NEW q, NEW g, \A m \in Elems(q) : ~Payload(m)
    PROVE  Guarded(q, g)
BY DEF Guarded, Elems

-----------------------------------------------------------------------------
(* The three queues together, as the two loops move messages along.        *)

Queue == Seq(MuxMsg)
Kinds == {"data", "ext"}

\* The client's loop hands the head of the wire to its task ...
LEMMA AlongDelivered ==
    ASSUME NEW kind \in Kinds, NEW s \in Seq(Nat), NEW a, NEW d,
           NEW tq \in Queue, NEW wq \in Queue, NEW cq, NEW o1,
           NEW o2, Sends(o2) => Sends(o1), Reaches(o1), wq # <<>>,
           NEW tq2, NEW wq2, tq2 = Append(tq, Head(wq)), wq2 = Tail(wq),
           Along(kind, s, a, d, tq, wq, cq, o1)
    PROVE  Along(kind, s, a, d, tq2, wq2, cq, o2)
<1>1. PICK b, c \in 0..Len(s) :
          /\ Carries(tq, kind, s, a, b) /\ Carries(wq, kind, s, b, c)
          /\ Sends(o1) => Carries(cq, kind, s, c, d)
  BY DEF Along
<1>2. PICK b2 \in 0..Len(s) :
          Fits(Head(wq), kind, s, b, b2) /\ Carries(Tail(wq), kind, s, b2, c)
  BY <1>1, CarriesLess DEF Queue
<1>3. Head(wq) \in MuxMsg
  BY OneLess DEF Queue
<1>4. Carries(Append(tq, Head(wq)), kind, s, a, b2)
  BY <1>1, <1>2, <1>3, CarriesMore DEF Queue
<1> QED  BY <1>1, <1>2, <1>4 DEF Along

\* ... or drops it.
LEMMA AlongSkipped ==
    ASSUME NEW kind \in Kinds, NEW s \in Seq(Nat), NEW a, NEW d,
           NEW tq \in Queue, NEW wq \in Queue, NEW cq, NEW o1,
           NEW o2, Sends(o2) => Sends(o1) /\ Reaches(o2), Reaches(o2) => Reaches(o1), wq # <<>>, NEW wq2, wq2 = Tail(wq),
           Silent(Head(wq), kind) \/ ~Reaches(o2),
           Along(kind, s, a, d, tq, wq, cq, o1)
    PROVE  Along(kind, s, a, d, tq, wq2, cq, o2)
<1>1. PICK b, c \in 0..Len(s) :
          /\ Carries(tq, kind, s, a, b) /\ (Reaches(o1) => Carries(wq, kind, s, b, c))
          /\ Sends(o1) => Carries(cq, kind, s, c, d)
  BY DEF Along
<1>2. CASE ~Reaches(o2)
  BY <1>1, <1>2 DEF Along
<1>3. CASE Reaches(o2)
  <2>1. PICK b2 \in 0..Len(s) :
            Fits(Head(wq), kind, s, b, b2) /\ Carries(Tail(wq), kind, s, b2, c)
    BY <1>1, <1>3, CarriesLess DEF Queue
  <2>2. b2 = b
    BY <1>3, <2>1, SilentFits
  <2> QED  BY <1>1, <2>1, <2>2 DEF Along
<1> QED  BY <1>2, <1>3

\* The server's loop puts messages of its own on the wire, or loses its entry.
LEMMA AlongGrown ==
    ASSUME NEW kind \in Kinds, NEW s \in Seq(Nat), NEW a, NEW d,
           NEW tq \in Queue, NEW wq \in Queue, NEW cq, NEW o1,
           NEW o2, Reaches(o2) => Reaches(o1),
           NEW wq2, Grown(wq, wq2), NEW cq2, Sends(o2) => Sends(o1) /\ cq2 = cq,
           Along(kind, s, a, d, tq, wq, cq, o1)
    PROVE  Along(kind, s, a, d, tq, wq2, cq2, o2)
<1>1. PICK b, c \in 0..Len(s) :
          /\ Carries(tq, kind, s, a, b) /\ (Reaches(o1) => Carries(wq, kind, s, b, c))
          /\ Sends(o1) => Carries(cq, kind, s, c, d)
  BY DEF Along
<1>2. Reaches(o2) => Carries(wq2, kind, s, b, c)
  BY <1>1, CarriesGrown DEF Queue, Kinds
<1>3. Sends(o2) => Carries(cq2, kind, s, c, d)
  BY <1>1
<1> QED  BY <1>1, <1>2, <1>3 DEF Along

\* The server's loop puts the head of its commands on the wire ...
LEMMA AlongSent ==
    ASSUME NEW kind \in Kinds, NEW s \in Seq(Nat), NEW a, NEW d,
           NEW tq \in Queue, NEW wq \in Queue, NEW cq \in Queue,
           NEW o1,
           NEW o2, Reaches(o2) => Reaches(o1), Reaches(o1) => Sends(o1), Sends(o2) => Reaches(o2), cq # <<>>,
           NEW wq2, wq2 = Append(wq, Head(cq)), NEW cq2, Sends(o2) => cq2 = Tail(cq),
           Along(kind, s, a, d, tq, wq, cq, o1)
    PROVE  Along(kind, s, a, d, tq, wq2, cq2, o2)
<1>1. PICK b, c \in 0..Len(s) :
          /\ Carries(tq, kind, s, a, b) /\ (Reaches(o1) => Carries(wq, kind, s, b, c))
          /\ Sends(o1) => Carries(cq, kind, s, c, d)
  BY DEF Along
<1>2. CASE ~Reaches(o2)
  BY <1>1, <1>2 DEF Along
<1>3. CASE Reaches(o2)
  <2>1. PICK c2 \in 0..Len(s) :
            Fits(Head(cq), kind, s, c, c2) /\ Carries(Tail(cq), kind, s, c2, d)
    BY <1>1, <1>3, CarriesLess DEF Queue
  <2>2. Head(cq) \in MuxMsg
    BY OneLess DEF Queue
  <2>3. Carries(Append(wq, Head(cq)), kind, s, b, c2)
    BY <1>1, <1>3, <2>1, <2>2, CarriesMore DEF Queue
  <2>4. Sends(o2) => Carries(cq2, kind, s, c2, d)
    BY <2>1
  <2> QED  BY <1>1, <2>3, <2>4 DEF Along
<1> QED  BY <1>2, <1>3

\* ... or handles it alone.
LEMMA AlongUnsent ==
    ASSUME NEW kind \in Kinds, NEW s \in Seq(Nat), NEW a, NEW d,
           NEW tq \in Queue, NEW wq \in Queue, NEW cq \in Queue,
           NEW o1,
           NEW o2, Reaches(o2) => Reaches(o1), Sends(o2) => Sends(o1), cq # <<>>,
           NEW wq2, Grown(wq, wq2), Silent(Head(cq), kind) \/ ~Sends(o2),
           NEW cq2, Sends(o2) => cq2 = Tail(cq),
           Along(kind, s, a, d, tq, wq, cq, o1)
    PROVE  Along(kind, s, a, d, tq, wq2, cq2, o2)
<1>1. PICK b, c \in 0..Len(s) :
          /\ Carries(tq, kind, s, a, b) /\ (Reaches(o1) => Carries(wq, kind, s, b, c))
          /\ Sends(o1) => Carries(cq, kind, s, c, d)
  BY DEF Along
<1>2. Reaches(o2) => Carries(wq2, kind, s, b, c)
  BY <1>1, CarriesGrown DEF Queue, Kinds
<1>3. ASSUME Sends(o2) PROVE Carries(cq2, kind, s, c, d)
  <2>1. PICK c2 \in 0..Len(s) :
            Fits(Head(cq), kind, s, c, c2) /\ Carries(Tail(cq), kind, s, c2, d)
    BY <1>1, <1>3, CarriesLess DEF Queue
  <2>2. c2 = c
    BY <1>3, <2>1, SilentFits
  <2> QED  BY <1>3, <2>1, <2>2
<1> QED  BY <1>1, <1>2, <1>3 DEF Along

\* The server task hands over one message ...
LEMMA AlongAsked ==
    ASSUME NEW kind \in Kinds, NEW s \in Seq(Nat), NEW a, NEW d, NEW e \in 0..Len(s),
           NEW tq, NEW wq, NEW cq \in Queue, NEW m \in MuxMsg, Fits(m, kind, s, d, e),
           NEW o1, NEW cq2, Sends(o1) => cq2 = Append(cq, m), d \in 0..Len(s),
           Along(kind, s, a, d, tq, wq, cq, o1)
    PROVE  Along(kind, s, a, e, tq, wq, cq2, o1)
<1>1. PICK b, c \in 0..Len(s) :
          /\ Carries(tq, kind, s, a, b) /\ (Reaches(o1) => Carries(wq, kind, s, b, c))
          /\ Sends(o1) => Carries(cq, kind, s, c, d)
  BY DEF Along
<1>2. Sends(o1) => Carries(cq2, kind, s, c, e)
  BY <1>1, CarriesMore DEF Queue
<1> QED  BY <1>1, <1>2 DEF Along

\* ... or plain ones.
LEMMA AlongAnswered ==
    ASSUME NEW kind \in Kinds, NEW s \in Seq(Nat), NEW a, NEW d,
           NEW tq, NEW wq, NEW cq \in Queue, NEW cq2, NEW o1,
           Sends(o1) => Grown(cq, cq2),
           Along(kind, s, a, d, tq, wq, cq, o1)
    PROVE  Along(kind, s, a, d, tq, wq, cq2, o1)
<1>1. PICK b, c \in 0..Len(s) :
          /\ Carries(tq, kind, s, a, b) /\ (Reaches(o1) => Carries(wq, kind, s, b, c))
          /\ Sends(o1) => Carries(cq, kind, s, c, d)
  BY DEF Along
<1>2. Sends(o1) => Carries(cq2, kind, s, c, d)
  BY <1>1, CarriesGrown DEF Queue, Kinds
<1> QED  BY <1>1, <1>2 DEF Along

\* The client task takes a message.
LEMMA AlongTaken ==
    ASSUME NEW kind \in Kinds, NEW s \in Seq(Nat), NEW a, NEW d,
           NEW tq \in Queue, tq # <<>>, NEW wq, NEW cq, NEW o1,
           Along(kind, s, a, d, tq, wq, cq, o1)
    PROVE  \E c \in 0..Len(s) : /\ Fits(Head(tq), kind, s, a, c)
                                /\ Along(kind, s, c, d, Tail(tq), wq, cq, o1)
<1>1. PICK b, c \in 0..Len(s) :
          /\ Carries(tq, kind, s, a, b) /\ (Reaches(o1) => Carries(wq, kind, s, b, c))
          /\ Sends(o1) => Carries(cq, kind, s, c, d)
  BY DEF Along
<1>2. PICK e \in 0..Len(s) : Fits(Head(tq), kind, s, a, e) /\ Carries(Tail(tq), kind, s, e, b)
  BY <1>1, CarriesLess DEF Queue
<1>3. Along(kind, s, e, d, Tail(tq), wq, cq, o1)
  BY <1>1, <1>2 DEF Along
<1> QED  BY <1>2, <1>3

\* The child writes, while no status is on its way.
LEMMA AlongLonger ==
    ASSUME NEW kind \in Kinds, NEW s \in Seq(Nat), NEW x \in Seq(Nat), NEW a, NEW d,
           NEW tq \in Queue, NEW wq \in Queue, NEW cq \in Queue,
           NEW o1,
           \A m \in Elems(tq) \cup Elems(wq) \cup Elems(cq) : m.type # "request",
           Along(kind, s, a, d, tq, wq, cq, o1)
    PROVE  Along(kind, s \o x, a, d, tq, wq, cq, o1)
<1>1. PICK b, c \in 0..Len(s) :
          /\ Carries(tq, kind, s, a, b) /\ (Reaches(o1) => Carries(wq, kind, s, b, c))
          /\ Sends(o1) => Carries(cq, kind, s, c, d)
  BY DEF Along
<1>2. /\ \A i \in 1..Len(tq) : tq[i].type # "request"
      /\ \A i \in 1..Len(wq) : wq[i].type # "request"
      /\ \A i \in 1..Len(cq) : cq[i].type # "request"
  BY DEF Elems
<1>3. Len(tq) \in Nat /\ Len(wq) \in Nat /\ Len(cq) \in Nat
  BY DEF Queue
<1>4. /\ Carries(tq, kind, s \o x, a, b) /\ (Reaches(o1) => Carries(wq, kind, s \o x, b, c))
      /\ Sends(o1) => Carries(cq, kind, s \o x, c, d)
  BY <1>1, <1>2, <1>3, CarriesLonger
<1>5. b \in 0..Len(s \o x) /\ c \in 0..Len(s \o x)
  OBVIOUS
<1> QED  BY <1>4, <1>5 DEF Along

\* Replies keep their place in front of the output: as the client's loop
\* hands over a message ...
LEMMA GrantedDelivered ==
    ASSUME NEW tq \in Queue, NEW wq \in Queue, NEW cq \in Queue, NEW o1,
           NEW o2, Sends(o2) => Sends(o1), Reaches(o1), wq # <<>>,
           NEW tq2, NEW wq2, tq2 = Append(tq, Head(wq)), wq2 = Tail(wq),
           NEW cpc, NEW spc, Granted(tq, wq, cq, o1, cpc, spc)
    PROVE  Granted(tq2, wq2, cq, o2, cpc, spc)
<1> DEFINE p == Pumping(cpc)  t == Started(spc)
<1>0. p \in BOOLEAN /\ t \in BOOLEAN
  BY DEF Pumping, Started
<1> USE <1>0
<1> DEFINE h == Head(wq)
<1>1. h \in MuxMsg /\ HasReply(tq) \in BOOLEAN /\ HasReply(wq) \in BOOLEAN
  BY OneLess DEF Queue, HasReply
<1>2. /\ Guarded(tq, p) /\ Guarded(wq, p \/ HasReply(tq))
      /\ Sends(o1) => Guarded(cq, p \/ HasReply(tq) \/ HasReply(wq))
      /\ Sends(o1) /\ t => p \/ HasReply(tq) \/ HasReply(wq) \/ HasReply(cq)
  BY DEF Granted
<1>3. (p \/ HasReply(tq)) \in BOOLEAN
  BY <1>1
<1>4. /\ HasReply(wq) <=> h.type = "reply" \/ HasReply(Tail(wq))
      /\ Guarded(Tail(wq), p \/ HasReply(tq) \/ h.type = "reply")
      /\ Payload(h) => p \/ HasReply(tq)
  <2> DEFINE g == p \/ HasReply(tq)
  <2> HIDE DEF h, g
  <2>1. /\ HasReply(wq) <=> h.type = "reply" \/ HasReply(Tail(wq))
        /\ Guarded(wq, g) => Guarded(Tail(wq), g \/ h.type = "reply")
        /\ Guarded(wq, g) /\ Payload(h) => g
    BY <1>3, GuardedLess DEF Queue, h, g
  <2> QED  BY <1>2, <2>1 DEF g
<1> HIDE DEF h
<1>5. /\ Guarded(Append(tq, h), p)
      /\ HasReply(Append(tq, h)) <=> HasReply(tq) \/ h.type = "reply"
  BY <1>1, <1>2, <1>4, GuardedMore DEF Queue
<1> DEFINE x == HasReply(Append(tq, h))  y == HasReply(Tail(wq))  z == HasReply(tq)
           w == HasReply(wq)  u == h.type = "reply"
<1>6. Guarded(Tail(wq), p \/ x)
  <2>1. (p \/ z \/ u) \in BOOLEAN /\ (p \/ x) \in BOOLEAN /\ ((p \/ z \/ u) => (p \/ x))
    BY <1>5
  <2> QED  BY <1>4, <2>1, GuardedStill
<1>7. Sends(o2) => Guarded(cq, p \/ x \/ y)
  <2>1. /\ (p \/ z \/ w) \in BOOLEAN /\ (p \/ x \/ y) \in BOOLEAN
        /\ ((p \/ z \/ w) => (p \/ x \/ y))
    BY <1>4, <1>5
  <2> QED  BY <1>2, <2>1, GuardedStill
<1>8. Sends(o2) /\ t => p \/ x \/ y \/ HasReply(cq)
  BY <1>2, <1>4, <1>5
<1> QED  BY <1>5, <1>6, <1>7, <1>8 DEF Granted, h

\* ... or drops one ...
LEMMA GrantedSkipped ==
    ASSUME NEW tq \in Queue, NEW wq \in Queue, NEW cq \in Queue, NEW o1,
           NEW o2, Sends(o2) => Sends(o1) /\ Reaches(o2), Reaches(o2) => Reaches(o1), wq # <<>>, NEW wq2, wq2 = Tail(wq),
           Head(wq).type # "reply" \/ ~Reaches(o2),
           NEW cpc, NEW spc, Granted(tq, wq, cq, o1, cpc, spc)
    PROVE  Granted(tq, wq2, cq, o2, cpc, spc)
<1> DEFINE p == Pumping(cpc)  t == Started(spc)
<1>0. p \in BOOLEAN /\ t \in BOOLEAN
  BY DEF Pumping, Started
<1> USE <1>0
<1>1. CASE ~Reaches(o2)
  BY <1>1 DEF Granted
<1>2. CASE Reaches(o2)
  <2> DEFINE g == p \/ HasReply(tq)  h == Head(wq)
  <2>1. g \in BOOLEAN
    BY DEF HasReply
  <2> HIDE DEF g, h
  <2>2. /\ HasReply(wq) <=> h.type = "reply" \/ HasReply(Tail(wq))
        /\ Guarded(wq, g) => Guarded(Tail(wq), g \/ h.type = "reply")
    BY <2>1, GuardedLess DEF Queue, h
  <2>3. h.type # "reply"
    BY <1>2 DEF h
  <2>4. HasReply(wq) = HasReply(Tail(wq)) /\ (Guarded(wq, g) => Guarded(Tail(wq), g))
    <3>1. (g \/ h.type = "reply") = g
      BY <2>1, <2>3
    <3>2. HasReply(wq) = HasReply(Tail(wq))
      BY <2>2, <2>3 DEF HasReply
    <3> QED  BY <2>2, <3>1, <3>2
  <2> QED  BY <1>2, <2>4 DEF Granted, g
<1> QED  BY <1>1, <1>2

\* ... as the server's loop sends messages of its own, or loses its entry ...
LEMMA GrantedGrown ==
    ASSUME NEW tq \in Queue, NEW wq \in Queue, NEW cq \in Queue, NEW o1,
           NEW o2, Reaches(o2) => Reaches(o1),
           NEW wq2, Grown(wq, wq2), NEW cq2, Sends(o2) => Sends(o1) /\ cq2 = cq,
           NEW cpc, NEW spc, Granted(tq, wq, cq, o1, cpc, spc)
    PROVE  Granted(tq, wq2, cq2, o2, cpc, spc)
<1> DEFINE p == Pumping(cpc)  t == Started(spc)
<1>0. p \in BOOLEAN /\ t \in BOOLEAN
  BY DEF Pumping, Started
<1> USE <1>0
<1> DEFINE g == p \/ HasReply(tq)  w == HasReply(wq)  w2 == HasReply(wq2)
<1>1. g \in BOOLEAN /\ (g \/ w) \in BOOLEAN /\ (g \/ w2) \in BOOLEAN
  BY DEF HasReply
<1>2. Reaches(o2) => Guarded(wq2, g)
  <2>1. Reaches(o2) => Guarded(wq, g)
    BY DEF Granted
  <2> HIDE DEF g
  <2> QED  BY <1>1, <2>1, GuardedGrown DEF Queue
<1>3. w => w2
  BY GuardedGrown DEF Queue
<1>4. Sends(o2) => Guarded(cq2, g \/ w2)
  <2>1. Sends(o2) => Guarded(cq, g \/ w)
    BY DEF Granted
  <2> HIDE DEF g, w, w2
  <2>2. (g \/ w) => (g \/ w2)
    BY <1>3
  <2> QED  BY <1>1, <2>1, <2>2, GuardedStill
<1> QED  BY <1>2, <1>3, <1>4 DEF Granted

\* ... as it sends one for its task ...
LEMMA GrantedSent ==
    ASSUME NEW tq \in Queue, NEW wq \in Queue, NEW cq \in Queue, NEW o1,
           NEW o2, Reaches(o2) => Reaches(o1), Reaches(o1) => Sends(o1), Sends(o2) => Reaches(o2), cq # <<>>,
           NEW wq2, wq2 = Append(wq, Head(cq)), NEW cq2, Sends(o2) => cq2 = Tail(cq),
           NEW cpc, NEW spc, Granted(tq, wq, cq, o1, cpc, spc)
    PROVE  Granted(tq, wq2, cq2, o2, cpc, spc)
<1> DEFINE p == Pumping(cpc)  t == Started(spc)
<1>0. p \in BOOLEAN /\ t \in BOOLEAN
  BY DEF Pumping, Started
<1> USE <1>0
<1>1. CASE ~Reaches(o2)
  BY <1>1 DEF Granted
<1>2. CASE Reaches(o2)
  <2> DEFINE g == p \/ HasReply(tq)  h == Head(cq)  w == HasReply(wq)
             w2 == HasReply(Append(wq, h))  u == h.type = "reply"
  <2>1. /\ g \in BOOLEAN /\ w \in BOOLEAN /\ w2 \in BOOLEAN /\ u \in BOOLEAN
        /\ (g \/ w) \in BOOLEAN /\ (g \/ w2) \in BOOLEAN /\ (g \/ w \/ u) \in BOOLEAN
    BY DEF HasReply
  <2>2. Guarded(wq, g) /\ Guarded(cq, g \/ w) /\ (t => g \/ w \/ HasReply(cq))
    BY <1>2 DEF Granted
  <2>3. h \in MuxMsg
    BY OneLess DEF Queue
  <2> HIDE DEF g, h
  <2>4. /\ HasReply(cq) <=> u \/ HasReply(Tail(cq))
        /\ Guarded(Tail(cq), g \/ w \/ u)
        /\ Payload(h) => g \/ w
    <3> DEFINE v == g \/ w
    <3>1. v \in BOOLEAN /\ Guarded(cq, v)
      BY <2>1, <2>2
    <3> HIDE DEF v
    <3>2. /\ HasReply(cq) <=> h.type = "reply" \/ HasReply(Tail(cq))
          /\ Guarded(cq, v) => Guarded(Tail(cq), v \/ h.type = "reply")
          /\ Guarded(cq, v) /\ Payload(h) => v
      BY <3>1, GuardedLess DEF Queue, h
    <3> QED  BY <3>1, <3>2 DEF v
  <2>5. Guarded(Append(wq, h), g) /\ (w2 <=> w \/ u)
    BY <2>1, <2>2, <2>3, <2>4, GuardedMore DEF Queue
  <2> HIDE DEF w, w2, u
  <2>6. Guarded(Tail(cq), g \/ w2)
    <3>1. (g \/ w \/ u) => (g \/ w2)
      BY <2>5
    <3> QED  BY <2>1, <2>4, <3>1, GuardedStill
  <2>7. t => g \/ w2 \/ HasReply(Tail(cq))
    BY <2>2, <2>4, <2>5
  <2> QED  BY <2>5, <2>6, <2>7 DEF Granted, g, w2, h
<1> QED  BY <1>1, <1>2

\* ... or handles it alone.
LEMMA GrantedUnsent ==
    ASSUME NEW tq \in Queue, NEW wq \in Queue, NEW cq \in Queue, NEW o1,
           NEW o2, Reaches(o2) => Reaches(o1), Sends(o2) => Sends(o1), cq # <<>>,
           NEW wq2, Grown(wq, wq2), Head(cq).type # "reply" \/ ~Sends(o2),
           NEW cq2, Sends(o2) => cq2 = Tail(cq),
           NEW cpc, NEW spc, Granted(tq, wq, cq, o1, cpc, spc)
    PROVE  Granted(tq, wq2, cq2, o2, cpc, spc)
<1> DEFINE p == Pumping(cpc)  t == Started(spc)
<1>0. p \in BOOLEAN /\ t \in BOOLEAN
  BY DEF Pumping, Started
<1> USE <1>0
<1> DEFINE h == Head(cq)
<1>1. Granted(tq, wq2, cq, o2, cpc, spc)
  <2>1. Sends(o2) => Sends(o1) /\ cq = cq
    OBVIOUS
  <2> QED  BY <2>1, GrantedGrown, SMTT(60)
<1>2. CASE ~Sends(o2)
  <2>1. Sends(o2) => Sends(o1) /\ cq2 = cq
    BY <1>2
  <2> QED  BY <2>1, GrantedGrown, SMTT(60)
<1>3. CASE Sends(o2)
  <2> DEFINE v == p \/ HasReply(tq) \/ HasReply(wq2)
  <2>1. v \in BOOLEAN /\ Guarded(cq, v) /\ (t => v \/ HasReply(cq))
    BY <1>1, <1>3 DEF Granted, HasReply
  <2> HIDE DEF v, h
  <2>2. /\ HasReply(cq) <=> h.type = "reply" \/ HasReply(Tail(cq))
        /\ Guarded(cq, v) => Guarded(Tail(cq), v \/ h.type = "reply")
    BY <2>1, GuardedLess DEF Queue, h
  <2>3. (v \/ h.type = "reply") = v /\ h.type # "reply"
    BY <1>3, <2>1 DEF h
  <2>4. Guarded(cq2, v) /\ (t => v \/ HasReply(cq2))
    BY <1>3, <2>1, <2>2, <2>3
  <2> QED  BY <1>1, <2>4 DEF Granted, v
<1> QED  BY <1>2, <1>3

-----------------------------------------------------------------------------
(* The loops keep the invariant.                                           *)

\* What is on its way after a step of a loop was so before, or is plain.
LEMMA SentByLoops ==
    ASSUME LoopTyped, NEW e \in End, Shape(e), NEW g \in End
    PROVE  Sent(g)' \subseteq Sent(g) \cup PlainMsg
<1> DEFINE p == Peer(e)
<1>1. /\ p \in End /\ Peer(p) = e /\ p # e /\ (g = e \/ g = p)
      /\ to_task[e] \in Seq(MuxMsg) /\ to_task[p] \in Seq(MuxMsg) /\ cmds[e] \in Seq(MuxMsg)
      /\ wire[e] \in Seq(MuxMsg) /\ wire[p] \in Seq(MuxMsg)
  BY TwoEnds, LoopTypes
<1> HIDE DEF p
<1>2. to_task'[p] = to_task[p] /\ cmds'[p] = cmds[p]
  BY DEF Shape, Frame, p
<1>3. Elems(cmds'[e]) \subseteq Elems(cmds[e])
  <2>1. cmds'[e] = cmds[e] \/ cmds'[e] = <<>> \/ (cmds[e] # <<>> /\ cmds'[e] = Tail(cmds[e]))
    BY DEF Shape, PacketStep, CmdStep, DropStep
  <2> QED  BY <1>1, <2>1, ElemsLess, ElemsNone
<1>4. Elems(wire'[e]) \subseteq Elems(wire[e]) \cup Elems(cmds[e]) \cup PlainMsg
  <2>1. \/ Grown(wire[e], wire'[e])
        \/ cmds[e] # <<>> /\ wire'[e] = Append(wire[e], Head(cmds[e]))
    BY <1>1, GrownBy DEF Shape, PacketStep, CmdStep, DropStep
  <2>2. CASE Grown(wire[e], wire'[e])
    BY <1>1, <2>2, ElemsGrown
  <2>3. CASE cmds[e] # <<>> /\ wire'[e] = Append(wire[e], Head(cmds[e]))
    <3>1. Head(cmds[e]) \in MuxMsg /\ Head(cmds[e]) \in Elems(cmds[e])
      BY <1>1, <2>3, OneLess, ElemsLess
    <3> QED  BY <1>1, <2>3, <3>1, ElemsMore
  <2> QED  BY <2>1, <2>2, <2>3
<1>5. Elems(wire'[p]) \subseteq Elems(wire[p])
  <2>1. wire'[p] = wire[p] \/ (wire[p] # <<>> /\ wire'[p] = Tail(wire[p]))
    BY DEF Shape, PacketStep, CmdStep, DropStep, p
  <2> QED  BY <1>1, <2>1, ElemsLess
<1>6. Elems(to_task'[e]) \subseteq Elems(to_task[e]) \cup Elems(wire[p])
  <2>1. \/ to_task'[e] = to_task[e]
        \/ wire[p] # <<>> /\ to_task'[e] = Append(to_task[e], Head(wire[p]))
    BY DEF Shape, PacketStep, CmdStep, DropStep, p
  <2>2. CASE wire[p] # <<>> /\ to_task'[e] = Append(to_task[e], Head(wire[p]))
    <3>1. Head(wire[p]) \in MuxMsg /\ Head(wire[p]) \in Elems(wire[p])
      BY <1>1, <2>2, OneLess, ElemsLess
    <3> QED  BY <1>1, <2>2, <3>1, ElemsMore
  <2> QED  BY <2>1, <2>2
<1>7. CASE g = e
  <2>1. Sent(g) = Elems(cmds[e]) \cup Elems(wire[e]) \cup Elems(to_task[p])
    BY <1>7 DEF Sent, p
  <2>2. Sent(g)' = Elems(cmds'[e]) \cup Elems(wire'[e]) \cup Elems(to_task'[p])
    BY <1>7 DEF Sent, p, Elems
  <2> QED  BY <1>2, <1>3, <1>4, <2>1, <2>2
<1>8. CASE g = p
  <2>1. Sent(g) = Elems(cmds[p]) \cup Elems(wire[p]) \cup Elems(to_task[e])
    BY <1>1, <1>8 DEF Sent
  <2>2. Sent(g)' = Elems(cmds'[p]) \cup Elems(wire'[p]) \cup Elems(to_task'[e])
    BY <1>1, <1>8 DEF Sent, Elems
  <2> QED  BY <1>2, <1>5, <1>6, <2>1, <2>2
<1> QED  BY <1>1, <1>7, <1>8

\* How the queues from the server to the client move.
Move(tq, wq, cq, tq2, wq2, cq2, o1, o2) ==
    \/ /\ Reaches(o1) /\ wq # <<>> /\ tq2 = Append(tq, Head(wq)) /\ wq2 = Tail(wq) /\ cq2 = cq
    \/ /\ wq # <<>> /\ (Idle(Head(wq)) \/ ~Reaches(o2))
       /\ tq2 = tq /\ wq2 = Tail(wq) /\ cq2 = cq
    \/ tq2 = tq /\ Grown(wq, wq2) /\ (Sends(o2) => cq2 = cq)
    \/ /\ Reaches(o1) => Sends(o1)
       /\ cq # <<>> /\ tq2 = tq /\ wq2 = Append(wq, Head(cq)) /\ (Sends(o2) => cq2 = Tail(cq))
    \/ /\ cq # <<>> /\ (Idle(Head(cq)) \/ ~Sends(o2))
       /\ tq2 = tq /\ Grown(wq, wq2) /\ (Sends(o2) => cq2 = Tail(cq))

Moves == Move(to_task["client"], wire["server"], cmds["server"],
              to_task'["client"], wire'["server"], cmds'["server"], OpenEnds, OpenEnds')

\* Output moves along, and stays behind its reply.
LEMMA MoveKeeps ==
    ASSUME NEW tq \in Queue, NEW wq \in Queue, NEW cq \in Queue, NEW tq2, NEW wq2, NEW cq2,
           NEW o1, NEW o2,
           Reaches(o2) => Reaches(o1), Sends(o2) => Sends(o1), Sends(o2) => Reaches(o2),
           Move(tq, wq, cq, tq2, wq2, cq2, o1, o2)
    PROVE  /\ \A kind \in Kinds, s \in Seq(Nat) : \A a, d :
                  Along(kind, s, a, d, tq, wq, cq, o1)
                      => Along(kind, s, a, d, tq2, wq2, cq2, o2)
           /\ \A cpc, spc :
                  Granted(tq, wq, cq, o1, cpc, spc) => Granted(tq2, wq2, cq2, o2, cpc, spc)
<1>1. ASSUME NEW kind \in Kinds, NEW m, Idle(m) PROVE Silent(m, kind) /\ m.type # "reply"
  BY <1>1 DEF Kinds, Idle, Silent, Payload
<1>2. CASE Reaches(o1) /\ wq # <<>> /\ tq2 = Append(tq, Head(wq)) /\ wq2 = Tail(wq) /\ cq2 = cq
  <2>2. ASSUME NEW kind \in Kinds, NEW s \in Seq(Nat), NEW a, NEW d,
               Along(kind, s, a, d, tq, wq, cq, o1)
        PROVE  Along(kind, s, a, d, tq2, wq2, cq2, o2)
    BY <1>2, <2>2, AlongDelivered
  <2>3. ASSUME NEW cpc, NEW spc, Granted(tq, wq, cq, o1, cpc, spc)
        PROVE  Granted(tq2, wq2, cq2, o2, cpc, spc)
    BY <1>2, <2>3, GrantedDelivered
  <2> QED  BY <2>2, <2>3
<1>3. CASE /\ wq # <<>> /\ (Idle(Head(wq)) \/ ~Reaches(o2))
           /\ tq2 = tq /\ wq2 = Tail(wq) /\ cq2 = cq
  <2>1. /\ Sends(o2) => Sends(o1) /\ Reaches(o2)
        /\ \A kind \in Kinds : Silent(Head(wq), kind) \/ ~Reaches(o2)
        /\ Head(wq).type # "reply" \/ ~Reaches(o2)
    BY <1>1, <1>3 DEF Kinds
  <2>2. ASSUME NEW kind \in Kinds, NEW s \in Seq(Nat), NEW a, NEW d,
               Along(kind, s, a, d, tq, wq, cq, o1)
        PROVE  Along(kind, s, a, d, tq2, wq2, cq2, o2)
    BY <1>3, <2>1, <2>2, AlongSkipped
  <2>3. ASSUME NEW cpc, NEW spc, Granted(tq, wq, cq, o1, cpc, spc)
        PROVE  Granted(tq2, wq2, cq2, o2, cpc, spc)
    BY <1>3, <2>1, <2>3, GrantedSkipped
  <2> QED  BY <2>2, <2>3
<1>4. CASE tq2 = tq /\ Grown(wq, wq2) /\ (Sends(o2) => cq2 = cq)
  <2>1. Sends(o2) => Sends(o1) /\ cq2 = cq
    BY <1>4
  <2>2. ASSUME NEW kind \in Kinds, NEW s \in Seq(Nat), NEW a, NEW d,
               Along(kind, s, a, d, tq, wq, cq, o1)
        PROVE  Along(kind, s, a, d, tq2, wq2, cq2, o2)
    BY <1>4, <2>1, <2>2, AlongGrown
  <2>3. ASSUME NEW cpc, NEW spc, Granted(tq, wq, cq, o1, cpc, spc)
        PROVE  Granted(tq2, wq2, cq2, o2, cpc, spc)
    BY <1>4, <2>1, <2>3, GrantedGrown
  <2> QED  BY <2>2, <2>3
<1>5. CASE /\ Reaches(o1) => Sends(o1)
           /\ cq # <<>> /\ tq2 = tq /\ wq2 = Append(wq, Head(cq)) /\ (Sends(o2) => cq2 = Tail(cq))
  <2>2. ASSUME NEW kind \in Kinds, NEW s \in Seq(Nat), NEW a, NEW d,
               Along(kind, s, a, d, tq, wq, cq, o1)
        PROVE  Along(kind, s, a, d, tq2, wq2, cq2, o2)
    BY <1>5, <2>2, AlongSent
  <2>3. ASSUME NEW cpc, NEW spc, Granted(tq, wq, cq, o1, cpc, spc)
        PROVE  Granted(tq2, wq2, cq2, o2, cpc, spc)
    BY <1>5, <2>3, GrantedSent
  <2> QED  BY <2>2, <2>3
<1>6. CASE /\ cq # <<>> /\ (Idle(Head(cq)) \/ ~Sends(o2))
           /\ tq2 = tq /\ Grown(wq, wq2) /\ (Sends(o2) => cq2 = Tail(cq))
  <2>1. /\ \A kind \in Kinds : Silent(Head(cq), kind) \/ ~Sends(o2)
        /\ Head(cq).type # "reply" \/ ~Sends(o2)
    BY <1>1, <1>6 DEF Kinds
  <2>2. ASSUME NEW kind \in Kinds, NEW s \in Seq(Nat), NEW a, NEW d,
               Along(kind, s, a, d, tq, wq, cq, o1)
        PROVE  Along(kind, s, a, d, tq2, wq2, cq2, o2)
    BY <1>6, <2>1, <2>2, AlongUnsent
  <2>3. ASSUME NEW cpc, NEW spc, Granted(tq, wq, cq, o1, cpc, spc)
        PROVE  Granted(tq2, wq2, cq2, o2, cpc, spc)
    BY <1>6, <2>1, <2>3, GrantedUnsent
  <2> QED  BY <2>2, <2>3
<1> QED  BY <1>2, <1>3, <1>4, <1>5, <1>6 DEF Move

\* Every step of a loop moves them so.
LEMMA LoopMoves ==
    ASSUME LoopTyped, NEW e \in End, Shape(e)
    PROVE  Moves /\ OpenEnds' \subseteq OpenEnds
<1>1. /\ Peer("client") = "server" /\ Peer("server") = "client" /\ (e = "client" \/ e = "server")
      /\ wire["server"] \in Seq(MuxMsg) /\ wire["client"] \in Seq(MuxMsg)
  BY TwoEnds, LoopTypes DEF End
<1>2. /\ (chan'["client"].open => chan["client"].open)
      /\ (chan'["server"].open => chan["server"].open)
  BY <1>1 DEF Shape, Frame
<1>3. OpenEnds' \subseteq OpenEnds
  BY <1>2 DEF OpenEnds, End
<1> SUFFICES Moves
  BY <1>3
<1>4. Grown(wire["server"], wire["server"])
  BY <1>1, GrownBy
<1>5. CASE e = "client"
  <2>1. cmds'["server"] = cmds["server"]
    BY <1>1, <1>5 DEF Shape, Frame
  <2>2. CASE PacketStep(e)
    BY <1>1, <1>5, <2>1, <2>2 DEF PacketStep, Moves, Move, Reaches, OpenEnds, End
  <2>3. CASE CmdStep(e) \/ DropStep(e)
    BY <1>1, <1>4, <1>5, <2>1, <2>3 DEF CmdStep, DropStep, Moves, Move
  <2> QED  BY <2>2, <2>3 DEF Shape
<1>6. CASE e = "server"
  <2>1. to_task'["client"] = to_task["client"]
    BY <1>1, <1>6 DEF Shape, Frame
  <2>2. CASE PacketStep(e) \/ DropStep(e)
    <3>1. Grown(wire["server"], wire'["server"])
      BY <1>1, <1>4, <1>6, <2>2 DEF PacketStep, DropStep
    <3>2. Sends(OpenEnds') => cmds'["server"] = cmds["server"]
      BY <1>6, <2>2 DEF PacketStep, DropStep, Sends, OpenEnds, End
    <3> QED  BY <2>1, <3>1, <3>2 DEF Moves, Move
  <2>3. CASE CmdStep(e)
    <3>1. cmds["server"] # <<>> /\ (Sends(OpenEnds') => cmds'["server"] = Tail(cmds["server"]))
      BY <1>6, <2>3 DEF CmdStep, Sends, OpenEnds, End
    <3>2. \/ chan["server"].open /\ wire'["server"] = Append(wire["server"], Head(cmds["server"]))
          \/ /\ Grown(wire["server"], wire'["server"])
             /\ Idle(Head(cmds["server"])) \/ ~chan'["server"].open
      BY <1>6, <2>3 DEF CmdStep
    <3>3. CASE chan["server"].open /\ wire'["server"] = Append(wire["server"], Head(cmds["server"]))
      <4>1. Reaches(OpenEnds) => Sends(OpenEnds)
        BY <3>3 DEF Reaches, Sends, OpenEnds, End
      <4> QED  BY <2>1, <3>1, <3>3, <4>1 DEF Moves, Move
    <3>4. CASE /\ Grown(wire["server"], wire'["server"])
               /\ Idle(Head(cmds["server"])) \/ ~chan'["server"].open
      <4>1. Idle(Head(cmds["server"])) \/ ~Sends(OpenEnds')
        BY <3>4 DEF Sends, OpenEnds, End
      <4> QED  BY <2>1, <3>1, <3>4, <4>1 DEF Moves, Move
    <3> QED  BY <3>2, <3>3, <3>4
  <2> QED  BY <2>2, <2>3 DEF Shape
<1> QED  BY <1>1, <1>5, <1>6

\* Output in the queues moves; the tasks and the child do nothing.
LEMMA FlowMoves ==
    ASSUME NEW kind \in Kinds, NEW busy, NEW seen, NEW pipe, NEW s \in Seq(Nat),
           NEW tq \in Queue, NEW wq \in Queue, NEW cq \in Queue, NEW tq2, NEW wq2, NEW cq2,
           NEW o1, NEW o2, o2 \subseteq o1, NEW pc, NEW buf,
           Move(tq, wq, cq, tq2, wq2, cq2, o1, o2),
           Flow(kind, busy, seen, pipe, s, tq, wq, cq, o1, pc, buf)
    PROVE  Flow(kind, busy, seen, pipe, s, tq2, wq2, cq2, o2, pc, buf)
<1>1. PICK d, f \in 0..Len(s) :
          /\ Along(kind, s, Len(seen), d, tq, wq, cq, o1)
          /\ Sends(o1) /\ pc # "done" => Holding(busy, pipe, s, d, f, pc, buf)
  BY DEF Flow
<1>2. /\ Reaches(o2) => Reaches(o1)
      /\ Sends(o2) => Sends(o1)
      /\ Sends(o2) => Reaches(o2)
  BY DEF Reaches, Sends
<1>3. Along(kind, s, Len(seen), d, tq2, wq2, cq2, o2)
  BY <1>1, <1>2, MoveKeeps
<1>4. Piece(seen, s, 0)
  BY DEF Flow
<1> QED  BY <1>1, <1>2, <1>3, <1>4 DEF Flow

\* The types of what the proofs below look at.
LEMMA StateTypes ==
    ASSUME Typed
    PROVE  /\ LoopTyped /\ TypeOK
           /\ to_task["client"] \in Queue /\ wire["server"] \in Queue /\ cmds["server"] \in Queue
           /\ to_task["server"] \in Queue /\ wire["client"] \in Queue /\ cmds["client"] \in Queue
           /\ child.out \in Seq(Nat) /\ child.err \in Seq(Nat)
           /\ child.stdout \in Seq(Nat) /\ child.stderr \in Seq(Nat)
           /\ client.stdout \in Seq(Nat) /\ client.stderr \in Seq(Nat)
           /\ client.buf \in Seq(Nat) /\ server.buf \in Seq(Nat)
<1>1. LoopTyped /\ TypeOK
  BY DEF Typed
<1>2. /\ to_task["client"] \in Queue /\ wire["server"] \in Queue /\ cmds["server"] \in Queue
      /\ to_task["server"] \in Queue /\ wire["client"] \in Queue /\ cmds["client"] \in Queue
  BY <1>1, TwoEnds DEF LoopTyped, MuxTypeOK, Queue
<1>3. child.out \in Seq(Nat) /\ child.err \in Seq(Nat) /\ child.stdout \in Seq(Nat) /\ child.stderr \in Seq(Nat)
  BY <1>1 DEF TypeOK, ChildState
<1>4. client.stdout \in Seq(Nat) /\ client.stderr \in Seq(Nat) /\ client.buf \in Seq(Nat)
  BY <1>1 DEF TypeOK, ClientState
<1>5. server.buf \in Seq(Nat)
  BY <1>1 DEF TypeOK, ServerState
<1> QED  BY <1>1, <1>2, <1>3, <1>4, <1>5

\* A step of a loop keeps the invariant.
LEMMA LoopKeeps ==
    ASSUME IInv, NEW e \in End, LoopStep(e)
    PROVE  IInv'
<1>1. /\ job' = job /\ client' = client /\ server' = server /\ child' = child
      /\ Loop(e) \/ ConnectionFails(e)
  BY DEF LoopStep
<1>2. Typed
  BY DEF IInv
<1>3. Shape(e) /\ LoopTyped'
  BY <1>1, <1>2, LoopShape, StateTypes DEF Shape
<1>4. Moves /\ OpenEnds' \subseteq OpenEnds
  BY <1>2, <1>3, LoopMoves, StateTypes
<1>5. Typed'
  <2>1. TypeOK
    BY <1>2 DEF Typed
  <2>2. MuxTypeOK'
    BY <1>3 DEF LoopTyped
  <2>3. TypeOK'
    BY <1>1, <2>1, <2>2 DEF TypeOK, ClientState
  <2> QED  BY <1>3, <2>3 DEF Typed
<1>6. OutFlows'
  <2>1. "data" \in Kinds
    BY DEF Kinds
  <2>2. OutFlows
    BY DEF IInv
  <2>3. Flow("data", "sending_out", client.stdout, child.stdout, child.out, to_task'["client"],
             wire'["server"], cmds'["server"], OpenEnds', server.pc, server.buf)
    BY <1>2, <1>4, <2>1, <2>2, FlowMoves, StateTypes DEF OutFlows, Flowing, Moves
  <2> QED  BY <1>1, <2>3 DEF OutFlows, Flowing
<1>7. ErrFlows'
  <2>1. "ext" \in Kinds
    BY DEF Kinds
  <2>2. ErrFlows
    BY DEF IInv
  <2>3. Flow("ext", "sending_err", client.stderr, child.stderr, child.err, to_task'["client"],
             wire'["server"], cmds'["server"], OpenEnds', server.pc, server.buf)
    BY <1>2, <1>4, <2>1, <2>2, FlowMoves, StateTypes DEF ErrFlows, Flowing, Moves
  <2> QED  BY <1>1, <2>3 DEF ErrFlows, Flowing
<1>8. GrantFirst'
  <2>1. GrantFirst
    BY DEF IInv
  <2>2. /\ Reaches(OpenEnds') => Reaches(OpenEnds)
        /\ Sends(OpenEnds') => Sends(OpenEnds)
        /\ Sends(OpenEnds') => Reaches(OpenEnds')
    BY <1>4 DEF Reaches, Sends
  <2>3. Granted(to_task'["client"], wire'["server"], cmds'["server"], OpenEnds',
                client.pc, server.pc)
    BY <1>2, <1>4, <2>1, <2>2, MoveKeeps, StateTypes DEF GrantFirst, Moves
  <2> QED  BY <1>1, <2>3 DEF GrantFirst
<1>9. \A g \in End : \A m \in Sent(g)' : m \in Sent(g) \/ ~Payload(m)
  BY <1>2, <1>3, SentByLoops, StateTypes DEF PlainMsg
<1>10. "client" \in End /\ "server" \in End
  BY DEF End
<1>11. AskedFirst' /\ RepliesDue' /\ StatusTrue'
  <2>1. AskedFirst /\ RepliesDue /\ StatusTrue
    BY DEF IInv
  <2>2. AskedFirst'
    BY <1>1, <1>9, <1>10, <2>1 DEF AskedFirst, Early, AsksStart, Payload
  <2>3. RepliesDue'
    BY <1>1, <1>9, <1>10, <2>1 DEF RepliesDue, Proper, Payload
  <2>4. StatusTrue'
    BY <1>1, <1>9, <1>10, <2>1 DEF StatusTrue, Payload
  <2> QED  BY <2>2, <2>3, <2>4
<1>12. ServerKnows' /\ Filled' /\ Final(client.exit_status)' /\ Final(client.result)'
  BY <1>1 DEF IInv, ServerKnows, Filled, Final
<1> QED  BY <1>5, <1>6, <1>7, <1>8, <1>11, <1>12 DEF IInv

-----------------------------------------------------------------------------
(* The client task keeps the invariant.                                    *)

\* What a command puts in the queue of its loop.
LEMMA Commanded ==
    ASSUME LoopTyped, NEW e \in End, NEW x \in Queue, Command(e, x)
    PROVE  /\ cmds' \in [End -> Seq(MuxMsg)] /\ cmds'[Peer(e)] = cmds[Peer(e)]
           /\ cmds'[e] = IF up(e) THEN cmds[e] \o x ELSE cmds[e]
<1>1. cmds \in [End -> Seq(MuxMsg)] /\ Peer(e) \in End /\ Peer(e) # e
  BY LoopTypes
<1>2. cmds[e] \o x \in Seq(MuxMsg)
  BY <1>1, ConcatProperties DEF Queue
<1>3. cmds' = IF up(e) THEN [cmds EXCEPT ![e] = cmds[e] \o x] ELSE cmds
  BY DEF Command
<1> QED  BY <1>1, <1>2, <1>3

\* ... when it is one message.
LEMMA CommandedOne ==
    ASSUME LoopTyped, NEW e \in End, NEW m \in MuxMsg, Command(e, <<m>>)
    PROVE  /\ cmds' \in [End -> Seq(MuxMsg)] /\ cmds'[Peer(e)] = cmds[Peer(e)]
           /\ cmds'[e] = IF up(e) THEN Append(cmds[e], m) ELSE cmds[e]
           /\ Elems(cmds'[e]) \subseteq Elems(cmds[e]) \cup {m}
<1>1. <<m>> \in Queue /\ cmds[e] \in Seq(MuxMsg)
  BY LoopTypes DEF Queue
<1>2. cmds[e] \o <<m>> = Append(cmds[e], m)
  BY <1>1, OneMore
<1>3. /\ cmds' \in [End -> Seq(MuxMsg)] /\ cmds'[Peer(e)] = cmds[Peer(e)]
      /\ cmds'[e] = IF up(e) THEN cmds[e] \o <<m>> ELSE cmds[e]
  BY <1>1, Commanded
<1>4. Elems(Append(cmds[e], m)) \subseteq Elems(cmds[e]) \cup {m}
  BY <1>1, ElemsMore
<1> QED  BY <1>2, <1>3, <1>4

\* A queue that a task has taken its event from, if there was one.
LEMMA Recvd ==
    ASSUME LoopTyped, NEW e \in End, Ready(e), Recv(e)
    PROVE  /\ to_task' \in [End -> Seq(MuxMsg)] /\ to_task'[Peer(e)] = to_task[Peer(e)]
           /\ \/ /\ to_task[e] # <<>> /\ to_task'[e] = Tail(to_task[e])
                 /\ Received(e) = Head(to_task[e]) /\ Received(e) \in MuxMsg
                 /\ Received(e) \in Elems(to_task[e])
              \/ to_task'[e] = to_task[e] /\ Received(e) = Plain("close")
<1>1. to_task \in [End -> Seq(MuxMsg)] /\ Peer(e) \in End /\ Peer(e) # e /\ to_task[e] \in Seq(MuxMsg)
  BY LoopTypes
<1>2. CASE to_task[e] # <<>>
  <2>1. /\ Head(to_task[e]) \in MuxMsg /\ Tail(to_task[e]) \in Seq(MuxMsg)
        /\ Head(to_task[e]) \in Elems(to_task[e])
    BY <1>1, <1>2, OneLess, ElemsLess
  <2>2. to_task' = [to_task EXCEPT ![e] = Tail(to_task[e])]
    BY <1>2 DEF Recv, HasEvent
  <2> QED  BY <1>1, <1>2, <2>1, <2>2 DEF Received, HasEvent, NextEvent
<1>3. CASE to_task[e] = <<>>
  <2>1. to_task' = [to_task EXCEPT ![e] = to_task[e]] /\ Received(e) = Plain("close")
    BY <1>3 DEF Recv, Received, HasEvent
  <2> QED  BY <1>1, <2>1
<1> QED  BY <1>2, <1>3

\* Once it was granted, nothing needs a guard ...
LEMMA GrantedPumping ==
    ASSUME NEW tq, NEW wq, NEW cq, NEW o, NEW cpc, NEW spc, Pumping(cpc)
    PROVE  Granted(tq, wq, cq, o, cpc, spc)
BY DEF Granted, Guarded

\* ... nor while there is no output.
LEMMA GrantedFree ==
    ASSUME NEW tq, NEW wq, NEW cq, NEW o, NEW cpc, NEW spc, ~Started(spc),
           \A m \in Elems(tq) \cup Elems(wq) \cup Elems(cq) : ~Payload(m)
    PROVE  Granted(tq, wq, cq, o, cpc, spc)
BY GuardedFree DEF Granted

\* The task waits on: what it took was neither a reply nor output.
LEMMA GrantedWaiting ==
    ASSUME NEW tq \in Queue, tq # <<>>, NEW wq, NEW cq, NEW o, NEW cpc, NEW spc,
           Head(tq).type # "reply", Granted(tq, wq, cq, o, cpc, spc)
    PROVE  Granted(Tail(tq), wq, cq, o, cpc, spc)
<1> DEFINE p == Pumping(cpc)
<1>1. p \in BOOLEAN
  BY DEF Pumping
<1>2. Guarded(tq, p)
  BY DEF Granted
<1> HIDE DEF p
<1>3. /\ HasReply(tq) <=> Head(tq).type = "reply" \/ HasReply(Tail(tq))
      /\ Guarded(tq, p) => Guarded(Tail(tq), p \/ Head(tq).type = "reply")
  BY <1>1, GuardedLess DEF Queue
<1>4. HasReply(tq) = HasReply(Tail(tq))
  BY <1>3 DEF HasReply
<1>5. (p \/ Head(tq).type = "reply") = p
  BY <1>1
<1> QED  BY <1>2, <1>3, <1>4, <1>5 DEF Granted, p

\* Two stretches, one behind the other.
LEMMA PiecesJoin ==
    ASSUME NEW x \in Seq(Nat), NEW y \in Seq(Nat), NEW s \in Seq(Nat),
           Piece(x, s, 0), Piece(y, s, Len(x))
    PROVE  Piece(x \o y, s, 0)
<1>1. /\ Len(x \o y) = Len(x) + Len(y) /\ Len(x) \in Nat /\ Len(y) \in Nat
      /\ \A k \in 1..Len(x) : (x \o y)[k] = x[k]
      /\ \A k \in 1..(Len(x) + Len(y)) : k > Len(x) => /\ (x \o y)[k] = y[k - Len(x)]
                                                      /\ k - Len(x) \in 1..Len(y)
  OBVIOUS
<1>2. Len(x) + Len(y) <= Len(s)
  BY DEF Piece
<1>3. ASSUME NEW k \in 1..(Len(x) + Len(y)) PROVE (x \o y)[k] = s[0 + k]
  <2>1. CASE k > Len(x)
    <3>1. y[k - Len(x)] = s[Len(x) + (k - Len(x))] /\ Len(x) + (k - Len(x)) = 0 + k
      BY <1>1, <2>1 DEF Piece
    <3> QED  BY <1>1, <2>1, <3>1
  <2>2. CASE k \in 1..Len(x)
    BY <1>1, <2>2 DEF Piece
  <2> QED  BY <1>1, <2>1, <2>2
<1> QED  BY <1>1, <1>2, <1>3 DEF Piece

\* What the user has seen after message m.
Shown(kind, seen, m) == IF m.type = kind THEN seen \o m.bytes ELSE seen

\* The task takes a message: of its kind, it is what the user has to see next.
LEMMA FlowTaken ==
    ASSUME NEW kind \in Kinds, NEW busy, NEW seen \in Seq(Nat), NEW pipe, NEW s \in Seq(Nat),
           NEW tq \in Queue, NEW wq, NEW cq, NEW o, NEW pc, NEW buf, tq # <<>>,
           Flow(kind, busy, seen, pipe, s, tq, wq, cq, o, pc, buf),
           NEW tq2, tq2 = Tail(tq),
           NEW new, new = Shown(kind, seen, Head(tq))
    PROVE  /\ Flow(kind, busy, new, pipe, s, tq2, wq, cq, o, pc, buf)
           /\ Head(tq).type = "request" => Complete(seen, s)
<1> DEFINE h == Head(tq)  n == Len(seen)
<1>1. PICK d, f \in 0..Len(s) :
          /\ Along(kind, s, n, d, tq, wq, cq, o)
          /\ Sends(o) /\ pc # "done" => Holding(busy, pipe, s, d, f, pc, buf)
  BY DEF Flow
<1>2. PICK c \in 0..Len(s) :
          Fits(h, kind, s, n, c) /\ Along(kind, s, c, d, Tail(tq), wq, cq, o)
  BY <1>1, AlongTaken
<1>3. Piece(seen, s, 0) /\ n \in Nat
  BY DEF Flow
<1>4. h \in MuxMsg
  BY OneLess DEF Queue
<1> HIDE DEF h
<1>5. ASSUME h.type # kind
      PROVE  Flow(kind, busy, seen, pipe, s, Tail(tq), wq, cq, o, pc, buf)
  <2>1. c = n
    BY <1>2, <1>5 DEF Fits
  <2> QED  BY <1>1, <1>2, <1>3, <2>1 DEF Flow
<1>6. ASSUME h.type = kind
      PROVE  Flow(kind, busy, seen \o h.bytes, pipe, s, Tail(tq), wq, cq, o, pc, buf)
  <2>1. h.bytes \in Seq(Nat)
    BY <1>4, <1>6, MessageFacts DEF Kinds
  <2>2. c = n + Len(h.bytes) /\ Piece(h.bytes, s, n)
    BY <1>2, <1>6 DEF Fits
  <2>3. Len(seen \o h.bytes) = c
    BY <2>1, <2>2
  <2>4. Piece(seen \o h.bytes, s, 0)
    BY <1>3, <2>1, <2>2, PiecesJoin
  <2> QED  BY <1>1, <1>2, <2>3, <2>4 DEF Flow
<1>7. h.type = "request" => n = Len(s)
  BY <1>2 DEF Fits
<1>8. Flow(kind, busy, new, pipe, s, tq2, wq, cq, o, pc, buf)
  BY <1>5, <1>6 DEF h, Shown
<1> QED  BY <1>7, <1>8 DEF h, Complete

\* What no step of the client task touches.
ClientFrame ==
    /\ UNCHANGED <<run, chan, sem_closed, wire, job, server, child>>
    /\ cmds'["server"] = cmds["server"] /\ to_task'["server"] = to_task["server"]

\* It takes the head of its queue, or nothing.
Takes == to_task["client"] # <<>> /\ to_task'["client"] = Tail(to_task["client"])

\* The types, when only the client's part changes.
LEMMA ClientTyped ==
    ASSUME Typed, ClientFrame, client' \in ClientState, credit' \in [End -> 0..Ceiling],
           to_task' \in [End -> Seq(MuxMsg)], cmds' \in [End -> Seq(MuxMsg)]
    PROVE  Typed'
<1>1. LoopTyped /\ TypeOK
  BY DEF Typed
<1>2. MuxTypeOK'
  BY <1>1 DEF LoopTyped, MuxTypeOK, ClientFrame
<1>3. LoopTyped'
  BY <1>1, <1>2 DEF LoopTyped, ClientFrame, up
<1>4. client' \in ClientState'
  BY DEF ClientState, ClientFrame
<1>5. TypeOK'
  BY <1>1, <1>2, <1>4 DEF TypeOK, ClientFrame, ServerState, ChildState
<1> QED  BY <1>3, <1>5 DEF Typed

\* What the invariant asks of a step of the client task.
LEMMA ClientStep ==
    ASSUME IInv, Typed', ClientFrame,
           to_task'["client"] = to_task["client"] \/ Takes,
           \A m \in Elems(cmds'["client"]) : m \in Elems(cmds["client"]) \/
               (Proper(m) /\ (AsksStart(m) => ~Early')),
           Early' => Early, client'.pc = "sending" => client'.buf # <<>>,
           \/ Pumping(client'.pc) \/ Early
           \/ /\ client'.pc = client.pc
              /\ to_task'["client"] = to_task["client"] \/ Head(to_task["client"]).type # "reply",
           OutFlows', ErrFlows', Final(client.exit_status)', Final(client.result)'
    PROVE  IInv'
<1>1. /\ Typed /\ GrantFirst /\ AskedFirst /\ RepliesDue /\ Filled /\ ServerKnows /\ StatusTrue
  BY DEF IInv
<1>2. /\ to_task["client"] \in Queue /\ Peer("client") = "server" /\ Peer("server") = "client"
  BY <1>1, StateTypes, TwoEnds
<1>3. Elems(to_task'["client"]) \subseteq Elems(to_task["client"])
  BY <1>2, ElemsLess DEF Takes, Queue
<1>4. Sent("server")' \subseteq Sent("server")
  BY <1>2, <1>3 DEF Sent, ClientFrame, Elems
<1>5. /\ Sent("client") = Elems(cmds["client"]) \cup Elems(wire["client"]) \cup Elems(to_task["server"])
      /\ Sent("client")' = Elems(cmds'["client"]) \cup Elems(wire'["client"]) \cup Elems(to_task'["server"])
  BY <1>2 DEF Sent, Elems
<1>6. \A m \in Sent("client")' : m \in Sent("client") \/
          (Proper(m) /\ (AsksStart(m) => ~Early'))
  BY <1>5 DEF ClientFrame
<1>7. AskedFirst'
  <2>1. Early' => \A m \in Sent("client")' : ~AsksStart(m)
    BY <1>1, <1>6 DEF AskedFirst, AsksStart
  <2>2. Early' => child'.state = "none"
    BY <1>1 DEF AskedFirst, ClientFrame
  <2>3. child'.state = "none" => ~Started(server'.pc) /\ \A m \in Sent("server")' : ~Payload(m)
    BY <1>1, <1>4 DEF AskedFirst, ClientFrame
  <2> QED  BY <2>1, <2>2, <2>3 DEF AskedFirst, AsksStart, Payload
<1>8. RepliesDue'
  BY <1>1, <1>6 DEF RepliesDue
<1>9. StatusTrue' /\ ServerKnows'
  BY <1>1, <1>4 DEF StatusTrue, ServerKnows, ClientFrame
<1>10. Filled'
  BY <1>1 DEF Filled, ClientFrame
<1>11. GrantFirst'
  <2>1. wire'["server"] = wire["server"] /\ OpenEnds' = OpenEnds /\ server' = server
    BY DEF ClientFrame, OpenEnds
  <2>2. SUFFICES Granted(to_task'["client"], wire["server"], cmds["server"], OpenEnds,
                         client'.pc, server.pc)
    BY <2>1 DEF GrantFirst, ClientFrame
  <2>3. CASE Pumping(client'.pc)
    BY <2>3, GrantedPumping
  <2>4. CASE Early
    <3>1. ~Started(server.pc) /\ \A m \in Sent("server") : ~Payload(m)
      BY <1>1, <2>4 DEF AskedFirst
    <3>2. \A m \in Elems(to_task'["client"]) \cup Elems(wire["server"]) \cup Elems(cmds["server"]) :
             ~Payload(m)
      BY <1>2, <1>3, <3>1 DEF Sent
    <3> QED  BY <3>1, <3>2, GrantedFree
  <2>5. CASE /\ client'.pc = client.pc
             /\ to_task'["client"] = to_task["client"] \/ Head(to_task["client"]).type # "reply"
    <3>1. Granted(to_task["client"], wire["server"], cmds["server"], OpenEnds, client.pc, server.pc)
      BY <1>1 DEF GrantFirst
    <3>2. CASE to_task'["client"] = to_task["client"]
      BY <2>5, <3>1, <3>2
    <3>3. CASE Takes /\ Head(to_task["client"]).type # "reply"
      BY <1>2, <2>5, <3>1, <3>3, GrantedWaiting DEF Takes
    <3> QED  BY <2>5, <3>2, <3>3
  <2> QED  BY <2>3, <2>4, <2>5
<1> QED  BY <1>7, <1>8, <1>9, <1>10, <1>11 DEF IInv

\* Nothing taken: the output stays where it is.
LEMMA OutputStays ==
    ASSUME IInv, ClientFrame, to_task'["client"] = to_task["client"],
           client'.stdout = client.stdout, client'.stderr = client.stderr
    PROVE  OutFlows' /\ ErrFlows'
<1>1. OutFlows /\ ErrFlows /\ OpenEnds' = OpenEnds /\ server' = server
  BY DEF IInv, ClientFrame, OpenEnds
<1> QED  BY <1>1 DEF OutFlows, ErrFlows, Flowing, ClientFrame

\* A message taken: output goes to the user, anything else leaves it alone.
LEMMA OutputTaken ==
    ASSUME IInv, ClientFrame, Takes, NEW h, h = Head(to_task["client"]),
           client'.stdout = Shown("data", client.stdout, h),
           client'.stderr = Shown("ext", client.stderr, h)
    PROVE  /\ OutFlows' /\ ErrFlows'
           /\ h.type = "request" => /\ Complete(client.stdout, child.out)
                                    /\ Complete(client.stderr, child.err)
<1>1. /\ Typed /\ OutFlows /\ ErrFlows /\ OpenEnds' = OpenEnds /\ server' = server
      /\ "data" \in Kinds /\ "ext" \in Kinds
  BY DEF IInv, ClientFrame, OpenEnds, Kinds
<1> DEFINE tq == to_task["client"]  wq == wire["server"]  cq == cmds["server"]
           tq2 == to_task'["client"]  out == client'.stdout  err == client'.stderr
<1>2. /\ tq \in Queue /\ tq # <<>> /\ tq2 = Tail(tq) /\ h = Head(tq)
      /\ client.stdout \in Seq(Nat) /\ child.out \in Seq(Nat)
      /\ client.stderr \in Seq(Nat) /\ child.err \in Seq(Nat)
  BY <1>1, StateTypes DEF Takes
<1>5. /\ Flow("data", "sending_out", out, child.stdout, child.out,
              tq2, wq, cq, OpenEnds, server.pc, server.buf)
      /\ Head(tq).type = "request" => Complete(client.stdout, child.out)
  <2> DEFINE seen == client.stdout  pipe == child.stdout  all == child.out
             pc == server.pc  buf == server.buf
  <2>1. Flow("data", "sending_out", seen, pipe, all, tq, wq, cq, OpenEnds, pc, buf)
    BY <1>1 DEF OutFlows, Flowing
  <2>2. out = Shown("data", seen, Head(tq))
    BY <1>2
  <2>3. "data" \in Kinds /\ seen \in Seq(Nat) /\ all \in Seq(Nat)
    BY <1>1, <1>2
  <2>4. tq \in Queue /\ tq # <<>> /\ tq2 = Tail(tq)
    BY <1>2
  <2> HIDE DEF tq, wq, cq, tq2, out, err, seen, pipe, all, pc, buf
  <2>5. /\ Flow("data", "sending_out", out, pipe, all, tq2, wq, cq, OpenEnds, pc, buf)
        /\ Head(tq).type = "request" => Complete(seen, all)
    BY <2>1, <2>2, <2>3, <2>4, FlowTaken, ZenonT(60)
  <2> QED  BY <2>5 DEF seen, pipe, all, pc, buf
<1>6. /\ Flow("ext", "sending_err", err, child.stderr, child.err,
              tq2, wq, cq, OpenEnds, server.pc, server.buf)
      /\ Head(tq).type = "request" => Complete(client.stderr, child.err)
  <2> DEFINE seen == client.stderr  pipe == child.stderr  all == child.err
             pc == server.pc  buf == server.buf
  <2>1. Flow("ext", "sending_err", seen, pipe, all, tq, wq, cq, OpenEnds, pc, buf)
    BY <1>1 DEF ErrFlows, Flowing
  <2>2. err = Shown("ext", seen, Head(tq))
    BY <1>2
  <2>3. "ext" \in Kinds /\ seen \in Seq(Nat) /\ all \in Seq(Nat)
    BY <1>1, <1>2
  <2>4. tq \in Queue /\ tq # <<>> /\ tq2 = Tail(tq)
    BY <1>2
  <2> HIDE DEF tq, wq, cq, tq2, out, err, seen, pipe, all, pc, buf
  <2>5. /\ Flow("ext", "sending_err", err, pipe, all, tq2, wq, cq, OpenEnds, pc, buf)
        /\ Head(tq).type = "request" => Complete(seen, all)
    BY <2>1, <2>2, <2>3, <2>4, FlowTaken, ZenonT(60)
  <2> QED  BY <2>5 DEF seen, pipe, all, pc, buf
<1> HIDE DEF tq, wq, cq, tq2, out, err
<1>7. OutFlows' /\ ErrFlows'
  BY <1>1, <1>5, <1>6 DEF OutFlows, ErrFlows, Flowing, ClientFrame, tq, tq2, wq, cq, out, err
<1> QED  BY <1>2, <1>5, <1>6, <1>7

\* The end of the task.
LEMMA Delivers ==
    ASSUME IInv, ClientFrame, credit' = credit, to_task' \in [End -> Seq(MuxMsg)],
           \/ to_task'["client"] = to_task["client"]
           \/ Takes /\ ~Payload(Head(to_task["client"])),
           NEW status \in {"none", client.exit_status},
           Deliver(status)
    PROVE  IInv'
<1>1. Typed /\ LoopTyped /\ TypeOK /\ client \in ClientState /\ Plain("close") \in MuxMsg
  BY Made, StateTypes DEF IInv, TypeOK
<1>2. /\ cmds' \in [End -> Seq(MuxMsg)] /\ Elems(cmds'["client"]) \subseteq Elems(cmds["client"]) \cup {Plain("close")}
  BY <1>1, CommandedOne, TwoEnds DEF Deliver
<1>3. /\ client' \in ClientState /\ client'.pc = "done" /\ client'.stdout = client.stdout
      /\ client'.stderr = client.stderr /\ client'.exit_status = client.exit_status
      /\ client'.result = (IF status = "none" THEN "missing" ELSE status)
  <2>1. client.exit_status \in Status \cup {"none"}
    BY <1>1 DEF ClientState
  <2> DEFINE v == IF status = "none" THEN "missing" ELSE status
  <2>2. v \in Status \cup {"none", "missing"}
    BY <2>1
  <2>3. client' = [client EXCEPT !.pc = "done", !.result = v]
    BY DEF Deliver
  <2> HIDE DEF v
  <2>4. /\ client' \in ClientState /\ client'.pc = "done" /\ client'.stdout = client.stdout
        /\ client'.stderr = client.stderr /\ client'.exit_status = client.exit_status
        /\ client'.result = v
    BY <1>1, <2>2, <2>3 DEF ClientState
  <2> QED  BY <2>4 DEF v
<1>4. Typed'
  BY <1>1, <1>2, <1>3, ClientTyped DEF TypeOK, MuxTypeOK
<1>5. OutFlows' /\ ErrFlows'
  <2>1. CASE to_task'["client"] = to_task["client"]
    BY <1>3, <2>1, OutputStays
  <2>2. CASE Takes /\ ~Payload(Head(to_task["client"]))
    BY <1>3, <2>2, OutputTaken DEF Payload, Shown
  <2> QED  BY <2>1, <2>2
<1>6. Final(client.exit_status)' /\ Final(client.result)'
  <2>1. Final(client.exit_status) /\ "missing" \notin Status /\ "none" \notin Status
    BY SessionAssumption DEF IInv
  <2>2. child' = child
    BY DEF ClientFrame
  <2> QED  BY <1>3, <2>1, <2>2 DEF Final
<1>7. Pumping(client'.pc) /\ ~Early'
  BY <1>3 DEF Pumping, Early
<1>8. Proper(Plain("close")) /\ ~AsksStart(Plain("close"))
  BY Made DEF Proper, AsksStart
<1> QED  BY <1>2, <1>3, <1>4, <1>5, <1>6, <1>7, <1>8, ClientStep

\* Its first requests.
LEMMA AsksKeeps ==
    ASSUME IInv, ClientAsks PROVE IInv'
<1> DEFINE pty == job.pty /\ client.pc = "start"
           k == IF pty THEN "pty-req" ELSE job.start
           m == Request(k, TRUE)
<1>1. Typed /\ LoopTyped /\ TypeOK /\ client \in ClientState /\ job \in Job
  BY StateTypes, SessionAssumption DEF IInv, TypeOK
<1>2. job.start \in Start /\ k \in RequestKinds
  BY <1>1, SessionAssumption DEF Job
<1>3. /\ client' = [client EXCEPT !.pc = IF pty THEN "await_pty" ELSE "await_start"]
      /\ Command("client", <<m>>) /\ UNCHANGED <<to_task, credit>> /\ ClientOnly
      /\ client.pc \in {"start", "granted_pty"}
  BY DEF ClientAsks
<1>4. m \in MuxMsg /\ Proper(m) /\ (AsksStart(m) => ~pty)
  <2>1. m \in MuxMsg /\ m.want_reply = TRUE /\ m.kind = k /\ m.type = "request"
    BY <1>2, Made
  <2>2. "pty-req" \notin Start
    BY DEF Start
  <2> HIDE DEF m
  <2> QED  BY <2>1, <2>2 DEF AsksStart, Proper
<1> HIDE DEF pty, m
<1>5. ClientFrame /\ cmds' \in [End -> Seq(MuxMsg)]
      /\ Elems(cmds'["client"]) \subseteq Elems(cmds["client"]) \cup {m}
  BY <1>1, <1>3, <1>4, CommandedOne, TwoEnds DEF ClientOnly, ClientFrame
<1>6. /\ client' \in ClientState /\ client'.stdout = client.stdout /\ client'.stderr = client.stderr
      /\ client'.pc = (IF pty THEN "await_pty" ELSE "await_start")
      /\ client'.exit_status = client.exit_status /\ client'.result = client.result
  BY <1>1, <1>3 DEF ClientState
<1>7. Typed'
  BY <1>1, <1>3, <1>5, <1>6, ClientTyped DEF TypeOK, MuxTypeOK
<1>8. OutFlows' /\ ErrFlows' /\ Early /\ (Early' => pty)
  BY <1>3, <1>5, <1>6, OutputStays DEF Early
<1>9. Final(client.exit_status)' /\ Final(client.result)'
  BY <1>5, <1>6 DEF IInv, Final, ClientFrame
<1>10. \A n \in Elems(cmds'["client"]) : n \in Elems(cmds["client"]) \/
           (Proper(n) /\ (AsksStart(n) => ~Early'))
  BY <1>4, <1>5, <1>8
<1> QED  BY <1>3, <1>5, <1>6, <1>7, <1>8, <1>9, <1>10, ClientStep

\* While it awaits its reply there is no output in its queue to lose.
LEMMA AwaitsKeeps ==
    ASSUME IInv, ClientAwaits PROVE IInv'
<1> DEFINE m == Received("client")  ok == m.type = "reply" /\ m.ok
<1>1. Typed /\ LoopTyped /\ TypeOK /\ client \in ClientState /\ "client" \in End
  BY StateTypes DEF IInv, TypeOK, End
<1>2. /\ client.pc \in {"await_pty", "await_start"} /\ Ready("client") /\ Recv("client")
      /\ credit' = credit /\ ClientOnly
  BY DEF ClientAwaits
<1>3. /\ to_task' \in [End -> Seq(MuxMsg)] /\ to_task'["server"] = to_task["server"]
      /\ \/ Takes /\ m = Head(to_task["client"]) /\ m \in MuxMsg
         \/ to_task'["client"] = to_task["client"] /\ m = Plain("close")
  BY <1>1, <1>2, Recvd, TwoEnds DEF Takes
<1>4. \/ /\ ok \/ m.type \notin {"reply", "close"}
         /\ client' = [client EXCEPT !.pc = IF ~ok THEN client.pc
                          ELSE IF client.pc = "await_pty" THEN "granted_pty" ELSE "pump"]
         /\ cmds' = cmds
      \/ Deliver("none") /\ m.type \in {"reply", "close"}
  BY DEF ClientAwaits
<1>5. Takes => ~Payload(m)
  <2>1. SUFFICES ASSUME Takes, m = Head(to_task["client"]) PROVE ~Payload(m)
    <3>1. Plain("close").type = "close"
      BY DEF Plain
    <3> QED  BY <1>3, <3>1 DEF Payload
  <2>2. Guarded(to_task["client"], Pumping(client.pc)) /\ ~Pumping(client.pc)
    BY <1>2 DEF IInv, GrantFirst, Granted, Pumping
  <2>3. to_task["client"] \in Seq(MuxMsg) /\ to_task["client"] # <<>> /\ Pumping(client.pc) \in BOOLEAN
    BY <1>1, <2>1, LoopTypes DEF Takes, Pumping
  <2> HIDE DEF m
  <2> QED  BY <2>1, <2>2, <2>3, GuardedLess
<1> HIDE DEF m
<1>6. CASE Deliver("none")
  <2>1. /\ \/ to_task'["client"] = to_task["client"]
           \/ Takes /\ ~Payload(Head(to_task["client"]))
    BY <1>3, <1>5
  <2>2. ClientFrame
    <3>1. cmds'["server"] = cmds["server"]
      BY <1>1, <1>6, CommandedOne, Made, TwoEnds DEF Deliver
    <3> QED  BY <1>2, <1>3, <3>1 DEF ClientFrame, ClientOnly
  <2> QED  BY <1>2, <1>3, <1>6, <2>1, <2>2, Delivers
<1>7. CASE /\ ok \/ m.type \notin {"reply", "close"}
           /\ client' = [client EXCEPT !.pc = IF ~ok THEN client.pc
                            ELSE IF client.pc = "await_pty" THEN "granted_pty" ELSE "pump"]
           /\ cmds' = cmds
  <2>1. ClientFrame
    BY <1>2, <1>3, <1>7 DEF ClientFrame, ClientOnly
  <2>2. Takes /\ m = Head(to_task["client"])
    <3>1. Plain("close").type = "close"
      BY DEF Plain
    <3> QED  BY <1>3, <1>7, <3>1
  <2>3. /\ client' \in ClientState /\ client'.stdout = client.stdout /\ client'.stderr = client.stderr
        /\ client'.pc = (IF ~ok THEN client.pc
                         ELSE IF client.pc = "await_pty" THEN "granted_pty" ELSE "pump")
        /\ client'.exit_status = client.exit_status /\ client'.result = client.result
    <3> HIDE DEF ok
    <3> QED  BY <1>1, <1>2, <1>7 DEF ClientState
  <2>4. Typed'
    BY <1>1, <1>2, <1>3, <1>7, <2>1, <2>3, ClientTyped DEF TypeOK, MuxTypeOK
  <2>5. OutFlows' /\ ErrFlows'
    BY <1>5, <2>1, <2>2, <2>3, OutputTaken DEF Payload, Shown
  <2>6. Final(client.exit_status)' /\ Final(client.result)'
    BY <2>1, <2>3 DEF IInv, Final, ClientFrame
  <2>7. /\ Early' => Early
        /\ \/ Pumping(client'.pc) \/ Early
           \/ client'.pc = client.pc /\ Head(to_task["client"]).type # "reply"
        /\ client'.pc # "sending"
    BY <1>2, <1>7, <2>2, <2>3 DEF Early, Pumping
  <2>8. Elems(cmds'["client"]) = Elems(cmds["client"])
    BY <1>7
  <2> QED  BY <2>1, <2>2, <2>4, <2>5, <2>6, <2>7, <2>8, ClientStep
<1> QED  BY <1>4, <1>6, <1>7

\* A step of the pump that takes no event.
LEMMA PumpStep ==
    ASSUME IInv, ClientFrame, to_task' = to_task, credit' \in [End -> 0..Ceiling],
           cmds' \in [End -> Seq(MuxMsg)], client' \in ClientState,
           client'.pc \in {"pump", "sending"}, client'.pc = "sending" => client'.buf # <<>>,
           client'.stdout = client.stdout, client'.stderr = client.stderr,
           client'.exit_status = client.exit_status, client'.result = client.result,
           \A m \in Elems(cmds'["client"]) : m \in Elems(cmds["client"]) \/
               (Proper(m) /\ ~AsksStart(m))
    PROVE  IInv'
<1>1. Typed /\ to_task \in [End -> Seq(MuxMsg)]
  BY StateTypes DEF IInv, TypeOK, MuxTypeOK
<1>2. Typed'
  BY <1>1, ClientTyped
<1>3. OutFlows' /\ ErrFlows'
  BY OutputStays
<1>4. Final(client.exit_status)' /\ Final(client.result)'
  BY DEF IInv, Final, ClientFrame
<1>5. Pumping(client'.pc) /\ ~Early'
  BY DEF Pumping, Early
<1> QED  BY <1>2, <1>3, <1>4, <1>5, ClientStep

\* Stdin is read ...
LEMMA ReadsKeeps ==
    ASSUME IInv, ClientReads PROVE IInv'
<1>1. Typed /\ LoopTyped /\ TypeOK /\ client \in ClientState /\ job \in Job
  BY StateTypes, SessionAssumption DEF IInv, TypeOK
<1>2. PICK n \in 1..MaxChunk["client"] :
          /\ client.read + n <= job.input
          /\ client' = [client EXCEPT !.pc = "sending", !.read = @ + n,
                                      !.buf = [i \in 1..n |-> client.read + i]]
  BY DEF ClientReads
<1>3. UNCHANGED <<to_task, credit, cmds>> /\ ClientOnly
  BY DEF ClientReads
<1>4. n \in Nat /\ client.read \in 0..job.input /\ job.input \in Nat
  <2>1. MaxChunk["client"] \in Nat
    BY MuxAssumption DEF End
  <2>2. job.input \in Nat
    BY <1>1 DEF Job
  <2>3. client.read \in 0..job.input
    BY <1>1 DEF ClientState
  <2> QED  BY <2>1, <2>2, <2>3
<1>5. client.read + n \in 0..job.input
  BY <1>2, <1>4
<1> DEFINE b == [i \in 1..n |-> client.read + i]
<1>6. b \in Seq(Nat) /\ b # <<>>
  <2>1. \A i \in 1..n : client.read + i \in Nat
    BY <1>4
  <2>2. b \in Seq(Nat) /\ Len(b) = n
    BY <1>4, <2>1
  <2>3. n # 0
    BY <1>2
  <2> HIDE DEF b
  <2> QED  BY <2>2, <2>3
<1>7. client' = [client EXCEPT !.pc = "sending", !.read = client.read + n, !.buf = b]
  BY <1>2
<1> HIDE DEF b
<1>8. /\ client' \in ClientState /\ client'.stdout = client.stdout /\ client'.stderr = client.stderr
      /\ client'.pc = "sending" /\ client'.buf # <<>>
      /\ client'.exit_status = client.exit_status /\ client'.result = client.result
  BY <1>1, <1>5, <1>6, <1>7 DEF ClientState
<1>9. ClientFrame /\ credit' \in [End -> 0..Ceiling] /\ cmds' \in [End -> Seq(MuxMsg)]
      /\ Elems(cmds'["client"]) = Elems(cmds["client"])
  BY <1>1, <1>3 DEF ClientFrame, ClientOnly, TypeOK, MuxTypeOK
<1> QED  BY <1>3, <1>8, <1>9, PumpStep

\* ... its end is passed on ...
LEMMA StdinEndsKeeps ==
    ASSUME IInv, ClientStdinEnds PROVE IInv'
<1>1. Typed /\ LoopTyped /\ TypeOK /\ client \in ClientState /\ Plain("eof") \in MuxMsg
      /\ Proper(Plain("eof")) /\ ~AsksStart(Plain("eof"))
  BY StateTypes, Made DEF IInv, TypeOK, Proper, AsksStart
<1>2. /\ client' = [client EXCEPT !.stdin_done = TRUE] /\ Command("client", <<Plain("eof")>>)
      /\ UNCHANGED <<to_task, credit>> /\ ClientOnly /\ client.pc = "pump"
  BY DEF ClientStdinEnds
<1>3. /\ client' \in ClientState /\ client'.stdout = client.stdout /\ client'.stderr = client.stderr
      /\ client'.pc = "pump"
      /\ client'.exit_status = client.exit_status /\ client'.result = client.result
  BY <1>1, <1>2 DEF ClientState
<1>4. /\ ClientFrame /\ credit' \in [End -> 0..Ceiling] /\ cmds' \in [End -> Seq(MuxMsg)]
      /\ Elems(cmds'["client"]) \subseteq Elems(cmds["client"]) \cup {Plain("eof")}
  BY <1>1, <1>2, CommandedOne, TwoEnds DEF ClientFrame, ClientOnly, TypeOK, MuxTypeOK
<1> QED  BY <1>1, <1>2, <1>3, <1>4, PumpStep

\* The most that is sent at once.
LEMMA ChunkSize ==
    ASSUME NEW e \in End PROVE remote_max(e) \in Nat \ {0}
<1> DEFINE a == Smaller(MaxChunk[Peer(e)], MaxChunk[e])
<1>1. a \in Nat
  BY SmallerOf, MuxAssumption, TwoEnds
<1> HIDE DEF a
<1>2. CASE a <= 1
  <2>1. \A x \in {1, a} : (\A y \in {1, a} : x >= y) => x = 1
    BY <1>1, <1>2
  <2>2. \A y \in {1, a} : 1 >= y
    BY <1>1, <1>2
  <2> QED  BY <2>1, <2>2 DEF remote_max, Max, a
<1>3. CASE ~(a <= 1)
  <2>1. \A x \in {1, a} : (\A y \in {1, a} : x >= y) => x = a
    BY <1>1, <1>3
  <2>2. \A y \in {1, a} : a >= y
    BY <1>1, <1>3
  <2>3. Max({1, a}) = a
    BY <2>1, <2>2 DEF Max
  <2> QED  BY <1>1, <1>3, <2>3 DEF remote_max, a
<1> QED  BY <1>2, <1>3

\* A sequence cut in two.
LEMMA CutInTwo ==
    ASSUME NEW s \in Seq(Nat), NEW n \in Nat
    PROVE  /\ Upto(s, n) \in Seq(Nat) /\ After(s, n) \in Seq(Nat)
           /\ Len(Upto(s, n)) = (IF n <= Len(s) THEN n ELSE Len(s))
           /\ Len(After(s, n)) = (IF n <= Len(s) THEN Len(s) - n ELSE 0)
           /\ \A k \in 1..Len(Upto(s, n)) : Upto(s, n)[k] = s[k]
           /\ \A k \in 1..Len(After(s, n)) : After(s, n)[k] = s[n + k]
<1>1. Len(s) \in Nat /\ Smaller(n, Len(s)) = (IF n <= Len(s) THEN n ELSE Len(s))
  BY SmallerOf
<1>2. \A m \in Nat : m <= Len(s) => /\ SubSeq(s, 1, m) \in Seq(Nat)
                                    /\ Len(SubSeq(s, 1, m)) = m
                                    /\ \A k \in 1..m : SubSeq(s, 1, m)[k] = s[k]
  BY <1>1
<1>3. /\ SubSeq(s, n + 1, Len(s)) \in Seq(Nat)
      /\ Len(SubSeq(s, n + 1, Len(s))) = (IF n <= Len(s) THEN Len(s) - n ELSE 0)
      /\ \A k \in 1..(Len(s) - n) : SubSeq(s, n + 1, Len(s))[k] = s[n + k]
  BY <1>1
<1> QED  BY <1>1, <1>2, <1>3 DEF Upto, After

\* Where a cut falls within a stretch.
LEMMA Within ==
    ASSUME NEW a \in Nat, NEW i \in Nat, NEW j \in Nat, NEW l \in Nat, NEW t \in Nat,
           i + j = l, a + l <= t
    PROVE  a + i \in 0..t /\ (a + i) + j = a + l
OBVIOUS

\* The two parts of a stretch that is cut in two are stretches.
LEMMA PieceCut ==
    ASSUME NEW w \in Seq(Nat), NEW s \in Seq(Nat), NEW a \in Nat, Piece(w, s, a), NEW n \in Nat,
           NEW x, x = Upto(w, n), NEW y, y = After(w, n), NEW b, b = a + Len(x)
    PROVE  /\ Piece(x, s, a) /\ Piece(y, s, b) /\ b \in 0..Len(s)
           /\ b + Len(y) = a + Len(w) /\ x \in Seq(Nat) /\ y \in Seq(Nat)
<1> DEFINE i == Len(x)  j == Len(y)  l == Len(w)  t == Len(s)
<1>1. /\ x \in Seq(Nat) /\ y \in Seq(Nat) /\ l \in Nat /\ t \in Nat
      /\ i = (IF n <= l THEN n ELSE l) /\ j = (IF n <= l THEN l - n ELSE 0)
      /\ \A k \in 1..i : x[k] = w[k]
      /\ \A k \in 1..j : y[k] = w[n + k]
  <2>1. /\ Upto(w, n) \in Seq(Nat) /\ After(w, n) \in Seq(Nat)
        /\ Len(Upto(w, n)) = (IF n <= Len(w) THEN n ELSE Len(w))
        /\ Len(After(w, n)) = (IF n <= Len(w) THEN Len(w) - n ELSE 0)
        /\ \A k \in 1..Len(Upto(w, n)) : Upto(w, n)[k] = w[k]
        /\ \A k \in 1..Len(After(w, n)) : After(w, n)[k] = w[n + k]
    BY CutInTwo
  <2>2. l \in Nat /\ t \in Nat
    OBVIOUS
  <2> QED  BY <2>1, <2>2
<1>2. a + l <= t /\ (\A k \in 1..l : w[k] = s[a + k]) /\ b = a + i
  BY DEF Piece
<1> HIDE DEF i, j, l, t
<1>3. i \in Nat /\ j \in Nat /\ i + j = l /\ b \in 0..t /\ b + j = a + l
  <2>1. l \in Nat /\ t \in Nat /\ a + l <= t /\ b = a + i
    BY <1>1, <1>2
  <2>2. i \in Nat /\ j \in Nat /\ i + j = l
    <3>1. CASE n <= l
      <4>1. i = n /\ j = l - n
        BY <1>1, <3>1
      <4> QED  BY <2>1, <3>1, <4>1
    <3>2. CASE ~(n <= l)
      <4>1. i = l /\ j = 0
        BY <1>1, <3>2
      <4> QED  BY <2>1, <4>1
    <3> QED  BY <3>1, <3>2
  <2>3. a + i \in 0..t /\ (a + i) + j = a + l
    BY <2>1, <2>2, Within
  <2> QED  BY <2>1, <2>2, <2>3
<1>4. ASSUME NEW k \in 1..i PROVE x[k] = s[a + k]
  BY <1>1, <1>2, <1>3
<1>5. ASSUME NEW k \in 1..j PROVE y[k] = s[b + k]
  <2>1. n <= l /\ i = n
    BY <1>1, <1>3
  <2>2. n + k \in 1..l /\ a + (n + k) = b + k
    <3>1. i \in Nat /\ j \in Nat /\ i + j = l /\ i = n /\ b = a + i
      BY <1>2, <1>3, <2>1
    <3> QED  BY <3>1, SMTT(60)
  <2>3. y[k] = w[n + k] /\ w[n + k] = s[a + (n + k)]
    BY <1>1, <1>2, <2>2
  <2> QED  BY <2>2, <2>3
<1>6. a + i <= t /\ b + j <= t
  BY <1>1, <1>2, <1>3
<1> QED  BY <1>1, <1>3, <1>4, <1>5, <1>6 DEF Piece, i, j, l, t

\* One round of send_credited.
LEMMA Credited ==
    ASSUME LoopTyped, NEW e \in End, NEW kind \in Kinds, NEW buf \in Seq(Nat),
           SendCredited(e, kind, buf)
    PROVE  /\ credit' \in [End -> 0..Ceiling] /\ Upto(buf, remote_max(e)) \in Seq(Nat)
           /\ Command(e, <<Bytes(kind, Upto(buf, remote_max(e)))>>)
           /\ Bytes(kind, Upto(buf, remote_max(e))) \in MuxMsg
           /\ Bytes(kind, Upto(buf, remote_max(e))).type = kind
           /\ Bytes(kind, Upto(buf, remote_max(e))).bytes = Upto(buf, remote_max(e))
<1> DEFINE c == Upto(buf, remote_max(e))
<1>1. c \in Seq(Nat)
  BY ChunkSize, CutInTwo
<1>2. Bytes(kind, c) \in MuxMsg /\ Bytes(kind, c).type = kind /\ Bytes(kind, c).bytes = c
  BY <1>1, Made DEF Kinds
<1>3. CanSpend(e, Len(c)) /\ Spend(e, Len(c)) /\ Command(e, <<Bytes(kind, c)>>)
  BY DEF SendCredited
<1> HIDE DEF c
<1>4. Len(c) \in Nat /\ Ceiling \in Nat /\ credit \in [End -> 0..Ceiling]
  <2>1. Len(c) \in Nat
    BY <1>1
  <2>2. Ceiling \in Nat
    BY MuxAssumption
  <2>3. credit \in [End -> 0..Ceiling]
    BY LoopTypes
  <2> QED  BY <2>1, <2>2, <2>3
<1>5. credit[e] - Len(c) \in 0..Ceiling
  BY <1>3, <1>4 DEF CanSpend
<1>6. credit' = [credit EXCEPT ![e] = credit[e] - Len(c)]
  BY <1>3 DEF Spend
<1>7. credit' \in [End -> 0..Ceiling]
  BY <1>4, <1>5, <1>6
<1> QED  BY <1>1, <1>2, <1>3, <1>7 DEF c

\* ... and it is sent.
LEMMA SendsKeeps ==
    ASSUME IInv, ClientSends PROVE IInv'
<1> DEFINE rest == After(client.buf, remote_max("client"))
           m == Bytes("data", Upto(client.buf, remote_max("client")))
<1>1. /\ Typed /\ LoopTyped /\ TypeOK /\ client \in ClientState /\ client.buf \in Seq(Nat)
      /\ "client" \in End /\ "data" \in Kinds
      /\ client.pc = "sending" => client.buf # <<>>
  BY StateTypes DEF IInv, Filled, TypeOK, End, Kinds
<1>2. /\ SendCredited("client", "data", client.buf)
      /\ client' = [client EXCEPT !.buf = rest, !.pc = IF rest = <<>> THEN "pump" ELSE client.pc]
      /\ UNCHANGED to_task /\ ClientOnly /\ client.pc = "sending"
  BY DEF ClientSends
<1>3. credit' \in [End -> 0..Ceiling] /\ Command("client", <<m>>) /\ m \in MuxMsg /\ m.type = "data"
      /\ m.bytes = Upto(client.buf, remote_max("client"))
  BY <1>1, <1>2, Credited
<1>4. rest \in Seq(Nat) /\ Proper(m) /\ ~AsksStart(m)
  <2>1. remote_max("client") \in Nat \ {0} /\ Len(client.buf) # 0
    BY <1>1, <1>2, ChunkSize
  <2>2. /\ rest \in Seq(Nat)
        /\ Len(Upto(client.buf, remote_max("client"))) =
             (IF remote_max("client") <= Len(client.buf) THEN remote_max("client") ELSE Len(client.buf))
    BY <1>1, <2>1, CutInTwo
  <2>3. Upto(client.buf, remote_max("client")) # <<>>
    BY <2>1, <2>2
  <2> HIDE DEF m
  <2> QED  BY <1>3, <2>2, <2>3 DEF Proper, AsksStart
<1> HIDE DEF rest, m
<1>5. /\ client' \in ClientState /\ client'.stdout = client.stdout /\ client'.stderr = client.stderr
      /\ client'.pc \in {"pump", "sending"} /\ (client'.pc = "sending" => client'.buf # <<>>)
      /\ client'.exit_status = client.exit_status /\ client'.result = client.result
  BY <1>1, <1>2, <1>4 DEF ClientState
<1>6. /\ ClientFrame /\ cmds' \in [End -> Seq(MuxMsg)]
      /\ Elems(cmds'["client"]) \subseteq Elems(cmds["client"]) \cup {m}
  BY <1>1, <1>2, <1>3, CommandedOne, TwoEnds, ZenonT(60) DEF ClientFrame, ClientOnly
<1> QED  BY <1>2, <1>3, <1>4, <1>5, <1>6, PumpStep

\* The pump ends when the semaphore is closed.
LEMMA CreditClosedKeeps ==
    ASSUME IInv, ClientCreditClosed PROVE IInv'
<1>1. /\ Deliver(client.exit_status) /\ UNCHANGED <<to_task, credit>> /\ ClientOnly
  BY DEF ClientCreditClosed
<1>2. Typed /\ LoopTyped /\ TypeOK /\ to_task \in [End -> Seq(MuxMsg)]
  BY StateTypes DEF IInv, TypeOK, MuxTypeOK
<1>3. ClientFrame
  <2>1. cmds'["server"] = cmds["server"]
    BY <1>1, <1>2, CommandedOne, Made, TwoEnds DEF Deliver
  <2> QED  BY <1>1, <2>1 DEF ClientFrame, ClientOnly
<1> QED  BY <1>1, <1>2, <1>3, Delivers


\* What is complete stays so: there is nothing left to show.
LEMMA CompleteStays ==
    ASSUME NEW seen \in Seq(Nat), NEW s \in Seq(Nat), NEW kind \in Kinds, NEW m \in MuxMsg,
           NEW new, new = Shown(kind, seen, m), Piece(new, s, 0), Complete(seen, s)
    PROVE  Complete(new, s)
<1>1. CASE m.type = kind
  <2>1. m.bytes \in Seq(Nat)
    BY <1>1, MessageFacts DEF Kinds
  <2>2. Len(new) = Len(seen) + Len(m.bytes) /\ Len(m.bytes) \in Nat
    BY <1>1, <2>1 DEF Shown
  <2>3. Len(new) <= Len(s) /\ Len(seen) = Len(s) /\ Len(s) \in Nat
    BY <2>2 DEF Piece, Complete
  <2> QED  BY <2>2, <2>3 DEF Complete
<1>2. CASE m.type # kind
  BY <1>2 DEF Shown
<1> QED  BY <1>1, <1>2

\* A message is taken in the pump and the pump goes on.
LEMMA TakeStep ==
    ASSUME IInv, ClientFrame, Takes, NEW m \in MuxMsg, m = Head(to_task["client"]),
           credit' = credit, to_task' \in [End -> Seq(MuxMsg)],
           cmds' \in [End -> Seq(MuxMsg)], client' \in ClientState,
           client'.pc = "pump", client'.result = client.result,
           client'.stdout = Shown("data", client.stdout, m),
           client'.stderr = Shown("ext", client.stderr, m),
           \/ client'.exit_status = client.exit_status
           \/ m.type = "request" /\ client'.exit_status = m.kind,
           \A n \in Elems(cmds'["client"]) : n \in Elems(cmds["client"]) \/ n.type = "consumed"
    PROVE  IInv'
<1>1. Typed /\ credit \in [End -> 0..Ceiling] /\ child' = child
  BY StateTypes DEF IInv, TypeOK, MuxTypeOK, ClientFrame
<1>2. Typed'
  BY <1>1, ClientTyped
<1>3. /\ OutFlows' /\ ErrFlows'
      /\ m.type = "request" => /\ Complete(client.stdout, child.out)
                               /\ Complete(client.stderr, child.err)
  BY OutputTaken
<1>4. /\ Final(client.exit_status) /\ Final(client.result) /\ StatusTrue
  BY DEF IInv
<1>5. Complete(client.stdout, child.out) => Complete(client'.stdout, child'.out)
  <2>1. Piece(client'.stdout, child.out, 0)
    BY <1>1, <1>3 DEF OutFlows, Flowing, Flow
  <2>2. client.stdout \in Seq(Nat) /\ child.out \in Seq(Nat) /\ "data" \in Kinds
    BY <1>1, StateTypes DEF Kinds
  <2> DEFINE seen == client.stdout  s == child.out  new == client'.stdout
  <2>3. new = Shown("data", seen, m) /\ Piece(new, s, 0) /\ seen \in Seq(Nat) /\ s \in Seq(Nat)
    BY <2>1, <2>2
  <2> HIDE DEF seen, s, new
  <2>4. Complete(seen, s) => Complete(new, s)
    BY <2>2, <2>3, CompleteStays
  <2> QED  BY <1>1, <2>4 DEF seen, s, new
<1>6. Complete(client.stderr, child.err) => Complete(client'.stderr, child'.err)
  <2>1. Piece(client'.stderr, child.err, 0)
    BY <1>1, <1>3 DEF ErrFlows, Flowing, Flow
  <2>2. client.stderr \in Seq(Nat) /\ child.err \in Seq(Nat) /\ "ext" \in Kinds
    BY <1>1, StateTypes DEF Kinds
  <2> DEFINE seen == client.stderr  s == child.err  new == client'.stderr
  <2>3. new = Shown("ext", seen, m) /\ Piece(new, s, 0) /\ seen \in Seq(Nat) /\ s \in Seq(Nat)
    BY <2>1, <2>2
  <2> HIDE DEF seen, s, new
  <2>4. Complete(seen, s) => Complete(new, s)
    BY <2>2, <2>3, CompleteStays
  <2> QED  BY <1>1, <2>4 DEF seen, s, new
<1>7. Final(client.result)'
  BY <1>1, <1>4, <1>5, <1>6 DEF Final
<1>8. Final(client.exit_status)'
  <2>1. CASE client'.exit_status = client.exit_status
    BY <1>1, <1>4, <1>5, <1>6, <2>1 DEF Final
  <2>2. CASE m.type = "request" /\ client'.exit_status = m.kind
    <3>1. m \in Sent("server")
      <4>1. to_task["client"] \in Seq(MuxMsg) /\ to_task["client"] # <<>>
        BY <1>1, StateTypes DEF Queue, Takes
      <4> QED  BY <4>1, ElemsLess, TwoEnds DEF Sent
    <3>2. child.state = "exited" /\ m.kind = child.status
      BY <1>4, <2>2, <3>1 DEF StatusTrue
    <3> QED  BY <1>1, <1>3, <1>5, <1>6, <2>2, <3>2 DEF Final
  <2> QED  BY <2>1, <2>2
<1>9. Pumping(client'.pc) /\ ~Early'
  BY DEF Pumping, Early
<1>10. \A n : n.type = "consumed" => Proper(n)
  BY DEF Proper
<1> QED  BY <1>2, <1>3, <1>7, <1>8, <1>9, <1>10, ClientStep

\* What comes is written out, noted or passed over; a close ends the task.
LEMMA RecvKeeps ==
    ASSUME IInv, ClientRecv PROVE IInv'
<1> DEFINE m == Received("client")
<1>1. Typed /\ LoopTyped /\ TypeOK /\ client \in ClientState /\ "client" \in End
  BY StateTypes DEF IInv, TypeOK, End
<1>2. /\ client.pc = "pump" /\ Ready("client") /\ Recv("client")
      /\ credit' = credit /\ ClientOnly
  BY DEF ClientRecv
<1>3. /\ to_task' \in [End -> Seq(MuxMsg)] /\ to_task'["server"] = to_task["server"]
      /\ \/ Takes /\ m = Head(to_task["client"]) /\ m \in MuxMsg
         \/ to_task'["client"] = to_task["client"] /\ m = Plain("close")
  BY <1>1, <1>2, Recvd, TwoEnds DEF Takes
<1>4. \/ m.type = "close" /\ Deliver(client.exit_status)
      \/ /\ m.type = "data" /\ client' = [client EXCEPT !.stdout = client.stdout \o m.bytes]
         /\ Command("client", <<Amount("consumed", Len(m.bytes))>>)
      \/ /\ m.type = "ext" /\ client' = [client EXCEPT !.stderr = client.stderr \o m.bytes]
         /\ Command("client", <<Amount("consumed", Len(m.bytes))>>)
      \/ /\ m.type = "request" /\ cmds' = cmds
         /\ client' = [client EXCEPT !.exit_status =
                          IF m.kind \in Status THEN m.kind ELSE client.exit_status]
      \/ m.type \in {"eof", "reply"} /\ client' = client /\ cmds' = cmds
  BY DEF ClientRecv
<1>5. Plain("close").type = "close"
  BY DEF Plain
<1> HIDE DEF m
<1>6. CASE m.type = "close" /\ Deliver(client.exit_status)
  <2>1. \/ to_task'["client"] = to_task["client"]
        \/ Takes /\ ~Payload(Head(to_task["client"]))
    BY <1>3, <1>6 DEF Payload
  <2>2. ClientFrame
    <3>1. cmds'["server"] = cmds["server"]
      BY <1>1, <1>6, CommandedOne, Made, TwoEnds DEF Deliver
    <3> QED  BY <1>2, <1>3, <3>1 DEF ClientFrame, ClientOnly
  <2> QED  BY <1>2, <1>3, <1>6, <2>1, <2>2, Delivers
<1>7. ASSUME m.type # "close"
      PROVE  Takes /\ m = Head(to_task["client"]) /\ m \in MuxMsg
  BY <1>3, <1>5, <1>7
<1>8. ASSUME m.type # "close", cmds' \in [End -> Seq(MuxMsg)], cmds'["server"] = cmds["server"],
             client' \in ClientState, client'.pc = "pump", client'.result = client.result,
             client'.stdout = Shown("data", client.stdout, m),
             client'.stderr = Shown("ext", client.stderr, m),
             \/ client'.exit_status = client.exit_status
             \/ m.type = "request" /\ client'.exit_status = m.kind,
             \A n \in Elems(cmds'["client"]) : n \in Elems(cmds["client"]) \/ n.type = "consumed"
      PROVE  IInv'
  <2>1. ClientFrame
    BY <1>2, <1>3, <1>8 DEF ClientFrame, ClientOnly
  <2> QED  BY <1>2, <1>3, <1>7, <1>8, <2>1, TakeStep
<1>9. ASSUME m.type \in {"data", "ext"}, Command("client", <<Amount("consumed", Len(m.bytes))>>)
      PROVE  /\ m.bytes \in Seq(Nat)
             /\ cmds' \in [End -> Seq(MuxMsg)] /\ cmds'["server"] = cmds["server"]
             /\ \A n \in Elems(cmds'["client"]) : n \in Elems(cmds["client"]) \/ n.type = "consumed"
  <2>1. m.bytes \in Seq(Nat)
    BY <1>7, <1>9, MessageFacts
  <2> DEFINE a == Amount("consumed", Len(m.bytes))
  <2>2. a \in MuxMsg /\ a.type = "consumed"
    BY <2>1, Made
  <2>3. Command("client", <<a>>)
    BY <1>9
  <2> HIDE DEF a
  <2>4. /\ cmds' \in [End -> Seq(MuxMsg)] /\ cmds'["server"] = cmds["server"]
        /\ Elems(cmds'["client"]) \subseteq Elems(cmds["client"]) \cup {a}
    BY <1>1, <2>2, <2>3, CommandedOne, TwoEnds
  <2> QED  BY <2>1, <2>2, <2>4
<1>10. CASE /\ m.type = "data" /\ client' = [client EXCEPT !.stdout = client.stdout \o m.bytes]
            /\ Command("client", <<Amount("consumed", Len(m.bytes))>>)
  <2> DEFINE t == client.stdout \o m.bytes
  <2>1. t \in Seq(Nat)
    BY <1>1, <1>9, <1>10, StateTypes
  <2>2. t = Shown("data", client.stdout, m) /\ client.stderr = Shown("ext", client.stderr, m)
    BY <1>10 DEF Shown
  <2>3. client' = [client EXCEPT !.stdout = t]
    BY <1>10
  <2> HIDE DEF t
  <2>4. /\ client' \in ClientState /\ client'.pc = "pump" /\ client'.result = client.result
        /\ client'.stdout = t /\ client'.stderr = client.stderr
        /\ client'.exit_status = client.exit_status
    BY <1>1, <1>2, <2>1, <2>3 DEF ClientState
  <2> QED  BY <1>8, <1>9, <1>10, <2>2, <2>4
<1>11. CASE /\ m.type = "ext" /\ client' = [client EXCEPT !.stderr = client.stderr \o m.bytes]
            /\ Command("client", <<Amount("consumed", Len(m.bytes))>>)
  <2> DEFINE t == client.stderr \o m.bytes
  <2>1. t \in Seq(Nat)
    BY <1>1, <1>9, <1>11, StateTypes
  <2>2. client.stdout = Shown("data", client.stdout, m) /\ t = Shown("ext", client.stderr, m)
    BY <1>11 DEF Shown
  <2>3. client' = [client EXCEPT !.stderr = t]
    BY <1>11
  <2> HIDE DEF t
  <2>4. /\ client' \in ClientState /\ client'.pc = "pump" /\ client'.result = client.result
        /\ client'.stdout = client.stdout /\ client'.stderr = t
        /\ client'.exit_status = client.exit_status
    BY <1>1, <1>2, <2>1, <2>3 DEF ClientState
  <2> QED  BY <1>8, <1>9, <1>11, <2>2, <2>4
<1>12. ASSUME cmds' = cmds
       PROVE  /\ cmds' \in [End -> Seq(MuxMsg)] /\ cmds'["server"] = cmds["server"]
              /\ \A n \in Elems(cmds'["client"]) : n \in Elems(cmds["client"]) \/ n.type = "consumed"
  BY <1>1, <1>12 DEF TypeOK, MuxTypeOK
<1>13. CASE /\ m.type = "request" /\ cmds' = cmds
            /\ client' = [client EXCEPT !.exit_status =
                             IF m.kind \in Status THEN m.kind ELSE client.exit_status]
  <2> DEFINE v == IF m.kind \in Status THEN m.kind ELSE client.exit_status
  <2>1. v \in Status \cup {"none"} /\ v \in {m.kind, client.exit_status}
    BY <1>1 DEF ClientState
  <2>2. client.stdout = Shown("data", client.stdout, m) /\ client.stderr = Shown("ext", client.stderr, m)
    BY <1>13 DEF Shown
  <2>3. client' = [client EXCEPT !.exit_status = v]
    BY <1>13
  <2> HIDE DEF v
  <2>4. /\ client' \in ClientState /\ client'.pc = "pump" /\ client'.result = client.result
        /\ client'.stdout = client.stdout /\ client'.stderr = client.stderr
        /\ client'.exit_status = v
    BY <1>1, <1>2, <2>1, <2>3 DEF ClientState
  <2> QED  BY <1>8, <1>12, <1>13, <2>1, <2>2, <2>4
<1>14. CASE m.type \in {"eof", "reply"} /\ client' = client /\ cmds' = cmds
  <2>1. client.stdout = Shown("data", client.stdout, m) /\ client.stderr = Shown("ext", client.stderr, m)
    BY <1>14 DEF Shown
  <2> QED  BY <1>1, <1>2, <1>8, <1>12, <1>14, <2>1
<1> QED  BY <1>4, <1>6, <1>10, <1>11, <1>13, <1>14

\* The client task keeps the invariant.
LEMMA ClientKeeps ==
    ASSUME IInv, ClientTask PROVE IInv'
BY AsksKeeps, AwaitsKeeps, RecvKeeps, ReadsKeeps, StdinEndsKeeps, SendsKeeps,
   CreditClosedKeeps DEF ClientTask


-----------------------------------------------------------------------------
(* The server task keeps the invariant.                                    *)

\* It says something that is not of the stream ...
LEMMA FlowAnswered ==
    ASSUME NEW kind \in Kinds, NEW busy, NEW seen, NEW pipe, NEW s \in Seq(Nat),
           NEW tq, NEW wq, NEW cq \in Queue, NEW o, NEW pc, NEW buf,
           Flow(kind, busy, seen, pipe, s, tq, wq, cq, o, pc, buf),
           NEW cq2, Sends(o) => Grown(cq, cq2), NEW pc2, NEW buf2,
           pc2 # "done" => pc # "done" /\ pc # busy /\ pc2 # busy
    PROVE  Flow(kind, busy, seen, pipe, s, tq, wq, cq2, o, pc2, buf2)
<1>1. PICK d, f \in 0..Len(s) :
          /\ Along(kind, s, Len(seen), d, tq, wq, cq, o)
          /\ Sends(o) /\ pc # "done" => Holding(busy, pipe, s, d, f, pc, buf)
  BY DEF Flow
<1>2. Along(kind, s, Len(seen), d, tq, wq, cq2, o)
  BY <1>1, AlongAnswered
<1>3. Sends(o) /\ pc2 # "done" => Holding(busy, pipe, s, d, f, pc2, buf2)
  BY <1>1 DEF Holding
<1> QED  BY <1>1, <1>2, <1>3 DEF Flow

\* ... or is of the other stream ...
LEMMA FlowOther ==
    ASSUME NEW kind \in Kinds, NEW busy, NEW seen, NEW pipe, NEW s \in Seq(Nat),
           NEW tq, NEW wq, NEW cq \in Queue, NEW o, NEW pc, NEW buf,
           Flow(kind, busy, seen, pipe, s, tq, wq, cq, o, pc, buf),
           NEW m \in MuxMsg, Silent(m, kind),
           NEW cq2, Sends(o) => cq2 = Append(cq, m), NEW pc2, NEW buf2,
           pc2 # "done" => pc # "done" /\ pc # busy /\ pc2 # busy
    PROVE  Flow(kind, busy, seen, pipe, s, tq, wq, cq2, o, pc2, buf2)
<1>1. PICK d, f \in 0..Len(s) :
          /\ Along(kind, s, Len(seen), d, tq, wq, cq, o)
          /\ Sends(o) /\ pc # "done" => Holding(busy, pipe, s, d, f, pc, buf)
  BY DEF Flow
<1>2. Fits(m, kind, s, d, d)
  BY DEF Fits, Silent
<1>3. Along(kind, s, Len(seen), d, tq, wq, cq2, o)
  BY <1>1, <1>2, AlongAsked
<1>4. Sends(o) /\ pc2 # "done" => Holding(busy, pipe, s, d, f, pc2, buf2)
  BY <1>1 DEF Holding
<1> QED  BY <1>1, <1>3, <1>4 DEF Flow

\* What is read at once, and what is left then.
LEMMA ReadAndLeft ==
    ASSUME NEW w \in Seq(Nat), NEW n \in Nat, NEW x, x = Upto(w, n)
    PROVE  x \in Seq(Nat) /\ Len(x) \in Nat /\ After(w, Len(x)) = After(w, n)
<1>1. x \in Seq(Nat) /\ Len(x) = (IF n <= Len(w) THEN n ELSE Len(w)) /\ Len(w) \in Nat
  BY CutInTwo
<1>2. CASE n <= Len(w)
  BY <1>1, <1>2
<1>3. CASE ~(n <= Len(w))
  <2>1. SubSeq(w, Len(w) + 1, Len(w)) = <<>> /\ SubSeq(w, n + 1, Len(w)) = <<>>
    BY <1>1, <1>3
  <2> QED  BY <1>1, <1>3, <2>1 DEF After
<1> QED  BY <1>2, <1>3

\* ... or reads from the pipe ...
LEMMA FlowRead ==
    ASSUME NEW kind \in Kinds, NEW busy, NEW seen, NEW pipe \in Seq(Nat), NEW s \in Seq(Nat),
           NEW tq, NEW wq, NEW cq, NEW o, NEW pc, NEW buf, pc # busy, pc # "done",
           Flow(kind, busy, seen, pipe, s, tq, wq, cq, o, pc, buf),
           NEW n \in Nat, NEW buf2, buf2 = Upto(pipe, n), NEW pipe2, pipe2 = After(pipe, Len(buf2))
    PROVE  Flow(kind, busy, seen, pipe2, s, tq, wq, cq, o, busy, buf2)
<1>1. PICK d, f \in 0..Len(s) :
          /\ Along(kind, s, Len(seen), d, tq, wq, cq, o)
          /\ Sends(o) => Holding(busy, pipe, s, d, f, pc, buf)
  BY DEF Flow
<1>2. /\ buf2 \in Seq(Nat) /\ Len(buf2) \in Nat /\ pipe2 = After(pipe, n)
  BY ReadAndLeft
<1>3. Piece(seen, s, 0)
  BY DEF Flow
<1>4. CASE ~Sends(o)
  BY <1>1, <1>3, <1>4 DEF Flow
<1>5. CASE Sends(o)
  <2>1. Piece(pipe, s, d) /\ d + Len(pipe) = Len(s) /\ d \in Nat
    BY <1>1, <1>5 DEF Holding
  <2> DEFINE g == d + Len(buf2)
  <2>2. /\ Piece(buf2, s, d) /\ Piece(pipe2, s, g) /\ g \in 0..Len(s)
        /\ g + Len(pipe2) = d + Len(pipe)
    BY <1>2, <2>1, PieceCut
  <2>3. Holding(busy, pipe2, s, d, g, busy, buf2)
    BY <2>1, <2>2 DEF Holding
  <2> HIDE DEF g
  <2> QED  BY <1>1, <1>3, <2>2, <2>3 DEF Flow
<1> QED  BY <1>4, <1>5

\* ... or hands over what it has read ...
LEMMA FlowSent ==
    ASSUME NEW kind \in Kinds, NEW busy, NEW seen, NEW pipe, NEW s \in Seq(Nat),
           NEW tq, NEW wq, NEW cq \in Queue, NEW o, NEW pc, NEW buf \in Seq(Nat),
           pc = busy, pc # "done",
           Flow(kind, busy, seen, pipe, s, tq, wq, cq, o, pc, buf),
           NEW n \in Nat, NEW m \in MuxMsg, m.type = kind, m.bytes = Upto(buf, n),
           NEW cq2, Sends(o) => cq2 = Append(cq, m),
           NEW buf2, buf2 = After(buf, n), NEW pc2, pc2 = busy \/ buf2 = <<>>
    PROVE  Flow(kind, busy, seen, pipe, s, tq, wq, cq2, o, pc2, buf2)
<1>1. PICK d, f \in 0..Len(s) :
          /\ Along(kind, s, Len(seen), d, tq, wq, cq, o)
          /\ Sends(o) => Holding(busy, pipe, s, d, f, pc, buf)
  BY DEF Flow
<1>2. Piece(seen, s, 0)
  BY DEF Flow
<1>3. CASE ~Sends(o)
  <2>1. Along(kind, s, Len(seen), d, tq, wq, cq2, o)
    BY <1>1, <1>3, AlongAnswered
  <2> QED  BY <1>1, <1>2, <1>3, <2>1 DEF Flow
<1>4. CASE Sends(o)
  <2>1. /\ f = d + Len(buf) /\ Piece(buf, s, d) /\ Piece(pipe, s, f) /\ f + Len(pipe) = Len(s)
        /\ d \in Nat
    BY <1>1, <1>4 DEF Holding
  <2> DEFINE c == m.bytes  g == d + Len(c)
  <2>2. /\ Piece(c, s, d) /\ Piece(buf2, s, g) /\ g \in 0..Len(s)
        /\ g + Len(buf2) = d + Len(buf) /\ g \in Nat
    BY <2>1, PieceCut
  <2>3. Fits(m, kind, s, d, g)
    BY <2>2 DEF Fits, Kinds
  <2> HIDE DEF c, g
  <2>4. Along(kind, s, Len(seen), g, tq, wq, cq2, o)
    BY <1>1, <2>2, <2>3, AlongAsked
  <2>5. Holding(busy, pipe, s, g, f, pc2, buf2)
    <3>1. f = g + Len(buf2)
      BY <2>1, <2>2
    <3>2. buf2 = <<>> => Len(buf2) = 0
      OBVIOUS
    <3> QED  BY <2>1, <2>2, <3>1, <3>2 DEF Holding
  <2> QED  BY <1>1, <1>2, <2>2, <2>4, <2>5 DEF Flow
<1> QED  BY <1>3, <1>4

\* ... or says how the child ended, when there is nothing left to hand over.
LEMMA FlowReported ==
    ASSUME NEW kind \in Kinds, NEW busy, NEW seen, NEW pipe, NEW s \in Seq(Nat), pipe = <<>>,
           NEW tq, NEW wq, NEW cq \in Queue, NEW o, NEW pc, NEW buf, pc # busy, pc # "done",
           Flow(kind, busy, seen, pipe, s, tq, wq, cq, o, pc, buf),
           NEW m \in MuxMsg, m.type = "request",
           NEW cq2, Sends(o) => cq2 = Append(cq, m), NEW buf2
    PROVE  Flow(kind, busy, seen, pipe, s, tq, wq, cq2, o, "done", buf2)
<1>1. PICK d, f \in 0..Len(s) :
          /\ Along(kind, s, Len(seen), d, tq, wq, cq, o)
          /\ Sends(o) => Holding(busy, pipe, s, d, f, pc, buf)
  BY DEF Flow
<1>2. Along(kind, s, Len(seen), d, tq, wq, cq2, o)
  <2>1. CASE ~Sends(o)
    BY <1>1, <2>1, AlongAnswered
  <2>2. CASE Sends(o)
    <3>1. d = Len(s)
      BY <1>1, <2>2 DEF Holding
    <3>2. Fits(m, kind, s, d, d)
      BY <3>1 DEF Fits, Kinds
    <3> QED  BY <1>1, <3>2, AlongAsked
  <2> QED  BY <2>1, <2>2
<1> QED  BY <1>1, <1>2 DEF Flow

\* A grant stays in front of the output when a plain message is handed over ...
LEMMA GrantedAnswered ==
    ASSUME NEW tq, NEW wq, NEW cq \in Queue, NEW o, NEW cpc, NEW spc,
           Granted(tq, wq, cq, o, cpc, spc),
           NEW cq2, Sends(o) => Grown(cq, cq2), NEW spc2, Started(spc2) => Started(spc)
    PROVE  Granted(tq, wq, cq2, o, cpc, spc2)
<1> DEFINE g == Pumping(cpc) \/ HasReply(tq) \/ HasReply(wq)
<1>1. g \in BOOLEAN
  BY DEF Pumping, HasReply
<1>2. Sends(o) => Guarded(cq, g) /\ (Started(spc) => g \/ HasReply(cq))
  BY DEF Granted
<1> HIDE DEF g
<1>3. Sends(o) => Guarded(cq2, g) /\ (HasReply(cq) => HasReply(cq2))
  BY <1>1, <1>2, GuardedGrown DEF Queue
<1> QED  BY <1>2, <1>3 DEF Granted, g

\* ... and when the grant itself, or something behind it, is.
LEMMA GrantedHanded ==
    ASSUME NEW tq, NEW wq, NEW cq \in Queue, NEW o, NEW cpc, NEW spc,
           Granted(tq, wq, cq, o, cpc, spc),
           NEW m \in MuxMsg, Payload(m) => Started(spc),
           NEW cq2, Sends(o) => cq2 = Append(cq, m),
           NEW spc2, Started(spc2) => Started(spc) \/ m.type = "reply"
    PROVE  Granted(tq, wq, cq2, o, cpc, spc2)
<1> DEFINE g == Pumping(cpc) \/ HasReply(tq) \/ HasReply(wq)
<1>1. g \in BOOLEAN
  BY DEF Pumping, HasReply
<1>2. Sends(o) => Guarded(cq, g) /\ (Started(spc) => g \/ HasReply(cq))
  BY DEF Granted
<1> HIDE DEF g
<1>3. Sends(o) => Guarded(cq2, g) /\ (HasReply(cq2) <=> HasReply(cq) \/ m.type = "reply")
  BY <1>1, <1>2, GuardedMore DEF Queue
<1> QED  BY <1>2, <1>3 DEF Granted, g


\* What no step of the server task touches ...
ServerFrame ==
    /\ UNCHANGED <<run, chan, sem_closed, wire, job, client>>
    /\ cmds'["client"] = cmds["client"] /\ to_task'["client"] = to_task["client"]

\* ... and what it leaves of the child.
ChildKept ==
    /\ child'.out = child.out /\ child'.err = child.err /\ child'.status = child.status
    /\ child.state = "exited" => child'.state = "exited"
    /\ child'.state = "none" => child.state = "none"

\* It takes the head of its queue, or nothing.
ServerTakes ==
    \/ to_task'["server"] = to_task["server"]
    \/ to_task["server"] # <<>> /\ to_task'["server"] = Tail(to_task["server"])

\* The types of the queues it works on.
QueuesTyped ==
    /\ credit' \in [End -> 0..Ceiling]
    /\ to_task' \in [End -> Seq(MuxMsg)] /\ cmds' \in [End -> Seq(MuxMsg)]

\* The types, when only the server's part and the child change.
LEMMA ServerTyped ==
    ASSUME Typed, ServerFrame, QueuesTyped, server' \in ServerState, child' \in ChildState
    PROVE  Typed'
<1>1. LoopTyped /\ TypeOK
  BY DEF Typed
<1>2. MuxTypeOK'
  BY <1>1 DEF LoopTyped, MuxTypeOK, ServerFrame, QueuesTyped
<1>3. LoopTyped'
  BY <1>1, <1>2 DEF LoopTyped, ServerFrame, up
<1>4. server' \in ServerState' /\ child' \in ChildState'
  BY DEF ServerState, ChildState
<1>5. TypeOK'
  BY <1>1, <1>2, <1>4 DEF TypeOK, ServerFrame, ClientState
<1> QED  BY <1>3, <1>5 DEF Typed

\* What the invariant asks of a step of the server task.
LEMMA ServerStep ==
    ASSUME IInv, Typed', ServerFrame, ServerTakes, ChildKept,
           \A m \in Elems(cmds'["server"]) : m \in Elems(cmds["server"]) \/ ~Payload(m) \/
               (/\ child'.state # "none"
                /\ m.type = "request" => child'.state = "exited" /\ m.kind = child'.status),
           child'.state # "none" => child.state # "none" \/ ~Early,
           child'.state = "none" => ~Started(server'.pc),
           server'.pc = "writing" => server'.buf # <<>>,
           OutFlows', ErrFlows', GrantFirst', ServerKnows'
    PROVE  IInv'
<1>1. /\ Typed /\ AskedFirst /\ RepliesDue /\ Filled /\ StatusTrue
      /\ Final(client.exit_status) /\ Final(client.result)
  BY DEF IInv
<1>2. /\ to_task["server"] \in Queue /\ Peer("client") = "server" /\ Peer("server") = "client"
      /\ client' = client
  BY <1>1, StateTypes, TwoEnds DEF ServerFrame
<1>3. Elems(to_task'["server"]) \subseteq Elems(to_task["server"])
  BY <1>2, ElemsLess DEF ServerTakes, Queue
<1>4. Sent("client")' \subseteq Sent("client")
  BY <1>2, <1>3, ZenonT(60) DEF Sent, ServerFrame, Elems
<1>5. /\ Sent("server") = Elems(cmds["server"]) \cup Elems(wire["server"]) \cup Elems(to_task["client"])
      /\ Sent("server")' = Elems(cmds'["server"]) \cup Elems(wire'["server"]) \cup Elems(to_task'["client"])
  BY <1>2 DEF Sent, Elems
<1>6. \A m \in Sent("server")' : m \in Sent("server") \/ ~Payload(m) \/
          (/\ child'.state # "none"
           /\ m.type = "request" => child'.state = "exited" /\ m.kind = child'.status)
  BY <1>5 DEF ServerFrame
<1>7. RepliesDue'
  BY <1>1, <1>4 DEF RepliesDue
<1>8. StatusTrue'
  <2>1. SUFFICES ASSUME NEW m \in Sent("server")', m.type = "request"
                 PROVE  child'.state = "exited" /\ m.kind = child'.status
    BY DEF StatusTrue
  <2>2. CASE m \in Sent("server")
    BY <1>1, <2>1, <2>2 DEF StatusTrue, ChildKept
  <2>3. CASE m \notin Sent("server")
    BY <1>6, <2>1, <2>3 DEF Payload
  <2> QED  BY <2>2, <2>3
<1>9. AskedFirst'
  <2>1. Early' = Early
    BY <1>2 DEF Early
  <2>2. Early => child'.state = "none" /\ \A m \in Sent("client")' : ~AsksStart(m)
    BY <1>1, <1>4 DEF AskedFirst, ChildKept
  <2>3. ASSUME child'.state = "none" PROVE \A m \in Sent("server")' : ~Payload(m)
    BY <1>1, <1>6, <2>3 DEF AskedFirst, ChildKept
  <2> QED  BY <2>1, <2>2, <2>3 DEF AskedFirst, AsksStart, Payload
<1>10. Final(client.exit_status)' /\ Final(client.result)'
  BY <1>1, <1>2 DEF Final, ChildKept
<1>11. Filled'
  BY <1>1, <1>2 DEF Filled
<1> QED  BY <1>7, <1>8, <1>9, <1>10, <1>11 DEF IInv

\* What both streams are made of.
LEMMA BothFlow ==
    ASSUME IInv
    PROVE  /\ Flow("data", "sending_out", client.stdout, child.stdout, child.out, to_task["client"],
                   wire["server"], cmds["server"], OpenEnds, server.pc, server.buf)
           /\ Flow("ext", "sending_err", client.stderr, child.stderr, child.err, to_task["client"],
                   wire["server"], cmds["server"], OpenEnds, server.pc, server.buf)
BY DEF IInv, OutFlows, ErrFlows, Flowing

\* ... and what is to be shown of them after a step of the task.
LEMMA BothFlowNext ==
    ASSUME ServerFrame, child'.out = child.out, child'.err = child.err,
           Flow("data", "sending_out", client.stdout, child'.stdout, child.out, to_task["client"],
                wire["server"], cmds'["server"], OpenEnds, server'.pc, server'.buf),
           Flow("ext", "sending_err", client.stderr, child'.stderr, child.err, to_task["client"],
                wire["server"], cmds'["server"], OpenEnds, server'.pc, server'.buf)
    PROVE  OutFlows' /\ ErrFlows'
<1>1. /\ OpenEnds' = OpenEnds /\ client' = client /\ wire' = wire
      /\ to_task'["client"] = to_task["client"]
  BY DEF ServerFrame, OpenEnds
<1> QED  BY <1>1 DEF OutFlows, ErrFlows, Flowing

\* The output of the child stays where it is.
LEMMA FlowsStay ==
    ASSUME IInv, ServerFrame, ChildKept, child'.stdout = child.stdout, child'.stderr = child.stderr,
           Sends(OpenEnds) => Grown(cmds["server"], cmds'["server"]),
           server'.pc # "done" => /\ server.pc \in {"phase1", "pump", "writing"}
                                  /\ server'.pc \in {"phase1", "pump", "writing"}
    PROVE  OutFlows' /\ ErrFlows'
<1>1. /\ "data" \in Kinds /\ "ext" \in Kinds /\ child.out \in Seq(Nat) /\ child.err \in Seq(Nat)
      /\ cmds["server"] \in Queue
  BY StateTypes DEF Kinds, IInv
<1> DEFINE tq == to_task["client"]  wq == wire["server"]  cq == cmds["server"]  cq2 == cmds'["server"]
           pc == server.pc  buf == server.buf  pc2 == server'.pc  buf2 == server'.buf
           o == OpenEnds
<1>2. cq \in Queue /\ (Sends(o) => Grown(cq, cq2))
  BY <1>1
<1>3. pc2 # "done" => pc # "done" /\ pc # "sending_out" /\ pc2 # "sending_out"
                                  /\ pc # "sending_err" /\ pc2 # "sending_err"
  OBVIOUS
<1>4. Flow("data", "sending_out", client.stdout, child.stdout, child.out, tq, wq, cq2, o, pc2, buf2)
  <2> DEFINE seen == client.stdout  pipe == child.stdout  s == child.out
  <2>1. s \in Seq(Nat) /\ Flow("data", "sending_out", seen, pipe, s, tq, wq, cq, o, pc, buf)
    BY <1>1, BothFlow
  <2> HIDE DEF seen, pipe, s, tq, wq, cq, cq2, pc, buf, pc2, buf2, o
  <2>2. Flow("data", "sending_out", seen, pipe, s, tq, wq, cq2, o, pc2, buf2)
    BY <1>1, <1>2, <1>3, <2>1, FlowAnswered
  <2> QED  BY <2>2 DEF seen, pipe, s
<1>5. Flow("ext", "sending_err", client.stderr, child.stderr, child.err, tq, wq, cq2, o, pc2, buf2)
  <2> DEFINE seen == client.stderr  pipe == child.stderr  s == child.err
  <2>1. s \in Seq(Nat) /\ Flow("ext", "sending_err", seen, pipe, s, tq, wq, cq, o, pc, buf)
    BY <1>1, BothFlow
  <2> HIDE DEF seen, pipe, s, tq, wq, cq, cq2, pc, buf, pc2, buf2, o
  <2>2. Flow("ext", "sending_err", seen, pipe, s, tq, wq, cq2, o, pc2, buf2)
    BY <1>1, <1>2, <1>3, <2>1, FlowAnswered
  <2> QED  BY <2>2 DEF seen, pipe, s
<1> QED  BY <1>4, <1>5, BothFlowNext DEF ChildKept

\* A step of the task that hands over no more than plain messages.
LEMMA QuietStep ==
    ASSUME IInv, ServerFrame, ServerTakes, ChildKept, QueuesTyped,
           server' \in ServerState, child' \in ChildState, ServerKnows',
           server'.pc = "writing" => server'.buf # <<>>,
           child'.stdout = child.stdout, child'.stderr = child.stderr,
           Sends(OpenEnds) => Grown(cmds["server"], cmds'["server"]),
           Elems(cmds'["server"]) \subseteq Elems(cmds["server"]) \cup PlainMsg,
           server'.pc # "done" => /\ server.pc \in {"phase1", "pump", "writing"}
                                  /\ server'.pc \in {"phase1", "pump", "writing"},
           child'.state # "none" => child.state # "none" \/ ~Early,
           (Started(server'.pc) => Started(server.pc)) \/ (GrantFirst' /\ child'.state # "none")
    PROVE  IInv'
<1>1. Typed /\ GrantFirst /\ AskedFirst
  BY DEF IInv
<1>2. Typed'
  BY <1>1, ServerTyped
<1>3. OutFlows' /\ ErrFlows'
  BY FlowsStay
<1>4. GrantFirst'
  <2>1. CASE Started(server'.pc) => Started(server.pc)
    <3> DEFINE tq == to_task["client"]  wq == wire["server"]  cq == cmds["server"]
               cq2 == cmds'["server"]  cpc == client.pc  spc == server.pc  spc2 == server'.pc
    <3>1. /\ cq \in Queue /\ (Sends(OpenEnds) => Grown(cq, cq2))
          /\ Granted(tq, wq, cq, OpenEnds, cpc, spc) /\ (Started(spc2) => Started(spc))
      BY <1>1, <2>1, StateTypes DEF GrantFirst
    <3> HIDE DEF tq, wq, cq, cq2, cpc, spc, spc2
    <3>2. Granted(tq, wq, cq2, OpenEnds, cpc, spc2)
      BY <3>1, GrantedAnswered
    <3>3. OpenEnds' = OpenEnds
      BY DEF ServerFrame, OpenEnds
    <3> QED  BY <3>2, <3>3 DEF GrantFirst, ServerFrame, tq, wq, cq2, cpc, spc2
  <2> QED  BY <2>1
<1>5. \A m \in Elems(cmds'["server"]) : m \in Elems(cmds["server"]) \/ ~Payload(m)
  BY DEF PlainMsg
<1>6. child'.state = "none" => ~Started(server'.pc)
  BY <1>1 DEF AskedFirst, ChildKept
<1> QED  BY <1>2, <1>3, <1>4, <1>5, <1>6, ServerStep


\* While both ends have the channel open, the server's loop takes commands.
LEMMA SendsUp ==
    ASSUME LoopTyped, Sends(OpenEnds) PROVE up("server")
BY DEF LoopTyped, Sends, OpenEnds

\* One message handed over to the loop.
LEMMA ServerHands ==
    ASSUME Typed, NEW m \in MuxMsg, Command("server", <<m>>)
    PROVE  /\ cmds' \in [End -> Seq(MuxMsg)] /\ cmds'["client"] = cmds["client"]
           /\ Sends(OpenEnds) => cmds'["server"] = Append(cmds["server"], m)
           /\ Elems(cmds'["server"]) \subseteq Elems(cmds["server"]) \cup {m}
<1>1. LoopTyped /\ "server" \in End /\ Peer("server") = "client"
  BY StateTypes, TwoEnds
<1> QED  BY <1>1, CommandedOne, SendsUp

\* Nothing, or plain messages.
LEMMA ServerAnswers ==
    ASSUME Typed, NEW x \in Seq(PlainMsg), cmds' = cmds \/ Command("server", x)
    PROVE  /\ cmds' \in [End -> Seq(MuxMsg)] /\ cmds'["client"] = cmds["client"]
           /\ Sends(OpenEnds) => Grown(cmds["server"], cmds'["server"])
           /\ Elems(cmds'["server"]) \subseteq Elems(cmds["server"]) \cup PlainMsg
<1>1. LoopTyped /\ "server" \in End /\ Peer("server") = "client" /\ cmds["server"] \in Seq(MuxMsg)
      /\ cmds \in [End -> Seq(MuxMsg)]
  BY StateTypes, TwoEnds DEF Queue, LoopTyped, MuxTypeOK
<1>2. x \in Queue
  BY DEF Queue, PlainMsg
<1>3. CASE cmds' = cmds
  BY <1>1, <1>3, GrownBy
<1>4. CASE Command("server", x)
  <2>1. /\ cmds' \in [End -> Seq(MuxMsg)] /\ cmds'["client"] = cmds["client"]
        /\ cmds'["server"] = IF up("server") THEN cmds["server"] \o x ELSE cmds["server"]
    BY <1>1, <1>2, <1>4, Commanded
  <2>2. Grown(cmds["server"], cmds'["server"])
    <3>1. CASE up("server")
      BY <2>1, <3>1 DEF Grown
    <3>2. CASE ~up("server")
      BY <1>1, <2>1, <3>2, GrownBy
    <3> QED  BY <3>1, <3>2
  <2> QED  BY <1>1, <2>1, <2>2, ElemsGrown
<1> QED  BY <1>3, <1>4

\* The plain messages of the task.
LEMMA PlainMade ==
    /\ \A n \in Nat : Amount("consumed", n) \in PlainMsg
    /\ \A ok \in BOOLEAN : Reply(ok) \in PlainMsg
    /\ Plain("close") \in PlainMsg /\ Plain("eof") \in PlainMsg
    /\ \A m \in PlainMsg : <<m>> \in Seq(PlainMsg) /\ \A n \in PlainMsg : <<m, n>> \in Seq(PlainMsg)
    /\ <<>> \in Seq(PlainMsg)
<1>1. \A m \in PlainMsg : <<m>> \in Seq(PlainMsg) /\ \A n \in PlainMsg : <<m, n>> \in Seq(PlainMsg)
  OBVIOUS
<1>2. \A n \in Nat : Amount("consumed", n) \in PlainMsg
  BY Made DEF PlainMsg, Payload
<1>3. \A ok \in BOOLEAN : Reply(ok) \in PlainMsg
  BY Made DEF PlainMsg, Payload
<1>4. Plain("close") \in PlainMsg /\ Plain("eof") \in PlainMsg
  BY Made DEF PlainMsg, Payload
<1> QED  BY <1>1, <1>2, <1>3, <1>4

\* The end of the task: the child is killed if it still runs.
LEMMA Ended ==
    ASSUME IInv, ServerEnds
    PROVE  /\ server' \in ServerState /\ child' \in ChildState /\ ChildKept /\ ServerKnows'
           /\ child'.stdout = child.stdout /\ child'.stderr = child.stderr
           /\ server'.pc = "done" /\ (child'.state # "none" => child.state # "none")
<1>1. server \in ServerState /\ child \in ChildState /\ ServerKnows
  BY StateTypes DEF IInv, TypeOK
<1>2. server' = [server EXCEPT !.pc = "done", !.child_stdin = FALSE]
  BY DEF ServerEnds
<1>3. /\ server' \in ServerState /\ server'.pc = "done" /\ server'.exited = server.exited
      /\ server'.stdout_eof = server.stdout_eof /\ server'.stderr_eof = server.stderr_eof
      /\ server'.is_pty = server.is_pty
  BY <1>1, <1>2 DEF ServerState
<1>4. CASE child.state = "running"
  <2>1. child' = [child EXCEPT !.state = "killed"]
    BY <1>4 DEF ServerEnds
  <2>2. /\ child' \in ChildState /\ child'.out = child.out /\ child'.err = child.err
        /\ child'.stdout = child.stdout /\ child'.stderr = child.stderr
        /\ child'.status = child.status /\ child'.state = "killed"
    BY <1>1, <2>1 DEF ChildState
  <2>3. ChildKept
    BY <1>4, <2>2 DEF ChildKept
  <2>4. ServerKnows'
    BY <1>1, <1>3, <1>4, <2>2 DEF ServerKnows
  <2> QED  BY <1>3, <1>4, <2>2, <2>3, <2>4
<1>5. CASE child.state # "running"
  <2>1. child' = child
    BY <1>5 DEF ServerEnds
  <2>2. ChildKept
    BY <2>1 DEF ChildKept
  <2>3. ServerKnows'
    BY <1>1, <1>3, <2>1 DEF ServerKnows
  <2> QED  BY <1>1, <1>3, <2>1, <2>2, <2>3
<1> QED  BY <1>4, <1>5

\* ... with nothing but plain messages handed over.
LEMMA EndsQuietly ==
    ASSUME IInv, ServerEnds, ServerOnly, credit' = credit, to_task' \in [End -> Seq(MuxMsg)],
           to_task'["client"] = to_task["client"], ServerTakes,
           NEW x \in Seq(PlainMsg), cmds' = cmds \/ Command("server", x)
    PROVE  IInv'
<1>1. Typed /\ credit \in [End -> 0..Ceiling]
  BY StateTypes DEF IInv, TypeOK, MuxTypeOK
<1>2. /\ cmds' \in [End -> Seq(MuxMsg)] /\ cmds'["client"] = cmds["client"]
      /\ Sends(OpenEnds) => Grown(cmds["server"], cmds'["server"])
      /\ Elems(cmds'["server"]) \subseteq Elems(cmds["server"]) \cup PlainMsg
  BY <1>1, ServerAnswers
<1>3. ServerFrame /\ QueuesTyped
  BY <1>1, <1>2 DEF ServerFrame, ServerOnly, QueuesTyped
<1>4. /\ server' \in ServerState /\ child' \in ChildState /\ ChildKept /\ ServerKnows'
      /\ child'.stdout = child.stdout /\ child'.stderr = child.stderr
      /\ server'.pc = "done" /\ (child'.state # "none" => child.state # "none")
  BY Ended
<1>5. ~Started(server'.pc)
  BY <1>4 DEF Started
<1> QED  BY <1>2, <1>3, <1>4, <1>5, QuietStep

\* The semaphore is closed while it waits for credit.
LEMMA ServerCreditClosedKeeps ==
    ASSUME IInv, ServerCreditClosed PROVE IInv'
<1>1. ServerEnds /\ UNCHANGED <<to_task, credit, cmds>> /\ ServerOnly
  BY DEF ServerCreditClosed
<1>2. to_task \in [End -> Seq(MuxMsg)] /\ <<>> \in Seq(PlainMsg) /\ ServerTakes
  BY <1>1, StateTypes DEF IInv, TypeOK, MuxTypeOK, ServerTakes
<1> QED  BY <1>1, <1>2, EndsQuietly

\* A step of the pump, of what the child gave nothing is touched.
LEMMA PumpQuietly ==
    ASSUME IInv, ServerOnly, credit' = credit, to_task' \in [End -> Seq(MuxMsg)],
           to_task'["client"] = to_task["client"], ServerTakes,
           NEW x \in Seq(PlainMsg), cmds' = cmds \/ Command("server", x),
           server' \in ServerState, child' \in ChildState, ServerKnows',
           server.pc \in {"pump", "writing"}, server'.pc \in {"pump", "writing"},
           server'.pc = "writing" => server'.buf # <<>>,
           child'.stdout = child.stdout, child'.stderr = child.stderr,
           child'.out = child.out, child'.err = child.err,
           child'.state = child.state, child'.status = child.status
    PROVE  IInv'
<1>1. Typed /\ credit \in [End -> 0..Ceiling]
  BY StateTypes DEF IInv, TypeOK, MuxTypeOK
<1>2. /\ cmds' \in [End -> Seq(MuxMsg)] /\ cmds'["client"] = cmds["client"]
      /\ Sends(OpenEnds) => Grown(cmds["server"], cmds'["server"])
      /\ Elems(cmds'["server"]) \subseteq Elems(cmds["server"]) \cup PlainMsg
  BY <1>1, ServerAnswers
<1>3. ServerFrame /\ QueuesTyped /\ ChildKept
  BY <1>1, <1>2 DEF ServerFrame, ServerOnly, QueuesTyped, ChildKept
<1>4. Started(server'.pc) /\ Started(server.pc)
  BY DEF Started
<1> QED  BY <1>2, <1>3, <1>4, QuietStep

\* What the task knows is not changed by a step that leaves these alone.
LEMMA KnownStill ==
    ASSUME ServerKnows, server'.pc # "phase1", server'.exited = server.exited,
           server'.stdout_eof = server.stdout_eof, server'.stderr_eof = server.stderr_eof,
           server'.is_pty = server.is_pty,
           child'.state = child.state, child'.status = child.status,
           child'.stdout = child.stdout, child'.stderr = child.stderr,
           child'.out = child.out, child'.err = child.err
    PROVE  ServerKnows'
BY DEF ServerKnows

\* A byte is written to the child ...
LEMMA WritesKeeps ==
    ASSUME IInv, ServerWrites PROVE IInv'
<1> DEFINE last == Len(server.buf) = 1
           t == Tail(server.buf)  i == Append(child.stdin, Head(server.buf))
           x == <<Amount("consumed", server.owed)>>
           pc2 == IF last THEN "pump" ELSE server.pc
           owed2 == IF last THEN 0 ELSE server.owed
<1>1. /\ server \in ServerState /\ child \in ChildState /\ ServerKnows
      /\ to_task \in [End -> Seq(MuxMsg)] /\ server.pc = "writing" /\ server.buf # <<>>
  BY StateTypes DEF IInv, Filled, TypeOK, MuxTypeOK, ServerWrites
<1>2. /\ server' = [server EXCEPT !.buf = t, !.pc = pc2, !.owed = owed2]
      /\ child' = [child EXCEPT !.stdin = i]
      /\ cmds' = cmds \/ Command("server", x)
      /\ UNCHANGED <<to_task, credit>> /\ ServerOnly
  BY DEF ServerWrites
<1>3. /\ server.buf \in Seq(Nat) /\ server.owed \in Nat /\ child.stdin \in Seq(Nat)
  BY <1>1 DEF ServerState, ChildState
<1>4. /\ t \in Seq(Nat) /\ Len(t) = Len(server.buf) - 1 /\ Head(server.buf) \in Nat
      /\ Len(server.buf) \in Nat \ {0}
  BY <1>1, <1>3, OneLess
<1>5. i \in Seq(Nat)
  BY <1>3, <1>4, OneMore
<1>6. pc2 \in {"pump", "writing"} /\ owed2 \in Nat /\ (pc2 = "writing" => ~last)
  BY <1>1, <1>3
<1>7. ~last => t # <<>>
  <2> HIDE DEF t
  <2>1. t = <<>> => Len(t) = 0
    OBVIOUS
  <2> QED  BY <1>4, <2>1
<1>8. x \in Seq(PlainMsg)
  BY <1>3, PlainMade
<1> HIDE DEF t, i, x, pc2, owed2, last
<1>9. /\ server' \in ServerState /\ server'.pc = pc2 /\ server'.buf = t
      /\ server'.exited = server.exited /\ server'.is_pty = server.is_pty
      /\ server'.stdout_eof = server.stdout_eof /\ server'.stderr_eof = server.stderr_eof
  BY <1>1, <1>2, <1>4, <1>6 DEF ServerState
<1>10. /\ child' \in ChildState /\ child'.state = child.state /\ child'.status = child.status
       /\ child'.stdout = child.stdout /\ child'.stderr = child.stderr
       /\ child'.out = child.out /\ child'.err = child.err
  BY <1>1, <1>2, <1>5 DEF ChildState
<1>11. ServerKnows'
  BY <1>1, <1>6, <1>9, <1>10, KnownStill
<1>12. ServerTakes
  BY <1>2 DEF ServerTakes
<1> QED  BY <1>1, <1>2, <1>6, <1>7, <1>8, <1>9, <1>10, <1>11, <1>12, PumpQuietly

\* ... or cannot be.
LEMMA WriteFailsKeeps ==
    ASSUME IInv, ServerWriteFails PROVE IInv'
<1> DEFINE x == <<Amount("consumed", server.owed)>>
<1>1. /\ server \in ServerState /\ child \in ChildState /\ ServerKnows
      /\ to_task \in [End -> Seq(MuxMsg)] /\ server.pc = "writing"
  BY StateTypes DEF IInv, TypeOK, MuxTypeOK, ServerWriteFails
<1>2. /\ server' = [server EXCEPT !.pc = "pump", !.child_stdin = FALSE, !.buf = <<>>, !.owed = 0]
      /\ child' = child /\ Command("server", x)
      /\ UNCHANGED <<to_task, credit>> /\ ServerOnly
  BY DEF ServerWriteFails
<1>3. x \in Seq(PlainMsg)
  BY <1>1, PlainMade DEF ServerState
<1>4. /\ server' \in ServerState /\ server'.pc = "pump"
      /\ server'.exited = server.exited /\ server'.is_pty = server.is_pty
      /\ server'.stdout_eof = server.stdout_eof /\ server'.stderr_eof = server.stderr_eof
  <2> DEFINE none == <<>>
  <2>1. none \in Seq(Nat) /\ 0 \in Nat
    OBVIOUS
  <2>2. server' = [server EXCEPT !.pc = "pump", !.child_stdin = FALSE, !.buf = none, !.owed = 0]
    BY <1>2
  <2> HIDE DEF none
  <2> QED  BY <1>1, <2>1, <2>2 DEF ServerState
<1>5. ServerKnows' /\ ServerTakes
  BY <1>1, <1>2, <1>4, KnownStill DEF ServerTakes
<1> HIDE DEF x
<1> QED  BY <1>1, <1>2, <1>3, <1>4, <1>5, PumpQuietly

\* The child's stdout is at its end ...
LEMMA OutEndsKeeps ==
    ASSUME IInv, ServerOutEnds PROVE IInv'
<1>1. /\ server \in ServerState /\ child \in ChildState /\ ServerKnows
      /\ to_task \in [End -> Seq(MuxMsg)] /\ server.pc = "pump"
      /\ child.state # "running" /\ child.stdout = <<>>
  BY StateTypes DEF IInv, TypeOK, MuxTypeOK, ServerOutEnds, Arm
<1>2. /\ server' = [server EXCEPT !.stdout_eof = TRUE] /\ child' = child
      /\ UNCHANGED <<to_task, credit, cmds>> /\ ServerOnly
  BY DEF ServerOutEnds, Quiet
<1>3. /\ server' \in ServerState /\ server'.pc = "pump"
      /\ server'.exited = server.exited /\ server'.is_pty = server.is_pty
      /\ server'.stderr_eof = server.stderr_eof
  BY <1>1, <1>2 DEF ServerState
<1>4. ServerKnows' /\ ServerTakes /\ <<>> \in Seq(PlainMsg)
  BY <1>1, <1>2, <1>3 DEF ServerTakes, ServerKnows
<1> QED  BY <1>1, <1>2, <1>3, <1>4, PumpQuietly

\* ... and its stderr.
LEMMA ErrEndsKeeps ==
    ASSUME IInv, ServerErrEnds PROVE IInv'
<1>1. /\ server \in ServerState /\ child \in ChildState /\ ServerKnows
      /\ to_task \in [End -> Seq(MuxMsg)] /\ server.pc = "pump"
      /\ child.state # "running" /\ child.stderr = <<>>
  BY StateTypes DEF IInv, TypeOK, MuxTypeOK, ServerErrEnds, Arm
<1>2. /\ server' = [server EXCEPT !.stderr_eof = TRUE] /\ child' = child
      /\ UNCHANGED <<to_task, credit, cmds>> /\ ServerOnly
  BY DEF ServerErrEnds, Quiet
<1>3. /\ server' \in ServerState /\ server'.pc = "pump"
      /\ server'.exited = server.exited /\ server'.is_pty = server.is_pty
      /\ server'.stdout_eof = server.stdout_eof
  BY <1>1, <1>2 DEF ServerState
<1>4. ServerKnows' /\ ServerTakes /\ <<>> \in Seq(PlainMsg)
  BY <1>1, <1>2, <1>3 DEF ServerTakes, ServerKnows
<1> QED  BY <1>1, <1>2, <1>3, <1>4, PumpQuietly

\* The child has ended.
LEMMA ReapsKeeps ==
    ASSUME IInv, ServerReaps PROVE IInv'
<1>1. /\ server \in ServerState /\ child \in ChildState /\ ServerKnows
      /\ to_task \in [End -> Seq(MuxMsg)] /\ server.pc = "pump"
      /\ child.state = "exited"
  BY StateTypes DEF IInv, TypeOK, MuxTypeOK, ServerReaps, Arm
<1>2. /\ server' = [server EXCEPT !.exited = child.status] /\ child' = child
      /\ UNCHANGED <<to_task, credit, cmds>> /\ ServerOnly
  BY DEF ServerReaps, Quiet
<1>3. child.status \in Status \cup {"none"}
  BY <1>1 DEF ChildState
<1>4. /\ server' \in ServerState /\ server'.pc = "pump"
      /\ server'.exited = child.status /\ server'.is_pty = server.is_pty
      /\ server'.stdout_eof = server.stdout_eof /\ server'.stderr_eof = server.stderr_eof
  BY <1>1, <1>2, <1>3 DEF ServerState
<1>5. ServerKnows' /\ ServerTakes /\ <<>> \in Seq(PlainMsg)
  BY <1>1, <1>2, <1>4 DEF ServerTakes, ServerKnows
<1> QED  BY <1>1, <1>2, <1>4, <1>5, PumpQuietly


\* What the task takes from its queue.
LEMMA ServerRecvd ==
    ASSUME IInv, Ready("server"), Recv("server")
    PROVE  /\ to_task' \in [End -> Seq(MuxMsg)] /\ to_task'["client"] = to_task["client"]
           /\ ServerTakes
           /\ Received("server").type # "close" =>
                /\ Received("server") \in MuxMsg /\ Proper(Received("server"))
                /\ AsksStart(Received("server")) => ~Early
<1> DEFINE m == Received("server")
<1>1. LoopTyped /\ RepliesDue /\ AskedFirst /\ "server" \in End /\ Peer("server") = "client"
      /\ Peer("client") = "server"
  BY StateTypes, TwoEnds DEF IInv
<1>2. /\ to_task' \in [End -> Seq(MuxMsg)] /\ to_task'["client"] = to_task["client"]
      /\ \/ /\ to_task["server"] # <<>> /\ to_task'["server"] = Tail(to_task["server"])
            /\ m \in MuxMsg /\ m \in Elems(to_task["server"])
         \/ to_task'["server"] = to_task["server"] /\ m = Plain("close")
  BY <1>1, Recvd
<1>3. Plain("close").type = "close"
  BY DEF Plain
<1>4. m \in Elems(to_task["server"]) => m \in Sent("client")
  BY <1>1 DEF Sent
<1> HIDE DEF m
<1>5. m.type # "close" => m \in MuxMsg /\ m \in Sent("client")
  BY <1>2, <1>3, <1>4
<1>6. m \in Sent("client") => Proper(m) /\ (AsksStart(m) => ~Early)
  BY <1>1 DEF RepliesDue, AskedFirst
<1>7. ServerTakes
  BY <1>2 DEF ServerTakes
<1> QED  BY <1>2, <1>5, <1>6, <1>7 DEF m

\* In the pump: stdin for the child, its end, or the end of the channel.
LEMMA ServerRecvKeeps ==
    ASSUME IInv, ServerRecv PROVE IInv'
<1> DEFINE m == Received("server")
<1>1. /\ server \in ServerState /\ child \in ChildState /\ ServerKnows /\ server.pc = "pump"
  BY StateTypes DEF IInv, TypeOK, ServerRecv
<1>2. Ready("server") /\ Recv("server") /\ credit' = credit /\ ServerOnly
  BY DEF ServerRecv
<1>3. /\ to_task' \in [End -> Seq(MuxMsg)] /\ to_task'["client"] = to_task["client"]
      /\ ServerTakes
      /\ m.type # "close" => m \in MuxMsg /\ Proper(m)
  BY <1>2, ServerRecvd
<1>4. \/ m.type = "close" /\ ServerEnds /\ cmds' = cmds
      \/ /\ m.type = "data" /\ cmds' = cmds /\ child' = child
         /\ server' = [server EXCEPT !.pc = "writing", !.buf = m.bytes, !.owed = Len(m.bytes)]
      \/ /\ m.type = "data" /\ Command("server", <<Amount("consumed", Len(m.bytes))>>)
         /\ server' = server /\ child' = child
      \/ /\ m.type = "eof" /\ cmds' = cmds /\ child' = child
         /\ server' = [server EXCEPT !.child_stdin = server.child_stdin /\ server.is_pty]
  BY DEF ServerRecv
<1> HIDE DEF m
<1>5. <<>> \in Seq(PlainMsg)
  OBVIOUS
<1>6. m.type = "data" => m.bytes \in Seq(Nat) /\ Len(m.bytes) \in Nat /\ m.bytes # <<>>
  BY <1>3, MessageFacts DEF Proper
<1>7. CASE m.type = "close" /\ ServerEnds /\ cmds' = cmds
  BY <1>2, <1>3, <1>5, <1>7, EndsQuietly
<1>8. CASE /\ m.type = "data" /\ cmds' = cmds /\ child' = child
           /\ server' = [server EXCEPT !.pc = "writing", !.buf = m.bytes, !.owed = Len(m.bytes)]
  <2>1. /\ server' \in ServerState /\ server'.pc = "writing" /\ server'.buf = m.bytes
        /\ server'.exited = server.exited /\ server'.is_pty = server.is_pty
        /\ server'.stdout_eof = server.stdout_eof /\ server'.stderr_eof = server.stderr_eof
    <3> DEFINE b == m.bytes  l == Len(m.bytes)
    <3>1. server' = [server EXCEPT !.pc = "writing", !.buf = b, !.owed = l] /\ b \in Seq(Nat) /\ l \in Nat
      BY <1>6, <1>8
    <3> HIDE DEF b, l
    <3>2. /\ server' \in ServerState /\ server'.pc = "writing" /\ server'.buf = b
          /\ server'.exited = server.exited /\ server'.is_pty = server.is_pty
          /\ server'.stdout_eof = server.stdout_eof /\ server'.stderr_eof = server.stderr_eof
      BY <1>1, <3>1 DEF ServerState
    <3> QED  BY <3>2 DEF b
  <2>2. ServerKnows'
    BY <1>1, <1>8, <2>1, KnownStill
  <2> QED  BY <1>1, <1>2, <1>3, <1>5, <1>6, <1>8, <2>1, <2>2, PumpQuietly
<1>9. CASE /\ m.type = "data" /\ Command("server", <<Amount("consumed", Len(m.bytes))>>)
           /\ server' = server /\ child' = child
  <2> DEFINE x == <<Amount("consumed", Len(m.bytes))>>
  <2>1. x \in Seq(PlainMsg) /\ Command("server", x)
    BY <1>6, <1>9, PlainMade
  <2>2. ServerKnows' /\ server'.pc = "pump"
    BY <1>1, <1>9 DEF ServerKnows
  <2> HIDE DEF x
  <2> QED  BY <1>1, <1>2, <1>3, <1>9, <2>1, <2>2, PumpQuietly
<1>10. CASE /\ m.type = "eof" /\ cmds' = cmds /\ child' = child
            /\ server' = [server EXCEPT !.child_stdin = server.child_stdin /\ server.is_pty]
  <2>1. /\ server' \in ServerState /\ server'.pc = "pump"
        /\ server'.exited = server.exited /\ server'.is_pty = server.is_pty
        /\ server'.stdout_eof = server.stdout_eof /\ server'.stderr_eof = server.stderr_eof
    <3> DEFINE b == server.child_stdin /\ server.is_pty
    <3>1. b \in BOOLEAN /\ server' = [server EXCEPT !.child_stdin = b]
      BY <1>10
    <3> HIDE DEF b
    <3> QED  BY <1>1, <3>1 DEF ServerState
  <2>2. ServerKnows'
    BY <1>1, <1>10, <2>1, KnownStill
  <2> QED  BY <1>1, <1>2, <1>3, <1>5, <1>10, <2>1, <2>2, PumpQuietly
<1> QED  BY <1>4, <1>7, <1>8, <1>9, <1>10

\* Nothing is started by a step that leaves the task where it was.
LEMMA WaitsOn ==
    ASSUME IInv, server.pc = "phase1", ServerOnly, credit' = credit,
           to_task' \in [End -> Seq(MuxMsg)], to_task'["client"] = to_task["client"], ServerTakes,
           NEW x \in Seq(PlainMsg), cmds' = cmds \/ Command("server", x), child' = child,
           server' \in ServerState, server'.pc = "phase1", server'.exited = server.exited,
           server'.stdout_eof = server.stdout_eof, server'.stderr_eof = server.stderr_eof
    PROVE  IInv'
<1>1. Typed /\ credit \in [End -> 0..Ceiling] /\ child \in ChildState /\ ServerKnows
  BY StateTypes DEF IInv, TypeOK, MuxTypeOK
<1>2. /\ cmds' \in [End -> Seq(MuxMsg)] /\ cmds'["client"] = cmds["client"]
      /\ Sends(OpenEnds) => Grown(cmds["server"], cmds'["server"])
      /\ Elems(cmds'["server"]) \subseteq Elems(cmds["server"]) \cup PlainMsg
  BY <1>1, ServerAnswers
<1>3. ServerFrame /\ QueuesTyped /\ ChildKept
  BY <1>1, <1>2 DEF ServerFrame, ServerOnly, QueuesTyped, ChildKept
<1>4. ServerKnows'
  BY <1>1 DEF ServerKnows
<1>5. ~Started(server'.pc)
  BY DEF Started
<1> QED  BY <1>1, <1>2, <1>3, <1>4, <1>5, QuietStep

\* A command is started: the reply that says so goes in front of its output.
LEMMA SpawnsKeeps ==
    ASSUME IInv, server.pc = "phase1", ServerOnly, credit' = credit,
           to_task' \in [End -> Seq(MuxMsg)], to_task'["client"] = to_task["client"], ServerTakes,
           ~Early, Command("server", <<Reply(TRUE)>>),
           child' = [child EXCEPT !.state = "running"],
           server' = [server EXCEPT !.pc = "pump", !.child_stdin = TRUE, !.stderr_eof = server.is_pty]
    PROVE  IInv'
<1> DEFINE r == Reply(TRUE)
<1>1. /\ Typed /\ credit \in [End -> 0..Ceiling] /\ child \in ChildState /\ server \in ServerState
      /\ ServerKnows /\ GrantFirst
  BY StateTypes DEF IInv, TypeOK, MuxTypeOK
<1>2. r \in MuxMsg /\ r.type = "reply" /\ <<r>> \in Seq(PlainMsg)
  BY Made, PlainMade
<1>3. Command("server", <<r>>)
  OBVIOUS
<1> HIDE DEF r
<1>4. /\ cmds' \in [End -> Seq(MuxMsg)] /\ cmds'["client"] = cmds["client"]
      /\ Sends(OpenEnds) => Grown(cmds["server"], cmds'["server"])
      /\ Elems(cmds'["server"]) \subseteq Elems(cmds["server"]) \cup PlainMsg
  BY <1>1, <1>2, <1>3, ServerAnswers
<1>5. /\ child' \in ChildState /\ child'.state = "running" /\ child'.status = child.status
      /\ child'.stdout = child.stdout /\ child'.stderr = child.stderr
      /\ child'.out = child.out /\ child'.err = child.err
  BY <1>1 DEF ChildState
<1>6. /\ server' \in ServerState /\ server'.pc = "pump" /\ server'.exited = server.exited
      /\ server'.stdout_eof = server.stdout_eof /\ server'.stderr_eof = server.is_pty
      /\ server'.is_pty = server.is_pty
  BY <1>1 DEF ServerState
<1>7. /\ child.state = "none" /\ server.exited = "none" /\ ~server.stdout_eof
      /\ child.stdout = <<>> /\ child.stderr = <<>>
  BY <1>1 DEF ServerKnows
<1>8. ServerKnows'
  BY <1>5, <1>6, <1>7 DEF ServerKnows
<1>9. ServerFrame /\ QueuesTyped /\ ChildKept
  BY <1>1, <1>4, <1>5, <1>7 DEF ServerFrame, ServerOnly, QueuesTyped, ChildKept
<1>10. GrantFirst'
  <2> DEFINE tq == to_task["client"]  wq == wire["server"]  cq == cmds["server"]
             cq2 == cmds'["server"]  cpc == client.pc  spc == server.pc  spc2 == server'.pc
  <2>1. Sends(OpenEnds) => cq2 = Append(cq, r)
    BY <1>1, <1>2, <1>3, ServerHands
  <2>2. cq \in Queue /\ Granted(tq, wq, cq, OpenEnds, cpc, spc) /\ ~Payload(r)
    BY <1>1, <1>2, StateTypes DEF GrantFirst, Payload
  <2> HIDE DEF tq, wq, cq, cq2, cpc, spc, spc2
  <2>3. Granted(tq, wq, cq2, OpenEnds, cpc, spc2)
    BY <1>2, <2>1, <2>2, GrantedHanded
  <2>4. OpenEnds' = OpenEnds
    BY <1>9 DEF ServerFrame, OpenEnds
  <2> QED  BY <1>9, <2>3, <2>4 DEF GrantFirst, ServerFrame, tq, wq, cq2, cpc, spc2
<1> QED  BY <1>4, <1>5, <1>6, <1>8, <1>9, <1>10, QuietStep

\* Before the command: requests, or the end of the channel.
LEMMA WaitsKeeps ==
    ASSUME IInv, ServerWaits PROVE IInv'
<1> DEFINE m == Received("server")
<1>1. /\ server \in ServerState /\ child \in ChildState /\ server.pc = "phase1"
  BY StateTypes DEF IInv, TypeOK, ServerWaits
<1>2. Ready("server") /\ Recv("server") /\ credit' = credit /\ ServerOnly
  BY DEF ServerWaits
<1>3. /\ to_task' \in [End -> Seq(MuxMsg)] /\ to_task'["client"] = to_task["client"]
      /\ ServerTakes
      /\ m.type # "close" => m \in MuxMsg /\ Proper(m) /\ (AsksStart(m) => ~Early)
  BY <1>2, ServerRecvd
<1>4. \/ m.type = "close" /\ ServerEnds /\ cmds' = cmds
      \/ m.type = "request" /\ (PtyReq(m) \/ Spawns(m) \/ SpawnFails(m) \/ Refuses(m))
  BY DEF ServerWaits
<1> HIDE DEF m
<1>5. <<>> \in Seq(PlainMsg)
  OBVIOUS
<1>6. CASE m.type = "close" /\ ServerEnds /\ cmds' = cmds
  BY <1>2, <1>3, <1>5, <1>6, EndsQuietly
<1>7. CASE m.type = "request" /\ (PtyReq(m) \/ Spawns(m) \/ SpawnFails(m) \/ Refuses(m))
  <2>1. m.want_reply
    BY <1>3, <1>7 DEF Proper
  <2>2. \A ok : Answer(m, ok) = <<Reply(ok)>>
    BY <2>1 DEF Answer
  <2>3. CASE PtyReq(m)
    <3>1. PICK ok \in BOOLEAN : /\ server' = [server EXCEPT !.is_pty = @ \/ ok]
                                /\ Command("server", <<Reply(ok)>>)
      BY <2>2, <2>3 DEF PtyReq
    <3>2. <<Reply(ok)>> \in Seq(PlainMsg) /\ child' = child
      BY <2>3, PlainMade DEF PtyReq
    <3> DEFINE b == server.is_pty \/ ok
    <3>3. b \in BOOLEAN /\ server' = [server EXCEPT !.is_pty = b]
      BY <3>1
    <3> HIDE DEF b
    <3>4. /\ server' \in ServerState /\ server'.pc = "phase1" /\ server'.exited = server.exited
          /\ server'.stdout_eof = server.stdout_eof /\ server'.stderr_eof = server.stderr_eof
      BY <1>1, <3>3 DEF ServerState
    <3> QED  BY <1>1, <1>2, <1>3, <3>1, <3>2, <3>4, WaitsOn
  <2>4. CASE Spawns(m)
    <3>1. ~Early
      BY <1>3, <1>7, <2>4 DEF Spawns, Runs, AsksStart, Start
    <3>2. /\ Command("server", <<Reply(TRUE)>>) /\ child' = [child EXCEPT !.state = "running"]
          /\ server' = [server EXCEPT !.pc = "pump", !.child_stdin = TRUE,
                                      !.stderr_eof = server.is_pty]
      BY <2>2, <2>4 DEF Spawns
    <3> QED  BY <1>1, <1>2, <1>3, <3>1, <3>2, SpawnsKeeps
  <2>5. CASE SpawnFails(m)
    <3> DEFINE x == <<Reply(FALSE)>> \o <<Plain("close")>>
    <3>1. ServerEnds /\ Command("server", x)
      BY <2>2, <2>5 DEF SpawnFails
    <3>2. <<Reply(FALSE)>> \in Seq(PlainMsg) /\ <<Plain("close")>> \in Seq(PlainMsg)
      BY PlainMade
    <3>3. x \in Seq(PlainMsg)
      BY <3>2, ConcatProperties
    <3> HIDE DEF x
    <3> QED  BY <1>2, <1>3, <3>1, <3>3, EndsQuietly
  <2>6. CASE Refuses(m)
    <3>1. Command("server", <<Reply(FALSE)>>) /\ server' = server /\ child' = child
      BY <2>2, <2>6 DEF Refuses
    <3>2. <<Reply(FALSE)>> \in Seq(PlainMsg)
      BY PlainMade
    <3> QED  BY <1>1, <1>2, <1>3, <3>1, <3>2, WaitsOn
  <2> QED  BY <1>7, <2>3, <2>4, <2>5, <2>6
<1> QED  BY <1>4, <1>6, <1>7


\* Stdout of the child is read ...
LEMMA ReadsOutKeeps ==
    ASSUME IInv, ServerReadsOut PROVE IInv'
<1> DEFINE chunk == Upto(child.stdout, MaxChunk["server"])
           left == After(child.stdout, Len(chunk))
<1>1. /\ Typed /\ server \in ServerState /\ child \in ChildState /\ ServerKnows /\ GrantFirst
      /\ AskedFirst
      /\ server.pc = "pump" /\ ~server.stdout_eof /\ child.stdout \in Seq(Nat)
      /\ child.out \in Seq(Nat) /\ child.err \in Seq(Nat) /\ cmds["server"] \in Queue
  BY StateTypes DEF IInv, TypeOK, ServerReadsOut, Arm
<1>2. /\ server' = [server EXCEPT !.pc = "sending_out", !.buf = chunk]
      /\ child' = [child EXCEPT !.stdout = left]
      /\ UNCHANGED <<to_task, credit, cmds>> /\ ServerOnly
  BY DEF ServerReadsOut, Quiet
<1>3. MaxChunk["server"] \in Nat
  BY MuxAssumption, TwoEnds
<1>4. chunk \in Seq(Nat) /\ Len(chunk) \in Nat /\ left \in Seq(Nat)
  BY <1>1, <1>3, ReadAndLeft, CutInTwo
<1>5. /\ server' \in ServerState /\ server'.pc = "sending_out" /\ server'.buf = chunk
      /\ server'.exited = server.exited /\ server'.is_pty = server.is_pty
      /\ server'.stdout_eof = server.stdout_eof /\ server'.stderr_eof = server.stderr_eof
  <2> HIDE DEF chunk
  <2> QED  BY <1>1, <1>2, <1>4 DEF ServerState
<1>6. /\ child' \in ChildState /\ child'.state = child.state /\ child'.status = child.status
      /\ child'.stdout = left /\ child'.stderr = child.stderr
      /\ child'.out = child.out /\ child'.err = child.err
  <2> HIDE DEF left
  <2> QED  BY <1>1, <1>2, <1>4 DEF ChildState
<1>7. ServerFrame /\ QueuesTyped /\ ChildKept /\ ServerTakes
  BY <1>1, <1>2, <1>6, StateTypes
     DEF ServerFrame, ServerOnly, QueuesTyped, ChildKept, ServerTakes, TypeOK, MuxTypeOK
<1>8. Typed'
  BY <1>1, <1>5, <1>6, <1>7, ServerTyped
<1>9. child.state # "none"
  BY <1>1 DEF AskedFirst, Started
<1>10. ServerKnows'
  BY <1>1, <1>5, <1>6, <1>9 DEF ServerKnows
<1>11. GrantFirst'
  <2>1. OpenEnds' = OpenEnds /\ Started(server'.pc) /\ Started(server.pc)
    BY <1>1, <1>5, <1>7 DEF ServerFrame, OpenEnds, Started
  <2> QED  BY <1>1, <1>2, <1>7, <2>1 DEF GrantFirst, Granted, ServerFrame
<1>12. OutFlows' /\ ErrFlows'
  <2> DEFINE tq == to_task["client"]  wq == wire["server"]  cq == cmds["server"]
             buf == server.buf  n == MaxChunk["server"]  o == OpenEnds
  <2>1. "data" \in Kinds /\ "ext" \in Kinds /\ cmds'["server"] = cq
    BY <1>2 DEF Kinds
  <2>2. Flow("data", "sending_out", client.stdout, left, child.out, tq, wq, cq, o, "sending_out", chunk)
    <3> DEFINE seen == client.stdout  pipe == child.stdout  s == child.out
    <3>1. s \in Seq(Nat) /\ pipe \in Seq(Nat) /\ n \in Nat /\ chunk = Upto(pipe, n)
          /\ left = After(pipe, Len(chunk))
      BY <1>1, <1>3
    <3>2. Flow("data", "sending_out", seen, pipe, s, tq, wq, cq, o, "pump", buf)
      BY <1>1, BothFlow
    <3> HIDE DEF seen, pipe, s, tq, wq, cq, buf, n, o, chunk, left
    <3>3. Flow("data", "sending_out", seen, left, s, tq, wq, cq, o, "sending_out", chunk)
      BY <2>1, <3>1, <3>2, FlowRead
    <3> QED  BY <3>3 DEF seen, s
  <2>3. Flow("ext", "sending_err", client.stderr, child.stderr, child.err, tq, wq, cq, o,
             "sending_out", chunk)
    <3> DEFINE seen == client.stderr  pipe == child.stderr  s == child.err
    <3>1. s \in Seq(Nat) /\ cq \in Queue /\ Flow("ext", "sending_err", seen, pipe, s, tq, wq, cq, o, "pump", buf)
      BY <1>1, BothFlow
    <3>2. Grown(cq, cq)
      BY <3>1, GrownBy DEF Queue
    <3> HIDE DEF seen, pipe, s, tq, wq, cq, buf, n, o, chunk, left
    <3>3. Flow("ext", "sending_err", seen, pipe, s, tq, wq, cq, o, "sending_out", chunk)
      BY <2>1, <3>1, <3>2, FlowAnswered
    <3> QED  BY <3>3 DEF seen, pipe, s
  <2> HIDE DEF chunk, left
  <2> QED  BY <1>5, <1>6, <1>7, <2>1, <2>2, <2>3, BothFlowNext
<1>13. Elems(cmds'["server"]) = Elems(cmds["server"]) /\ Started(server'.pc)
  BY <1>2, <1>5 DEF Started
<1> HIDE DEF chunk, left
<1> QED  BY <1>5, <1>6, <1>7, <1>8, <1>9, <1>10, <1>11, <1>12, <1>13, ServerStep

\* ... and stderr.
LEMMA ReadsErrKeeps ==
    ASSUME IInv, ServerReadsErr PROVE IInv'
<1> DEFINE chunk == Upto(child.stderr, MaxChunk["server"])
           left == After(child.stderr, Len(chunk))
<1>1. /\ Typed /\ server \in ServerState /\ child \in ChildState /\ ServerKnows /\ GrantFirst
      /\ AskedFirst
      /\ server.pc = "pump" /\ ~server.stderr_eof /\ child.stderr \in Seq(Nat)
      /\ child.out \in Seq(Nat) /\ child.err \in Seq(Nat) /\ cmds["server"] \in Queue
  BY StateTypes DEF IInv, TypeOK, ServerReadsErr, Arm
<1>2. /\ server' = [server EXCEPT !.pc = "sending_err", !.buf = chunk]
      /\ child' = [child EXCEPT !.stderr = left]
      /\ UNCHANGED <<to_task, credit, cmds>> /\ ServerOnly
  BY DEF ServerReadsErr, Quiet
<1>3. MaxChunk["server"] \in Nat
  BY MuxAssumption, TwoEnds
<1>4. chunk \in Seq(Nat) /\ Len(chunk) \in Nat /\ left \in Seq(Nat)
  BY <1>1, <1>3, ReadAndLeft, CutInTwo
<1>5. /\ server' \in ServerState /\ server'.pc = "sending_err" /\ server'.buf = chunk
      /\ server'.exited = server.exited /\ server'.is_pty = server.is_pty
      /\ server'.stdout_eof = server.stdout_eof /\ server'.stderr_eof = server.stderr_eof
  <2> HIDE DEF chunk
  <2> QED  BY <1>1, <1>2, <1>4 DEF ServerState
<1>6. /\ child' \in ChildState /\ child'.state = child.state /\ child'.status = child.status
      /\ child'.stdout = child.stdout /\ child'.stderr = left
      /\ child'.out = child.out /\ child'.err = child.err
  <2> HIDE DEF left
  <2> QED  BY <1>1, <1>2, <1>4 DEF ChildState
<1>7. ServerFrame /\ QueuesTyped /\ ChildKept /\ ServerTakes
  BY <1>1, <1>2, <1>6, StateTypes
     DEF ServerFrame, ServerOnly, QueuesTyped, ChildKept, ServerTakes, TypeOK, MuxTypeOK
<1>8. Typed'
  BY <1>1, <1>5, <1>6, <1>7, ServerTyped
<1>9. child.state # "none"
  BY <1>1 DEF AskedFirst, Started
<1>10. ServerKnows'
  BY <1>1, <1>5, <1>6, <1>9 DEF ServerKnows
<1>11. GrantFirst'
  <2>1. OpenEnds' = OpenEnds /\ Started(server'.pc) /\ Started(server.pc)
    BY <1>1, <1>5, <1>7 DEF ServerFrame, OpenEnds, Started
  <2> QED  BY <1>1, <1>2, <1>7, <2>1 DEF GrantFirst, Granted, ServerFrame
<1>12. OutFlows' /\ ErrFlows'
  <2> DEFINE tq == to_task["client"]  wq == wire["server"]  cq == cmds["server"]
             buf == server.buf  n == MaxChunk["server"]  o == OpenEnds
  <2>1. "data" \in Kinds /\ "ext" \in Kinds /\ cmds'["server"] = cq
    BY <1>2 DEF Kinds
  <2>2. Flow("ext", "sending_err", client.stderr, left, child.err, tq, wq, cq, o, "sending_err", chunk)
    <3> DEFINE seen == client.stderr  pipe == child.stderr  s == child.err
    <3>1. s \in Seq(Nat) /\ pipe \in Seq(Nat) /\ n \in Nat /\ chunk = Upto(pipe, n)
          /\ left = After(pipe, Len(chunk))
      BY <1>1, <1>3
    <3>2. Flow("ext", "sending_err", seen, pipe, s, tq, wq, cq, o, "pump", buf)
      BY <1>1, BothFlow
    <3> HIDE DEF seen, pipe, s, tq, wq, cq, buf, n, o, chunk, left
    <3>3. Flow("ext", "sending_err", seen, left, s, tq, wq, cq, o, "sending_err", chunk)
      BY <2>1, <3>1, <3>2, FlowRead
    <3> QED  BY <3>3 DEF seen, s
  <2>3. Flow("data", "sending_out", client.stdout, child.stdout, child.out, tq, wq, cq, o,
             "sending_err", chunk)
    <3> DEFINE seen == client.stdout  pipe == child.stdout  s == child.out
    <3>1. s \in Seq(Nat) /\ cq \in Queue /\ Flow("data", "sending_out", seen, pipe, s, tq, wq, cq, o, "pump", buf)
      BY <1>1, BothFlow
    <3>2. Grown(cq, cq)
      BY <3>1, GrownBy DEF Queue
    <3> HIDE DEF seen, pipe, s, tq, wq, cq, buf, n, o, chunk, left
    <3>3. Flow("data", "sending_out", seen, pipe, s, tq, wq, cq, o, "sending_err", chunk)
      BY <2>1, <3>1, <3>2, FlowAnswered
    <3> QED  BY <3>3 DEF seen, pipe, s
  <2> HIDE DEF chunk, left
  <2> QED  BY <1>5, <1>6, <1>7, <2>1, <2>2, <2>3, BothFlowNext
<1>13. Elems(cmds'["server"]) = Elems(cmds["server"]) /\ Started(server'.pc)
  BY <1>2, <1>5 DEF Started
<1> HIDE DEF chunk, left
<1> QED  BY <1>5, <1>6, <1>7, <1>8, <1>9, <1>10, <1>11, <1>12, <1>13, ServerStep


\* A chunk of what was read is handed over.
LEMMA ServerSendsKeeps ==
    ASSUME IInv, ServerSends PROVE IInv'
<1> DEFINE n == remote_max("server")
           rest == After(server.buf, n)
           m == Bytes(Stream, Upto(server.buf, n))
           pc2 == IF rest = <<>> THEN "pump" ELSE server.pc
<1>1. /\ Typed /\ LoopTyped /\ server \in ServerState /\ child \in ChildState /\ ServerKnows
      /\ GrantFirst /\ AskedFirst /\ server.pc \in {"sending_out", "sending_err"}
      /\ server.buf \in Seq(Nat)
      /\ child.out \in Seq(Nat) /\ child.err \in Seq(Nat) /\ cmds["server"] \in Queue
  BY StateTypes DEF IInv, TypeOK, ServerSends
<1>2. /\ SendCredited("server", Stream, server.buf)
      /\ server' = [server EXCEPT !.buf = rest, !.pc = pc2]
      /\ child' = child /\ to_task' = to_task /\ ServerOnly
  BY DEF ServerSends
<1>3. Stream \in Kinds /\ "server" \in End /\ n \in Nat
  BY ChunkSize, TwoEnds DEF Stream, Kinds
<1>4. /\ credit' \in [End -> 0..Ceiling] /\ Command("server", <<m>>) /\ m \in MuxMsg
      /\ m.type = Stream /\ m.bytes = Upto(server.buf, n)
  BY <1>1, <1>2, <1>3, Credited
<1>5. rest \in Seq(Nat) /\ pc2 \in {"pump", "sending_out", "sending_err"}
  BY <1>1, <1>3, CutInTwo
<1>6. pc2 = server.pc \/ (rest = <<>> /\ pc2 = "pump")
  OBVIOUS
<1> HIDE DEF n, rest, m, pc2
<1>7. /\ server' \in ServerState /\ server'.pc = pc2 /\ server'.buf = rest
      /\ server'.exited = server.exited /\ server'.is_pty = server.is_pty
      /\ server'.stdout_eof = server.stdout_eof /\ server'.stderr_eof = server.stderr_eof
  BY <1>1, <1>2, <1>5 DEF ServerState
<1>8. /\ cmds' \in [End -> Seq(MuxMsg)] /\ cmds'["client"] = cmds["client"]
      /\ Sends(OpenEnds) => cmds'["server"] = Append(cmds["server"], m)
      /\ Elems(cmds'["server"]) \subseteq Elems(cmds["server"]) \cup {m}
  BY <1>1, <1>4, ServerHands
<1>9. ServerFrame /\ QueuesTyped /\ ChildKept /\ ServerTakes
  BY <1>1, <1>2, <1>4, <1>8, StateTypes
     DEF ServerFrame, ServerOnly, QueuesTyped, ChildKept, ServerTakes, TypeOK, MuxTypeOK
<1>10. Typed'
  BY <1>1, <1>2, <1>7, <1>9, ServerTyped
<1>11. child.state # "none" /\ Started(server.pc) /\ Started(server'.pc) /\ server'.pc # "writing"
       /\ server'.pc # "phase1"
  BY <1>1, <1>5, <1>7 DEF AskedFirst, Started
<1>12. ServerKnows'
  BY <1>1, <1>2, <1>7, <1>11, KnownStill
<1>13. GrantFirst'
  <2> DEFINE tq == to_task["client"]  wq == wire["server"]  cq == cmds["server"]
             cq2 == cmds'["server"]  cpc == client.pc  spc == server.pc  spc2 == server'.pc
  <2>1. /\ cq \in Queue /\ Granted(tq, wq, cq, OpenEnds, cpc, spc) /\ Started(spc)
        /\ Sends(OpenEnds) => cq2 = Append(cq, m)
    BY <1>1, <1>8, <1>11 DEF GrantFirst
  <2> HIDE DEF tq, wq, cq, cq2, cpc, spc, spc2
  <2>2. Granted(tq, wq, cq2, OpenEnds, cpc, spc2)
    BY <1>4, <2>1, GrantedHanded
  <2>3. OpenEnds' = OpenEnds
    BY <1>9 DEF ServerFrame, OpenEnds
  <2> QED  BY <1>9, <2>2, <2>3 DEF GrantFirst, ServerFrame, tq, wq, cq2, cpc, spc2
<1>14. OutFlows' /\ ErrFlows'
  <2> DEFINE tq == to_task["client"]  wq == wire["server"]  cq == cmds["server"]
             cq2 == cmds'["server"]  pc == server.pc  buf == server.buf  o == OpenEnds
  <2>1. /\ "data" \in Kinds /\ "ext" \in Kinds /\ cq \in Queue /\ buf \in Seq(Nat)
        /\ Sends(o) => cq2 = Append(cq, m)
        /\ rest = After(buf, n) /\ m.bytes = Upto(buf, n)
        /\ pc \in {"sending_out", "sending_err"} /\ (pc2 = pc \/ (rest = <<>> /\ pc2 = "pump"))
        /\ m.type = (IF pc = "sending_err" THEN "ext" ELSE "data")
    BY <1>1, <1>4, <1>6, <1>8 DEF Kinds, Stream, rest
  <2>2. Flow("data", "sending_out", client.stdout, child.stdout, child.out, tq, wq, cq2, o, pc2, rest)
    <3> DEFINE seen == client.stdout  pipe == child.stdout  s == child.out
    <3>1. s \in Seq(Nat) /\ Flow("data", "sending_out", seen, pipe, s, tq, wq, cq, o, pc, buf)
      BY <1>1, BothFlow
    <3> HIDE DEF seen, pipe, s, tq, wq, cq, cq2, pc, buf, o
    <3>2. CASE pc = "sending_out"
      <4>1. m.type = "data" /\ (pc2 = "sending_out" \/ rest = <<>>)
        BY <2>1, <3>2
      <4>2. Flow("data", "sending_out", seen, pipe, s, tq, wq, cq2, o, pc2, rest)
        BY <1>3, <1>4, <2>1, <3>1, <3>2, <4>1, FlowSent
      <4> QED  BY <4>2 DEF seen, pipe, s
    <3>3. CASE pc = "sending_err"
      <4>1. Silent(m, "data") /\ pc2 # "sending_out" /\ pc2 # "done"
        BY <2>1, <3>3 DEF Silent
      <4>2. Flow("data", "sending_out", seen, pipe, s, tq, wq, cq2, o, pc2, rest)
        BY <1>4, <2>1, <3>1, <3>3, <4>1, FlowOther
      <4> QED  BY <4>2 DEF seen, pipe, s
    <3> QED  BY <2>1, <3>2, <3>3
  <2>3. Flow("ext", "sending_err", client.stderr, child.stderr, child.err, tq, wq, cq2, o, pc2, rest)
    <3> DEFINE seen == client.stderr  pipe == child.stderr  s == child.err
    <3>1. s \in Seq(Nat) /\ Flow("ext", "sending_err", seen, pipe, s, tq, wq, cq, o, pc, buf)
      BY <1>1, BothFlow
    <3> HIDE DEF seen, pipe, s, tq, wq, cq, cq2, pc, buf, o
    <3>2. CASE pc = "sending_err"
      <4>1. m.type = "ext" /\ (pc2 = "sending_err" \/ rest = <<>>)
        BY <2>1, <3>2
      <4>2. Flow("ext", "sending_err", seen, pipe, s, tq, wq, cq2, o, pc2, rest)
        BY <1>3, <1>4, <2>1, <3>1, <3>2, <4>1, FlowSent
      <4> QED  BY <4>2 DEF seen, pipe, s
    <3>3. CASE pc = "sending_out"
      <4>1. Silent(m, "ext") /\ pc2 # "sending_err" /\ pc2 # "done"
        BY <2>1, <3>3 DEF Silent
      <4>2. Flow("ext", "sending_err", seen, pipe, s, tq, wq, cq2, o, pc2, rest)
        BY <1>4, <2>1, <3>1, <3>3, <4>1, FlowOther
      <4> QED  BY <4>2 DEF seen, pipe, s
    <3> QED  BY <2>1, <3>2, <3>3
  <2> QED  BY <1>2, <1>7, <1>9, <2>2, <2>3, BothFlowNext
<1>15. m.type # "request"
  BY <1>3, <1>4 DEF Kinds
<1>16. \A x \in Elems(cmds'["server"]) : x \in Elems(cmds["server"]) \/ ~Payload(x) \/
          (/\ child'.state # "none"
           /\ x.type = "request" => child'.state = "exited" /\ x.kind = child'.status)
  BY <1>2, <1>8, <1>11, <1>15
<1> QED  BY <1>2, <1>9, <1>10, <1>11, <1>12, <1>13, <1>14, <1>16, ServerStep

\* Three queues in a row.
LEMMA ThreeJoined ==
    ASSUME NEW a \in Seq(MuxMsg), NEW b \in Seq(MuxMsg), NEW c \in Seq(MuxMsg)
    PROVE  (a \o b) \o c = a \o (b \o c)
<1> DEFINE l == (a \o b) \o c  r == a \o (b \o c)
<1>1. l \in Seq(MuxMsg) /\ r \in Seq(MuxMsg)
  OBVIOUS
<1>2. Len(l) = Len(r)
  OBVIOUS
<1>3. \A i \in 1..Len(l) : l[i] = r[i]
  OBVIOUS
<1> HIDE DEF l, r
<1>4. l = r
  BY <1>1, <1>2, <1>3, SeqEqual
<1> QED  BY <1>4 DEF l, r

\* The report: status, end of output, close.
LEMMA ReportsKeeps ==
    ASSUME IInv, ServerReports PROVE IInv'
<1> DEFINE m == Request(server.exited, FALSE)
           x == <<Plain("eof"), Plain("close")>>
           cq1 == Append(cmds["server"], m)
<1>1. /\ Typed /\ LoopTyped /\ server \in ServerState /\ child \in ChildState /\ ServerKnows
      /\ GrantFirst /\ AskedFirst /\ server.pc = "pump"
      /\ child.out \in Seq(Nat) /\ child.err \in Seq(Nat) /\ cmds["server"] \in Queue
      /\ to_task \in [End -> Seq(MuxMsg)] /\ credit \in [End -> 0..Ceiling]
  BY StateTypes DEF IInv, TypeOK, MuxTypeOK, ServerReports
<1>2. /\ ServerEnds /\ Command("server", Report) /\ to_task' = to_task /\ credit' = credit /\ ServerOnly
  BY DEF ServerReports
<1>3. /\ child.state = "exited" /\ server.exited = child.status /\ server.exited # "none"
      /\ child.stdout = <<>> /\ child.stderr = <<>>
  BY <1>1 DEF ServerReports, Drained, ServerKnows
<1>4. m \in MuxMsg /\ m.type = "request" /\ m.kind = child.status
  <2>1. server.exited \in Status
    BY <1>1, <1>3 DEF ServerState
  <2>2. server.exited \in RequestKinds /\ FALSE \in BOOLEAN
    BY <2>1, SessionAssumption
  <2> QED  BY <1>3, <2>2, Made
<1>5. x \in Seq(PlainMsg) /\ x \in Seq(MuxMsg)
  BY PlainMade DEF PlainMsg
<1>6. /\ Report = <<m>> \o x
  <2> DEFINE e == Plain("eof")  c == Plain("close")
  <2>1. Report = <<m, e, c>> /\ e \in MuxMsg /\ c \in MuxMsg
    BY Made DEF Report
  <2>2. ASSUME NEW a \in MuxMsg, NEW b \in MuxMsg, NEW d \in MuxMsg
        PROVE  <<a>> \o <<b, d>> = <<a, b, d>>
    <3> DEFINE y == <<a>>  z == <<b, d>>
    <3>1. y \in Seq(MuxMsg) /\ z \in Seq(MuxMsg) /\ <<a, b, d>> \in Seq(MuxMsg)
          /\ Len(y) = 1 /\ Len(z) = 2 /\ y[1] = a /\ z[1] = b /\ z[2] = d
      OBVIOUS
    <3>2. /\ y \o z \in Seq(MuxMsg) /\ Len(y \o z) = 3
          /\ (y \o z)[1] = a /\ (y \o z)[2] = b /\ (y \o z)[3] = d
      <4> HIDE DEF y, z
      <4>1. /\ y \o z \in Seq(MuxMsg) /\ Len(y \o z) = Len(y) + Len(z)
            /\ \A i \in 1..(Len(y) + Len(z)) : (y \o z)[i] =
                   IF i <= Len(y) THEN y[i] ELSE z[i - Len(y)]
        BY <3>1, ConcatProperties
      <4>2. 1 + 2 = 3 /\ 1 \in 1..3 /\ 2 \in 1..3 /\ 3 \in 1..3 /\ 2 - 1 = 1 /\ 3 - 1 = 2
            /\ 1 <= 1 /\ ~(2 <= 1) /\ ~(3 <= 1)
        OBVIOUS
      <4> QED  BY <3>1, <4>1, <4>2
    <3> HIDE DEF y, z
    <3>3. \A i \in 1..3 : (y \o z)[i] = <<a, b, d>>[i]
      BY <3>2
    <3>4. y \o z = <<a, b, d>>
      <4> DEFINE w == y \o z  v == <<a, b, d>>
      <4>1. Len(v) = 3 /\ v \in Seq(MuxMsg) /\ w \in Seq(MuxMsg) /\ Len(w) = 3
            /\ \A i \in 1..3 : w[i] = v[i]
        BY <3>1, <3>2, <3>3
      <4> HIDE DEF w, v
      <4>2. w = v
        BY <4>1, SeqEqual
      <4> QED  BY <4>2 DEF w, v
    <3> QED  BY <3>4 DEF y, z
  <2> HIDE DEF e, c, m
  <2>3. <<m>> \o <<e, c>> = <<m, e, c>>
    BY <1>4, <2>1, <2>2
  <2> QED  BY <2>1, <2>3 DEF e, c
<1> HIDE DEF m, x
<1>7. <<m>> \o x \in Queue /\ <<m>> \in Seq(MuxMsg) /\ cmds["server"] \in Seq(MuxMsg)
  BY <1>1, <1>4, <1>5, ConcatProperties DEF Queue
<1>8. cq1 \in Queue /\ cmds["server"] \o (<<m>> \o x) = cq1 \o x
  <2>1. cmds["server"] \o (<<m>> \o x) = (cmds["server"] \o <<m>>) \o x
    <3> DEFINE a == cmds["server"]  b == <<m>>
    <3>1. a \in Seq(MuxMsg) /\ b \in Seq(MuxMsg) /\ x \in Seq(MuxMsg)
      BY <1>5, <1>7
    <3> HIDE DEF a, b
    <3>2. (a \o b) \o x = a \o (b \o x)
      BY <3>1, ThreeJoined
    <3> QED  BY <3>2 DEF a, b
  <2> QED  BY <1>4, <1>7, <2>1, OneMore, ZenonT(60) DEF Queue
<1>9. /\ cmds' \in [End -> Seq(MuxMsg)] /\ cmds'["client"] = cmds["client"]
      /\ cmds'["server"] = IF up("server") THEN cq1 \o x ELSE cmds["server"]
  BY <1>1, <1>2, <1>6, <1>7, <1>8, Commanded, TwoEnds
<1>10. Elems(cq1) = Elems(cmds["server"]) \cup {m}
  BY <1>4, <1>7, ElemsMore
<1> HIDE DEF cq1
<1>11. Grown(cq1, cq1 \o x)
  BY <1>5 DEF Grown
<1>12. Elems(cmds'["server"]) \subseteq Elems(cmds["server"]) \cup {m} \cup PlainMsg
  BY <1>8, <1>9, <1>10, <1>11, ElemsGrown DEF Queue
<1>13. Sends(OpenEnds) => Grown(cq1, cmds'["server"])
  BY <1>1, <1>9, <1>11, SendsUp
<1>14. /\ server' \in ServerState /\ child' \in ChildState /\ ChildKept /\ ServerKnows'
       /\ child'.stdout = child.stdout /\ child'.stderr = child.stderr
       /\ server'.pc = "done" /\ (child'.state # "none" => child.state # "none")
  BY <1>2, Ended
<1>15. ServerFrame /\ QueuesTyped /\ ServerTakes
  BY <1>1, <1>2, <1>9 DEF ServerFrame, ServerOnly, QueuesTyped, ServerTakes
<1>16. Typed'
  BY <1>1, <1>14, <1>15, ServerTyped
<1>17. GrantFirst'
  <2> DEFINE tq == to_task["client"]  wq == wire["server"]  cq == cmds["server"]
             cq2 == cmds'["server"]  cpc == client.pc
  <2>1. /\ cq \in Queue /\ Granted(tq, wq, cq, OpenEnds, cpc, "pump")
        /\ Started("pump") /\ ~Started("done")
        /\ Sends(OpenEnds) => Grown(cq1, cq2)
        /\ cq1 = Append(cq, m)
    BY <1>1, <1>13 DEF GrantFirst, Started, cq1
  <2> HIDE DEF tq, wq, cq, cq2, cpc
  <2>2. Granted(tq, wq, cq1, OpenEnds, cpc, "done")
    BY <1>4, <2>1, GrantedHanded
  <2>3. Granted(tq, wq, cq2, OpenEnds, cpc, "done")
    BY <1>8, <2>1, <2>2, GrantedAnswered
  <2>4. OpenEnds' = OpenEnds
    BY <1>15 DEF ServerFrame, OpenEnds
  <2> QED  BY <1>14, <1>15, <2>3, <2>4 DEF GrantFirst, ServerFrame, tq, wq, cq2, cpc
<1>18. OutFlows' /\ ErrFlows'
  <2> DEFINE tq == to_task["client"]  wq == wire["server"]  cq == cmds["server"]
             cq2 == cmds'["server"]  buf == server.buf  buf2 == server'.buf  o == OpenEnds
  <2>1. /\ "data" \in Kinds /\ "ext" \in Kinds /\ cq \in Queue /\ cq1 = Append(cq, m)
        /\ Sends(o) => Grown(cq1, cq2)
    BY <1>1, <1>13 DEF Kinds, cq1
  <2>2. Flow("data", "sending_out", client.stdout, child.stdout, child.out, tq, wq, cq2, o, "done", buf2)
    <3> DEFINE seen == client.stdout  pipe == child.stdout  s == child.out
    <3>1. s \in Seq(Nat) /\ pipe = <<>> /\ Flow("data", "sending_out", seen, pipe, s, tq, wq, cq, o, "pump", buf)
      BY <1>1, <1>3, BothFlow
    <3> HIDE DEF seen, pipe, s, tq, wq, cq, cq2, buf, buf2, o
    <3>2. Flow("data", "sending_out", seen, pipe, s, tq, wq, cq1, o, "done", buf2)
      BY <1>4, <2>1, <3>1, FlowReported
    <3>3. Flow("data", "sending_out", seen, pipe, s, tq, wq, cq2, o, "done", buf2)
      BY <1>8, <2>1, <3>1, <3>2, FlowAnswered
    <3> QED  BY <3>3 DEF seen, pipe, s
  <2>3. Flow("ext", "sending_err", client.stderr, child.stderr, child.err, tq, wq, cq2, o, "done", buf2)
    <3> DEFINE seen == client.stderr  pipe == child.stderr  s == child.err
    <3>1. s \in Seq(Nat) /\ pipe = <<>> /\ Flow("ext", "sending_err", seen, pipe, s, tq, wq, cq, o, "pump", buf)
      BY <1>1, <1>3, BothFlow
    <3> HIDE DEF seen, pipe, s, tq, wq, cq, cq2, buf, buf2, o
    <3>2. Flow("ext", "sending_err", seen, pipe, s, tq, wq, cq1, o, "done", buf2)
      BY <1>4, <2>1, <3>1, FlowReported
    <3>3. Flow("ext", "sending_err", seen, pipe, s, tq, wq, cq2, o, "done", buf2)
      BY <1>8, <2>1, <3>1, <3>2, FlowAnswered
    <3> QED  BY <3>3 DEF seen, pipe, s
  <2> QED  BY <1>14, <1>15, <2>2, <2>3, BothFlowNext DEF ChildKept
<1>19. \A y \in Elems(cmds'["server"]) : y \in Elems(cmds["server"]) \/ ~Payload(y) \/
          (/\ child'.state # "none"
           /\ y.type = "request" => child'.state = "exited" /\ y.kind = child'.status)
  <2>1. child'.state = "exited" /\ child'.status = child.status
    BY <1>3, <1>14 DEF ChildKept
  <2> QED  BY <1>4, <1>12, <2>1 DEF PlainMsg
<1>20. ~Started(server'.pc)
  BY <1>14 DEF Started
<1> QED  BY <1>14, <1>15, <1>16, <1>17, <1>18, <1>19, <1>20, ServerStep

\* The server task keeps the invariant.
LEMMA ServerKeeps ==
    ASSUME IInv, ServerTask PROVE IInv'
BY WaitsKeeps, ReportsKeeps, ServerRecvKeeps, WritesKeeps, WriteFailsKeeps, ReadsOutKeeps,
   ReadsErrKeeps, OutEndsKeeps, ErrEndsKeeps, ReapsKeeps, ServerSendsKeeps,
   ServerCreditClosedKeeps DEF ServerTask


-----------------------------------------------------------------------------
(* The child keeps the invariant.                                          *)

\* The pipe holds all of the stream from the (f + 1)st byte on.
Unread(pipe, s, f) == Piece(pipe, s, f) /\ f + Len(pipe) = Len(s)

\* A pipe that takes what the child writes holds the end of all it wrote.
LEMMA PipeLonger ==
    ASSUME NEW pipe \in Seq(Nat), NEW s \in Seq(Nat), NEW x \in Seq(Nat), NEW f \in Nat,
           Unread(pipe, s, f), NEW p, p = pipe \o x, NEW u, u = s \o x
    PROVE  Unread(p, u, f)
<1> DEFINE l == Len(pipe)  t == Len(s)  j == Len(x)
<1>1. /\ l \in Nat /\ t \in Nat /\ j \in Nat /\ f + l = t
      /\ Len(p) = l + j /\ Len(u) = t + j
  BY DEF Unread
<1>2. /\ \A k \in 1..(l + j) : p[k] = (IF k <= l THEN pipe[k] ELSE x[k - l])
      /\ \A k \in 1..(t + j) : u[k] = (IF k <= t THEN s[k] ELSE x[k - t])
  BY ConcatProperties
<1>3. \A k \in 1..l : pipe[k] = s[f + k]
  BY DEF Piece, Unread
<1> HIDE DEF l, t, j
<1>4. ASSUME NEW k \in 1..(l + j) PROVE p[k] = u[f + k]
  <2>1. f + k \in 1..(t + j)
    BY <1>1
  <2>2. CASE k <= l
    <3>1. f + k <= t /\ k \in 1..l
      BY <1>1, <2>2
    <3> QED  BY <1>2, <1>3, <2>1, <2>2, <3>1
  <2>3. CASE ~(k <= l)
    <3>1. ~(f + k <= t) /\ (f + k) - t = k - l
      BY <1>1, <2>3
    <3> QED  BY <1>2, <2>1, <2>3, <3>1
  <2> QED  BY <2>2, <2>3
<1>5. f + (l + j) = t + j /\ f + (l + j) <= t + j
  BY <1>1
<1>6. \A k \in 1..Len(p) : p[k] = u[f + k]
  BY <1>1, <1>4
<1> QED  BY <1>1, <1>5, <1>6 DEF Piece, Unread

\* The stream, when the child writes and no status is on its way.
LEMMA FlowLonger ==
    ASSUME NEW kind \in Kinds, NEW busy, NEW seen \in Seq(Nat), NEW pipe \in Seq(Nat),
           NEW s \in Seq(Nat), NEW tq \in Queue, NEW wq \in Queue, NEW cq \in Queue, NEW o,
           NEW pc, NEW buf \in Seq(Nat),
           Flow(kind, busy, seen, pipe, s, tq, wq, cq, o, pc, buf),
           \A m \in Elems(tq) \cup Elems(wq) \cup Elems(cq) : m.type # "request",
           NEW x \in Seq(Nat), NEW pipe2, pipe2 = pipe \o x, NEW s2, s2 = s \o x
    PROVE  Flow(kind, busy, seen, pipe2, s2, tq, wq, cq, o, pc, buf)
<1>1. PICK d, f \in 0..Len(s) :
          /\ Along(kind, s, Len(seen), d, tq, wq, cq, o)
          /\ Sends(o) /\ pc # "done" => Holding(busy, pipe, s, d, f, pc, buf)
  BY DEF Flow
<1>2. Along(kind, s2, Len(seen), d, tq, wq, cq, o)
  BY <1>1, AlongLonger
<1>3. /\ Piece(seen, s, 0) /\ Len(seen) \in Nat /\ Len(buf) \in Nat /\ d \in Nat /\ f \in Nat
      /\ d \in 0..Len(s2) /\ f \in 0..Len(s2)
  <2>1. Len(s2) = Len(s) + Len(x) /\ Len(x) \in Nat /\ Len(s) \in Nat
    OBVIOUS
  <2>2. Piece(seen, s, 0) /\ Len(seen) \in Nat /\ Len(buf) \in Nat
    BY DEF Flow
  <2> QED  BY <2>1, <2>2
<1>4. Piece(seen, s2, 0)
  BY <1>3, PieceLonger
<1>5. ASSUME Holding(busy, pipe, s, d, f, pc, buf)
      PROVE  Holding(busy, pipe2, s2, d, f, pc, buf)
  <2>1. pc = busy => Piece(buf, s2, d)
    BY <1>3, <1>5, PieceLonger DEF Holding
  <2>2. Unread(pipe, s, f)
    BY <1>5 DEF Holding, Unread
  <2>3. Unread(pipe2, s2, f)
    BY <1>3, <2>2, PipeLonger
  <2> QED  BY <1>5, <2>1, <2>3 DEF Holding, Unread
<1> QED  BY <1>1, <1>2, <1>3, <1>4, <1>5 DEF Flow

\* What no step of the child touches.
ChildFrame == UNCHANGED <<loopVars, job, client, server>>

\* While the child runs there is no status.
LEMMA NoStatusYet ==
    ASSUME IInv, child.state = "running"
    PROVE  /\ \A m \in Sent("server") : m.type # "request"
           /\ client.exit_status \notin Status /\ client.result \notin Status
           /\ ~server.stdout_eof /\ (server.stderr_eof => server.is_pty)
           /\ server.exited = "none" /\ server.pc # "phase1" /\ ~Early
BY DEF IInv, StatusTrue, Final, ServerKnows, AskedFirst

\* What the invariant asks of a step of the child.
LEMMA ChildStep ==
    ASSUME IInv, ChildFrame, child.state = "running", child' \in ChildState,
           child'.state \in {"running", "exited"},
           child'.stderr = child.stderr \/ ~server.is_pty,
           OutFlows', ErrFlows'
    PROVE  IInv'
<1>1. /\ Typed /\ GrantFirst /\ AskedFirst /\ RepliesDue /\ Filled /\ ServerKnows
  BY DEF IInv
<1>2. /\ run' = run /\ chan' = chan /\ credit' = credit /\ sem_closed' = sem_closed
      /\ to_task' = to_task /\ cmds' = cmds /\ wire' = wire
      /\ job' = job /\ client' = client /\ server' = server
  BY DEF ChildFrame, loopVars
<1>3. Typed'
  <2>1. LoopTyped' /\ MuxTypeOK'
    BY <1>1, <1>2 DEF Typed, LoopTyped, MuxTypeOK, up
  <2>2. child' \in ChildState'
    BY DEF ChildState
  <2>3. TypeOK'
    BY <1>1, <1>2, <2>1, <2>2 DEF Typed, TypeOK, ClientState, ServerState
  <2> QED  BY <2>1, <2>3 DEF Typed
<1>4. Sent("server")' = Sent("server") /\ Sent("client")' = Sent("client")
      /\ OpenEnds' = OpenEnds /\ Early' = Early
  BY <1>2 DEF Sent, Elems, OpenEnds, Early
<1>5. GrantFirst' /\ RepliesDue' /\ Filled'
  <2>1. GrantFirst'
    BY <1>1, <1>2, <1>4 DEF GrantFirst
  <2>2. RepliesDue'
    BY <1>1, <1>4 DEF RepliesDue
  <2>3. Filled'
    BY <1>1, <1>2 DEF Filled
  <2> QED  BY <2>1, <2>2, <2>3
<1>6. AskedFirst'
  BY <1>4, NoStatusYet DEF AskedFirst
<1>7. StatusTrue'
  BY <1>4, NoStatusYet DEF StatusTrue
<1>8. Final(client.exit_status)' /\ Final(client.result)'
  BY <1>2, NoStatusYet DEF Final
<1>9. ServerKnows'
  BY <1>1, <1>2, NoStatusYet DEF ServerKnows
<1> QED  BY <1>3, <1>5, <1>6, <1>7, <1>8, <1>9 DEF IInv

\* A stream that nothing is written to ...
LEMMA StreamStays ==
    ASSUME IInv, ChildFrame
    PROVE  /\ child'.stdout = child.stdout /\ child'.out = child.out => OutFlows'
           /\ child'.stderr = child.stderr /\ child'.err = child.err => ErrFlows'
<1>1. /\ to_task' = to_task /\ cmds' = cmds /\ wire' = wire /\ client' = client /\ server' = server
      /\ OpenEnds' = OpenEnds
  BY DEF ChildFrame, loopVars, OpenEnds
<1> QED  BY <1>1, BothFlow DEF OutFlows, ErrFlows, Flowing

\* ... and one that something is.
LEMMA StreamGrows ==
    ASSUME IInv, ChildFrame, child.state = "running", NEW x \in Seq(Nat)
    PROVE  /\ child'.stdout = child.stdout \o x /\ child'.out = child.out \o x => OutFlows'
           /\ child'.stderr = child.stderr \o x /\ child'.err = child.err \o x => ErrFlows'
<1>1. /\ to_task' = to_task /\ cmds' = cmds /\ wire' = wire /\ client' = client /\ server' = server
      /\ OpenEnds' = OpenEnds
  BY DEF ChildFrame, loopVars, OpenEnds
<1> DEFINE tq == to_task["client"]  wq == wire["server"]  cq == cmds["server"]
           pc == server.pc  buf == server.buf  o == OpenEnds
<1>2. /\ tq \in Queue /\ wq \in Queue /\ cq \in Queue /\ buf \in Seq(Nat)
      /\ "data" \in Kinds /\ "ext" \in Kinds
      /\ client.stdout \in Seq(Nat) /\ child.stdout \in Seq(Nat) /\ child.out \in Seq(Nat)
      /\ client.stderr \in Seq(Nat) /\ child.stderr \in Seq(Nat) /\ child.err \in Seq(Nat)
  BY StateTypes DEF IInv, Kinds
<1>3. \A m \in Elems(tq) \cup Elems(wq) \cup Elems(cq) : m.type # "request"
  BY NoStatusYet, TwoEnds DEF Sent
<1>4. ASSUME child'.stdout = child.stdout \o x, child'.out = child.out \o x PROVE OutFlows'
  <2> DEFINE seen == client.stdout  pipe == child.stdout  s == child.out
             pipe2 == child'.stdout  s2 == child'.out
  <2>1. /\ Flow("data", "sending_out", seen, pipe, s, tq, wq, cq, o, pc, buf)
        /\ seen \in Seq(Nat) /\ pipe \in Seq(Nat) /\ s \in Seq(Nat)
        /\ pipe2 = pipe \o x /\ s2 = s \o x
    BY <1>2, <1>4, BothFlow
  <2> HIDE DEF seen, pipe, s, pipe2, s2, tq, wq, cq, pc, buf, o
  <2>2. Flow("data", "sending_out", seen, pipe2, s2, tq, wq, cq, o, pc, buf)
    BY <1>2, <1>3, <2>1, FlowLonger
  <2> QED  BY <1>1, <2>2 DEF OutFlows, Flowing, seen, pipe2, s2, tq, wq, cq, pc, buf, o
<1>5. ASSUME child'.stderr = child.stderr \o x, child'.err = child.err \o x PROVE ErrFlows'
  <2> DEFINE seen == client.stderr  pipe == child.stderr  s == child.err
             pipe2 == child'.stderr  s2 == child'.err
  <2>1. /\ Flow("ext", "sending_err", seen, pipe, s, tq, wq, cq, o, pc, buf)
        /\ seen \in Seq(Nat) /\ pipe \in Seq(Nat) /\ s \in Seq(Nat)
        /\ pipe2 = pipe \o x /\ s2 = s \o x
    BY <1>2, <1>5, BothFlow
  <2> HIDE DEF seen, pipe, s, pipe2, s2, tq, wq, cq, pc, buf, o
  <2>2. Flow("ext", "sending_err", seen, pipe2, s2, tq, wq, cq, o, pc, buf)
    BY <1>2, <1>3, <2>1, FlowLonger
  <2> QED  BY <1>1, <2>2 DEF ErrFlows, Flowing, seen, pipe2, s2, tq, wq, cq, pc, buf, o
<1> QED  BY <1>4, <1>5

\* The child reads ...
LEMMA ChildReadsKeeps ==
    ASSUME IInv, ChildFrame, ChildReads PROVE IInv'
<1> DEFINE t == Tail(child.stdin)
           h == IF job.prog = "echo" THEN <<Head(child.stdin)>> ELSE child.held
<1>1. /\ child \in ChildState /\ child.state = "running" /\ child.stdin # <<>>
      /\ child' = [child EXCEPT !.stdin = t, !.held = h]
  BY StateTypes DEF IInv, TypeOK, ChildReads
<1>2. child.stdin \in Seq(Nat) /\ child.held \in Seq(Nat)
  BY <1>1 DEF ChildState
<1>3. t \in Seq(Nat) /\ Head(child.stdin) \in Nat
  BY <1>1, <1>2, OneLess
<1>4. h \in Seq(Nat)
  BY <1>2, <1>3
<1> HIDE DEF t, h
<1>5. /\ child' \in ChildState /\ child'.state = "running"
      /\ child'.stdout = child.stdout /\ child'.out = child.out
      /\ child'.stderr = child.stderr /\ child'.err = child.err
  BY <1>1, <1>3, <1>4 DEF ChildState
<1> QED  BY <1>1, <1>5, StreamStays, ChildStep

\* ... copies ...
LEMMA ChildEchoesKeeps ==
    ASSUME IInv, ChildFrame, ChildEchoes PROVE IInv'
<1> DEFINE x == child.held  p == child.stdout \o x  u == child.out \o x  none == <<>>
<1>1. /\ child \in ChildState /\ child.state = "running"
      /\ child' = [child EXCEPT !.held = none, !.stdout = p, !.out = u]
  BY StateTypes DEF IInv, TypeOK, ChildEchoes
<1>2. child.stdout \in Seq(Nat) /\ child.out \in Seq(Nat) /\ x \in Seq(Nat)
  BY <1>1 DEF ChildState
<1>3. p \in Seq(Nat) /\ u \in Seq(Nat) /\ none \in Seq(Nat)
  BY <1>2
<1> HIDE DEF p, u, none
<1>4. /\ child' \in ChildState /\ child'.state = "running" /\ child'.stdout = p /\ child'.out = u
      /\ child'.stderr = child.stderr /\ child'.err = child.err
  BY <1>1, <1>3 DEF ChildState
<1>5. child'.stdout = child.stdout \o x /\ child'.out = child.out \o x
  BY <1>4 DEF p, u
<1> HIDE DEF x
<1> QED  BY <1>1, <1>2, <1>4, <1>5, StreamStays, StreamGrows, ChildStep

\* ... writes of its own ...
LEMMA ChildTalksKeeps ==
    ASSUME IInv, ChildFrame, ChildTalks PROVE IInv'
<1> DEFINE n == Spoken + 1  x == <<n>>
<1>1. child \in ChildState /\ child.state = "running"
  BY StateTypes DEF IInv, TypeOK, ChildTalks
<1>2. /\ child.stdout \in Seq(Nat) /\ child.out \in Seq(Nat)
      /\ child.stderr \in Seq(Nat) /\ child.err \in Seq(Nat)
  BY <1>1 DEF ChildState
<1>3. \/ child' = [child EXCEPT !.stdout = Append(child.stdout, n), !.out = Append(child.out, n)]
      \/ /\ ~server.is_pty
         /\ child' = [child EXCEPT !.stderr = Append(child.stderr, n), !.err = Append(child.err, n)]
  BY DEF ChildTalks
<1>4. n \in Nat
  <2>1. Len(child.out) \in Nat
    BY <1>2
  <2>2. Len(child.err) \in Nat
    BY <1>2
  <2> DEFINE a == Len(child.out)  b == Len(child.err)
  <2>3. n = a + b + 1
    BY DEF Spoken
  <2> HIDE DEF n, a, b
  <2>4. a \in Nat /\ b \in Nat
    BY <2>1, <2>2 DEF a, b
  <2> QED  BY <2>3, <2>4
<1> HIDE DEF n
<1>5. x \in Seq(Nat)
  BY <1>4
<1>6. \A s \in Seq(Nat) : Append(s, n) = s \o x /\ Append(s, n) \in Seq(Nat)
  BY <1>4, OneMore
<1> HIDE DEF x
<1>7. CASE child' = [child EXCEPT !.stdout = Append(child.stdout, n), !.out = Append(child.out, n)]
  <2> DEFINE p == child.stdout \o x  u == child.out \o x
  <2>1. p \in Seq(Nat) /\ u \in Seq(Nat) /\ child' = [child EXCEPT !.stdout = p, !.out = u]
    BY <1>2, <1>6, <1>7
  <2> HIDE DEF p, u
  <2>2. /\ child' \in ChildState /\ child'.state = "running" /\ child'.stdout = p /\ child'.out = u
        /\ child'.stderr = child.stderr /\ child'.err = child.err
    BY <1>1, <2>1 DEF ChildState
  <2>3. child'.stdout = child.stdout \o x /\ child'.out = child.out \o x
    BY <2>2 DEF p, u
  <2> QED  BY <1>1, <1>5, <2>2, <2>3, StreamStays, StreamGrows, ChildStep
<1>8. CASE /\ ~server.is_pty
           /\ child' = [child EXCEPT !.stderr = Append(child.stderr, n), !.err = Append(child.err, n)]
  <2> DEFINE p == child.stderr \o x  u == child.err \o x
  <2>1. p \in Seq(Nat) /\ u \in Seq(Nat) /\ child' = [child EXCEPT !.stderr = p, !.err = u]
    BY <1>2, <1>6, <1>8
  <2> HIDE DEF p, u
  <2>2. /\ child' \in ChildState /\ child'.state = "running" /\ child'.stderr = p /\ child'.err = u
        /\ child'.stdout = child.stdout /\ child'.out = child.out
    BY <1>1, <2>1 DEF ChildState
  <2>3. child'.stderr = child.stderr \o x /\ child'.err = child.err \o x
    BY <2>2 DEF p, u
  <2> QED  BY <1>1, <1>5, <1>8, <2>2, <2>3, StreamStays, StreamGrows, ChildStep
<1> QED  BY <1>3, <1>7, <1>8

\* ... and ends.
LEMMA ChildExitsKeeps ==
    ASSUME IInv, ChildFrame, ChildExits PROVE IInv'
<1> DEFINE none == <<>>
<1>1. child \in ChildState /\ child.state = "running" /\ none \in Seq(Nat)
  BY StateTypes DEF IInv, TypeOK, ChildExits
<1>2. PICK s \in Status : child' = [child EXCEPT !.state = "exited", !.status = s, !.stdin = none]
  BY DEF ChildExits
<1> HIDE DEF none
<1>3. /\ child' \in ChildState /\ child'.state = "exited"
      /\ child'.stdout = child.stdout /\ child'.out = child.out
      /\ child'.stderr = child.stderr /\ child'.err = child.err
  BY <1>1, <1>2 DEF ChildState
<1> QED  BY <1>1, <1>3, StreamStays, ChildStep

\* The child keeps the invariant.
LEMMA ChildKeeps ==
    ASSUME IInv, ChildRuns PROVE IInv'
BY ChildReadsKeeps, ChildEchoesKeeps, ChildTalksKeeps, ChildExitsKeeps DEF ChildRuns, ChildFrame

-----------------------------------------------------------------------------
(* The invariant, and what it says.                                        *)

\* An empty queue carries nothing.
LEMMA EmptyFlow ==
    ASSUME NEW kind, NEW busy, NEW o, NEW pc, pc # busy, NEW buf, NEW none, none = <<>>
    PROVE  Flow(kind, busy, none, none, none, none, none, none, o, pc, buf)
<1>1. Len(none) = 0 /\ 0 \in 0..0 /\ 1..0 = {} /\ 0 + 0 = 0 /\ 0 <= 0
  OBVIOUS
<1>2. Piece(none, none, 0) /\ Holding(busy, none, none, 0, 0, pc, buf)
  BY <1>1 DEF Piece, Holding
<1>3. Carries(none, kind, none, 0, 0)
  <2> DEFINE at == [i \in 0..0 |-> 0]
  <2>1. at \in [0..Len(none) -> 0..Len(none)] /\ at[0] = 0 /\ at[Len(none)] = 0
    BY <1>1
  <2> HIDE DEF at
  <2> QED  BY <1>1, <2>1 DEF Carries
<1>4. Along(kind, none, 0, 0, none, none, none, o)
  BY <1>1, <1>3 DEF Along
<1> QED  BY <1>1, <1>2, <1>4 DEF Flow

\* Initially there is nothing anywhere.
LEMMA InitIInv == Init => IInv
<1> SUFFICES ASSUME Init PROVE IInv
  OBVIOUS
<1>1. /\ MuxInit /\ job \in Jobs
      /\ client.pc = "start" /\ client.buf = <<>> /\ client.stdout = <<>> /\ client.stderr = <<>>
      /\ client.exit_status = "none" /\ client.result = "none"
      /\ server.pc = "phase1" /\ server.exited = "none" /\ ~server.stdout_eof /\ ~server.stderr_eof
      /\ child.state = "none" /\ child.out = <<>> /\ child.err = <<>>
      /\ child.stdout = <<>> /\ child.stderr = <<>>
  BY DEF Init
<1>2. /\ to_task["client"] = <<>> /\ to_task["server"] = <<>> /\ wire["client"] = <<>>
      /\ wire["server"] = <<>> /\ cmds["client"] = <<>> /\ cmds["server"] = <<>>
  BY <1>1, TwoEnds DEF MuxInit
<1>3. Typed
  <2>1. MuxTypeOK
    <3>1. /\ run \in [End -> {"running", "overflow", "lost", "done"}]
          /\ sem_closed \in [End -> BOOLEAN]
      BY <1>1 DEF MuxInit
    <3>2. credit \in [End -> 0..Ceiling]
      <4>1. \A e \in End : LocalWindow[Peer(e)] \in 0..Ceiling
        BY MuxAssumption, TwoEnds
      <4> QED  BY <1>1, <4>1 DEF MuxInit
    <3>3. /\ to_task \in [End -> Seq(MuxMsg)] /\ cmds \in [End -> Seq(MuxMsg)]
          /\ wire \in [End -> Seq(MuxMsg)]
      BY <1>1 DEF MuxInit
    <3>4. \A e \in End : chan[e] \in [open : {TRUE}, local_window : Nat,
              pending_consumed : Nat, sent_eof : BOOLEAN, sent_close : BOOLEAN,
              peer_closed : BOOLEAN]
      <4>1. \A e \in End : LocalWindow[e] \in Nat
        BY MuxAssumption
      <4> QED  BY <1>1, <4>1 DEF MuxInit, NewChan
    <3> QED  BY <3>1, <3>2, <3>3, <3>4 DEF MuxTypeOK
  <2>2. LoopTyped
    BY <1>1, <2>1 DEF LoopTyped, MuxInit, up
  <2>3. client \in ClientState
    <3>1. job.input \in Nat
      BY <1>1, SessionAssumption DEF Job
    <3>2. 0 \in 0..job.input
      BY <3>1
    <3> QED  BY <3>2 DEF Init, ClientState
  <2>4. server \in ServerState /\ child \in ChildState
    BY DEF Init, ServerState, ChildState
  <2> QED  BY <1>1, <2>1, <2>2, <2>3, <2>4 DEF Typed, TypeOK
<1>4. OutFlows /\ ErrFlows
  <2>1. server.pc # "sending_out" /\ server.pc # "sending_err"
    BY <1>1
  <2> QED  BY <1>1, <1>2, <2>1, EmptyFlow DEF OutFlows, ErrFlows, Flowing
<1>5. Sent("client") = {} /\ Sent("server") = {}
  BY <1>2, ElemsNone, TwoEnds DEF Sent
<1>6. GrantFirst
  <2>1. ~Started(server.pc) /\ Elems(to_task["client"]) = {} /\ Elems(wire["server"]) = {}
        /\ Elems(cmds["server"]) = {}
    BY <1>1, <1>2, ElemsNone DEF Started
  <2> QED  BY <2>1, GrantedFree DEF GrantFirst
<1>7. AskedFirst /\ RepliesDue /\ Filled /\ ServerKnows /\ StatusTrue
  BY <1>1, <1>5 DEF AskedFirst, RepliesDue, Filled, ServerKnows, StatusTrue, Started
<1>8. Final(client.exit_status) /\ Final(client.result)
  BY <1>1, SessionAssumption DEF Final
<1> QED  BY <1>3, <1>4, <1>6, <1>7, <1>8 DEF IInv

\* Nothing changes.
LEMMA StutterKeeps ==
    ASSUME IInv, UNCHANGED vars PROVE IInv'
<1>1. /\ run' = run /\ chan' = chan /\ credit' = credit /\ sem_closed' = sem_closed
      /\ to_task' = to_task /\ cmds' = cmds /\ wire' = wire
      /\ job' = job /\ client' = client /\ server' = server /\ child' = child
  BY DEF vars, loopVars
<1>2. Typed'
  <2>1. Typed
    BY DEF IInv
  <2>2. LoopTyped' /\ MuxTypeOK'
    BY <1>1, <2>1 DEF Typed, LoopTyped, MuxTypeOK, up
  <2>3. TypeOK'
    BY <1>1, <2>1, <2>2 DEF Typed, TypeOK, ClientState, ServerState, ChildState
  <2> QED  BY <2>2, <2>3 DEF Typed
<1>3. OutFlows' /\ ErrFlows' /\ GrantFirst'
  <2>1. OpenEnds' = OpenEnds
    BY <1>1 DEF OpenEnds
  <2> QED  BY <1>1, <2>1 DEF IInv, OutFlows, ErrFlows, Flowing, GrantFirst
<1>4. Sent("server")' = Sent("server") /\ Sent("client")' = Sent("client")
  BY <1>1 DEF Sent, Elems
<1>5. AskedFirst' /\ RepliesDue' /\ Filled' /\ ServerKnows' /\ StatusTrue'
  BY <1>1, <1>4 DEF IInv, AskedFirst, Early, RepliesDue, Filled, ServerKnows, StatusTrue
<1>6. Final(client.exit_status)' /\ Final(client.result)'
  BY <1>1 DEF IInv, Final
<1> QED  BY <1>2, <1>3, <1>5, <1>6 DEF IInv

\* A stretch from the start is a prefix, and one as long as the whole is it.
LEMMA PiecePrefix ==
    ASSUME NEW x \in Seq(Nat), NEW s \in Seq(Nat), Piece(x, s, 0)
    PROVE  Prefix(x, s) /\ (Complete(x, s) => x = s)
<1> DEFINE y == Upto(s, Len(x))
<1>1. Len(x) \in Nat /\ Len(x) <= Len(s) /\ Len(s) \in Nat /\ \A k \in 1..Len(x) : x[k] = s[k]
  BY DEF Piece
<1>2. /\ y \in Seq(Nat) /\ Len(y) = (IF Len(x) <= Len(s) THEN Len(x) ELSE Len(s))
      /\ \A k \in 1..Len(y) : y[k] = s[k]
  BY <1>1, CutInTwo
<1> HIDE DEF y
<1>3. Len(y) = Len(x)
  BY <1>1, <1>2
<1>4. \A k \in 1..Len(x) : x[k] = y[k]
  BY <1>1, <1>2, <1>3
<1>5. x = y
  BY <1>2, <1>3, <1>4, SeqEqual
<1>6. Complete(x, s) => x = s
  BY <1>1, SeqEqual DEF Complete
<1> QED  BY <1>5, <1>6 DEF Prefix, y

\* The invariant says what the user is promised.
LEMMA IInvSays == IInv => OutputBeforeStatus
<1> SUFFICES ASSUME IInv PROVE OutputBeforeStatus
  OBVIOUS
<1>1. Piece(client.stdout, child.out, 0) /\ Piece(client.stderr, child.err, 0)
  BY BothFlow DEF Flow
<1>2. /\ client.stdout \in Seq(Nat) /\ child.out \in Seq(Nat)
      /\ client.stderr \in Seq(Nat) /\ child.err \in Seq(Nat)
  BY StateTypes DEF IInv
<1>3. /\ Prefix(client.stdout, child.out) /\ Prefix(client.stderr, child.err)
      /\ Complete(client.stdout, child.out) => client.stdout = child.out
      /\ Complete(client.stderr, child.err) => client.stderr = child.err
  BY <1>1, <1>2, PiecePrefix
<1>4. Final(client.result)
  BY DEF IInv
<1> QED  BY <1>3, <1>4 DEF OutputBeforeStatus, Final

\* Every step keeps the invariant, if it is not such a failure.
LEMMA StepKeeps == IInv /\ ((Next /\ ~Faults) \/ UNCHANGED vars) => IInv'
<1> SUFFICES ASSUME IInv, (Next /\ ~Faults) \/ UNCHANGED vars PROVE IInv'
  OBVIOUS
<1>1. CASE ClientTask
  BY <1>1, ClientKeeps
<1>2. CASE ServerTask
  BY <1>2, ServerKeeps
<1>3. CASE ChildRuns
  BY <1>3, ChildKeeps
<1>4. CASE \E e \in End : LoopStep(e)
  BY <1>4, LoopKeeps
<1>5. CASE UNCHANGED vars
  BY <1>5, StutterKeeps
<1> QED  BY <1>1, <1>2, <1>3, <1>4, <1>5 DEF Next

\* Once a failure has been glossed over the invariant is no longer claimed.
Sound == faulty \in BOOLEAN /\ (faulty \/ IInv)

\* Only Faults touches the flag, which it sets.
LEMMA FaultyStays ==
    ASSUME [Next]_vars
    PROVE  faulty' = TRUE \/ (faulty' = faulty /\ ((Next /\ ~Faults) \/ UNCHANGED vars))
<1>1. CASE ClientTask
  BY <1>1 DEF Next, Faults, ClientTask, ClientAsks, ClientAwaits, ClientRecv, ClientReads, ClientStdinEnds,
              ClientSends, ClientCreditClosed, ClientOnly
<1>2. CASE ServerTask
  BY <1>2 DEF Next, Faults, ServerTask, ServerWaits, ServerReports, ServerRecv, ServerWrites, ServerWriteFails,
              ServerReadsOut, ServerReadsErr, ServerOutEnds, ServerErrEnds, ServerReaps,
              ServerSends, ServerCreditClosed, ServerOnly, Quiet
<1>3. CASE ChildRuns
  BY <1>3 DEF Next, Faults, ChildRuns
<1>4. CASE \E e \in End : LoopStep(e)
  BY <1>4 DEF Next, Faults, LoopStep
<1>5. CASE Faults
  BY <1>5 DEF Faults
<1>6. CASE UNCHANGED vars
  BY <1>6 DEF vars
<1> QED  BY <1>1, <1>2, <1>3, <1>4, <1>5, <1>6 DEF Next

LEMMA SoundStays == Sound /\ [Next]_vars => Sound'
<1> SUFFICES ASSUME Sound, [Next]_vars PROVE Sound'
  OBVIOUS
<1>1. CASE faulty' = TRUE
  BY <1>1 DEF Sound
<1>2. CASE faulty' = faulty /\ ((Next /\ ~Faults) \/ UNCHANGED vars)
  <2>1. CASE faulty
    BY <1>2, <2>1 DEF Sound
  <2>2. CASE ~faulty
    <3>1. IInv
      BY <2>2 DEF Sound
    <3>2. IInv'
      BY <1>2, <3>1, StepKeeps
    <3> QED  BY <1>2, <3>2 DEF Sound
  <2> QED  BY <2>1, <2>2
<1> QED  BY <1>1, <1>2, FaultyStays

\* The invariant holds in every state of a session in which no failing system
\* call has been taken for an end, a success or a status.
THEOREM SessionInvariant == Spec => []Sound
<1>1. Init => Sound
  <2> SUFFICES ASSUME Init PROVE Sound
    OBVIOUS
  <2>1. faulty \in BOOLEAN
    BY DEF Init
  <2> QED  BY <2>1, InitIInv DEF Sound
<1> QED  BY <1>1, SoundStays, PTL DEF Spec

\* What reaches the user is what the command wrote, in order and with its two
\* outputs kept apart, and a status the client reports is the command's own and
\* comes after its last byte: for every window, packet and pipe size, every
\* job, whichever end drops the channel or loses the connection, and when -
\* unless a failing read, write or wait has been glossed over.
THEOREM NoStatusOvertakes == Spec => []OutputBeforeStatus
<1>1. Sound => OutputBeforeStatus
  BY IInvSays DEF Sound, OutputBeforeStatus
<1> QED  BY <1>1, SessionInvariant, PTL
=============================================================================
