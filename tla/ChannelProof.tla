---------------------------- MODULE ChannelProof ----------------------------
(***************************************************************************)
(* Module Channel, for every window, threshold, packet size and amount of  *)
(* data: the two byte streams are kept whole, and each direction of the    *)
(* channel implements the flow control of module Window.                   *)
(*                                                                         *)
(* Inv is the inductive invariant: Phase (what one end may still do),      *)
(* Stream (which stretch of the bytes read is in which queue) and Account  *)
(* (where the window is).  Every step is a change of one end's values and  *)
(* of the two wires, so that StepKeeps reduces each action to those.       *)
(* Totals of queues are recursive functions; that such a function exists,  *)
(* and how it grows, comes from the least-number principle (LeastNat).     *)
(***************************************************************************)
EXTENDS Channel, SequenceTheorems, WellFoundedInduction, TLAPS

-----------------------------------------------------------------------------
(* The two ends, and the size of a packet between them.                    *)

\* Two ends, each the other's peer.
LEMMA TwoEnds ==
    /\ Peer("client") = "server" /\ Peer("server") = "client"
    /\ \A e \in End : /\ Peer(e) \in End /\ Peer(e) # e /\ Peer(Peer(e)) = e
                      /\ \A f \in End : f = e \/ f = Peer(e)
BY DEF End, Peer

\* remote_max: both ends clamp to the same packet size.
Packet == remote_max("client")

\* Smaller is the smaller of two.
LEMMA SmallerOf ==
    ASSUME NEW a \in Int, NEW b \in Int
    PROVE  Smaller(a, b) = IF a <= b THEN a ELSE b
<1>1. CASE a <= b
  <2>1. \A x \in {a, b} : (\A y \in {a, b} : x =< y) => x = a
    BY <1>1
  <2>2. \A y \in {a, b} : a =< y
    BY <1>1
  <2> QED  BY <1>1, <2>1, <2>2 DEF Smaller, Min
<1>2. CASE ~(a <= b)
  <2>1. \A x \in {a, b} : (\A y \in {a, b} : x =< y) => x = b
    BY <1>2
  <2>2. \A y \in {a, b} : b =< y
    BY <1>2
  <2> QED  BY <1>2, <2>1, <2>2 DEF Smaller, Min
<1> QED  BY <1>1, <1>2

\* The two ends clamp to one packet size, of at least one byte.
LEMMA PacketSize ==
    /\ Packet \in Nat \ {0}
    /\ \A e \in End : remote_max(e) = Packet
<1>1. \A e \in End : MaxChunk[e] \in Nat \ {0}
  BY MuxAssumption
<1>2. ASSUME NEW e \in End PROVE remote_max(e) = Smaller(MaxChunk[Peer(e)], MaxChunk[e])
  <2> DEFINE m == Smaller(MaxChunk[Peer(e)], MaxChunk[e])
  <2>1. m \in Nat \ {0}
    BY <1>1, TwoEnds, SmallerOf
  <2> HIDE DEF m
  <2>2. \A x \in {1, m} : (\A y \in {1, m} : x >= y) => x = m
    BY <2>1
  <2>3. \A y \in {1, m} : m >= y
    BY <2>1
  <2>4. Max({1, m}) = m
    BY <2>2, <2>3 DEF Max
  <2> QED  BY <2>4 DEF remote_max, m
<1>3. "client" \in End /\ "server" \in End /\ \A e \in End : e = "client" \/ e = "server"
  BY DEF End
<1>4. remote_max("client") = remote_max("server") /\ remote_max("client") \in Nat \ {0}
  BY <1>1, <1>2, <1>3, TwoEnds, SmallerOf
<1> QED  BY <1>3, <1>4 DEF Packet

-----------------------------------------------------------------------------
(* What may be in the queues.                                              *)

Data == {m \in [type : {"data"}, bytes : Seq(Nat)] : Len(m.bytes) \in 1..Packet}
Commands == Data \cup [type : {"consumed"}, n : 1..Packet] \cup [type : {"eof", "close"}]
Packets ==
    Data \cup [type : {"adjust"}, n : Nat \ {0}] \cup [type : {"eof", "close", "disconnect"}]
Events == Data \cup [type : {"eof", "close"}]
Messages == Commands \cup Packets

\* What the type of a message says of its contents, and its queue of its type.
LEMMA MessageFacts ==
    ASSUME NEW m \in Messages
    PROVE  /\ m.type = "data" => m \in Data /\ m.bytes \in Seq(Nat) /\ Len(m.bytes) \in 1..Packet
           /\ m.type = "consumed" => m.n \in 1..Packet
           /\ m.type = "adjust" => m.n \in Nat \ {0}
           /\ m \in Commands => m.type \in {"data", "consumed", "eof", "close"}
           /\ m \in Packets => m.type \in {"data", "adjust", "eof", "close", "disconnect"}
           /\ m \in Events => m.type \in {"data", "eof", "close"}
           /\ m.type = "eof" => m = Plain("eof")
           /\ m.type = "close" => m = Plain("close")
<1>1. CASE m \in Data
  BY <1>1 DEF Data
<1>2. CASE m \in [type : {"consumed"}, n : 1..Packet]
  BY <1>2 DEF Packets, Events, Data
<1>3. CASE m \in [type : {"adjust"}, n : Nat \ {0}]
  BY <1>3 DEF Commands, Events, Data
<1>4. CASE m \in [type : {"eof", "close"}]
  BY <1>4 DEF Plain
<1>5. CASE m \in [type : {"disconnect"}]
  BY <1>5 DEF Commands, Events, Data
<1> QED  BY <1>1, <1>2, <1>3, <1>4, <1>5 DEF Messages, Commands, Packets

\* The messages without contents may be in each queue.
LEMMA PlainMessages ==
    /\ Plain("eof") \in Commands /\ Plain("close") \in Commands
    /\ Plain("eof") \in Packets /\ Plain("close") \in Packets /\ Plain("disconnect") \in Packets
    /\ Plain("eof") \in Events /\ Plain("close") \in Events
    /\ Plain("eof").type = "eof" /\ Plain("close").type = "close"
    /\ Plain("disconnect").type = "disconnect"
BY DEF Plain, Commands, Packets, Events

\* A queue of some messages is a queue of messages.
LEMMA Queues ==
    ASSUME NEW q, \/ q \in Seq(Commands) \/ q \in Seq(Packets) \/ q \in Seq(Events)
    PROVE  q \in Seq(Messages)
BY DEF Messages, Events, Commands

\* What a queue is with one message more, and without its head.
LEMMA OneMore ==
    ASSUME NEW S, NEW q \in Seq(S), NEW m \in S
    PROVE  /\ q \o <<m>> = Append(q, m) /\ q \o <<m>> \in Seq(S)
           /\ Len(q \o <<m>>) = Len(q) + 1
           /\ DOMAIN (q \o <<m>>) = 1..(Len(q) + 1)
           /\ \A i \in 1..Len(q) : (q \o <<m>>)[i] = q[i]
           /\ (q \o <<m>>)[Len(q) + 1] = m
OBVIOUS

\* ... and without its head.
LEMMA OneLess ==
    ASSUME NEW S, NEW q \in Seq(S), q # <<>>
    PROVE  /\ Head(q) \in S /\ Head(q) = q[1] /\ 1 \in DOMAIN q /\ Len(q) \in Nat \ {0}
           /\ Tail(q) \in Seq(S) /\ Len(Tail(q)) = Len(q) - 1
           /\ DOMAIN q = 1..Len(q) /\ DOMAIN Tail(q) = 1..(Len(q) - 1)
           /\ \A i \in 1..(Len(q) - 1) : Tail(q)[i] = q[i + 1]
OBVIOUS

-----------------------------------------------------------------------------
(* A stretch of the stream in a queue.                                     *)

\* The data in q are the bytes after a up to b, in order.
DataAt(q) == {i \in DOMAIN q : q[i].type = "data"}
From(m) == m.bytes[1] - 1
To(m) == From(m) + Len(m.bytes)
Run(q, a, b) ==
    /\ a <= b
    /\ \A i \in DataAt(q) : /\ a <= From(q[i]) /\ To(q[i]) <= b
                            /\ q[i].bytes = [k \in 1..Len(q[i].bytes) |-> From(q[i]) + k]
    /\ \A i, j \in DataAt(q) : i < j => To(q[i]) <= From(q[j])
    /\ \A n \in (a + 1)..b : \E i \in DataAt(q) : From(q[i]) < n /\ n <= To(q[i])

\* Of the g bytes the reader has taken, q carries those after a up to b; an end
\* of file in it comes after the last byte, from a reader that is done.
Has(q, kind) == \E i \in DOMAIN q : q[i].type = kind
EofLast(q) == \A i \in DOMAIN q, j \in DataAt(q) : q[i].type = "eof" => j < i
Lane(q, a, b, g, done) ==
    /\ Run(q, a, b) /\ EofLast(q) /\ b <= g
    /\ Has(q, "eof") => b = g /\ done

\* A data message spans at least one byte.
LEMMA DataSpan ==
    ASSUME NEW m \in Messages, m.type = "data"
    PROVE  From(m) \in Int /\ To(m) \in Int /\ From(m) < To(m) /\ To(m) = From(m) + Len(m.bytes)
<1>1. m.bytes \in Seq(Nat) /\ Len(m.bytes) \in 1..Packet /\ Packet \in Nat
  BY MessageFacts, PacketSize
<1>2. m.bytes[1] \in Nat
  BY <1>1
<1> QED  BY <1>1, <1>2 DEF From, To

\* An empty queue carries nothing.
LEMMA LaneEmpty ==
    ASSUME NEW a \in Nat, NEW g \in Nat, a <= g, NEW done
    PROVE  Lane(<<>>, a, a, g, done)
BY DEF Lane, Run, EofLast, Has, DataAt

\* A chunk that begins where the lane ends extends it.
LEMMA LaneMoreData ==
    ASSUME NEW q \in Seq(Messages), NEW a \in Nat, NEW b \in Nat, NEW g \in Nat, NEW done,
           Lane(q, a, b, g, done),
           NEW m \in Messages, m.type = "data",
           m.bytes = [k \in 1..Len(m.bytes) |-> b + k], b + Len(m.bytes) <= g
    PROVE  Lane(q \o <<m>>, a, b + Len(m.bytes), g, done)
<1> DEFINE n == Len(q)  r == q \o <<m>>  c == b + Len(m.bytes)
<1>1. n \in Nat /\ Len(m.bytes) \in 1..Packet /\ Packet \in Nat /\ DOMAIN q = 1..n
  BY MessageFacts, PacketSize
<1>2. From(m) = b /\ To(m) = c /\ c \in Nat /\ b < c
  BY <1>1 DEF From, To
<1>3. DOMAIN r = 1..(n + 1) /\ r[n + 1] = m /\ \A i \in 1..n : r[i] = q[i]
  BY OneMore
<1>4. DataAt(r) = DataAt(q) \cup {n + 1} /\ DataAt(q) \subseteq 1..n
  BY <1>1, <1>3 DEF DataAt
<1>5. \A i \in 1..n : q[i] \in Messages
  OBVIOUS
<1>6. \A i \in DataAt(q) : From(q[i]) \in Int /\ To(q[i]) \in Int
  BY <1>4, <1>5, DataSpan DEF DataAt
<1>7. Run(q, a, b)
  BY DEF Lane
<1>8. ~Has(q, "eof")
  BY <1>1, <1>2 DEF Lane
<1> HIDE DEF n, r, c
<1>9. \A i \in DataAt(r) : /\ a <= From(r[i]) /\ To(r[i]) <= c
                           /\ r[i].bytes = [k \in 1..Len(r[i].bytes) |-> From(r[i]) + k]
  <2> SUFFICES ASSUME NEW i \in DataAt(r)
               PROVE  /\ a <= From(r[i]) /\ To(r[i]) <= c
                      /\ r[i].bytes = [k \in 1..Len(r[i].bytes) |-> From(r[i]) + k]
    OBVIOUS
  <2>1. CASE i \in DataAt(q)
    <3>1. r[i] = q[i]
      BY <2>1, <1>3, <1>4
    <3>2. /\ a <= From(q[i]) /\ To(q[i]) <= b
          /\ q[i].bytes = [k \in 1..Len(q[i].bytes) |-> From(q[i]) + k]
      BY <2>1, <1>7 DEF Run
    <3>3. To(q[i]) <= c
      BY <2>1, <3>2, <1>2, <1>6
    <3> QED  BY <3>1, <3>2, <3>3
  <2>2. CASE i = n + 1
    BY <2>2, <1>2, <1>3, <1>7 DEF Run
  <2> QED  BY <2>1, <2>2, <1>4
<1>10. \A i, j \in DataAt(r) : i < j => To(r[i]) <= From(r[j])
  <2> SUFFICES ASSUME NEW i \in DataAt(r), NEW j \in DataAt(r), i < j
               PROVE  To(r[i]) <= From(r[j])
    OBVIOUS
  <2>1. i \in DataAt(q) /\ r[i] = q[i]
    BY <1>1, <1>3, <1>4
  <2>2. CASE j \in DataAt(q)
    BY <2>1, <2>2, <1>3, <1>4, <1>7 DEF Run
  <2>3. CASE j = n + 1
    BY <2>1, <2>3, <1>2, <1>3, <1>4, <1>6, <1>7 DEF Run
  <2> QED  BY <2>2, <2>3, <1>4
<1>11. \A k \in (a + 1)..c : \E i \in DataAt(r) : From(r[i]) < k /\ k <= To(r[i])
  <2> SUFFICES ASSUME NEW k \in (a + 1)..c
               PROVE  \E i \in DataAt(r) : From(r[i]) < k /\ k <= To(r[i])
    OBVIOUS
  <2>1. CASE k <= b
    <3>1. PICK i \in DataAt(q) : From(q[i]) < k /\ k <= To(q[i])
      BY <2>1, <1>7 DEF Run
    <3> QED  BY <3>1, <1>3, <1>4
  <2>2. CASE b < k
    <3>1. n + 1 \in DataAt(r) /\ From(r[n + 1]) < k /\ k <= To(r[n + 1])
      BY <2>2, <1>2, <1>3, <1>4
    <3> QED  BY <3>1
  <2> QED  BY <2>1, <2>2
<1>12. ~Has(r, "eof")
  BY <1>1, <1>3, <1>8 DEF Has
<1>13. Run(r, a, c)
  BY <1>2, <1>7, <1>9, <1>10, <1>11 DEF Run
<1>14. EofLast(r)
  BY <1>12 DEF EofLast, Has
<1>15. c <= g
  BY DEF c
<1> QED  BY <1>12, <1>13, <1>14, <1>15 DEF Lane, c, r

\* An end of file, or what is neither data nor an end of file.
LEMMA LaneMoreOther ==
    ASSUME NEW q \in Seq(Messages), NEW a \in Nat, NEW b \in Nat, NEW g \in Nat, NEW done,
           Lane(q, a, b, g, done),
           NEW m \in Messages, m.type # "data", m.type = "eof" => b = g /\ done
    PROVE  Lane(q \o <<m>>, a, b, g, done)
<1> DEFINE n == Len(q)  r == q \o <<m>>
<1>1. n \in Nat /\ DOMAIN q = 1..n
  OBVIOUS
<1>2. DOMAIN r = 1..(n + 1) /\ r[n + 1] = m /\ \A i \in 1..n : r[i] = q[i]
  BY OneMore
<1> HIDE DEF n, r
<1>3. DataAt(r) = DataAt(q) /\ DataAt(q) \subseteq 1..n
  BY <1>1, <1>2 DEF DataAt
<1>4. \A i \in DataAt(q) : r[i] = q[i]
  BY <1>2, <1>3
<1>5. Run(r, a, b)
  BY <1>3, <1>4 DEF Run, Lane
<1>6. EofLast(r)
  <2> SUFFICES ASSUME NEW i \in DOMAIN r, NEW j \in DataAt(r), r[i].type = "eof"
               PROVE  j < i
    BY DEF EofLast
  <2>1. CASE i = n + 1
    BY <2>1, <1>1, <1>3
  <2>2. CASE i \in 1..n
    BY <2>2, <1>1, <1>2, <1>3 DEF Lane, EofLast
  <2> QED  BY <2>1, <2>2, <1>1, <1>2
<1>7. Has(r, "eof") => b = g /\ done
  BY <1>1, <1>2 DEF Has, Lane
<1> QED  BY <1>5, <1>6, <1>7 DEF Lane, r

\* A chunk taken from the head shortens the lane at its near end.
LEMMA LaneLessData ==
    ASSUME NEW q \in Seq(Messages), NEW a \in Nat, NEW b \in Nat, NEW g \in Nat, NEW done,
           Lane(q, a, b, g, done), q # <<>>, Head(q).type = "data"
    PROVE  /\ Head(q).bytes = [k \in 1..Len(Head(q).bytes) |-> a + k]
           /\ a + Len(Head(q).bytes) \in Nat /\ a + Len(Head(q).bytes) <= b
           /\ Lane(Tail(q), a + Len(Head(q).bytes), b, g, done)
<1> DEFINE n == Len(q)  t == Tail(q)  h == Head(q)  c == a + Len(h.bytes)
<1>1. n \in Nat \ {0} /\ DOMAIN q = 1..n /\ h = q[1] /\ h \in Messages
  BY OneLess
<1>2. DOMAIN t = 1..(n - 1) /\ \A i \in 1..(n - 1) : t[i] = q[i + 1]
  BY OneLess
<1>3. \A i \in 1..n : q[i] \in Messages
  OBVIOUS
<1>4. \A i \in DataAt(q) : From(q[i]) \in Int /\ To(q[i]) \in Int /\ From(q[i]) < To(q[i])
  BY <1>1, <1>3, DataSpan DEF DataAt
<1>5. Len(h.bytes) \in Nat \ {0} /\ To(h) = From(h) + Len(h.bytes)
  BY <1>1, MessageFacts, DataSpan, PacketSize
<1>6. Run(q, a, b)
  BY DEF Lane
<1>7. 1 \in DataAt(q)
  BY <1>1 DEF DataAt
<1> HIDE DEF n, t, h, c
<1>8. From(h) = a
  <2> DEFINE x == From(h)  y == To(h)
  <2>0. x \in Int /\ y \in Int /\ x < y /\ a <= x /\ y <= b
    BY <1>1, <1>4, <1>6, <1>7 DEF Run
  <2> HIDE DEF x, y
  <2>1. a + 1 \in (a + 1)..b
    BY <2>0
  <2>2. PICK i \in DataAt(q) : From(q[i]) < a + 1 /\ a + 1 <= To(q[i])
    BY <2>1, <1>6 DEF Run
  <2>3. i \in 1..n
    BY <1>1 DEF DataAt
  <2>4. CASE i = 1
    <3>1. x < a + 1
      BY <2>2, <2>4, <1>1 DEF x
    <3>2. x = a
      BY <3>1, <2>0
    <3> QED  BY <3>2 DEF x
  <2>5. CASE i # 1
    <3>1. y <= From(q[i])
      BY <2>3, <2>5, <1>1, <1>6, <1>7 DEF Run, y
    <3>2. From(q[i]) \in Int
      BY <1>4
    <3> QED  BY <2>0, <2>2, <3>1, <3>2
  <2> QED  BY <2>4, <2>5
<1>9. To(h) = c /\ c \in Nat /\ c <= b /\ a < c
  <2>1. To(h) <= b
    BY <1>1, <1>6, <1>7 DEF Run
  <2>2. To(h) = c
    BY <1>5, <1>8 DEF c
  <2>3. c \in Nat /\ a < c
    BY <1>5 DEF c
  <2> QED  BY <2>1, <2>2, <2>3
<1>10. h.bytes = [k \in 1..Len(h.bytes) |-> a + k]
  BY <1>1, <1>6, <1>7, <1>8 DEF Run
<1>11. \A i \in DataAt(t) : i \in 1..(n - 1) /\ i + 1 \in DataAt(q) /\ t[i] = q[i + 1]
  BY <1>1, <1>2 DEF DataAt
<1>12. Run(t, c, b)
  <2>1. \A i \in DataAt(t) : /\ c <= From(t[i]) /\ To(t[i]) <= b
                             /\ t[i].bytes = [k \in 1..Len(t[i].bytes) |-> From(t[i]) + k]
    <3> SUFFICES ASSUME NEW i \in DataAt(t)
                 PROVE  /\ c <= From(t[i]) /\ To(t[i]) <= b
                        /\ t[i].bytes = [k \in 1..Len(t[i].bytes) |-> From(t[i]) + k]
      OBVIOUS
    <3>1. i + 1 \in DataAt(q) /\ t[i] = q[i + 1] /\ 1 < i + 1
      BY <1>1, <1>11
    <3>2. To(q[1]) <= From(q[i + 1])
      BY <3>1, <1>6, <1>7 DEF Run
    <3>3. c <= From(t[i])
      BY <3>1, <3>2, <1>1, <1>9
    <3> QED  BY <3>1, <3>3, <1>6 DEF Run
  <2>2. \A i, j \in DataAt(t) : i < j => To(t[i]) <= From(t[j])
    <3> SUFFICES ASSUME NEW i \in DataAt(t), NEW j \in DataAt(t), i < j
                 PROVE  To(t[i]) <= From(t[j])
      OBVIOUS
    <3>1. i + 1 \in DataAt(q) /\ j + 1 \in DataAt(q) /\ t[i] = q[i + 1] /\ t[j] = q[j + 1]
          /\ i + 1 < j + 1
      BY <1>1, <1>11
    <3> QED  BY <3>1, <1>6 DEF Run
  <2>3. \A k \in (c + 1)..b : \E i \in DataAt(t) : From(t[i]) < k /\ k <= To(t[i])
    <3> SUFFICES ASSUME NEW k \in (c + 1)..b
                 PROVE  \E i \in DataAt(t) : From(t[i]) < k /\ k <= To(t[i])
      OBVIOUS
    <3>1. PICK i \in DataAt(q) : From(q[i]) < k /\ k <= To(q[i])
      BY <1>6, <1>9 DEF Run
    <3>2. i # 1 /\ i \in 1..n
      BY <3>1, <1>1, <1>9 DEF DataAt
    <3>3. i - 1 \in 1..(n - 1) /\ t[i - 1] = q[i]
      BY <3>2, <1>1, <1>2
    <3>4. i - 1 \in DataAt(t)
      BY <3>3, <1>2 DEF DataAt
    <3> QED  BY <3>1, <3>3, <3>4
  <2> QED  BY <2>1, <2>2, <2>3, <1>9 DEF Run
<1>13. EofLast(t)
  <2> SUFFICES ASSUME NEW i \in DOMAIN t, NEW j \in DataAt(t), t[i].type = "eof"
               PROVE  j < i
    BY DEF EofLast
  <2>1. i + 1 \in DOMAIN q /\ q[i + 1] = t[i] /\ i \in 1..(n - 1)
    BY <1>1, <1>2
  <2>2. j + 1 < i + 1
    BY <2>1, <1>11 DEF Lane, EofLast
  <2> QED  BY <2>1, <2>2, <1>1, <1>11
<1>14. Has(t, "eof") => Has(q, "eof")
  <2> SUFFICES ASSUME NEW i \in DOMAIN t, t[i].type = "eof" PROVE Has(q, "eof")
    BY DEF Has
  <2>1. i + 1 \in DOMAIN q /\ q[i + 1] = t[i]
    BY <1>1, <1>2
  <2> QED  BY <2>1 DEF Has
<1>15. Lane(t, c, b, g, done)
  BY <1>12, <1>13, <1>14 DEF Lane
<1> QED  BY <1>9, <1>10, <1>15 DEF c, h, t

\* Any other message taken from the head leaves the lane as it was; once that is
\* the end of file nothing is left of it.
LEMMA LaneLessOther ==
    ASSUME NEW q \in Seq(Messages), NEW a \in Nat, NEW b \in Nat, NEW g \in Nat, NEW done \in BOOLEAN,
           Lane(q, a, b, g, done), q # <<>>, Head(q).type # "data"
    PROVE  /\ Lane(Tail(q), a, b, g, done)
           /\ Head(q).type = "eof" => a = g /\ b = g /\ done
<1> DEFINE n == Len(q)  t == Tail(q)
<1>1. n \in Nat \ {0} /\ DOMAIN q = 1..n /\ Head(q) = q[1]
  BY OneLess
<1>2. DOMAIN t = 1..(n - 1) /\ \A i \in 1..(n - 1) : t[i] = q[i + 1]
  BY OneLess
<1>3. Run(q, a, b)
  BY DEF Lane
<1> HIDE DEF n, t
<1>4. \A i \in DataAt(t) : i \in 1..(n - 1) /\ i + 1 \in DataAt(q) /\ t[i] = q[i + 1]
  BY <1>1, <1>2 DEF DataAt
<1>5. \A i \in DataAt(q) : i \in 2..n /\ i - 1 \in DataAt(t) /\ t[i - 1] = q[i]
  <2> SUFFICES ASSUME NEW i \in DataAt(q)
               PROVE  i \in 2..n /\ i - 1 \in DataAt(t) /\ t[i - 1] = q[i]
    OBVIOUS
  <2>1. i \in 1..n /\ i # 1 /\ q[i].type = "data"
    BY <1>1 DEF DataAt
  <2>2. i - 1 \in 1..(n - 1) /\ t[i - 1] = q[i]
    BY <2>1, <1>1, <1>2
  <2> QED  BY <2>1, <2>2, <1>1, <1>2 DEF DataAt
<1>6. Run(t, a, b)
  <2>1. \A i \in DataAt(t) : /\ a <= From(t[i]) /\ To(t[i]) <= b
                             /\ t[i].bytes = [k \in 1..Len(t[i].bytes) |-> From(t[i]) + k]
    BY <1>3, <1>4 DEF Run
  <2>2. \A i, j \in DataAt(t) : i < j => To(t[i]) <= From(t[j])
    <3> SUFFICES ASSUME NEW i \in DataAt(t), NEW j \in DataAt(t), i < j
                 PROVE  To(t[i]) <= From(t[j])
      OBVIOUS
    <3>1. i + 1 \in DataAt(q) /\ j + 1 \in DataAt(q) /\ t[i] = q[i + 1] /\ t[j] = q[j + 1]
          /\ i + 1 < j + 1
      BY <1>1, <1>4
    <3> QED  BY <3>1, <1>3 DEF Run
  <2>3. \A k \in (a + 1)..b : \E i \in DataAt(t) : From(t[i]) < k /\ k <= To(t[i])
    <3> SUFFICES ASSUME NEW k \in (a + 1)..b
                 PROVE  \E i \in DataAt(t) : From(t[i]) < k /\ k <= To(t[i])
      OBVIOUS
    <3>1. PICK i \in DataAt(q) : From(q[i]) < k /\ k <= To(q[i])
      BY <1>3 DEF Run
    <3> QED  BY <3>1, <1>5
  <2> QED  BY <2>1, <2>2, <2>3, <1>3 DEF Run
<1>7. EofLast(t)
  <2> SUFFICES ASSUME NEW i \in DOMAIN t, NEW j \in DataAt(t), t[i].type = "eof"
               PROVE  j < i
    BY DEF EofLast
  <2>1. i + 1 \in DOMAIN q /\ q[i + 1] = t[i] /\ i \in 1..(n - 1)
    BY <1>1, <1>2
  <2>2. j + 1 < i + 1
    BY <2>1, <1>4 DEF Lane, EofLast
  <2> QED  BY <2>1, <2>2, <1>1, <1>4
<1>8. Has(t, "eof") => Has(q, "eof")
  <2> SUFFICES ASSUME NEW i \in DOMAIN t, t[i].type = "eof" PROVE Has(q, "eof")
    BY DEF Has
  <2>1. i + 1 \in DOMAIN q /\ q[i + 1] = t[i]
    BY <1>1, <1>2
  <2> QED  BY <2>1 DEF Has
<1>9. Lane(t, a, b, g, done)
  BY <1>6, <1>7, <1>8 DEF Lane
<1>10. ASSUME Head(q).type = "eof" PROVE a = g /\ b = g /\ done
  <2>1. Has(q, "eof")
    BY <1>1, <1>10 DEF Has
  <2>2. DataAt(q) = {}
    BY <1>1, <1>5, <1>10 DEF Lane, EofLast
  <2>3. ~(a < b)
    BY <2>2, <1>3 DEF Run
  <2> QED  BY <2>1, <2>3, <1>3 DEF Lane, Run
<1> QED  BY <1>9, <1>10 DEF t

\* The reader takes more, or is done.
LEMMA LaneGrows ==
    ASSUME NEW q, NEW a \in Nat, NEW b \in Nat, NEW g \in Nat, NEW h \in Nat,
           NEW done \in BOOLEAN, NEW over \in BOOLEAN,
           Lane(q, a, b, g, done), done => g = h /\ over, g <= h
    PROVE  Lane(q, a, b, h, over)
BY DEF Lane

-----------------------------------------------------------------------------
(* The inductive invariant, as operators of the values it relates.         *)

Entry ==
    [open : {TRUE}, local_window : Nat, pending_consumed : Nat,
     sent_eof : BOOLEAN, sent_close : BOOLEAN, peer_closed : BOOLEAN]

Typed ==
    /\ run \in [End -> {"running", "overflow", "lost", "done"}]
    /\ chan \in [End -> Entry \cup {NoChan}]
    /\ credit \in [End -> Nat]
    /\ sem_closed \in [End -> BOOLEAN]
    /\ to_task \in [End -> Seq(Events)]
    /\ cmds \in [End -> Seq(Commands)]
    /\ wire \in [End -> Seq(Packets)]
    /\ got \in [End -> Nat]
    /\ rbuf \in [End -> Seq(Nat)]
    /\ reader \in [End -> {"reading", "sending", "done"}]
    /\ writer \in [End -> {"running", "done"}]
    /\ joined \in [End -> BOOLEAN]
    /\ written \in [End -> Seq(Nat)]
    /\ shut \in [End -> BOOLEAN]

\* What one end still does: an ended loop has no channel, a channel that is
\* gone has no credit to wait for, and a task that has returned sends nothing
\* after its Close, of which nothing but a disconnect follows on the wire.
Quiet(q) ==
    \A i, j \in 1..Len(q) : (i < j /\ q[i].type = "close") => q[j].type = "disconnect"
Phase(r, c, sc, m, q, b, rd, wr, j) ==
    /\ r # "running" => ~c.open
    /\ ~c.open => sc
    /\ j => rd = "done" /\ wr = "done"
    /\ rd = "reading" => b = <<>>
    /\ rd = "sending" => b # <<>>
    /\ \A i \in DOMAIN m : m[i].type = "close" => j /\ i = Len(m)
    /\ c.open => ~c.peer_closed
    /\ c.open /\ c.sent_close => j /\ m = <<>>
    /\ c.open /\ ~c.sent_close => ~Has(q, "close")
    /\ Quiet(q)

\* The bytes one end has read on their way to the other's socket: those up to
\* x have reached its task, those up to y the wire, those up to z the loop.
Carried(w, sh, t, ro, q, so, m, b, g, rd, x, y, z) ==
    /\ w = [i \in 1..Len(w) |-> i]
    /\ sh => Len(w) = g /\ rd = "done"
    /\ Lane(t, Len(w), x, g, rd = "done")
    /\ ro => Lane(q, x, y, g, rd = "done")
    /\ so /\ ro => /\ Lane(m, y, z, g, rd = "done")
                   /\ b = [i \in 1..(g - z) |-> z + i]
Stream(w, sh, t, ro, q, so, m, b, g, rd) ==
    \E x, y, z \in Nat : Carried(w, sh, t, ro, q, so, m, b, g, rd, x, y, z)

\* Every byte of the window W that r granted to s is somewhere, and what r
\* counts as left is what s may still use.
Account(W, R, rr, rc, t, rm, rq, so, k, m, q) ==
    /\ rr # "overflow"
    /\ rc.open =>
         /\ Total(q, "data") <= rc.local_window
         /\ rc.pending_consumed < R
    /\ so /\ rc.open =>
         /\ rc.local_window = k + Total(m, "data") + Total(q, "data") + Total(rq, "adjust")
         /\ rc.local_window + Total(t, "data") + Total(rm, "consumed") + rc.pending_consumed = W

PhaseOf(e) ==
    Phase(run[e], chan[e], sem_closed[e], cmds[e], wire[e], rbuf[e], reader[e], writer[e],
          joined[e])
StreamOf(s, r) ==
    Stream(written[r], shut[r], to_task[r], chan[r].open, wire[s], chan[s].open, cmds[s],
           rbuf[s], got[s], reader[s])
AccountOf(s, r) ==
    Account(LocalWindow[r], WindowRefill[r], run[r], chan[r], to_task[r], cmds[r], wire[r],
            chan[s].open, credit[s], cmds[s], wire[s])

Inv ==
    /\ Typed
    /\ \A e \in End : PhaseOf(e)
    /\ \A e \in End : StreamOf(e, Peer(e))
    /\ \A e \in End : AccountOf(e, Peer(e))

\* A step of e, by the values it leaves.
LoopMoves(e, r, c, k, sc, t, m, q, pq) ==
    /\ run' = [run EXCEPT ![e] = r]
    /\ chan' = [chan EXCEPT ![e] = c]
    /\ credit' = [credit EXCEPT ![e] = k]
    /\ sem_closed' = [sem_closed EXCEPT ![e] = sc]
    /\ to_task' = [to_task EXCEPT ![e] = t]
    /\ cmds' = [cmds EXCEPT ![e] = m]
    /\ wire' = [wire EXCEPT ![e] = q, ![Peer(e)] = pq]
TaskMoves(e, g, b, rd, wr, j, w, sh) ==
    /\ got' = [got EXCEPT ![e] = g]
    /\ rbuf' = [rbuf EXCEPT ![e] = b]
    /\ reader' = [reader EXCEPT ![e] = rd]
    /\ writer' = [writer EXCEPT ![e] = wr]
    /\ joined' = [joined EXCEPT ![e] = j]
    /\ written' = [written EXCEPT ![e] = w]
    /\ shut' = [shut EXCEPT ![e] = sh]

LoopTyped(r, c, k, sc, t, m, q, pq) ==
    /\ r \in {"running", "overflow", "lost", "done"}
    /\ c \in Entry \cup {NoChan}
    /\ k \in Nat
    /\ sc \in BOOLEAN
    /\ t \in Seq(Events)
    /\ m \in Seq(Commands)
    /\ q \in Seq(Packets)
    /\ pq \in Seq(Packets)
TaskTyped(g, b, rd, wr, j, w, sh) ==
    /\ g \in Nat
    /\ b \in Seq(Nat)
    /\ rd \in {"reading", "sending", "done"}
    /\ wr \in {"running", "done"}
    /\ j \in BOOLEAN
    /\ w \in Seq(Nat)
    /\ sh \in BOOLEAN

\* The parts of the invariant that a step of e can disturb.
PhasesKept(e, r, c, sc, m, q, pq, b, rd, wr, j) ==
    LET p == Peer(e) IN
    /\ Phase(r, c, sc, m, q, b, rd, wr, j)
    /\ Phase(run[p], chan[p], sem_closed[p], cmds[p], pq, rbuf[p], reader[p], writer[p],
             joined[p])
StreamsKept(e, c, t, m, q, pq, g, b, rd, w, sh) ==
    LET p == Peer(e) IN
    /\ Stream(written[p], shut[p], to_task[p], chan[p].open, q, c.open, m, b, g, rd)
    /\ Stream(w, sh, t, c.open, pq, chan[p].open, cmds[p], rbuf[p], got[p], reader[p])
AccountsKept(e, r, c, k, t, m, q, pq) ==
    LET p == Peer(e) IN
    /\ Account(LocalWindow[p], WindowRefill[p], run[p], chan[p], to_task[p], cmds[p], pq,
               c.open, k, m, q)
    /\ Account(LocalWindow[e], WindowRefill[e], r, c, t, m, q,
               chan[p].open, credit[p], cmds[p], pq)

\* They are all there is.
LEMMA StepKeeps ==
    ASSUME Typed, NEW e \in End,
           NEW r, NEW c, NEW k, NEW sc, NEW t, NEW m, NEW q, NEW pq,
           NEW g, NEW b, NEW rd, NEW wr, NEW j, NEW w, NEW sh,
           LoopMoves(e, r, c, k, sc, t, m, q, pq), TaskMoves(e, g, b, rd, wr, j, w, sh),
           LoopTyped(r, c, k, sc, t, m, q, pq), TaskTyped(g, b, rd, wr, j, w, sh),
           PhasesKept(e, r, c, sc, m, q, pq, b, rd, wr, j),
           StreamsKept(e, c, t, m, q, pq, g, b, rd, w, sh),
           AccountsKept(e, r, c, k, t, m, q, pq)
    PROVE  Inv'
<1> DEFINE p == Peer(e)
<1>1. p \in End /\ p # e /\ Peer(p) = e /\ \A f \in End : f = e \/ f = p
  BY TwoEnds
<1>2. Typed'
  BY <1>1 DEF Typed, LoopMoves, TaskMoves, LoopTyped, TaskTyped
<1>3. /\ run'[e] = r /\ chan'[e] = c /\ credit'[e] = k /\ sem_closed'[e] = sc
      /\ to_task'[e] = t /\ cmds'[e] = m /\ wire'[e] = q /\ wire'[p] = pq
      /\ run'[p] = run[p] /\ chan'[p] = chan[p] /\ credit'[p] = credit[p]
      /\ sem_closed'[p] = sem_closed[p] /\ to_task'[p] = to_task[p] /\ cmds'[p] = cmds[p]
  BY <1>1 DEF Typed, LoopMoves
<1>4. /\ got'[e] = g /\ rbuf'[e] = b /\ reader'[e] = rd /\ writer'[e] = wr
      /\ joined'[e] = j /\ written'[e] = w /\ shut'[e] = sh
      /\ got'[p] = got[p] /\ rbuf'[p] = rbuf[p] /\ reader'[p] = reader[p]
      /\ writer'[p] = writer[p] /\ joined'[p] = joined[p] /\ written'[p] = written[p]
      /\ shut'[p] = shut[p]
  BY <1>1 DEF Typed, TaskMoves
<1>5. PhaseOf(e)' /\ PhaseOf(p)'
  BY <1>3, <1>4, Zenon DEF PhasesKept, PhaseOf
<1>6. StreamOf(e, p)' /\ StreamOf(p, e)'
  BY <1>3, <1>4, Zenon DEF StreamsKept, StreamOf
<1>7. AccountOf(e, p)' /\ AccountOf(p, e)'
  BY <1>3, <1>4, Zenon DEF AccountsKept, AccountOf
<1>8. \A f \in End : PhaseOf(f)'
  BY <1>1, <1>5, Zenon
<1>9. \A f \in End : StreamOf(f, Peer(f))'
  BY <1>1, <1>6, Zenon
<1>10. \A f \in End : AccountOf(f, Peer(f))'
  BY <1>1, <1>7, Zenon
<1> QED  BY <1>2, <1>8, <1>9, <1>10 DEF Inv

-----------------------------------------------------------------------------
(* Sums over a queue.                                                      *)

\* The least-number principle, which stands in for induction.
LEMMA LeastNat ==
    ASSUME NEW T, T \subseteq Nat, T # {}
    PROVE  \E x \in T : \A y \in T : x <= y
<1>1. PICK x \in T : \A y \in T : ~(<<y, x>> \in OpToRel(<, Nat))
  BY NatLessThanWellFounded, WFMin
<1>2. \A y \in T : ~(y < x)
  BY <1>1 DEF OpToRel
<1>3. \A y \in T : x \in Nat /\ y \in Nat
  BY <1>1
<1>4. \A y \in T : x <= y
  BY <1>2, <1>3
<1> QED  BY <1>1, <1>4

\* f adds up the shares of a kind in the first n messages of q.
Adds(f, q, kind, n) ==
    f = [i \in 0..n |-> IF i = 0 THEN 0 ELSE f[i - 1] + Share(q[i], kind)]

\* A share is a number.
LEMMA ShareIsNat ==
    ASSUME NEW m \in Messages, NEW kind \in {"data", "consumed", "adjust"}
    PROVE  Share(m, kind) \in Nat
<1>1. CASE m.type = "data" /\ kind = "data"
  BY <1>1, MessageFacts DEF Share
<1>2. CASE m.type = "consumed" /\ kind = "consumed"
  BY <1>2, MessageFacts, PacketSize DEF Share
<1>3. CASE m.type = "adjust" /\ kind = "adjust"
  BY <1>3, MessageFacts DEF Share
<1>4. CASE m.type # kind
  BY <1>4 DEF Share
<1> QED  BY <1>1, <1>2, <1>3, <1>4

\* There is such a sum ...
LEMMA SumExists ==
    ASSUME NEW q \in Seq(Messages), NEW kind \in {"data", "consumed", "adjust"}
    PROVE  \A n \in 0..Len(q) : \E f \in [0..n -> Nat] : Adds(f, q, kind, n)
<1> DEFINE Good(n) == \E f \in [0..n -> Nat] : Adds(f, q, kind, n)
           T == {n \in 0..Len(q) : ~Good(n)}
<1>1. Len(q) \in Nat
  OBVIOUS
<1>2. SUFFICES ASSUME T # {} PROVE FALSE
  OBVIOUS
<1>3. PICK n \in T : \A y \in T : n <= y
  <2>1. T \subseteq Nat
    BY <1>1
  <2> HIDE DEF T
  <2> QED  BY <1>2, <2>1, LeastNat
<1>4. n \in Nat /\ n <= Len(q) /\ ~Good(n)
  BY <1>1
<1>5. CASE n = 0
  <2>1. [i \in 0..0 |-> 0] \in [0..0 -> Nat] /\ Adds([i \in 0..0 |-> 0], q, kind, 0)
    BY DEF Adds
  <2> QED  BY <1>4, <1>5, <2>1
<1>6. CASE n # 0
  <2>1. n - 1 \in 0..Len(q) /\ n - 1 \notin T
    <3>1. n - 1 \in 0..Len(q) /\ ~(n <= n - 1)
      BY <1>1, <1>4, <1>6
    <3> HIDE DEF T, Good
    <3> QED  BY <1>3, <3>1
  <2>2. Good(n - 1)
    BY <2>1
  <2>3. PICK f \in [0..(n - 1) -> Nat] : Adds(f, q, kind, n - 1)
    BY <2>2
  <2>4. Share(q[n], kind) \in Nat
    <3>1. q[n] \in Messages
      BY <1>1, <1>4, <1>6
    <3> QED  BY <3>1, ShareIsNat
  <2> DEFINE h == [i \in 0..n |-> IF i = n THEN f[n - 1] + Share(q[n], kind) ELSE f[i]]
  <2>5. f[n - 1] \in Nat
    BY <1>4, <1>6
  <2>6. h \in [0..n -> Nat]
    BY <1>4, <1>6, <2>4, <2>5
  <2>7. \A i \in 0..(n - 1) : f[i] = IF i = 0 THEN 0 ELSE f[i - 1] + Share(q[i], kind)
    BY <2>3 DEF Adds
  <2>8. \A i \in 0..n : h[i] = IF i = 0 THEN 0 ELSE h[i - 1] + Share(q[i], kind)
    <3> SUFFICES ASSUME NEW i \in 0..n
                 PROVE  h[i] = IF i = 0 THEN 0 ELSE h[i - 1] + Share(q[i], kind)
      OBVIOUS
    <3>1. CASE i = n
      BY <3>1, <1>4, <1>6
    <3>2. CASE i # n
      BY <3>2, <2>7, <1>4, <1>6
    <3> QED  BY <3>1, <3>2
  <2>9. Adds(h, q, kind, n)
    <3> HIDE DEF h
    <3> QED  BY <2>6, <2>8 DEF Adds
  <2> QED  BY <1>4, <2>6, <2>9
<1> QED  BY <1>5, <1>6

\* ... and no other.
LEMMA SumUnique ==
    ASSUME NEW q \in Seq(Messages), NEW kind, NEW n \in Nat, NEW m \in Nat, n <= m,
           NEW f, NEW h, Adds(f, q, kind, n), Adds(h, q, kind, m)
    PROVE  \A i \in 0..n : f[i] = h[i]
<1> DEFINE T == {i \in 0..n : f[i] # h[i]}
<1>1. SUFFICES ASSUME T # {} PROVE FALSE
  OBVIOUS
<1>2. PICK i \in T : \A y \in T : i <= y
  <2>1. T \subseteq Nat
    OBVIOUS
  <2> HIDE DEF T
  <2> QED  BY <1>1, <2>1, LeastNat
<1>3. /\ i \in 0..n /\ i \in 0..m
      /\ f[i] = IF i = 0 THEN 0 ELSE f[i - 1] + Share(q[i], kind)
      /\ h[i] = IF i = 0 THEN 0 ELSE h[i - 1] + Share(q[i], kind)
  <2>1. i \in 0..n /\ i \in 0..m
    OBVIOUS
  <2> QED  BY <2>1 DEF Adds
<1>4. i # 0
  BY <1>3
<1>5. i - 1 \in 0..n /\ i - 1 \notin T
  BY <1>2, <1>3, <1>4
<1> QED  BY <1>3, <1>4, <1>5

\* Total is the last value of any function that adds up the shares.
LEMMA TotalIs ==
    ASSUME NEW q \in Seq(Messages), NEW kind \in {"data", "consumed", "adjust"},
           NEW f, Adds(f, q, kind, Len(q))
    PROVE  Total(q, kind) = f[Len(q)] /\ Total(q, kind) \in Nat
<1> DEFINE n == Len(q)  s == CHOOSE z : Adds(z, q, kind, n)
<1>1. n \in Nat /\ n \in 0..n
  OBVIOUS
<1>2. PICK h \in [0..n -> Nat] : Adds(h, q, kind, n)
  BY <1>1, SumExists
<1>3. Adds(s, q, kind, n)
  BY <1>2
<1>4. s[n] = f[n] /\ s[n] = h[n]
  <2> HIDE DEF s, n
  <2>1. \A i \in 0..n : s[i] = f[i]
    BY <1>1, <1>3, SumUnique DEF n
  <2>2. \A i \in 0..n : s[i] = h[i]
    BY <1>1, <1>2, <1>3, SumUnique DEF n
  <2> QED  BY <1>1, <2>1, <2>2
<1>5. Total(q, kind) = s[n]
  BY DEF Total, Adds
<1> QED  BY <1>1, <1>2, <1>4, <1>5

\* An empty queue has none.
LEMMA TotalEmpty ==
    ASSUME NEW kind \in {"data", "consumed", "adjust"}
    PROVE  Total(<<>>, kind) = 0
<1> DEFINE f == [i \in 0..0 |-> 0]
<1>1. <<>> \in Seq(Messages) /\ Len(<<>>) = 0
  OBVIOUS
<1>2. Adds(f, <<>>, kind, Len(<<>>))
  BY <1>1 DEF Adds
<1>3. f[0] = 0
  OBVIOUS
<1> HIDE DEF f
<1> QED  BY <1>1, <1>2, <1>3, TotalIs

\* A total is a number.
LEMMA TotalNat ==
    ASSUME NEW q \in Seq(Messages), NEW kind \in {"data", "consumed", "adjust"}
    PROVE  Total(q, kind) \in Nat
<1>1. Len(q) \in 0..Len(q)
  OBVIOUS
<1>2. PICK f \in [0..Len(q) -> Nat] : Adds(f, q, kind, Len(q))
  BY <1>1, SumExists
<1> QED  BY <1>2, TotalIs

\* One message more adds its share ...
LEMMA TotalMore ==
    ASSUME NEW q \in Seq(Messages), NEW kind \in {"data", "consumed", "adjust"},
           NEW m \in Messages
    PROVE  Total(q \o <<m>>, kind) = Total(q, kind) + Share(m, kind)
<1> DEFINE n == Len(q)  r == q \o <<m>>
<1>1. n \in Nat /\ r \in Seq(Messages) /\ Len(r) = n + 1 /\ r[n + 1] = m
      /\ \A i \in 1..n : r[i] = q[i]
  BY OneMore
<1> HIDE DEF n, r
<1>2. n + 1 \in 0..Len(r)
  BY <1>1
<1>3. PICK h \in [0..(n + 1) -> Nat] : Adds(h, r, kind, n + 1)
  BY <1>1, <1>2, SumExists
<1>4. \A i \in 0..(n + 1) : h[i] = IF i = 0 THEN 0 ELSE h[i - 1] + Share(r[i], kind)
  BY <1>3 DEF Adds
<1>5. Total(r, kind) = h[n + 1]
  BY <1>1, <1>3, TotalIs
<1> DEFINE f == [i \in 0..n |-> h[i]]
<1>6. \A i \in 0..n : f[i] = IF i = 0 THEN 0 ELSE f[i - 1] + Share(q[i], kind)
  <2> SUFFICES ASSUME NEW i \in 0..n
               PROVE  f[i] = IF i = 0 THEN 0 ELSE f[i - 1] + Share(q[i], kind)
    OBVIOUS
  <2>1. CASE i = 0
    BY <2>1, <1>1, <1>4
  <2>2. CASE i # 0
    BY <2>2, <1>1, <1>4
  <2> QED  BY <2>1, <2>2
<1>7. f = [i \in 0..n |-> f[i]]
  OBVIOUS
<1>8. f[n] = h[n]
  BY <1>1
<1> HIDE DEF f
<1>9. Adds(f, q, kind, n)
  BY <1>6, <1>7 DEF Adds
<1>10. Total(q, kind) = f[n]
  BY <1>9, TotalIs DEF n
<1>11. h[n + 1] = h[n] + Share(m, kind)
  BY <1>1, <1>4
<1> QED  BY <1>5, <1>8, <1>10, <1>11 DEF r

\* ... and taking the head takes its share away.
LEMMA TotalLess ==
    ASSUME NEW q \in Seq(Messages), NEW kind \in {"data", "consumed", "adjust"}, q # <<>>
    PROVE  Total(q, kind) = Share(Head(q), kind) + Total(Tail(q), kind)
<1> DEFINE n == Len(q)  t == Tail(q)  a == Share(Head(q), kind)
<1>1. /\ n \in Nat \ {0} /\ t \in Seq(Messages) /\ Len(t) = n - 1 /\ Head(q) = q[1]
      /\ Head(q) \in Messages
      /\ \A i \in 1..(n - 1) : t[i] = q[i + 1]
  BY OneLess
<1>2. a \in Nat
  BY <1>1, ShareIsNat
<1>3. PICK h \in [0..n -> Nat] : Adds(h, q, kind, n)
  <2>1. n \in 0..Len(q)
    OBVIOUS
  <2> QED  BY <2>1, SumExists
<1> HIDE DEF n, t, a
<1>4. \A i \in 0..n : h[i] = IF i = 0 THEN 0 ELSE h[i - 1] + Share(q[i], kind)
  BY <1>3 DEF Adds
<1>5. Total(q, kind) = h[n]
  BY <1>3, TotalIs DEF n
<1>6. h[0] = 0 /\ h[1] = a
  BY <1>1, <1>2, <1>4 DEF a
<1> DEFINE f == [i \in 0..(n - 1) |-> h[i + 1] - a]
<1>7. \A i \in 0..(n - 1) : f[i] = IF i = 0 THEN 0 ELSE f[i - 1] + Share(t[i], kind)
  <2> SUFFICES ASSUME NEW i \in 0..(n - 1)
               PROVE  f[i] = IF i = 0 THEN 0 ELSE f[i - 1] + Share(t[i], kind)
    OBVIOUS
  <2>1. CASE i = 0
    BY <2>1, <1>1, <1>2, <1>6
  <2>2. CASE i # 0
    <3>1. i - 1 \in 0..(n - 1) /\ i \in 1..(n - 1) /\ i + 1 \in 1..n
      BY <2>2, <1>1
    <3>2. h[i + 1] = h[i] + Share(q[i + 1], kind)
      BY <3>1, <1>1, <1>4, SMTT(60)
    <3>3. t[i] = q[i + 1] /\ q[i + 1] \in Messages
      BY <3>1, <1>1 DEF n
    <3>4. Share(t[i], kind) \in Nat
      BY <3>3, ShareIsNat
    <3>5. f[i] = h[i + 1] - a /\ f[i - 1] = h[i] - a
      BY <3>1, <1>1
    <3>6. h[i] \in Nat
      BY <3>1, <1>1
    <3> HIDE DEF f
    <3> QED  BY <2>2, <3>2, <3>3, <3>4, <3>5, <3>6, <1>2
  <2> QED  BY <2>1, <2>2
<1>8. f = [i \in 0..(n - 1) |-> f[i]]
  OBVIOUS
<1>9. f[n - 1] = h[n] - a
  BY <1>1
<1> HIDE DEF f
<1>10. Adds(f, t, kind, n - 1)
  BY <1>7, <1>8 DEF Adds
<1>11. Total(t, kind) = f[n - 1]
  BY <1>1, <1>10, TotalIs
<1>12. h[n] \in Nat
  BY <1>1
<1> QED  BY <1>2, <1>5, <1>9, <1>11, <1>12 DEF a, t

-----------------------------------------------------------------------------
(* What each step does to one direction's stream.                          *)

\* The reader takes n bytes from its socket.
LEMMA StreamRead ==
    ASSUME NEW w, NEW sh, NEW t, NEW ro, NEW q, NEW so, NEW m, NEW g \in Nat,
           Stream(w, sh, t, ro, q, so, m, <<>>, g, "reading"),
           NEW n \in Nat
    PROVE  Stream(w, sh, t, ro, q, so, m, [i \in 1..n |-> g + i], g + n, "sending")
<1>1. PICK x, y, z \in Nat : Carried(w, sh, t, ro, q, so, m, <<>>, g, "reading", x, y, z)
  BY DEF Stream
<1>2. ~sh
  BY <1>1 DEF Carried
<1>3. g + n \in Nat /\ g <= g + n
  OBVIOUS
<1>4. \A u : \A a, b \in Nat :
        Lane(u, a, b, g, "reading" = "done") => Lane(u, a, b, g + n, "sending" = "done")
  BY <1>3 DEF Lane
<1>5. w = [i \in 1..Len(w) |-> i] /\ Lane(t, Len(w), x, g + n, "sending" = "done")
  BY <1>1, <1>3 DEF Carried, Lane
<1>6. ro => Lane(q, x, y, g + n, "sending" = "done")
  BY <1>1, <1>4 DEF Carried
<1>7. ASSUME so, ro
      PROVE  /\ Lane(m, y, z, g + n, "sending" = "done")
             /\ [i \in 1..n |-> g + i] = [i \in 1..((g + n) - z) |-> z + i]
  <2>1. Lane(m, y, z, g, "reading" = "done") /\ <<>> = [i \in 1..(g - z) |-> z + i]
    BY <1>1, <1>7 DEF Carried
  <2>2. z <= g
    BY <2>1 DEF Lane
  <2>3. z = g
    <3>1. DOMAIN <<>> = 1..(g - z)
      BY <2>1
    <3>2. DOMAIN <<>> = {}
      OBVIOUS
    <3>3. ~(1 \in 1..(g - z))
      BY <3>1, <3>2
    <3> QED  BY <2>2, <3>3
  <2> QED  BY <1>4, <2>1, <2>3
<1>8. Carried(w, sh, t, ro, q, so, m, [i \in 1..n |-> g + i], g + n, "sending", x, y, z)
  BY <1>2, <1>5, <1>6, <1>7 DEF Carried
<1> QED  BY <1>8 DEF Stream

\* The reader is done, without an end of file.
LEMMA StreamDone ==
    ASSUME NEW w, NEW sh, NEW t, NEW ro, NEW q, NEW so, NEW m, NEW b, NEW g \in Nat, NEW rd,
           Stream(w, sh, t, ro, q, so, m, b, g, rd)
    PROVE  Stream(w, sh, t, ro, q, so, m, b, g, "done")
<1>1. PICK x, y, z \in Nat : Carried(w, sh, t, ro, q, so, m, b, g, rd, x, y, z)
  BY DEF Stream
<1>2. \A a, c, u : Lane(u, a, c, g, rd = "done") => Lane(u, a, c, g, "done" = "done")
  BY DEF Lane
<1>3. Carried(w, sh, t, ro, q, so, m, b, g, "done", x, y, z)
  BY <1>1, <1>2, Zenon DEF Carried
<1> QED  BY <1>3 DEF Stream

\* ... and with one, behind everything it read.
LEMMA StreamEof ==
    ASSUME NEW w, NEW sh, NEW t, NEW ro, NEW q, NEW so, NEW m \in Seq(Messages), NEW g \in Nat,
           Stream(w, sh, t, ro, q, so, m, <<>>, g, "reading")
    PROVE  Stream(w, sh, t, ro, q, so, m \o <<Plain("eof")>>, <<>>, g, "done")
<1>0. Stream(w, sh, t, ro, q, so, m, <<>>, g, "done")
  BY StreamDone
<1>1. PICK x, y, z \in Nat : Carried(w, sh, t, ro, q, so, m, <<>>, g, "done", x, y, z)
  BY <1>0 DEF Stream
<1>2. ASSUME so, ro PROVE Lane(m \o <<Plain("eof")>>, y, z, g, "done" = "done")
  <2>1. Lane(m, y, z, g, "done" = "done") /\ <<>> = [i \in 1..(g - z) |-> z + i]
    BY <1>1, <1>2 DEF Carried
  <2>2. z <= g
    BY <2>1 DEF Lane
  <2>3. z = g
    <3>1. DOMAIN <<>> = 1..(g - z)
      BY <2>1
    <3>2. DOMAIN <<>> = {}
      OBVIOUS
    <3>3. ~(1 \in 1..(g - z))
      BY <3>1, <3>2
    <3> QED  BY <2>2, <3>3
  <2>4. Plain("eof") \in Messages /\ Plain("eof").type # "data"
    BY PlainMessages DEF Messages
  <2> QED  BY <2>1, <2>3, <2>4, LaneMoreOther
<1>3. Carried(w, sh, t, ro, q, so, m \o <<Plain("eof")>>, <<>>, g, "done", x, y, z)
  BY <1>1, <1>2 DEF Carried
<1> QED  BY <1>3 DEF Stream

\* A chunk of k bytes of the buffer goes to the loop.
LEMMA StreamSend ==
    ASSUME NEW w, NEW sh, NEW t, NEW ro, NEW q, NEW so, NEW m \in Seq(Messages),
           NEW b \in Seq(Nat), NEW g \in Nat, NEW rd \in {"reading", "sending"},
           Stream(w, sh, t, ro, q, so, m, b, g, "sending"),
           NEW k \in 1..Len(b), k <= Packet
    PROVE  Stream(w, sh, t, ro, q, so, m \o <<Bytes("data", SubSeq(b, 1, k))>>,
                  SubSeq(b, k + 1, Len(b)), g, rd)
<1> DEFINE d == Bytes("data", SubSeq(b, 1, k))  c == SubSeq(b, k + 1, Len(b))
<1>1. PICK x, y, z \in Nat : Carried(w, sh, t, ro, q, so, m, b, g, "sending", x, y, z)
  BY DEF Stream
<1>2. \A a, e, u : Lane(u, a, e, g, "sending" = "done") => Lane(u, a, e, g, rd = "done")
  BY DEF Lane
<1>3. ~sh
  BY <1>1 DEF Carried
<1>4. k \in Nat \ {0} /\ k <= Len(b) /\ Len(b) \in Nat
  OBVIOUS
<1>5. /\ d.type = "data" /\ d.bytes = SubSeq(b, 1, k) /\ Len(d.bytes) = k
      /\ d.bytes \in Seq(Nat) /\ \A i \in 1..k : d.bytes[i] = b[i]
  BY <1>4 DEF Bytes
<1>6. d \in Messages
  <2>1. d \in [type : {"data"}, bytes : Seq(Nat)]
    BY <1>4 DEF Bytes
  <2>2. d \in Data
    BY <2>1, <1>4, <1>5, PacketSize DEF Data
  <2> QED  BY <2>2 DEF Messages, Commands
<1>7. c \in Seq(Nat) /\ Len(c) = Len(b) - k /\ \A i \in 1..(Len(b) - k) : c[i] = b[k + i]
  BY <1>4
<1> HIDE DEF d, c
<1>8. ASSUME so, ro PROVE /\ z + k \in Nat
                          /\ Lane(m \o <<d>>, y, z + k, g, rd = "done")
                          /\ c = [i \in 1..(g - (z + k)) |-> (z + k) + i]
  <2>1. Lane(m, y, z, g, rd = "done") /\ b = [i \in 1..(g - z) |-> z + i]
    BY <1>1, <1>2, <1>8 DEF Carried
  <2>2. z <= g
    BY <2>1 DEF Lane
  <2>3. Len(b) = g - z
    BY <2>1, <2>2
  <2>4. d.bytes = [i \in 1..k |-> z + i]
    <3>1. ASSUME NEW i \in 1..k PROVE d.bytes[i] = z + i
      <4>1. i \in 1..(g - z) /\ d.bytes[i] = b[i]
        BY <2>3, <1>4, <1>5
      <4> QED  BY <2>1, <4>1
    <3>2. DOMAIN d.bytes = 1..k /\ d.bytes = [i \in DOMAIN d.bytes |-> d.bytes[i]]
      BY <1>5
    <3> QED  BY <3>1, <3>2
  <2>5. Lane(m \o <<d>>, y, z + Len(d.bytes), g, rd = "done")
    <3>1. z + Len(d.bytes) <= g
      BY <2>3, <1>4, <1>5
    <3>2. d.bytes = [i \in 1..Len(d.bytes) |-> z + i]
      BY <2>4, <1>5
    <3> QED  BY <2>1, <3>1, <3>2, <1>5, <1>6, LaneMoreData
  <2>6. c = [i \in 1..(g - (z + k)) |-> (z + k) + i]
    <3>1. g - (z + k) = Len(b) - k
      BY <2>3, <1>4
    <3>2. ASSUME NEW i \in 1..(Len(b) - k) PROVE c[i] = (z + k) + i
      <4>1. k + i \in 1..(g - z) /\ c[i] = b[k + i]
        BY <2>3, <1>4, <1>7
      <4>2. b[k + i] = z + (k + i)
        BY <2>1, <4>1
      <4> QED  BY <4>1, <4>2, <1>4
    <3>3. DOMAIN c = 1..(Len(b) - k) /\ c = [i \in DOMAIN c |-> c[i]]
      BY <1>7
    <3> QED  BY <3>1, <3>2, <3>3
  <2> QED  BY <2>5, <2>6, <1>4, <1>5
<1>9. CASE so /\ ro
  <2>1. Carried(w, sh, t, ro, q, so, m \o <<d>>, c, g, rd, x, y, z + k)
    BY <1>1, <1>2, <1>3, <1>8, <1>9 DEF Carried
  <2> QED  BY <1>8, <1>9, <2>1 DEF Stream, d, c
<1>10. CASE ~(so /\ ro)
  <2>1. Carried(w, sh, t, ro, q, so, m \o <<d>>, c, g, rd, x, y, z)
    BY <1>1, <1>2, <1>3, <1>10 DEF Carried
  <2> QED  BY <2>1 DEF Stream, d, c
<1> QED  BY <1>9, <1>10

\* The writer writes the data at the head of its queue ...
LEMMA StreamWrite ==
    ASSUME NEW w \in Seq(Nat), NEW sh, NEW t \in Seq(Messages), NEW ro, NEW q, NEW so, NEW m,
           NEW b, NEW g \in Nat, NEW rd, Stream(w, sh, t, ro, q, so, m, b, g, rd),
           t # <<>>, Head(t).type = "data"
    PROVE  Stream(w \o Head(t).bytes, sh, Tail(t), ro, q, so, m, b, g, rd)
<1> DEFINE h == Head(t).bytes  v == w \o h
<1>1. PICK x, y, z \in Nat : Carried(w, sh, t, ro, q, so, m, b, g, rd, x, y, z)
  BY DEF Stream
<1>2. Len(w) \in Nat /\ h \in Seq(Nat) /\ Len(h) \in Nat \ {0}
  BY MessageFacts, PacketSize
<1>3. Lane(t, Len(w), x, g, rd = "done") /\ w = [i \in 1..Len(w) |-> i]
  BY <1>1 DEF Carried
<1>4. /\ h = [k \in 1..Len(h) |-> Len(w) + k]
      /\ Len(w) + Len(h) <= x
      /\ Lane(Tail(t), Len(w) + Len(h), x, g, rd = "done")
  BY <1>2, <1>3, LaneLessData
<1>5. Len(v) = Len(w) + Len(h) /\ v \in Seq(Nat)
  BY <1>2
<1>6. v = [i \in 1..Len(v) |-> i]
  <2>1. \A i \in 1..(Len(w) + Len(h)) : v[i] = IF i <= Len(w) THEN w[i] ELSE h[i - Len(w)]
    BY <1>2
  <2> HIDE DEF v, h
  <2>2. \A i \in 1..(Len(w) + Len(h)) : v[i] = i
    <3> SUFFICES ASSUME NEW i \in 1..(Len(w) + Len(h)) PROVE v[i] = i
      OBVIOUS
    <3>1. CASE i <= Len(w)
      BY <3>1, <2>1, <1>2, <1>3
    <3>2. CASE ~(i <= Len(w))
      <4>1. i - Len(w) \in 1..Len(h)
        BY <3>2, <1>2
      <4>2. h[i - Len(w)] = Len(w) + (i - Len(w))
        BY <4>1, <1>4
      <4> QED  BY <3>2, <2>1, <4>2, <1>2
    <3> QED  BY <3>1, <3>2
  <2> QED  BY <2>2, <1>5
<1>7. ~sh
  <2>1. x <= g
    BY <1>3 DEF Lane
  <2>2. sh => Len(w) = g
    BY <1>1, Zenon DEF Carried
  <2>3. Len(w) + Len(h) <= x
    BY <1>4
  <2> HIDE DEF h
  <2> QED  BY <2>1, <2>2, <2>3, <1>2
<1> HIDE DEF v, h
<1>8. Carried(v, sh, Tail(t), ro, q, so, m, b, g, rd, x, y, z)
  BY <1>1, <1>4, <1>5, <1>6, <1>7 DEF Carried
<1> QED  BY <1>8 DEF Stream, v, h

\* ... or shuts its socket at an end of file.
LEMMA StreamShut ==
    ASSUME NEW w \in Seq(Nat), NEW sh, NEW t \in Seq(Messages), NEW ro, NEW q, NEW so, NEW m,
           NEW b, NEW g \in Nat, NEW rd, Stream(w, sh, t, ro, q, so, m, b, g, rd),
           t # <<>>, Head(t).type = "eof"
    PROVE  Stream(w, TRUE, Tail(t), ro, q, so, m, b, g, rd)
<1>1. PICK x, y, z \in Nat : Carried(w, sh, t, ro, q, so, m, b, g, rd, x, y, z)
  BY DEF Stream
<1>2. Len(w) \in Nat
  OBVIOUS
<1>0. Lane(t, Len(w), x, g, rd = "done")
  BY <1>1, Zenon DEF Carried
<1>3. Len(w) = g /\ rd = "done" /\ Lane(Tail(t), Len(w), x, g, rd = "done")
  <2>1. Head(t).type # "data"
    OBVIOUS
  <2> DEFINE a == Len(w)  done == rd = "done"
  <2>2. a \in Nat /\ Lane(t, a, x, g, done) /\ done \in BOOLEAN
    BY <1>0, <1>2
  <2> HIDE DEF a, done
  <2>3. Lane(Tail(t), a, x, g, done)
    BY <2>1, <2>2, LaneLessOther
  <2>4. a = g
    BY <2>1, <2>2, LaneLessOther
  <2>5. done
    BY <2>1, <2>2, LaneLessOther
  <2> QED  BY <2>3, <2>4, <2>5 DEF a, done
<1>4. Carried(w, TRUE, Tail(t), ro, q, so, m, b, g, rd, x, y, z)
  BY <1>1, <1>3 DEF Carried
<1> QED  BY <1>4 DEF Stream

\* The loop hands the data at the head of the wire to the task ...
LEMMA StreamDeliver ==
    ASSUME NEW w \in Seq(Nat), NEW sh, NEW t \in Seq(Messages), NEW ro \in BOOLEAN,
           NEW q \in Seq(Messages), NEW so, NEW m, NEW b, NEW g \in Nat, NEW rd,
           Stream(w, sh, t, ro, q, so, m, b, g, rd), ro, q # <<>>, Head(q).type = "data"
    PROVE  Stream(w, sh, t \o <<Head(q)>>, ro, Tail(q), so, m, b, g, rd)
<1> DEFINE h == Head(q)  n == Len(h.bytes)  done == rd = "done"  a == Len(w)
<1>1. PICK x, y, z \in Nat : Carried(w, sh, t, ro, q, so, m, b, g, rd, x, y, z)
  BY DEF Stream
<1>2. Lane(t, a, x, g, done) /\ Lane(q, x, y, g, done)
  BY <1>1, Zenon DEF Carried
<1>3. a \in Nat /\ h \in Messages
  BY OneLess
<1> HIDE DEF done, a
<1>4. /\ h.bytes = [k \in 1..n |-> x + k] /\ x + n \in Nat /\ x + n <= y
      /\ Lane(Tail(q), x + n, y, g, done)
  BY <1>2, LaneLessData
<1>5. x + n <= g
  <2>1. y <= g
    BY <1>2 DEF Lane
  <2> HIDE DEF n
  <2>2. n \in Nat
    BY <1>3, MessageFacts, PacketSize DEF n
  <2> QED  BY <1>4, <2>1, <2>2
<1>6. Lane(t \o <<h>>, a, x + n, g, done)
  BY <1>2, <1>3, <1>4, <1>5, LaneMoreData
<1> HIDE DEF h, n
<1>7. Carried(w, sh, t \o <<h>>, ro, Tail(q), so, m, b, g, rd, x + n, y, z)
  BY <1>1, <1>4, <1>6, Zenon DEF Carried, done, a
<1> QED  BY <1>4, <1>7 DEF Stream, h

\* ... or the end of file, or discards what says nothing of the stream.
LEMMA StreamDeliverOther ==
    ASSUME NEW w \in Seq(Nat), NEW sh, NEW t \in Seq(Messages), NEW ro \in BOOLEAN,
           NEW q \in Seq(Messages), NEW so, NEW m, NEW b, NEW g \in Nat, NEW rd,
           Stream(w, sh, t, ro, q, so, m, b, g, rd), q # <<>>, Head(q).type # "data",
           NEW u, \/ u = t /\ (ro => Head(q).type # "eof")
                  \/ ro /\ u = t \o <<Head(q)>>
    PROVE  Stream(w, sh, u, ro, Tail(q), so, m, b, g, rd)
<1> DEFINE h == Head(q)  done == rd = "done"  a == Len(w)
<1>1. PICK x, y, z \in Nat : Carried(w, sh, t, ro, q, so, m, b, g, rd, x, y, z)
  BY DEF Stream
<1>2. Lane(t, a, x, g, done) /\ (ro => Lane(q, x, y, g, done))
  BY <1>1, Zenon DEF Carried
<1>3. a \in Nat /\ h \in Messages /\ done \in BOOLEAN
  BY OneLess
<1> HIDE DEF done, a
<1>4. ro => Lane(Tail(q), x, y, g, done)
  BY <1>2, <1>3, LaneLessOther
<1>5. ro /\ h.type = "eof" => x = g /\ done
  BY <1>2, <1>3, LaneLessOther
<1>6. Lane(u, a, x, g, done)
  <2>1. CASE u = t
    BY <1>2, <2>1
  <2>2. CASE ro /\ u = t \o <<h>>
    BY <1>2, <1>3, <1>5, <2>2, LaneMoreOther
  <2> QED  BY <2>1, <2>2
<1>7. Carried(w, sh, u, ro, Tail(q), so, m, b, g, rd, x, y, z)
  BY <1>1, <1>4, <1>6, Zenon DEF Carried, done, a
<1> QED  BY <1>7 DEF Stream

\* The loop sends the data at the head of its commands ...
LEMMA StreamSent ==
    ASSUME NEW w, NEW sh, NEW t, NEW ro \in BOOLEAN,
           NEW q \in Seq(Messages), NEW so \in BOOLEAN, NEW m \in Seq(Messages), NEW b,
           NEW g \in Nat, NEW rd,
           Stream(w, sh, t, ro, q, so, m, b, g, rd), so, m # <<>>, Head(m).type = "data"
    PROVE  Stream(w, sh, t, ro, q \o <<Head(m)>>, so, Tail(m), b, g, rd)
<1> DEFINE h == Head(m)  n == Len(h.bytes)  done == rd = "done"
<1>1. PICK x, y, z \in Nat : Carried(w, sh, t, ro, q, so, m, b, g, rd, x, y, z)
  BY DEF Stream
<1>2. CASE ~ro
  <2>1. Carried(w, sh, t, ro, q \o <<h>>, so, Tail(m), b, g, rd, x, y, z)
    BY <1>1, <1>2, Zenon DEF Carried
  <2> QED  BY <2>1 DEF Stream
<1>3. CASE ro
  <2>1. Lane(q, x, y, g, done) /\ Lane(m, y, z, g, done)
    BY <1>1, <1>3, Zenon DEF Carried
  <2>2. h \in Messages
    BY OneLess
  <2> HIDE DEF done
  <2>3. /\ h.bytes = [k \in 1..n |-> y + k] /\ y + n \in Nat /\ y + n <= z
        /\ Lane(Tail(m), y + n, z, g, done)
    BY <2>1, LaneLessData
  <2>4. y + n <= g
    <3>1. z <= g
      BY <2>1 DEF Lane
    <3> HIDE DEF n
    <3>2. n \in Nat
      BY <2>2, MessageFacts, PacketSize DEF n
    <3> QED  BY <2>3, <3>1, <3>2
  <2>5. Lane(q \o <<h>>, x, y + n, g, done)
    BY <2>1, <2>2, <2>3, <2>4, LaneMoreData
  <2> HIDE DEF h, n
  <2>6. Carried(w, sh, t, ro, q \o <<h>>, so, Tail(m), b, g, rd, x, y + n, z)
    BY <1>1, <2>3, <2>5, Zenon DEF Carried, done
  <2> QED  BY <2>3, <2>6 DEF Stream, h
<1> QED  BY <1>2, <1>3

\* ... or its end of file, or takes a command that says nothing of the stream.
LEMMA StreamSentOther ==
    ASSUME NEW w, NEW sh, NEW t, NEW ro \in BOOLEAN,
           NEW q \in Seq(Messages), NEW so \in BOOLEAN, NEW m \in Seq(Messages), NEW b,
           NEW g \in Nat, NEW rd,
           Stream(w, sh, t, ro, q, so, m, b, g, rd), m # <<>>, so => Head(m).type # "data",
           NEW v, v = q \/ (so /\ v = q \o <<Head(m)>>)
    PROVE  Stream(w, sh, t, ro, v, so, Tail(m), b, g, rd)
<1> DEFINE h == Head(m)  done == rd = "done"
<1>1. PICK x, y, z \in Nat : Carried(w, sh, t, ro, q, so, m, b, g, rd, x, y, z)
  BY DEF Stream
<1>2. h \in Messages /\ done \in BOOLEAN
  BY OneLess
<1>3. (ro => Lane(q, x, y, g, done)) /\ (so /\ ro => Lane(m, y, z, g, done))
  BY <1>1, Zenon DEF Carried
<1> HIDE DEF done
<1>4. so /\ ro => Lane(Tail(m), y, z, g, done)
  BY <1>2, <1>3, LaneLessOther
<1>5. so /\ ro /\ h.type = "eof" => y = g /\ done
  BY <1>2, <1>3, LaneLessOther
<1>6. ro => Lane(v, x, y, g, done)
  <2>1. CASE v = q
    BY <1>3, <2>1
  <2>2. CASE so /\ v = q \o <<h>>
    BY <1>2, <1>3, <1>5, <2>2, LaneMoreOther
  <2> QED  BY <2>1, <2>2
<1>7. Carried(w, sh, t, ro, v, so, Tail(m), b, g, rd, x, y, z)
  BY <1>1, <1>4, <1>6, Zenon DEF Carried, done
<1> QED  BY <1>7 DEF Stream

\* Only the command goes.
LEMMA StreamSkipped ==
    ASSUME NEW w, NEW sh, NEW t, NEW ro \in BOOLEAN,
           NEW q \in Seq(Messages), NEW so \in BOOLEAN, NEW m \in Seq(Messages), NEW b,
           NEW g \in Nat, NEW rd,
           Stream(w, sh, t, ro, q, so, m, b, g, rd), m # <<>>, Head(m).type # "data"
    PROVE  Stream(w, sh, t, ro, q, so, Tail(m), b, g, rd)
<1> DEFINE v == q
<1>1. v = q \/ (so /\ v = q \o <<Head(m)>>)
  OBVIOUS
<1> HIDE DEF v
<1>2. Stream(w, sh, t, ro, v, so, Tail(m), b, g, rd)
  BY <1>1, StreamSentOther
<1> QED  BY <1>2 DEF v

\* A message that is neither data nor an end of file, put in a queue.
Aside(m) == m \in Messages /\ m.type # "data" /\ m.type # "eof"

\* It disturbs no lane.
LEMMA StreamAside ==
    ASSUME NEW w \in Seq(Nat), NEW sh, NEW t \in Seq(Messages), NEW ro \in BOOLEAN,
           NEW q \in Seq(Messages), NEW so \in BOOLEAN, NEW m \in Seq(Messages), NEW b,
           NEW g \in Nat, NEW rd,
           Stream(w, sh, t, ro, q, so, m, b, g, rd), NEW n, Aside(n)
    PROVE  /\ Stream(w, sh, t \o <<n>>, ro, q, so, m, b, g, rd)
           /\ Stream(w, sh, t, ro, q \o <<n>>, so, m, b, g, rd)
           /\ Stream(w, sh, t, ro, q, so, m \o <<n>>, b, g, rd)
<1> DEFINE done == rd = "done"  a == Len(w)
<1>1. PICK x, y, z \in Nat : Carried(w, sh, t, ro, q, so, m, b, g, rd, x, y, z)
  BY DEF Stream
<1>0. a \in Nat
  OBVIOUS
<1>2. /\ Lane(t, a, x, g, done)
      /\ ro => Lane(q, x, y, g, done)
      /\ so /\ ro => Lane(m, y, z, g, done)
  BY <1>1, Zenon DEF Carried
<1> HIDE DEF done, a
<1>3. Lane(t \o <<n>>, a, x, g, done)
  BY <1>0, <1>2, LaneMoreOther DEF Aside
<1>4. ro => Lane(q \o <<n>>, x, y, g, done)
  BY <1>2, LaneMoreOther DEF Aside
<1>5. so /\ ro => Lane(m \o <<n>>, y, z, g, done)
  BY <1>2, LaneMoreOther DEF Aside
<1>6. Carried(w, sh, t \o <<n>>, ro, q, so, m, b, g, rd, x, y, z)
  BY <1>1, <1>3, Zenon DEF Carried, done, a
<1>7. Carried(w, sh, t, ro, q \o <<n>>, so, m, b, g, rd, x, y, z)
  BY <1>1, <1>4, Zenon DEF Carried, done, a
<1>8. Carried(w, sh, t, ro, q, so, m \o <<n>>, b, g, rd, x, y, z)
  BY <1>1, <1>5, Zenon DEF Carried, done, a
<1> QED  BY <1>6, <1>7, <1>8 DEF Stream

\* An end forgets the channel: nothing is asked of the queues it dropped.
LEMMA StreamCutTo ==
    ASSUME NEW w, NEW sh, NEW t, NEW ro, NEW q, NEW so, NEW m, NEW b, NEW g, NEW rd,
           Stream(w, sh, t, ro, q, so, m, b, g, rd), NEW v
    PROVE  Stream(w, sh, t, FALSE, v, so, m, b, g, rd)
<1>1. PICK x, y, z \in Nat : Carried(w, sh, t, ro, q, so, m, b, g, rd, x, y, z)
  BY DEF Stream
<1>2. Carried(w, sh, t, FALSE, v, so, m, b, g, rd, x, y, z)
  BY <1>1, Zenon DEF Carried
<1> QED  BY <1>2 DEF Stream

\* The sender forgets the channel: what its task still says is dropped.
LEMMA StreamCutFrom ==
    ASSUME NEW w, NEW sh, NEW t, NEW ro, NEW q, NEW so, NEW m, NEW b, NEW g, NEW rd,
           Stream(w, sh, t, ro, q, so, m, b, g, rd), NEW l
    PROVE  Stream(w, sh, t, ro, q, FALSE, l, b, g, rd)
<1>1. PICK x, y, z \in Nat : Carried(w, sh, t, ro, q, so, m, b, g, rd, x, y, z)
  BY DEF Stream
<1>2. Carried(w, sh, t, ro, q, FALSE, l, b, g, rd, x, y, z)
  BY <1>1, Zenon DEF Carried
<1> QED  BY <1>2 DEF Stream

-----------------------------------------------------------------------------
(* What holds before a step of e.                                          *)

\* A channel's entry, field by field, or none.
LEMMA EntryFacts ==
    ASSUME NEW c \in Entry \cup {NoChan}
    PROVE  /\ c.open \in BOOLEAN
           /\ c.open => /\ c \in Entry /\ c.local_window \in Nat /\ c.pending_consumed \in Nat
                        /\ c.sent_eof \in BOOLEAN /\ c.sent_close \in BOOLEAN
                        /\ c.peer_closed \in BOOLEAN
           /\ ~c.open => c = NoChan
<1>1. CASE c = NoChan
  <2>1. c.open = FALSE
    BY <1>1 DEF NoChan
  <2> QED  BY <1>1, <2>1
<1>2. CASE c \in Entry
  <2>1. c.open = TRUE
    BY <1>2 DEF Entry
  <2>2. /\ c.local_window \in Nat /\ c.pending_consumed \in Nat
        /\ c.sent_eof \in BOOLEAN /\ c.sent_close \in BOOLEAN /\ c.peer_closed \in BOOLEAN
    BY <1>2 DEF Entry
  <2> QED  BY <1>2, <2>1, <2>2
<1> QED  BY <1>1, <1>2

\* A channel that is gone is not open.
LEMMA NoChanFacts == NoChan \in Entry \cup {NoChan} /\ NoChan.open = FALSE
BY DEF NoChan

\* The invariant, by the values a step of e starts from.
LEMMA Before ==
    ASSUME Inv, NEW e \in End
    PROVE  LET p == Peer(e) IN
           /\ LoopTyped(run[e], chan[e], credit[e], sem_closed[e], to_task[e], cmds[e],
                        wire[e], wire[p])
           /\ TaskTyped(got[e], rbuf[e], reader[e], writer[e], joined[e], written[e], shut[e])
           /\ PhasesKept(e, run[e], chan[e], sem_closed[e], cmds[e], wire[e], wire[p],
                         rbuf[e], reader[e], writer[e], joined[e])
           /\ StreamsKept(e, chan[e], to_task[e], cmds[e], wire[e], wire[p], got[e], rbuf[e],
                          reader[e], written[e], shut[e])
           /\ AccountsKept(e, run[e], chan[e], credit[e], to_task[e], cmds[e], wire[e], wire[p])
<1> DEFINE p == Peer(e)
<1>1. p \in End /\ Peer(p) = e
  BY TwoEnds
<1>2. LoopTyped(run[e], chan[e], credit[e], sem_closed[e], to_task[e], cmds[e], wire[e], wire[p])
  BY <1>1 DEF Inv, Typed, LoopTyped
<1>3. TaskTyped(got[e], rbuf[e], reader[e], writer[e], joined[e], written[e], shut[e])
  BY <1>1 DEF Inv, Typed, TaskTyped
<1>4. PhasesKept(e, run[e], chan[e], sem_closed[e], cmds[e], wire[e], wire[p],
                 rbuf[e], reader[e], writer[e], joined[e])
  BY <1>1, Zenon DEF Inv, PhaseOf, PhasesKept
<1>5. StreamOf(e, p) /\ StreamOf(p, e)
  BY <1>1, Zenon DEF Inv
<1>6. AccountOf(e, p) /\ AccountOf(p, e)
  BY <1>1, Zenon DEF Inv
<1>7. StreamsKept(e, chan[e], to_task[e], cmds[e], wire[e], wire[p], got[e], rbuf[e],
                  reader[e], written[e], shut[e])
  BY <1>5, Zenon DEF StreamOf, StreamsKept
<1>8. AccountsKept(e, run[e], chan[e], credit[e], to_task[e], cmds[e], wire[e], wire[p])
  BY <1>6, Zenon DEF AccountOf, AccountsKept
<1> QED  BY <1>2, <1>3, <1>4, <1>7, <1>8

\* The types, one by one, of both ends.
LEMMA Types ==
    ASSUME Inv, NEW e \in End
    PROVE  /\ run[e] \in {"running", "overflow", "lost", "done"}
           /\ chan[e] \in Entry \cup {NoChan}
           /\ chan[e].open \in BOOLEAN
           /\ credit[e] \in Nat
           /\ sem_closed[e] \in BOOLEAN
           /\ to_task[e] \in Seq(Events) /\ to_task[e] \in Seq(Messages)
           /\ cmds[e] \in Seq(Commands) /\ cmds[e] \in Seq(Messages)
           /\ wire[e] \in Seq(Packets) /\ wire[e] \in Seq(Messages)
           /\ got[e] \in Nat
           /\ rbuf[e] \in Seq(Nat)
           /\ reader[e] \in {"reading", "sending", "done"}
           /\ writer[e] \in {"running", "done"}
           /\ joined[e] \in BOOLEAN
           /\ written[e] \in Seq(Nat)
           /\ shut[e] \in BOOLEAN
<1>1. Typed
  BY DEF Inv
<1>2. chan[e] \in Entry \cup {NoChan} /\ to_task[e] \in Seq(Events) /\ cmds[e] \in Seq(Commands)
      /\ wire[e] \in Seq(Packets)
  BY <1>1 DEF Typed
<1>3. chan[e].open \in BOOLEAN
  BY <1>2, EntryFacts
<1>4. to_task[e] \in Seq(Messages) /\ cmds[e] \in Seq(Messages) /\ wire[e] \in Seq(Messages)
  BY <1>2, Queues
<1> QED  BY <1>1, <1>2, <1>3, <1>4 DEF Typed

\* A step that leaves the loops or the tasks alone.
LEMMA Idle ==
    ASSUME Typed, NEW e \in End
    PROVE  LET p == Peer(e) IN
           /\ UNCHANGED loopVars =>
                LoopMoves(e, run[e], chan[e], credit[e], sem_closed[e], to_task[e], cmds[e],
                          wire[e], wire[p])
           /\ UNCHANGED taskVars =>
                TaskMoves(e, got[e], rbuf[e], reader[e], writer[e], joined[e], written[e], shut[e])
<1> DEFINE p == Peer(e)
<1>1. p \in End /\ p # e
  BY TwoEnds
<1>2. ASSUME UNCHANGED loopVars
      PROVE  LoopMoves(e, run[e], chan[e], credit[e], sem_closed[e], to_task[e], cmds[e],
                       wire[e], wire[p])
  BY <1>1, <1>2 DEF Typed, loopVars, LoopMoves
<1>3. ASSUME UNCHANGED taskVars
      PROVE  TaskMoves(e, got[e], rbuf[e], reader[e], writer[e], joined[e], written[e], shut[e])
  BY <1>3 DEF Typed, taskVars, TaskMoves
<1> QED  BY <1>2, <1>3

\* What a message weighs.
LEMMA Shares ==
    ASSUME NEW m \in Messages
    PROVE  /\ Share(m, "data") = IF m.type = "data" THEN Len(m.bytes) ELSE 0
           /\ Share(m, "consumed") = IF m.type = "consumed" THEN m.n ELSE 0
           /\ Share(m, "adjust") = IF m.type = "adjust" THEN m.n ELSE 0
BY DEF Share

\* Totals of a queue with one message more ...
LEMMA MoreTotals ==
    ASSUME NEW q \in Seq(Messages), NEW m \in Messages
    PROVE  /\ Total(q \o <<m>>, "data") =
                IF m.type = "data" THEN Total(q, "data") + Len(m.bytes) ELSE Total(q, "data")
           /\ Total(q \o <<m>>, "consumed") =
                IF m.type = "consumed" THEN Total(q, "consumed") + m.n ELSE Total(q, "consumed")
           /\ Total(q \o <<m>>, "adjust") =
                IF m.type = "adjust" THEN Total(q, "adjust") + m.n ELSE Total(q, "adjust")
<1>1. /\ Total(q, "data") \in Nat /\ Total(q, "consumed") \in Nat /\ Total(q, "adjust") \in Nat
  BY TotalNat
<1>2. /\ Total(q \o <<m>>, "data") = Total(q, "data") + Share(m, "data")
      /\ Total(q \o <<m>>, "consumed") = Total(q, "consumed") + Share(m, "consumed")
      /\ Total(q \o <<m>>, "adjust") = Total(q, "adjust") + Share(m, "adjust")
  BY TotalMore
<1> QED  BY <1>1, <1>2, Shares

\* ... and without its head.
LEMMA LessTotals ==
    ASSUME NEW q \in Seq(Messages), q # <<>>
    PROVE  LET m == Head(q) IN
           /\ Total(q, "data") =
                IF m.type = "data" THEN Total(Tail(q), "data") + Len(m.bytes)
                                   ELSE Total(Tail(q), "data")
           /\ Total(q, "consumed") =
                IF m.type = "consumed" THEN Total(Tail(q), "consumed") + m.n
                                       ELSE Total(Tail(q), "consumed")
           /\ Total(q, "adjust") =
                IF m.type = "adjust" THEN Total(Tail(q), "adjust") + m.n
                                     ELSE Total(Tail(q), "adjust")
           /\ Total(Tail(q), "data") \in Nat /\ Total(Tail(q), "consumed") \in Nat
           /\ Total(Tail(q), "adjust") \in Nat
<1> DEFINE m == Head(q)
<1>0. m \in Messages /\ Tail(q) \in Seq(Messages)
  BY OneLess
<1>1. /\ Total(Tail(q), "data") \in Nat /\ Total(Tail(q), "consumed") \in Nat
      /\ Total(Tail(q), "adjust") \in Nat
  BY <1>0, TotalNat
<1>2. /\ Total(q, "data") = Share(m, "data") + Total(Tail(q), "data")
      /\ Total(q, "consumed") = Share(m, "consumed") + Total(Tail(q), "consumed")
      /\ Total(q, "adjust") = Share(m, "adjust") + Total(Tail(q), "adjust")
  BY TotalLess
<1>3. /\ m.type = "data" => Len(m.bytes) \in Nat
      /\ m.type = "consumed" => m.n \in Nat
      /\ m.type = "adjust" => m.n \in Nat
  BY <1>0, MessageFacts, PacketSize
<1> HIDE DEF m
<1>4. /\ Share(m, "data") = IF m.type = "data" THEN Len(m.bytes) ELSE 0
      /\ Share(m, "consumed") = IF m.type = "consumed" THEN m.n ELSE 0
      /\ Share(m, "adjust") = IF m.type = "adjust" THEN m.n ELSE 0
  BY <1>0, Shares
<1>5. /\ Total(q, "data") =
           IF m.type = "data" THEN Total(Tail(q), "data") + Len(m.bytes)
                              ELSE Total(Tail(q), "data")
      /\ Total(q, "consumed") =
           IF m.type = "consumed" THEN Total(Tail(q), "consumed") + m.n
                                  ELSE Total(Tail(q), "consumed")
      /\ Total(q, "adjust") =
           IF m.type = "adjust" THEN Total(Tail(q), "adjust") + m.n
                                ELSE Total(Tail(q), "adjust")
  BY <1>1, <1>2, <1>3, <1>4
<1> QED  BY <1>1, <1>5 DEF m

-----------------------------------------------------------------------------
(* The steps of the task.                                                  *)

\* forward_task's reader takes bytes from its socket.
LEMMA ReadSocketKeeps ==
    ASSUME Inv, NEW e \in End, ReadSocket(e)
    PROVE  Inv'
<1> DEFINE p == Peer(e)
<1>1. PICK n \in 1..Smaller(MaxChunk[e], TotalBytes[e] - got[e]) :
         /\ got' = [got EXCEPT ![e] = @ + n]
         /\ rbuf' = [rbuf EXCEPT ![e] = [i \in 1..n |-> got[e] + i]]
  BY DEF ReadSocket
<1>2. Typed /\ got[e] \in Nat
  BY Types DEF Inv
<1>3. n \in Nat \ {0}
  <2>1. MaxChunk[e] \in Nat /\ TotalBytes[e] \in Nat
    BY MuxAssumption, ChannelAssumption
  <2>2. Smaller(MaxChunk[e], TotalBytes[e] - got[e]) \in Int
    BY <1>2, <2>1, SmallerOf
  <2> QED  BY <2>2
<1> DEFINE b == [i \in 1..n |-> got[e] + i]
<1>4. LoopMoves(e, run[e], chan[e], credit[e], sem_closed[e], to_task[e], cmds[e], wire[e], wire[p])
  BY <1>2, Idle DEF ReadSocket
<1>5. TaskMoves(e, got[e] + n, b, "sending", writer[e], joined[e], written[e], shut[e])
  BY <1>1, <1>2 DEF ReadSocket, TaskMoves, Typed
<1>6. /\ TaskTyped(got[e] + n, b, "sending", writer[e], joined[e], written[e], shut[e])
      /\ b # <<>>
  <2>1. b \in Seq(Nat) /\ Len(b) = n
    BY <1>2, <1>3
  <2>2. b # <<>>
    <3> HIDE DEF b
    <3> QED  BY <1>3, <2>1
  <2> HIDE DEF b
  <2> QED  BY <1>2, <1>3, <2>1, <2>2, Types DEF TaskTyped
<1> HIDE DEF b
<1>7. PhasesKept(e, run[e], chan[e], sem_closed[e], cmds[e], wire[e], wire[p], b, "sending",
                 writer[e], joined[e])
  BY <1>6, Before DEF PhasesKept, Phase, ReadSocket
<1>8. StreamsKept(e, chan[e], to_task[e], cmds[e], wire[e], wire[p], got[e] + n, b, "sending",
                  written[e], shut[e])
  <2>1. StreamsKept(e, chan[e], to_task[e], cmds[e], wire[e], wire[p], got[e], rbuf[e],
                    reader[e], written[e], shut[e])
    BY Before
  <2>2. reader[e] = "reading" /\ rbuf[e] = <<>>
    BY Before DEF ReadSocket, PhasesKept, Phase
  <2>3. Stream(written[p], shut[p], to_task[p], chan[p].open, wire[e], chan[e].open, cmds[e],
               b, got[e] + n, "sending")
    BY <1>2, <1>3, <2>1, <2>2, StreamRead DEF StreamsKept, b
  <2> QED  BY <2>1, <2>3 DEF StreamsKept
<1> QED  BY <1>2, <1>4, <1>5, <1>6, <1>7, <1>8, Before, StepKeeps

\* A command queued, by a loop that still runs.
LEMMA Commanded ==
    ASSUME Typed, NEW e \in End, NEW m \in Commands, Command(e, <<m>>)
    PROVE  cmds' = [cmds EXCEPT ![e] = IF up(e) THEN cmds[e] \o <<m>> ELSE cmds[e]]
<1>1. cmds \in [End -> Seq(Commands)]
  BY DEF Typed
<1>2. CASE up(e)
  BY <1>1, <1>2 DEF Command
<1>3. CASE ~up(e)
  BY <1>1, <1>3 DEF Command
<1> QED  BY <1>2, <1>3

\* ReadEof: the end of file is behind every byte of the stream.
LEMMA ReadEofKeeps ==
    ASSUME Inv, NEW e \in End, ReadEof(e)
    PROVE  Inv'
<1> DEFINE p == Peer(e)
           x == Plain("eof")
           m == IF up(e) THEN cmds[e] \o <<x>> ELSE cmds[e]
<1>1. p \in End /\ p # e
  BY TwoEnds
<1>2. Typed
  BY DEF Inv
<1>3. x \in Commands /\ x \in Messages /\ x.type = "eof"
  BY PlainMessages DEF Messages
<1>4. /\ cmds[e] \in Seq(Commands) /\ cmds[e] \in Seq(Messages) /\ got[e] \in Nat
      /\ run[e] \in {"running", "overflow", "lost", "done"} /\ chan[e].open \in BOOLEAN
  BY Types
<1>5. PhasesKept(e, run[e], chan[e], sem_closed[e], cmds[e], wire[e], wire[p], rbuf[e],
                 reader[e], writer[e], joined[e])
  BY Before
<1>6. reader[e] = "reading" /\ rbuf[e] = <<>> /\ ~joined[e] /\ (~up(e) => ~chan[e].open)
  BY <1>5 DEF ReadEof, PhasesKept, Phase, up
<1>7. m \in Seq(Commands)
  BY <1>3, <1>4, OneMore
<1>8. LoopMoves(e, run[e], chan[e], credit[e], sem_closed[e], to_task[e], m, wire[e], wire[p])
  <2>1. cmds' = [cmds EXCEPT ![e] = m]
    BY <1>2, <1>3, Commanded DEF ReadEof
  <2> HIDE DEF m
  <2> QED  BY <1>1, <1>2, <2>1 DEF ReadEof, LoopMoves, Typed
<1>9. TaskMoves(e, got[e], <<>>, "done", writer[e], joined[e], written[e], shut[e])
  BY <1>2, <1>6 DEF ReadEof, TaskMoves, Typed
<1>10. LoopTyped(run[e], chan[e], credit[e], sem_closed[e], to_task[e], m, wire[e], wire[p])
  <2> HIDE DEF m
  <2> QED  BY <1>1, <1>7, Types DEF LoopTyped
<1>11. TaskTyped(got[e], <<>>, "done", writer[e], joined[e], written[e], shut[e])
  BY Types DEF TaskTyped
<1>12. PhasesKept(e, run[e], chan[e], sem_closed[e], m, wire[e], wire[p], <<>>, "done",
                  writer[e], joined[e])
  <2>1. \A i \in DOMAIN m : m[i].type = "close" => joined[e] /\ i = Len(m)
    <3>1. \A i \in DOMAIN cmds[e] : cmds[e][i].type # "close"
      BY <1>5, <1>6 DEF PhasesKept, Phase
    <3>2. CASE up(e)
      <4>1. \A i \in DOMAIN m : m[i].type # "close"
        BY <1>3, <1>4, <3>1, <3>2, OneMore
      <4> QED  BY <4>1
    <3>3. CASE ~up(e)
      BY <3>1, <3>3
    <3> QED  BY <3>2, <3>3
  <2> HIDE DEF m
  <2> QED  BY <1>5, <1>6, <2>1 DEF PhasesKept, Phase
<1>13. StreamsKept(e, chan[e], to_task[e], m, wire[e], wire[p], got[e], <<>>, "done",
                   written[e], shut[e])
  <2>1. StreamsKept(e, chan[e], to_task[e], cmds[e], wire[e], wire[p], got[e], <<>>,
                    "reading", written[e], shut[e])
    BY <1>6, Before
  <2>2. CASE up(e)
    BY <1>4, <2>1, <2>2, StreamEof DEF StreamsKept
  <2>3. CASE ~up(e)
    BY <1>4, <2>1, <2>3, StreamDone DEF StreamsKept
  <2> QED  BY <2>2, <2>3
<1>14. AccountsKept(e, run[e], chan[e], credit[e], to_task[e], m, wire[e], wire[p])
  <2>1. Total(m, "data") = Total(cmds[e], "data") /\ Total(m, "consumed") = Total(cmds[e], "consumed")
    BY <1>3, <1>4, MoreTotals
  <2> HIDE DEF m
  <2> QED  BY <2>1, Before DEF AccountsKept, Account
<1> HIDE DEF m
<1> QED  BY <1>2, <1>8, <1>9, <1>10, <1>11, <1>12, <1>13, <1>14, StepKeeps

\* A command that is not a Close, from a task that has not returned.
LEMMA PhaseCommand ==
    ASSUME NEW r, NEW c, NEW sc, NEW m \in Seq(Messages), NEW q, NEW b, NEW rd, NEW wr,
           Phase(r, c, sc, m, q, b, rd, wr, FALSE), NEW x \in Messages, x.type # "close"
    PROVE  Phase(r, c, sc, m \o <<x>>, q, b, rd, wr, FALSE)
<1> DEFINE l == m \o <<x>>
<1>1. DOMAIN l = 1..(Len(m) + 1) /\ l[Len(m) + 1] = x /\ \A i \in 1..Len(m) : l[i] = m[i]
  BY OneMore
<1>2. \A i \in 1..Len(m) : m[i].type # "close"
  BY DEF Phase
<1> HIDE DEF l
<1>3. \A i \in DOMAIN l : l[i].type # "close"
  BY <1>1, <1>2
<1>4. Phase(r, c, sc, l, q, b, rd, wr, FALSE)
  BY <1>3 DEF Phase
<1> QED  BY <1>4 DEF l

\* SendChunk: bytes move from the buffer to the loop, permits into flight.
LEMMA SendChunkKeeps ==
    ASSUME Inv, NEW e \in End, SendChunk(e)
    PROVE  Inv'
<1> DEFINE p == Peer(e)
           k == Chunk(e)
           x == Bytes("data", SubSeq(rbuf[e], 1, k))
           b == Unsent(e)
           rd == IF b = <<>> THEN "reading" ELSE "sending"
           m == cmds[e] \o <<x>>
<1>1. p \in End /\ p # e
  BY TwoEnds
<1>2. Typed
  BY DEF Inv
<1>3. /\ cmds[e] \in Seq(Commands) /\ cmds[e] \in Seq(Messages) /\ got[e] \in Nat
      /\ chan[e].open \in BOOLEAN /\ credit[e] \in Nat /\ rbuf[e] \in Seq(Nat)
      /\ run[e] \in {"running", "overflow", "lost", "done"} /\ joined[e] \in BOOLEAN
      /\ sem_closed[e] \in BOOLEAN
  BY Types
<1>4. PhasesKept(e, run[e], chan[e], sem_closed[e], cmds[e], wire[e], wire[p], rbuf[e],
                 reader[e], writer[e], joined[e])
  BY Before
<1>5. reader[e] = "sending" /\ rbuf[e] # <<>> /\ ~sem_closed[e] /\ k <= credit[e]
  BY <1>4 DEF SendChunk, PhasesKept, Phase, CanSpend
<1>6. joined[e] = FALSE /\ chan[e].open = TRUE /\ up(e)
  BY <1>3, <1>4, <1>5 DEF PhasesKept, Phase, up
<1>7. k \in 1..Len(rbuf[e]) /\ k <= Packet /\ k \in Nat
  <2>1. Len(rbuf[e]) \in Nat \ {0}
    BY <1>3, <1>5
  <2>2. k = Smaller(Len(rbuf[e]), Packet) /\ Packet \in Nat \ {0}
    BY PacketSize DEF Chunk
  <2> QED  BY <2>1, <2>2, SmallerOf
<1>8. /\ x \in Data /\ x \in Commands /\ x \in Messages
      /\ x.type = "data" /\ Len(x.bytes) = k
  <2>1. SubSeq(rbuf[e], 1, k) \in Seq(Nat) /\ Len(SubSeq(rbuf[e], 1, k)) = k
    BY <1>3, <1>7
  <2>2. x \in [type : {"data"}, bytes : Seq(Nat)] /\ x.type = "data" /\ Len(x.bytes) = k
    BY <2>1 DEF Bytes
  <2>3. x \in Data
    BY <1>7, <2>2, PacketSize DEF Data
  <2> QED  BY <2>2, <2>3 DEF Commands, Messages
<1>9. m \in Seq(Commands)
  BY <1>3, <1>8, OneMore
<1>10. b = SubSeq(rbuf[e], k + 1, Len(rbuf[e])) /\ b \in Seq(Nat)
  BY <1>3, <1>7 DEF Unsent
<1>11. LoopMoves(e, run[e], chan[e], credit[e] - k, sem_closed[e], to_task[e], m, wire[e], wire[p])
  <2>1. cmds' = [cmds EXCEPT ![e] = m]
    BY <1>2, <1>6, <1>8, Commanded DEF SendChunk
  <2>2. credit' = [credit EXCEPT ![e] = credit[e] - k]
    BY DEF SendChunk, Spend
  <2> HIDE DEF m, k
  <2> QED  BY <1>1, <1>2, <2>1, <2>2 DEF SendChunk, LoopMoves, Typed
<1>12. TaskMoves(e, got[e], b, rd, writer[e], joined[e], written[e], shut[e])
  BY <1>2 DEF SendChunk, TaskMoves, Typed
<1> HIDE DEF k, x, b
<1>13. LoopTyped(run[e], chan[e], credit[e] - k, sem_closed[e], to_task[e], m, wire[e], wire[p])
  <2>1. credit[e] - k \in Nat
    BY <1>3, <1>5, <1>7
  <2> HIDE DEF m
  <2> QED  BY <1>1, <1>9, <2>1, Types DEF LoopTyped
<1>14. TaskTyped(got[e], b, rd, writer[e], joined[e], written[e], shut[e])
  BY <1>10, Types DEF TaskTyped
<1>15. PhasesKept(e, run[e], chan[e], sem_closed[e], m, wire[e], wire[p], b, rd,
                  writer[e], joined[e])
  <2>1. Phase(run[e], chan[e], sem_closed[e], cmds[e], wire[e], b, rd, writer[e], FALSE)
    BY <1>4, <1>6 DEF PhasesKept, Phase
  <2> HIDE DEF rd
  <2>2. Phase(run[e], chan[e], sem_closed[e], m, wire[e], b, rd, writer[e], FALSE)
    BY <1>3, <1>8, <2>1, PhaseCommand
  <2> QED  BY <1>4, <1>6, <2>2 DEF PhasesKept
<1>16. StreamsKept(e, chan[e], to_task[e], m, wire[e], wire[p], got[e], b, rd,
                   written[e], shut[e])
  <2>1. StreamsKept(e, chan[e], to_task[e], cmds[e], wire[e], wire[p], got[e], rbuf[e],
                    "sending", written[e], shut[e])
    BY <1>5, Before
  <2>2. rd \in {"reading", "sending"}
    OBVIOUS
  <2> HIDE DEF rd, m
  <2>3. Stream(written[p], shut[p], to_task[p], chan[p].open, wire[e], chan[e].open, cmds[e],
               rbuf[e], got[e], "sending")
    BY <2>1, Zenon DEF StreamsKept
  <2>4. Stream(written[p], shut[p], to_task[p], chan[p].open, wire[e], chan[e].open,
               cmds[e] \o <<Bytes("data", SubSeq(rbuf[e], 1, k))>>,
               SubSeq(rbuf[e], k + 1, Len(rbuf[e])), got[e], rd)
    <3>1. k \in 1..Len(rbuf[e]) /\ k <= Packet /\ rbuf[e] \in Seq(Nat) /\ got[e] \in Nat
          /\ cmds[e] \in Seq(Messages)
      BY <1>3, <1>7
    <3> QED  BY <3>1, <2>2, <2>3, StreamSend, ZenonT(30)
  <2>5. Stream(written[p], shut[p], to_task[p], chan[p].open, wire[e], chan[e].open, m, b, got[e], rd)
    BY <1>10, <2>4 DEF m, x
  <2> QED  BY <2>1, <2>5, Zenon DEF StreamsKept
<1>17. AccountsKept(e, run[e], chan[e], credit[e] - k, to_task[e], m, wire[e], wire[p])
  <2>1. AccountsKept(e, run[e], chan[e], credit[e], to_task[e], cmds[e], wire[e], wire[p])
    BY Before
  <2>2. /\ Total(m, "data") = Total(cmds[e], "data") + k
        /\ Total(m, "consumed") = Total(cmds[e], "consumed")
    BY <1>3, <1>8, MoreTotals
  <2>3. Total(cmds[e], "data") \in Nat
    BY <1>3, TotalNat
  <2> HIDE DEF m
  <2>4. (credit[e] - k) + Total(m, "data") = credit[e] + Total(cmds[e], "data")
    BY <1>3, <1>7, <2>2, <2>3
  <2> QED  BY <2>1, <2>2, <2>4 DEF AccountsKept, Account
<1> HIDE DEF m, rd
<1> QED  BY <1>2, <1>11, <1>12, <1>13, <1>14, <1>15, <1>16, <1>17, StepKeeps

\* CreditClosed: only a channel that is gone has a closed semaphore.
LEMMA CreditClosedKeeps ==
    ASSUME Inv, NEW e \in End, CreditClosed(e)
    PROVE  Inv'
<1> DEFINE p == Peer(e)
<1>1. Typed /\ got[e] \in Nat
  BY Types DEF Inv
<1>2. LoopMoves(e, run[e], chan[e], credit[e], sem_closed[e], to_task[e], cmds[e], wire[e], wire[p])
  BY <1>1, Idle DEF CreditClosed
<1>3. TaskMoves(e, got[e], rbuf[e], "done", writer[e], joined[e], written[e], shut[e])
  BY <1>1 DEF CreditClosed, TaskMoves, Typed
<1>4. TaskTyped(got[e], rbuf[e], "done", writer[e], joined[e], written[e], shut[e])
  BY Types DEF TaskTyped
<1>5. PhasesKept(e, run[e], chan[e], sem_closed[e], cmds[e], wire[e], wire[p], rbuf[e], "done",
                 writer[e], joined[e])
  BY Before DEF PhasesKept, Phase, CreditClosed
<1>6. StreamsKept(e, chan[e], to_task[e], cmds[e], wire[e], wire[p], got[e], rbuf[e], "done",
                  written[e], shut[e])
  BY <1>1, Before, StreamDone DEF StreamsKept
<1> QED  BY <1>1, <1>2, <1>3, <1>4, <1>5, <1>6, Before, StepKeeps

\* The writer stops: write_all failed, or the channel was closed.
LEMMA WriterStops ==
    ASSUME Inv, NEW e \in End, WriteFails(e) \/ StopWriter(e)
    PROVE  Inv'
<1> DEFINE p == Peer(e)
<1>0. /\ writer[e] = "running" /\ writer' = [writer EXCEPT ![e] = "done"]
      /\ UNCHANGED <<loopVars, got, rbuf, reader, joined, written, shut>>
  BY DEF WriteFails, StopWriter
<1>1. Typed
  BY DEF Inv
<1>2. LoopMoves(e, run[e], chan[e], credit[e], sem_closed[e], to_task[e], cmds[e], wire[e], wire[p])
  BY <1>0, <1>1, Idle
<1>3. TaskMoves(e, got[e], rbuf[e], reader[e], "done", joined[e], written[e], shut[e])
  BY <1>0, <1>1 DEF TaskMoves, Typed
<1>4. TaskTyped(got[e], rbuf[e], reader[e], "done", joined[e], written[e], shut[e])
  BY Types DEF TaskTyped
<1>5. PhasesKept(e, run[e], chan[e], sem_closed[e], cmds[e], wire[e], wire[p], rbuf[e], reader[e],
                 "done", joined[e])
  BY <1>0, Before DEF PhasesKept, Phase
<1> QED  BY <1>1, <1>2, <1>3, <1>4, <1>5, Before, StepKeeps

\* WriteSocket: the head event is the next stretch of the stream.
LEMMA WriteSocketKeeps ==
    ASSUME Inv, NEW e \in End, WriteSocket(e)
    PROVE  Inv'
<1> DEFINE p == Peer(e)
           h == Head(to_task[e])
           n == Len(h.bytes)
           x == Amount("consumed", n)
           m == IF up(e) THEN cmds[e] \o <<x>> ELSE cmds[e]
           w == written[e] \o h.bytes
           t == Tail(to_task[e])
<1>1. p \in End /\ p # e
  BY TwoEnds
<1>2. Typed
  BY DEF Inv
<1>3. /\ to_task[e] \in Seq(Events) /\ to_task[e] \in Seq(Messages) /\ written[e] \in Seq(Nat)
      /\ cmds[e] \in Seq(Commands) /\ cmds[e] \in Seq(Messages) /\ got[p] \in Nat
      /\ chan[e].open \in BOOLEAN /\ joined[e] \in BOOLEAN
  BY <1>1, Types
<1>4. to_task[e] # <<>> /\ h.type = "data" /\ writer[e] = "running"
  BY DEF WriteSocket, HasEvent, NextEvent
<1>5. h \in Messages /\ t \in Seq(Events) /\ h.bytes \in Seq(Nat) /\ n \in 1..Packet /\ w \in Seq(Nat)
  <2>1. h \in Messages /\ t \in Seq(Events)
    BY <1>3, <1>4, OneLess
  <2>2. h.bytes \in Seq(Nat) /\ n \in 1..Packet
    BY <1>4, <2>1, MessageFacts
  <2> HIDE DEF h
  <2> QED  BY <1>3, <2>1, <2>2
<1>6. x \in Commands /\ x \in Messages /\ x.type = "consumed" /\ x.n = n
  <2> HIDE DEF n
  <2>1. x \in [type : {"consumed"}, n : 1..Packet] /\ x.type = "consumed" /\ x.n = n
    BY <1>5 DEF Amount
  <2> QED  BY <2>1 DEF Commands, Messages
<1>7. PhasesKept(e, run[e], chan[e], sem_closed[e], cmds[e], wire[e], wire[p], rbuf[e],
                 reader[e], writer[e], joined[e])
  BY Before
<1>8. joined[e] = FALSE
  BY <1>3, <1>4, <1>7 DEF PhasesKept, Phase
<1>9. m \in Seq(Commands)
  <2> HIDE DEF x
  <2> QED  BY <1>3, <1>6, OneMore
<1>10. LoopMoves(e, run[e], chan[e], credit[e], sem_closed[e], t, m, wire[e], wire[p])
  <2>1. cmds' = [cmds EXCEPT ![e] = m]
    BY <1>2, <1>6, Commanded DEF WriteSocket, NextEvent
  <2>2. to_task' = [to_task EXCEPT ![e] = t]
    BY DEF WriteSocket, TakeEvent
  <2> HIDE DEF m, t
  <2> QED  BY <1>1, <1>2, <2>1, <2>2 DEF WriteSocket, LoopMoves, Typed
<1>11. TaskMoves(e, got[e], rbuf[e], reader[e], writer[e], joined[e], w, shut[e])
  <2>1. written' = [written EXCEPT ![e] = w]
    BY DEF WriteSocket, NextEvent
  <2> HIDE DEF w
  <2> QED  BY <1>2, <2>1 DEF WriteSocket, TaskMoves, Typed
<1>12. LoopTyped(run[e], chan[e], credit[e], sem_closed[e], t, m, wire[e], wire[p])
  <2> HIDE DEF m, t
  <2> QED  BY <1>1, <1>5, <1>9, Types DEF LoopTyped
<1>13. TaskTyped(got[e], rbuf[e], reader[e], writer[e], joined[e], w, shut[e])
  <2> HIDE DEF w
  <2> QED  BY <1>5, Types DEF TaskTyped
<1>14. PhasesKept(e, run[e], chan[e], sem_closed[e], m, wire[e], wire[p], rbuf[e], reader[e],
                  writer[e], joined[e])
  <2> HIDE DEF x
  <2>1. CASE up(e)
    <3>1. Phase(run[e], chan[e], sem_closed[e], cmds[e], wire[e], rbuf[e], reader[e], writer[e], FALSE)
      BY <1>7, <1>8 DEF PhasesKept
    <3>2. Phase(run[e], chan[e], sem_closed[e], cmds[e] \o <<x>>, wire[e], rbuf[e], reader[e],
                writer[e], FALSE)
      BY <1>3, <1>6, <3>1, PhaseCommand
    <3> QED  BY <1>7, <1>8, <2>1, <3>2 DEF PhasesKept
  <2>2. CASE ~up(e)
    BY <1>7, <2>2
  <2> QED  BY <2>1, <2>2
<1>15. StreamsKept(e, chan[e], t, m, wire[e], wire[p], got[e], rbuf[e], reader[e], w, shut[e])
  <2>1. StreamsKept(e, chan[e], to_task[e], cmds[e], wire[e], wire[p], got[e], rbuf[e],
                    reader[e], written[e], shut[e])
    BY Before
  <2>2. Stream(w, shut[e], t, chan[e].open, wire[p], chan[p].open, cmds[p], rbuf[p], got[p], reader[p])
    <3>1. Stream(written[e], shut[e], to_task[e], chan[e].open, wire[p], chan[p].open, cmds[p],
                 rbuf[p], got[p], reader[p])
      BY <2>1, Zenon DEF StreamsKept
    <3> QED  BY <1>3, <1>4, <3>1, StreamWrite
  <2>3. Stream(written[p], shut[p], to_task[p], chan[p].open, wire[e], chan[e].open, m, rbuf[e],
               got[e], reader[e])
    <3>1. Stream(written[p], shut[p], to_task[p], chan[p].open, wire[e], chan[e].open, cmds[e],
                 rbuf[e], got[e], reader[e])
      BY <2>1, Zenon DEF StreamsKept
    <3>2. Aside(x)
      BY <1>6 DEF Aside
    <3> HIDE DEF x
    <3>3. Stream(written[p], shut[p], to_task[p], chan[p].open, wire[e], chan[e].open,
                 cmds[e] \o <<x>>, rbuf[e], got[e], reader[e])
      BY <1>1, <3>1, <3>2, Types, StreamAside
    <3> QED  BY <3>1, <3>3
  <2> HIDE DEF m, w, t
  <2> QED  BY <2>2, <2>3, Zenon DEF StreamsKept
<1>16. AccountsKept(e, run[e], chan[e], credit[e], t, m, wire[e], wire[p])
  <2>1. AccountsKept(e, run[e], chan[e], credit[e], to_task[e], cmds[e], wire[e], wire[p])
    BY Before
  <2>2. CASE up(e)
    <3>1. /\ Total(m, "data") = Total(cmds[e], "data")
          /\ Total(m, "consumed") = Total(cmds[e], "consumed") + n
      <4> HIDE DEF x, n
      <4> QED  BY <1>3, <1>6, <2>2, MoreTotals
    <3>2. /\ Total(to_task[e], "data") = Total(t, "data") + n
          /\ Total(t, "data") \in Nat
      BY <1>3, <1>4, LessTotals
    <3>3. Total(cmds[e], "consumed") \in Nat
      BY <1>3, TotalNat
    <3>4. n \in Nat
      BY <1>5, PacketSize
    <3> HIDE DEF m, t, n
    <3>5. chan[e].open => chan[e].local_window \in Nat /\ chan[e].pending_consumed \in Nat
      BY Types, EntryFacts
    <3> QED  BY <2>1, <3>1, <3>2, <3>3, <3>4, <3>5 DEF AccountsKept, Account
  <2>3. CASE ~up(e)
    <3>1. chan[e].open = FALSE
      BY <1>3, <1>7, <2>3 DEF PhasesKept, Phase, up
    <3>2. m = cmds[e]
      BY <2>3
    <3> HIDE DEF m, t
    <3> QED  BY <2>1, <3>1, <3>2 DEF AccountsKept, Account
  <2> QED  BY <2>2, <2>3
<1> HIDE DEF m, w, t
<1> QED  BY <1>2, <1>10, <1>11, <1>12, <1>13, <1>14, <1>15, <1>16, StepKeeps

\* ShutSocket: an end of file at the head means that all has been written.
LEMMA ShutSocketKeeps ==
    ASSUME Inv, NEW e \in End, ShutSocket(e)
    PROVE  Inv'
<1> DEFINE p == Peer(e)  t == Tail(to_task[e])
<1>1. p \in End /\ p # e
  BY TwoEnds
<1>2. Typed
  BY DEF Inv
<1>3. /\ to_task[e] \in Seq(Events) /\ to_task[e] \in Seq(Messages) /\ written[e] \in Seq(Nat)
      /\ got[p] \in Nat
  BY <1>1, Types
<1>4. to_task[e] # <<>> /\ Head(to_task[e]).type = "eof"
  BY DEF ShutSocket, HasEvent, NextEvent
<1>5. t \in Seq(Events)
  BY <1>3, <1>4, OneLess
<1>6. LoopMoves(e, run[e], chan[e], credit[e], sem_closed[e], t, cmds[e], wire[e], wire[p])
  <2>1. to_task' = [to_task EXCEPT ![e] = t]
    BY DEF ShutSocket, TakeEvent
  <2> HIDE DEF t
  <2> QED  BY <1>1, <1>2, <2>1 DEF ShutSocket, LoopMoves, Typed
<1>7. TaskMoves(e, got[e], rbuf[e], reader[e], writer[e], joined[e], written[e], TRUE)
  BY <1>2 DEF ShutSocket, TaskMoves, Typed
<1>8. LoopTyped(run[e], chan[e], credit[e], sem_closed[e], t, cmds[e], wire[e], wire[p])
  <2> HIDE DEF t
  <2> QED  BY <1>1, <1>5, Types DEF LoopTyped
<1>9. TaskTyped(got[e], rbuf[e], reader[e], writer[e], joined[e], written[e], TRUE)
  BY Types DEF TaskTyped
<1>10. StreamsKept(e, chan[e], t, cmds[e], wire[e], wire[p], got[e], rbuf[e], reader[e],
                   written[e], TRUE)
  <2>1. StreamsKept(e, chan[e], to_task[e], cmds[e], wire[e], wire[p], got[e], rbuf[e],
                    reader[e], written[e], shut[e])
    BY Before
  <2>2. Stream(written[e], shut[e], to_task[e], chan[e].open, wire[p], chan[p].open, cmds[p],
               rbuf[p], got[p], reader[p])
    BY <2>1, Zenon DEF StreamsKept
  <2>3. Stream(written[e], TRUE, t, chan[e].open, wire[p], chan[p].open, cmds[p],
               rbuf[p], got[p], reader[p])
    BY <1>3, <1>4, <2>2, StreamShut
  <2> HIDE DEF t
  <2> QED  BY <2>1, <2>3, Zenon DEF StreamsKept
<1>11. AccountsKept(e, run[e], chan[e], credit[e], t, cmds[e], wire[e], wire[p])
  <2>1. AccountsKept(e, run[e], chan[e], credit[e], to_task[e], cmds[e], wire[e], wire[p])
    BY Before
  <2>2. Total(to_task[e], "data") = Total(t, "data")
    BY <1>3, <1>4, LessTotals
  <2> HIDE DEF t
  <2> QED  BY <2>1, <2>2 DEF AccountsKept, Account
<1> HIDE DEF t
<1> QED  BY <1>2, <1>6, <1>7, <1>8, <1>9, <1>10, <1>11, Before, StepKeeps

\* Join: Close is the last command of a task.
LEMMA JoinKeeps ==
    ASSUME Inv, NEW e \in End, Join(e)
    PROVE  Inv'
<1> DEFINE p == Peer(e)
           x == Plain("close")
           m == IF up(e) THEN cmds[e] \o <<x>> ELSE cmds[e]
<1>1. p \in End /\ p # e
  BY TwoEnds
<1>2. Typed
  BY DEF Inv
<1>3. x \in Commands /\ x \in Messages /\ x.type = "close"
  BY PlainMessages DEF Messages
<1>4. /\ cmds[e] \in Seq(Commands) /\ cmds[e] \in Seq(Messages)
      /\ chan[e].open \in BOOLEAN /\ joined[e] \in BOOLEAN
  BY <1>1, Types
<1>5. reader[e] = "done" /\ writer[e] = "done" /\ joined[e] = FALSE
  BY <1>4 DEF Join, BothDone
<1>6. PhasesKept(e, run[e], chan[e], sem_closed[e], cmds[e], wire[e], wire[p], rbuf[e],
                 reader[e], writer[e], joined[e])
  BY Before
<1>7. m \in Seq(Commands)
  BY <1>3, <1>4, OneMore
<1>8. LoopMoves(e, run[e], chan[e], credit[e], sem_closed[e], to_task[e], m, wire[e], wire[p])
  <2>1. cmds' = [cmds EXCEPT ![e] = m]
    BY <1>2, <1>3, Commanded DEF Join
  <2> HIDE DEF m
  <2> QED  BY <1>1, <1>2, <2>1 DEF Join, LoopMoves, Typed
<1>9. TaskMoves(e, got[e], rbuf[e], reader[e], writer[e], TRUE, written[e], shut[e])
  BY <1>2 DEF Join, TaskMoves, Typed
<1>10. LoopTyped(run[e], chan[e], credit[e], sem_closed[e], to_task[e], m, wire[e], wire[p])
  <2> HIDE DEF m
  <2> QED  BY <1>1, <1>7, Types DEF LoopTyped
<1>11. TaskTyped(got[e], rbuf[e], reader[e], writer[e], TRUE, written[e], shut[e])
  BY Types DEF TaskTyped
<1>12. PhasesKept(e, run[e], chan[e], sem_closed[e], m, wire[e], wire[p], rbuf[e], reader[e],
                  writer[e], TRUE)
  <2>1. \A i \in DOMAIN cmds[e] : cmds[e][i].type # "close"
    BY <1>5, <1>6 DEF PhasesKept, Phase
  <2>2. \A i \in DOMAIN m : m[i].type = "close" => i = Len(m)
    <3>1. CASE up(e)
      BY <1>3, <1>4, <2>1, <3>1, OneMore
    <3>2. CASE ~up(e)
      BY <2>1, <3>2
    <3> QED  BY <3>1, <3>2
  <2>3. chan[e].open => ~chan[e].sent_close
    BY <1>5, <1>6 DEF PhasesKept, Phase
  <2> HIDE DEF m
  <2> QED  BY <1>5, <1>6, <2>2, <2>3 DEF PhasesKept, Phase
<1>13. StreamsKept(e, chan[e], to_task[e], m, wire[e], wire[p], got[e], rbuf[e], reader[e],
                   written[e], shut[e])
  <2>1. StreamsKept(e, chan[e], to_task[e], cmds[e], wire[e], wire[p], got[e], rbuf[e],
                    reader[e], written[e], shut[e])
    BY Before
  <2>2. Stream(written[p], shut[p], to_task[p], chan[p].open, wire[e], chan[e].open, cmds[e],
               rbuf[e], got[e], reader[e])
    BY <2>1, Zenon DEF StreamsKept
  <2>3. Aside(x)
    BY <1>3 DEF Aside
  <2> HIDE DEF x
  <2>4. Stream(written[p], shut[p], to_task[p], chan[p].open, wire[e], chan[e].open,
               cmds[e] \o <<x>>, rbuf[e], got[e], reader[e])
    BY <1>1, <2>2, <2>3, Types, StreamAside
  <2>5. Stream(written[p], shut[p], to_task[p], chan[p].open, wire[e], chan[e].open, m, rbuf[e],
               got[e], reader[e])
    BY <2>2, <2>4
  <2> HIDE DEF m
  <2> QED  BY <2>1, <2>5, Zenon DEF StreamsKept
<1>14. AccountsKept(e, run[e], chan[e], credit[e], to_task[e], m, wire[e], wire[p])
  <2>1. AccountsKept(e, run[e], chan[e], credit[e], to_task[e], cmds[e], wire[e], wire[p])
    BY Before
  <2>2. Total(m, "data") = Total(cmds[e], "data") /\ Total(m, "consumed") = Total(cmds[e], "consumed")
    BY <1>3, <1>4, MoreTotals
  <2> HIDE DEF m
  <2> QED  BY <2>1, <2>2 DEF AccountsKept, Account
<1> HIDE DEF m
<1> QED  BY <1>2, <1>8, <1>9, <1>10, <1>11, <1>12, <1>13, <1>14, StepKeeps

-----------------------------------------------------------------------------
(* The steps of the loop.                                                  *)

\* The peer takes a packet off the wire.
LEMMA PhaseTake ==
    ASSUME NEW r, NEW c, NEW sc, NEW m, NEW q \in Seq(Messages), NEW b, NEW rd, NEW wr, NEW j,
           Phase(r, c, sc, m, q, b, rd, wr, j), q # <<>>
    PROVE  Phase(r, c, sc, m, Tail(q), b, rd, wr, j)
<1> DEFINE n == Len(q)  t == Tail(q)
<1>1. n \in Nat \ {0} /\ DOMAIN q = 1..n /\ DOMAIN t = 1..(n - 1) /\ Len(t) = n - 1
      /\ \A i \in 1..(n - 1) : t[i] = q[i + 1]
  BY OneLess
<1>2. Quiet(q)
  BY DEF Phase
<1> HIDE DEF t
<1>3. Quiet(t)
  <2> SUFFICES ASSUME NEW i \in 1..(n - 1), NEW k \in 1..(n - 1), i < k, t[i].type = "close"
               PROVE  t[k].type = "disconnect"
    BY <1>1 DEF Quiet
  <2>1. i + 1 \in 1..n /\ k + 1 \in 1..n /\ i + 1 < k + 1 /\ t[i] = q[i + 1] /\ t[k] = q[k + 1]
    BY <1>1
  <2> QED  BY <1>2, <2>1 DEF Quiet
<1>4. Has(t, "close") => Has(q, "close")
  <2> SUFFICES ASSUME NEW i \in DOMAIN t, t[i].type = "close" PROVE Has(q, "close")
    BY DEF Has
  <2>1. i + 1 \in DOMAIN q /\ q[i + 1] = t[i]
    BY <1>1
  <2> QED  BY <2>1 DEF Has
<1>5. Phase(r, c, sc, m, t, b, rd, wr, j)
  BY <1>3, <1>4 DEF Phase
<1> QED  BY <1>5 DEF t

\* What is known of the packet that a loop takes.
Taking(e) == up(e) /\ wire[Peer(e)] # <<>> /\ UNCHANGED taskVars

\* The packet is one of the peer's, and what Took does to the wires.
LEMMA Taken ==
    ASSUME Inv, NEW e \in End, Taking(e)
    PROVE  LET p == Peer(e)  h == Head(wire[Peer(e)]) IN
           /\ h \in Packets /\ h \in Messages
           /\ h.type \in {"data", "adjust", "eof", "close", "disconnect"}
           /\ Tail(wire[p]) \in Seq(Packets) /\ Tail(wire[p]) \in Seq(Messages)
           /\ \A sent : Took(e, sent) =>
                wire' = [wire EXCEPT ![e] = wire[e] \o sent, ![p] = Tail(wire[p])]
           /\ Took(e, <<>>) => wire' = [wire EXCEPT ![e] = wire[e], ![p] = Tail(wire[p])]
           /\ TaskMoves(e, got[e], rbuf[e], reader[e], writer[e], joined[e], written[e], shut[e])
<1> DEFINE p == Peer(e)  h == Head(wire[Peer(e)])
<1>1. p \in End /\ p # e
  BY TwoEnds
<1>2. /\ wire[p] \in Seq(Packets) /\ wire[p] \in Seq(Messages) /\ wire[p] # <<>>
      /\ wire[e] \in Seq(Packets)
  BY <1>1, Types DEF Taking
<1>3. /\ h \in Packets /\ h \in Messages
      /\ Tail(wire[p]) \in Seq(Packets) /\ Tail(wire[p]) \in Seq(Messages)
  BY <1>2, OneLess
<1>4. h.type \in {"data", "adjust", "eof", "close", "disconnect"}
  BY <1>3, MessageFacts
<1>5. ASSUME NEW sent, Took(e, sent)
      PROVE  wire' = [wire EXCEPT ![e] = wire[e] \o sent, ![p] = Tail(wire[p])]
  <2>1. wire \in [End -> Seq(Packets)]
    BY DEF Inv, Typed
  <2> QED  BY <1>1, <1>5, <2>1 DEF Took
<1>6. ASSUME Took(e, <<>>)
      PROVE  wire' = [wire EXCEPT ![e] = wire[e], ![p] = Tail(wire[p])]
  <2>1. wire[e] \o <<>> = wire[e]
    BY <1>2
  <2>2. wire' = [wire EXCEPT ![e] = wire[e] \o <<>>, ![p] = Tail(wire[p])]
    BY <1>5, <1>6
  <2> QED  BY <2>1, <2>2
<1>7. Typed
  BY DEF Inv
<1>8. TaskMoves(e, got[e], rbuf[e], reader[e], writer[e], joined[e], written[e], shut[e])
  BY <1>7, Idle DEF Taking
<1> QED  BY <1>3, <1>4, <1>5, <1>6, <1>8

\* A packet that changes nothing at e: its channel is gone.
LEMMA DiscardKeeps ==
    ASSUME Inv, NEW e \in End, Taking(e), chan[e].open = FALSE,
           Took(e, <<>>), UNCHANGED <<run, chan, credit, sem_closed, to_task, cmds>>
    PROVE  Inv'
<1> DEFINE p == Peer(e)  pq == Tail(wire[p])
<1>1. p \in End /\ p # e
  BY TwoEnds
<1>2. Typed
  BY DEF Inv
<1>3. /\ pq \in Seq(Packets) /\ wire[p] \in Seq(Messages) /\ wire[p] # <<>>
      /\ wire' = [wire EXCEPT ![e] = wire[e], ![p] = pq]
      /\ TaskMoves(e, got[e], rbuf[e], reader[e], writer[e], joined[e], written[e], shut[e])
  <2>1. wire[p] \in Seq(Messages) /\ wire[p] # <<>>
    BY <1>1, Types DEF Taking
  <2>2. /\ pq \in Seq(Packets)
        /\ wire' = [wire EXCEPT ![e] = wire[e], ![p] = pq]
        /\ TaskMoves(e, got[e], rbuf[e], reader[e], writer[e], joined[e], written[e], shut[e])
    BY Taken
  <2> QED  BY <2>1, <2>2
<1>4. PhasesKept(e, run[e], chan[e], sem_closed[e], cmds[e], wire[e], pq, rbuf[e],
                 reader[e], writer[e], joined[e])
  BY <1>3, Before, PhaseTake DEF PhasesKept
<1>5. AccountsKept(e, run[e], chan[e], credit[e], to_task[e], cmds[e], wire[e], wire[p])
  BY Before
<1>6. StreamsKept(e, chan[e], to_task[e], cmds[e], wire[e], wire[p], got[e], rbuf[e], reader[e],
                  written[e], shut[e])
  BY Before
<1> HIDE DEF pq
<1>7. LoopMoves(e, run[e], chan[e], credit[e], sem_closed[e], to_task[e], cmds[e], wire[e], pq)
  BY <1>2, <1>3 DEF LoopMoves, Typed
<1>8. LoopTyped(run[e], chan[e], credit[e], sem_closed[e], to_task[e], cmds[e], wire[e], pq)
  BY <1>3, Types DEF LoopTyped
<1>9. AccountsKept(e, run[e], chan[e], credit[e], to_task[e], cmds[e], wire[e], pq)
  BY <1>5 DEF AccountsKept, Account
<1>10. StreamsKept(e, chan[e], to_task[e], cmds[e], wire[e], pq, got[e], rbuf[e], reader[e],
                  written[e], shut[e])
  <2>1. Stream(written[e], shut[e], to_task[e], chan[e].open, wire[p], chan[p].open, cmds[p],
               rbuf[p], got[p], reader[p])
    BY <1>6, Zenon DEF StreamsKept
  <2>2. Stream(written[e], shut[e], to_task[e], FALSE, pq, chan[p].open, cmds[p],
               rbuf[p], got[p], reader[p])
    BY <2>1, StreamCutTo, Zenon
  <2> QED  BY <1>6, <2>2, Zenon DEF StreamsKept
<1> QED  BY <1>2, <1>3, <1>4, <1>7, <1>8, <1>9, <1>10, Before, StepKeeps

\* An entry with another count.
LEMMA EntrySet ==
    ASSUME NEW c \in Entry, NEW n \in Nat
    PROVE  LET d == [c EXCEPT !.local_window = n] IN
           /\ d \in Entry /\ d.open = TRUE /\ d.local_window = n
           /\ d.pending_consumed = c.pending_consumed /\ d.sent_close = c.sent_close
           /\ d.peer_closed = c.peer_closed
BY DEF Entry

\* OnData: the window has room for it, since the sender had the credit.
LEMMA OnDataKeeps ==
    ASSUME Inv, NEW e \in End, Taking(e), OnData(e, Head(wire[Peer(e)]))
    PROVE  Inv'
<1> DEFINE p == Peer(e)  pq == Tail(wire[p])  h == Head(wire[p])  n == Len(h.bytes)
<1>1. p \in End /\ p # e
  BY TwoEnds
<1>2. Typed
  BY DEF Inv
<1>3. /\ pq \in Seq(Packets) /\ wire[p] \in Seq(Messages) /\ wire[p] # <<>>
      /\ to_task[e] \in Seq(Events) /\ to_task[e] \in Seq(Messages)
      /\ chan[e].open \in BOOLEAN /\ chan[e] \in Entry \cup {NoChan}
  BY <1>1, Taken, Types DEF Taking
<1>4. h \in Messages /\ h.type = "data" /\ wire' = [wire EXCEPT ![e] = wire[e], ![p] = pq]
  <2>1. h.type \in {"data", "ext"} /\ Took(e, <<>>)
    BY Zenon DEF OnData
  <2>2. /\ h \in Messages /\ h.type \in {"data", "adjust", "eof", "close", "disconnect"}
        /\ wire' = [wire EXCEPT ![e] = wire[e], ![p] = pq]
    BY <2>1, Taken
  <2> QED  BY <2>1, <2>2
<1>5. h \in Data /\ n \in Nat \ {0}
  BY <1>4, MessageFacts, PacketSize
<1>6. CASE chan[e].open = FALSE
  BY <1>6, DiscardKeeps DEF OnData
<1>7. CASE chan[e].open = TRUE
  <2>1. AccountsKept(e, run[e], chan[e], credit[e], to_task[e], cmds[e], wire[e], wire[p])
    BY Before
  <2>2. /\ Total(wire[p], "data") = Total(pq, "data") + n /\ Total(pq, "data") \in Nat
        /\ Total(wire[p], "adjust") = Total(pq, "adjust")
    BY <1>3, <1>4, LessTotals
  <2>3. chan[e] \in Entry /\ chan[e].local_window \in Nat /\ chan[e].pending_consumed \in Nat
    BY <1>3, <1>7, EntryFacts
  <2>4. n <= chan[e].local_window
    <3>1. Total(wire[p], "data") <= chan[e].local_window
      BY <1>7, <2>1 DEF AccountsKept, Account
    <3> HIDE DEF n, pq
    <3> QED  BY <1>5, <2>2, <2>3, <3>1
  <2> DEFINE c == [chan[e] EXCEPT !.local_window = chan[e].local_window - n]
             t == to_task[e] \o <<h>>
  <2>5. /\ chan' = [chan EXCEPT ![e] = c] /\ to_task' = [to_task EXCEPT ![e] = t]
        /\ UNCHANGED <<run, credit, sem_closed, cmds>>
    <3>1. /\ chan' = [chan EXCEPT ![e].local_window = WindowLeft(e, n)]
          /\ Event(e, h) /\ UNCHANGED <<run, credit, sem_closed, cmds>>
      BY <1>7, <2>4 DEF OnData
    <3>2. to_task' = [to_task EXCEPT ![e] = Append(to_task[e], h)]
      BY <3>1 DEF Event
    <3>3. Append(to_task[e], h) = t
      BY <1>3, <1>4, OneMore
    <3> HIDE DEF n, t
    <3>4. chan' = [chan EXCEPT ![e] = c]
      BY <1>2, <3>1 DEF WindowLeft, Typed
    <3> QED  BY <3>1, <3>2, <3>3, <3>4
  <2>6. /\ c \in Entry /\ c.open = TRUE /\ c.local_window = chan[e].local_window - n
        /\ c.pending_consumed = chan[e].pending_consumed /\ c.sent_close = chan[e].sent_close
        /\ c.peer_closed = chan[e].peer_closed
    <3> DEFINE l == chan[e].local_window - n
    <3>1. l \in Nat
      <4> HIDE DEF n
      <4> QED  BY <1>5, <2>3, <2>4
    <3>2. c = [chan[e] EXCEPT !.local_window = l]
      OBVIOUS
    <3> HIDE DEF l, c
    <3>3. /\ c \in Entry /\ c.open = TRUE /\ c.local_window = l
          /\ c.pending_consumed = chan[e].pending_consumed /\ c.sent_close = chan[e].sent_close
          /\ c.peer_closed = chan[e].peer_closed
      BY <2>3, <3>1, <3>2, EntrySet
    <3> QED  BY <3>3 DEF l
  <2>7. t \in Seq(Events)
    BY <1>3, <1>5, OneMore DEF Events
  <2>8. Total(t, "data") = Total(to_task[e], "data") + n
    BY <1>3, <1>4, MoreTotals
  <2>9. StreamsKept(e, chan[e], to_task[e], cmds[e], wire[e], wire[p], got[e], rbuf[e], reader[e],
                    written[e], shut[e])
    BY Before
  <2>10. Stream(written[e], shut[e], t, TRUE, pq, chan[p].open, cmds[p], rbuf[p], got[p], reader[p])
    <3>1. Stream(written[e], shut[e], to_task[e], TRUE, wire[p], chan[p].open, cmds[p],
                 rbuf[p], got[p], reader[p])
      BY <1>7, <2>9 DEF StreamsKept
    <3>2. written[e] \in Seq(Nat) /\ got[p] \in Nat
      BY <1>1, Types
    <3> QED  BY <1>3, <1>4, <3>1, <3>2, StreamDeliver
  <2>11. PhasesKept(e, run[e], chan[e], sem_closed[e], cmds[e], wire[e], pq, rbuf[e],
                    reader[e], writer[e], joined[e])
    BY <1>3, Before, PhaseTake DEF PhasesKept
  <2>12. Total(to_task[e], "data") \in Nat /\ Total(cmds[e], "consumed") \in Nat
         /\ Total(cmds[p], "data") \in Nat /\ Total(wire[e], "adjust") \in Nat /\ credit[p] \in Nat
    BY <1>1, Types, TotalNat
  <2> HIDE DEF n, t, c, pq, h
  <2>13. PhasesKept(e, run[e], c, sem_closed[e], cmds[e], wire[e], pq, rbuf[e],
                    reader[e], writer[e], joined[e])
    BY <1>7, <2>6, <2>11 DEF PhasesKept, Phase
  <2>14. StreamsKept(e, c, t, cmds[e], wire[e], pq, got[e], rbuf[e], reader[e], written[e], shut[e])
    BY <1>7, <2>6, <2>9, <2>10 DEF StreamsKept
  <2>15. AccountsKept(e, run[e], c, credit[e], t, cmds[e], wire[e], pq)
    BY <1>5, <1>7, <2>1, <2>2, <2>3, <2>6, <2>8, <2>12 DEF AccountsKept, Account
  <2>16. LoopMoves(e, run[e], c, credit[e], sem_closed[e], t, cmds[e], wire[e], pq)
    BY <1>2, <1>4, <2>5 DEF LoopMoves, Typed
  <2>17. LoopTyped(run[e], c, credit[e], sem_closed[e], t, cmds[e], wire[e], pq)
    BY <1>3, <2>6, <2>7, Types DEF LoopTyped
  <2> QED  BY <1>2, <2>13, <2>14, <2>15, <2>16, <2>17, Before, Taken, StepKeeps
<1> QED  BY <1>3, <1>6, <1>7

\* OnWindowAdjust: the ceiling does not cut the grant.
LEMMA OnWindowAdjustKeeps ==
    ASSUME Inv, NEW e \in End, Taking(e), OnWindowAdjust(e, Head(wire[Peer(e)]))
    PROVE  Inv'
<1> DEFINE p == Peer(e)  pq == Tail(wire[p])  h == Head(wire[p])
           k == Smaller(credit[e] + h.n, Ceiling)
<1>1. p \in End /\ p # e
  BY TwoEnds
<1>2. Typed
  BY DEF Inv
<1>3. /\ wire[p] \in Seq(Messages) /\ wire[p] # <<>> /\ credit[e] \in Nat
      /\ chan[e].open \in BOOLEAN /\ chan[p].open \in BOOLEAN
      /\ chan[p] \in Entry \cup {NoChan}
  BY <1>1, Types DEF Taking
<1>4. /\ h \in Messages /\ h.type = "adjust" /\ wire' = [wire EXCEPT ![e] = wire[e], ![p] = pq]
      /\ pq \in Seq(Packets)
  <2>1. h.type = "adjust" /\ Took(e, <<>>)
    BY Zenon DEF OnWindowAdjust
  <2>2. h \in Messages /\ wire' = [wire EXCEPT ![e] = wire[e], ![p] = pq] /\ pq \in Seq(Packets)
    BY <2>1, Taken
  <2> QED  BY <2>1, <2>2
<1>5. h.n \in Nat
  BY <1>4, MessageFacts
<1>6. CASE chan[e].open = FALSE
  BY <1>6, DiscardKeeps DEF OnWindowAdjust
<1>7. CASE chan[e].open = TRUE
  <2>1. AccountsKept(e, run[e], chan[e], credit[e], to_task[e], cmds[e], wire[e], wire[p])
    BY Before
  <2>2. /\ Total(wire[p], "data") = Total(pq, "data") /\ Total(pq, "adjust") \in Nat
        /\ Total(wire[p], "adjust") = Total(pq, "adjust") + h.n
    BY <1>3, <1>4, LessTotals
  <2>3. Total(cmds[e], "data") \in Nat /\ Total(wire[e], "data") \in Nat
        /\ Total(to_task[p], "data") \in Nat /\ Total(cmds[p], "consumed") \in Nat
    BY <1>1, Types, TotalNat
  <2>4. Ceiling \in Nat /\ LocalWindow[p] <= Ceiling /\ LocalWindow[p] \in Nat
    BY <1>1, MuxAssumption
  <2>5. chan[p].open => chan[p].local_window \in Nat /\ chan[p].pending_consumed \in Nat
    BY <1>3, EntryFacts
  <2>6. k = IF credit[e] + h.n <= Ceiling THEN credit[e] + h.n ELSE Ceiling
    BY <1>3, <1>5, <2>4, SmallerOf
  <2>7. credit' = [credit EXCEPT ![e] = k]
    BY <1>7 DEF OnWindowAdjust
  <2> HIDE DEF k, pq, h
  <2>8. ASSUME chan[p].open
        PROVE  /\ k = credit[e] + h.n
               /\ chan[p].local_window = k + Total(cmds[e], "data") + Total(wire[e], "data")
                                           + Total(pq, "adjust")
    <3>1. /\ chan[p].local_window = credit[e] + Total(cmds[e], "data") + Total(wire[e], "data")
                                      + Total(wire[p], "adjust")
          /\ chan[p].local_window + Total(to_task[p], "data") + Total(cmds[p], "consumed")
               + chan[p].pending_consumed = LocalWindow[p]
      BY <1>7, <2>1, <2>8 DEF AccountsKept, Account
    <3>2. Total(wire[p], "adjust") \in Nat /\ chan[p].local_window \in Nat
          /\ chan[p].pending_consumed \in Nat
      BY <1>5, <2>2, <2>5, <2>8
    <3>3. /\ credit[e] + h.n <= Ceiling
          /\ chan[p].local_window = (credit[e] + h.n) + Total(cmds[e], "data")
                                      + Total(wire[e], "data") + Total(pq, "adjust")
      <4> DEFINE l == chan[p].local_window  a == Total(cmds[e], "data")  c == credit[e]
                 b == Total(wire[e], "data")  d == Total(wire[p], "adjust")  n == h.n
                 f == Total(pq, "adjust")  u == Total(to_task[p], "data")
                 v == Total(cmds[p], "consumed")  w == chan[p].pending_consumed
                 W == LocalWindow[p]
      <4>1. /\ l \in Nat /\ a \in Nat /\ b \in Nat /\ c \in Nat /\ d \in Nat /\ f \in Nat
            /\ n \in Nat /\ u \in Nat /\ v \in Nat /\ w \in Nat /\ W \in Nat
        BY <1>3, <1>5, <2>2, <2>3, <2>4, <3>2
      <4>2. l = c + a + b + d /\ d = f + n /\ l + u + v + w = W /\ W <= Ceiling
        BY <2>2, <2>4, <3>1
      <4> HIDE DEF l, a, b, c, d, f, n, u, v, w, W
      <4>3. c + n <= Ceiling /\ l = (c + n) + a + b + f
        BY <2>4, <4>1, <4>2
      <4> QED  BY <4>3 DEF l, a, b, c, f, n
    <3> QED  BY <2>6, <3>3
  <2>9. k \in Nat
    BY <1>3, <1>5, <2>4, <2>6
  <2>10. AccountsKept(e, run[e], chan[e], k, to_task[e], cmds[e], wire[e], pq)
    BY <2>1, <2>2, <2>8 DEF AccountsKept, Account
  <2>11. PhasesKept(e, run[e], chan[e], sem_closed[e], cmds[e], wire[e], pq, rbuf[e],
                    reader[e], writer[e], joined[e])
    BY <1>3, Before, PhaseTake DEF PhasesKept, pq
  <2>12. StreamsKept(e, chan[e], to_task[e], cmds[e], wire[e], pq, got[e], rbuf[e], reader[e],
                     written[e], shut[e])
    <3>1. StreamsKept(e, chan[e], to_task[e], cmds[e], wire[e], wire[p], got[e], rbuf[e], reader[e],
                      written[e], shut[e])
      BY Before
    <3>2. Stream(written[e], shut[e], to_task[e], chan[e].open, wire[p], chan[p].open, cmds[p],
                 rbuf[p], got[p], reader[p])
      BY <3>1, Zenon DEF StreamsKept
    <3>3. written[e] \in Seq(Nat) /\ got[p] \in Nat /\ to_task[e] \in Seq(Messages)
      BY <1>1, Types
    <3>4. Stream(written[e], shut[e], to_task[e], chan[e].open, pq, chan[p].open, cmds[p],
                 rbuf[p], got[p], reader[p])
      BY <1>3, <1>4, <3>2, <3>3, StreamDeliverOther DEF pq, h
    <3> QED  BY <3>1, <3>4, Zenon DEF StreamsKept
  <2>13. LoopMoves(e, run[e], chan[e], k, sem_closed[e], to_task[e], cmds[e], wire[e], pq)
    BY <1>2, <1>4, <2>7 DEF OnWindowAdjust, LoopMoves, Typed
  <2>14. LoopTyped(run[e], chan[e], k, sem_closed[e], to_task[e], cmds[e], wire[e], pq)
    BY <1>4, <2>9, Types DEF LoopTyped
  <2> QED  BY <1>2, <2>10, <2>11, <2>12, <2>13, <2>14, Before, Taken, StepKeeps
<1> QED  BY <1>3, <1>6, <1>7

\* OnEvent: an end of file moves on to the task, behind the data.
LEMMA OnEventKeeps ==
    ASSUME Inv, NEW e \in End, Taking(e), OnEvent(e, Head(wire[Peer(e)]))
    PROVE  Inv'
<1> DEFINE p == Peer(e)  pq == Tail(wire[p])  h == Head(wire[p])  t == to_task[e] \o <<h>>
<1>1. p \in End /\ p # e
  BY TwoEnds
<1>2. Typed
  BY DEF Inv
<1>3. /\ wire[p] \in Seq(Messages) /\ wire[p] # <<>> /\ chan[e].open \in BOOLEAN
      /\ to_task[e] \in Seq(Events) /\ to_task[e] \in Seq(Messages)
  BY <1>1, Types DEF Taking
<1>4. /\ h \in Messages /\ h.type = "eof" /\ wire' = [wire EXCEPT ![e] = wire[e], ![p] = pq]
      /\ pq \in Seq(Packets)
  <2>1. h.type \in {"eof", "reply"} /\ Took(e, <<>>)
    BY Zenon DEF OnEvent
  <2>2. /\ h \in Messages /\ wire' = [wire EXCEPT ![e] = wire[e], ![p] = pq] /\ pq \in Seq(Packets)
        /\ h.type \in {"data", "adjust", "eof", "close", "disconnect"}
    BY <2>1, Taken
  <2> QED  BY <2>1, <2>2
<1>5. h \in Events
  BY <1>4, MessageFacts, PlainMessages
<1>6. CASE chan[e].open = FALSE
  BY <1>6, DiscardKeeps DEF OnEvent
<1>7. CASE chan[e].open = TRUE
  <2>1. AccountsKept(e, run[e], chan[e], credit[e], to_task[e], cmds[e], wire[e], wire[p])
    BY Before
  <2>2. /\ Total(wire[p], "data") = Total(pq, "data")
        /\ Total(wire[p], "adjust") = Total(pq, "adjust")
    BY <1>3, <1>4, LessTotals
  <2>3. Total(t, "data") = Total(to_task[e], "data")
    BY <1>3, <1>4, MoreTotals
  <2>4. t = Append(to_task[e], h) /\ t \in Seq(Events)
    BY <1>3, <1>5, OneMore
  <2>5. to_task' = [to_task EXCEPT ![e] = t]
    BY <1>7, <2>4 DEF OnEvent, Event
  <2>6. PhasesKept(e, run[e], chan[e], sem_closed[e], cmds[e], wire[e], pq, rbuf[e],
                   reader[e], writer[e], joined[e])
    BY <1>3, Before, PhaseTake DEF PhasesKept
  <2>7. Stream(written[e], shut[e], t, chan[e].open, pq, chan[p].open, cmds[p],
               rbuf[p], got[p], reader[p])
    <3>1. Stream(written[e], shut[e], to_task[e], chan[e].open, wire[p], chan[p].open, cmds[p],
                 rbuf[p], got[p], reader[p])
      BY Before, Zenon DEF StreamsKept
    <3>2. written[e] \in Seq(Nat) /\ got[p] \in Nat
      BY <1>1, Types
    <3> QED  BY <1>3, <1>4, <1>7, <3>1, <3>2, StreamDeliverOther
  <2> HIDE DEF t, pq, h
  <2>8. StreamsKept(e, chan[e], t, cmds[e], wire[e], pq, got[e], rbuf[e], reader[e],
                    written[e], shut[e])
    BY <2>7, Before DEF StreamsKept
  <2>9. AccountsKept(e, run[e], chan[e], credit[e], t, cmds[e], wire[e], pq)
    BY <2>1, <2>2, <2>3 DEF AccountsKept, Account
  <2>10. LoopMoves(e, run[e], chan[e], credit[e], sem_closed[e], t, cmds[e], wire[e], pq)
    BY <1>2, <1>4, <2>5 DEF OnEvent, LoopMoves, Typed
  <2>11. LoopTyped(run[e], chan[e], credit[e], sem_closed[e], t, cmds[e], wire[e], pq)
    BY <1>4, <2>4, Types DEF LoopTyped
  <2> QED  BY <1>2, <2>6, <2>8, <2>9, <2>10, <2>11, Before, Taken, StepKeeps
<1> QED  BY <1>3, <1>6, <1>7

\* e forgets the channel, whatever it still sends (q), takes (pq), tells its
\* task (t) and leaves in its command queue (m).
LEMMA ForgetKeeps ==
    ASSUME Inv, NEW e \in End, NEW r \in {"running", "lost", "done"},
           NEW t \in Seq(Events), NEW m \in Seq(Commands), m = cmds[e] \/ m = <<>>,
           NEW q \in Seq(Packets), NEW pq \in Seq(Packets),
           LoopMoves(e, r, NoChan, credit[e], TRUE, t, m, q, pq), UNCHANGED taskVars,
           pq = wire[Peer(e)] \/ (wire[Peer(e)] # <<>> /\ pq = Tail(wire[Peer(e)])),
           Quiet(q), Total(q, "data") = Total(wire[e], "data"),
           Stream(written[Peer(e)], shut[Peer(e)], to_task[Peer(e)], chan[Peer(e)].open, q,
                  chan[e].open, cmds[e], rbuf[e], got[e], reader[e]),
           Stream(written[e], shut[e], t, chan[e].open, wire[Peer(e)], chan[Peer(e)].open,
                  cmds[Peer(e)], rbuf[Peer(e)], got[Peer(e)], reader[Peer(e)])
    PROVE  Inv'
<1> DEFINE p == Peer(e)
<1>1. p \in End /\ p # e
  BY TwoEnds
<1>2. Typed
  BY DEF Inv
<1>3. TaskMoves(e, got[e], rbuf[e], reader[e], writer[e], joined[e], written[e], shut[e])
  BY <1>2, Idle
<1>4. LoopTyped(r, NoChan, credit[e], TRUE, t, m, q, pq)
  BY Types, NoChanFacts DEF LoopTyped
<1>5. PhasesKept(e, run[e], chan[e], sem_closed[e], cmds[e], wire[e], wire[p], rbuf[e],
                 reader[e], writer[e], joined[e])
  BY Before
<1>6. Phase(r, NoChan, TRUE, m, q, rbuf[e], reader[e], writer[e], joined[e])
  BY <1>5, NoChanFacts DEF PhasesKept, Phase
<1>7. Phase(run[p], chan[p], sem_closed[p], cmds[p], pq, rbuf[p], reader[p], writer[p], joined[p])
  <2>1. wire[p] \in Seq(Messages)
    BY <1>1, Types
  <2> QED  BY <1>5, <2>1, PhaseTake DEF PhasesKept
<1>8. PhasesKept(e, r, NoChan, TRUE, m, q, pq, rbuf[e], reader[e], writer[e], joined[e])
  BY <1>6, <1>7 DEF PhasesKept
<1>9. Stream(written[p], shut[p], to_task[p], chan[p].open, q, FALSE, m, rbuf[e], got[e], reader[e])
  BY StreamCutFrom, Zenon
<1>10. Stream(written[e], shut[e], t, FALSE, pq, chan[p].open, cmds[p], rbuf[p], got[p], reader[p])
  BY StreamCutTo, Zenon
<1>11. StreamsKept(e, NoChan, t, m, q, pq, got[e], rbuf[e], reader[e], written[e], shut[e])
  BY <1>9, <1>10, NoChanFacts DEF StreamsKept
<1>12. AccountsKept(e, r, NoChan, credit[e], t, m, q, pq)
  <2>1. AccountsKept(e, run[e], chan[e], credit[e], to_task[e], cmds[e], wire[e], wire[p])
    BY Before
  <2> QED  BY <2>1, NoChanFacts DEF AccountsKept, Account
<1> QED  BY <1>2, <1>3, <1>4, <1>8, <1>11, <1>12, Before, StepKeeps

\* run() ends: on a disconnect, on a failure, or because the peer is gone.
LEMMA DroppedMoves ==
    ASSUME Typed, NEW e \in End, NEW r, Dropped(e, r), UNCHANGED <<credit, to_task>>,
           NEW q, NEW pq, wire' = [wire EXCEPT ![e] = q, ![Peer(e)] = pq]
    PROVE  LoopMoves(e, r, NoChan, credit[e], TRUE, to_task[e], <<>>, q, pq)
<1>1. sem_closed' = [sem_closed EXCEPT ![e] = TRUE]
  BY DEF Dropped, CloseCredit, Typed
<1> QED  BY <1>1 DEF Dropped, LoopMoves, Typed

\* PeerGone, ConnectionFails: the loop ends.
LEMMA EndKeeps ==
    ASSUME Inv, NEW e \in End, UNCHANGED taskVars, PeerGone(e) \/ ConnectionFails(e)
    PROVE  Inv'
<1> DEFINE p == Peer(e)
<1>1. p \in End /\ p # e
  BY TwoEnds
<1>2. Typed
  BY DEF Inv
<1>3. Dropped(e, "lost") /\ UNCHANGED <<credit, to_task, wire>>
  BY DEF PeerGone, ConnectionFails
<1>4. wire' = [wire EXCEPT ![e] = wire[e], ![p] = wire[p]]
  BY <1>1, <1>2, <1>3 DEF Typed
<1>5. LoopMoves(e, "lost", NoChan, credit[e], TRUE, to_task[e], <<>>, wire[e], wire[p])
  BY <1>2, <1>3, <1>4, DroppedMoves
<1>6. Quiet(wire[e])
  BY Before DEF PhasesKept, Phase
<1>7. /\ Stream(written[p], shut[p], to_task[p], chan[p].open, wire[e],
                chan[e].open, cmds[e], rbuf[e], got[e], reader[e])
      /\ Stream(written[e], shut[e], to_task[e], chan[e].open, wire[p], chan[p].open,
                cmds[p], rbuf[p], got[p], reader[p])
  BY Before, Zenon DEF StreamsKept
<1>8. to_task[e] \in Seq(Events) /\ wire[e] \in Seq(Packets) /\ wire[p] \in Seq(Packets)
      /\ <<>> \in Seq(Commands)
  BY <1>1, Types
<1> QED  BY <1>5, <1>6, <1>7, <1>8, ForgetKeeps

\* OnDisconnect: the loop ends.
LEMMA OnDisconnectKeeps ==
    ASSUME Inv, NEW e \in End, Taking(e), OnDisconnect(e, Head(wire[Peer(e)]))
    PROVE  Inv'
<1> DEFINE p == Peer(e)  pq == Tail(wire[p])
<1>1. p \in End /\ p # e
  BY TwoEnds
<1>2. Typed
  BY DEF Inv
<1>3. Dropped(e, "done") /\ UNCHANGED <<credit, to_task>> /\ Took(e, <<>>)
  BY DEF OnDisconnect
<1>4. wire' = [wire EXCEPT ![e] = wire[e], ![p] = pq] /\ pq \in Seq(Packets)
  BY <1>3, Taken
<1>5. LoopMoves(e, "done", NoChan, credit[e], TRUE, to_task[e], <<>>, wire[e], pq)
  BY <1>2, <1>3, <1>4, DroppedMoves
<1>6. Quiet(wire[e])
  BY Before DEF PhasesKept, Phase
<1>7. /\ Stream(written[p], shut[p], to_task[p], chan[p].open, wire[e],
                chan[e].open, cmds[e], rbuf[e], got[e], reader[e])
      /\ Stream(written[e], shut[e], to_task[e], chan[e].open, wire[p], chan[p].open,
                cmds[p], rbuf[p], got[p], reader[p])
  BY Before, Zenon DEF StreamsKept
<1>8. to_task[e] \in Seq(Events) /\ wire[e] \in Seq(Packets) /\ <<>> \in Seq(Commands)
      /\ wire[p] # <<>> /\ UNCHANGED taskVars
  BY <1>1, Types DEF Taking
<1> QED  BY <1>4, <1>5, <1>6, <1>7, <1>8, ForgetKeeps

\* CHANNEL_CLOSE, then nothing but the end of the connection.
LEMMA QuietMore ==
    ASSUME NEW q \in Seq(Messages), Quiet(q), NEW x \in Messages,
           x.type = "disconnect" \/ ~Has(q, "close")
    PROVE  Quiet(q \o <<x>>)
<1> DEFINE n == Len(q)  r == q \o <<x>>
<1>1. n \in Nat /\ DOMAIN q = 1..n /\ Len(r) = n + 1 /\ r[n + 1] = x
      /\ \A i \in 1..n : r[i] = q[i]
  BY OneMore
<1> HIDE DEF n, r
<1>2. SUFFICES ASSUME NEW i \in 1..(n + 1), NEW k \in 1..(n + 1), i < k, r[i].type = "close"
               PROVE  r[k].type = "disconnect"
  BY <1>1 DEF Quiet, r
<1>3. i \in 1..n /\ q[i].type = "close"
  BY <1>1, <1>2
<1>4. CASE k \in 1..n
  BY <1>1, <1>2, <1>3, <1>4 DEF Quiet, n
<1>5. CASE k = n + 1
  BY <1>1, <1>3, <1>5 DEF Has
<1> QED  BY <1>1, <1>4, <1>5

\* Two messages appended are one after the other.
LEMMA Appended ==
    ASSUME NEW S, NEW w \in Seq(S), NEW x \in S, NEW y \in S,
           NEW a, a = <<>> \/ a = <<x>>, NEW b, b = <<>> \/ b = <<y>>
    PROVE  /\ w \o a \in Seq(S) /\ (w \o a) \o b \in Seq(S)
           /\ a = <<>> => w \o a = w
           /\ b = <<>> => (w \o a) \o b = w \o a
<1>1. a \in Seq(S) /\ b \in Seq(S)
  <2>1. <<>> \in Seq(S) /\ <<x>> \in Seq(S) /\ <<y>> \in Seq(S)
    OBVIOUS
  <2> QED  BY <2>1, Zenon
<1>2. w \o a \in Seq(S) /\ (w \o a) \o b \in Seq(S)
  BY <1>1
<1>4. a = <<>> => w \o a = w
  BY ConcatEmptySeq
<1>5. b = <<>> => (w \o a) \o b = w \o a
  BY <1>2, ConcatEmptySeq
<1> QED  BY <1>2, <1>4, <1>5

\* OnClose: it is answered unless this end closed first, and the entry goes.
LEMMA OnCloseKeeps ==
    ASSUME Inv, NEW e \in End, Taking(e), OnClose(e, Head(wire[Peer(e)]))
    PROVE  Inv'
<1> DEFINE p == Peer(e)  pq == Tail(wire[p])  h == Head(wire[p])  t == to_task[e] \o <<h>>
           c == [chan[e] EXCEPT !.peer_closed = TRUE, !.sent_close = TRUE]
           answer == CloseAnswer(e, h)
           bye == Goodbye(e, c)
           q == wire[e] \o (answer \o bye)
<1>1. p \in End /\ p # e
  BY TwoEnds
<1>2. Typed
  BY DEF Inv
<1>3. /\ wire[p] \in Seq(Messages) /\ wire[p] # <<>> /\ UNCHANGED taskVars
      /\ chan[e].open \in BOOLEAN /\ chan[e] \in Entry \cup {NoChan} /\ up(e)
      /\ to_task[e] \in Seq(Events) /\ to_task[e] \in Seq(Messages)
      /\ wire[e] \in Seq(Packets) /\ wire[e] \in Seq(Messages)
      /\ cmds[e] \in Seq(Commands) /\ <<>> \in Seq(Commands)
  BY <1>1, Types DEF Taking
<1>4. /\ h \in Messages /\ h \in Packets /\ h.type = "close" /\ pq \in Seq(Packets)
  <2>1. h.type = "close"
    BY Zenon DEF OnClose
  <2> QED  BY <2>1, Taken
<1>5. CASE chan[e].open = FALSE
  BY <1>5, DiscardKeeps DEF OnClose
<1>6. CASE chan[e].open = TRUE
  <2>1. /\ Event(e, h) /\ Took(e, answer \o bye) /\ CloseIfDone(e, c, cmds[e]) /\ UNCHANGED credit
    BY <1>6 DEF OnClose
  <2>2. c.sent_close = TRUE /\ c.peer_closed = TRUE
    <3>1. chan[e] \in Entry
      BY <1>3, <1>6, EntryFacts
    <3> QED  BY <3>1 DEF Entry
  <2>3. wire' = [wire EXCEPT ![e] = q, ![p] = pq]
    BY <2>1, Taken
  <2>4. t = Append(to_task[e], h) /\ t \in Seq(Events)
    <3>1. h \in Events
      BY <1>4, MessageFacts, PlainMessages
    <3> QED  BY <1>3, <3>1, OneMore
  <2>5. to_task' = [to_task EXCEPT ![e] = t]
    BY <2>1, <2>4 DEF Event
  <2> DEFINE bare == wire[e] \o answer
  <2>6. /\ answer = <<>> \/ (answer = <<h>> /\ ~Has(wire[e], "close"))
    <3>1. chan[e].open /\ ~chan[e].sent_close => ~Has(wire[e], "close")
      BY Before DEF PhasesKept, Phase
    <3> QED  BY <1>6, <3>1 DEF CloseAnswer
  <2>7. bye = <<>> \/ bye = <<Plain("disconnect")>>
    BY DEF Goodbye
  <2>8. Plain("disconnect") \in Messages /\ Plain("disconnect") \in Packets
        /\ Plain("disconnect").type = "disconnect"
    BY PlainMessages DEF Messages
  <2> HIDE DEF answer, bye, h, pq, t, c
  <2>9. /\ q = bare \o bye /\ bare \in Seq(Packets) /\ q \in Seq(Packets)
        /\ answer = <<>> => bare = wire[e]
        /\ bye = <<>> => bare \o bye = bare
    <3>1. answer = <<>> \/ answer = <<h>>
      BY <2>6
    <3>2. wire[e] \in Seq(Packets) /\ h \in Packets /\ Plain("disconnect") \in Packets
      BY <1>3, <1>4, <2>8
    <3>3. wire[e] \o (answer \o bye) = (wire[e] \o answer) \o bye
      <4>1. <<>> \in Seq(Packets) /\ <<h>> \in Seq(Packets) /\ <<Plain("disconnect")>> \in Seq(Packets)
        BY <3>2
      <4>2. answer \in Seq(Packets) /\ bye \in Seq(Packets)
        BY <2>7, <3>1, <4>1, Zenon
      <4>3. PICK w, a, b : w = wire[e] /\ a = answer /\ b = bye
        OBVIOUS
      <4>4. w \in Seq(Packets) /\ a \in Seq(Packets) /\ b \in Seq(Packets)
        BY <3>2, <4>2, <4>3
      <4>5. w \o (a \o b) = (w \o a) \o b
        BY ONLY <4>4, ConcatAssociative
      <4> QED  BY <4>3, <4>5
    <3>4. wire[e] \o answer \in Seq(Packets) /\ (wire[e] \o answer) \o bye \in Seq(Packets)
      BY <2>7, <3>1, <3>2, Appended
    <3>5. answer = <<>> => wire[e] \o answer = wire[e]
      BY <2>7, <3>1, <3>2, Appended
    <3>6. bye = <<>> => (wire[e] \o answer) \o bye = wire[e] \o answer
      BY <2>7, <3>1, <3>2, Appended
    <3> QED  BY <3>3, <3>4, <3>5, <3>6
  <2>10. /\ bare \in Seq(Packets) /\ bare \in Seq(Messages)
         /\ bare = wire[e] \/ (bare = wire[e] \o <<h>> /\ ~Has(wire[e], "close"))
    <3>1. bare = wire[e] \/ (bare = wire[e] \o <<h>> /\ ~Has(wire[e], "close"))
      BY <2>6, <2>9
    <3> HIDE DEF bare
    <3> QED  BY <2>9, <3>1, Queues
  <2>11. q \in Seq(Packets) /\ (q = bare \/ q = bare \o <<Plain("disconnect")>>)
    <3> HIDE DEF bare, q
    <3> QED  BY <2>7, <2>9
  <2> HIDE DEF q, bare
  <2>12. Quiet(wire[e])
    BY Before DEF PhasesKept, Phase
  <2>13. Quiet(bare)
    BY <1>3, <1>4, <2>10, <2>12, QuietMore
  <2>14. Quiet(q)
    BY <2>8, <2>10, <2>11, <2>13, QuietMore
  <2>15. Total(bare, "data") = Total(wire[e], "data")
    BY <1>3, <1>4, <2>10, MoreTotals
  <2>16. Total(q, "data") = Total(wire[e], "data")
    BY <2>8, <2>10, <2>11, <2>15, MoreTotals
  <2>17. Aside(h) /\ Aside(Plain("disconnect"))
    BY <1>4, <2>8 DEF Aside
  <2>18. Stream(written[p], shut[p], to_task[p], chan[p].open, q, chan[e].open, cmds[e], rbuf[e],
                got[e], reader[e])
    <3>1. Stream(written[p], shut[p], to_task[p], chan[p].open, wire[e], chan[e].open, cmds[e],
                 rbuf[e], got[e], reader[e])
      BY Before, Zenon DEF StreamsKept
    <3>2. /\ written[p] \in Seq(Nat) /\ to_task[p] \in Seq(Messages) /\ chan[p].open \in BOOLEAN
          /\ cmds[e] \in Seq(Messages) /\ got[e] \in Nat
      BY <1>1, Types
    <3>3. Stream(written[p], shut[p], to_task[p], chan[p].open, bare, chan[e].open, cmds[e],
                 rbuf[e], got[e], reader[e])
      <4>1. CASE bare = wire[e]
        BY <3>1, <4>1
      <4>2. CASE bare = wire[e] \o <<h>>
        BY <1>3, <2>17, <3>1, <3>2, <4>2, StreamAside
      <4> QED  BY <2>10, <4>1, <4>2
    <3>4. CASE q = bare
      BY <3>3, <3>4
    <3>5. CASE q = bare \o <<Plain("disconnect")>>
      BY <1>3, <2>10, <2>17, <3>2, <3>3, <3>5, StreamAside
    <3> QED  BY <2>11, <3>4, <3>5
  <2>19. Stream(written[e], shut[e], t, chan[e].open, wire[p], chan[p].open, cmds[p], rbuf[p],
                got[p], reader[p])
    <3>1. Stream(written[e], shut[e], to_task[e], chan[e].open, wire[p], chan[p].open, cmds[p],
                 rbuf[p], got[p], reader[p])
      BY Before, Zenon DEF StreamsKept
    <3>2. /\ written[e] \in Seq(Nat) /\ chan[p].open \in BOOLEAN
          /\ cmds[p] \in Seq(Messages) /\ got[p] \in Nat
      BY <1>1, Types
    <3> QED  BY <1>3, <2>17, <3>1, <3>2, StreamAside DEF t
  <2>20. pq = wire[p] \/ (wire[p] # <<>> /\ pq = Tail(wire[p]))
    BY <1>3 DEF pq
  <2>21. CASE e \in EndOnClose
    <3>1. Dropped(e, "done")
      BY <2>1, <2>2, <2>21 DEF CloseIfDone, Terminal
    <3>2. LoopMoves(e, "done", NoChan, credit[e], TRUE, t, <<>>, q, pq)
      <4>1. sem_closed' = [sem_closed EXCEPT ![e] = TRUE]
        BY <1>2, <3>1 DEF Dropped, CloseCredit, Typed
      <4> QED  BY <1>2, <2>1, <2>3, <2>5, <3>1, <4>1 DEF Dropped, LoopMoves, Typed
    <3> QED  BY <1>3, <1>4, <2>4, <2>11, <2>14, <2>16, <2>18, <2>19, <2>20, <3>2, ForgetKeeps
  <2>22. CASE e \notin EndOnClose
    <3>1. /\ chan' = [chan EXCEPT ![e] = NoChan] /\ CloseCredit(e, TRUE)
          /\ cmds' = [cmds EXCEPT ![e] = cmds[e]] /\ UNCHANGED run
      BY <2>1, <2>2, <2>22 DEF CloseIfDone, Terminal
    <3>2. LoopMoves(e, "running", NoChan, credit[e], TRUE, t, cmds[e], q, pq)
      <4>1. sem_closed' = [sem_closed EXCEPT ![e] = TRUE]
        BY <1>2, <3>1 DEF CloseCredit, Typed
      <4>2. run' = [run EXCEPT ![e] = "running"]
        BY <1>2, <1>3, <3>1 DEF up, Typed
      <4> QED  BY <1>2, <2>1, <2>3, <2>5, <3>1, <4>1, <4>2 DEF LoopMoves, Typed
    <3> QED  BY <1>3, <1>4, <2>4, <2>11, <2>14, <2>16, <2>18, <2>19, <2>20, <3>2, ForgetKeeps
  <2> QED  BY <2>21, <2>22
<1> QED  BY <1>3, <1>5, <1>6

\* What is known of the command that a loop takes.
Handling(e) == up(e) /\ cmds[e] # <<>> /\ UNCHANGED <<taskVars, credit, to_task>>

\* The command is one of the task's, and what the handlers do to the queues.
LEMMA Handled ==
    ASSUME Inv, NEW e \in End, Handling(e)
    PROVE  LET p == Peer(e)  h == Head(cmds[e])  m == Tail(cmds[e]) IN
           /\ h \in Commands /\ h \in Messages
           /\ h.type \in {"data", "consumed", "eof", "close"}
           /\ m \in Seq(Commands) /\ m \in Seq(Messages)
           /\ \A sent : Send(e, sent) =>
                wire' = [wire EXCEPT ![e] = wire[e] \o sent, ![p] = wire[p]]
           /\ UNCHANGED wire => wire' = [wire EXCEPT ![e] = wire[e], ![p] = wire[p]]
           /\ Dequeue(e) => cmds' = [cmds EXCEPT ![e] = m]
           /\ TaskMoves(e, got[e], rbuf[e], reader[e], writer[e], joined[e], written[e], shut[e])
<1> DEFINE p == Peer(e)  h == Head(cmds[e])  m == Tail(cmds[e])
<1>1. p \in End /\ p # e
  BY TwoEnds
<1>2. cmds[e] \in Seq(Commands) /\ cmds[e] \in Seq(Messages) /\ cmds[e] # <<>>
  BY Types DEF Handling
<1>3. h \in Commands /\ h \in Messages /\ m \in Seq(Commands) /\ m \in Seq(Messages)
  BY <1>2, OneLess
<1>4. h.type \in {"data", "consumed", "eof", "close"}
  BY <1>3, MessageFacts
<1>5. wire \in [End -> Seq(Packets)] /\ Typed
  BY DEF Inv, Typed
<1>6. ASSUME NEW sent, Send(e, sent)
      PROVE  wire' = [wire EXCEPT ![e] = wire[e] \o sent, ![p] = wire[p]]
  BY <1>1, <1>5, <1>6 DEF Send
<1>7. ASSUME UNCHANGED wire
      PROVE  wire' = [wire EXCEPT ![e] = wire[e], ![p] = wire[p]]
  BY <1>1, <1>5, <1>7
<1>8. Dequeue(e) => cmds' = [cmds EXCEPT ![e] = m]
  BY DEF Dequeue, Rest
<1>9. TaskMoves(e, got[e], rbuf[e], reader[e], writer[e], joined[e], written[e], shut[e])
  BY <1>5, Idle DEF Handling
<1> QED  BY <1>3, <1>4, <1>6, <1>7, <1>8, <1>9

\* A command less: Close is the last of them.
LEMMA PhaseHandle ==
    ASSUME NEW r, NEW c, NEW sc, NEW m \in Seq(Messages), NEW q, NEW b, NEW rd, NEW wr, NEW j,
           Phase(r, c, sc, m, q, b, rd, wr, j), m # <<>>
    PROVE  /\ Phase(r, c, sc, Tail(m), q, b, rd, wr, j)
           /\ c.open => ~c.sent_close
           /\ Head(m).type = "close" => j /\ Tail(m) = <<>>
<1> DEFINE n == Len(m)  t == Tail(m)
<1>1. /\ n \in Nat \ {0} /\ DOMAIN m = 1..n /\ DOMAIN t = 1..(n - 1) /\ Len(t) = n - 1
      /\ \A i \in 1..(n - 1) : t[i] = m[i + 1]
      /\ Head(m) = m[1] /\ t \in Seq(Messages)
  BY OneLess
<1>2. \A i \in DOMAIN m : m[i].type = "close" => j /\ i = n
  BY DEF Phase
<1>3. Head(m).type = "close" => j /\ t = <<>>
  <2> SUFFICES ASSUME Head(m).type = "close" PROVE j /\ t = <<>>
    OBVIOUS
  <2>1. 1 \in DOMAIN m /\ m[1].type = "close"
    BY <1>1
  <2>2. j /\ n = 1
    BY <1>2, <2>1
  <2> HIDE DEF t
  <2>3. t = <<>>
    BY <1>1, <2>2
  <2> QED  BY <2>2, <2>3
<1> HIDE DEF t, n
<1>4. \A i \in DOMAIN t : t[i].type = "close" => j /\ i = Len(t)
  <2> SUFFICES ASSUME NEW i \in DOMAIN t, t[i].type = "close" PROVE j /\ i = Len(t)
    OBVIOUS
  <2>1. i + 1 \in DOMAIN m /\ m[i + 1].type = "close" /\ i \in Nat
    BY <1>1
  <2>2. j /\ i + 1 = n
    BY <1>2, <2>1
  <2> QED  BY <1>1, <2>1, <2>2
<1>5. c.open => ~c.sent_close
  BY DEF Phase
<1>6. Phase(r, c, sc, t, q, b, rd, wr, j)
  BY <1>4, <1>5 DEF Phase
<1> QED  BY <1>3, <1>5, <1>6 DEF t

\* A command without effect: its channel is gone.
LEMMA SkipKeeps ==
    ASSUME Inv, NEW e \in End, Handling(e), chan[e].open = FALSE,
           UNCHANGED <<run, chan, sem_closed, wire>>, Dequeue(e)
    PROVE  Inv'
<1> DEFINE p == Peer(e)  m == Tail(cmds[e])
<1>1. p \in End /\ p # e
  BY TwoEnds
<1>2. Typed
  BY DEF Inv
<1>3. /\ m \in Seq(Commands) /\ cmds[e] \in Seq(Messages) /\ cmds[e] # <<>>
  BY Handled, Types DEF Handling
<1>4. /\ wire' = [wire EXCEPT ![e] = wire[e], ![p] = wire[p]] /\ cmds' = [cmds EXCEPT ![e] = m]
      /\ TaskMoves(e, got[e], rbuf[e], reader[e], writer[e], joined[e], written[e], shut[e])
  BY Handled
<1>5. PhasesKept(e, run[e], chan[e], sem_closed[e], m, wire[e], wire[p], rbuf[e],
                 reader[e], writer[e], joined[e])
  BY <1>3, Before, PhaseHandle DEF PhasesKept
<1>6. AccountsKept(e, run[e], chan[e], credit[e], to_task[e], cmds[e], wire[e], wire[p])
  BY Before
<1> HIDE DEF m
<1>7. LoopMoves(e, run[e], chan[e], credit[e], sem_closed[e], to_task[e], m, wire[e], wire[p])
  BY <1>2, <1>4 DEF LoopMoves, Typed, Handling
<1>8. LoopTyped(run[e], chan[e], credit[e], sem_closed[e], to_task[e], m, wire[e], wire[p])
  BY <1>1, <1>3, Types DEF LoopTyped
<1>9. AccountsKept(e, run[e], chan[e], credit[e], to_task[e], m, wire[e], wire[p])
  BY <1>6 DEF AccountsKept, Account
<1>10. StreamsKept(e, chan[e], to_task[e], m, wire[e], wire[p], got[e], rbuf[e], reader[e],
                   written[e], shut[e])
  <2>1. StreamsKept(e, chan[e], to_task[e], cmds[e], wire[e], wire[p], got[e], rbuf[e], reader[e],
                    written[e], shut[e])
    BY Before
  <2>2. Stream(written[p], shut[p], to_task[p], chan[p].open, wire[e], chan[e].open, cmds[e],
               rbuf[e], got[e], reader[e])
    BY <2>1, Zenon DEF StreamsKept
  <2>3. Stream(written[p], shut[p], to_task[p], chan[p].open, wire[e], FALSE, m,
               rbuf[e], got[e], reader[e])
    BY <2>2, StreamCutFrom, Zenon
  <2> QED  BY <2>1, <2>3, Zenon DEF StreamsKept
<1> QED  BY <1>2, <1>4, <1>5, <1>7, <1>8, <1>9, <1>10, Before, StepKeeps

\* CmdSend: the chunk goes from the loop to the wire.
LEMMA CmdSendKeeps ==
    ASSUME Inv, NEW e \in End, Handling(e), CmdSend(e, Head(cmds[e]))
    PROVE  Inv'
<1> DEFINE p == Peer(e)  m == Tail(cmds[e])  h == Head(cmds[e])  q == wire[e] \o <<h>>
<1>1. p \in End /\ p # e
  BY TwoEnds
<1>2. Typed
  BY DEF Inv
<1>3. /\ cmds[e] \in Seq(Messages) /\ cmds[e] # <<>> /\ m \in Seq(Commands)
      /\ wire[e] \in Seq(Packets) /\ wire[e] \in Seq(Messages) /\ chan[e].open \in BOOLEAN
      /\ chan[p].open \in BOOLEAN /\ got[e] \in Nat
  BY <1>1, Handled, Types DEF Handling
<1>4. h \in Messages /\ h.type = "data" /\ cmds' = [cmds EXCEPT ![e] = m]
  <2>1. h.type \in {"data", "ext", "request", "reply"} /\ Dequeue(e)
    BY Zenon DEF CmdSend
  <2>2. /\ h \in Messages /\ h.type \in {"data", "consumed", "eof", "close"}
        /\ cmds' = [cmds EXCEPT ![e] = m]
    BY <2>1, Handled
  <2> QED  BY <2>1, <2>2
<1>5. h \in Data /\ h \in Packets
  BY <1>4, MessageFacts DEF Packets
<1>6. CASE chan[e].open = FALSE
  <2>1. Send(e, <<>>) /\ Dequeue(e) /\ UNCHANGED <<run, chan, sem_closed>>
    BY <1>6 DEF CmdSend
  <2>2. UNCHANGED wire
    <3>1. wire[e] \o <<>> = wire[e]
      BY <1>3
    <3> QED  BY <1>2, <2>1, <3>1 DEF Send, Typed
  <2> QED  BY <1>6, <2>1, <2>2, SkipKeeps
<1>7. CASE chan[e].open = TRUE
  <2>1. Send(e, <<h>>) /\ UNCHANGED <<run, chan, sem_closed>>
    BY <1>7 DEF CmdSend
  <2>2. wire' = [wire EXCEPT ![e] = q, ![p] = wire[p]]
    BY <2>1, Handled
  <2>3. q \in Seq(Packets)
    BY <1>3, <1>5, OneMore
  <2>4. PhasesKept(e, run[e], chan[e], sem_closed[e], cmds[e], wire[e], wire[p], rbuf[e],
                   reader[e], writer[e], joined[e])
    BY Before
  <2>5. /\ Phase(run[e], chan[e], sem_closed[e], m, wire[e], rbuf[e], reader[e], writer[e], joined[e])
        /\ ~chan[e].sent_close
    BY <1>3, <1>7, <2>4, PhaseHandle DEF PhasesKept
  <2>6. Quiet(q) /\ ~Has(q, "close")
    <3>1. Quiet(wire[e]) /\ ~Has(wire[e], "close")
      BY <1>7, <2>5 DEF Phase
    <3>2. Quiet(q)
      BY <1>3, <1>4, <3>1, QuietMore
    <3>3. ~Has(q, "close")
      <4> HIDE DEF h
      <4> QED  BY <1>3, <1>4, <3>1, OneMore DEF Has
    <3> QED  BY <3>2, <3>3
  <2>7. Stream(written[p], shut[p], to_task[p], chan[p].open, q, chan[e].open, m, rbuf[e],
               got[e], reader[e])
    <3>1. Stream(written[p], shut[p], to_task[p], chan[p].open, wire[e], chan[e].open, cmds[e],
                 rbuf[e], got[e], reader[e])
      BY Before, Zenon DEF StreamsKept
    <3> QED  BY <1>3, <1>4, <1>7, <3>1, StreamSent
  <2>8. /\ Total(q, "data") = Total(wire[e], "data") + Len(h.bytes)
        /\ Total(q, "adjust") = Total(wire[e], "adjust")
        /\ Total(wire[e], "data") \in Nat
    BY <1>3, <1>4, MoreTotals, TotalNat
  <2>9. /\ Total(cmds[e], "data") = Total(m, "data") + Len(h.bytes)
        /\ Total(cmds[e], "consumed") = Total(m, "consumed")
        /\ Total(m, "data") \in Nat /\ Len(h.bytes) \in Nat
    BY <1>3, <1>4, LessTotals, MessageFacts, PacketSize
  <2> HIDE DEF q, m, h
  <2>10. PhasesKept(e, run[e], chan[e], sem_closed[e], m, q, wire[p], rbuf[e],
                    reader[e], writer[e], joined[e])
    BY <2>4, <2>5, <2>6 DEF PhasesKept, Phase
  <2>11. StreamsKept(e, chan[e], to_task[e], m, q, wire[p], got[e], rbuf[e], reader[e],
                     written[e], shut[e])
    BY <2>7, Before DEF StreamsKept
  <2>12. AccountsKept(e, run[e], chan[e], credit[e], to_task[e], m, q, wire[p])
    <3>1. AccountsKept(e, run[e], chan[e], credit[e], to_task[e], cmds[e], wire[e], wire[p])
      BY Before
    <3>2. /\ credit[e] \in Nat /\ Total(wire[p], "adjust") \in Nat
          /\ chan[p].open => chan[p].local_window \in Nat
      BY <1>1, Types, EntryFacts, TotalNat
    <3>3. ASSUME chan[p].open
          PROVE  /\ chan[p].local_window = credit[e] + Total(m, "data") + Total(q, "data")
                                             + Total(wire[p], "adjust")
                 /\ Total(q, "data") <= chan[p].local_window
      <4>1. chan[p].local_window = credit[e] + Total(cmds[e], "data") + Total(wire[e], "data")
                                     + Total(wire[p], "adjust")
        BY <1>7, <3>1, <3>3 DEF AccountsKept, Account
      <4> DEFINE l == chan[p].local_window  a == Total(m, "data")  b == Total(wire[e], "data")
                 n == Len(h.bytes)  c == Total(wire[p], "adjust")  k == credit[e]
      <4>2. /\ l \in Nat /\ a \in Nat /\ b \in Nat /\ n \in Nat /\ c \in Nat /\ k \in Nat
            /\ l = k + (a + n) + b + c /\ Total(q, "data") = b + n
        BY <2>8, <2>9, <3>2, <3>3, <4>1
      <4> HIDE DEF l, a, b, n, c, k
      <4>3. l = k + a + Total(q, "data") + c /\ Total(q, "data") <= l
        BY <4>2
      <4> QED  BY <4>3 DEF l, a, c, k
    <3> QED  BY <2>8, <2>9, <3>1, <3>3 DEF AccountsKept, Account
  <2>13. LoopMoves(e, run[e], chan[e], credit[e], sem_closed[e], to_task[e], m, q, wire[p])
    BY <1>2, <1>4, <2>1, <2>2 DEF LoopMoves, Typed, Handling
  <2>14. LoopTyped(run[e], chan[e], credit[e], sem_closed[e], to_task[e], m, q, wire[p])
    BY <1>1, <1>3, <2>3, Types DEF LoopTyped
  <2> QED  BY <1>2, <2>10, <2>11, <2>12, <2>13, <2>14, Before, Handled, StepKeeps
<1> QED  BY <1>3, <1>6, <1>7

\* An entry with another flag.
LEMMA EntryMarked ==
    ASSUME NEW c \in Entry
    PROVE  /\ LET d == [c EXCEPT !.sent_eof = TRUE] IN
              /\ d \in Entry /\ d.open = TRUE /\ d.local_window = c.local_window
              /\ d.pending_consumed = c.pending_consumed /\ d.sent_close = c.sent_close
              /\ d.peer_closed = c.peer_closed
           /\ LET d == [c EXCEPT !.sent_close = TRUE] IN
              /\ d \in Entry /\ d.open = TRUE /\ d.local_window = c.local_window
              /\ d.pending_consumed = c.pending_consumed /\ d.sent_close = TRUE
              /\ d.peer_closed = c.peer_closed
BY DEF Entry

\* CmdEof: the end of file follows the data onto the wire.
LEMMA CmdEofKeeps ==
    ASSUME Inv, NEW e \in End, Handling(e), CmdEof(e, Head(cmds[e]))
    PROVE  Inv'
<1> DEFINE p == Peer(e)  m == Tail(cmds[e])  h == Head(cmds[e])
<1>1. p \in End /\ p # e
  BY TwoEnds
<1>2. Typed
  BY DEF Inv
<1>3. /\ cmds[e] \in Seq(Messages) /\ cmds[e] # <<>> /\ m \in Seq(Commands)
      /\ wire[e] \in Seq(Packets) /\ wire[e] \in Seq(Messages) /\ chan[e].open \in BOOLEAN
      /\ chan[e] \in Entry \cup {NoChan} /\ chan[p].open \in BOOLEAN /\ got[e] \in Nat
  BY <1>1, Handled, Types DEF Handling
<1>4. h \in Messages /\ h.type = "eof" /\ cmds' = [cmds EXCEPT ![e] = m] /\ Dequeue(e)
  <2>1. h.type = "eof" /\ Dequeue(e)
    BY Zenon DEF CmdEof
  <2> QED  BY <2>1, Handled
<1>5. h \in Packets
  BY <1>4, MessageFacts, PlainMessages
<1>6. CASE chan[e].open = FALSE
  BY <1>4, <1>6, SkipKeeps DEF CmdEof
<1>7. CASE chan[e].open = TRUE
  <2>1. chan[e] \in Entry
    BY <1>3, <1>7, EntryFacts
  <2> DEFINE fresh == ~chan[e].sent_eof
             c == IF fresh THEN [chan[e] EXCEPT !.sent_eof = TRUE] ELSE chan[e]
             q == IF fresh THEN wire[e] \o <<h>> ELSE wire[e]
  <2>2. /\ chan' = [chan EXCEPT ![e] = c] /\ wire' = [wire EXCEPT ![e] = q, ![p] = wire[p]]
        /\ UNCHANGED <<run, sem_closed>>
    <3>0. UNCHANGED <<run, sem_closed>>
      BY DEF CmdEof
    <3>1. CASE fresh
      <4>1. chan' = [chan EXCEPT ![e].sent_eof = TRUE] /\ Send(e, <<h>>)
        BY <1>7, <3>1 DEF CmdEof
      <4>2. wire' = [wire EXCEPT ![e] = wire[e] \o <<h>>, ![p] = wire[p]]
        BY <4>1, Handled
      <4>3. chan' = [chan EXCEPT ![e] = [chan[e] EXCEPT !.sent_eof = TRUE]]
        BY <1>2, <4>1 DEF Typed
      <4> QED  BY <3>0, <3>1, <4>2, <4>3
    <3>2. CASE ~fresh
      <4>1. UNCHANGED <<chan, wire>>
        BY <1>7, <3>2 DEF CmdEof
      <4>2. wire' = [wire EXCEPT ![e] = wire[e], ![p] = wire[p]]
        BY <4>1, Handled
      <4>3. chan' = [chan EXCEPT ![e] = chan[e]]
        BY <1>2, <4>1 DEF Typed
      <4> QED  BY <3>0, <3>2, <4>2, <4>3
    <3> QED  BY <3>1, <3>2
  <2>3. /\ c \in Entry /\ c.open = TRUE /\ c.local_window = chan[e].local_window
        /\ c.pending_consumed = chan[e].pending_consumed /\ c.sent_close = chan[e].sent_close
        /\ c.peer_closed = chan[e].peer_closed
    <3>1. CASE fresh
      BY <2>1, <3>1, EntryMarked
    <3>2. CASE ~fresh
      BY <1>7, <2>1, <3>2
    <3> QED  BY <3>1, <3>2
  <2> HIDE DEF c
  <2>4. q \in Seq(Packets) /\ (q = wire[e] \/ q = wire[e] \o <<h>>)
    BY <1>3, <1>5, OneMore
  <2> HIDE DEF q
  <2>5. PhasesKept(e, run[e], chan[e], sem_closed[e], cmds[e], wire[e], wire[p], rbuf[e],
                   reader[e], writer[e], joined[e])
    BY Before
  <2>6. /\ Phase(run[e], chan[e], sem_closed[e], m, wire[e], rbuf[e], reader[e], writer[e], joined[e])
        /\ ~chan[e].sent_close
    BY <1>3, <1>7, <2>5, PhaseHandle DEF PhasesKept
  <2>7. Quiet(q) /\ ~Has(q, "close")
    <3>1. Quiet(wire[e]) /\ ~Has(wire[e], "close")
      BY <1>7, <2>6 DEF Phase
    <3>2. CASE q = wire[e] \o <<h>>
      <4>1. Quiet(q)
        BY <1>3, <1>4, <3>1, <3>2, QuietMore
      <4>2. ~Has(q, "close")
        <5> HIDE DEF h
        <5> QED  BY <1>3, <1>4, <3>1, <3>2, OneMore DEF Has
      <4> QED  BY <4>1, <4>2
    <3> QED  BY <2>4, <3>1, <3>2
  <2>8. Stream(written[p], shut[p], to_task[p], chan[p].open, q, chan[e].open, m, rbuf[e],
               got[e], reader[e])
    <3>1. Stream(written[p], shut[p], to_task[p], chan[p].open, wire[e], chan[e].open, cmds[e],
                 rbuf[e], got[e], reader[e])
      BY Before, Zenon DEF StreamsKept
    <3>2. h.type # "data"
      <4> HIDE DEF h
      <4> QED  BY <1>4
    <3>3. CASE q = wire[e]
      BY <1>3, <3>1, <3>2, <3>3, StreamSkipped
    <3>4. CASE q = wire[e] \o <<h>>
      BY <1>3, <1>7, <3>1, <3>2, <3>4, StreamSentOther
    <3> QED  BY <2>4, <3>3, <3>4
  <2>9. /\ Total(q, "data") = Total(wire[e], "data")
        /\ Total(q, "adjust") = Total(wire[e], "adjust")
    BY <1>3, <1>4, <2>4, MoreTotals
  <2>10. /\ Total(cmds[e], "data") = Total(m, "data")
         /\ Total(cmds[e], "consumed") = Total(m, "consumed")
    BY <1>3, <1>4, LessTotals
  <2> HIDE DEF m, h
  <2>11. PhasesKept(e, run[e], c, sem_closed[e], m, q, wire[p], rbuf[e],
                    reader[e], writer[e], joined[e])
    BY <1>7, <2>3, <2>5, <2>6, <2>7 DEF PhasesKept, Phase
  <2>12. StreamsKept(e, c, to_task[e], m, q, wire[p], got[e], rbuf[e], reader[e],
                     written[e], shut[e])
    BY <1>7, <2>3, <2>8, Before DEF StreamsKept
  <2>13. AccountsKept(e, run[e], c, credit[e], to_task[e], m, q, wire[p])
    <3>1. AccountsKept(e, run[e], chan[e], credit[e], to_task[e], cmds[e], wire[e], wire[p])
      BY Before
    <3> QED  BY <1>7, <2>3, <2>9, <2>10, <3>1 DEF AccountsKept, Account
  <2>14. LoopMoves(e, run[e], c, credit[e], sem_closed[e], to_task[e], m, q, wire[p])
    BY <1>2, <1>4, <2>2 DEF LoopMoves, Typed, Handling
  <2>15. LoopTyped(run[e], c, credit[e], sem_closed[e], to_task[e], m, q, wire[p])
    BY <1>1, <1>3, <2>3, <2>4, Types DEF LoopTyped
  <2> QED  BY <1>2, <2>11, <2>12, <2>13, <2>14, <2>15, Before, Handled, StepKeeps
<1> QED  BY <1>3, <1>6, <1>7

\* CmdClose: the task has returned, so this is the last the end sends.
LEMMA CmdCloseKeeps ==
    ASSUME Inv, NEW e \in End, Handling(e), CmdClose(e, Head(cmds[e]))
    PROVE  Inv'
<1> DEFINE p == Peer(e)  m == Tail(cmds[e])  h == Head(cmds[e])
<1>1. p \in End /\ p # e
  BY TwoEnds
<1>2. Typed
  BY DEF Inv
<1>3. /\ cmds[e] \in Seq(Messages) /\ cmds[e] # <<>> /\ m \in Seq(Commands)
      /\ wire[e] \in Seq(Packets) /\ wire[e] \in Seq(Messages) /\ chan[e].open \in BOOLEAN
      /\ chan[e] \in Entry \cup {NoChan} /\ chan[p].open \in BOOLEAN /\ got[e] \in Nat
  BY <1>1, Handled, Types DEF Handling
<1>4. h \in Messages /\ h.type = "close"
  <2>1. h.type = "close"
    BY Zenon DEF CmdClose
  <2> QED  BY <2>1, Handled
<1>5. h \in Packets
  BY <1>4, MessageFacts, PlainMessages
<1>6. CASE chan[e].open = FALSE
  BY <1>6, SkipKeeps DEF CmdClose
<1>7. CASE chan[e].open = TRUE
  <2> DEFINE c == [chan[e] EXCEPT !.sent_close = TRUE]  q == wire[e] \o <<h>>
  <2>1. chan[e] \in Entry
    BY <1>3, <1>7, EntryFacts
  <2>2. PhasesKept(e, run[e], chan[e], sem_closed[e], cmds[e], wire[e], wire[p], rbuf[e],
                   reader[e], writer[e], joined[e])
    BY Before
  <2>3. /\ Phase(run[e], chan[e], sem_closed[e], m, wire[e], rbuf[e], reader[e], writer[e], joined[e])
        /\ ~chan[e].sent_close /\ joined[e] /\ m = <<>>
    <3>1. Phase(run[e], chan[e], sem_closed[e], cmds[e], wire[e], rbuf[e], reader[e], writer[e],
                joined[e])
      BY <2>2 DEF PhasesKept
    <3>2. /\ Phase(run[e], chan[e], sem_closed[e], m, wire[e], rbuf[e], reader[e], writer[e],
                   joined[e])
          /\ chan[e].open => ~chan[e].sent_close
          /\ h.type = "close" => joined[e] /\ m = <<>>
      BY <1>3, <3>1, PhaseHandle, Zenon
    <3> QED  BY <1>4, <1>7, <3>2
  <2>4. ~chan[e].peer_closed
    BY <1>7, <2>2 DEF PhasesKept, Phase
  <2>5. /\ c \in Entry /\ c.open = TRUE /\ c.local_window = chan[e].local_window
        /\ c.pending_consumed = chan[e].pending_consumed /\ c.sent_close = TRUE
        /\ c.peer_closed = chan[e].peer_closed
    BY <2>1, EntryMarked
  <2>6. Send(e, CloseAnswer(e, h) \o Goodbye(e, c)) /\ CloseIfDone(e, c, m)
    BY <1>7 DEF CmdClose, Rest
  <2> HIDE DEF c
  <2>7. ~Terminal(e, c)
    BY <2>4, <2>5 DEF Terminal
  <2>8. CloseAnswer(e, h) \o Goodbye(e, c) = <<h>>
    <3>1. CloseAnswer(e, h) = <<h>> /\ Goodbye(e, c) = <<>>
      BY <2>3, <2>7 DEF CloseAnswer, Goodbye
    <3>2. <<h>> \in Seq(Messages)
      BY <1>4
    <3> HIDE DEF h
    <3> QED  BY <3>1, <3>2
  <2>9. /\ chan' = [chan EXCEPT ![e] = c] /\ CloseCredit(e, FALSE)
        /\ cmds' = [cmds EXCEPT ![e] = m] /\ UNCHANGED run
    <3>1. (c.sent_close /\ c.peer_closed) = FALSE
      BY <2>4, <2>5
    <3> HIDE DEF m
    <3> QED  BY <2>6, <2>7, <3>1 DEF CloseIfDone
  <2>10. sem_closed' = [sem_closed EXCEPT ![e] = sem_closed[e]]
    BY <1>2, <2>9 DEF CloseCredit, Typed
  <2>11. wire' = [wire EXCEPT ![e] = q, ![p] = wire[p]]
    BY <2>6, <2>8, Handled, ZenonT(60)
  <2>12. q \in Seq(Packets)
    BY <1>3, <1>5, OneMore
  <2>13. Quiet(q)
    <3>1. Quiet(wire[e]) /\ ~Has(wire[e], "close")
      BY <1>7, <2>3 DEF Phase
    <3> QED  BY <1>3, <1>4, <3>1, QuietMore
  <2>14. Stream(written[p], shut[p], to_task[p], chan[p].open, q, chan[e].open, m, rbuf[e],
                got[e], reader[e])
    <3>1. Stream(written[p], shut[p], to_task[p], chan[p].open, wire[e], chan[e].open, cmds[e],
                 rbuf[e], got[e], reader[e])
      BY Before, Zenon DEF StreamsKept
    <3> QED  BY <1>3, <1>4, <1>7, <3>1, StreamSentOther
  <2>15. /\ Total(q, "data") = Total(wire[e], "data")
         /\ Total(q, "adjust") = Total(wire[e], "adjust")
    BY <1>3, <1>4, MoreTotals
  <2>16. /\ Total(cmds[e], "data") = Total(m, "data")
         /\ Total(cmds[e], "consumed") = Total(m, "consumed")
    BY <1>3, <1>4, LessTotals
  <2> HIDE DEF m, h, q
  <2>17. PhasesKept(e, run[e], c, sem_closed[e], m, q, wire[p], rbuf[e],
                    reader[e], writer[e], joined[e])
    BY <1>7, <2>2, <2>3, <2>4, <2>5, <2>13 DEF PhasesKept, Phase
  <2>18. StreamsKept(e, c, to_task[e], m, q, wire[p], got[e], rbuf[e], reader[e],
                     written[e], shut[e])
    BY <1>7, <2>5, <2>14, Before DEF StreamsKept
  <2>19. AccountsKept(e, run[e], c, credit[e], to_task[e], m, q, wire[p])
    <3>1. AccountsKept(e, run[e], chan[e], credit[e], to_task[e], cmds[e], wire[e], wire[p])
      BY Before
    <3> QED  BY <1>7, <2>5, <2>15, <2>16, <3>1 DEF AccountsKept, Account
  <2>20. LoopMoves(e, run[e], c, credit[e], sem_closed[e], to_task[e], m, q, wire[p])
    BY <1>2, <2>9, <2>10, <2>11 DEF LoopMoves, Typed, Handling
  <2>21. LoopTyped(run[e], c, credit[e], sem_closed[e], to_task[e], m, q, wire[p])
    BY <1>1, <1>3, <2>5, <2>12, Types DEF LoopTyped
  <2> QED  BY <1>2, <2>17, <2>18, <2>19, <2>20, <2>21, Before, Handled, StepKeeps
<1> QED  BY <1>3, <1>6, <1>7

\* CmdConsumed: what was consumed joins the batch, or returns as credit.
LEMMA CmdConsumedKeeps ==
    ASSUME Inv, NEW e \in End, Handling(e), CmdConsumed(e, Head(cmds[e]))
    PROVE  Inv'
<1> DEFINE p == Peer(e)  m == Tail(cmds[e])  h == Head(cmds[e])
<1>1. p \in End /\ p # e
  BY TwoEnds
<1>2. Typed
  BY DEF Inv
<1>3. /\ cmds[e] \in Seq(Messages) /\ cmds[e] # <<>> /\ m \in Seq(Commands)
      /\ m \in Seq(Messages)
      /\ wire[e] \in Seq(Packets) /\ wire[e] \in Seq(Messages) /\ chan[e].open \in BOOLEAN
      /\ chan[e] \in Entry \cup {NoChan} /\ chan[p].open \in BOOLEAN /\ got[e] \in Nat
  BY <1>1, Handled, Types DEF Handling
<1>4. h \in Messages /\ h.type = "consumed" /\ Dequeue(e)
  <2>1. h.type = "consumed" /\ Dequeue(e)
    BY Zenon DEF CmdConsumed
  <2> QED  BY <2>1, Handled
<1>5. h.n \in Nat \ {0} /\ cmds' = [cmds EXCEPT ![e] = m]
  BY <1>4, MessageFacts, PacketSize, Handled
<1>6. CASE chan[e].open = FALSE
  BY <1>6, <1>4, SkipKeeps DEF CmdConsumed
<1>7. CASE chan[e].open = TRUE
  <2>1. chan[e] \in Entry /\ chan[e].local_window \in Nat /\ chan[e].pending_consumed \in Nat
    BY <1>3, <1>7, EntryFacts
  <2> DEFINE w == chan[e].local_window  b == chan[e].pending_consumed
             due == b + h.n >= WindowRefill[e]
             k == IF due THEN 0 ELSE b + h.n
             n == IF due THEN w + (b + h.n) ELSE w
             c == [chan[e] EXCEPT !.pending_consumed = k, !.local_window = n]
             a == Amount("adjust", b + h.n)
             q == IF due THEN wire[e] \o <<a>> ELSE wire[e]
  <2>2. k \in Nat /\ n \in Nat /\ b + h.n \in Nat \ {0} /\ b \in Nat /\ w \in Nat
    <3> DEFINE x == h.n
    <3>1. x \in Nat \ {0} /\ b \in Nat /\ w \in Nat
      BY <1>5, <2>1
    <3> HIDE DEF x, b, w
    <3>2. b + x \in Nat \ {0} /\ w + (b + x) \in Nat
      BY <3>1
    <3> HIDE DEF due
    <3> QED  BY <3>1, <3>2 DEF x
  <2>3. /\ chan' = [chan EXCEPT ![e] = c] /\ wire' = [wire EXCEPT ![e] = q, ![p] = wire[p]]
        /\ UNCHANGED <<run, sem_closed>>
    <3>0. UNCHANGED <<run, sem_closed>>
      BY DEF CmdConsumed
    <3>1. chan' = [chan EXCEPT ![e].pending_consumed = k, ![e].local_window = n]
      BY <1>7, <1>2, <2>1 DEF CmdConsumed, RefillDue, Batch, Typed
    <3>2. chan' = [chan EXCEPT ![e] = c]
      BY <1>2, <2>1, <3>1 DEF Typed
    <3>3. Send(e, IF due THEN <<a>> ELSE <<>>)
      BY <1>7 DEF CmdConsumed, RefillDue, Batch
    <3>4. wire[e] \o <<>> = wire[e]
      BY <1>3
    <3>5. wire' = [wire EXCEPT ![e] = wire[e] \o (IF due THEN <<a>> ELSE <<>>), ![p] = wire[p]]
      BY <3>3, Handled
    <3>6. wire[e] \o (IF due THEN <<a>> ELSE <<>>) = q
      BY <3>4
    <3> QED  BY <3>0, <3>2, <3>5, <3>6
  <2>4. /\ c \in Entry /\ c.open = TRUE /\ c.local_window = n
        /\ c.pending_consumed = k /\ c.sent_close = chan[e].sent_close
        /\ c.peer_closed = chan[e].peer_closed
    <3>1. k \in Nat /\ n \in Nat
      BY <2>2
    <3> HIDE DEF k, n, b, w, h
    <3>2. c = [chan[e] EXCEPT !.pending_consumed = k, !.local_window = n]
      OBVIOUS
    <3> HIDE DEF c
    <3> QED  BY <2>1, <3>1, <3>2 DEF Entry
  <2> HIDE DEF c
  <2>5. a \in Packets /\ a \in Messages /\ a.type = "adjust" /\ a.n = b + h.n
    BY <2>2 DEF Amount, Packets, Messages
  <2> HIDE DEF a
  <2>6. q \in Seq(Packets) /\ (q = wire[e] \/ q = wire[e] \o <<a>>)
    BY <1>3, <2>5, OneMore
  <2>7. /\ Total(q, "data") = Total(wire[e], "data")
        /\ Total(q, "adjust") = Total(wire[e], "adjust") + (IF due THEN b + h.n ELSE 0)
        /\ Total(wire[e], "adjust") \in Nat
    <3>1. Total(wire[e], "adjust") \in Nat
      BY <1>3, TotalNat
    <3>2. CASE due
      BY <1>3, <2>5, <3>1, <3>2, MoreTotals
    <3>3. CASE ~due
      BY <3>1, <3>3
    <3> QED  BY <3>1, <3>2, <3>3
  <2>8. /\ Total(cmds[e], "data") = Total(m, "data")
        /\ Total(cmds[e], "consumed") = Total(m, "consumed") + h.n
        /\ Total(m, "consumed") \in Nat
    BY <1>3, <1>4, LessTotals
  <2>9. due \in BOOLEAN /\ (~due => k < WindowRefill[e]) /\ (due => k < WindowRefill[e])
    BY <1>5, <2>2, MuxAssumption
  <2> HIDE DEF q
  <2>10. PhasesKept(e, run[e], chan[e], sem_closed[e], cmds[e], wire[e], wire[p], rbuf[e],
                    reader[e], writer[e], joined[e])
    BY Before
  <2>11. /\ Phase(run[e], chan[e], sem_closed[e], m, wire[e], rbuf[e], reader[e], writer[e], joined[e])
         /\ ~chan[e].sent_close
    BY <1>3, <1>7, <2>10, PhaseHandle DEF PhasesKept
  <2>12. Quiet(q) /\ ~Has(q, "close")
    <3>1. Quiet(wire[e]) /\ ~Has(wire[e], "close")
      BY <1>7, <2>11 DEF Phase
    <3>2. CASE q = wire[e] \o <<a>>
      <4>1. Quiet(q)
        BY <1>3, <2>5, <3>1, <3>2, QuietMore
      <4>2. ~Has(q, "close")
        BY <1>3, <2>5, <3>1, <3>2, OneMore DEF Has
      <4> QED  BY <4>1, <4>2
    <3> QED  BY <2>6, <3>1, <3>2
  <2>13. Stream(written[p], shut[p], to_task[p], chan[p].open, q, chan[e].open, m, rbuf[e],
                got[e], reader[e])
    <3>1. Stream(written[p], shut[p], to_task[p], chan[p].open, wire[e], chan[e].open, cmds[e],
                 rbuf[e], got[e], reader[e])
      BY Before, Zenon DEF StreamsKept
    <3>2. h.type # "data"
      <4> HIDE DEF h
      <4> QED  BY <1>4
    <3>3. Stream(written[p], shut[p], to_task[p], chan[p].open, wire[e], chan[e].open, m,
                 rbuf[e], got[e], reader[e])
      BY <1>3, <3>1, <3>2, StreamSkipped
    <3>4. Aside(a)
      BY <2>5 DEF Aside
    <3>5. CASE q = wire[e] \o <<a>>
      <4>1. written[p] \in Seq(Nat) /\ to_task[p] \in Seq(Messages)
        BY <1>1, Types
      <4> HIDE DEF m
      <4> QED  BY <1>3, <3>3, <3>4, <3>5, <4>1, StreamAside
    <3> QED  BY <2>6, <3>3, <3>5
  <2> HIDE DEF m, h, due, k, n, w, b
  <2>14. PhasesKept(e, run[e], c, sem_closed[e], m, q, wire[p], rbuf[e],
                    reader[e], writer[e], joined[e])
    BY <1>7, <2>4, <2>10, <2>11, <2>12 DEF PhasesKept, Phase
  <2>15. StreamsKept(e, c, to_task[e], m, q, wire[p], got[e], rbuf[e], reader[e],
                     written[e], shut[e])
    BY <1>7, <2>4, <2>13, Before DEF StreamsKept
  <2>16. AccountsKept(e, run[e], c, credit[e], to_task[e], m, q, wire[p])
    <3>1. AccountsKept(e, run[e], chan[e], credit[e], to_task[e], cmds[e], wire[e], wire[p])
      BY Before
    <3> DEFINE x == h.n  d == Total(cmds[p], "data")  y == Total(wire[p], "data")
               u == Total(wire[e], "adjust")  v == Total(to_task[e], "data")
               z == Total(m, "consumed")  f == credit[p]  g == LocalWindow[e]
    <3>2. /\ x \in Nat \ {0} /\ d \in Nat /\ y \in Nat /\ u \in Nat /\ v \in Nat /\ z \in Nat
          /\ f \in Nat /\ w \in Nat /\ b \in Nat /\ g \in Nat
      BY <1>1, <1>5, <2>2, <2>7, <2>8, Types, TotalNat, MuxAssumption
    <3>3. run[e] # "overflow" /\ y <= w
      BY <1>7, <3>1 DEF AccountsKept, Account, w
    <3>4. chan[p].open => w = f + d + y + u /\ w + v + (z + x) + b = g
      BY <1>7, <2>8, <3>1 DEF AccountsKept, Account, w, b
    <3>5. /\ n = IF due THEN w + (b + x) ELSE w
          /\ k = IF due THEN 0 ELSE b + x
          /\ Total(q, "adjust") = u + (IF due THEN b + x ELSE 0)
      BY <2>7 DEF n, k
    <3>6. k < WindowRefill[e]
      BY <2>9
    <3>7. Account(LocalWindow[p], WindowRefill[p], run[p], chan[p], to_task[p], cmds[p], wire[p],
                  c.open, credit[e], m, q)
      BY <1>7, <2>4, <2>7, <2>8, <3>1 DEF AccountsKept, Account
    <3> HIDE DEF x, d, y, u, v, z, f, g
    <3>8. y <= n
      BY <3>2, <3>3, <3>5
    <3>9. chan[p].open => n = f + d + y + Total(q, "adjust") /\ n + v + z + k = g
      <4>1. CASE due
        BY <3>2, <3>4, <3>5, <4>1
      <4>2. CASE ~due
        BY <3>2, <3>4, <3>5, <4>2
      <4> QED  BY <4>1, <4>2
    <3>10. Account(LocalWindow[e], WindowRefill[e], run[e], c, to_task[e], m, q,
                   chan[p].open, credit[p], cmds[p], wire[p])
      BY <2>4, <3>3, <3>6, <3>8, <3>9 DEF Account, d, y, v, z, f, g
    <3> QED  BY <3>7, <3>10 DEF AccountsKept
  <2>17. LoopMoves(e, run[e], c, credit[e], sem_closed[e], to_task[e], m, q, wire[p])
    BY <1>2, <1>5, <2>3 DEF LoopMoves, Typed, Handling
  <2>18. LoopTyped(run[e], c, credit[e], sem_closed[e], to_task[e], m, q, wire[p])
    BY <1>1, <1>3, <2>4, <2>6, Types DEF LoopTyped
  <2> QED  BY <1>2, <2>14, <2>15, <2>16, <2>17, <2>18, Before, Handled, StepKeeps
<1> QED  BY <1>3, <1>6, <1>7

-----------------------------------------------------------------------------
(* The invariant holds in every state.                                     *)

\* A channel just opened has its whole windows and no bytes under way.
LEMMA InitInv == Init => Inv
<1> SUFFICES ASSUME Init PROVE Inv
  OBVIOUS
<1>1. ASSUME NEW e \in End
      PROVE  /\ run[e] = "running" /\ chan[e] = NewChan(e) /\ credit[e] = LocalWindow[Peer(e)]
             /\ sem_closed[e] = FALSE /\ to_task[e] = <<>> /\ cmds[e] = <<>> /\ wire[e] = <<>>
             /\ got[e] = 0 /\ rbuf[e] = <<>> /\ reader[e] = "reading" /\ writer[e] = "running"
             /\ joined[e] = FALSE /\ written[e] = <<>> /\ shut[e] = FALSE
  BY <1>1 DEF Init, MuxInit
<1>2. ASSUME NEW e \in End
      PROVE  /\ NewChan(e) \in Entry /\ NewChan(e).open = TRUE
             /\ NewChan(e).local_window = LocalWindow[e] /\ NewChan(e).pending_consumed = 0
             /\ NewChan(e).sent_close = FALSE /\ NewChan(e).peer_closed = FALSE
             /\ LocalWindow[e] \in Nat /\ WindowRefill[e] \in Nat \ {0}
  BY <1>2, MuxAssumption DEF NewChan, Entry
<1>3. \A e \in End : Peer(e) \in End
  BY TwoEnds
<1>4. Typed
  <2>1. <<>> \in Seq(Events) /\ <<>> \in Seq(Commands) /\ <<>> \in Seq(Packets) /\ <<>> \in Seq(Nat)
    OBVIOUS
  <2>2. /\ run \in [End -> {"running", "overflow", "lost", "done"}]
        /\ sem_closed \in [End -> BOOLEAN]
        /\ reader \in [End -> {"reading", "sending", "done"}]
        /\ writer \in [End -> {"running", "done"}]
        /\ joined \in [End -> BOOLEAN] /\ shut \in [End -> BOOLEAN] /\ got \in [End -> Nat]
    BY DEF Init, MuxInit
  <2>3. /\ to_task \in [End -> Seq(Events)] /\ cmds \in [End -> Seq(Commands)]
        /\ wire \in [End -> Seq(Packets)] /\ rbuf \in [End -> Seq(Nat)]
        /\ written \in [End -> Seq(Nat)]
    BY <2>1 DEF Init, MuxInit
  <2>4. credit \in [End -> Nat] /\ chan \in [End -> Entry \cup {NoChan}]
    BY <1>2, <1>3 DEF Init, MuxInit
  <2> QED  BY <2>2, <2>3, <2>4 DEF Typed
<1>5. DOMAIN <<>> = {} /\ Len(<<>>) = 0 /\ 1..0 = {}
  OBVIOUS
<1>6. ASSUME NEW e \in End PROVE PhaseOf(e)
  <2>1. Quiet(<<>>) /\ ~Has(<<>>, "close")
    BY <1>5 DEF Quiet, Has
  <2> QED  BY <1>1, <1>2, <1>5, <2>1, <1>6 DEF PhaseOf, Phase
<1>7. ASSUME NEW e \in End PROVE StreamOf(e, Peer(e))
  <2>1. Lane(<<>>, 0, 0, 0, FALSE)
    BY <1>5 DEF Lane, Run, EofLast, Has, DataAt
  <2>2. <<>> = [i \in 1..0 |-> i] /\ <<>> = [i \in 1..(0 - 0) |-> 0 + i]
    BY <1>5
  <2>3. ("reading" = "done") = FALSE
    OBVIOUS
  <2>4. Carried(<<>>, FALSE, <<>>, TRUE, <<>>, TRUE, <<>>, <<>>, 0, "reading", 0, 0, 0)
    BY <1>5, <2>1, <2>2, <2>3 DEF Carried
  <2>5. Stream(<<>>, FALSE, <<>>, TRUE, <<>>, TRUE, <<>>, <<>>, 0, "reading")
    BY <2>4 DEF Stream
  <2>6. /\ written[Peer(e)] = <<>> /\ shut[Peer(e)] = FALSE /\ to_task[Peer(e)] = <<>>
        /\ chan[Peer(e)].open = TRUE /\ wire[e] = <<>> /\ chan[e].open = TRUE /\ cmds[e] = <<>>
        /\ rbuf[e] = <<>> /\ got[e] = 0 /\ reader[e] = "reading"
    <3> DEFINE p == Peer(e)
    <3>1. p \in End
      BY <1>3, <1>7
    <3> HIDE DEF p
    <3>2. /\ written[p] = <<>> /\ shut[p] = FALSE /\ to_task[p] = <<>> /\ chan[p].open = TRUE
      BY <1>1, <1>2, <3>1
    <3>3. /\ wire[e] = <<>> /\ chan[e].open = TRUE /\ cmds[e] = <<>>
          /\ rbuf[e] = <<>> /\ got[e] = 0 /\ reader[e] = "reading"
      BY <1>1, <1>2, <1>7
    <3> QED  BY <3>2, <3>3 DEF p
  <2> QED  BY <2>5, <2>6, Zenon DEF StreamOf
<1>8. ASSUME NEW e \in End PROVE AccountOf(e, Peer(e))
  <2>1. Total(<<>>, "data") = 0 /\ Total(<<>>, "consumed") = 0 /\ Total(<<>>, "adjust") = 0
    BY TotalEmpty
  <2> DEFINE p == Peer(e)
  <2>2. /\ run[p] # "overflow" /\ chan[p].local_window = LocalWindow[p]
        /\ chan[p].pending_consumed = 0 /\ to_task[p] = <<>> /\ cmds[p] = <<>> /\ wire[p] = <<>>
        /\ wire[e] = <<>> /\ cmds[e] = <<>> /\ credit[e] = LocalWindow[p]
        /\ LocalWindow[p] \in Nat /\ WindowRefill[p] \in Nat \ {0}
    <3>1. p \in End
      BY <1>3, <1>8
    <3>2. wire[e] = <<>> /\ cmds[e] = <<>> /\ credit[e] = LocalWindow[p]
      BY <1>1, <1>8
    <3> HIDE DEF p
    <3>3. run[p] = "running" /\ to_task[p] = <<>> /\ cmds[p] = <<>> /\ wire[p] = <<>>
      BY <1>1, <3>1
    <3>4. /\ chan[p].local_window = LocalWindow[p] /\ chan[p].pending_consumed = 0
          /\ LocalWindow[p] \in Nat /\ WindowRefill[p] \in Nat \ {0}
      BY <1>1, <1>2, <3>1
    <3> QED  BY <3>2, <3>3, <3>4
  <2> HIDE DEF p
  <2>3. AccountOf(e, p)
    BY <2>1, <2>2 DEF AccountOf, Account
  <2> QED  BY <2>3 DEF p
<1> QED  BY <1>4, <1>6, <1>7, <1>8 DEF Inv

\* Every step of a task keeps the invariant ...
LEMMA TaskKeeps ==
    ASSUME Inv, NEW e \in End, Task(e)
    PROVE  Inv'
<1>1. CASE ReadSocket(e)  BY <1>1, ReadSocketKeeps
<1>2. CASE ReadEof(e)  BY <1>2, ReadEofKeeps
<1>3. CASE SendChunk(e)  BY <1>3, SendChunkKeeps
<1>4. CASE CreditClosed(e)  BY <1>4, CreditClosedKeeps
<1>5. CASE WriteSocket(e)  BY <1>5, WriteSocketKeeps
<1>6. CASE WriteFails(e) \/ StopWriter(e)  BY <1>6, WriterStops
<1>7. CASE ShutSocket(e)  BY <1>7, ShutSocketKeeps
<1>8. CASE Join(e)  BY <1>8, JoinKeeps
<1> QED  BY <1>1, <1>2, <1>3, <1>4, <1>5, <1>6, <1>7, <1>8 DEF Task

\* ... and so does every step of a loop.
LEMMA LoopKeeps ==
    ASSUME Inv, NEW e \in End, LoopStep(e)
    PROVE  Inv'
<1>0. UNCHANGED taskVars
  BY DEF LoopStep
<1>1. CASE OnPacket(e)
  <2> DEFINE h == Head(wire[Peer(e)])
  <2>1. Taking(e)
    BY <1>0, <1>1 DEF OnPacket, Taking
  <2>2. CASE OnData(e, h)  BY <2>1, <2>2, OnDataKeeps
  <2>3. CASE OnWindowAdjust(e, h)  BY <2>1, <2>3, OnWindowAdjustKeeps
  <2>4. CASE OnEvent(e, h)  BY <2>1, <2>4, OnEventKeeps
  <2>5. CASE OnChannelRequest(e, h)
    <3>1. h.type = "request"
      BY <2>5 DEF OnChannelRequest
    <3>2. h.type \in {"data", "adjust", "eof", "close", "disconnect"}
      BY <2>1, Taken
    <3> HIDE DEF h
    <3> QED  BY <3>1, <3>2
  <2>6. CASE OnClose(e, h)  BY <2>1, <2>6, OnCloseKeeps
  <2>7. CASE OnDisconnect(e, h)  BY <2>1, <2>7, OnDisconnectKeeps
  <2> QED  BY <1>1, <2>2, <2>3, <2>4, <2>5, <2>6, <2>7 DEF OnPacket
<1>2. CASE OnCmd(e)
  <2> DEFINE h == Head(cmds[e])
  <2>1. Handling(e)
    BY <1>0, <1>2 DEF OnCmd, Handling
  <2>2. CASE CmdSend(e, h)  BY <2>1, <2>2, CmdSendKeeps
  <2>3. CASE CmdEof(e, h)  BY <2>1, <2>3, CmdEofKeeps
  <2>4. CASE CmdClose(e, h)  BY <2>1, <2>4, CmdCloseKeeps
  <2>5. CASE CmdConsumed(e, h)  BY <2>1, <2>5, CmdConsumedKeeps
  <2> QED  BY <1>2, <2>2, <2>3, <2>4, <2>5 DEF OnCmd
<1>3. CASE PeerGone(e) \/ ConnectionFails(e)
  BY <1>0, <1>3, EndKeeps
<1> QED  BY <1>1, <1>2, <1>3 DEF LoopStep, Loop

\* The invariant is inductive.
LEMMA NextInv == Inv /\ [Next]_vars => Inv'
<1> SUFFICES ASSUME Inv, [Next]_vars PROVE Inv'
  OBVIOUS
<1>1. CASE Next
  <2>1. PICK e \in End : Task(e) \/ LoopStep(e)
    BY <1>1 DEF Next
  <2> QED  BY <2>1, TaskKeeps, LoopKeeps
<1>2. CASE UNCHANGED vars
  BY <1>2 DEF vars, loopVars, taskVars, Inv, Typed, PhaseOf, StreamOf, AccountOf
<1> QED  BY <1>1, <1>2

\* In every reachable state of a forwarded channel both streams are carried
\* whole through the queues of forward_task and the connection loop, both
\* windows are accounted for and the close handshake is in order.
THEOREM ChannelInvariant == Spec => []Inv
BY InitInv, NextInv, PTL DEF Spec

\* Whatever the tasks, the loops, a failing socket and the close handshake do
\* meanwhile: what forward_task writes to a socket is a prefix of what the other
\* end read, a half-close comes after all of it, and nothing but a disconnect
\* follows a CHANNEL_CLOSE.
THEOREM Intact == Spec => []StreamsIntact
<1>1. Inv => StreamsIntact
  <2> SUFFICES ASSUME Inv PROVE StreamsIntact
    OBVIOUS
  <2>1. QuietAfterClose
    BY DEF Inv, PhaseOf, Phase, Quiet, QuietAfterClose
  <2>2. ASSUME NEW e \in End
        PROVE  /\ written[e] = [i \in 1..Len(written[e]) |-> i]
               /\ shut[e] => Len(written[e]) = got[Peer(e)]
    <3>1. Peer(e) \in End /\ Peer(Peer(e)) = e
      BY TwoEnds
    <3>2. StreamOf(Peer(e), e)
      BY <3>1 DEF Inv
    <3> QED  BY <3>2 DEF StreamOf, Stream, Carried
  <2> QED  BY <2>1, <2>2 DEF StreamsIntact
<1> QED  BY <1>1, ChannelInvariant, PTL

-----------------------------------------------------------------------------
(* Each direction implements module Window.                                *)

\* The direction from s, as a function of its sender.
Flow(s) == INSTANCE Window WITH
    LocalWindow <- LocalWindow[Peer(s)], WindowRefill <- WindowRefill[Peer(s)],
    MaxChunk <- remote_max(s),
    open <- Both, credit <- Permits(s), inflight <- Inflight(s),
    local_window <- While(chan[Peer(s)].local_window),
    unread <- Unread(Peer(s)), consumed <- Consumed(Peer(s)),
    pending_consumed <- While(chan[Peer(s)].pending_consumed),
    adjusting <- Adjusting(Peer(s)), overflowed <- (run[Peer(s)] = "overflow")

\* What is in flight and what is unread follow from the other amounts.
Balance(s, r) ==
    /\ credit[s] \in Nat /\ Total(wire[r], "adjust") \in Nat /\ Total(cmds[r], "consumed") \in Nat
    /\ chan[r].local_window \in Nat /\ chan[r].pending_consumed \in Nat
    /\ Inflight(s) \in Nat /\ Unread(r) \in Nat
    /\ Permits(s) = credit[s] /\ Adjusting(r) = Total(wire[r], "adjust")
    /\ Consumed(r) = Total(cmds[r], "consumed")
    /\ While(chan[r].local_window) = chan[r].local_window
    /\ While(chan[r].pending_consumed) = chan[r].pending_consumed
    /\ chan[r].local_window = credit[s] + Inflight(s) + Total(wire[r], "adjust")
    /\ chan[r].local_window + Unread(r) + Total(cmds[r], "consumed") + chan[r].pending_consumed
         = LocalWindow[r]

\* While one end has no channel there is nothing to account for.
Vacant(s, r) ==
    /\ Permits(s) = 0 /\ Inflight(s) = 0 /\ While(chan[r].local_window) = 0 /\ Unread(r) = 0
    /\ Consumed(r) = 0 /\ While(chan[r].pending_consumed) = 0 /\ Adjusting(r) = 0

Accounted(s, r) ==
    /\ Both \in BOOLEAN
    /\ Both => Balance(s, r)
    /\ ~Both => Vacant(s, r)
    /\ (run[r] = "overflow") = FALSE
AllAccounted == \A s, r \in End : s # r => Accounted(s, r)

\* The invariant accounts for both directions ...
LEMMA Balanced == Inv => AllAccounted
<1> SUFFICES ASSUME NEW s \in End, NEW r \in End, Inv, s # r
             PROVE  Accounted(s, r)
  BY DEF AllAccounted
<1>1. r = Peer(s)
  BY TwoEnds
<1>2. AccountOf(s, r)
  BY <1>1 DEF Inv
<1>3. (run[r] = "overflow") = FALSE
  BY <1>2 DEF AccountOf, Account
<1>4. Both \in BOOLEAN
  BY DEF Both
<1>5. ASSUME Both PROVE Balance(s, r)
  <2> DEFINE d == Total(cmds[s], "data")  x == Total(wire[s], "data")
             a == Total(wire[r], "adjust")  t == Total(to_task[r], "data")
             u == Total(cmds[r], "consumed")  k == credit[s]
             l == chan[r].local_window  b == chan[r].pending_consumed
  <2>1. chan[s].open /\ chan[r].open
    BY <1>5 DEF Both
  <2>2. /\ d \in Nat /\ x \in Nat /\ a \in Nat /\ t \in Nat /\ u \in Nat /\ k \in Nat
        /\ l \in Nat /\ b \in Nat
    BY <2>1, Types, TotalNat, EntryFacts
  <2>3. l = k + d + x + a /\ l + t + u + b = LocalWindow[r]
    BY <1>2, <2>1 DEF AccountOf, Account
  <2>4. /\ Permits(s) = k /\ Inflight(s) = d + x /\ Unread(r) = t /\ Consumed(r) = u
        /\ Adjusting(r) = a /\ While(l) = l /\ While(b) = b
    BY <1>5 DEF Permits, Inflight, Unread, Consumed, Adjusting, While
  <2> HIDE DEF d, x, a, t, u, k, l, b
  <2>5. d + x \in Nat /\ l = k + (d + x) + a
    BY <2>2, <2>3
  <2> QED  BY <2>2, <2>3, <2>4, <2>5 DEF Balance, a, u, k, l, b
<1>6. ASSUME ~Both PROVE Vacant(s, r)
  BY <1>6 DEF Vacant, Permits, Inflight, Unread, Consumed, Adjusting, While
<1> QED  BY <1>3, <1>4, <1>5, <1>6 DEF Accounted

\* ... after a step as well.
LEMMA BalancedNext == Inv' => AllAccounted'
BY Balanced, PTL

\* The amounts that do not follow, after a step.
Shift(s, r, k, a, u, l, b) ==
    /\ credit'[s] = k
    /\ Total(wire'[r], "adjust") = a
    /\ Total(cmds'[r], "consumed") = u
    /\ chan'[r].local_window = l
    /\ chan'[r].pending_consumed = b

\* The steps of one direction: nothing, Reserve, Deliver, Consume, Replenish
\* and Grant.
Moves(s, r) ==
    LET k == credit[s]  a == Total(wire[r], "adjust")  u == Total(cmds[r], "consumed")
        l == chan[r].local_window  b == chan[r].pending_consumed
    IN  \/ Shift(s, r, k, a, u, l, b)
        \/ \E n \in 1..Packet :
             \/ Shift(s, r, k - n, a, u, l, b)
             \/ Shift(s, r, k, a, u, l - n, b)
             \/ Shift(s, r, k, a, u + n, l, b)
             \/ b + n >= WindowRefill[r] /\ Shift(s, r, k, a + (b + n), u - n, l + (b + n), 0)
             \/ b + n < WindowRefill[r] /\ Shift(s, r, k, a, u - n, l, b + n)
        \/ \E n \in Nat \ {0} : Shift(s, r, k + n, a - n, u, l, b)

FlowStep(s) == [Flow(s)!WindowNext]_(Flow(s)!windowVars)

\* Such a move of the amounts is a step of module Window.
LEMMA MovesFlow ==
    ASSUME Inv, Inv', NEW s \in End, Both, Both', Moves(s, Peer(s))
    PROVE  FlowStep(s)
<1> DEFINE r == Peer(s)
<1>1. r \in End /\ r # s /\ remote_max(s) = Packet /\ Packet \in Nat \ {0}
      /\ LocalWindow[r] \in Nat /\ Ceiling \in Nat /\ LocalWindow[r] <= Ceiling
      /\ WindowRefill[r] \in Nat \ {0}
  BY TwoEnds, PacketSize, MuxAssumption
<1>2. Balance(s, r) /\ Balance(s, r)'
  BY <1>1, Balanced, BalancedNext DEF AllAccounted, Accounted
<1>3. ((run[r] = "overflow") = FALSE) /\ ((run[r] = "overflow") = FALSE)'
  BY <1>1, Balanced, BalancedNext DEF AllAccounted, Accounted
<1> DEFINE W == LocalWindow[r]
           k == credit[s]  a == Total(wire[r], "adjust")  u == Total(cmds[r], "consumed")
           l == chan[r].local_window  b == chan[r].pending_consumed
           f == Inflight(s)  t == Unread(r)
           kk == credit'[s]  aa == Total(wire'[r], "adjust")  uu == Total(cmds'[r], "consumed")
           ll == chan'[r].local_window  bb == chan'[r].pending_consumed
           ff == Inflight(s)'  tt == Unread(r)'
<1>4. /\ k \in Nat /\ a \in Nat /\ u \in Nat /\ l \in Nat /\ b \in Nat /\ f \in Nat /\ t \in Nat
      /\ l = k + f + a /\ l + t + u + b = W
  BY <1>2 DEF Balance
<1>5. /\ kk \in Nat /\ aa \in Nat /\ uu \in Nat /\ ll \in Nat /\ bb \in Nat /\ ff \in Nat /\ tt \in Nat
      /\ ll = kk + ff + aa /\ ll + tt + uu + bb = W
  BY <1>2 DEF Balance
<1>6. /\ Permits(s) = k /\ Permits(s)' = kk /\ Adjusting(r) = a /\ Adjusting(r)' = aa
      /\ Consumed(r) = u /\ Consumed(r)' = uu
      /\ While(chan[r].local_window) = l /\ While(chan[r].local_window)' = ll
      /\ While(chan[r].pending_consumed) = b /\ While(chan[r].pending_consumed)' = bb
  BY <1>2 DEF Balance
<1> HIDE DEF W, k, a, u, l, b, f, t, kk, aa, uu, ll, bb, ff, tt
<1> DEFINE same == /\ Both' = Both /\ (run[r] = "overflow")' = (run[r] = "overflow")
<1>7. same
  BY <1>3
<1>8. CASE Shift(s, r, k, a, u, l, b)
  <2>1. kk = k /\ aa = a /\ uu = u /\ ll = l /\ bb = b
    BY <1>8 DEF Shift, kk, aa, uu, ll, bb
  <2>2. ff = f /\ tt = t
    BY <1>4, <1>5, <2>1
  <2> QED  BY <1>6, <1>7, <2>1, <2>2 DEF FlowStep, Flow!windowVars, f, t, ff, tt
<1>9. ASSUME NEW n \in 1..Packet, Shift(s, r, k - n, a, u, l, b)
      PROVE  FlowStep(s)
  <2>1. kk = k - n /\ aa = a /\ uu = u /\ ll = l /\ bb = b
    BY <1>9 DEF Shift, kk, aa, uu, ll, bb
  <2>2. ff = f + n /\ tt = t /\ n <= k
    BY <1>1, <1>4, <1>5, <2>1
  <2>3. Flow(s)!Reserve(n)
    BY <1>6, <1>7, <2>1, <2>2 DEF Flow!Reserve, f, t, ff, tt
  <2> QED  BY <1>1, <2>3 DEF FlowStep, Flow!WindowNext
<1>10. ASSUME NEW n \in 1..Packet, Shift(s, r, k, a, u, l - n, b)
       PROVE  FlowStep(s)
  <2>1. kk = k /\ aa = a /\ uu = u /\ ll = l - n /\ bb = b
    BY <1>10 DEF Shift, kk, aa, uu, ll, bb
  <2>2. ff = f - n /\ tt = t + n /\ n <= f /\ n <= l
    BY <1>1, <1>4, <1>5, <2>1
  <2>3. Flow(s)!Deliver(n)
    BY <1>6, <1>7, <2>1, <2>2 DEF Flow!Deliver, f, t, ff, tt
  <2> QED  BY <1>1, <2>3 DEF FlowStep, Flow!WindowNext
<1>11. ASSUME NEW n \in 1..Packet, Shift(s, r, k, a, u + n, l, b)
       PROVE  FlowStep(s)
  <2>1. kk = k /\ aa = a /\ uu = u + n /\ ll = l /\ bb = b
    BY <1>11 DEF Shift, kk, aa, uu, ll, bb
  <2>2. ff = f /\ tt = t - n /\ n <= t
    BY <1>1, <1>4, <1>5, <2>1
  <2>3. Flow(s)!Consume(n)
    BY <1>6, <1>7, <2>1, <2>2 DEF Flow!Consume, f, t, ff, tt
  <2> QED  BY <1>1, <2>3 DEF FlowStep, Flow!WindowNext
<1>12. ASSUME NEW n \in 1..Packet, b + n >= WindowRefill[r],
              Shift(s, r, k, a + (b + n), u - n, l + (b + n), 0)
       PROVE  FlowStep(s)
  <2>1. kk = k /\ aa = a + (b + n) /\ uu = u - n /\ ll = l + (b + n) /\ bb = 0
    BY <1>12 DEF Shift, kk, aa, uu, ll, bb
  <2>2. ff = f /\ tt = t /\ n <= u
    BY <1>1, <1>4, <1>5, <2>1
  <2>3. Flow(s)!Replenish(n)
    BY <1>6, <1>7, <1>12, <2>1, <2>2
    DEF Flow!Replenish, Flow!RefillDue, Flow!Batch, f, t, ff, tt
  <2> QED  BY <1>1, <2>3 DEF FlowStep, Flow!WindowNext
<1>13. ASSUME NEW n \in 1..Packet, b + n < WindowRefill[r], Shift(s, r, k, a, u - n, l, b + n)
       PROVE  FlowStep(s)
  <2>1. kk = k /\ aa = a /\ uu = u - n /\ ll = l /\ bb = b + n
    BY <1>13 DEF Shift, kk, aa, uu, ll, bb
  <2>2. ff = f /\ tt = t /\ n <= u /\ ~(b + n >= WindowRefill[r])
    BY <1>1, <1>4, <1>5, <1>13, <2>1
  <2>3. Flow(s)!Replenish(n)
    BY <1>6, <1>7, <2>1, <2>2 DEF Flow!Replenish, Flow!RefillDue, Flow!Batch, f, t, ff, tt
  <2> QED  BY <1>1, <2>3 DEF FlowStep, Flow!WindowNext
<1>14. ASSUME NEW n \in Nat \ {0}, Shift(s, r, k + n, a - n, u, l, b)
       PROVE  FlowStep(s)
  <2>1. kk = k + n /\ aa = a - n /\ uu = u /\ ll = l /\ bb = b
    BY <1>14 DEF Shift, kk, aa, uu, ll, bb
  <2>2. /\ ff = f /\ tt = t /\ n <= a /\ n \in 1..W /\ k + n <= Ceiling
    <3>1. W \in Nat /\ W <= Ceiling
      BY <1>1 DEF W
    <3> QED  BY <1>1, <1>4, <1>5, <2>1, <3>1
  <2>3. Flow(s)!Grant(n)
    BY <1>6, <1>7, <2>1, <2>2 DEF Flow!Grant, f, t, ff, tt
  <2> QED  BY <2>2, <2>3 DEF FlowStep, Flow!WindowNext, W
<1> QED
  <2>1. \/ Shift(s, r, k, a, u, l, b)
        \/ \E n \in 1..Packet :
             \/ Shift(s, r, k - n, a, u, l, b)
             \/ Shift(s, r, k, a, u, l - n, b)
             \/ Shift(s, r, k, a, u + n, l, b)
             \/ b + n >= WindowRefill[r] /\ Shift(s, r, k, a + (b + n), u - n, l + (b + n), 0)
             \/ b + n < WindowRefill[r] /\ Shift(s, r, k, a, u - n, l, b + n)
        \/ \E n \in Nat \ {0} : Shift(s, r, k + n, a - n, u, l, b)
    BY Zenon DEF Moves, k, a, u, l, b
  <2> HIDE DEF r
  <2> QED  BY <1>8, <1>9, <1>10, <1>11, <1>12, <1>13, <1>14, <2>1, Zenon

\* A step of e as both directions see it: it keeps them moving, or ends them.
Steps(e) ==
    LET p == Peer(e) IN
    /\ Both' => Both
    /\ Both /\ Both' => Moves(e, p) /\ Moves(p, e)

\* What a step of e does is a step of module Window in both directions.
LEMMA StepsFlow ==
    ASSUME Inv, Inv', NEW e \in End, Steps(e), NEW s \in End
    PROVE  FlowStep(s)
<1> DEFINE r == Peer(s)
<1>1. r \in End /\ s # r
  BY TwoEnds
<1>2. Accounted(s, r) /\ Accounted(s, r)'
  BY <1>1, Balanced, BalancedNext DEF AllAccounted
<1>3. CASE Both /\ Both'
  <2>1. Moves(s, r)
    <3>1. Moves(e, Peer(e)) /\ Moves(Peer(e), e)
      BY <1>3, Zenon DEF Steps
    <3>2. s = e \/ (s = Peer(e) /\ r = e)
      BY TwoEnds
    <3> QED  BY <3>1, <3>2
  <2> QED  BY <1>3, <2>1, MovesFlow
<1>4. CASE ~Both
  <2>1. ~Both'
    BY <1>4 DEF Steps
  <2>2. Vacant(s, r) /\ Vacant(s, r)'
    BY <1>2, <1>4, <2>1 DEF Accounted
  <2>3. (run[r] = "overflow")' = (run[r] = "overflow") /\ Both' = Both
    BY <1>2, <1>4, <2>1 DEF Accounted
  <2> QED  BY <2>2, <2>3 DEF FlowStep, Flow!windowVars, Vacant
<1>5. CASE Both /\ ~Both'
  <2>1. Vacant(s, r)'
    BY <1>2, <1>5 DEF Accounted
  <2>2. (run[r] = "overflow")' = (run[r] = "overflow") /\ Both' = FALSE
    BY <1>2, <1>5 DEF Accounted
  <2>3. Flow(s)!Teardown
    BY <1>5, <2>1, <2>2 DEF Flow!Teardown, Vacant
  <2> QED  BY <2>3 DEF FlowStep, Flow!WindowNext
<1> QED  BY <1>3, <1>4, <1>5

\* What a step of e leaves alone, and what it may change of either direction.
LEMMA StepsBy ==
    ASSUME NEW e \in End,
           chan'[Peer(e)] = chan[Peer(e)],
           chan'[e].open => chan[e].open,
           Both => (Both' => Moves(e, Peer(e)) /\ Moves(Peer(e), e))
    PROVE  Steps(e)
<1> DEFINE p == Peer(e)
<1>1. p \in End /\ \A f \in End : f = e \/ f = p
  BY TwoEnds
<1>2. Both' => Both
  <2> SUFFICES ASSUME Both', NEW f \in End PROVE chan[f].open
    BY DEF Both
  <2>1. chan'[e].open /\ chan'[p].open
    BY <1>1 DEF Both
  <2> QED  BY <1>1, <2>1
<1> QED  BY <1>2 DEF Steps

\* A step that touches no amount.
LEMMA IdleSteps ==
    ASSUME Inv, NEW e \in End, UNCHANGED <<chan, credit, cmds, wire>>
    PROVE  Steps(e)
<1> DEFINE p == Peer(e)
<1>1. Moves(e, p) /\ Moves(p, e)
  BY DEF Moves, Shift
<1>2. Both' = Both
  BY DEF Both
<1> QED  BY <1>1, <1>2 DEF Steps

\* A command more, while the loop runs.
LEMMA CommandCounted ==
    ASSUME Inv, NEW e \in End, NEW m \in Messages, Command(e, <<m>>), chan[e].open
    PROVE  /\ cmds'[Peer(e)] = cmds[Peer(e)]
           /\ Total(cmds'[e], "consumed") =
                IF m.type = "consumed" THEN Total(cmds[e], "consumed") + m.n
                                       ELSE Total(cmds[e], "consumed")
<1>1. up(e)
  BY DEF Inv, PhaseOf, Phase, up
<1>2. Peer(e) \in End /\ Peer(e) # e
  BY TwoEnds
<1>3. cmds' = [cmds EXCEPT ![e] = cmds[e] \o <<m>>]
  BY <1>1 DEF Command
<1>4. cmds'[Peer(e)] = cmds[Peer(e)] /\ cmds'[e] = cmds[e] \o <<m>>
  BY <1>2, <1>3 DEF Inv, Typed
<1>5. cmds[e] \in Seq(Messages)
  BY Types
<1> QED  BY <1>4, <1>5, MoreTotals

\* ReadEof, Join: an Eof or a Close carries no amount.
LEMMA AskSteps ==
    ASSUME Inv, NEW e \in End, NEW m \in Messages, m.type \in {"eof", "close"},
           Command(e, <<m>>), UNCHANGED <<chan, credit, wire>>
    PROVE  Steps(e)
<1> DEFINE p == Peer(e)
<1>1. ASSUME Both PROVE Moves(e, p) /\ Moves(p, e)
  <2>1. chan[e].open
    BY <1>1 DEF Both
  <2>2. cmds'[p] = cmds[p] /\ Total(cmds'[e], "consumed") = Total(cmds[e], "consumed")
    BY <2>1, CommandCounted
  <2> QED  BY <2>2 DEF Moves, Shift
<1> QED  BY <1>1, StepsBy

\* SendChunk is Reserve.
LEMMA SendChunkSteps ==
    ASSUME Inv, NEW e \in End, SendChunk(e)
    PROVE  Steps(e)
<1> DEFINE p == Peer(e)  k == Chunk(e)  m == Bytes("data", SubSeq(rbuf[e], 1, k))
<1>1. p \in End /\ p # e
  BY TwoEnds
<1>2. rbuf[e] \in Seq(Nat) /\ rbuf[e] # <<>> /\ reader[e] = "sending"
  <2>1. reader[e] = "sending"
    BY DEF SendChunk
  <2> QED  BY <2>1, Types DEF Inv, PhaseOf, Phase
<1>3. k \in 1..Packet /\ k \in 1..Len(rbuf[e])
  <2>1. Len(rbuf[e]) \in Nat \ {0}
    BY <1>2
  <2>2. remote_max(e) = Packet /\ Packet \in Nat \ {0}
    BY PacketSize
  <2>3. k = IF Len(rbuf[e]) <= Packet THEN Len(rbuf[e]) ELSE Packet
    BY <2>1, <2>2, SmallerOf DEF Chunk
  <2> QED  BY <2>1, <2>2, <2>3
<1>4. m \in Messages /\ m.type = "data"
  <2>1. SubSeq(rbuf[e], 1, k) \in Seq(Nat) /\ Len(SubSeq(rbuf[e], 1, k)) = k
    BY <1>2, <1>3
  <2>2. m \in Data /\ m.type = "data"
    BY <1>3, <2>1 DEF Data, Bytes
  <2> QED  BY <2>2 DEF Messages, Commands
<1>5. /\ credit' = [credit EXCEPT ![e] = @ - k] /\ Command(e, <<m>>) /\ UNCHANGED <<chan, wire>>
  BY DEF SendChunk, Spend
<1> HIDE DEF k, m
<1>6. credit'[p] = credit[p] /\ credit'[e] = credit[e] - k
  BY <1>1, <1>5 DEF Inv, Typed
<1>7. ASSUME Both PROVE Moves(e, p) /\ Moves(p, e)
  <2>1. chan[e].open
    BY <1>7 DEF Both
  <2>2. cmds'[p] = cmds[p] /\ Total(cmds'[e], "consumed") = Total(cmds[e], "consumed")
    BY <1>4, <1>5, <2>1, CommandCounted
  <2>3. Moves(p, e)
    BY <1>5, <1>6, <2>2 DEF Moves, Shift
  <2>4. Moves(e, p)
    <3>1. Shift(e, p, credit[e] - k, Total(wire[p], "adjust"), Total(cmds[p], "consumed"),
                chan[p].local_window, chan[p].pending_consumed)
      BY <1>5, <1>6, <2>2 DEF Shift
    <3> QED  BY <1>3, <3>1 DEF Moves
  <2> QED  BY <2>3, <2>4
<1> QED  BY <1>5, <1>7, StepsBy

\* WriteSocket is Consume, in the other direction.
LEMMA WriteSocketSteps ==
    ASSUME Inv, NEW e \in End, WriteSocket(e)
    PROVE  Steps(e)
<1> DEFINE p == Peer(e)  h == Head(to_task[e])  n == Len(h.bytes)  m == Amount("consumed", n)
<1>1. p \in End /\ p # e
  BY TwoEnds
<1>2. h.type = "data" /\ to_task[e] # <<>> /\ Command(e, <<m>>) /\ UNCHANGED <<chan, credit, wire>>
  BY DEF WriteSocket, NextEvent, HasEvent
<1>3. n \in 1..Packet
  <2>1. h \in Messages
    BY <1>2, Types, OneLess
  <2> HIDE DEF h
  <2> QED  BY <1>2, <2>1, MessageFacts
<1>4. m \in Messages /\ m.type = "consumed" /\ m.n = n
  <2> HIDE DEF n
  <2> QED  BY <1>3 DEF Amount, Messages, Commands
<1> HIDE DEF n, m
<1>5. ASSUME Both PROVE Moves(e, p) /\ Moves(p, e)
  <2>1. chan[e].open
    BY <1>5 DEF Both
  <2>2. cmds'[p] = cmds[p] /\ Total(cmds'[e], "consumed") = Total(cmds[e], "consumed") + n
    BY <1>2, <1>4, <2>1, CommandCounted
  <2>3. Moves(e, p)
    BY <1>2, <2>2 DEF Moves, Shift
  <2>4. Moves(p, e)
    <3>1. Shift(p, e, credit[p], Total(wire[e], "adjust"), Total(cmds[e], "consumed") + n,
                chan[e].local_window, chan[e].pending_consumed)
      BY <1>2, <2>2 DEF Shift
    <3> QED  BY <1>3, <3>1 DEF Moves
  <2> QED  BY <2>3, <2>4
<1> QED  BY <1>2, <1>5, StepsBy

\* Every step of a task.
LEMMA TaskSteps ==
    ASSUME Inv, NEW e \in End, Task(e)
    PROVE  Steps(e)
<1>1. CASE ReadSocket(e) \/ CreditClosed(e) \/ WriteFails(e) \/ StopWriter(e) \/ ShutSocket(e)
  <2>1. UNCHANGED <<chan, credit, cmds, wire>>
    BY <1>1 DEF ReadSocket, CreditClosed, WriteFails, StopWriter, ShutSocket, loopVars
  <2> QED  BY <2>1, IdleSteps
<1>2. CASE ReadEof(e)
  <2>1. Command(e, <<Plain("eof")>>) /\ UNCHANGED <<chan, credit, wire>>
    BY <1>2 DEF ReadEof
  <2> QED  BY <2>1, PlainMessages, AskSteps DEF Messages
<1>3. CASE Join(e)
  <2>1. Command(e, <<Plain("close")>>) /\ UNCHANGED <<chan, credit, wire>>
    BY <1>3 DEF Join
  <2> QED  BY <2>1, PlainMessages, AskSteps DEF Messages
<1>4. CASE SendChunk(e)  BY <1>4, SendChunkSteps
<1>5. CASE WriteSocket(e)  BY <1>5, WriteSocketSteps
<1> QED  BY <1>1, <1>2, <1>3, <1>4, <1>5 DEF Task

\* A packet less, of which e's credit may have come.
LEMMA PacketCounted ==
    ASSUME Inv, NEW e \in End, Taking(e), NEW sent, Took(e, sent)
    PROVE  LET p == Peer(e)  h == Head(wire[p]) IN
           /\ wire'[e] = wire[e] \o sent
           /\ Total(wire[p], "adjust") \in Nat /\ Total(wire'[p], "adjust") \in Nat
           /\ Total(wire[p], "adjust") =
                IF h.type = "adjust" THEN Total(wire'[p], "adjust") + h.n
                                     ELSE Total(wire'[p], "adjust")
<1> DEFINE p == Peer(e)  h == Head(wire[p])  q == Tail(wire[p])
<1>1. p \in End /\ p # e
  BY TwoEnds
<1>2. wire[p] \in Seq(Messages) /\ wire[p] # <<>>
  BY <1>1, Types DEF Taking
<1>3. wire'[e] = wire[e] \o sent /\ wire'[p] = q
  BY <1>1 DEF Took, Inv, Typed
<1>4. Total(wire[p], "adjust") \in Nat
  BY <1>2, TotalNat
<1>5. /\ Total(q, "adjust") \in Nat
      /\ Total(wire[p], "adjust") =
           IF h.type = "adjust" THEN Total(q, "adjust") + h.n ELSE Total(q, "adjust")
  BY <1>2, LessTotals
<1> QED  BY <1>3, <1>4, <1>5

\* OnData is Deliver, and never an overflow.
LEMMA OnDataSteps ==
    ASSUME Inv, Inv', NEW e \in End, Taking(e), OnData(e, Head(wire[Peer(e)]))
    PROVE  Steps(e)
<1> DEFINE p == Peer(e)  h == Head(wire[p])  n == Len(h.bytes)
<1>1. p \in End /\ p # e
  BY TwoEnds
<1>2. h.type \in {"data", "ext"} /\ Took(e, <<>>) /\ UNCHANGED credit
  BY Zenon DEF OnData
<1>3. h.type = "data" /\ n \in 1..Packet
  <2>1. h \in Messages /\ h.type \in {"data", "adjust", "eof", "close", "disconnect"}
    BY Taken
  <2> HIDE DEF h
  <2>2. h.type = "data"
    BY <1>2, <2>1
  <2> QED  BY <2>1, <2>2, MessageFacts
<1>4. wire'[e] = wire[e] /\ Total(wire'[p], "adjust") = Total(wire[p], "adjust")
  <2>1. wire[e] \o <<>> = wire[e]
    BY Types
  <2> HIDE DEF h
  <2> QED  BY <1>2, <1>3, <2>1, PacketCounted DEF h
<1>5. CASE chan[e].open = FALSE
  <2>1. UNCHANGED chan
    BY <1>5 DEF OnData
  <2>2. ~Both
    BY <1>5 DEF Both
  <2> QED  BY <2>1, <2>2, StepsBy
<1>6. CASE chan[e].open = TRUE
  <2>1. chan[e] \in Entry /\ chan[e].local_window \in Nat
    BY <1>6, Types, EntryFacts
  <2>2. CASE n <= chan[e].local_window
    <3>1. chan' = [chan EXCEPT ![e].local_window = chan[e].local_window - n] /\ UNCHANGED cmds
      BY <1>6, <2>2 DEF OnData, WindowLeft
    <3>2. /\ chan'[p] = chan[p] /\ chan'[e].local_window = chan[e].local_window - n
          /\ chan'[e].pending_consumed = chan[e].pending_consumed
      <4> HIDE DEF n
      <4> QED  BY <1>1, <2>1, <3>1 DEF Inv, Typed, Entry
    <3> HIDE DEF n
    <3>3. Moves(e, p)
      BY <1>2, <1>4, <3>1, <3>2 DEF Moves, Shift
    <3>4. Moves(p, e)
      <4>1. Shift(p, e, credit[p], Total(wire[e], "adjust"), Total(cmds[e], "consumed"),
                  chan[e].local_window - n, chan[e].pending_consumed)
        BY <1>2, <1>4, <3>1, <3>2 DEF Shift
      <4> QED  BY <1>3, <4>1 DEF Moves
    <3> QED  BY <1>6, <3>2, <3>3, <3>4, StepsBy
  <2>3. CASE ~(n <= chan[e].local_window)
    <3>1. run' = [run EXCEPT ![e] = "overflow"]
      BY <1>6, <2>3 DEF OnData, Dropped
    <3>2. run'[e] = "overflow"
      BY <3>1 DEF Inv, Typed
    <3>3. AccountOf(p, e)'
      BY <1>1, TwoEnds DEF Inv
    <3> QED  BY <3>2, <3>3 DEF AccountOf, Account
  <2> QED  BY <2>2, <2>3
<1> QED
  <2>1. chan[e].open \in BOOLEAN
    BY Types
  <2> QED  BY <1>5, <1>6, <2>1

\* OnWindowAdjust is Grant.
LEMMA OnWindowAdjustSteps ==
    ASSUME Inv, Inv', NEW e \in End, Taking(e), OnWindowAdjust(e, Head(wire[Peer(e)]))
    PROVE  Steps(e)
<1> DEFINE p == Peer(e)  h == Head(wire[p])  n == h.n
<1>1. p \in End /\ p # e
  BY TwoEnds
<1>2. h.type = "adjust" /\ Took(e, <<>>) /\ UNCHANGED <<chan, cmds>>
  BY Zenon DEF OnWindowAdjust
<1>3. n \in Nat \ {0}
  <2>1. h \in Messages
    BY Taken
  <2> HIDE DEF h
  <2> QED  BY <1>2, <2>1, MessageFacts
<1>4. /\ wire'[e] = wire[e] /\ Total(wire[p], "adjust") = Total(wire'[p], "adjust") + n
      /\ Total(wire'[p], "adjust") \in Nat
  <2>1. wire[e] \o <<>> = wire[e]
    BY Types
  <2> HIDE DEF h
  <2> QED  BY <1>2, <2>1, PacketCounted DEF h
<1>5. ASSUME Both PROVE Moves(e, p) /\ Moves(p, e)
  <2>1. chan[e].open
    BY <1>5 DEF Both
  <2>2. Balance(e, p)
    BY <1>1, <1>5, Balanced DEF AllAccounted, Accounted
  <2>3. credit[e] + n <= Ceiling /\ credit[e] + n \in Nat
    <3> DEFINE k == credit[e]  a == Total(wire[p], "adjust")  aa == Total(wire'[p], "adjust")
               l == chan[p].local_window  f == Inflight(e)  t == Unread(p)
               u == Total(cmds[p], "consumed")  b == chan[p].pending_consumed
               W == LocalWindow[p]
    <3>1. /\ k \in Nat /\ a \in Nat /\ l \in Nat /\ f \in Nat /\ t \in Nat /\ u \in Nat /\ b \in Nat
          /\ l = k + f + a /\ l + t + u + b = W
      BY <2>2 DEF Balance
    <3>2. a = aa + n /\ aa \in Nat
      BY <1>4
    <3>3. W \in Nat /\ W <= Ceiling /\ Ceiling \in Nat
      BY <1>1, MuxAssumption
    <3> HIDE DEF k, a, aa, l, f, t, u, b, W, n
    <3>4. k + n <= Ceiling /\ k + n \in Nat
      BY <1>3, <3>1, <3>2, <3>3
    <3> QED  BY <3>4 DEF k
  <2>4. Smaller(credit[e] + n, Ceiling) = credit[e] + n
    BY <2>3, MuxAssumption, SmallerOf
  <2>5. credit' = [credit EXCEPT ![e] = credit[e] + n]
    BY <2>1, <2>4 DEF OnWindowAdjust
  <2> HIDE DEF n
  <2>6. credit'[p] = credit[p] /\ credit'[e] = credit[e] + n
    BY <1>1, <2>5 DEF Inv, Typed
  <2>7. Moves(p, e)
    BY <1>2, <1>4, <2>6 DEF Moves, Shift
  <2>8. Moves(e, p)
    <3>1. Total(wire'[p], "adjust") = Total(wire[p], "adjust") - n
      BY <1>3, <1>4
    <3>2. Shift(e, p, credit[e] + n, Total(wire[p], "adjust") - n, Total(cmds[p], "consumed"),
                chan[p].local_window, chan[p].pending_consumed)
      BY <1>2, <2>6, <3>1 DEF Shift
    <3> QED  BY <1>3, <3>2 DEF Moves
  <2> QED  BY <2>7, <2>8
<1> QED  BY <1>2, <1>5, StepsBy

\* OnEvent moves no amount.
LEMMA OnEventSteps ==
    ASSUME Inv, NEW e \in End, Taking(e), OnEvent(e, Head(wire[Peer(e)]))
    PROVE  Steps(e)
<1> DEFINE p == Peer(e)  h == Head(wire[p])
<1>1. h.type \in {"eof", "reply"} /\ Took(e, <<>>) /\ UNCHANGED <<chan, credit, cmds>>
  BY Zenon DEF OnEvent
<1>2. wire'[e] = wire[e] /\ Total(wire'[p], "adjust") = Total(wire[p], "adjust")
  <2>1. wire[e] \o <<>> = wire[e]
    BY Types
  <2>2. h.type # "adjust"
    <3> HIDE DEF h
    <3> QED  BY <1>1
  <2> HIDE DEF h
  <2> QED  BY <1>1, <2>1, <2>2, PacketCounted DEF h
<1>3. Moves(e, p) /\ Moves(p, e)
  BY <1>1, <1>2 DEF Moves, Shift
<1> QED  BY <1>1, <1>3, StepsBy

\* The entry of e is gone: nothing flows.
LEMMA GoneSteps ==
    ASSUME NEW e \in End, Typed, chan' = [chan EXCEPT ![e] = NoChan]
    PROVE  Steps(e)
<1>1. Peer(e) \in End /\ Peer(e) # e
  BY TwoEnds
<1>2. chan'[e] = NoChan /\ chan'[Peer(e)] = chan[Peer(e)]
  BY <1>1 DEF Typed
<1>3. chan'[e].open = FALSE
  BY <1>2, NoChanFacts
<1>4. ~Both'
  BY <1>3 DEF Both
<1> QED  BY <1>2, <1>3, <1>4, StepsBy

\* OnClose ends the direction: the entry goes with the answer.
LEMMA OnCloseSteps ==
    ASSUME Inv, NEW e \in End, Taking(e), OnClose(e, Head(wire[Peer(e)]))
    PROVE  Steps(e)
<1> DEFINE h == Head(wire[Peer(e)])
           c == [chan[e] EXCEPT !.peer_closed = TRUE, !.sent_close = TRUE]
<1>1. Typed /\ chan[e].open \in BOOLEAN
  BY Types DEF Inv
<1>2. CASE chan[e].open = FALSE
  <2>1. UNCHANGED chan
    BY <1>2 DEF OnClose
  <2>2. ~Both
    BY <1>2 DEF Both
  <2> QED  BY <2>1, <2>2, StepsBy
<1>3. CASE chan[e].open = TRUE
  <2>1. chan[e] \in Entry
    BY <1>3, Types, EntryFacts
  <2>2. c.sent_close = TRUE /\ c.peer_closed = TRUE
    BY <2>1 DEF Entry
  <2>3. CloseIfDone(e, c, cmds[e])
    BY <1>3 DEF OnClose
  <2> HIDE DEF c
  <2>4. chan' = [chan EXCEPT ![e] = NoChan]
    BY <2>2, <2>3 DEF CloseIfDone, Dropped
  <2> QED  BY <1>1, <2>4, GoneSteps
<1> QED  BY <1>1, <1>2, <1>3

\* A command less, and perhaps a packet more: the batch of consumed bytes is
\* all that either direction sees of it.
LEMMA HandleSteps ==
    ASSUME Inv, NEW e \in End, Handling(e), Dequeue(e), NEW q, q \in Seq(Messages),
           wire' = [wire EXCEPT ![e] = q], Total(q, "adjust") = Total(wire[e], "adjust"),
           Head(cmds[e]).type # "consumed", NEW c, chan' = [chan EXCEPT ![e] = c],
           c.open => chan[e].open,
           Both => /\ c.local_window = chan[e].local_window
                   /\ c.pending_consumed = chan[e].pending_consumed
    PROVE  Steps(e)
<1> DEFINE p == Peer(e)  m == Tail(cmds[e])
<1>1. p \in End /\ p # e
  BY TwoEnds
<1>2. cmds[e] \in Seq(Messages) /\ cmds[e] # <<>> /\ UNCHANGED credit
  BY Types DEF Handling
<1>3. /\ wire'[e] = q /\ wire'[p] = wire[p] /\ chan'[e] = c /\ chan'[p] = chan[p]
      /\ cmds'[e] = m /\ cmds'[p] = cmds[p]
  BY <1>1 DEF Inv, Typed, Dequeue, Rest
<1>4. Total(m, "consumed") = Total(cmds[e], "consumed")
  BY <1>2, LessTotals
<1>5. ASSUME Both PROVE Moves(e, p) /\ Moves(p, e)
  <2> HIDE DEF m
  <2>1. Moves(e, p)
    BY <1>2, <1>3 DEF Moves, Shift
  <2>2. Moves(p, e)
    BY <1>2, <1>3, <1>4, <1>5 DEF Moves, Shift
  <2> QED  BY <2>1, <2>2
<1> QED  BY <1>3, <1>5, StepsBy

\* A command for a channel that is gone.
LEMMA SkipSteps ==
    ASSUME NEW e \in End, UNCHANGED chan, chan[e].open = FALSE
    PROVE  Steps(e)
<1>1. ~Both
  BY DEF Both
<1> QED  BY <1>1, StepsBy

\* CmdSend: bytes in flight stay in flight.
LEMMA CmdSendSteps ==
    ASSUME Inv, NEW e \in End, Handling(e), CmdSend(e, Head(cmds[e])), chan[e].open = TRUE
    PROVE  Steps(e)
<1> DEFINE h == Head(cmds[e])  q == wire[e] \o <<h>>
<1>1. /\ h.type \in {"data", "ext", "request", "reply"} /\ Dequeue(e) /\ UNCHANGED chan
      /\ wire' = [wire EXCEPT ![e] = q]
  BY DEF CmdSend, Send
<1>2. wire[e] \in Seq(Messages) /\ h \in Messages
  BY Types, Handled
<1>3. h.type # "consumed" /\ h.type # "adjust"
  <2> HIDE DEF h
  <2> QED  BY <1>1
<1>4. q \in Seq(Messages) /\ Total(q, "adjust") = Total(wire[e], "adjust")
  BY <1>2, <1>3, OneMore, MoreTotals
<1>5. chan' = [chan EXCEPT ![e] = chan[e]]
  BY <1>1 DEF Inv, Typed
<1> HIDE DEF q
<1> QED  BY <1>1, <1>3, <1>4, <1>5, HandleSteps

\* CmdEof moves no amount ...
LEMMA CmdEofSteps ==
    ASSUME Inv, NEW e \in End, Handling(e), CmdEof(e, Head(cmds[e])), chan[e].open = TRUE
    PROVE  Steps(e)
<1> DEFINE h == Head(cmds[e])  q == wire[e] \o <<h>>
           c == [chan[e] EXCEPT !.sent_eof = TRUE]
<1>1. h.type = "eof" /\ Dequeue(e)
  BY Zenon DEF CmdEof
<1>2. wire[e] \in Seq(Messages) /\ h \in Messages /\ chan[e] \in Entry
  BY Types, Handled, EntryFacts
<1>3. h.type # "consumed" /\ h.type # "adjust"
  <2> HIDE DEF h
  <2> QED  BY <1>1
<1>4. CASE ~chan[e].sent_eof
  <2>1. chan' = [chan EXCEPT ![e].sent_eof = TRUE] /\ wire' = [wire EXCEPT ![e] = q]
    BY <1>4 DEF CmdEof, Send
  <2>2. chan' = [chan EXCEPT ![e] = c]
    BY <2>1 DEF Inv, Typed
  <2>3. /\ c.local_window = chan[e].local_window /\ c.open = TRUE
        /\ c.pending_consumed = chan[e].pending_consumed
    BY <1>2, EntryMarked
  <2>4. q \in Seq(Messages) /\ Total(q, "adjust") = Total(wire[e], "adjust")
    BY <1>2, <1>3, OneMore, MoreTotals
  <2> HIDE DEF q, c
  <2> QED  BY <1>1, <1>3, <2>1, <2>2, <2>3, <2>4, HandleSteps
<1>5. CASE chan[e].sent_eof
  <2>1. UNCHANGED <<chan, wire>>
    BY <1>5 DEF CmdEof
  <2>2. chan' = [chan EXCEPT ![e] = chan[e]] /\ wire' = [wire EXCEPT ![e] = wire[e]]
    BY <2>1 DEF Inv, Typed
  <2> QED  BY <1>1, <1>2, <1>3, <2>2, HandleSteps
<1> QED  BY <1>4, <1>5

\* ... nor does CmdClose, whose entry waits for the peer's.
LEMMA CmdCloseSteps ==
    ASSUME Inv, NEW e \in End, Handling(e), CmdClose(e, Head(cmds[e])), chan[e].open = TRUE
    PROVE  Steps(e)
<1> DEFINE h == Head(cmds[e])  c == [chan[e] EXCEPT !.sent_close = TRUE]
           q == wire[e] \o <<h>>
<1>1. h.type = "close"
  BY Zenon DEF CmdClose
<1>2. wire[e] \in Seq(Messages) /\ h \in Messages /\ chan[e] \in Entry
  BY Types, Handled, EntryFacts
<1>3. h.type # "consumed" /\ h.type # "adjust"
  <2> HIDE DEF h
  <2> QED  BY <1>1
<1>4. ~chan[e].peer_closed /\ ~chan[e].sent_close
  <2>1. PhaseOf(e)
    BY DEF Inv
  <2>2. chan[e].open => ~chan[e].sent_close
    <3>1. cmds[e] \in Seq(Messages) /\ cmds[e] # <<>>
      BY Types DEF Handling
    <3> QED  BY <2>1, <3>1, PhaseHandle DEF PhaseOf
  <2> QED  BY <2>1, <2>2 DEF PhaseOf, Phase
<1>5. Send(e, CloseAnswer(e, h) \o Goodbye(e, c)) /\ CloseIfDone(e, c, Rest(e))
  BY DEF CmdClose
<1>6. /\ c \in Entry /\ c.local_window = chan[e].local_window /\ c.open = TRUE
      /\ c.pending_consumed = chan[e].pending_consumed
      /\ c.peer_closed = chan[e].peer_closed
  BY <1>2, EntryMarked
<1> HIDE DEF c
<1>7. ~Terminal(e, c) /\ (c.sent_close /\ c.peer_closed) = FALSE
  BY <1>4, <1>6 DEF Terminal
<1>8. chan' = [chan EXCEPT ![e] = c] /\ Dequeue(e)
  BY <1>5, <1>7 DEF CloseIfDone, Dequeue
<1>9. wire' = [wire EXCEPT ![e] = q]
  <2>1. CloseAnswer(e, h) = <<h>> /\ Goodbye(e, c) = <<>>
    BY <1>4, <1>7 DEF CloseAnswer, Goodbye
  <2>2. <<h>> \o <<>> = <<h>>
    <3> HIDE DEF h
    <3> QED  BY <1>2
  <2> QED  BY <1>5, <2>1, <2>2 DEF Send
<1>10. q \in Seq(Messages) /\ Total(q, "adjust") = Total(wire[e], "adjust")
  BY <1>2, <1>3, OneMore, MoreTotals
<1> HIDE DEF q
<1> QED  BY <1>3, <1>6, <1>8, <1>9, <1>10, HandleSteps

\* CmdConsumed is Replenish.
LEMMA CmdConsumedSteps ==
    ASSUME Inv, NEW e \in End, Handling(e), CmdConsumed(e, Head(cmds[e])), chan[e].open = TRUE
    PROVE  Steps(e)
<1> DEFINE p == Peer(e)  h == Head(cmds[e])  n == h.n  m == Tail(cmds[e])
           w == chan[e].local_window  b == chan[e].pending_consumed
           due == b + n >= WindowRefill[e]
           a == Amount("adjust", b + n)
<1>1. p \in End /\ p # e
  BY TwoEnds
<1>2. h.type = "consumed" /\ Dequeue(e)
  BY Zenon DEF CmdConsumed
<1>3. /\ h \in Messages /\ cmds[e] \in Seq(Messages) /\ cmds[e] # <<>> /\ wire[e] \in Seq(Messages)
      /\ chan[e] \in Entry /\ w \in Nat /\ b \in Nat /\ UNCHANGED credit
  BY Types, Handled, EntryFacts DEF Handling
<1>4. n \in 1..Packet /\ n \in Nat \ {0} /\ WindowRefill[e] \in Nat \ {0}
  <2> HIDE DEF h
  <2> QED  BY <1>2, <1>3, MessageFacts, PacketSize, MuxAssumption
<1>5. /\ Total(cmds[e], "consumed") = Total(m, "consumed") + n /\ Total(m, "consumed") \in Nat
  BY <1>2, <1>3, LessTotals
<1>6. cmds'[e] = m /\ cmds'[p] = cmds[p]
  BY <1>1, <1>2 DEF Inv, Typed, Dequeue, Rest
<1>7. Total(cmds'[e], "consumed") = Total(cmds[e], "consumed") - n
  <2> HIDE DEF n, m
  <2> QED  BY <1>4, <1>5, <1>6
<1>8. CASE due
  <2>1. /\ chan' = [chan EXCEPT ![e].pending_consumed = 0, ![e].local_window = w + (b + n)]
        /\ wire' = [wire EXCEPT ![e] = wire[e] \o <<a>>]
    <3>1. chan' = [chan EXCEPT ![e].pending_consumed = 0, ![e].local_window = w + (b + n)]
      BY <1>8, <1>3 DEF CmdConsumed, RefillDue, Batch, Inv, Typed
    <3>2. wire' = [wire EXCEPT ![e] = wire[e] \o <<a>>]
      BY <1>8 DEF CmdConsumed, RefillDue, Batch, Send
    <3> QED  BY <3>1, <3>2
  <2>2. b + n \in Nat \ {0}
    BY <1>3, <1>4
  <2>3. a \in Messages /\ a.type = "adjust" /\ a.n = b + n
    BY <2>2 DEF Amount, Packets, Messages
  <2> HIDE DEF a, n, b, w
  <2>4. wire'[p] = wire[p] /\ wire'[e] = wire[e] \o <<a>>
    BY <1>1, <2>1 DEF Inv, Typed
  <2>5. Total(wire'[e], "adjust") = Total(wire[e], "adjust") + (b + n)
    BY <1>3, <2>3, <2>4, MoreTotals
  <2>6. /\ chan'[p] = chan[p] /\ chan'[e].pending_consumed = 0
        /\ chan'[e].local_window = w + (b + n)
    BY <1>1, <1>3, <2>1 DEF Inv, Typed, Entry
  <2>7. Moves(e, p)
    BY <1>3, <1>6, <2>4, <2>6 DEF Moves, Shift
  <2>8. Moves(p, e)
    <3>1. Shift(p, e, credit[p], Total(wire[e], "adjust") + (b + n),
                Total(cmds[e], "consumed") - n, w + (b + n), 0)
      BY <1>3, <1>7, <2>5, <2>6 DEF Shift
    <3> QED  BY <1>4, <1>8, <3>1 DEF Moves, b, w
  <2> QED  BY <2>6, <2>7, <2>8, StepsBy
<1>9. CASE ~due
  <2>1. /\ chan' = [chan EXCEPT ![e].pending_consumed = b + n, ![e].local_window = w]
        /\ wire' = [wire EXCEPT ![e] = wire[e] \o <<>>]
    <3>1. chan' = [chan EXCEPT ![e].pending_consumed = b + n, ![e].local_window = w]
      BY <1>9, <1>3 DEF CmdConsumed, RefillDue, Batch, Inv, Typed
    <3>2. wire' = [wire EXCEPT ![e] = wire[e] \o <<>>]
      BY <1>9 DEF CmdConsumed, RefillDue, Batch, Send
    <3> QED  BY <3>1, <3>2
  <2>2. b + n < WindowRefill[e]
    BY <1>3, <1>4, <1>9
  <2> HIDE DEF n, b, w
  <2>3. wire'[p] = wire[p] /\ wire'[e] = wire[e]
    BY <1>1, <1>3, <2>1 DEF Inv, Typed
  <2>4. /\ chan'[p] = chan[p] /\ chan'[e].pending_consumed = b + n /\ chan'[e].local_window = w
    BY <1>1, <1>3, <2>1 DEF Inv, Typed, Entry
  <2>5. Moves(e, p)
    BY <1>3, <1>6, <2>3, <2>4 DEF Moves, Shift
  <2>6. Moves(p, e)
    <3>1. Shift(p, e, credit[p], Total(wire[e], "adjust"), Total(cmds[e], "consumed") - n,
                w, b + n)
      BY <1>3, <1>7, <2>3, <2>4 DEF Shift
    <3> QED  BY <1>4, <2>2, <3>1 DEF Moves, b, w
  <2> QED  BY <2>4, <2>5, <2>6, StepsBy
<1> QED  BY <1>8, <1>9

\* Every step of a loop.
LEMMA LoopSteps ==
    ASSUME Inv, Inv', NEW e \in End, LoopStep(e)
    PROVE  Steps(e)
<1>0. UNCHANGED taskVars /\ Typed /\ chan[e].open \in BOOLEAN
  BY Types DEF LoopStep, Inv
<1>1. CASE OnPacket(e)
  <2> DEFINE h == Head(wire[Peer(e)])
  <2>1. Taking(e)
    BY <1>0, <1>1 DEF OnPacket, Taking
  <2>2. CASE OnData(e, h)  BY <2>1, <2>2, OnDataSteps
  <2>3. CASE OnWindowAdjust(e, h)  BY <2>1, <2>3, OnWindowAdjustSteps
  <2>4. CASE OnEvent(e, h)  BY <2>1, <2>4, OnEventSteps
  <2>5. CASE OnChannelRequest(e, h)
    <3>1. h.type = "request"
      BY <2>5 DEF OnChannelRequest
    <3>2. h.type \in {"data", "adjust", "eof", "close", "disconnect"}
      BY <2>1, Taken
    <3> HIDE DEF h
    <3> QED  BY <3>1, <3>2
  <2>6. CASE OnClose(e, h)  BY <2>1, <2>6, OnCloseSteps
  <2>7. CASE OnDisconnect(e, h)
    BY <1>0, <2>7, GoneSteps DEF OnDisconnect, Dropped
  <2> QED  BY <1>1, <2>2, <2>3, <2>4, <2>5, <2>6, <2>7 DEF OnPacket
<1>2. CASE OnCmd(e)
  <2> DEFINE h == Head(cmds[e])
  <2>1. Handling(e)
    BY <1>0, <1>2 DEF OnCmd, Handling
  <2>2. CASE chan[e].open = FALSE
    <3>1. CmdSend(e, h) \/ CmdEof(e, h) \/ CmdClose(e, h) \/ CmdConsumed(e, h)
      BY <1>2 DEF OnCmd
    <3>2. UNCHANGED chan
      BY <2>2, <3>1 DEF CmdSend, CmdEof, CmdClose, CmdConsumed
    <3> QED  BY <2>2, <3>2, SkipSteps
  <2>3. CASE chan[e].open = TRUE
    <3>1. CASE CmdSend(e, h)  BY <2>1, <2>3, <3>1, CmdSendSteps
    <3>2. CASE CmdEof(e, h)  BY <2>1, <2>3, <3>2, CmdEofSteps
    <3>3. CASE CmdClose(e, h)  BY <2>1, <2>3, <3>3, CmdCloseSteps
    <3>4. CASE CmdConsumed(e, h)  BY <2>1, <2>3, <3>4, CmdConsumedSteps
    <3> QED  BY <1>2, <3>1, <3>2, <3>3, <3>4 DEF OnCmd
  <2> QED  BY <1>0, <2>2, <2>3
<1>3. CASE PeerGone(e) \/ ConnectionFails(e)
  BY <1>0, <1>3, GoneSteps DEF PeerGone, ConnectionFails, Dropped
<1> QED  BY <1>1, <1>2, <1>3 DEF LoopStep, Loop

\* Every step of a channel is a step, or none, of each direction ...
LEMMA NextFlows ==
    ASSUME Inv, Inv', [Next]_vars, NEW s \in End
    PROVE  FlowStep(s)
<1>1. CASE Next
  <2>1. PICK e \in End : Task(e) \/ LoopStep(e)
    BY <1>1 DEF Next
  <2>2. Steps(e)
    BY <2>1, TaskSteps, LoopSteps
  <2> QED  BY <2>2, StepsFlow
<1>2. CASE UNCHANGED vars
  <2>1. UNCHANGED <<chan, credit, cmds, wire>>
    BY <1>2 DEF vars, loopVars
  <2>2. Steps(s)
    BY <2>1, IdleSteps
  <2> QED  BY <2>2, StepsFlow
<1> QED  BY <1>1, <1>2

\* ... and each direction starts as module Window does.
LEMMA InitFlows ==
    ASSUME Init, NEW s \in End
    PROVE  Flow(s)!WindowInit
<1> DEFINE r == Peer(s)
<1>1. r \in End /\ s # r
  BY TwoEnds
<1>2. Inv
  BY InitInv
<1>3. /\ chan[s] = NewChan(s) /\ chan[r] = NewChan(r) /\ credit[s] = LocalWindow[r]
      /\ to_task[r] = <<>> /\ cmds[r] = <<>> /\ wire[r] = <<>> /\ cmds[s] = <<>>
      /\ wire[s] = <<>> /\ run[r] = "running"
  BY <1>1 DEF Init, MuxInit
<1>4. /\ chan[r].local_window = LocalWindow[r] /\ chan[r].pending_consumed = 0
  BY <1>3 DEF NewChan
<1>5. Both
  BY DEF Both, Init, MuxInit, NewChan
<1>6. Total(<<>>, "data") = 0 /\ Total(<<>>, "consumed") = 0 /\ Total(<<>>, "adjust") = 0
  BY TotalEmpty
<1>7. LocalWindow[r] \in Nat
  BY <1>1, MuxAssumption
<1>8. /\ Permits(s) = LocalWindow[r] /\ Inflight(s) = 0 /\ Unread(r) = 0 /\ Consumed(r) = 0
      /\ Adjusting(r) = 0 /\ While(chan[r].local_window) = LocalWindow[r]
      /\ While(chan[r].pending_consumed) = 0
  BY <1>3, <1>4, <1>5, <1>6 DEF Permits, Inflight, Unread, Consumed, Adjusting, While
<1>9. Both = TRUE /\ (run[r] = "overflow") = FALSE
  BY <1>2, <1>3, <1>5 DEF Both
<1> QED  BY <1>8, <1>9 DEF Flow!WindowInit

\* The two directions of module Channel are the two flows.
LEMMA ServerFlow ==
    /\ Flow("client")!WindowInit => ToServer!WindowInit
    /\ FlowStep("client") => [ToServer!WindowNext]_(ToServer!windowVars)
<1>1. Flow("client")!windowVars = ToServer!windowVars /\ (Flow("client")!windowVars)' = (ToServer!windowVars)'
  BY TwoEnds DEF Flow!windowVars, ToServer!windowVars
<1>2. Flow("client")!WindowInit => ToServer!WindowInit
  BY TwoEnds DEF Flow!WindowInit, ToServer!WindowInit
<1>3. Flow("client")!WindowNext => ToServer!WindowNext
  BY TwoEnds
  DEF Flow!WindowNext, Flow!Reserve, Flow!Deliver, Flow!Consume, Flow!Replenish, Flow!Grant,
      Flow!Teardown, Flow!RefillDue, Flow!Batch,
      ToServer!WindowNext, ToServer!Reserve, ToServer!Deliver, ToServer!Consume, ToServer!Replenish,
      ToServer!Grant, ToServer!Teardown, ToServer!RefillDue, ToServer!Batch
<1> QED  BY <1>1, <1>2, <1>3 DEF FlowStep

\* The direction to the client likewise.
LEMMA ClientFlow ==
    /\ Flow("server")!WindowInit => ToClient!WindowInit
    /\ FlowStep("server") => [ToClient!WindowNext]_(ToClient!windowVars)
<1>1. Flow("server")!windowVars = ToClient!windowVars /\ (Flow("server")!windowVars)' = (ToClient!windowVars)'
  BY TwoEnds DEF Flow!windowVars, ToClient!windowVars
<1>2. Flow("server")!WindowInit => ToClient!WindowInit
  BY TwoEnds DEF Flow!WindowInit, ToClient!WindowInit
<1>3. Flow("server")!WindowNext => ToClient!WindowNext
  BY TwoEnds
  DEF Flow!WindowNext, Flow!Reserve, Flow!Deliver, Flow!Consume, Flow!Replenish, Flow!Grant,
      Flow!Teardown, Flow!RefillDue, Flow!Batch,
      ToClient!WindowNext, ToClient!Reserve, ToClient!Deliver, ToClient!Consume, ToClient!Replenish,
      ToClient!Grant, ToClient!Teardown, ToClient!RefillDue, ToClient!Batch
<1> QED  BY <1>1, <1>2, <1>3 DEF FlowStep

\* Both directions of a forwarded channel implement the abstract flow control of
\* module Window: every step of mux.rs and forward.rs reserves, delivers,
\* consumes, replenishes, grants, tears down, or leaves the window alone.
THEOREM ImplementsWindow == Spec => WindowBothWays
<1>1. "client" \in End /\ "server" \in End
  BY DEF End
<1>2. Init => ToServer!WindowInit /\ ToClient!WindowInit
  BY <1>1, InitFlows, ServerFlow, ClientFlow
<1>3. Inv /\ Inv' /\ [Next]_vars => [ToServer!WindowNext]_(ToServer!windowVars)
  BY <1>1, NextFlows, ServerFlow
<1>4. Inv /\ Inv' /\ [Next]_vars => [ToClient!WindowNext]_(ToClient!windowVars)
  BY <1>1, NextFlows, ClientFlow
<1> QED
  BY <1>2, <1>3, <1>4, ChannelInvariant, PTL DEF Spec, WindowBothWays, ToServer!WindowSpec, ToClient!WindowSpec

-----------------------------------------------------------------------------
(* What module Window promises, of the two directions of a channel.        *)

\* In either direction the accounts of module Window are in order.
LEMMA FlowInv ==
    ASSUME Inv, NEW s \in End
    PROVE  Flow(s)!Inv
<1> DEFINE r == Peer(s)
<1>1. r \in End /\ s # r /\ LocalWindow[r] \in Nat
  BY TwoEnds, MuxAssumption
<1>2. Accounted(s, r)
  BY <1>1, Balanced DEF AllAccounted
<1>3. AccountOf(s, r)
  BY DEF Inv
<1>4. (run[r] = "overflow") = FALSE /\ Both \in BOOLEAN
  BY <1>2 DEF Accounted
<1>5. CASE Both
  <2>1. Balance(s, r)
    BY <1>2, <1>5 DEF Accounted
  <2>2. chan[r].pending_consumed < WindowRefill[r]
    BY <1>1, <1>3, <1>5 DEF Both, AccountOf, Account
  <2> DEFINE k == credit[s]  a == Total(wire[r], "adjust")  u == Total(cmds[r], "consumed")
             l == chan[r].local_window  b == chan[r].pending_consumed
             f == Inflight(s)  t == Unread(r)
  <2>3. /\ k \in Nat /\ a \in Nat /\ u \in Nat /\ l \in Nat /\ b \in Nat /\ f \in Nat /\ t \in Nat
        /\ l = k + f + a /\ l + t + u + b = LocalWindow[r]
        /\ Permits(s) = k /\ Adjusting(r) = a /\ Consumed(r) = u
        /\ While(chan[r].local_window) = l /\ While(chan[r].pending_consumed) = b
    BY <2>1 DEF Balance
  <2> HIDE DEF k, a, u, l, b, f, t
  <2>4. k + f + t + u + b + a = LocalWindow[r]
    BY <2>3
  <2>5. Flow(s)!WindowTypeOK
    BY <1>4, <2>3 DEF Flow!WindowTypeOK, f, t
  <2> QED
    BY <1>4, <2>2, <2>3, <2>4, <2>5
    DEF Flow!Inv, Flow!Conserved, Flow!WindowAgrees, Flow!BatchBounded, b, f, t
<1>6. CASE ~Both
  <2>1. Vacant(s, r)
    BY <1>2, <1>6 DEF Accounted
  <2> QED
    BY <1>4, <1>6, <2>1
    DEF Vacant, Flow!Inv, Flow!WindowTypeOK, Flow!Conserved, Flow!WindowAgrees, Flow!BatchBounded
<1> QED  BY <1>4, <1>5, <1>6

\* Both directions of every channel keep their accounts, and neither receiver
\* ever reports that the peer overflowed its window (mux.rs on_data).
THEOREM WindowsHold == Spec => [](ToServer!Inv /\ ToClient!Inv)
<1>1. Inv => ToServer!Inv /\ ToClient!Inv
  <2> SUFFICES ASSUME Inv PROVE ToServer!Inv /\ ToClient!Inv
    OBVIOUS
  <2>1. Flow("client")!Inv /\ Flow("server")!Inv
    BY FlowInv DEF End
  <2>2. ToServer!Inv
    BY <2>1, TwoEnds
    DEF Flow!Inv, Flow!WindowTypeOK, Flow!Conserved, Flow!WindowAgrees, Flow!BatchBounded,
        ToServer!Inv, ToServer!WindowTypeOK, ToServer!Conserved, ToServer!WindowAgrees,
        ToServer!BatchBounded
  <2>3. ToClient!Inv
    BY <2>1, TwoEnds
    DEF Flow!Inv, Flow!WindowTypeOK, Flow!Conserved, Flow!WindowAgrees, Flow!BatchBounded,
        ToClient!Inv, ToClient!WindowTypeOK, ToClient!Conserved, ToClient!WindowAgrees,
        ToClient!BatchBounded
  <2> QED  BY <2>2, <2>3
<1> QED  BY <1>1, ChannelInvariant, PTL

\* Between two ends that leave room for a packet above their refill threshold,
\* neither sender's wait for the permits of a packet is final (forward.rs
\* acquire_many).
THEOREM SendersNeverStarve ==
    ASSUME \A e \in End : remote_max(e) <= LocalWindow[Peer(e)] - WindowRefill[Peer(e)]
    PROVE  Spec => [](ToServer!NeverStarved /\ ToClient!NeverStarved)
<1>1. ASSUME Inv, NEW s \in End PROVE Flow(s)!NeverStarved
  <2> DEFINE r == Peer(s)
  <2>1. /\ r \in End /\ LocalWindow[r] \in Nat /\ WindowRefill[r] \in Nat \ {0}
        /\ remote_max(s) <= LocalWindow[r] - WindowRefill[r]
        /\ remote_max(s) \in Nat
    BY TwoEnds, MuxAssumption, PacketSize
  <2>2. Flow(s)!Inv
    BY <1>1, FlowInv
  <2> QED
    BY <2>1, <2>2
    DEF Flow!Inv, Flow!WindowTypeOK, Flow!Conserved, Flow!BatchBounded, Flow!NeverStarved
<1>2. Inv => ToServer!NeverStarved /\ ToClient!NeverStarved
  <2> SUFFICES ASSUME Inv PROVE ToServer!NeverStarved /\ ToClient!NeverStarved
    OBVIOUS
  <2>1. Flow("client")!NeverStarved /\ Flow("server")!NeverStarved
    BY <1>1 DEF End
  <2>2. ToServer!NeverStarved
    BY <2>1, TwoEnds DEF Flow!NeverStarved, ToServer!NeverStarved
  <2>3. ToClient!NeverStarved
    BY <2>1, TwoEnds DEF Flow!NeverStarved, ToClient!NeverStarved
  <2> QED  BY <2>2, <2>3
<1> QED  BY <1>2, ChannelInvariant, PTL

=============================================================================
