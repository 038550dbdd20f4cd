----------------------------- MODULE LoopProof ------------------------------
(***************************************************************************)
(* The connection loop of connect/mux.rs, for all values of its bounds:    *)
(* the channels of module Opens, the flow control of module Window and the *)
(* keepalives of module LoopIO.                                            *)
(*                                                                         *)
(* Capped alone is not inductive: OnConnected turns a reservation into a   *)
(* channel, so there must be a reservation for every connect task (IInv).  *)
(* Paired needs to know where every open and every answer is: Core says,   *)
(* of each end's opens, which are on the wire, which wait for a connect    *)
(* and which are answered, and of its channels which half the other end    *)
(* has or will have; Budget, that ids do not run out; Fwd, that replies    *)
(* match requests in order and that an open for a forward is behind the    *)
(* reply that grants it.  SessionOrEnd needs Sess: while the session is    *)
(* queued, what the server may still open leaves room for it.              *)
(***************************************************************************)
EXTENDS Opens, LoopIO, Window, FiniteSetTheorems, TLAPS

\* The tables are functions on End whose values are finite sets.
Tables ==
    /\ channels = [e \in End |-> channels[e]]
    /\ pending = [e \in End |-> pending[e]]
    /\ connecting = [e \in End |-> connecting[e]]
    /\ pending_connects \in [End -> Nat]
    /\ \A e \in End : /\ IsFiniteSet(channels[e])
                      /\ IsFiniteSet(pending[e])
                      /\ IsFiniteSet(connecting[e])

\* Every connect task has its reservation.
Reserved == \A e \in End : Cardinality(connecting[e]) <= pending_connects[e]

IInv == Tables /\ Reserved /\ Capped

-----------------------------------------------------------------------------
\* A set grows by one element at most when one is added (HashMap::insert).
LEMMA CardinalityAdd ==
    ASSUME NEW S, NEW x, IsFiniteSet(S)
    PROVE  /\ IsFiniteSet(S \cup {x})
           /\ Cardinality(S) \in Nat
           /\ Cardinality(S \cup {x}) \in Nat
           /\ Cardinality(S \cup {x}) <= Cardinality(S) + 1
<1>1. Cardinality(S) \in Nat
  BY FS_CardinalityType
<1>2. /\ IsFiniteSet(S \cup {x})
      /\ Cardinality(S \cup {x}) = IF x \in S THEN Cardinality(S) ELSE Cardinality(S) + 1
  BY FS_AddElement
<1> QED
  BY <1>1, <1>2

\* Removing an element takes one away (HashMap::remove).
LEMMA CardinalityRemove ==
    ASSUME NEW S, NEW x \in S, IsFiniteSet(S)
    PROVE  /\ IsFiniteSet(S \ {x})
           /\ Cardinality(S) \in Nat
           /\ Cardinality(S \ {x}) \in Nat
           /\ Cardinality(S \ {x}) = Cardinality(S) - 1
BY FS_RemoveElement, FS_CardinalityType

\* Replacing an element by another does not grow the set.
LEMMA CardinalityReplace ==
    ASSUME NEW S, NEW x \in S, NEW y, IsFiniteSet(S)
    PROVE  /\ IsFiniteSet((S \ {x}) \cup {y})
           /\ Cardinality((S \ {x}) \cup {y}) \in Nat
           /\ Cardinality((S \ {x}) \cup {y}) <= Cardinality(S)
<1>1. /\ IsFiniteSet(S \ {x})
      /\ Cardinality(S) \in Nat
      /\ Cardinality(S \ {x}) \in Nat
      /\ Cardinality(S \ {x}) = Cardinality(S) - 1
  BY CardinalityRemove
<1>2. /\ IsFiniteSet((S \ {x}) \cup {y})
      /\ Cardinality((S \ {x}) \cup {y}) \in Nat
      /\ Cardinality((S \ {x}) \cup {y}) <= Cardinality(S \ {x}) + 1
  BY <1>1, CardinalityAdd
<1> QED
  BY <1>1, <1>2

\* What a step does to the tables of one end decides the invariant: when the
\* tables of e become C, P, K and n, finite, within the cap and reserved.
LEMMA OneEnd ==
    ASSUME IInv, NEW e \in End, NEW C, NEW P, NEW K, NEW n \in Nat,
           channels' = [channels EXCEPT ![e] = C],
           pending' = [pending EXCEPT ![e] = P],
           connecting' = [connecting EXCEPT ![e] = K],
           pending_connects' = [pending_connects EXCEPT ![e] = n],
           IsFiniteSet(C), IsFiniteSet(P), IsFiniteSet(K),
           Cardinality(K) <= n,
           Cardinality(C) + Cardinality(P) + n <= MaxChannels
    PROVE  IInv'
<1>1. \A f \in End :
        /\ channels'[f] = IF f = e THEN C ELSE channels[f]
        /\ pending'[f] = IF f = e THEN P ELSE pending[f]
        /\ connecting'[f] = IF f = e THEN K ELSE connecting[f]
        /\ pending_connects'[f] = IF f = e THEN n ELSE pending_connects[f]
  BY DEF IInv, Tables
<1>2. Tables'
  <2>1. /\ channels' = [f \in End |-> channels'[f]]
        /\ pending' = [f \in End |-> pending'[f]]
        /\ connecting' = [f \in End |-> connecting'[f]]
    BY DEF IInv, Tables
  <2>2. pending_connects' \in [End -> Nat]
    BY DEF IInv, Tables
  <2>3. \A f \in End : /\ IsFiniteSet(channels'[f])
                       /\ IsFiniteSet(pending'[f])
                       /\ IsFiniteSet(connecting'[f])
    BY <1>1 DEF IInv, Tables
  <2> QED
    BY <2>1, <2>2, <2>3 DEF Tables
<1>3. Reserved'
  BY <1>1 DEF IInv, Reserved
<1>4. Capped'
  BY <1>1 DEF IInv, Capped
<1> QED
  BY <1>2, <1>3, <1>4 DEF IInv

\* A table that is left alone is a function updated with its own value.
LEMMA SameValue ==
    ASSUME IInv, NEW e \in End
    PROVE  /\ channels = [channels EXCEPT ![e] = channels[e]]
           /\ pending = [pending EXCEPT ![e] = pending[e]]
           /\ connecting = [connecting EXCEPT ![e] = connecting[e]]
           /\ pending_connects = [pending_connects EXCEPT ![e] = pending_connects[e]]
           /\ pending_connects[e] \in Nat
           /\ IsFiniteSet(channels[e]) /\ Cardinality(channels[e]) \in Nat
           /\ IsFiniteSet(pending[e]) /\ Cardinality(pending[e]) \in Nat
           /\ IsFiniteSet(connecting[e]) /\ Cardinality(connecting[e]) \in Nat
           /\ Cardinality(connecting[e]) <= pending_connects[e]
           /\ Cardinality(channels[e]) + Cardinality(pending[e])
                + pending_connects[e] <= MaxChannels
<1>1. /\ channels = [channels EXCEPT ![e] = channels[e]]
      /\ pending = [pending EXCEPT ![e] = pending[e]]
      /\ connecting = [connecting EXCEPT ![e] = connecting[e]]
      /\ pending_connects = [pending_connects EXCEPT ![e] = pending_connects[e]]
      /\ pending_connects[e] \in Nat
  BY DEF IInv, Tables
<1>2. /\ IsFiniteSet(channels[e]) /\ IsFiniteSet(pending[e])
      /\ IsFiniteSet(connecting[e])
  BY DEF IInv, Tables
<1>3. /\ Cardinality(channels[e]) \in Nat /\ Cardinality(pending[e]) \in Nat
      /\ Cardinality(connecting[e]) \in Nat
  BY <1>2, FS_CardinalityType
<1>4. /\ Cardinality(connecting[e]) <= pending_connects[e]
      /\ Cardinality(channels[e]) + Cardinality(pending[e])
           + pending_connects[e] <= MaxChannels
  BY DEF IInv, Reserved, Capped
<1> QED
  BY <1>1, <1>2, <1>3, <1>4

\* What the guard ~AtCap of an open leaves room for.
LEMMA Room ==
    ASSUME IInv, NEW e \in End, ~AtCap(e)
    PROVE  Cardinality(channels[e]) + Cardinality(pending[e])
               + pending_connects[e] + 1 <= MaxChannels
BY SameValue, OpensAssumption DEF AtCap

\* A loop that ends holds nothing any more (Connection::drop).
LEMMA EndLoopKeeps ==
    ASSUME IInv, NEW e \in End, NEW how, EndLoop(e, how),
           UNCHANGED <<connecting, pending_connects>>
    PROVE  IInv'
<1>1. IsFiniteSet({}) /\ Cardinality({}) = 0
  BY FS_EmptySet
<1>2. 0 + 0 + pending_connects[e] <= MaxChannels
  BY SameValue, OpensAssumption
<1> QED
  BY <1>1, <1>2, SameValue, OneEnd DEF EndLoop

-----------------------------------------------------------------------------
\* A connection starts with empty tables (Connection::new).
LEMMA InitIInv == Init => IInv
<1> SUFFICES ASSUME Init PROVE IInv
  OBVIOUS
<1>1. IsFiniteSet({}) /\ Cardinality({}) = 0
  BY FS_EmptySet
<1>2. Tables
  BY <1>1 DEF Init, Tables
<1>3. \A e \in End : /\ channels[e] = {} /\ pending[e] = {} /\ connecting[e] = {}
                     /\ pending_connects[e] = 0
  BY DEF Init
<1>4. Reserved
  BY <1>1, <1>3 DEF Reserved
<1>5. Capped
  <2>1. MaxChannels \in Nat /\ 0 + 0 + 0 = 0
    BY OpensAssumption
  <2> QED  BY <1>1, <1>3, <2>1 DEF Capped
<1> QED
  BY <1>2, <1>4, <1>5 DEF IInv

\* Every step keeps the tables finite, reserved and within the cap.
LEMMA StepIInv == IInv /\ [Next]_vars => IInv'
<1> SUFFICES ASSUME IInv, [Next]_vars PROVE IInv'
  OBVIOUS
<1>1. CASE UNCHANGED <<channels, pending, connecting, pending_connects>>
  BY <1>1 DEF IInv, Tables, Reserved, Capped
<1>2. ASSUME NEW e \in End, Open(e) PROVE IInv'
  <2>1. CASE UNCHANGED table
    BY <2>1, <1>1 DEF table
  <2>2. ASSUME ~AtCap(e), NEW o,
               pending' = [pending EXCEPT ![e] = pending[e] \cup {o}],
               UNCHANGED <<channels, connecting, pending_connects>>
        PROVE  IInv'
    <3>1. /\ IsFiniteSet(pending[e] \cup {o})
          /\ Cardinality(pending[e] \cup {o}) \in Nat
          /\ Cardinality(pending[e] \cup {o}) <= Cardinality(pending[e]) + 1
      BY SameValue, CardinalityAdd
    <3>2. Cardinality(channels[e]) + Cardinality(pending[e] \cup {o})
             + pending_connects[e] <= MaxChannels
      BY <3>1, <2>2, Room, SameValue, OpensAssumption
    <3> QED
      BY <3>1, <3>2, <2>2, SameValue, OneEnd
  <2> QED
    BY <1>2, <2>1, <2>2 DEF Open
<1>3. ASSUME NEW e \in End, OnChannelOpen(e) PROVE IInv'
  <2>1. CASE UNCHANGED table
    BY <2>1, <1>1 DEF table
  <2>2. ASSUME ~AtCap(e), NEW c,
               channels' = [channels EXCEPT ![e] = channels[e] \cup {c}],
               UNCHANGED <<pending, connecting, pending_connects>>
        PROVE  IInv'
    <3>1. /\ IsFiniteSet(channels[e] \cup {c})
          /\ Cardinality(channels[e] \cup {c}) \in Nat
          /\ Cardinality(channels[e] \cup {c}) <= Cardinality(channels[e]) + 1
      BY SameValue, CardinalityAdd
    <3>2. Cardinality(channels[e] \cup {c}) + Cardinality(pending[e])
             + pending_connects[e] <= MaxChannels
      BY <3>1, <2>2, Room, SameValue, OpensAssumption
    <3> QED
      BY <3>1, <3>2, <2>2, SameValue, OneEnd
  <2>3. ASSUME ~AtCap(e), NEW c,
               connecting' = [connecting EXCEPT ![e] = connecting[e] \cup {c}],
               pending_connects' =
                   [pending_connects EXCEPT ![e] = pending_connects[e] + 1],
               UNCHANGED <<channels, pending>>
        PROVE  IInv'
    <3>1. /\ IsFiniteSet(connecting[e] \cup {c})
          /\ Cardinality(connecting[e] \cup {c}) \in Nat
          /\ Cardinality(connecting[e] \cup {c}) <= Cardinality(connecting[e]) + 1
      BY SameValue, CardinalityAdd
    <3>2. /\ pending_connects[e] + 1 \in Nat
          /\ Cardinality(connecting[e] \cup {c}) <= pending_connects[e] + 1
          /\ Cardinality(channels[e]) + Cardinality(pending[e])
                + (pending_connects[e] + 1) <= MaxChannels
      BY <3>1, <2>3, Room, SameValue, OpensAssumption
    <3> QED
      BY <3>1, <3>2, <2>3, SameValue, OneEnd
  <2> QED
    BY <1>3, <2>1, <2>2, <2>3 DEF OnChannelOpen, Insert
<1>4. ASSUME NEW e \in End, Resolve(e) PROVE IInv'
  <2>0. PICK c \in connecting[e] : \E d :
           /\ connecting' = [connecting EXCEPT ![e] = (connecting[e] \ {c}) \cup {d}]
           /\ UNCHANGED <<channels, pending, pending_connects>>
    BY <1>4 DEF Resolve, Reports
  <2>1. PICK d :
           /\ connecting' = [connecting EXCEPT ![e] = (connecting[e] \ {c}) \cup {d}]
           /\ UNCHANGED <<channels, pending, pending_connects>>
    BY <2>0
  <2> DEFINE K == (connecting[e] \ {c}) \cup {d}
  <2>2. /\ IsFiniteSet(K)
        /\ Cardinality(K) \in Nat
        /\ Cardinality(K) <= Cardinality(connecting[e])
    BY SameValue, CardinalityReplace
  <2>3. connecting' = [connecting EXCEPT ![e] = K]
    BY <2>1
  <2> HIDE DEF K
  <2>4. Cardinality(K) <= pending_connects[e]
    BY <2>2, SameValue
  <2> QED
    BY <2>1, <2>2, <2>3, <2>4, SameValue, OneEnd
<1>5. ASSUME NEW e \in End, OnConnected(e) PROVE IInv'
  <2>1. PICK c \in connecting[e] :
           /\ connecting' = [connecting EXCEPT ![e] = connecting[e] \ {c}]
           /\ pending_connects' = [pending_connects EXCEPT ![e] = Resolved(e)]
           /\ UNCHANGED pending
           /\ \/ UNCHANGED channels
              \/ \E ch : channels' = [channels EXCEPT ![e] = channels[e] \cup {ch}]
    BY <1>5 DEF OnConnected, Insert
  <2>2. /\ IsFiniteSet(connecting[e] \ {c})
        /\ Cardinality(connecting[e] \ {c}) \in Nat
        /\ Cardinality(connecting[e] \ {c}) = Cardinality(connecting[e]) - 1
    BY SameValue, CardinalityRemove
  <2>3. /\ Resolved(e) \in Nat
        /\ Resolved(e) = pending_connects[e] - 1
        /\ Cardinality(connecting[e] \ {c}) <= Resolved(e)
    BY <2>2, SameValue DEF Resolved
  <2>4. CASE UNCHANGED channels
    <3>1. Cardinality(channels[e]) + Cardinality(pending[e]) + Resolved(e)
             <= MaxChannels
      BY <2>3, SameValue, OpensAssumption
    <3> QED
      BY <3>1, <2>1, <2>2, <2>3, <2>4, SameValue, OneEnd
  <2>5. ASSUME NEW ch, channels' = [channels EXCEPT ![e] = channels[e] \cup {ch}]
        PROVE  IInv'
    <3>1. /\ IsFiniteSet(channels[e] \cup {ch})
          /\ Cardinality(channels[e] \cup {ch}) \in Nat
          /\ Cardinality(channels[e] \cup {ch}) <= Cardinality(channels[e]) + 1
      BY SameValue, CardinalityAdd
    <3>2. Cardinality(channels[e] \cup {ch}) + Cardinality(pending[e]) + Resolved(e)
             <= MaxChannels
      BY <3>1, <2>3, SameValue, OpensAssumption, SMTT(60)
    <3> QED
      BY <3>1, <3>2, <2>1, <2>2, <2>3, <2>5, SameValue, OneEnd
  <2> QED
    BY <2>1, <2>4, <2>5
<1>6. ASSUME NEW e \in End, OnOpenConfirm(e) PROVE IInv'
  <2>1. CASE EndLoop(e, "error")
    BY <1>6, <2>1, EndLoopKeeps DEF OnOpenConfirm
  <2>2. ASSUME NEW o \in pending[e], NEW ch,
               pending' = [pending EXCEPT ![e] = pending[e] \ {o}],
               channels' = [channels EXCEPT ![e] = channels[e] \cup {ch}]
        PROVE  IInv'
    <3>1. /\ IsFiniteSet(pending[e] \ {o})
          /\ Cardinality(pending[e] \ {o}) \in Nat
          /\ Cardinality(pending[e] \ {o}) = Cardinality(pending[e]) - 1
      BY SameValue, CardinalityRemove
    <3>2. /\ IsFiniteSet(channels[e] \cup {ch})
          /\ Cardinality(channels[e] \cup {ch}) \in Nat
          /\ Cardinality(channels[e] \cup {ch}) <= Cardinality(channels[e]) + 1
      BY SameValue, CardinalityAdd
    <3>3. Cardinality(channels[e] \cup {ch}) + Cardinality(pending[e] \ {o})
             + pending_connects[e] <= MaxChannels
      BY <3>1, <3>2, SameValue, OpensAssumption, SMTT(60)
    <3>4. UNCHANGED <<connecting, pending_connects>>
      BY <1>6 DEF OnOpenConfirm
    <3> QED
      BY <3>1, <3>2, <3>3, <3>4, <2>2, SameValue, OneEnd
  <2> QED
    BY <1>6, <2>1, <2>2 DEF OnOpenConfirm, Insert, Opens
<1>7. ASSUME NEW e \in End, OnOpenFailure(e) PROVE IInv'
  <2>1. CASE EndLoop(e, "ended")
    BY <1>7, <2>1, EndLoopKeeps DEF OnOpenFailure
  <2>2. ASSUME NEW Q, pending' = [pending EXCEPT ![e] = pending[e] \ Q],
               UNCHANGED <<channels, connecting, pending_connects>>
        PROVE  IInv'
    <3>1. /\ IsFiniteSet(pending[e] \ Q)
          /\ Cardinality(pending[e] \ Q) <= Cardinality(pending[e])
      BY SameValue, FS_Subset
    <3>2. Cardinality(pending[e] \ Q) \in Nat
      BY <3>1, FS_CardinalityType
    <3>3. Cardinality(channels[e]) + Cardinality(pending[e] \ Q)
             + pending_connects[e] <= MaxChannels
      BY <3>1, <3>2, SameValue, OpensAssumption
    <3> QED
      BY <3>1, <3>3, <2>2, SameValue, OneEnd
  <2> QED
    BY <1>7, <2>1, <2>2 DEF OnOpenFailure
<1>8. ASSUME NEW e \in End, SendClose(e) PROVE IInv'
  <2>0. PICK c \in channels[e] : \E d :
           /\ channels' = [channels EXCEPT ![e] = (channels[e] \ {c}) \cup {d}]
           /\ UNCHANGED <<pending, connecting, pending_connects>>
    BY <1>8 DEF SendClose
  <2>1. PICK d :
           /\ channels' = [channels EXCEPT ![e] = (channels[e] \ {c}) \cup {d}]
           /\ UNCHANGED <<pending, connecting, pending_connects>>
    BY <2>0
  <2>2. /\ IsFiniteSet((channels[e] \ {c}) \cup {d})
        /\ Cardinality((channels[e] \ {c}) \cup {d}) \in Nat
        /\ Cardinality((channels[e] \ {c}) \cup {d}) <= Cardinality(channels[e])
    BY SameValue, CardinalityReplace
  <2>3. Cardinality((channels[e] \ {c}) \cup {d}) + Cardinality(pending[e])
           + pending_connects[e] <= MaxChannels
    BY <2>2, SameValue, OpensAssumption
  <2> QED
    BY <2>1, <2>2, <2>3, SameValue, OneEnd
<1>9. ASSUME NEW e \in End, OnClose(e) PROVE IInv'
  <2>1. CASE EndLoop(e, "ended")
    BY <1>9, <2>1, EndLoopKeeps DEF OnClose
  <2>2. CASE UNCHANGED <<channels, pending>>
    BY <1>9, <2>2, <1>1 DEF OnClose
  <2>3. ASSUME NEW c \in channels[e],
               channels' = [channels EXCEPT ![e] = channels[e] \ {c}],
               UNCHANGED pending
        PROVE  IInv'
    <3>1. /\ IsFiniteSet(channels[e] \ {c})
          /\ Cardinality(channels[e] \ {c}) \in Nat
          /\ Cardinality(channels[e] \ {c}) = Cardinality(channels[e]) - 1
      BY SameValue, CardinalityRemove
    <3>2. Cardinality(channels[e] \ {c}) + Cardinality(pending[e])
             + pending_connects[e] <= MaxChannels
      BY <3>1, SameValue, OpensAssumption
    <3>3. UNCHANGED <<connecting, pending_connects>>
      BY <1>9 DEF OnClose
    <3> QED
      BY <3>1, <3>2, <3>3, <2>3, SameValue, OneEnd
  <2> QED
    BY <1>9, <2>1, <2>2, <2>3 DEF OnClose
<1>10. ASSUME NEW e \in End, OnDisconnect(e) \/ PeerGone(e) PROVE IInv'
  BY <1>10, EndLoopKeeps DEF OnDisconnect, PeerGone
<1>11. ASSUME NEW e \in End,
              \/ RequestForward(e) \/ OnKeepalive(e) \/ OnGlobalReply(e)
              \/ OnForward \/ OnCancel
       PROVE  IInv'
  BY <1>11, <1>1
     DEF RequestForward, OnKeepalive, OnGlobalReply, OnForward, OnCancel, table
<1>12. CASE Environment
  BY <1>12, <1>1 DEF Environment, AcceptLocal, AcceptForNobody, AcceptAgent,
     AcceptRemote, Admit, SendCancel, Probe, table
<1>13. CASE UNCHANGED vars
  BY <1>13, <1>1 DEF vars, table
<1> QED
  BY <1>2, <1>3, <1>4, <1>5, <1>6, <1>7, <1>8, <1>9, <1>10, <1>11, <1>12, <1>13
     DEF Next, Step

-----------------------------------------------------------------------------
\* MAX_CHANNELS is never exceeded by channels, unanswered opens and connects
\* under way together, for every cap and whatever the two ends do.
THEOREM CapHolds == Spec => []Capped
<1>1. IInv => Capped
  BY DEF IInv
<1> QED
  BY <1>1, InitIInv, StepIInv, PTL DEF Spec

-----------------------------------------------------------------------------
\* No listener is on port 0, so that the key of a port left to the server is
\* never that of another listener.
OnRealPort == \A l \in live : l.port # 0

LInv == ListenersIndexed /\ OnRealPort

\* Aborting everything, or leaving the listeners alone, keeps the index.
LEMMA EndLoopKeepsIndex ==
    ASSUME LInv, NEW e \in End, NEW how, EndLoop(e, how)
    PROVE  LInv'
BY DEF LInv, EndLoop, ListenersIndexed, OnRealPort

\* A new listener takes no key of another (handle_tcpip_forward).
LEMMA ListenKeepsIndex ==
    ASSUME LInv, NEW l, NEW asked, l.port \in Bindable(l.addr, asked),
           Listen(l, asked)
    PROVE  LInv'
<1>1. l.port # 0 /\ (asked = 0 \/ l.port = asked) /\ Free(l.addr, l.port)
  BY OpensAssumption DEF Bindable
<1>2. ASSUME NEW m \in live
      PROVE  <<m.addr, m.port>> \notin Indexed(l, asked)
  <2>1. m.port # 0
    BY <1>2 DEF LInv, OnRealPort
  <2>2. m.port = l.port => m.addr # l.addr
    BY <1>1, <1>2 DEF Free
  <2> QED
    BY <1>1, <2>1, <2>2 DEF Indexed
<1>3. <<l.addr, l.port>> \in Indexed(l, asked)
  BY DEF Indexed
<1>4. ASSUME NEW m \in live'
      PROVE  /\ <<m.addr, m.port>> \in DOMAIN listeners'
             /\ listeners'[<<m.addr, m.port>>] = m
  <2>1. CASE m = l
    BY <2>1, <1>3 DEF Listen
  <2>2. CASE m \in live
    <3>1. /\ <<m.addr, m.port>> \in DOMAIN listeners
          /\ listeners[<<m.addr, m.port>>] = m
      BY <2>2 DEF LInv, ListenersIndexed
    <3> QED
      BY <3>1, <2>2, <1>2 DEF Listen
  <2> QED
    BY <1>4, <2>1, <2>2 DEF Listen
<1>5. ListenersIndexed'
  BY <1>4 DEF ListenersIndexed
<1>6. OnRealPort'
  BY <1>1 DEF LInv, OnRealPort, Listen
<1> QED
  BY <1>5, <1>6 DEF LInv

\* Every step keeps the index of listeners complete.
LEMMA StepLInv == LInv /\ [Next]_vars => LInv'
<1> SUFFICES ASSUME LInv, [Next]_vars PROVE LInv'
  OBVIOUS
<1>1. CASE UNCHANGED <<live, listeners>>
  BY <1>1 DEF LInv, ListenersIndexed, OnRealPort
<1>2. CASE OnForward
  <2>1. ASSUME NEW p, NEW actual \in Bindable(Normalize(p.bind), p.port),
               Listen(Listener(p, actual), p.port)
        PROVE  LInv'
    <3>1. /\ Listener(p, actual).port = actual
          /\ Listener(p, actual).addr = Normalize(p.bind)
      BY DEF Listener
    <3> QED
      BY <3>1, <2>1, ListenKeepsIndex
  <2> QED
    BY <1>2, <1>1, <2>1 DEF OnForward
<1>3. CASE OnCancel
  <2>1. CASE UNCHANGED <<live, listeners>>
    BY <2>1, <1>1
  <2>2. ASSUME NEW key \in DOMAIN listeners,
               live' = live \ {listeners[key]},
               listeners' = [k \in DOMAIN listeners \ {key} |-> listeners[k]]
        PROVE  LInv'
    BY <2>2 DEF LInv, ListenersIndexed, OnRealPort
  <2> QED
    BY <1>3, <2>1, <2>2 DEF OnCancel
<1>4. ASSUME NEW e \in End,
             OnOpenConfirm(e) \/ OnOpenFailure(e) \/ OnClose(e)
             \/ OnDisconnect(e) \/ PeerGone(e)
      PROVE  LInv'
  BY <1>4, <1>1, EndLoopKeepsIndex
     DEF OnOpenConfirm, OnOpenFailure, OnClose, OnDisconnect, PeerGone
<1>5. ASSUME NEW e \in End,
             \/ Open(e) \/ RequestForward(e) \/ OnConnected(e) \/ OnChannelOpen(e)
             \/ OnKeepalive(e) \/ OnGlobalReply(e) \/ Resolve(e) \/ SendClose(e)
      PROVE  LInv'
  BY <1>5, <1>1 DEF Open, RequestForward, OnConnected, OnChannelOpen,
     OnKeepalive, OnGlobalReply, Resolve, Reports, SendClose, forwards
<1>6. CASE Environment
  BY <1>6, <1>1 DEF Environment, AcceptLocal, AcceptForNobody, AcceptAgent,
     AcceptRemote, Admit, SendCancel, Probe, forwards
<1>7. CASE UNCHANGED vars
  BY <1>7, <1>1 DEF vars, forwards
<1> QED
  BY <1>2, <1>3, <1>4, <1>5, <1>6, <1>7 DEF Next, Step

\* Every listener the server has bound for a remote forward is found by drop
\* and by a cancel of its port, whatever is asked for, cancelled and bound.
THEOREM ListenersFound == Spec => []ListenersIndexed
<1>1. Init => LInv
  BY DEF Init, LInv, ListenersIndexed, OnRealPort
<1>2. LInv => ListenersIndexed
  BY DEF LInv
<1> QED
  BY <1>1, <1>2, StepLInv, PTL DEF Spec

-----------------------------------------------------------------------------
(* Flow control: every byte of window is somewhere.                        *)

\* The account balances at the start.
LEMMA InitBalanced == WindowInit => Inv
<1> SUFFICES ASSUME WindowInit PROVE Inv
  OBVIOUS
<1> USE WindowAssumption
<1>1. open \in BOOLEAN /\ overflowed \in BOOLEAN /\ ~overflowed
  BY Zenon DEF WindowInit
<1>2. Conserved /\ WindowAgrees /\ BatchBounded
  BY DEF WindowInit, Conserved, WindowAgrees, BatchBounded
<1>3. WindowTypeOK
  BY <1>1 DEF WindowInit, WindowTypeOK
<1> QED  BY <1>1, <1>2, <1>3 DEF Inv

\* Every operation of the two loops and the two tasks keeps the account.
LEMMA NextBalanced == Inv /\ [WindowNext]_windowVars => Inv'
<1> SUFFICES ASSUME Inv, [WindowNext]_windowVars PROVE Inv'
  OBVIOUS
<1> USE WindowAssumption DEF Inv, WindowTypeOK, Conserved, WindowAgrees, BatchBounded
<1>1. CASE UNCHANGED windowVars
  BY <1>1 DEF windowVars
<1>2. ASSUME NEW n \in 1..MaxChunk, Reserve(n) PROVE Inv'
  BY <1>2 DEF Reserve
<1>3. ASSUME NEW n \in 1..MaxChunk, Deliver(n) PROVE Inv'
  <2>1. n <= local_window
    BY <1>3 DEF Deliver
  <2> QED  BY <1>3, <2>1 DEF Deliver
<1>4. ASSUME NEW n \in 1..MaxChunk, Consume(n) PROVE Inv'
  BY <1>4 DEF Consume
<1>5. ASSUME NEW n \in 1..MaxChunk, Replenish(n) PROVE Inv'
  <2>1. CASE RefillDue(n)
    BY <1>5, <2>1 DEF Replenish, RefillDue, Batch
  <2>2. CASE ~RefillDue(n)
    BY <1>5, <2>2 DEF Replenish, RefillDue, Batch
  <2> QED  BY <2>1, <2>2
<1>6. ASSUME NEW n \in 1..LocalWindow, Grant(n) PROVE Inv'
  <2>1. credit + n <= Ceiling
    BY <1>6 DEF Grant
  <2> QED  BY <1>6, <2>1 DEF Grant
<1>7. CASE Teardown
  BY <1>7 DEF Teardown
<1> QED  BY <1>1, <1>2, <1>3, <1>4, <1>5, <1>6, <1>7 DEF WindowNext

\* Every byte of window is accounted for in every reachable state, and the
\* receiver never sees an overflow (mux.rs on_data, on_window_adjust, on_cmd).
THEOREM FlowControl == WindowSpec => []Inv
BY InitBalanced, NextBalanced, PTL DEF WindowSpec

\* The wait for a whole chunk of permits (forward.rs, acquire_many) always has
\* an end: once nothing is outstanding a full chunk fits.
THEOREM NoStarvation == WindowSpec => []NeverStarved
<1>1. Inv => NeverStarved
  BY WindowAssumption DEF Inv, WindowTypeOK, Conserved, BatchBounded, NeverStarved
<1> QED  BY <1>1, FlowControl, PTL

-----------------------------------------------------------------------------
(* Keepalives never give up a live peer, for any sizes of buffers and      *)
(* packets, any number of probes and any workload.                         *)

\* A whole packet, or a whole keepalive, is somewhere on the way from e.
EndsIn(q) == \E i \in 1..Len(q) : q[i].last
ProbeIn(q) == \E i \in 1..Len(q) : q[i].last /\ q[i].kind = "keepalive"

PacketFrom(e) == EndsIn(out[e]) \/ EndsIn(snd[e]) \/ EndsIn(rcv[e])
ProbeFrom(e) == ProbeIn(out[e]) \/ ProbeIn(snd[e]) \/ ProbeIn(rcv[e])

\* A loop that has heard nothing since it probed a running peer has the probe,
\* or something of the peer's, still on the way.
Probing(e) ==
    /\ run[e] = "running" /\ run[Peer(e)] = "running"
    /\ ~recv_since_tick[e] /\ keepalive_outstanding[e] # 0
ProbeUnderWay == \A e \in End : Probing(e) => ProbeFrom(e) \/ PacketFrom(Peer(e))

IOInv == IOTypeOK /\ ProbeUnderWay /\ LivePeerKept

-----------------------------------------------------------------------------
(* Ends, packets and queues.                                               *)

\* Two ends, each the other's peer.
LEMMA Peers ==
    /\ Peer("client") = "server" /\ Peer("server") = "client"
    /\ \A e \in End : Peer(e) \in End /\ Peer(e) # e /\ Peer(Peer(e)) = e
<1>1. Peer("client") = "server"
  <2>1. \E p \in End : p # "client"
    BY DEF End
  <2> QED  BY <2>1 DEF End, Peer
<1>2. Peer("server") = "client"
  <2>1. \E p \in End : p # "server"
    BY DEF End
  <2> QED  BY <2>1 DEF End, Peer
<1> QED  BY <1>1, <1>2 DEF End

\* A packet is a sequence of units, the last of them marked.
LEMMA Packets ==
    ASSUME NEW k \in Kind
    PROVE  /\ Units(k) \in Seq(Unit) /\ Length(k) \in Nat \ {0}
           /\ Len(Units(k)) = Length(k)
           /\ Units(k)[Length(k)] = [kind |-> k, last |-> TRUE]
<1>1. Length(k) \in Nat \ {0}
  BY LoopIOAssumption DEF Length, LoopIOAssumption
<1>2. \A i \in 1..Length(k) : [kind |-> k, last |-> i = Length(k)] \in Unit
  BY DEF Unit
<1>3. Units(k) \in Seq(Unit) /\ Len(Units(k)) = Length(k)
  BY <1>1, <1>2 DEF Units
<1>4. Units(k)[Length(k)] = [kind |-> k, last |-> Length(k) = Length(k)]
  BY <1>1 DEF Units
<1> QED  BY <1>1, <1>3, <1>4

\* A packet contains its end, and a keepalive that of a probe.
LEMMA PacketHas ==
    ASSUME NEW k \in Kind
    PROVE  EndsIn(Units(k)) /\ (k = "keepalive" => ProbeIn(Units(k)))
<1>1. /\ Length(k) \in 1..Len(Units(k))
      /\ Units(k)[Length(k)].last /\ Units(k)[Length(k)].kind = k
  <2>1. /\ Length(k) \in Nat \ {0} /\ Len(Units(k)) = Length(k)
        /\ Units(k)[Length(k)] = [kind |-> k, last |-> TRUE]
    BY Packets
  <2>2. Length(k) \in 1..Len(Units(k))
    BY <2>1
  <2>3. Units(k)[Length(k)].last /\ Units(k)[Length(k)].kind = k
    <3> DEFINE u == Units(k)[Length(k)]
    <3>1. u = [kind |-> k, last |-> TRUE]
      BY <2>1
    <3> HIDE DEF u
    <3>2. u.kind = k
      BY <3>1
    <3>3. u.last
      BY <3>1
    <3> QED  BY <3>2, <3>3 DEF u
  <2> QED  BY <2>2, <2>3
<1> QED  BY <1>1 DEF EndsIn, ProbeIn

\* Taking the head of a queue loses at most the head; appending loses nothing.
LEMMA Popped ==
    ASSUME NEW q \in Seq(Unit), q # <<>>
    PROVE  /\ EndsIn(q) => Head(q).last \/ EndsIn(Tail(q))
           /\ ProbeIn(q) =>
                 (Head(q).last /\ Head(q).kind = "keepalive") \/ ProbeIn(Tail(q))
           /\ Head(q) \in Unit /\ Tail(q) \in Seq(Unit) /\ Len(Tail(q)) = Len(q) - 1
<1>1. /\ Len(q) \in Nat \ {0} /\ Head(q) = q[1] /\ Len(Tail(q)) = Len(q) - 1
      /\ \A i \in 2..Len(q) : i - 1 \in 1..Len(Tail(q)) /\ Tail(q)[i - 1] = q[i]
      /\ Head(q) \in Unit /\ Tail(q) \in Seq(Unit)
  OBVIOUS
<1>2. \A i \in 1..Len(q) : i = 1 \/ i \in 2..Len(q)
  BY <1>1
<1> QED  BY <1>1, <1>2 DEF EndsIn, ProbeIn

\* Adding a unit to a queue loses no end of a packet.
LEMMA Pushed ==
    ASSUME NEW q \in Seq(Unit), NEW u \in Unit
    PROVE  /\ EndsIn(q) \/ u.last => EndsIn(Append(q, u))
           /\ ProbeIn(q) \/ (u.last /\ u.kind = "keepalive") => ProbeIn(Append(q, u))
           /\ Append(q, u) \in Seq(Unit) /\ Len(Append(q, u)) = Len(q) + 1
<1>1. /\ Len(Append(q, u)) = Len(q) + 1 /\ Len(q) \in Nat
      /\ \A i \in 1..Len(q) : Append(q, u)[i] = q[i]
      /\ Append(q, u)[Len(q) + 1] = u
      /\ Append(q, u) \in Seq(Unit)
  OBVIOUS
<1> QED  BY <1>1 DEF EndsIn, ProbeIn

\* From the front of one queue to the end of another.
LEMMA Moved ==
    ASSUME NEW q \in Seq(Unit), q # <<>>, NEW r \in Seq(Unit)
    PROVE  /\ Head(q) \in Unit /\ Tail(q) \in Seq(Unit) /\ Len(Tail(q)) = Len(q) - 1
           /\ Append(r, Head(q)) \in Seq(Unit) /\ Len(Append(r, Head(q))) = Len(r) + 1
           /\ EndsIn(q) => EndsIn(Tail(q)) \/ EndsIn(Append(r, Head(q)))
           /\ ProbeIn(q) => ProbeIn(Tail(q)) \/ ProbeIn(Append(r, Head(q)))
           /\ EndsIn(r) => EndsIn(Append(r, Head(q)))
           /\ ProbeIn(r) => ProbeIn(Append(r, Head(q)))
<1> DEFINE u == Head(q)
<1>1. /\ EndsIn(q) => u.last \/ EndsIn(Tail(q))
      /\ ProbeIn(q) => (u.last /\ u.kind = "keepalive") \/ ProbeIn(Tail(q))
      /\ u \in Unit /\ Tail(q) \in Seq(Unit) /\ Len(Tail(q)) = Len(q) - 1
  BY Popped
<1> HIDE DEF u
<1>2. /\ EndsIn(r) \/ u.last => EndsIn(Append(r, u))
      /\ ProbeIn(r) \/ (u.last /\ u.kind = "keepalive") => ProbeIn(Append(r, u))
      /\ Append(r, u) \in Seq(Unit) /\ Len(Append(r, u)) = Len(r) + 1
  BY <1>1, Pushed
<1> QED  BY <1>1, <1>2 DEF u

\* Nothing ends in an empty queue.
LEMMA NothingIn == ~EndsIn(<<>>) /\ ~ProbeIn(<<>>)
BY DEF EndsIn, ProbeIn

\* A keepalive is answered with a packet.
LEMMA Answers ==
    ASSUME NEW k \in Kind
    PROVE  Answer(k) \in Seq(Unit) /\ (k = "keepalive" => EndsIn(Answer(k)))
<1>1. "reply" \in Kind /\ "alive" \in Kind
  BY DEF Kind
<1>2. CASE k = "ask"
  BY <1>1, <1>2, Packets DEF Answer
<1>3. CASE k = "keepalive"
  BY <1>1, <1>3, Packets, PacketHas DEF Answer
<1>4. CASE k # "ask" /\ k # "keepalive"
  BY <1>4 DEF Answer
<1> QED  BY <1>2, <1>3, <1>4

-----------------------------------------------------------------------------
(* The steps.                                                              *)

\* Nobody has probed at the start.
LEMMA InitOK == IOInit => IOInv
<1> SUFFICES ASSUME IOInit PROVE IOInv
  OBVIOUS
<1> USE LoopIOAssumption DEF IOInit
<1>1. cmds \in [End -> Seq(Kind)]
  <2>1. load.commands \in [End -> Seq({"data", "ask"})]
    BY DEF LoopIOAssumption
  <2>2. \A e \in End : load.commands[e] \in Seq(Kind)
    BY <2>1 DEF Kind
  <2> QED  BY <2>1, <2>2
<1>2. IOTypeOK
  BY <1>1 DEF IOTypeOK, LoopIOAssumption
<1>3. ProbeUnderWay /\ LivePeerKept
  BY DEF ProbeUnderWay, Probing, LivePeerKept
<1> QED  BY <1>2, <1>3 DEF IOInv

\* A read: what it takes from the queue is a packet heard.
LEMMA ReadOK == ASSUME IOInv, NEW e \in End, Read(e) PROVE IOInv'
<1> DEFINE p == Peer(e)
<1> DEFINE unit == Head(rcv[p])
<1> USE Peers DEF IOInv
<1>1. /\ rcv[p] # <<>> /\ rcv[p] \in Seq(Unit) /\ unit \in Unit
      /\ Tail(rcv[p]) \in Seq(Unit) /\ Len(Tail(rcv[p])) = Len(rcv[p]) - 1
      /\ run[e] = "running" /\ out[e] = <<>>
  BY Popped DEF Read, Selecting, NothingToRead, IOTypeOK
<1>2. unit.kind \in Kind /\ unit.last \in BOOLEAN
  BY <1>1 DEF Unit
<1>3. /\ rcv' = [rcv EXCEPT ![p] = Tail(@)]
      /\ recv_since_tick' = [recv_since_tick EXCEPT ![e] = @ \/ unit.last]
      /\ out' = [out EXCEPT ![e] = IF unit.last THEN Answer(unit.kind) ELSE @]
      /\ got' = [got EXCEPT ![e] =
            [k \in DOMAIN @ |-> IF unit.last /\ unit.kind = k THEN @[k] + 1 ELSE @[k]]]
      /\ keepalive_outstanding' = [keepalive_outstanding EXCEPT ![e] =
            IF unit.last THEN ProbesLeft(e, unit.kind) ELSE @]
      /\ UNCHANGED <<load, run, cmds, snd>>
  BY DEF Read
<1>4. IOTypeOK'
  <2>1. out' \in [End -> Seq(Unit)]
    BY <1>2, <1>3, Answers DEF IOTypeOK
  <2>2. /\ rcv' \in [End -> Seq(Unit)]
        /\ \A x \in End : Len(snd'[x]) <= SndBuf /\ Len(rcv'[x]) <= RcvBuf
    <3>1. Len(rcv[p]) \in Nat /\ Len(rcv[p]) <= RcvBuf /\ RcvBuf \in Nat
      BY <1>1, LoopIOAssumption DEF IOTypeOK, LoopIOAssumption
    <3> QED  BY <1>1, <1>3, <3>1, SMTT(60) DEF IOTypeOK
  <2>3. got' \in [End -> [{"data", "ask"} -> Nat]]
    <3> DEFINE counted == [k \in {"data", "ask"} |->
            IF unit.last /\ unit.kind = k THEN got[e][k] + 1 ELSE got[e][k]]
    <3>1. got \in [End -> [{"data", "ask"} -> Nat]] /\ got[e] \in [{"data", "ask"} -> Nat]
      BY DEF IOTypeOK
    <3>2. counted \in [{"data", "ask"} -> Nat]
      BY <3>1
    <3>3. got' = [got EXCEPT ![e] = counted]
      BY <1>3, <3>1
    <3> HIDE DEF counted
    <3> QED  BY <3>1, <3>2, <3>3
  <2>4. recv_since_tick' \in [End -> BOOLEAN]
    BY <1>2, <1>3 DEF IOTypeOK
  <2>5. keepalive_outstanding' \in [End -> 0..MaxMissed]
    BY <1>3, LoopIOAssumption DEF IOTypeOK, ProbesLeft, LoopIOAssumption
  <2> QED  BY <1>3, <2>1, <2>2, <2>3, <2>4, <2>5 DEF IOTypeOK
<1>5. ProbeUnderWay'
  \* Of e itself: it has heard, or the head it took was not an end.
  <2>1. ASSUME Probing(e)'
        PROVE  ProbeFrom(e)' \/ PacketFrom(p)'
    <3>1. ~unit.last /\ recv_since_tick[e] = FALSE
      BY <1>2, <1>3, <2>1 DEF Probing, IOTypeOK
    <3>2. /\ keepalive_outstanding'[e] = keepalive_outstanding[e]
          /\ out' = out /\ snd' = snd /\ rcv'[e] = rcv[e] /\ rcv'[p] = Tail(rcv[p])
      BY <1>3, <3>1 DEF IOTypeOK
    <3>3. Probing(e)
      BY <1>3, <2>1, <3>1, <3>2 DEF Probing
    <3>4. ProbeFrom(e) \/ PacketFrom(p)
      BY <3>3 DEF ProbeUnderWay
    <3>5. EndsIn(rcv[p]) => EndsIn(Tail(rcv[p]))
      BY <1>1, <3>1, Popped
    <3> QED  BY <3>2, <3>4, <3>5 DEF ProbeFrom, PacketFrom
  \* Of the peer: a probe of its that e took is answered.
  <2>2. ASSUME Probing(p)'
        PROVE  ProbeFrom(p)' \/ PacketFrom(e)'
    <3>1. /\ out'[p] = out[p] /\ snd' = snd /\ rcv'[e] = rcv[e] /\ rcv'[p] = Tail(rcv[p])
          /\ recv_since_tick'[p] = recv_since_tick[p]
          /\ keepalive_outstanding'[p] = keepalive_outstanding[p] /\ run' = run
      BY <1>3 DEF IOTypeOK
    <3>2. ProbeFrom(p) \/ PacketFrom(e)
      BY <2>2, <3>1 DEF Probing, ProbeUnderWay
    <3>3. PacketFrom(e) => PacketFrom(e)'
      BY <1>1, <3>1, NothingIn DEF PacketFrom
    <3>4. CASE unit.last /\ unit.kind = "keepalive"
      <4>1. EndsIn(out'[e])
        BY <1>2, <1>3, <3>4, Answers DEF IOTypeOK
      <4> QED  BY <4>1 DEF PacketFrom
    <3>5. CASE ~(unit.last /\ unit.kind = "keepalive")
      <4>1. ProbeIn(rcv[p]) => ProbeIn(Tail(rcv[p]))
        BY <1>1, <3>5, Popped
      <4> QED  BY <3>1, <3>2, <3>3, <4>1 DEF ProbeFrom
    <3> QED  BY <3>4, <3>5
  <2>3. \A x \in End : x = e \/ x = p
    BY DEF End
  <2> QED  BY <2>1, <2>2, <2>3 DEF ProbeUnderWay
<1>6. LivePeerKept'
  BY <1>3 DEF LivePeerKept
<1> QED  BY <1>4, <1>5, <1>6

\* A command only adds to what is being written.
LEMMA TakeCmdOK == ASSUME IOInv, NEW e \in End, TakeCmd(e) PROVE IOInv'
<1> USE Peers DEF IOInv
<1>1. /\ cmds[e] # <<>> /\ out[e] = <<>>
      /\ cmds' = [cmds EXCEPT ![e] = Tail(@)]
      /\ out' = [out EXCEPT ![e] = Units(Head(cmds[e]))]
      /\ UNCHANGED <<load, run, snd, rcv, got, recv_since_tick, keepalive_outstanding>>
  BY DEF TakeCmd, Selecting
<1>2. Head(cmds[e]) \in Kind /\ Tail(cmds[e]) \in Seq(Kind)
  BY <1>1 DEF IOTypeOK
<1>3. Units(Head(cmds[e])) \in Seq(Unit)
  BY <1>2, Packets
<1>4. IOTypeOK'
  BY <1>1, <1>2, <1>3 DEF IOTypeOK
<1>5. ProbeUnderWay'
  <2> SUFFICES ASSUME NEW x \in End, Probing(x)' PROVE ProbeFrom(x)' \/ PacketFrom(Peer(x))'
    BY DEF ProbeUnderWay
  <2>1. ProbeFrom(x) \/ PacketFrom(Peer(x))
    BY <1>1 DEF Probing, ProbeUnderWay
  <2>2. \A y \in End : (ProbeFrom(y) => ProbeFrom(y)') /\ (PacketFrom(y) => PacketFrom(y)')
    BY <1>1, NothingIn DEF ProbeFrom, PacketFrom, IOTypeOK
  <2> QED  BY <2>1, <2>2
<1>6. LivePeerKept'
  BY <1>1 DEF LivePeerKept
<1> QED  BY <1>4, <1>5, <1>6

\* A unit moves from one queue of e to the next.
LEMMA MoveOK ==
    ASSUME IOInv, NEW e \in End, Write(e) \/ Carry(e)
    PROVE  IOInv'
<1> USE Peers DEF IOInv
<1>1. CASE Write(e)
  <2>1. /\ out[e] # <<>> /\ out[e] \in Seq(Unit) /\ snd[e] \in Seq(Unit)
        /\ Len(snd[e]) < SndBuf /\ Len(snd[e]) \in Nat /\ SndBuf \in Nat
        /\ snd' = [snd EXCEPT ![e] = Append(@, Head(out[e]))]
        /\ out' = [out EXCEPT ![e] = Tail(@)]
        /\ UNCHANGED <<load, run, cmds, rcv, got, recv_since_tick, keepalive_outstanding>>
    BY <1>1, LoopIOAssumption DEF Write, IOTypeOK, LoopIOAssumption
  <2>2. /\ Head(out[e]) \in Unit /\ Tail(out[e]) \in Seq(Unit)
        /\ EndsIn(out[e]) => EndsIn(Tail(out[e])) \/ EndsIn(Append(snd[e], Head(out[e])))
        /\ ProbeIn(out[e]) => ProbeIn(Tail(out[e])) \/ ProbeIn(Append(snd[e], Head(out[e])))
        /\ EndsIn(snd[e]) => EndsIn(Append(snd[e], Head(out[e])))
        /\ ProbeIn(snd[e]) => ProbeIn(Append(snd[e], Head(out[e])))
        /\ Append(snd[e], Head(out[e])) \in Seq(Unit)
        /\ Len(Append(snd[e], Head(out[e]))) <= SndBuf
    BY <2>1, Moved
  <2>3. IOTypeOK'
    BY <2>1, <2>2 DEF IOTypeOK
  <2>4. \A y \in End : (ProbeFrom(y) => ProbeFrom(y)') /\ (PacketFrom(y) => PacketFrom(y)')
    BY <2>1, <2>2 DEF ProbeFrom, PacketFrom, IOTypeOK
  <2>5. ProbeUnderWay' /\ LivePeerKept'
    BY <2>1, <2>4 DEF ProbeUnderWay, Probing, LivePeerKept
  <2> QED  BY <2>3, <2>5
<1>2. CASE Carry(e)
  <2>1. /\ snd[e] # <<>> /\ snd[e] \in Seq(Unit) /\ rcv[e] \in Seq(Unit)
        /\ Len(rcv[e]) < RcvBuf /\ Len(rcv[e]) \in Nat /\ RcvBuf \in Nat
        /\ Len(snd[e]) \in Nat /\ Len(snd[e]) <= SndBuf /\ SndBuf \in Nat
        /\ rcv' = [rcv EXCEPT ![e] = Append(@, Head(snd[e]))]
        /\ snd' = [snd EXCEPT ![e] = Tail(@)]
        /\ UNCHANGED <<load, run, out, cmds, got, recv_since_tick, keepalive_outstanding>>
    BY <1>2, LoopIOAssumption DEF Carry, IOTypeOK, LoopIOAssumption
  <2>2. /\ Head(snd[e]) \in Unit /\ Tail(snd[e]) \in Seq(Unit)
        /\ Len(Tail(snd[e])) <= SndBuf
        /\ EndsIn(snd[e]) => EndsIn(Tail(snd[e])) \/ EndsIn(Append(rcv[e], Head(snd[e])))
        /\ ProbeIn(snd[e]) => ProbeIn(Tail(snd[e])) \/ ProbeIn(Append(rcv[e], Head(snd[e])))
        /\ EndsIn(rcv[e]) => EndsIn(Append(rcv[e], Head(snd[e])))
        /\ ProbeIn(rcv[e]) => ProbeIn(Append(rcv[e], Head(snd[e])))
        /\ Append(rcv[e], Head(snd[e])) \in Seq(Unit)
        /\ Len(Append(rcv[e], Head(snd[e]))) <= RcvBuf
    BY <2>1, Moved
  <2>3. IOTypeOK'
    BY <2>1, <2>2 DEF IOTypeOK
  <2>4. \A y \in End : (ProbeFrom(y) => ProbeFrom(y)') /\ (PacketFrom(y) => PacketFrom(y)')
    BY <2>1, <2>2 DEF ProbeFrom, PacketFrom, IOTypeOK
  <2>5. ProbeUnderWay' /\ LivePeerKept'
    BY <2>1, <2>4 DEF ProbeUnderWay, Probing, LivePeerKept
  <2> QED  BY <2>3, <2>5
<1> QED  BY <1>1, <1>2

\* When nothing is left to move, nothing of two running ends is on the way to e
\* and nothing of e's to its peer: the probe has been answered.
LEMMA QuietMeansHeard ==
    ASSUME IOInv, NEW e \in End, Selecting(e), NothingToRead(e), Settled,
           run[Peer(e)] = "running"
    PROVE  ~Probing(e)
<1> DEFINE p == Peer(e)
<1> USE Peers DEF IOInv
<1>1. rcv[p] = <<>> /\ out[e] = <<>>
  BY DEF NothingToRead, Selecting
<1>2. RcvBuf # 0 /\ SndBuf # 0 /\ Len(<<>>) = 0
  BY LoopIOAssumption DEF LoopIOAssumption
<1>3. snd[p] = <<>>
  BY <1>1, <1>2 DEF Settled
<1>4. out[p] = <<>>
  BY <1>2, <1>3 DEF Settled
<1>5. Selecting(p)
  BY <1>4 DEF Selecting
<1>6. rcv[e] = <<>>
  BY <1>5 DEF Settled, NothingToRead
<1>7. snd[e] = <<>>
  BY <1>2, <1>6 DEF Settled
<1>8. ~ProbeFrom(e) /\ ~PacketFrom(p)
  BY <1>1, <1>3, <1>4, <1>6, <1>7, NothingIn DEF ProbeFrom, PacketFrom
<1> QED  BY <1>8 DEF ProbeUnderWay

\* A tick: a probe is queued before it is counted.
LEMMA TickOK == ASSUME IOInv, NEW e \in End, Tick(e) PROVE IOInv'
<1> USE Peers DEF IOInv
<1>0. /\ Selecting(e) /\ NothingToRead(e) /\ Settled
      /\ run[e] = "running" /\ out[e] = <<>>
      /\ UNCHANGED <<load, cmds, snd, rcv, got>>
  BY DEF Tick, Selecting
<1>m. MaxMissed \in Nat \ {0}
  BY LoopIOAssumption DEF LoopIOAssumption
<1>1. CASE /\ recv_since_tick' = [recv_since_tick EXCEPT ![e] = FALSE]
           /\ keepalive_outstanding' = [keepalive_outstanding EXCEPT ![e] = 0]
           /\ UNCHANGED <<run, out>>
  <2>1. IOTypeOK'
    BY <1>0, <1>1, <1>m DEF IOTypeOK
  <2>2. \A x \in End : Probing(x)' => Probing(x)
    BY <1>1 DEF Probing, IOTypeOK
  <2>3. ProbeUnderWay' /\ LivePeerKept'
    BY <1>0, <1>1, <2>2 DEF ProbeUnderWay, ProbeFrom, PacketFrom, LivePeerKept
  <2> QED  BY <2>1, <2>3
<1>2. CASE /\ ~HeardSinceTick(e) /\ TooManyMissed(e)
           /\ run' = [run EXCEPT ![e] = "unresponsive"]
           /\ UNCHANGED <<out, recv_since_tick, keepalive_outstanding>>
  <2>1. IOTypeOK'
    BY <1>0, <1>2 DEF IOTypeOK
  <2>2. run[Peer(e)] # "running"
    <3>1. ~recv_since_tick[e] /\ keepalive_outstanding[e] # 0
      BY <1>2, <1>m DEF HeardSinceTick, TooManyMissed, IOTypeOK
    <3> QED  BY <1>0, <3>1, QuietMeansHeard DEF Probing
  <2>3. \A x \in End : Probing(x)' => Probing(x)
    BY <1>2 DEF Probing, IOTypeOK
  <2>4. ProbeUnderWay'
    BY <1>0, <1>2, <2>3 DEF ProbeUnderWay, ProbeFrom, PacketFrom
  <2>5. LivePeerKept'
    BY <1>2, <2>2 DEF LivePeerKept, IOTypeOK
  <2> QED  BY <2>1, <2>4, <2>5
<1>3. CASE /\ ~HeardSinceTick(e) /\ ~TooManyMissed(e)
           /\ keepalive_outstanding' = [keepalive_outstanding EXCEPT ![e] = @ + 1]
           /\ out' = [out EXCEPT ![e] = Units("keepalive")]
           /\ UNCHANGED <<run, recv_since_tick>>
  <2>1. "keepalive" \in Kind
    BY DEF Kind
  <2>2. keepalive_outstanding[e] + 1 \in 0..MaxMissed
    BY <1>3, <1>m DEF TooManyMissed, IOTypeOK
  <2>3. IOTypeOK'
    BY <1>0, <1>3, <2>1, <2>2, Packets DEF IOTypeOK
  <2>4. ProbeFrom(e)'
    BY <1>3, <2>1, PacketHas DEF ProbeFrom, IOTypeOK
  <2>5. ASSUME NEW x \in End, x # e, Probing(x)'
        PROVE  ProbeFrom(x)' \/ PacketFrom(Peer(x))'
    <3>1. Probing(x)
      BY <1>3, <2>5 DEF Probing, IOTypeOK
    <3>2. ProbeFrom(x) \/ PacketFrom(Peer(x))
      BY <3>1 DEF ProbeUnderWay
    <3>3. ProbeFrom(x) => ProbeFrom(x)'
      BY <1>0, <1>3, <2>5 DEF ProbeFrom, IOTypeOK
    <3>4. PacketFrom(Peer(x)) => PacketFrom(Peer(x))'
      BY <1>0, <1>3, NothingIn DEF PacketFrom, IOTypeOK
    <3> QED  BY <3>2, <3>3, <3>4
  <2>6. ProbeUnderWay' /\ LivePeerKept'
    BY <1>3, <2>4, <2>5 DEF ProbeUnderWay, LivePeerKept
  <2> QED  BY <2>3, <2>6
<1> QED  BY <1>1, <1>2, <1>3 DEF Tick

\* A loop that has stopped owes nothing.
LEMMA HangOK == ASSUME IOInv, NEW e \in End, Hang(e) PROVE IOInv'
<1> USE Peers DEF IOInv
<1>1. /\ run[e] = "running" /\ run' = [run EXCEPT ![e] = "hung"]
      /\ UNCHANGED <<load, out, cmds, snd, rcv, got, recv_since_tick, keepalive_outstanding>>
  BY DEF Hang
<1>2. IOTypeOK'
  BY <1>1 DEF IOTypeOK
<1>3. \A x \in End : Probing(x)' => Probing(x)
  BY <1>1 DEF Probing, IOTypeOK
<1>4. ProbeUnderWay' /\ LivePeerKept'
  BY <1>1, <1>3 DEF ProbeUnderWay, ProbeFrom, PacketFrom, LivePeerKept, IOTypeOK
<1> QED  BY <1>2, <1>4

\* Every step keeps the invariant.
LEMMA NextOK == IOInv /\ [IONext]_ioVars => IOInv'
<1> SUFFICES ASSUME IOInv, [IONext]_ioVars PROVE IOInv'
  OBVIOUS
<1>1. CASE IONext
  BY <1>1, ReadOK, TakeCmdOK, MoveOK, TickOK, HangOK DEF IONext, Turn
<1>2. CASE UNCHANGED ioVars
  BY <1>2 DEF ioVars, IOInv, IOTypeOK, ProbeUnderWay, Probing, ProbeFrom, PacketFrom, LivePeerKept
<1> QED  BY <1>1, <1>2

-----------------------------------------------------------------------------
\* For any buffers, packets, workloads and number of probes: on_keepalive_tick
\* gives up a peer only when the peer's loop has stopped, provided that the
\* interval is longer than it takes for everything in motion to arrive.
THEOREM LivePeersKept == IOSpec => []LivePeerKept
<1>1. IOSpec => []IOInv
  BY InitOK, NextOK, PTL DEF IOSpec
<1>2. IOInv => LivePeerKept
  BY DEF IOInv
<1> QED  BY <1>1, <1>2, PTL

-----------------------------------------------------------------------------
(* Queues.                                                                 *)

\* A sequence, of whatever elements.
Listed(q) == Len(q) \in Nat /\ q = [i \in 1..Len(q) |-> q[i]]

\* It is a sequence of its own elements.
LEMMA ListedSeq ==
    ASSUME NEW q, Listed(q) PROVE q \in Seq({q[i] : i \in 1..Len(q)})
<1> DEFINE n == Len(q)  S == {q[i] : i \in 1..n}
<1>1. n \in Nat /\ q = [i \in 1..n |-> q[i]]
  BY DEF Listed
<1> HIDE DEF n
<1>2. [i \in 1..n |-> q[i]] \in [1..n -> S]
  OBVIOUS
<1>3. [i \in 1..n |-> q[i]] \in Seq(S)
  BY <1>1, <1>2, SMTT(60)
<1>4. q \in Seq(S)
  BY <1>1, <1>3
<1> QED  BY <1>4 DEF n

\* Every typed sequence is one.
LEMMA SeqListed ==
    ASSUME NEW S, NEW q \in Seq(S) PROVE Listed(q)
BY DEF Listed

\* The empty queue.
LEMMA EmptyListed == Listed(<<>>) /\ Len(<<>>) = 0
<1>1. <<>> \in Seq({}) /\ Len(<<>>) = 0
  OBVIOUS
<1> QED  BY <1>1, SeqListed

\* What a queue is after a message was put in it.
LEMMA Added ==
    ASSUME NEW q, Listed(q), NEW m, NEW q2, q2 = Append(q, m)
    PROVE  /\ Listed(q2) /\ Len(q) \in Nat /\ Len(q2) = Len(q) + 1
           /\ \A i \in 1..Len(q) : q2[i] = q[i]
           /\ q2[Len(q) + 1] = m
<1> DEFINE S == {q[i] : i \in 1..Len(q)} \cup {m}
<1>1. q \in Seq(S)
  <2>1. q \in Seq({q[i] : i \in 1..Len(q)})
    BY ListedSeq
  <2> QED  BY <2>1
<1>2. m \in S
  OBVIOUS
<1> HIDE DEF S
<1>3. q2 \in Seq(S)
  BY <1>1, <1>2
<1>4. Listed(q2)
  BY <1>3, SeqListed
<1> QED  BY <1>1, <1>2, <1>4

\* ... and after its first message was taken.
LEMMA Taken ==
    ASSUME NEW q, Listed(q), q # <<>>, NEW q2, q2 = Tail(q)
    PROVE  /\ Listed(q2) /\ Len(q) \in Nat \ {0} /\ Len(q2) = Len(q) - 1
           /\ \A i \in 1..Len(q2) : q2[i] = q[i + 1] /\ i + 1 \in 1..Len(q)
           /\ Head(q) = q[1]
<1> DEFINE S == {q[i] : i \in 1..Len(q)}
<1>1. q \in Seq(S)
  BY ListedSeq
<1> HIDE DEF S
<1>2. q2 \in Seq(S) /\ Len(q2) = Len(q) - 1 /\ Len(q) \in Nat \ {0} /\ Head(q) = q[1]
  BY <1>1
<1>3. \A i \in 1..Len(q2) : q2[i] = q[i + 1]
  BY <1>1
<1>4. \A i \in 1..Len(q2) : i + 1 \in 1..Len(q)
  BY <1>2
<1> QED  BY <1>2, <1>3, <1>4, SeqListed

\* Opens, their two answers, and closes, by the id they speak of.
Verdict == {"confirm", "failure"}
Tag(m) == IF m.type = "open" THEN m.id ELSE m.to
Has(q, T, x) == \E i \in 1..Len(q) : q[i].type \in T /\ Tag(q[i]) = x
Once(q, T) == \A i, j \in 1..Len(q) :
    q[i].type \in T /\ q[j].type \in T /\ Tag(q[i]) = Tag(q[j]) => i = j

\* As far as messages of types T go, a queue is as it was, has got the one
\* for x, or has lost the one for x.
Alike(q, q2, T) ==
    /\ \A x : Has(q2, T, x) <=> Has(q, T, x)
    /\ Once(q, T) => Once(q2, T)
Plus(q, q2, T, x) ==
    /\ \A y : Has(q2, T, y) <=> Has(q, T, y) \/ y = x
    /\ Once(q, T) /\ ~Has(q, T, x) => Once(q2, T)
Minus(q, q2, T, x) ==
    /\ Has(q, T, x)
    /\ Once(q, T) => Once(q2, T) /\ \A y : Has(q2, T, y) <=> Has(q, T, y) /\ y # x

\* A queue that nothing happened to.
LEMMA AlikeSame == \A q, T : Alike(q, q, T)
BY DEF Alike

\* Twice as it was.
LEMMA AlikeTwice ==
    ASSUME NEW q, NEW q2, NEW q3, NEW T, Alike(q, q2, T), Alike(q2, q3, T)
    PROVE  Alike(q, q3, T)
BY DEF Alike

\* The messages of a queue after one was added.
LEMMA HasAdded ==
    ASSUME NEW q, Listed(q), NEW m, NEW q2, q2 = Append(q, m), NEW T, NEW x
    PROVE  Has(q2, T, x) <=> Has(q, T, x) \/ (m.type \in T /\ Tag(m) = x)
<1>1. /\ Len(q) \in Nat /\ Len(q2) = Len(q) + 1
      /\ \A i \in 1..Len(q) : q2[i] = q[i]
      /\ q2[Len(q) + 1] = m
  BY Added
<1> DEFINE n == Len(q)  t == n + 1
<1>2. \A i : i \in 1..t <=> i \in 1..n \/ i = t
  BY <1>1
<1>3. Len(q2) = t /\ q2[t] = m /\ \A i \in 1..n : q2[i] = q[i]
  BY <1>1
<1> HIDE DEF n, t
<1>4. Has(q, T, x) <=> \E i \in 1..n : q[i].type \in T /\ Tag(q[i]) = x
  BY DEF Has, n
<1>5. Has(q2, T, x) <=> \E i \in 1..t : q2[i].type \in T /\ Tag(q2[i]) = x
  BY <1>3 DEF Has
<1>6. ASSUME Has(q2, T, x) PROVE Has(q, T, x) \/ (m.type \in T /\ Tag(m) = x)
  <2>1. PICK i \in 1..t : q2[i].type \in T /\ Tag(q2[i]) = x
    BY <1>5, <1>6
  <2>2. CASE i = t
    BY <1>3, <2>1, <2>2
  <2>3. CASE i \in 1..n
    BY <1>3, <1>4, <2>1, <2>3
  <2> QED  BY <1>2, <2>2, <2>3
<1>7. ASSUME Has(q, T, x) PROVE Has(q2, T, x)
  <2>1. PICK i \in 1..n : q[i].type \in T /\ Tag(q[i]) = x
    BY <1>4, <1>7
  <2> QED  BY <1>2, <1>3, <1>5, <2>1
<1>8. ASSUME m.type \in T, Tag(m) = x PROVE Has(q2, T, x)
  BY <1>2, <1>3, <1>5, <1>8
<1> QED  BY <1>6, <1>7, <1>8

\* ... and none of them twice.
LEMMA OnceAdded ==
    ASSUME NEW q, Listed(q), NEW m, NEW q2, q2 = Append(q, m), NEW T,
           Once(q, T), m.type \in T => ~Has(q, T, Tag(m))
    PROVE  Once(q2, T)
<1>1. /\ Len(q) \in Nat /\ Len(q2) = Len(q) + 1
      /\ \A i \in 1..Len(q) : q2[i] = q[i]
      /\ q2[Len(q) + 1] = m
  BY Added
<1> DEFINE n == Len(q)  t == n + 1
<1>2. \A i : i \in 1..t <=> i \in 1..n \/ i = t
  BY <1>1
<1>3. Len(q2) = t /\ q2[t] = m /\ \A i \in 1..n : q2[i] = q[i]
  BY <1>1
<1> HIDE DEF n, t
<1>4. \A i \in 1..n : m.type \in T => ~(q[i].type \in T /\ Tag(q[i]) = Tag(m))
  BY DEF Has, n
<1>5. \A i, j \in 1..n :
         q[i].type \in T /\ q[j].type \in T /\ Tag(q[i]) = Tag(q[j]) => i = j
  BY DEF Once, n
<1>6. ASSUME NEW i \in 1..t, NEW j \in 1..t,
             q2[i].type \in T, q2[j].type \in T, Tag(q2[i]) = Tag(q2[j])
      PROVE  i = j
  <2>1. (i \in 1..n \/ i = t) /\ (j \in 1..n \/ j = t)
    BY <1>2
  <2>2. CASE i \in 1..n /\ j \in 1..n
    BY <1>3, <1>5, <1>6, <2>2
  <2>3. CASE i \in 1..n /\ j = t
    BY <1>3, <1>4, <1>6, <2>3
  <2>4. CASE i = t /\ j \in 1..n
    BY <1>3, <1>4, <1>6, <2>4
  <2> QED  BY <2>1, <2>2, <2>3, <2>4
<1> QED  BY <1>3, <1>6 DEF Once

\* The messages of a queue after the first was taken.
LEMMA HasTaken ==
    ASSUME NEW q, Listed(q), q # <<>>, NEW q2, q2 = Tail(q), NEW T, NEW x
    PROVE  Has(q, T, x) <=> Has(q2, T, x) \/ (Head(q).type \in T /\ Tag(Head(q)) = x)
<1>1. /\ Len(q) \in Nat \ {0} /\ Len(q2) = Len(q) - 1
      /\ \A i \in 1..Len(q2) : q2[i] = q[i + 1] /\ i + 1 \in 1..Len(q)
      /\ Head(q) = q[1]
  BY Taken
<1>2. \A j \in 1..Len(q) : j = 1 \/ (j - 1 \in 1..Len(q2) /\ q2[j - 1] = q[j])
  <2>1. SUFFICES ASSUME NEW j \in 1..Len(q), j # 1
                 PROVE  j - 1 \in 1..Len(q2) /\ q2[j - 1] = q[j]
    OBVIOUS
  <2>2. j - 1 \in 1..Len(q2) /\ (j - 1) + 1 = j
    BY <1>1, <2>1
  <2> QED  BY <1>1, <2>2
<1>3. 1 \in 1..Len(q)
  BY <1>1
<1>4. ASSUME Has(q, T, x) PROVE Has(q2, T, x) \/ (Head(q).type \in T /\ Tag(Head(q)) = x)
  <2>1. PICK j \in 1..Len(q) : q[j].type \in T /\ Tag(q[j]) = x
    BY <1>4 DEF Has
  <2>2. CASE j = 1
    BY <1>1, <2>1, <2>2
  <2>3. CASE j - 1 \in 1..Len(q2) /\ q2[j - 1] = q[j]
    BY <2>1, <2>3 DEF Has
  <2> QED  BY <1>2, <2>2, <2>3
<1>5. ASSUME Has(q2, T, x) PROVE Has(q, T, x)
  <2>1. PICK i \in 1..Len(q2) : q2[i].type \in T /\ Tag(q2[i]) = x
    BY <1>5 DEF Has
  <2>2. q2[i] = q[i + 1] /\ i + 1 \in 1..Len(q)
    BY <1>1
  <2> QED  BY <2>1, <2>2 DEF Has
<1>6. ASSUME Head(q).type \in T, Tag(Head(q)) = x PROVE Has(q, T, x)
  BY <1>1, <1>3, <1>6 DEF Has
<1> QED  BY <1>4, <1>5, <1>6

\* ... and none of them twice, nor the one taken left.
LEMMA OnceTaken ==
    ASSUME NEW q, Listed(q), q # <<>>, NEW q2, q2 = Tail(q), NEW T, Once(q, T)
    PROVE  Once(q2, T) /\ (Head(q).type \in T => ~Has(q2, T, Tag(Head(q))))
<1>1. /\ Len(q) \in Nat \ {0} /\ Len(q2) = Len(q) - 1
      /\ \A i \in 1..Len(q2) : q2[i] = q[i + 1] /\ i + 1 \in 1..Len(q)
      /\ Head(q) = q[1]
  BY Taken
<1>2. /\ \A i \in 1..Len(q2) : i + 1 # 1
      /\ \A i, j \in 1..Len(q2) : i + 1 = j + 1 => i = j
      /\ 1 \in 1..Len(q)
  BY <1>1
<1>3. ASSUME NEW i \in 1..Len(q2), NEW j \in 1..Len(q2),
             q2[i].type \in T, q2[j].type \in T, Tag(q2[i]) = Tag(q2[j])
      PROVE  i = j
  <2>1. /\ q2[i] = q[i + 1] /\ i + 1 \in 1..Len(q)
        /\ q2[j] = q[j + 1] /\ j + 1 \in 1..Len(q)
    BY <1>1
  <2>2. i + 1 = j + 1
    BY <1>3, <2>1 DEF Once
  <2> QED  BY <1>2, <2>2
<1>4. ASSUME NEW i \in 1..Len(q2), Head(q).type \in T,
             q2[i].type \in T, Tag(q2[i]) = Tag(Head(q))
      PROVE  FALSE
  <2>1. q2[i] = q[i + 1] /\ i + 1 \in 1..Len(q)
    BY <1>1
  <2>2. i + 1 = 1
    BY <1>1, <1>2, <1>4, <2>1 DEF Once
  <2> QED  BY <1>2, <2>2
<1> QED  BY <1>3, <1>4 DEF Once, Has

\* Adding a message of another type, or the one for x.
LEMMA AlikeAdded ==
    ASSUME NEW q, Listed(q), NEW m, NEW q2, q2 = Append(q, m), NEW T, m.type \notin T
    PROVE  Alike(q, q2, T)
BY HasAdded, OnceAdded DEF Alike

\* Sending the message for x puts it there.
LEMMA PlusAdded ==
    ASSUME NEW q, Listed(q), NEW m, NEW q2, q2 = Append(q, m), NEW T, m.type \in T
    PROVE  Plus(q, q2, T, Tag(m))
<1>1. \A y : Has(q2, T, y) <=> Has(q, T, y) \/ Tag(m) = y
  BY HasAdded
<1>2. Once(q, T) /\ ~Has(q, T, Tag(m)) => Once(q2, T)
  BY OnceAdded
<1> QED  BY <1>1, <1>2 DEF Plus

\* Taking a message of another type, or the one for x.
LEMMA AlikeTaken ==
    ASSUME NEW q, Listed(q), q # <<>>, NEW q2, q2 = Tail(q), NEW T, Head(q).type \notin T
    PROVE  Alike(q, q2, T)
BY HasTaken, OnceTaken DEF Alike

\* Reading the message for x removes it.
LEMMA MinusTaken ==
    ASSUME NEW q, Listed(q), q # <<>>, NEW q2, q2 = Tail(q), NEW T, Head(q).type \in T
    PROVE  Minus(q, q2, T, Tag(Head(q)))
<1>1. \A y : Has(q, T, y) <=> Has(q2, T, y) \/ Tag(Head(q)) = y
  BY HasTaken
<1>2. Once(q, T) => Once(q2, T) /\ ~Has(q2, T, Tag(Head(q)))
  BY OnceTaken
<1> QED  BY <1>1, <1>2 DEF Minus

-----------------------------------------------------------------------------
(* Every open has one answer.                                              *)

Ids(S) == {c.id : c \in S}
Askers(S) == {c.peer : c \in S}

\* The opens of one end: pend is its table, wq its packets, conn the connects
\* of its peer, aq the peer's packets.  An open is in one place at most: under
\* way, waiting for its connect, or answered; and whoever asked knows of it.
Asked(pend, wq, conn, aq) ==
    /\ Once(wq, {"open"}) /\ Once(aq, Verdict)
    /\ \A c, d \in conn : c.peer = d.peer => c = d
    /\ \A o, p \in pend : o.id = p.id => o = p
    /\ \A x : Has(wq, {"open"}, x) => /\ x \in Ids(pend) /\ x \notin Askers(conn)
                                      /\ ~Has(aq, Verdict, x)
    /\ \A x \in Askers(conn) : x \in Ids(pend) /\ ~Has(aq, Verdict, x)
    /\ \A x : Has(aq, Verdict, x) => x \in Ids(pend)

\* ... and in one place at least, as long as both ends run.
Owed(pend, wq, conn, aq) ==
    \A x \in Ids(pend) : Has(wq, {"open"}, x) \/ x \in Askers(conn) \/ Has(aq, Verdict, x)

\* What a step may do to the opens of one end.
Untouched(pend, pend2, wq, wq2, conn, conn2, aq, aq2) ==
    /\ pend2 = pend /\ Alike(wq, wq2, {"open"}) /\ Alike(aq, aq2, Verdict)
    /\ Askers(conn2) = Askers(conn)
    /\ (\A c, d \in conn : c.peer = d.peer => c = d) =>
         \A c, d \in conn2 : c.peer = d.peer => c = d
Requested(pend, pend2, wq, wq2, conn, conn2, aq, aq2) ==
    \E o : /\ o.id \notin Ids(pend) /\ pend2 = pend \cup {o}
           /\ Plus(wq, wq2, {"open"}, o.id) /\ conn2 = conn /\ Alike(aq, aq2, Verdict)
Settles(pend, pend2, wq, wq2, conn, conn2, aq, aq2) ==
    \E x : /\ pend2 \subseteq pend /\ Ids(pend2) = Ids(pend) \ {x}
           /\ Alike(wq, wq2, {"open"}) /\ conn2 = conn /\ Minus(aq, aq2, Verdict, x)
Judged(pend, pend2, wq, wq2, conn, conn2, aq, aq2) ==
    \E x : /\ pend2 = pend /\ Minus(wq, wq2, {"open"}, x) /\ conn2 = conn
           /\ Plus(aq, aq2, Verdict, x)
Tried(pend, pend2, wq, wq2, conn, conn2, aq, aq2) ==
    \E c : /\ pend2 = pend /\ Minus(wq, wq2, {"open"}, c.peer) /\ conn2 = conn \cup {c}
           /\ Alike(aq, aq2, Verdict)
Reported(pend, pend2, wq, wq2, conn, conn2, aq, aq2) ==
    \E c \in conn : /\ pend2 = pend /\ Alike(wq, wq2, {"open"}) /\ conn2 = conn \ {c}
                    /\ Plus(aq, aq2, Verdict, c.peer)
Handled(pend, pend2, wq, wq2, conn, conn2, aq, aq2) ==
    \/ Untouched(pend, pend2, wq, wq2, conn, conn2, aq, aq2)
    \/ Requested(pend, pend2, wq, wq2, conn, conn2, aq, aq2)
    \/ Settles(pend, pend2, wq, wq2, conn, conn2, aq, aq2)
    \/ Judged(pend, pend2, wq, wq2, conn, conn2, aq, aq2)
    \/ Tried(pend, pend2, wq, wq2, conn, conn2, aq, aq2)
    \/ Reported(pend, pend2, wq, wq2, conn, conn2, aq, aq2)

\* Each of them keeps both.
LEMMA AskedKept ==
    ASSUME NEW pend, NEW pend2, NEW wq, NEW wq2, NEW conn, NEW conn2, NEW aq, NEW aq2,
           Asked(pend, wq, conn, aq),
           Handled(pend, pend2, wq, wq2, conn, conn2, aq, aq2)
    PROVE  /\ Asked(pend2, wq2, conn2, aq2)
           /\ Owed(pend, wq, conn, aq) => Owed(pend2, wq2, conn2, aq2)
<1>1. CASE Untouched(pend, pend2, wq, wq2, conn, conn2, aq, aq2)
  BY <1>1 DEF Untouched, Asked, Owed, Alike
<1>2. CASE Requested(pend, pend2, wq, wq2, conn, conn2, aq, aq2)
  <2>1. PICK o : /\ o.id \notin Ids(pend) /\ pend2 = pend \cup {o}
                 /\ Plus(wq, wq2, {"open"}, o.id) /\ conn2 = conn /\ Alike(aq, aq2, Verdict)
    BY <1>2 DEF Requested
  <2>2. Ids(pend2) = Ids(pend) \cup {o.id}
    BY <2>1 DEF Ids
  <2>3. \A p \in pend : p.id # o.id
    BY <2>1 DEF Ids
  <2>4. ~Has(wq, {"open"}, o.id) /\ o.id \notin Askers(conn) /\ ~Has(aq, Verdict, o.id)
    BY <2>1 DEF Asked
  <2>5. Asked(pend2, wq2, conn2, aq2)
    BY <2>1, <2>2, <2>3, <2>4 DEF Asked, Alike, Plus
  <2> QED  BY <2>1, <2>2, <2>5 DEF Owed, Alike, Plus
<1>3. CASE Settles(pend, pend2, wq, wq2, conn, conn2, aq, aq2)
  <2>1. PICK x : /\ pend2 \subseteq pend /\ Ids(pend2) = Ids(pend) \ {x}
                 /\ Alike(wq, wq2, {"open"}) /\ conn2 = conn /\ Minus(aq, aq2, Verdict, x)
    BY <1>3 DEF Settles
  <2>2. Asked(pend2, wq2, conn2, aq2)
    BY <2>1 DEF Asked, Alike, Minus
  <2> QED  BY <2>1, <2>2 DEF Owed, Asked, Alike, Minus
<1>4. CASE Judged(pend, pend2, wq, wq2, conn, conn2, aq, aq2)
  <2>1. PICK x : /\ pend2 = pend /\ Minus(wq, wq2, {"open"}, x) /\ conn2 = conn
                 /\ Plus(aq, aq2, Verdict, x)
    BY <1>4 DEF Judged
  <2>2. Asked(pend2, wq2, conn2, aq2)
    BY <2>1 DEF Asked, Plus, Minus
  <2> QED  BY <2>1, <2>2 DEF Owed, Asked, Plus, Minus
<1>5. CASE Tried(pend, pend2, wq, wq2, conn, conn2, aq, aq2)
  <2>1. PICK c : /\ pend2 = pend /\ Minus(wq, wq2, {"open"}, c.peer) /\ conn2 = conn \cup {c}
                 /\ Alike(aq, aq2, Verdict)
    BY <1>5 DEF Tried
  <2>2. Askers(conn2) = Askers(conn) \cup {c.peer}
    BY <2>1 DEF Askers
  <2>3. c.peer \notin Askers(conn) /\ \A d \in conn : d.peer # c.peer
    BY <2>1 DEF Asked, Minus, Askers
  <2>4. Asked(pend2, wq2, conn2, aq2)
    BY <2>1, <2>2, <2>3 DEF Asked, Alike, Minus
  <2> QED  BY <2>1, <2>2, <2>4 DEF Owed, Asked, Alike, Minus
<1>6. CASE Reported(pend, pend2, wq, wq2, conn, conn2, aq, aq2)
  <2>1. PICK c \in conn : /\ pend2 = pend /\ Alike(wq, wq2, {"open"}) /\ conn2 = conn \ {c}
                          /\ Plus(aq, aq2, Verdict, c.peer)
    BY <1>6 DEF Reported
  <2>2. c.peer \in Askers(conn) /\ Askers(conn2) = Askers(conn) \ {c.peer}
    BY <2>1 DEF Asked, Askers
  <2>3. Asked(pend2, wq2, conn2, aq2)
    BY <2>1, <2>2 DEF Asked, Alike, Plus
  <2> QED  BY <2>1, <2>2, <2>3 DEF Owed, Asked, Alike, Plus
<1> QED  BY <1>1, <1>2, <1>3, <1>4, <1>5, <1>6 DEF Handled

-----------------------------------------------------------------------------
(* Every channel has its other half.                                       *)

Confirm(x, i) == [type |-> "confirm", to |-> x, id |-> i]
On(q, m) == \E k \in 1..Len(q) : q[k] = m

\* A close for one of the ids of S is behind the confirmation of that id.
Ordered(q, S) ==
    \A k \in 1..Len(q) : q[k].type = "close" /\ q[k].to \in S =>
        \E j \in 1..(k - 1) : q[j].type = "confirm" /\ q[j].to = q[k].to

\* The packets after one was sent ...
LEMMA OnAdded ==
    ASSUME NEW q, Listed(q), NEW m, NEW q2, q2 = Append(q, m), NEW p
    PROVE  On(q2, p) <=> On(q, p) \/ m = p
<1>1. /\ Len(q) \in Nat /\ Len(q2) = Len(q) + 1
      /\ \A i \in 1..Len(q) : q2[i] = q[i]
      /\ q2[Len(q) + 1] = m
  BY Added
<1>2. \A i : i \in 1..Len(q2) <=> i \in 1..Len(q) \/ i = Len(q) + 1
  BY <1>1
<1>3. ASSUME On(q2, p) PROVE On(q, p) \/ m = p
  <2>1. PICK i \in 1..Len(q2) : q2[i] = p
    BY <1>3 DEF On
  <2>2. CASE i = Len(q) + 1
    BY <1>1, <2>1, <2>2
  <2>3. CASE i \in 1..Len(q)
    BY <1>1, <2>1, <2>3 DEF On
  <2> QED  BY <1>2, <2>2, <2>3
<1>4. ASSUME On(q, p) PROVE On(q2, p)
  <2>1. PICK i \in 1..Len(q) : q[i] = p
    BY <1>4 DEF On
  <2> QED  BY <1>1, <1>2, <2>1 DEF On
<1>5. ASSUME m = p PROVE On(q2, p)
  BY <1>1, <1>2, <1>5 DEF On
<1> QED  BY <1>3, <1>4, <1>5

\* A close that is sent behind its confirmation keeps the order.
LEMMA OrderedAdded ==
    ASSUME NEW q, Listed(q), NEW m, NEW q2, q2 = Append(q, m), NEW S, Ordered(q, S),
           m.type = "close" /\ m.to \in S => \E i : On(q, Confirm(m.to, i))
    PROVE  Ordered(q2, S)
<1>1. /\ Len(q) \in Nat /\ Len(q2) = Len(q) + 1
      /\ \A i \in 1..Len(q) : q2[i] = q[i]
      /\ q2[Len(q) + 1] = m
  BY Added
<1>2. \A i \in 1..Len(q2) : i \in 1..Len(q) \/ i = Len(q) + 1
  BY <1>1
<1> SUFFICES ASSUME NEW k \in 1..Len(q2), q2[k].type = "close", q2[k].to \in S
             PROVE  \E j \in 1..(k - 1) : q2[j].type = "confirm" /\ q2[j].to = q2[k].to
  BY DEF Ordered
<1>3. CASE k \in 1..Len(q)
  <2>1. PICK j \in 1..(k - 1) : q[j].type = "confirm" /\ q[j].to = q[k].to
    BY <1>1, <1>3 DEF Ordered
  <2>2. j \in 1..Len(q)
    BY <1>1, <1>3
  <2> QED  BY <1>1, <1>3, <2>1, <2>2
<1>4. CASE k = Len(q) + 1
  <2>1. PICK i : On(q, Confirm(m.to, i))
    BY <1>1, <1>4
  <2>2. PICK j \in 1..Len(q) : q[j] = Confirm(m.to, i)
    BY <2>1 DEF On
  <2>3. q[j].type = "confirm" /\ q[j].to = m.to /\ q2[j] = q[j] /\ j \in 1..(k - 1)
    BY <1>1, <1>4, <2>2 DEF Confirm
  <2> QED  BY <1>1, <1>4, <2>3
<1> QED  BY <1>2, <1>3, <1>4

\* ... and after the first was taken.
LEMMA OnTaken ==
    ASSUME NEW q, Listed(q), q # <<>>, NEW q2, q2 = Tail(q), NEW p
    PROVE  On(q, p) <=> On(q2, p) \/ Head(q) = p
<1>1. /\ Len(q) \in Nat \ {0} /\ Len(q2) = Len(q) - 1
      /\ \A i \in 1..Len(q2) : q2[i] = q[i + 1] /\ i + 1 \in 1..Len(q)
      /\ Head(q) = q[1]
  BY Taken
<1>2. \A j \in 1..Len(q) : j = 1 \/ (j - 1 \in 1..Len(q2) /\ q2[j - 1] = q[j])
  <2>1. SUFFICES ASSUME NEW j \in 1..Len(q), j # 1
                 PROVE  j - 1 \in 1..Len(q2) /\ q2[j - 1] = q[j]
    OBVIOUS
  <2>2. j - 1 \in 1..Len(q2) /\ (j - 1) + 1 = j
    BY <1>1, <2>1
  <2> QED  BY <1>1, <2>2
<1>3. 1 \in 1..Len(q)
  BY <1>1
<1>4. ASSUME On(q, p) PROVE On(q2, p) \/ Head(q) = p
  <2>1. PICK j \in 1..Len(q) : q[j] = p
    BY <1>4 DEF On
  <2>2. CASE j = 1
    BY <1>1, <2>1, <2>2
  <2>3. CASE j - 1 \in 1..Len(q2) /\ q2[j - 1] = q[j]
    BY <2>1, <2>3 DEF On
  <2> QED  BY <1>2, <2>2, <2>3
<1>5. ASSUME On(q2, p) PROVE On(q, p)
  <2>1. PICK i \in 1..Len(q2) : q2[i] = p
    BY <1>5 DEF On
  <2> QED  BY <1>1, <2>1 DEF On
<1>6. ASSUME Head(q) = p PROVE On(q, p)
  BY <1>1, <1>3, <1>6 DEF On
<1> QED  BY <1>4, <1>5, <1>6

\* Reading keeps the order: no close is read before its confirmation.
LEMMA OrderedTaken ==
    ASSUME NEW q, Listed(q), q # <<>>, NEW q2, q2 = Tail(q), NEW S, Ordered(q, S),
           NEW S2 \in SUBSET S, Head(q).type = "confirm" => Head(q).to \notin S2
    PROVE  Ordered(q2, S2) /\ (Head(q).type = "close" => Head(q).to \notin S)
<1>1. /\ Len(q) \in Nat \ {0} /\ Len(q2) = Len(q) - 1
      /\ \A i \in 1..Len(q2) : q2[i] = q[i + 1] /\ i + 1 \in 1..Len(q)
      /\ Head(q) = q[1]
  BY Taken
<1>2. ASSUME NEW k \in 1..Len(q2), q2[k].type = "close", q2[k].to \in S2
      PROVE  \E j \in 1..(k - 1) : q2[j].type = "confirm" /\ q2[j].to = q2[k].to
  <2>1. q2[k] = q[k + 1] /\ k + 1 \in 1..Len(q) /\ k \in Nat /\ (k + 1) - 1 = k
    BY <1>1
  <2>2. PICK j \in 1..k : q[j].type = "confirm" /\ q[j].to = q[k + 1].to
    BY <1>2, <2>1 DEF Ordered
  <2>3. j # 1
    BY <1>1, <1>2, <2>1, <2>2
  <2>4. j - 1 \in 1..(k - 1) /\ j - 1 \in 1..Len(q2) /\ (j - 1) + 1 = j
    BY <1>1, <2>1, <2>3
  <2>5. q2[j - 1] = q[j]
    BY <1>1, <2>4
  <2> QED  BY <2>1, <2>2, <2>4, <2>5
<1>3. ASSUME Head(q).type = "close", Head(q).to \in S PROVE FALSE
  <2>1. 1 \in 1..Len(q) /\ 1..(1 - 1) = {}
    BY <1>1
  <2> QED  BY <1>1, <1>3, <2>1 DEF Ordered
<1> QED  BY <1>2, <1>3 DEF Ordered

\* The ids of an end: n is the next one.
Fresh(C, P, n) ==
    /\ n \in Nat
    /\ \A x \in Ids(P) \cup Ids(C) : x \in Nat /\ x < n
    /\ \A x \in Ids(P) : x \notin Ids(C)
    /\ \A c, d \in C : c.id = d.id => c = d

\* One end, with channels C, opens P and packets we, seen with the channels D
\* and the packets wp of its peer.  A channel has its other half, unless the
\* peer has yet to read of it or the close for it is on its way; and the last
\* is so whenever the peer has closed and this end does not know yet.
Mate(c, D) == \E d \in D : d.id = c.peer /\ d.peer = c.id
Half(C, D, P, we, wp, n) ==
    /\ \A c \in C : \/ On(we, Confirm(c.peer, c.id)) \/ Mate(c, D)
                    \/ Has(wp, {"close"}, c.id)
    /\ \A d \in D : d.sent_close /\ d.peer \in Ids(P) \cup Ids(C) =>
                        Has(wp, {"close"}, d.peer)
    /\ Ordered(wp, Ids(P))
    /\ \A d \in D : d.peer \in Ids(P) => On(wp, Confirm(d.peer, d.id))
    /\ \A x, i : On(we, Confirm(x, i)) => i \in Nat /\ i < n /\ i \notin Ids(P)
    /\ \A d \in D : d.peer \in Nat /\ d.peer < n
    /\ \A x : Has(wp, {"close"}, x) => x \in Nat /\ x < n
    /\ \A x, i : On(wp, Confirm(x, i)) =>
           /\ \E d \in D : d.id = i /\ d.peer = x
           /\ ~Has(we, {"close"}, i)
           /\ \A c \in C : c.peer # i

\* Both ends.
Pair(C, P, n, we, D, Q, k, wp) ==
    /\ Fresh(C, P, n) /\ Fresh(D, Q, k)
    /\ Half(C, D, P, we, wp, n) /\ Half(D, C, Q, wp, we, k)

\* As far as confirmations and closes go, a queue is as it was.
Level(q, q2) ==
    /\ \A x, i : On(q2, Confirm(x, i)) <=> On(q, Confirm(x, i))
    /\ \A x : Has(q2, {"close"}, x) <=> Has(q, {"close"}, x)
    /\ \A S : Ordered(q, S) => Ordered(q2, S)

\* A queue that nothing happened to.
LEMMA LevelSame == \A q : Level(q, q)
BY DEF Level

\* Neither a message of another type that is added ...
LEMMA LevelAdded ==
    ASSUME NEW q, Listed(q), NEW m, NEW q2, q2 = Append(q, m),
           m.type \notin {"confirm", "close"}
    PROVE  Level(q, q2)
<1>1. \A x, i : On(q2, Confirm(x, i)) <=> On(q, Confirm(x, i))
  <2>1. \A x, i : m # Confirm(x, i)
    BY DEF Confirm
  <2> QED  BY <2>1, OnAdded
<1>2. \A x : Has(q2, {"close"}, x) <=> Has(q, {"close"}, x)
  BY HasAdded
<1>3. \A S : Ordered(q, S) => Ordered(q2, S)
  BY OrderedAdded
<1> QED  BY <1>1, <1>2, <1>3 DEF Level

\* ... nor one that is taken matters.
LEMMA LevelTaken ==
    ASSUME NEW q, Listed(q), q # <<>>, NEW q2, q2 = Tail(q),
           Head(q).type \notin {"confirm", "close"}
    PROVE  Level(q, q2)
<1>1. \A x, i : On(q2, Confirm(x, i)) <=> On(q, Confirm(x, i))
  <2>1. \A x, i : Head(q) # Confirm(x, i)
    BY DEF Confirm
  <2> QED  BY <2>1, OnTaken
<1>2. \A x : Has(q2, {"close"}, x) <=> Has(q, {"close"}, x)
  BY HasTaken
<1>3. ASSUME NEW S, Ordered(q, S) PROVE Ordered(q2, S)
  BY <1>3, OrderedTaken
<1> QED  BY <1>1, <1>2, <1>3 DEF Level

\* Packets that are neither leave the pair as it is.
LEMMA PairLevel ==
    ASSUME NEW C, NEW P, NEW n, NEW we, NEW D, NEW Q, NEW k, NEW wp,
           Pair(C, P, n, we, D, Q, k, wp),
           NEW we2, Level(we, we2), NEW wp2, Level(wp, wp2)
    PROVE  Pair(C, P, n, we2, D, Q, k, wp2)
<1>1. Half(C, D, P, we2, wp2, n)
  BY DEF Pair, Half, Level
<1>2. Half(D, C, Q, wp2, we2, k)
  BY DEF Pair, Half, Level
<1> QED  BY <1>1, <1>2 DEF Pair

\* An end asks for a channel, under its next id.
LEMMA PairOpen ==
    ASSUME NEW C, NEW P, NEW n, NEW we, NEW D, NEW Q, NEW k, NEW wp,
           Pair(C, P, n, we, D, Q, k, wp),
           NEW o, o.id = n, NEW P2, P2 = P \cup {o}, NEW we2, Level(we, we2)
    PROVE  Pair(C, P2, n + 1, we2, D, Q, k, wp)
<1>1. Ids(P2) = Ids(P) \cup {n}
  BY DEF Ids
<1>2. n \in Nat /\ n + 1 \in Nat /\ n < n + 1 /\ \A x \in Nat : x < n => x < n + 1 /\ x # n
  BY DEF Pair, Fresh
<1>3. Fresh(C, P2, n + 1)
  BY <1>1, <1>2 DEF Pair, Fresh
<1>4. Half(C, D, P2, we2, wp, n + 1)
  <2>1. Ordered(wp, Ids(P2))
    <3>1. \A j \in 1..Len(wp) : wp[j].type = "close" => wp[j].to # n
      <4>1. \A x : Has(wp, {"close"}, x) => x # n
        BY <1>2 DEF Pair, Half
      <4> QED  BY <4>1 DEF Has, Tag
    <3> QED  BY <1>1, <3>1 DEF Pair, Half, Ordered
  <2>2. \A d \in D : d.peer # n /\ (d.peer \in Ids(P2) => d.peer \in Ids(P))
    BY <1>1, <1>2 DEF Pair, Half
  <2>3. \A x, i : On(we2, Confirm(x, i)) => i \in Nat /\ i < n + 1 /\ i \notin Ids(P2)
    BY <1>1, <1>2 DEF Pair, Half, Level
  <2> QED  BY <1>2, <2>1, <2>2, <2>3 DEF Pair, Half, Level
<1>5. Half(D, C, Q, wp, we2, k)
  BY DEF Pair, Half, Level
<1> QED  BY <1>3, <1>4, <1>5 DEF Pair

\* An end accepts what its peer asked for as x, under its next id.
LEMMA PairAccept ==
    ASSUME NEW C, NEW P, NEW n, NEW we, NEW D, NEW Q, NEW k, NEW wp,
           Pair(C, P, n, we, D, Q, k, wp), Listed(we),
           NEW x \in Ids(Q), NEW c, c.id = n, c.peer = x, ~c.sent_close,
           NEW C2, C2 = C \cup {c}, NEW we2, we2 = Append(we, Confirm(x, n)),
           NEW wp2, Level(wp, wp2)
    PROVE  Pair(C2, P, n + 1, we2, D, Q, k, wp2)
<1>1. Ids(C2) = Ids(C) \cup {n}
  BY DEF Ids
<1>2. /\ n \in Nat /\ n + 1 \in Nat /\ n < n + 1 /\ \A y \in Nat : y < n => y < n + 1 /\ y # n
      /\ x \in Nat /\ x < k
  BY DEF Pair, Fresh
<1>3. \A d \in C : d.id # n
  BY <1>2, ZenonT(60) DEF Pair, Fresh, Ids
<1>4. Fresh(C2, P, n + 1)
  BY <1>1, <1>2, <1>3 DEF Pair, Fresh
<1>5. /\ \A y, i : On(we2, Confirm(y, i)) <=> On(we, Confirm(y, i)) \/ (y = x /\ i = n)
      /\ \A y : Has(we2, {"close"}, y) <=> Has(we, {"close"}, y)
      /\ Ordered(we, Ids(Q)) => Ordered(we2, Ids(Q))
  <2> DEFINE m == Confirm(x, n)
  <2>1. m.type = "confirm" /\ \A y, i : m = Confirm(y, i) <=> (y = x /\ i = n)
    BY DEF Confirm
  <2> HIDE DEF m
  <2>2. we2 = Append(we, m)
    BY DEF m
  <2>3. \A y, i : On(we2, Confirm(y, i)) <=> On(we, Confirm(y, i)) \/ (y = x /\ i = n)
    BY <2>1, <2>2, OnAdded
  <2>4. \A y : Has(we2, {"close"}, y) <=> Has(we, {"close"}, y)
    BY <2>1, <2>2, HasAdded
  <2>5. Ordered(we, Ids(Q)) => Ordered(we2, Ids(Q))
    BY <2>1, <2>2, OrderedAdded
  <2> QED  BY <2>3, <2>4, <2>5
<1>6. Half(C2, D, P, we2, wp2, n + 1)
  <2>1. \A d \in C2 : \/ On(we2, Confirm(d.peer, d.id)) \/ Mate(d, D)
                      \/ Has(wp2, {"close"}, d.id)
    BY <1>5 DEF Pair, Half, Level
  <2>2. \A d \in D : d.peer # n /\ d.peer \in Nat /\ d.peer < n + 1
    BY <1>2 DEF Pair, Half
  <2>3. \A d \in D : d.sent_close /\ d.peer \in Ids(P) \cup Ids(C2) =>
                         Has(wp2, {"close"}, d.peer)
    BY <1>1, <2>2 DEF Pair, Half, Level
  <2>4. \A y, i : On(we2, Confirm(y, i)) => i \in Nat /\ i < n + 1 /\ i \notin Ids(P)
    BY <1>2, <1>5 DEF Pair, Half, Fresh
  <2>5. \A y, i : On(wp2, Confirm(y, i)) =>
           /\ \E d \in D : d.id = i /\ d.peer = y
           /\ ~Has(we2, {"close"}, i)
           /\ \A d \in C2 : d.peer # i
    <3>1. \A y, i : On(wp, Confirm(y, i)) => i \notin Ids(Q)
      BY DEF Pair, Half
    <3> QED  BY <1>5, <3>1 DEF Pair, Half, Level
  <2>6. \A y : Has(wp2, {"close"}, y) => y \in Nat /\ y < n + 1
    BY <1>2 DEF Pair, Half, Level
  <2>7. Ordered(wp2, Ids(P)) /\ \A d \in D : d.peer \in Ids(P) => On(wp2, Confirm(d.peer, d.id))
    BY DEF Pair, Half, Level
  <2> QED  BY <2>1, <2>2, <2>3, <2>4, <2>5, <2>6, <2>7 DEF Half
<1>7. Half(D, C2, Q, wp2, we2, k)
  <2>1. \A d \in D : \/ On(wp2, Confirm(d.peer, d.id)) \/ Mate(d, C2)
                     \/ Has(we2, {"close"}, d.id)
    BY <1>5 DEF Pair, Half, Level, Mate
  <2>2. \A d \in C2 : d.sent_close /\ d.peer \in Ids(Q) \cup Ids(D) =>
                          Has(we2, {"close"}, d.peer)
    BY <1>5 DEF Pair, Half
  <2>3. Ordered(we2, Ids(Q))
    BY <1>5 DEF Pair, Half
  <2>4. \A d \in C2 : d.peer \in Ids(Q) => On(we2, Confirm(d.peer, d.id))
    BY <1>5 DEF Pair, Half
  <2>5. \A y, i : On(wp2, Confirm(y, i)) => i \in Nat /\ i < k /\ i \notin Ids(Q)
    BY DEF Pair, Half, Level
  <2>6. \A d \in C2 : d.peer \in Nat /\ d.peer < k
    BY <1>2 DEF Pair, Half
  <2>7. \A y : Has(we2, {"close"}, y) => y \in Nat /\ y < k
    BY <1>5 DEF Pair, Half
  <2>8. \A y, i : On(we2, Confirm(y, i)) =>
           /\ \E d \in C2 : d.id = i /\ d.peer = y
           /\ ~Has(wp2, {"close"}, i)
           /\ \A d \in D : d.peer # i
    <3>1. ~Has(wp2, {"close"}, n) /\ \A d \in D : d.peer # n
      BY <1>2 DEF Pair, Half, Level
    <3> QED  BY <1>5, <3>1 DEF Pair, Half, Level
  <2> QED  BY <2>1, <2>2, <2>3, <2>4, <2>5, <2>6, <2>7, <2>8 DEF Half
<1> QED  BY <1>4, <1>6, <1>7 DEF Pair

\* An end reads that what it asked for as x is its peer's i.
LEMMA PairConfirm ==
    ASSUME NEW C, NEW P, NEW n, NEW we, NEW D, NEW Q, NEW k, NEW wp,
           Pair(C, P, n, we, D, Q, k, wp), Listed(wp), Once(wp, Verdict), wp # <<>>,
           NEW x, NEW i, Head(wp) = Confirm(x, i), NEW wp2, wp2 = Tail(wp), x \in Ids(P),
           NEW c, c.id = x, c.peer = i, ~c.sent_close, NEW C2, C2 = C \cup {c},
           NEW P2, P2 \subseteq P, Ids(P2) = Ids(P) \ {x}
    PROVE  Pair(C2, P2, n, we, D, Q, k, wp2)
<1>1. Ids(C2) = Ids(C) \cup {x} /\ Ids(P2) \cup Ids(C2) \subseteq Ids(P) \cup Ids(C)
  BY DEF Ids
<1>2. Head(wp).type = "confirm" /\ Head(wp).to = x /\ Tag(Head(wp)) = x /\ "confirm" \in Verdict
  BY DEF Confirm, Tag, Verdict
<1>3. \A y, j : On(wp, Confirm(y, j)) <=> On(wp2, Confirm(y, j)) \/ (y = x /\ j = i)
  <2> DEFINE m == Head(wp)
  <2>1. \A y, j : m = Confirm(y, j) <=> (y = x /\ j = i)
    BY DEF Confirm
  <2> HIDE DEF m
  <2>2. \A y, j : On(wp, Confirm(y, j)) <=> On(wp2, Confirm(y, j)) \/ m = Confirm(y, j)
    BY OnTaken DEF m
  <2> QED  BY <2>1, <2>2
<1>4. /\ \A y : Has(wp2, {"close"}, y) <=> Has(wp, {"close"}, y)
      /\ ~Has(wp2, Verdict, x)
  <2>1. Head(wp).type \notin {"close"} /\ Head(wp).type \in Verdict
    BY <1>2
  <2>2. Alike(wp, wp2, {"close"})
    BY <2>1, AlikeTaken
  <2>3. Minus(wp, wp2, Verdict, x)
    BY <1>2, <2>1, MinusTaken
  <2> QED  BY <2>2, <2>3 DEF Alike, Minus
<1>5. \A j : ~On(wp2, Confirm(x, j))
  <2>1. SUFFICES ASSUME NEW j, On(wp2, Confirm(x, j)) PROVE FALSE
    OBVIOUS
  <2>2. PICK l \in 1..Len(wp2) : wp2[l] = Confirm(x, j)
    BY <2>1 DEF On
  <2>3. wp2[l].type \in Verdict /\ Tag(wp2[l]) = x
    BY <2>2 DEF Confirm, Tag, Verdict
  <2> QED  BY <1>4, <2>3 DEF Has
<1>6. Ordered(wp2, Ids(P2))
  BY <1>2, OrderedTaken DEF Pair, Half
<1>7. /\ i \in Nat /\ i < k /\ i \notin Ids(Q) /\ ~Has(we, {"close"}, i)
      /\ \E d \in D : d.id = i /\ d.peer = x
  <2>1. On(wp, Confirm(x, i))
    BY <1>3
  <2> QED  BY <2>1 DEF Pair, Half
<1>8. \A y, j : On(wp2, Confirm(y, j)) => On(wp, Confirm(y, j)) /\ j # i
  <2>1. SUFFICES ASSUME NEW y, On(wp2, Confirm(y, i)) PROVE FALSE
    BY <1>3
  <2>2. On(wp, Confirm(y, i)) /\ On(wp, Confirm(x, i))
    BY <1>3, <2>1
  <2>3. y = x
    BY <2>2 DEF Pair, Half, Fresh
  <2> QED  BY <1>5, <2>1, <2>3
<1>9. Fresh(C2, P2, n)
  <2>1. x \notin Ids(C) /\ \A d \in C : d.id # x
    BY ZenonT(60) DEF Pair, Fresh, Ids
  <2> QED  BY <1>1, <2>1 DEF Pair, Fresh
<1>10. Half(C2, D, P2, we, wp2, n)
  <2>1. \A d \in C2 : \/ On(we, Confirm(d.peer, d.id)) \/ Mate(d, D)
                      \/ Has(wp2, {"close"}, d.id)
    <3>1. Mate(c, D)
      BY <1>7 DEF Mate
    <3> QED  BY <1>4, <3>1 DEF Pair, Half
  <2>2. \A d \in D : d.sent_close /\ d.peer \in Ids(P2) \cup Ids(C2) =>
                         Has(wp2, {"close"}, d.peer)
    BY <1>1, <1>4 DEF Pair, Half
  <2>3. \A d \in D : d.peer \in Ids(P2) => On(wp2, Confirm(d.peer, d.id))
    BY <1>3 DEF Pair, Half
  <2>4. \A y, j : On(wp2, Confirm(y, j)) =>
           /\ \E d \in D : d.id = j /\ d.peer = y
           /\ ~Has(we, {"close"}, j)
           /\ \A d \in C2 : d.peer # j
    BY <1>8 DEF Pair, Half
  <2>5. /\ \A y, j : On(we, Confirm(y, j)) => j \in Nat /\ j < n /\ j \notin Ids(P2)
        /\ \A d \in D : d.peer \in Nat /\ d.peer < n
        /\ \A y : Has(wp2, {"close"}, y) => y \in Nat /\ y < n
    BY <1>4 DEF Pair, Half
  <2> QED  BY <1>6, <2>1, <2>2, <2>3, <2>4, <2>5 DEF Half
<1>11. Half(D, C2, Q, wp2, we, k)
  <2>1. \A d \in D : \/ On(wp2, Confirm(d.peer, d.id)) \/ Mate(d, C2)
                     \/ Has(we, {"close"}, d.id)
    <3>1. \A d \in D : d.peer = x /\ d.id = i => Mate(d, C2)
      BY DEF Mate
    <3>2. \A d \in D : Mate(d, C) => Mate(d, C2)
      BY DEF Mate
    <3> QED  BY <1>3, <3>1, <3>2 DEF Pair, Half
  <2>2. \A d \in C2 : d.sent_close /\ d.peer \in Ids(Q) \cup Ids(D) =>
                          Has(we, {"close"}, d.peer)
    BY DEF Pair, Half
  <2>3. \A d \in C2 : d.peer \in Ids(Q) => On(we, Confirm(d.peer, d.id))
    BY <1>7 DEF Pair, Half
  <2>4. \A d \in C2 : d.peer \in Nat /\ d.peer < k
    BY <1>7 DEF Pair, Half
  <2>5. \A y, j : On(we, Confirm(y, j)) =>
           /\ \E d \in C2 : d.id = j /\ d.peer = y
           /\ ~Has(wp2, {"close"}, j)
           /\ \A d \in D : d.peer # j
    BY <1>4 DEF Pair, Half
  <2>6. /\ Ordered(we, Ids(Q))
        /\ \A y, j : On(wp2, Confirm(y, j)) => j \in Nat /\ j < k /\ j \notin Ids(Q)
        /\ \A y : Has(we, {"close"}, y) => y \in Nat /\ y < k
    BY <1>8 DEF Pair, Half
  <2> QED  BY <2>1, <2>2, <2>3, <2>4, <2>5, <2>6 DEF Half
<1> QED  BY <1>9, <1>10, <1>11 DEF Pair

\* An end reads that what it asked for as x is refused.
LEMMA PairRefused ==
    ASSUME NEW C, NEW P, NEW n, NEW we, NEW D, NEW Q, NEW k, NEW wp,
           Pair(C, P, n, we, D, Q, k, wp), NEW wp2, Level(wp, wp2),
           NEW P2, P2 \subseteq P
    PROVE  Pair(C, P2, n, we, D, Q, k, wp2)
<1>1. Ids(P2) \subseteq Ids(P)
  BY DEF Ids
<1>2. Ordered(wp2, Ids(P2))
  BY <1>1, ZenonT(60) DEF Pair, Half, Level, Ordered
<1>3. Fresh(C, P2, n)
  BY <1>1 DEF Pair, Fresh
<1>4. Half(C, D, P2, we, wp2, n)
  BY <1>1, <1>2 DEF Pair, Half, Level
<1>5. Half(D, C, Q, wp2, we, k)
  BY DEF Pair, Half, Level
<1> QED  BY <1>3, <1>4, <1>5 DEF Pair

\* The packets of an end that has sent a close for x.
Closes(we, we2, x) ==
    /\ \A y, i : On(we2, Confirm(y, i)) <=> On(we, Confirm(y, i))
    /\ \A y : Has(we2, {"close"}, y) <=> Has(we, {"close"}, y) \/ y = x
    /\ \A S : Ordered(we, S) /\ (x \in S => \E i : On(we, Confirm(x, i))) => Ordered(we2, S)

\* An end that sends a close.
LEMMA CloseSent ==
    ASSUME NEW we, Listed(we), NEW x, NEW we2, we2 = Append(we, [type |-> "close", to |-> x])
    PROVE  Closes(we, we2, x)
<1> DEFINE m == [type |-> "close", to |-> x]
<1>1. m.type = "close" /\ m.to = x /\ Tag(m) = x /\ \A y, i : m # Confirm(y, i)
  BY DEF Tag, Confirm
<1> HIDE DEF m
<1>2. we2 = Append(we, m)
  BY DEF m
<1>3. ASSUME NEW y, NEW i PROVE On(we2, Confirm(y, i)) <=> On(we, Confirm(y, i))
  <2>1. On(we2, Confirm(y, i)) <=> On(we, Confirm(y, i)) \/ m = Confirm(y, i)
    BY <1>2, OnAdded
  <2> QED  BY <1>1, <2>1
<1>4. \A y : Has(we2, {"close"}, y) <=> Has(we, {"close"}, y) \/ y = x
  <2>1. Plus(we, we2, {"close"}, Tag(m))
    BY <1>1, <1>2, PlusAdded
  <2> QED  BY <1>1, <2>1 DEF Plus
<1>5. ASSUME NEW S, Ordered(we, S), x \in S => \E i : On(we, Confirm(x, i))
      PROVE  Ordered(we2, S)
  <2>1. m.type = "close" /\ m.to \in S => \E i : On(we, Confirm(m.to, i))
    BY <1>1, <1>5
  <2> QED  BY <1>2, <1>5, <2>1, OrderedAdded
<1> QED  BY <1>3, <1>4, <1>5 DEF Closes

\* An end closes its half of c.
LEMMA PairClose ==
    ASSUME NEW C, NEW P, NEW n, NEW we, NEW D, NEW Q, NEW k, NEW wp,
           Pair(C, P, n, we, D, Q, k, wp), Listed(we),
           NEW c \in C, NEW c2, c2.id = c.id, c2.peer = c.peer,
           NEW C2, C2 = (C \ {c}) \cup {c2},
           NEW we2, we2 = Append(we, [type |-> "close", to |-> c.peer])
    PROVE  Pair(C2, P, n, we2, D, Q, k, wp)
<1>1. /\ \A y, i : On(we2, Confirm(y, i)) <=> On(we, Confirm(y, i))
      /\ \A y : Has(we2, {"close"}, y) <=> Has(we, {"close"}, y) \/ y = c.peer
      /\ \A S : Ordered(we, S) /\ (c.peer \in S => \E i : On(we, Confirm(c.peer, i))) => Ordered(we2, S)
  <2>1. Closes(we, we2, c.peer)
    BY CloseSent
  <2> QED  BY <2>1 DEF Closes
<1>2. /\ Ids(C2) = Ids(C)
      /\ \A d \in C2 : \E e \in C : e.id = d.id /\ e.peer = d.peer /\ (d = e \/ d = c2)
      /\ \A d \in C : \E e \in C2 : e.id = d.id /\ e.peer = d.peer
  BY DEF Ids
<1>3. Fresh(C2, P, n)
  <2>1. \A a, b \in C : a.id = b.id => a = b
    BY DEF Pair, Fresh
  <2>2. \A a, b \in C2 : a.id = b.id => a = b
    BY <2>1
  <2> QED  BY <1>2, <2>2 DEF Pair, Fresh
<1>4. Half(C2, D, P, we2, wp, n)
  <2>1. \A d \in C2 : \/ On(we2, Confirm(d.peer, d.id)) \/ Mate(d, D)
                      \/ Has(wp, {"close"}, d.id)
    BY <1>1, <1>2 DEF Pair, Half, Mate
  <2>2. \A y, i : On(wp, Confirm(y, i)) =>
           /\ \E d \in D : d.id = i /\ d.peer = y
           /\ ~Has(we2, {"close"}, i)
           /\ \A d \in C2 : d.peer # i
    BY <1>1, <1>2 DEF Pair, Half
  <2> QED  BY <1>1, <1>2, <2>1, <2>2 DEF Pair, Half
<1>5. Half(D, C2, Q, wp, we2, k)
  <2>1. \A d \in D : \/ On(wp, Confirm(d.peer, d.id)) \/ Mate(d, C2)
                     \/ Has(we2, {"close"}, d.id)
    BY <1>1, <1>2 DEF Pair, Half, Mate
  <2>2. \A d \in C2 : d.sent_close /\ d.peer \in Ids(Q) \cup Ids(D) =>
                          Has(we2, {"close"}, d.peer)
    BY <1>1, <1>2 DEF Pair, Half
  <2>3. Ordered(we2, Ids(Q))
    BY <1>1 DEF Pair, Half
  <2>4. \A d \in C2 : /\ d.peer \in Ids(Q) => On(we2, Confirm(d.peer, d.id))
                      /\ d.peer \in Nat /\ d.peer < k
    BY <1>1, <1>2 DEF Pair, Half
  <2>5. \A y : Has(we2, {"close"}, y) => y \in Nat /\ y < k
    BY <1>1 DEF Pair, Half
  <2>6. \A y, i : On(we2, Confirm(y, i)) =>
           /\ \E d \in C2 : d.id = i /\ d.peer = y
           /\ ~Has(wp, {"close"}, i)
           /\ \A d \in D : d.peer # i
    BY <1>1, <1>2 DEF Pair, Half
  <2>7. \A y, i : On(wp, Confirm(y, i)) => i \in Nat /\ i < k /\ i \notin Ids(Q)
    BY DEF Pair, Half
  <2> QED  BY <2>1, <2>2, <2>3, <2>4, <2>5, <2>6, <2>7 DEF Half
<1> QED  BY <1>3, <1>4, <1>5 DEF Pair

\* A close for x is read.
LEMMA CloseTaken ==
    ASSUME NEW wp, Listed(wp), wp # <<>>, NEW x, Head(wp).type = "close", Head(wp).to = x,
           NEW wp2, wp2 = Tail(wp)
    PROVE  /\ \A y, i : On(wp2, Confirm(y, i)) <=> On(wp, Confirm(y, i))
           /\ \A y : Has(wp, {"close"}, y) <=> Has(wp2, {"close"}, y) \/ y = x
           /\ \A S : Ordered(wp, S) => Ordered(wp2, S) /\ x \notin S
<1>1. Tag(Head(wp)) = x /\ \A y, i : Head(wp) # Confirm(y, i)
  BY DEF Tag, Confirm
<1>2. \A y, i : On(wp2, Confirm(y, i)) <=> On(wp, Confirm(y, i))
  BY <1>1, OnTaken
<1>3. \A y : Has(wp, {"close"}, y) <=> Has(wp2, {"close"}, y) \/ x = y
  BY <1>1, HasTaken
<1>4. ASSUME NEW S, Ordered(wp, S) PROVE Ordered(wp2, S) /\ x \notin S
  BY <1>4, OrderedTaken
<1> QED  BY <1>2, <1>3, <1>4

Without(C, x) == {c \in C : c.id # x}
Closing(C, we, we2, x) ==
    \/ we2 = we /\ \A c \in C : c.id = x => c.sent_close
    \/ \E c \in C : c.id = x /\ we2 = Append(we, [type |-> "close", to |-> c.peer])

\* An end reads a close for x, and its channel of that id, if there is one, is
\* gone; one it had not closed itself it closes.
LEMMA PairClosed ==
    ASSUME NEW C, NEW P, NEW n, NEW we, NEW D, NEW Q, NEW k, NEW wp,
           Pair(C, P, n, we, D, Q, k, wp), Listed(we), Listed(wp), wp # <<>>,
           NEW x, Head(wp).type = "close", Head(wp).to = x,
           NEW wp2, wp2 = Tail(wp),
           NEW C2, C2 = Without(C, x), NEW we2, Closing(C, we, we2, x)
    PROVE  Pair(C2, P, n, we2, D, Q, k, wp2)
<1> USE DEF Without
<1>0. \/ we2 = we /\ \A c \in C : c.id = x => c.sent_close
      \/ \E c \in C : c.id = x /\ we2 = Append(we, [type |-> "close", to |-> c.peer])
  BY DEF Closing
<1>1. /\ \A y, i : On(wp2, Confirm(y, i)) <=> On(wp, Confirm(y, i))
      /\ \A y : Has(wp, {"close"}, y) <=> Has(wp2, {"close"}, y) \/ y = x
      /\ \A S : Ordered(wp, S) => Ordered(wp2, S) /\ x \notin S
  BY CloseTaken, ZenonT(60)
<1>2. x \notin Ids(P) /\ x \notin Ids(C2) /\ Ids(C2) \subseteq Ids(C)
  BY <1>1 DEF Pair, Half, Ids
<1>3. /\ \A y, i : On(we2, Confirm(y, i)) <=> On(we, Confirm(y, i))
      /\ \A y : Has(we, {"close"}, y) => Has(we2, {"close"}, y)
      /\ \A y : Has(we2, {"close"}, y) => Has(we, {"close"}, y) \/ \E c \in C : y = c.peer
      /\ \A c \in C : c.id = x => c.sent_close \/ Has(we2, {"close"}, c.peer)
      /\ Ordered(we2, Ids(Q))
  <2>1. CASE we2 = we /\ \A c \in C : c.id = x => c.sent_close
    BY <2>1 DEF Pair, Half
  <2>2. CASE \E c \in C : c.id = x /\ we2 = Append(we, [type |-> "close", to |-> c.peer])
    <3>1. PICK c \in C : c.id = x /\ we2 = Append(we, [type |-> "close", to |-> c.peer])
      BY <2>2
    <3>2. /\ \A y, i : On(we2, Confirm(y, i)) <=> On(we, Confirm(y, i))
          /\ \A y : Has(we2, {"close"}, y) <=> Has(we, {"close"}, y) \/ y = c.peer
          /\ \A S : Ordered(we, S) /\ (c.peer \in S => \E i : On(we, Confirm(c.peer, i))) => Ordered(we2, S)
      <4>1. Closes(we, we2, c.peer)
        BY <3>1, CloseSent
      <4> QED  BY <4>1 DEF Closes
    <3>3. \A d \in C : d.id = x => d = c
      BY <3>1 DEF Pair, Fresh
    <3>4. Ordered(we2, Ids(Q))
      BY <3>2 DEF Pair, Half
    <3> QED  BY <3>2, <3>3, <3>4
  <2> QED  BY <1>0, <2>1, <2>2
<1>4. Fresh(C2, P, n)
  BY <1>2 DEF Pair, Fresh
<1>5. Half(C2, D, P, we2, wp2, n)
  <2>1. \A c \in C2 : \/ On(we2, Confirm(c.peer, c.id)) \/ Mate(c, D)
                      \/ Has(wp2, {"close"}, c.id)
    BY <1>1, <1>3 DEF Pair, Half
  <2>2. \A d \in D : d.sent_close /\ d.peer \in Ids(P) \cup Ids(C2) =>
                         Has(wp2, {"close"}, d.peer)
    BY <1>1, <1>2 DEF Pair, Half
  <2>3. \A y, i : On(wp2, Confirm(y, i)) =>
           /\ \E d \in D : d.id = i /\ d.peer = y
           /\ ~Has(we2, {"close"}, i)
           /\ \A c \in C2 : c.peer # i
    BY <1>1, <1>3 DEF Pair, Half
  <2>4. Ordered(wp2, Ids(P)) /\ \A d \in D : d.peer \in Ids(P) => On(wp2, Confirm(d.peer, d.id))
    BY <1>1 DEF Pair, Half
  <2>5. /\ \A y, i : On(we2, Confirm(y, i)) => i \in Nat /\ i < n /\ i \notin Ids(P)
        /\ \A d \in D : d.peer \in Nat /\ d.peer < n
        /\ \A y : Has(wp2, {"close"}, y) => y \in Nat /\ y < n
    BY <1>1, <1>3 DEF Pair, Half
  <2> QED  BY <2>1, <2>2, <2>3, <2>4, <2>5 DEF Half
<1>6. Half(D, C2, Q, wp2, we2, k)
  <2>1. \A d \in D : \/ On(wp2, Confirm(d.peer, d.id)) \/ Mate(d, C2)
                     \/ Has(we2, {"close"}, d.id)
    <3>1. ASSUME NEW d \in D, NEW c \in C, c.id = d.peer, c.peer = d.id, c.id = x
          PROVE  Has(we2, {"close"}, d.id)
      <4>1. c.sent_close => Has(we, {"close"}, c.peer)
        BY <3>1 DEF Pair, Half, Ids
      <4> QED  BY <1>3, <3>1, <4>1
    <3>2. \A d \in D : Mate(d, C) => Mate(d, C2) \/ Has(we2, {"close"}, d.id)
      BY <3>1 DEF Mate
    <3> QED  BY <1>1, <1>3, <3>2 DEF Pair, Half
  <2>2. \A c \in C2 : c.sent_close /\ c.peer \in Ids(Q) \cup Ids(D) =>
                          Has(we2, {"close"}, c.peer)
    BY <1>3 DEF Pair, Half
  <2>3. \A c \in C2 : /\ c.peer \in Ids(Q) => On(we2, Confirm(c.peer, c.id))
                      /\ c.peer \in Nat /\ c.peer < k
    BY <1>3 DEF Pair, Half
  <2>4. \A y : Has(we2, {"close"}, y) => y \in Nat /\ y < k
    BY <1>3 DEF Pair, Half
  <2>5. \A y, i : On(we2, Confirm(y, i)) =>
           /\ \E c \in C2 : c.id = i /\ c.peer = y
           /\ ~Has(wp2, {"close"}, i)
           /\ \A d \in D : d.peer # i
    <3>1. \A y, i : On(we, Confirm(y, i)) => i # x
      BY <1>1 DEF Pair, Half
    <3> QED  BY <1>1, <1>3, <3>1 DEF Pair, Half
  <2>6. \A y, i : On(wp2, Confirm(y, i)) => i \in Nat /\ i < k /\ i \notin Ids(Q)
    BY <1>1 DEF Pair, Half
  <2> QED  BY <1>3, <2>1, <2>2, <2>3, <2>4, <2>5, <2>6 DEF Half
<1> QED  BY <1>4, <1>5, <1>6 DEF Pair

-----------------------------------------------------------------------------
(* Counting in queues.                                                     *)

\* Places in a queue, shifted by one when its first element is taken.
LEMMA CountShift ==
    ASSUME NEW n \in Nat \ {0}, NEW I \in SUBSET (1..n),
           NEW J, J = {j \in 1..(n - 1) : j + 1 \in I}
    PROVE  /\ IsFiniteSet(I) /\ Cardinality(I) \in Nat
           /\ IsFiniteSet(J) /\ Cardinality(J) \in Nat
           /\ 1 \in I => Cardinality(I) = Cardinality(J) + 1
           /\ 1 \notin I => Cardinality(I) = Cardinality(J)
<1>1. IsFiniteSet(I) /\ Cardinality(I) \in Nat
  <2>1. IsFiniteSet(1..n)
    BY FS_Interval
  <2> QED  BY <2>1, FS_Subset, FS_CardinalityType
<1>2. IsFiniteSet(J) /\ Cardinality(J) \in Nat
  <2>1. IsFiniteSet(1..(n - 1)) /\ J \in SUBSET (1..(n - 1))
    BY FS_Interval
  <2> QED  BY <2>1, FS_Subset, FS_CardinalityType
<1> DEFINE K == I \ {1}
<1>3. Cardinality(K) = Cardinality(J)
  <2> DEFINE f == [j \in J |-> j + 1]
  <2>1. f \in [J -> K]
    BY DEF K
  <2>2. \A a, b \in J : f[a] = f[b] => a = b
    OBVIOUS
  <2>3. \A i \in K : \E j \in J : f[j] = i
    <3>1. SUFFICES ASSUME NEW i \in K PROVE \E j \in J : f[j] = i
      OBVIOUS
    <3>2. i - 1 \in J /\ (i - 1) + 1 = i
      BY DEF K
    <3> QED  BY <3>2
  <2>4. f \in Bijection(J, K)
    BY <2>1, <2>2, <2>3, ZenonT(60) DEF Bijection, Injection, Surjection, IsInjective
  <2>5. ExistsBijection(J, K)
    BY <2>4 DEF ExistsBijection
  <2> QED  BY <1>2, <2>5, FS_Bijection
<1>4. CASE 1 \in I
  <2>1. Cardinality(K) = Cardinality(I) - 1
    BY <1>1, <1>4, FS_RemoveElement
  <2> QED  BY <1>1, <1>2, <1>3, <1>4, <2>1
<1>5. CASE 1 \notin I
  <2>1. K = I
    BY <1>5
  <2> QED  BY <1>1, <1>2, <1>3, <1>5, <2>1
<1> QED  BY <1>4, <1>5

\* ... and with one more when one is added.
LEMMA CountMore ==
    ASSUME NEW n \in Nat, NEW J \in SUBSET (1..(n + 1)), NEW I, I = {i \in 1..n : i \in J}
    PROVE  /\ IsFiniteSet(I) /\ Cardinality(I) \in Nat
           /\ IsFiniteSet(J) /\ Cardinality(J) \in Nat
           /\ n + 1 \in J => Cardinality(J) = Cardinality(I) + 1
           /\ n + 1 \notin J => Cardinality(J) = Cardinality(I)
<1>0. n + 1 \notin 1..n /\ \A i : i \in 1..(n + 1) <=> i \in 1..n \/ i = n + 1
  OBVIOUS
<1>1. IsFiniteSet(I) /\ Cardinality(I) \in Nat
  <2>1. IsFiniteSet(1..n) /\ I \in SUBSET (1..n)
    BY FS_Interval
  <2> QED  BY <2>1, FS_Subset, FS_CardinalityType
<1>2. CASE n + 1 \in J
  <2>1. J = I \cup {n + 1} /\ n + 1 \notin I
    BY <1>0, <1>2
  <2>2. /\ IsFiniteSet(I \cup {n + 1})
        /\ Cardinality(I \cup {n + 1}) = Cardinality(I) + 1
    BY <1>1, <2>1, FS_AddElement
  <2> QED  BY <1>1, <1>2, <2>1, <2>2
<1>3. CASE n + 1 \notin J
  <2>1. J = I
    BY <1>0, <1>3
  <2> QED  BY <1>1, <1>3, <2>1
<1> QED  BY <1>2, <1>3

\* The commands of certain kinds in a queue, and the opens.
Kinded(q, K) == {i \in 1..Len(q) : q[i].kind \in K}
Commands(q, K) == Cardinality(Kinded(q, K))
Typed(q, n, T) == {i \in 1..n : q[i].type \in T}
Rank(q, n, T) == Cardinality(Typed(q, n, T))
OpensOn(q) == Rank(q, Len(q), {"open"})

\* Both are numbers.
LEMMA CommandsNat ==
    ASSUME NEW q, Listed(q), NEW K PROVE Commands(q, K) \in Nat
<1>1. IsFiniteSet(1..Len(q)) /\ Kinded(q, K) \in SUBSET (1..Len(q))
  <2>1. Len(q) \in Nat
    BY DEF Listed
  <2>2. IsFiniteSet(1..Len(q))
    BY <2>1, FS_Interval
  <2> QED  BY <2>2 DEF Kinded
<1> QED  BY <1>1, FS_Subset, FS_CardinalityType DEF Commands

\* Packets up to a place are finitely many.
LEMMA RankNat ==
    ASSUME NEW q, NEW n \in Nat, NEW T PROVE Rank(q, n, T) \in Nat
<1>1. IsFiniteSet(1..n) /\ Typed(q, n, T) \in SUBSET (1..n)
  BY FS_Interval DEF Typed
<1> QED  BY <1>1, FS_Subset, FS_CardinalityType DEF Rank

\* The second number is the first, or one more when x is one of S.
Counts(a, b, x, S) == (x \in S => b = a + 1) /\ (x \notin S => b = a)

\* One command more ...
LEMMA CommandsAdded ==
    ASSUME NEW q, Listed(q), NEW m, NEW q2, q2 = Append(q, m), NEW K
    PROVE  Counts(Commands(q, K), Commands(q2, K), m.kind, K)
<1> DEFINE n == Len(q)
<1>1. n \in Nat /\ Len(q2) = n + 1 /\ (\A i \in 1..n : q2[i] = q[i]) /\ q2[n + 1] = m
  BY Added
<1> HIDE DEF n
<1> DEFINE J == {i \in 1..(n + 1) : q2[i].kind \in K}
<1>2. J \in SUBSET (1..(n + 1)) /\ Kinded(q2, K) = J
  BY <1>1 DEF Kinded
<1>3. Kinded(q, K) = {i \in 1..n : i \in J}
  <2>1. \A i \in 1..n : i \in 1..(n + 1)
    BY <1>1
  <2> QED  BY <1>1, <2>1 DEF Kinded, n
<1>4. n + 1 \in J <=> m.kind \in K
  <2>1. n + 1 \in 1..(n + 1)
    BY <1>1
  <2> QED  BY <1>1, <2>1
<1> HIDE DEF J
<1>5. /\ n + 1 \in J => Cardinality(J) = Cardinality(Kinded(q, K)) + 1
      /\ n + 1 \notin J => Cardinality(J) = Cardinality(Kinded(q, K))
  BY <1>1, <1>2, <1>3, CountMore
<1> QED  BY <1>2, <1>4, <1>5 DEF Commands, Counts

\* ... and one less.
LEMMA CommandsTaken ==
    ASSUME NEW q, Listed(q), q # <<>>, NEW q2, q2 = Tail(q), NEW K
    PROVE  Counts(Commands(q2, K), Commands(q, K), Head(q).kind, K)
<1> DEFINE n == Len(q)
<1>1. /\ n \in Nat \ {0} /\ Len(q2) = n - 1 /\ Head(q) = q[1]
      /\ \A i \in 1..(n - 1) : q2[i] = q[i + 1] /\ i + 1 \in 1..n
  <2>1. /\ Len(q) \in Nat \ {0} /\ Len(q2) = Len(q) - 1
        /\ \A i \in 1..Len(q2) : q2[i] = q[i + 1] /\ i + 1 \in 1..Len(q)
        /\ Head(q) = q[1]
    BY Taken
  <2> QED  BY <2>1
<1>2. Kinded(q, K) = {i \in 1..n : q[i].kind \in K}
  BY DEF Kinded
<1> HIDE DEF n
<1> DEFINE I == {i \in 1..n : q[i].kind \in K}
<1>3. I \in SUBSET (1..n) /\ (1 \in I <=> Head(q).kind \in K)
  <2>1. 1 \in 1..n
    BY <1>1
  <2> QED  BY <1>1, <2>1
<1>4. Kinded(q2, K) = {j \in 1..(n - 1) : j + 1 \in I}
  BY <1>1 DEF Kinded
<1> HIDE DEF I
<1>5. /\ 1 \in I => Cardinality(I) = Cardinality(Kinded(q2, K)) + 1
      /\ 1 \notin I => Cardinality(I) = Cardinality(Kinded(q2, K))
  BY <1>1, <1>3, <1>4, CountShift
<1> QED  BY <1>2, <1>3, <1>5 DEF Commands, I, Counts

\* A packet that is added counts with those of its type.
LEMMA RankAdded ==
    ASSUME NEW q, Listed(q), NEW m, NEW q2, q2 = Append(q, m), NEW T
    PROVE  Counts(Rank(q, Len(q), T), Rank(q2, Len(q2), T), m.type, T)
<1> DEFINE l == Len(q)
<1>1. l \in Nat /\ Len(q2) = l + 1 /\ (\A i \in 1..l : q2[i] = q[i]) /\ q2[l + 1] = m
  BY Added
<1> HIDE DEF l
<1> DEFINE J == Typed(q2, l + 1, T)
<1>4. J \in SUBSET (1..(l + 1)) /\ Typed(q, l, T) = {i \in 1..l : i \in J}
  <2>1. \A i \in 1..l : i \in 1..(l + 1)
    BY <1>1
  <2> QED  BY <1>1, <2>1 DEF Typed
<1>5. l + 1 \in J <=> m.type \in T
  <2>1. l + 1 \in 1..(l + 1)
    BY <1>1
  <2> QED  BY <1>1, <2>1 DEF Typed
<1> HIDE DEF J
<1>6. /\ l + 1 \in J => Cardinality(J) = Cardinality(Typed(q, l, T)) + 1
      /\ l + 1 \notin J => Cardinality(J) = Cardinality(Typed(q, l, T))
  BY <1>1, <1>4, CountMore
<1> QED  BY <1>1, <1>5, <1>6 DEF Rank, J, l, Counts

\* ... and goes down by one when one of them is taken.
LEMMA RankTaken ==
    ASSUME NEW q, Listed(q), q # <<>>, NEW q2, q2 = Tail(q), NEW T, NEW n \in 1..Len(q)
    PROVE  Counts(Rank(q2, n - 1, T), Rank(q, n, T), Head(q).type, T)
<1>1. /\ Len(q) \in Nat \ {0} /\ Len(q2) = Len(q) - 1 /\ Head(q) = q[1]
      /\ \A i \in 1..Len(q2) : q2[i] = q[i + 1] /\ i + 1 \in 1..Len(q)
  BY Taken
<1>2. n \in Nat \ {0} /\ n - 1 \in 0..Len(q2) /\ \A i \in 1..(n - 1) : q2[i] = q[i + 1] /\ i + 1 \in 1..n
  <2>1. n \in Nat \ {0} /\ n - 1 \in 0..Len(q2)
    BY <1>1
  <2>2. \A i \in 1..(n - 1) : i \in 1..Len(q2) /\ i + 1 \in 1..n
    BY <1>1, <2>1
  <2> QED  BY <1>1, <2>1, <2>2
<1> DEFINE I == Typed(q, n, T)
<1>3. I \in SUBSET (1..n) /\ (1 \in I <=> Head(q).type \in T)
  <2>1. 1 \in 1..n
    BY <1>2
  <2> QED  BY <1>1, <2>1 DEF Typed
<1>4. Typed(q2, n - 1, T) = {j \in 1..(n - 1) : j + 1 \in I}
  BY <1>2 DEF Typed
<1> HIDE DEF I
<1>5. /\ 1 \in I => Cardinality(I) = Cardinality(Typed(q2, n - 1, T)) + 1
      /\ 1 \notin I => Cardinality(I) = Cardinality(Typed(q2, n - 1, T))
  BY <1>2, <1>3, <1>4, CountShift
<1> QED  BY <1>2, <1>3, <1>5 DEF Rank, I, Counts

\* Place by place.
LEMMA RankNext ==
    ASSUME NEW q, NEW T, NEW n \in Nat \ {0}
    PROVE  Counts(Rank(q, n - 1, T), Rank(q, n, T), q[n].type, T)
<1> DEFINE l == n - 1
<1>1. l \in Nat /\ n = l + 1 /\ n \in 1..n /\ (\A i \in 1..l : i \in 1..n) /\ l + 1 \in 1..(l + 1)
  OBVIOUS
<1> HIDE DEF l
<1> DEFINE J == Typed(q, n, T)
<1>2. J \in SUBSET (1..(l + 1)) /\ Typed(q, l, T) = {i \in 1..l : i \in J}
  BY <1>1 DEF Typed
<1>3. l + 1 \in J <=> q[n].type \in T
  BY <1>1 DEF Typed
<1> HIDE DEF J
<1>4. /\ l + 1 \in J => Cardinality(J) = Cardinality(Typed(q, l, T)) + 1
      /\ l + 1 \notin J => Cardinality(J) = Cardinality(Typed(q, l, T))
  BY <1>1, <1>2, CountMore
<1> QED  BY <1>1, <1>3, <1>4 DEF Rank, J, l, Counts

\* There is none before the first place.
LEMMA RankNone == \A q, T : Rank(q, 0, T) = 0
<1>1. \A q, T : Typed(q, 0, T) = {}
  BY DEF Typed
<1> QED  BY <1>1, FS_EmptySet DEF Rank

\* Opens sent and read.
LEMMA OpensAdded ==
    ASSUME NEW q, Listed(q), NEW m, NEW q2, q2 = Append(q, m)
    PROVE  Counts(OpensOn(q), OpensOn(q2), m.type, {"open"})
BY RankAdded DEF OpensOn

\* One less when an open is read.
LEMMA OpensTaken ==
    ASSUME NEW q, Listed(q), q # <<>>, NEW q2, q2 = Tail(q)
    PROVE  Counts(OpensOn(q2), OpensOn(q), Head(q).type, {"open"})
<1>1. Len(q) \in Nat \ {0} /\ Len(q2) = Len(q) - 1
  BY Taken
<1>2. Len(q) \in 1..Len(q)
  BY <1>1
<1> QED  BY <1>1, <1>2, RankTaken DEF OpensOn

\* Their number is a number.
LEMMA OpensNat == ASSUME NEW q, Listed(q) PROVE OpensOn(q) \in Nat
BY RankNat DEF OpensOn, Listed

-----------------------------------------------------------------------------
(* The state of the two ends.                                              *)

\* A confirmation says two ids and nothing else.
Good(m) == m.type = "confirm" => m = Confirm(m.to, m.id)
GoodWire(q) == Listed(q) /\ \A i \in 1..Len(q) : Good(q[i])

\* A wire stays well formed when a packet is sent ...
LEMMA GoodAdded ==
    ASSUME NEW q, GoodWire(q), NEW m, Good(m), NEW q2, q2 = Append(q, m)
    PROVE  GoodWire(q2)
<1>1. /\ Listed(q2) /\ Len(q) \in Nat /\ Len(q2) = Len(q) + 1
      /\ \A i \in 1..Len(q) : q2[i] = q[i]
      /\ q2[Len(q) + 1] = m
  <2>1. Listed(q)
    BY DEF GoodWire
  <2>2. Listed(q2)
    BY <2>1, Added
  <2>3. Len(q) \in Nat /\ Len(q2) = Len(q) + 1
    BY <2>1, Added
  <2>4. \A i \in 1..Len(q) : q2[i] = q[i]
    BY <2>1, Added
  <2>5. q2[Len(q) + 1] = m
    BY <2>1, Added
  <2> QED  BY <2>2, <2>3, <2>4, <2>5
<1>2. \A i \in 1..Len(q2) : i \in 1..Len(q) \/ i = Len(q) + 1
  BY <1>1
<1> QED  BY <1>1, <1>2 DEF GoodWire

\* ... and when one is read.
LEMMA GoodTaken ==
    ASSUME NEW q, GoodWire(q), q # <<>>, NEW q2, q2 = Tail(q)
    PROVE  GoodWire(q2) /\ Good(Head(q))
<1>1. /\ Listed(q2) /\ Len(q) \in Nat \ {0} /\ Len(q2) = Len(q) - 1
      /\ \A i \in 1..Len(q2) : q2[i] = q[i + 1] /\ i + 1 \in 1..Len(q)
      /\ Head(q) = q[1]
  BY Taken DEF GoodWire
<1>2. 1 \in 1..Len(q)
  BY <1>1
<1> QED  BY <1>1, <1>2 DEF GoodWire

\* What the variables are.
Sound ==
    /\ run = [f \in End |-> run[f]]
    /\ wire = [f \in End |-> wire[f]]
    /\ cmds = [f \in End |-> cmds[f]]
    /\ next_id \in [End -> Nat] /\ accepts \in [End -> Nat]
    /\ open_admission \in [End -> Nat]
    /\ \A f \in End : GoodWire(wire[f]) /\ Listed(cmds[f])
    /\ scenario \in Scenarios

\* What a step leaves on the two wires.
Wires(e, we, wp) ==
    /\ wire' = [f \in End |-> wire'[f]]
    /\ wire'[e] = we /\ wire'[Peer(e)] = wp
    /\ GoodWire(we) /\ GoodWire(wp)

\* The wires after a step that leaves them alone, ...
LEMMA WireSame ==
    ASSUME Sound, NEW e \in End, UNCHANGED wire
    PROVE  Wires(e, wire[e], wire[Peer(e)])
BY Peers DEF Wires, Sound

\* ... sends a packet, ...
LEMMA WireSent ==
    ASSUME Sound, NEW e \in End, NEW m, Good(m), Send(e, m)
    PROVE  Wires(e, Append(wire[e], m), wire[Peer(e)])
<1> DEFINE q == Append(wire[e], m)
<1>1. GoodWire(q)
  BY GoodAdded DEF Sound
<1>2. wire' = [wire EXCEPT ![e] = q]
  BY DEF Send
<1> HIDE DEF q
<1>3. wire' = [f \in End |-> wire'[f]] /\ wire'[e] = q /\ wire'[Peer(e)] = wire[Peer(e)]
  BY <1>2, Peers DEF Sound
<1>4. GoodWire(wire[Peer(e)])
  BY Peers DEF Sound
<1> QED  BY <1>1, <1>3, <1>4 DEF Wires, q

\* ... reads one, ...
LEMMA WireTaken ==
    ASSUME Sound, NEW e \in End, wire[Peer(e)] # <<>>, Take(e)
    PROVE  Wires(e, wire[e], Tail(wire[Peer(e)]))
<1> DEFINE p == Peer(e)  q == Tail(wire[p])
<1>0. p \in End /\ p # e
  BY Peers
<1>1. GoodWire(q)
  BY <1>0, GoodTaken DEF Sound
<1>2. wire' = [wire EXCEPT ![p] = q]
  BY DEF Take
<1> HIDE DEF q, p
<1>3. wire' = [f \in End |-> wire'[f]] /\ wire'[e] = wire[e] /\ wire'[p] = q
  BY <1>0, <1>2 DEF Sound
<1>4. GoodWire(wire[e])
  BY DEF Sound
<1> QED  BY <1>1, <1>3, <1>4 DEF Wires, q, p

\* ... or reads one and answers it.
LEMMA WireReplied ==
    ASSUME Sound, NEW e \in End, wire[Peer(e)] # <<>>, NEW m, Good(m), Reply(e, m)
    PROVE  Wires(e, Append(wire[e], m), Tail(wire[Peer(e)]))
<1> DEFINE p == Peer(e)  q == Tail(wire[p])  r == Append(wire[e], m)
<1>0. p \in End /\ p # e
  BY Peers
<1>1. GoodWire(q)
  BY <1>0, GoodTaken DEF Sound
<1>2. GoodWire(r)
  BY GoodAdded DEF Sound
<1>3. wire' = [wire EXCEPT ![p] = q, ![e] = r]
  BY <1>0 DEF Reply, Sound
<1> HIDE DEF q, p, r
<1>4. wire' = [f \in End |-> wire'[f]] /\ wire'[e] = r /\ wire'[p] = q
  BY <1>0, <1>3 DEF Sound
<1> QED  BY <1>1, <1>2, <1>4 DEF Wires, q, p, r

-----------------------------------------------------------------------------
(* What both ends keep.                                                    *)

Own(e) == Running(e) =>
    /\ Fresh(channels[e], pending[e], next_id[e])
    /\ Asked(pending[e], wire[e], connecting[Peer(e)], wire[Peer(e)])
Joint(e) == Running(e) /\ Running(Peer(e)) =>
    /\ Pair(channels[e], pending[e], next_id[e], wire[e],
            channels[Peer(e)], pending[Peer(e)], next_id[Peer(e)], wire[Peer(e)])
    /\ Owed(pending[e], wire[e], connecting[Peer(e)], wire[Peer(e)])
    /\ pending_connects[e] = Cardinality(connecting[e])
Core == NoProtocolError /\ \A e \in End : Own(e) /\ Joint(e)

\* Seen from either end.
LEMMA PairTurned ==
    ASSUME NEW C, NEW P, NEW n, NEW we, NEW D, NEW Q, NEW k, NEW wp,
           Pair(C, P, n, we, D, Q, k, wp)
    PROVE  Pair(D, Q, k, wp, C, P, n, we)
BY DEF Pair

\* A step of one end, of which the other sees only the packets.
Alone(e) ==
    LET p == Peer(e) IN
    /\ run'[p] = run[p] /\ channels'[p] = channels[p] /\ pending'[p] = pending[p]
    /\ connecting'[p] = connecting[p] /\ pending_connects'[p] = pending_connects[p]
    /\ next_id'[p] = next_id[p]
Serves(e) ==
    LET p == Peer(e) IN
    Handled(pending[p], pending'[p], wire[p], wire'[p],
            connecting[e], connecting'[e], wire[e], wire'[e])
Asks(e) ==
    LET p == Peer(e) IN
    Handled(pending[e], pending'[e], wire[e], wire'[e],
            connecting[p], connecting'[p], wire[p], wire'[p])
Pairs(e) ==
    LET p == Peer(e) IN
    /\ Pair(channels'[e], pending'[e], next_id'[e], wire'[e],
            channels'[p], pending'[p], next_id'[p], wire'[p])
    /\ pending_connects'[e] = Cardinality(connecting'[e])

\* A step of one end keeps the account when it keeps its own share of it.
LEMMA ActorKeeps ==
    ASSUME Core, NEW e \in End, Alone(e), run'[e] # "error",
           Running(e)' => Running(e),
           Running(e)' => Fresh(channels'[e], pending'[e], next_id'[e]) /\ Asks(e),
           Running(Peer(e)) => Serves(e),
           Running(e)' /\ Running(Peer(e)) => Pairs(e)
    PROVE  Core'
<1> DEFINE p == Peer(e)
<1>1. p \in End /\ p # e /\ Peer(p) = e /\ \A f \in End : f = e \/ f = p
  BY Peers DEF End
<1>2. NoProtocolError'
  BY <1>1 DEF Core, NoProtocolError, Alone
<1>3. ASSUME Running(e)'
      PROVE  /\ Asked(pending'[e], wire'[e], connecting'[p], wire'[p])
             /\ Running(p) => Owed(pending'[e], wire'[e], connecting'[p], wire'[p])
  <2>1. Asked(pending[e], wire[e], connecting[p], wire[p]) /\ Asks(e) /\ Running(e)
    BY <1>3 DEF Core, Own
  <2>2. Running(p) => Owed(pending[e], wire[e], connecting[p], wire[p])
    BY <2>1 DEF Core, Joint
  <2> QED  BY <2>1, <2>2, AskedKept DEF Asks
<1>4. ASSUME Running(p)
      PROVE  /\ Asked(pending'[p], wire'[p], connecting'[e], wire'[e])
             /\ Running(e) => Owed(pending'[p], wire'[p], connecting'[e], wire'[e])
  <2>1. Asked(pending[p], wire[p], connecting[e], wire[e]) /\ Serves(e)
    BY <1>1, <1>4 DEF Core, Own
  <2>2. Running(e) => Owed(pending[p], wire[p], connecting[e], wire[e])
    BY <1>1, <1>4 DEF Core, Joint
  <2> QED  BY <2>1, <2>2, AskedKept DEF Serves
<1>5. Running(p)' <=> Running(p)
  BY DEF Alone, Running
<1>6. Own(e)'
  BY <1>3 DEF Own
<1>7. Own(p)'
  <2>1. Running(p) => Fresh(channels'[p], pending'[p], next_id'[p])
    BY <1>1 DEF Core, Own, Alone
  <2> QED  BY <1>1, <1>4, <1>5, <2>1 DEF Own
<1>8. Joint(e)'
  BY <1>3, <1>5 DEF Joint, Pairs
<1>9. Joint(p)'
  <2>1. SUFFICES ASSUME Running(e)', Running(p)
                 PROVE  Joint(p)'
    BY <1>1, <1>5 DEF Joint
  <2>2. Pair(channels'[p], pending'[p], next_id'[p], wire'[p],
             channels'[e], pending'[e], next_id'[e], wire'[e])
    BY <2>1, PairTurned DEF Pairs
  <2>3. pending_connects'[p] = Cardinality(connecting'[p])
    BY <1>1, <2>1 DEF Core, Joint, Alone
  <2> QED  BY <1>1, <1>4, <2>1, <2>2, <2>3 DEF Joint
<1> QED  BY <1>1, <1>2, <1>6, <1>7, <1>8, <1>9 DEF Core

-----------------------------------------------------------------------------
(* Ids.                                                                    *)

\* An end takes its next id, for an open ...
LEMMA FreshOpen ==
    ASSUME NEW C, NEW P, NEW n, Fresh(C, P, n), NEW o, o.id = n,
           NEW P2, P2 = P \cup {o}
    PROVE  Fresh(C, P2, n + 1)
<1>1. Ids(P2) = Ids(P) \cup {n}
  BY DEF Ids
<1>2. n \in Nat /\ n + 1 \in Nat /\ n < n + 1 /\ \A x \in Nat : x < n => x < n + 1 /\ x # n
  BY DEF Fresh
<1> QED  BY <1>1, <1>2 DEF Fresh

\* ... or for a channel it accepts;
LEMMA FreshAccept ==
    ASSUME NEW C, NEW P, NEW n, Fresh(C, P, n), NEW c, c.id = n,
           NEW C2, C2 = C \cup {c}
    PROVE  Fresh(C2, P, n + 1)
<1>1. Ids(C2) = Ids(C) \cup {n}
  BY DEF Ids
<1>2. n \in Nat /\ n + 1 \in Nat /\ n < n + 1 /\ \A x \in Nat : x < n => x < n + 1 /\ x # n
  BY DEF Fresh
<1>3. \A d \in C : d.id # n
  BY <1>2 DEF Fresh, Ids
<1> QED  BY <1>1, <1>2, <1>3 DEF Fresh

\* an open becomes a channel;
LEMMA FreshConfirm ==
    ASSUME NEW C, NEW P, NEW n, Fresh(C, P, n), NEW x \in Ids(P), NEW c, c.id = x,
           NEW C2, C2 = C \cup {c}, NEW P2, Ids(P2) = Ids(P) \ {x}
    PROVE  Fresh(C2, P2, n)
<1>1. Ids(C2) = Ids(C) \cup {x}
  BY DEF Ids
<1>2. \A d \in C : d.id # x
  BY DEF Fresh, Ids
<1> QED  BY <1>1, <1>2 DEF Fresh

\* something goes;
LEMMA FreshLess ==
    ASSUME NEW C, NEW P, NEW n, Fresh(C, P, n), NEW C2 \in SUBSET C, NEW P2 \in SUBSET P
    PROVE  Fresh(C2, P2, n)
<1>1. Ids(C2) \subseteq Ids(C) /\ Ids(P2) \subseteq Ids(P)
  BY DEF Ids
<1> QED  BY <1>1 DEF Fresh

\* a channel is marked closed.
LEMMA FreshClose ==
    ASSUME NEW C, NEW P, NEW n, Fresh(C, P, n), NEW c \in C, NEW c2, c2.id = c.id,
           NEW C2, C2 = (C \ {c}) \cup {c2}
    PROVE  Fresh(C2, P, n)
<1>1. Ids(C2) = Ids(C)
  BY DEF Ids
<1>2. \A a, b \in C : a.id = b.id => a = b
  BY DEF Fresh
<1>3. \A a, b \in C2 : a.id = b.id => a = b
  BY <1>2
<1> QED  BY <1>1, <1>3 DEF Fresh

\* An id is not taken twice, nor as long as there are ids does it wrap.
LEMMA NextId ==
    ASSUME NEW n \in Nat, n + 1 < IdSpace PROVE (n + 1) % IdSpace = n + 1
<1>1. IdSpace \in Nat \ {0}
  BY OpensAssumption
<1> QED  BY <1>1

-----------------------------------------------------------------------------
(* Steps that concern no open, answer or close.                            *)

Matters == {"open", "confirm", "failure", "close"}
Quietly(q, q2) ==
    Alike(q, q2, {"open"}) /\ Alike(q, q2, Verdict) /\ Level(q, q2)

\* A wire left alone says the same of opens, answers and closes, ...
LEMMA QuietSame == \A q : Quietly(q, q)
BY AlikeSame, LevelSame DEF Quietly

\* ... as it does when something else is sent on it ...
LEMMA QuietAdded ==
    ASSUME NEW q, GoodWire(q), NEW m, m.type \notin Matters, NEW q2, q2 = Append(q, m)
    PROVE  Quietly(q, q2)
<1>0. Listed(q)
  BY DEF GoodWire
<1>1. m.type \notin {"open"} /\ m.type \notin Verdict /\ m.type \notin {"confirm", "close"}
  BY DEF Matters, Verdict
<1>2. Alike(q, q2, {"open"}) /\ Alike(q, q2, Verdict)
  BY <1>0, <1>1, AlikeAdded
<1>3. Level(q, q2)
  BY <1>0, <1>1, LevelAdded
<1> QED  BY <1>2, <1>3 DEF Quietly

\* ... or read from it.
LEMMA QuietTaken ==
    ASSUME NEW q, GoodWire(q), q # <<>>, Head(q).type \notin Matters, NEW q2, q2 = Tail(q)
    PROVE  Quietly(q, q2)
<1>0. Listed(q)
  BY DEF GoodWire
<1>1. /\ Head(q).type \notin {"open"} /\ Head(q).type \notin Verdict
      /\ Head(q).type \notin {"confirm", "close"}
  BY DEF Matters, Verdict
<1>2. Alike(q, q2, {"open"}) /\ Alike(q, q2, Verdict)
  BY <1>0, <1>1, AlikeTaken
<1>3. Level(q, q2)
  BY <1>0, <1>1, LevelTaken
<1> QED  BY <1>2, <1>3 DEF Quietly

\* The opens of an end that nothing was done about.
LEMMA NothingDone ==
    ASSUME NEW pend, NEW wq, NEW wq2, Alike(wq, wq2, {"open"}), NEW conn,
           NEW aq, NEW aq2, Alike(aq, aq2, Verdict)
    PROVE  Handled(pend, pend, wq, wq2, conn, conn, aq, aq2)
BY DEF Handled, Untouched

\* Such a step keeps the account.
LEMMA IdleCore ==
    ASSUME Core, NEW e \in End, UNCHANGED <<run, table>>,
           Quietly(wire[e], wire'[e]), Quietly(wire[Peer(e)], wire'[Peer(e)])
    PROVE  Core'
<1>1. Peer(e) \in End
  BY Peers
<1>2. Alone(e) /\ run'[e] # "error" /\ (Running(e)' <=> Running(e))
  BY <1>1 DEF Alone, Core, NoProtocolError, table, Running
<1>3. Asks(e) /\ Serves(e)
  BY NothingDone DEF Quietly, Asks, Serves, table
<1>4. Running(e) => Fresh(channels'[e], pending'[e], next_id'[e])
  BY DEF Core, Own, table
<1>5. Running(e) /\ Running(Peer(e)) => Pairs(e)
  <2>1. SUFFICES ASSUME Running(e), Running(Peer(e)) PROVE Pairs(e)
    OBVIOUS
  <2>2. /\ Pair(channels[e], pending[e], next_id[e], wire[e],
                channels[Peer(e)], pending[Peer(e)], next_id[Peer(e)], wire[Peer(e)])
        /\ pending_connects[e] = Cardinality(connecting[e])
    BY <2>1 DEF Core, Joint
  <2>3. Pair(channels[e], pending[e], next_id[e], wire'[e],
             channels[Peer(e)], pending[Peer(e)], next_id[Peer(e)], wire'[Peer(e)])
    BY <2>2, PairLevel DEF Quietly
  <2> QED  BY <2>2, <2>3 DEF Pairs, table
<1> QED  BY <1>2, <1>3, <1>4, <1>5, ActorKeeps

\* A loop that ends.
LEMMA EndCore ==
    ASSUME Core, IInv, Sound, NEW e \in End, EndLoop(e, "ended"),
           UNCHANGED <<connecting, pending_connects, next_id>>,
           Alike(wire[e], wire'[e], Verdict),
           Alike(wire[Peer(e)], wire'[Peer(e)], {"open"})
    PROVE  Core'
<1>1. Peer(e) \in End /\ Peer(e) # e
  BY Peers
<1>2. /\ run'[e] = "ended" /\ run'[Peer(e)] = run[Peer(e)]
      /\ channels'[Peer(e)] = channels[Peer(e)] /\ pending'[Peer(e)] = pending[Peer(e)]
  BY <1>1 DEF EndLoop, Sound, IInv, Tables
<1>3. Alone(e) /\ run'[e] # "error" /\ ~Running(e)'
  BY <1>2 DEF Alone, Running
<1>4. Serves(e)
  BY <1>2, NothingDone DEF Serves
<1> QED  BY <1>3, <1>4, ActorKeeps

-----------------------------------------------------------------------------
(* Ids do not run out.                                                     *)

OpenKinds == {"direct", "forwarded", "agent", "session"}

\* The opens that an end may yet send, or has sent, and the ids that an end
\* has given or may yet give for what it does itself.
Ahead(f) == OpensOn(wire[f]) + Commands(cmds[f], OpenKinds) + accepts[f]
Spend(e) ==
    next_id[e] + Commands(cmds[e], OpenKinds) + accepts[e] + Cardinality(connecting[e])
Budget == \A e \in End : Spend(e) + Ahead(Peer(e)) < IdSpace

\* The numbers in it.
LEMMA Numbers ==
    ASSUME IInv, Sound, NEW e \in End
    PROVE  /\ next_id[e] \in Nat /\ Commands(cmds[e], OpenKinds) \in Nat
           /\ accepts[e] \in Nat /\ Cardinality(connecting[e]) \in Nat
           /\ OpensOn(wire[e]) \in Nat
<1>1. Listed(cmds[e]) /\ Listed(wire[e])
  BY DEF Sound, GoodWire
<1>2. Commands(cmds[e], OpenKinds) \in Nat
  BY <1>1, CommandsNat
<1>3. OpensOn(wire[e]) \in Nat
  BY <1>1, OpensNat
<1>4. Cardinality(connecting[e]) \in Nat
  BY FS_CardinalityType DEF IInv, Tables
<1> QED  BY <1>2, <1>3, <1>4 DEF Sound

\* There is an id for an open that is queued, an open that arrives, and a
\* connect that succeeds.
LEMMA IdLeft ==
    ASSUME IInv, Sound, Budget, NEW e \in End,
           \/ cmds[e] # <<>> /\ Head(cmds[e]).kind \in OpenKinds
           \/ wire[Peer(e)] # <<>> /\ Head(wire[Peer(e)]).type = "open"
           \/ connecting[e] # {}
    PROVE  (next_id[e] + 1) % IdSpace = next_id[e] + 1
<1> DEFINE p == Peer(e)
<1>0. p \in End
  BY Peers
<1>1. /\ next_id[e] \in Nat /\ Commands(cmds[e], OpenKinds) \in Nat
      /\ accepts[e] \in Nat /\ Cardinality(connecting[e]) \in Nat
  BY Numbers
<1>2. /\ Commands(cmds[p], OpenKinds) \in Nat /\ accepts[p] \in Nat
      /\ OpensOn(wire[p]) \in Nat
  BY <1>0, Numbers
<1>3. next_id[e] + Commands(cmds[e], OpenKinds) + accepts[e] + Cardinality(connecting[e])
          + (OpensOn(wire[p]) + Commands(cmds[p], OpenKinds) + accepts[p]) < IdSpace
  BY DEF Budget, Spend, Ahead
<1>4. IdSpace \in Nat
  BY OpensAssumption
<1>5. CASE cmds[e] # <<>> /\ Head(cmds[e]).kind \in OpenKinds
  <2>1. Listed(cmds[e])
    BY DEF Sound
  <2>2. Listed(Tail(cmds[e]))
    BY <1>5, <2>1, Taken
  <2>3. Commands(Tail(cmds[e]), OpenKinds) \in Nat
    BY <2>2, CommandsNat
  <2>4. Counts(Commands(Tail(cmds[e]), OpenKinds), Commands(cmds[e], OpenKinds),
               Head(cmds[e]).kind, OpenKinds)
    BY <1>5, <2>1, CommandsTaken
  <2>5. Commands(cmds[e], OpenKinds) >= 1
    BY <1>5, <2>3, <2>4 DEF Counts
  <2>6. next_id[e] + 1 < IdSpace
    BY <1>1, <1>2, <1>3, <1>4, <2>5, SMTT(60)
  <2> QED  BY <1>1, <2>6, NextId
<1>6. CASE wire[p] # <<>> /\ Head(wire[p]).type = "open"
  <2>1. Listed(wire[p])
    BY <1>0 DEF Sound, GoodWire
  <2>2. Listed(Tail(wire[p]))
    BY <1>6, <2>1, Taken
  <2>3. OpensOn(Tail(wire[p])) \in Nat
    BY <2>2, OpensNat
  <2>4. Counts(OpensOn(Tail(wire[p])), OpensOn(wire[p]), Head(wire[p]).type, {"open"})
    BY <1>6, <2>1, OpensTaken
  <2>5. OpensOn(wire[p]) >= 1
    BY <1>6, <2>3, <2>4 DEF Counts
  <2>6. next_id[e] + 1 < IdSpace
    BY <1>1, <1>2, <1>3, <1>4, <2>5, SMTT(60)
  <2> QED  BY <1>1, <2>6, NextId
<1>7. CASE connecting[e] # {}
  <2>1. Cardinality(connecting[e]) >= 1
    <3>1. IsFiniteSet(connecting[e])
      BY DEF IInv, Tables
    <3>2. Cardinality(connecting[e]) # 0
      BY <1>7, <3>1, FS_EmptySet
    <3> QED  BY <1>1, <3>2
  <2>2. next_id[e] + 1 < IdSpace
    BY <1>1, <1>2, <1>3, <1>4, <2>1, SMTT(60)
  <2> QED  BY <1>1, <2>2, NextId
<1> QED  BY <1>5, <1>6, <1>7

-----------------------------------------------------------------------------
(* The handlers, one by one.                                               *)

\* An end asks for a channel.
LEMMA OpenSentCore ==
    ASSUME Core, Sound, NEW e \in End, Running(e), Alone(e),
           NEW n, n = next_id[e], NEW o, o.id = n, NEW m, m.type = "open", m.id = n,
           wire'[e] = Append(wire[e], m), wire'[Peer(e)] = wire[Peer(e)],
           pending'[e] = pending[e] \cup {o}, next_id'[e] = n + 1, run'[e] = run[e],
           channels'[e] = channels[e], connecting'[e] = connecting[e],
           pending_connects'[e] = pending_connects[e]
    PROVE  Core'
<1> DEFINE p == Peer(e)  we == wire[e]  we2 == wire'[e]
<1>1. Listed(we) /\ Tag(m) = n
  BY DEF Sound, GoodWire, Tag
<1>2. Plus(we, we2, {"open"}, n)
  BY <1>1, PlusAdded
<1>3. Alike(we, we2, Verdict) /\ Level(we, we2)
  <2>1. m.type \notin Verdict /\ m.type \notin {"confirm", "close"}
    BY DEF Verdict
  <2>2. Alike(we, we2, Verdict)
    BY <1>1, <2>1, AlikeAdded
  <2>3. Level(we, we2)
    BY <1>1, <2>1, LevelAdded
  <2> QED  BY <2>2, <2>3
<1>4. Fresh(channels[e], pending[e], n)
  BY DEF Core, Own
<1>5. o.id \notin Ids(pending[e])
  BY <1>4 DEF Fresh
<1>6. Asks(e)
  <2>1. Requested(pending[e], pending'[e], wire[e], wire'[e],
                  connecting[p], connecting'[p], wire[p], wire'[p])
    BY <1>2, <1>5, AlikeSame DEF Requested, Alone
  <2> QED  BY <2>1 DEF Asks, Handled
<1>7. Serves(e)
  <2>1. Alike(wire[p], wire'[p], {"open"})
    BY AlikeSame
  <2> QED  BY <1>3, <2>1, NothingDone DEF Serves, Alone
<1>8. Fresh(channels'[e], pending'[e], next_id'[e])
  BY <1>4, FreshOpen
<1>9. Running(p) => Pairs(e)
  <2>1. SUFFICES ASSUME Running(p) PROVE Pairs(e)
    OBVIOUS
  <2>2. /\ Pair(channels[e], pending[e], n, we, channels[p], pending[p], next_id[p], wire[p])
        /\ pending_connects[e] = Cardinality(connecting[e])
    BY <2>1 DEF Core, Joint
  <2>3. Pair(channels[e], pending'[e], n + 1, we2, channels[p], pending[p], next_id[p], wire[p])
    BY <1>3, <2>2, PairOpen
  <2> QED  BY <2>2, <2>3 DEF Pairs, Alone
<1>10. run'[e] # "error" /\ (Running(e)' => Running(e))
  BY DEF Core, NoProtocolError, Running
<1> QED  BY <1>6, <1>7, <1>8, <1>9, <1>10, ActorKeeps

\* An open dropped at the cap, or sent with a new id, keeps the account.
LEMMA OpenCore ==
    ASSUME Core, IInv, Sound, Budget, NEW e \in End, Open(e)
    PROVE  Core'
<1> DEFINE p == Peer(e)  cmd == Head(cmds[e])  n == next_id[e]
           o == [id |-> n, terminal |-> cmd.kind = "session"]
           m == [type |-> "open", id |-> n, open |-> cmd]
<1>1. CASE UNCHANGED <<table, wire>>
  BY <1>1, IdleCore, QuietSame DEF Open
<1>2. CASE /\ AllocId(e) /\ pending' = [pending EXCEPT ![e] = @ \cup {o}]
           /\ Send(e, m) /\ UNCHANGED <<channels, connecting, pending_connects>>
  <2>1. Running(e) /\ UNCHANGED run /\ cmds[e] # <<>> /\ cmd.kind \in OpenKinds
    BY DEF Open, Commanded, OpenKinds
  <2>2. o.id = n /\ m.type = "open" /\ m.id = n /\ Good(m)
    BY DEF Good
  <2>3. next_id'[e] = n + 1 /\ next_id'[p] = next_id[p]
    <3>1. (n + 1) % IdSpace = n + 1
      BY <2>1, IdLeft
    <3> QED  BY <1>2, <3>1, Peers DEF AllocId, Sound
  <2>4. pending'[e] = pending[e] \cup {o} /\ pending'[p] = pending[p]
    BY <1>2, Peers DEF IInv, Tables
  <2> HIDE DEF o, m
  <2>5. wire'[e] = Append(wire[e], m) /\ wire'[p] = wire[p]
    BY <1>2, <2>2, WireSent DEF Wires
  <2>6. Alone(e)
    BY <1>2, <2>1, <2>3, <2>4 DEF Alone
  <2> QED  BY <1>2, <2>1, <2>2, <2>3, <2>4, <2>5, <2>6, OpenSentCore
<1> QED  BY <1>1, <1>2 DEF Open

\* A step that leaves the channels, opens and ids of both ends alone.
LEMMA StillCore ==
    ASSUME Core, NEW e \in End, Alone(e), run'[e] = run[e],
           channels'[e] = channels[e], pending'[e] = pending[e], next_id'[e] = next_id[e],
           Level(wire[e], wire'[e]), Level(wire[Peer(e)], wire'[Peer(e)]),
           Alike(wire[e], wire'[e], {"open"}), Alike(wire[Peer(e)], wire'[Peer(e)], Verdict),
           Running(Peer(e)) => Serves(e),
           Running(e) /\ Running(Peer(e)) => pending_connects'[e] = Cardinality(connecting'[e])
    PROVE  Core'
<1> DEFINE p == Peer(e)
<1>1. run'[e] # "error" /\ (Running(e)' <=> Running(e))
  BY DEF Core, NoProtocolError, Running
<1>2. Asks(e)
  BY NothingDone DEF Asks, Alone
<1>3. Running(e) => Fresh(channels'[e], pending'[e], next_id'[e])
  BY DEF Core, Own
<1>4. Running(e) /\ Running(p) => Pairs(e)
  <2>1. SUFFICES ASSUME Running(e), Running(p) PROVE Pairs(e)
    OBVIOUS
  <2>2. Pair(channels[e], pending[e], next_id[e], wire[e],
             channels[p], pending[p], next_id[p], wire[p])
    BY <2>1 DEF Core, Joint
  <2>3. Pair(channels[e], pending[e], next_id[e], wire'[e],
             channels[p], pending[p], next_id[p], wire'[p])
    BY <2>2, PairLevel
  <2> QED  BY <2>1, <2>3 DEF Pairs, Alone
<1> QED  BY <1>1, <1>2, <1>3, <1>4, ActorKeeps

\* An end accepts a channel.
LEMMA AcceptCore ==
    ASSUME Core, Sound, NEW e \in End, Running(e), Alone(e),
           NEW n, n = next_id[e], NEW x, NEW c, c.id = n, c.peer = x, ~c.sent_close,
           wire'[e] = Append(wire[e], Confirm(x, n)),
           channels'[e] = channels[e] \cup {c}, pending'[e] = pending[e],
           next_id'[e] = n + 1, run'[e] = run[e],
           Alike(wire[Peer(e)], wire'[Peer(e)], Verdict),
           Level(wire[Peer(e)], wire'[Peer(e)]),
           Running(Peer(e)) =>
               /\ Serves(e) /\ x \in Ids(pending[Peer(e)])
               /\ pending_connects'[e] = Cardinality(connecting'[e])
    PROVE  Core'
<1> DEFINE p == Peer(e)
<1>1. Listed(wire[e])
  BY DEF Sound, GoodWire
<1>2. run'[e] # "error" /\ (Running(e)' <=> Running(e))
  BY DEF Core, NoProtocolError, Running
<1>3. Asks(e)
  <2>1. Confirm(x, n).type \notin {"open"}
    BY DEF Confirm
  <2>2. Alike(wire[e], wire'[e], {"open"})
    BY <1>1, <2>1, AlikeAdded
  <2> QED  BY <2>2, NothingDone DEF Asks, Alone
<1>4. Fresh(channels[e], pending[e], n)
  BY DEF Core, Own
<1>5. Fresh(channels'[e], pending'[e], next_id'[e])
  BY <1>4, FreshAccept
<1>6. Running(p) => Pairs(e)
  <2>1. SUFFICES ASSUME Running(p) PROVE Pairs(e)
    OBVIOUS
  <2>2. Pair(channels[e], pending[e], n, wire[e],
             channels[p], pending[p], next_id[p], wire[p])
    BY <2>1 DEF Core, Joint
  <2>3. x \in Ids(pending[p])
    BY <2>1
  <2>4. Pair(channels'[e], pending[e], n + 1, wire'[e],
             channels[p], pending[p], next_id[p], wire'[p])
    BY <1>1, <2>2, <2>3, PairAccept, ZenonT(60)
  <2> QED  BY <2>1, <2>4 DEF Pairs, Alone
<1> QED  BY <1>2, <1>3, <1>5, <1>6, ActorKeeps

\* What the first packet of the peer, an open of x, says while the peer runs.
LEMMA OpenArrived ==
    ASSUME Core, Sound, NEW e \in End, Arrives(e, "open"),
           wire'[Peer(e)] = Tail(wire[Peer(e)])
    PROVE  /\ Minus(wire[Peer(e)], wire'[Peer(e)], {"open"}, Packet(e).id)
           /\ Alike(wire[Peer(e)], wire'[Peer(e)], Verdict)
           /\ Level(wire[Peer(e)], wire'[Peer(e)])
           /\ Running(Peer(e)) => /\ Packet(e).id \in Ids(pending[Peer(e)])
                                  /\ Packet(e).id \notin Askers(connecting[e])
<1> DEFINE p == Peer(e)  q == wire[p]  x == Packet(e).id
<1>0. p \in End /\ Peer(p) = e
  BY Peers
<1>1. q # <<>> /\ Head(q).type = "open" /\ Head(q).id = x /\ Listed(q)
  BY <1>0 DEF Arrives, Packet, Sound, GoodWire
<1>2. Tag(Head(q)) = x
  BY <1>1 DEF Tag
<1>3. Minus(q, wire'[p], {"open"}, x)
  BY <1>1, <1>2, MinusTaken
<1>4. Head(q).type \notin Verdict /\ Head(q).type \notin {"confirm", "close"}
  BY <1>1 DEF Verdict
<1>5. Alike(q, wire'[p], Verdict)
  BY <1>1, <1>4, AlikeTaken
<1>6. Level(q, wire'[p])
  BY <1>1, <1>4, LevelTaken
<1>7. ASSUME Running(p) PROVE x \in Ids(pending[p]) /\ x \notin Askers(connecting[e])
  <2>1. Asked(pending[p], q, connecting[e], wire[e])
    BY <1>0, <1>7 DEF Core, Own
  <2>2. Has(q, {"open"}, x)
    BY <1>3 DEF Minus
  <2> QED  BY <2>1, <2>2 DEF Asked
<1> QED  BY <1>3, <1>5, <1>6, <1>7

\* A refusal that is sent.
LEMMA FailureSent ==
    ASSUME NEW q, Listed(q), NEW x, NEW q2, q2 = Append(q, [type |-> "failure", to |-> x])
    PROVE  Plus(q, q2, Verdict, x) /\ Alike(q, q2, {"open"}) /\ Level(q, q2)
<1> DEFINE m == [type |-> "failure", to |-> x]
<1>1. /\ m.type \in Verdict /\ Tag(m) = x /\ m.type \notin {"open"}
      /\ m.type \notin {"confirm", "close"}
  BY DEF Verdict, Tag
<1> HIDE DEF m
<1>2. q2 = Append(q, m)
  BY DEF m
<1>3. Plus(q, q2, Verdict, x)
  BY <1>1, <1>2, PlusAdded
<1>4. Alike(q, q2, {"open"})
  BY <1>1, <1>2, AlikeAdded
<1>5. Level(q, q2)
  BY <1>1, <1>2, LevelAdded
<1> QED  BY <1>3, <1>4, <1>5

\* A confirmation is an answer to its open.
LEMMA ConfirmSent ==
    ASSUME NEW q, Listed(q), NEW x, NEW i, NEW q2, q2 = Append(q, Confirm(x, i))
    PROVE  Plus(q, q2, Verdict, x)
<1> DEFINE m == Confirm(x, i)
<1>1. m.type \in Verdict /\ Tag(m) = x
  BY DEF Verdict, Tag, Confirm
<1> HIDE DEF m
<1>2. q2 = Append(q, m)
  BY DEF m
<1> QED  BY <1>1, <1>2, PlusAdded

\* on_channel_open: accepted at once, ...
LEMMA OnChannelOpenCore ==
    ASSUME Core, IInv, Sound, Budget, NEW e \in End, OnChannelOpen(e)
    PROVE  Core'
<1> DEFINE p == Peer(e)  x == Packet(e).id  n == next_id[e]
           c == Chan(n, x, TRUE, FALSE)
           k == [peer |-> x, state |-> Begun(Packet(e).open)]
<1>0. p \in End /\ p # e /\ Peer(p) = e
  BY Peers
<1>1. /\ Arrives(e, "open") /\ Running(e) /\ UNCHANGED run /\ wire[p] # <<>>
      /\ Head(wire[p]).type = "open" /\ Listed(wire[e])
  BY DEF OnChannelOpen, Arrives, Sound, GoodWire
<1>2. CASE /\ AllocId(e) /\ Insert(e, c)
           /\ Reply(e, [type |-> "confirm", to |-> x, id |-> n])
           /\ UNCHANGED <<pending, connecting, pending_connects>>
  <2>1. c.id = n /\ c.peer = x /\ ~c.sent_close
    BY DEF Chan
  <2>2. [type |-> "confirm", to |-> x, id |-> n] = Confirm(x, n) /\ Good(Confirm(x, n))
    BY DEF Confirm, Good
  <2>3. wire'[e] = Append(wire[e], Confirm(x, n)) /\ wire'[p] = Tail(wire[p])
    <3>1. Reply(e, Confirm(x, n))
      BY <1>2, <2>2
    <3> QED  BY <1>1, <2>2, <3>1, WireReplied DEF Wires
  <2>4. next_id'[e] = n + 1 /\ next_id'[p] = next_id[p]
    <3>1. (n + 1) % IdSpace = n + 1
      BY <1>1, IdLeft
    <3> QED  BY <1>0, <1>2, <3>1 DEF AllocId, Sound
  <2> HIDE DEF c
  <2>5. channels'[e] = channels[e] \cup {c} /\ channels'[p] = channels[p]
    BY <1>0, <1>2 DEF IInv, Tables, Insert
  <2>6. Alone(e)
    BY <1>1, <1>2, <2>4, <2>5 DEF Alone
  <2> HIDE DEF x
  <2>7. /\ Minus(wire[p], wire'[p], {"open"}, x) /\ Alike(wire[p], wire'[p], Verdict)
        /\ Level(wire[p], wire'[p]) /\ (Running(p) => x \in Ids(pending[p]))
    BY <1>1, <2>3, OpenArrived DEF x
  <2>8. Serves(e)
    <3>1. Plus(wire[e], wire'[e], Verdict, x)
      BY <1>1, <2>3, ConfirmSent
    <3>2. Judged(pending[p], pending'[p], wire[p], wire'[p],
                 connecting[e], connecting'[e], wire[e], wire'[e])
      BY <1>2, <2>7, <3>1 DEF Judged
    <3> QED  BY <3>2 DEF Serves, Handled
  <2>9. Running(p) => pending_connects'[e] = Cardinality(connecting'[e])
    BY <1>1, <1>2 DEF Core, Joint
  <2> QED
    BY <1>1, <1>2, <2>1, <2>3, <2>4, <2>5, <2>6, <2>7, <2>8, <2>9, AcceptCore
\* ... left to a connect, ...
<1>3. CASE /\ pending_connects' = [pending_connects EXCEPT ![e] = @ + 1]
           /\ connecting' = [connecting EXCEPT ![e] = @ \cup {k}]
           /\ Take(e)
           /\ UNCHANGED <<channels, pending, next_id>>
  <2>1. k.peer = x
    OBVIOUS
  <2> HIDE DEF k
  <2>2. wire'[e] = wire[e] /\ wire'[p] = Tail(wire[p])
    BY <1>1, <1>3, WireTaken DEF Wires
  <2>3. /\ connecting'[e] = connecting[e] \cup {k} /\ connecting'[p] = connecting[p]
        /\ pending_connects'[e] = pending_connects[e] + 1
        /\ pending_connects'[p] = pending_connects[p]
    BY <1>0, <1>3 DEF IInv, Tables
  <2>4. Alone(e)
    BY <1>1, <1>3, <2>3 DEF Alone
  <2> HIDE DEF x
  <2>5. /\ Minus(wire[p], wire'[p], {"open"}, x) /\ Alike(wire[p], wire'[p], Verdict)
        /\ Level(wire[p], wire'[p]) /\ (Running(p) => x \notin Askers(connecting[e]))
    BY <1>1, <2>2, OpenArrived DEF x
  <2>6. Serves(e)
    <3>1. Tried(pending[p], pending'[p], wire[p], wire'[p],
                connecting[e], connecting'[e], wire[e], wire'[e])
      BY <1>3, <2>1, <2>2, <2>3, <2>5, AlikeSame DEF Tried
    <3> QED  BY <3>1 DEF Serves, Handled
  <2>7. ASSUME Running(p) PROVE pending_connects'[e] = Cardinality(connecting'[e])
    <3>1. k \notin connecting[e]
      BY <2>1, <2>5, <2>7 DEF Askers
    <3>2. IsFiniteSet(connecting[e])
      BY DEF IInv, Tables
    <3>3. Cardinality(connecting[e] \cup {k}) = Cardinality(connecting[e]) + 1
      BY <3>1, <3>2, FS_AddElement
    <3>4. pending_connects[e] = Cardinality(connecting[e])
      BY <1>1, <2>7 DEF Core, Joint
    <3> QED  BY <2>3, <3>3, <3>4
  <2>8. Level(wire[e], wire'[e]) /\ Alike(wire[e], wire'[e], {"open"})
    BY <2>2, LevelSame, AlikeSame
  <2> QED  BY <1>1, <1>3, <2>4, <2>5, <2>6, <2>7, <2>8, StillCore
\* ... or refused.
<1>4. CASE Refuse(e, x) /\ UNCHANGED table
  <2> DEFINE m == [type |-> "failure", to |-> x]
  <2>1. wire'[e] = Append(wire[e], m) /\ wire'[p] = Tail(wire[p])
    <3>1. Good(m) /\ Reply(e, m)
      BY <1>4 DEF Good, Refuse
    <3> HIDE DEF m
    <3> QED  BY <1>1, <3>1, WireReplied DEF Wires
  <2>2. Alone(e)
    BY <1>1, <1>4 DEF Alone, table
  <2> HIDE DEF x
  <2>3. /\ Minus(wire[p], wire'[p], {"open"}, x) /\ Alike(wire[p], wire'[p], Verdict)
        /\ Level(wire[p], wire'[p])
    BY <1>1, <2>1, OpenArrived DEF x
  <2>4. /\ Plus(wire[e], wire'[e], Verdict, x) /\ Alike(wire[e], wire'[e], {"open"})
        /\ Level(wire[e], wire'[e])
    BY <1>1, <2>1, FailureSent
  <2>5. Serves(e)
    <3>1. Judged(pending[p], pending'[p], wire[p], wire'[p],
                 connecting[e], connecting'[e], wire[e], wire'[e])
      BY <1>4, <2>3, <2>4 DEF Judged, table
    <3> QED  BY <3>1 DEF Serves, Handled
  <2>6. Running(p) => pending_connects'[e] = Cardinality(connecting'[e])
    BY <1>1, <1>4 DEF Core, Joint, table
  <2>7. /\ run'[e] = run[e] /\ channels'[e] = channels[e] /\ pending'[e] = pending[e]
        /\ next_id'[e] = next_id[e]
    BY <1>1, <1>4 DEF table
  <2> QED  BY <2>2, <2>3, <2>4, <2>5, <2>6, <2>7, StillCore
<1> QED  BY <1>2, <1>3, <1>4 DEF OnChannelOpen

\* A connect task reports.
LEMMA ResolveCore ==
    ASSUME Core, IInv, NEW e \in End, Resolve(e)
    PROVE  Core'
<1> DEFINE p == Peer(e)
<1>0. p \in End /\ p # e /\ Peer(p) = e
  BY Peers
<1>1. PICK c \in connecting[e], state \in {"connected", "failed"} :
         /\ connecting' = [connecting EXCEPT ![e] =
               (@ \ {c}) \cup {[c EXCEPT !.state = state]}]
  BY DEF Resolve, Reports
<1>2. UNCHANGED <<run, channels, pending, pending_connects, next_id, wire>>
  BY DEF Resolve, Reports
<1> DEFINE d == [c EXCEPT !.state = state]
<1>3. d.peer = c.peer
  OBVIOUS
<1> HIDE DEF d
<1>4. connecting'[e] = (connecting[e] \ {c}) \cup {d} /\ connecting'[p] = connecting[p]
  BY <1>0, <1>1 DEF IInv, Tables, d
<1>5. Alone(e)
  BY <1>2, <1>4 DEF Alone
<1>6. Askers(connecting'[e]) = Askers(connecting[e])
  BY <1>3, <1>4 DEF Askers
<1>7. (\A a, b \in connecting[e] : a.peer = b.peer => a = b) =>
          \A a, b \in connecting'[e] : a.peer = b.peer => a = b
  BY <1>3, <1>4
<1>8. Serves(e)
  <2>1. Untouched(pending[p], pending'[p], wire[p], wire'[p],
                  connecting[e], connecting'[e], wire[e], wire'[e])
    BY <1>2, <1>6, <1>7, AlikeSame DEF Untouched
  <2> QED  BY <2>1 DEF Serves, Handled
<1>9. ASSUME Running(e), Running(p) PROVE pending_connects'[e] = Cardinality(connecting'[e])
  <2>1. d \notin connecting[e] \ {c}
    <3>1. Asked(pending[p], wire[p], connecting[e], wire[e])
      BY <1>0, <1>9 DEF Core, Own
    <3>2. \A a \in connecting[e] : a.peer = c.peer => a = c
      BY <3>1 DEF Asked
    <3> QED  BY <1>3, <3>2
  <2>2. IsFiniteSet(connecting[e])
    BY DEF IInv, Tables
  <2>3. /\ IsFiniteSet(connecting[e] \ {c})
        /\ Cardinality(connecting[e] \ {c}) = Cardinality(connecting[e]) - 1
        /\ Cardinality(connecting[e]) \in Nat
    BY <2>2, CardinalityRemove
  <2>4. Cardinality((connecting[e] \ {c}) \cup {d}) = Cardinality(connecting[e] \ {c}) + 1
    BY <2>1, <2>3, FS_AddElement
  <2>5. pending_connects[e] = Cardinality(connecting[e])
    BY <1>9 DEF Core, Joint
  <2> QED  BY <1>2, <1>4, <2>3, <2>4, <2>5
<1>10. /\ Level(wire[e], wire'[e]) /\ Level(wire[p], wire'[p])
       /\ Alike(wire[e], wire'[e], {"open"}) /\ Alike(wire[p], wire'[p], Verdict)
  BY <1>2, LevelSame, AlikeSame
<1> QED  BY <1>2, <1>5, <1>8, <1>9, <1>10, StillCore

\* on_cmd: Connected.
LEMMA OnConnectedCore ==
    ASSUME Core, IInv, Sound, Budget, NEW e \in End, OnConnected(e)
    PROVE  Core'
<1> DEFINE p == Peer(e)  n == next_id[e]
<1>0. p \in End /\ p # e /\ Peer(p) = e /\ Listed(wire[e])
  BY Peers DEF Sound, GoodWire
<1>1. PICK c \in connecting[e] :
        /\ Running(e)
        /\ connecting' = [connecting EXCEPT ![e] = @ \ {c}]
        /\ pending_connects' = [pending_connects EXCEPT ![e] = Resolved(e)]
        /\ \/ /\ AllocId(e)
              /\ Insert(e, Chan(next_id[e], c.peer, FALSE, FALSE))
              /\ Send(e, [type |-> "confirm", to |-> c.peer, id |-> next_id[e]])
           \/ /\ RefuseConnect(e, c)
              /\ UNCHANGED <<channels, next_id>>
        /\ UNCHANGED <<run, pending>>
  BY DEF OnConnected
<1>2. /\ connecting'[e] = connecting[e] \ {c} /\ connecting'[p] = connecting[p]
      /\ pending_connects'[e] = Resolved(e) /\ pending_connects'[p] = pending_connects[p]
  BY <1>0, <1>1 DEF IInv, Tables
<1>3. ASSUME Running(p)
      PROVE  /\ pending_connects'[e] = Cardinality(connecting'[e])
             /\ c.peer \in Ids(pending[p])
  <2>1. Cardinality(connecting[e] \ {c}) = Cardinality(connecting[e]) - 1
        /\ Cardinality(connecting[e]) \in Nat /\ Cardinality(connecting[e] \ {c}) \in Nat
    BY CardinalityRemove DEF IInv, Tables
  <2>2. pending_connects[e] = Cardinality(connecting[e])
    BY <1>1, <1>3 DEF Core, Joint
  <2>3. Resolved(e) = Cardinality(connecting[e]) - 1
    BY <2>1, <2>2 DEF Resolved
  <2>4. Asked(pending[p], wire[p], connecting[e], wire[e])
    BY <1>0, <1>3 DEF Core, Own
  <2>5. c.peer \in Askers(connecting[e])
    BY DEF Askers
  <2> QED  BY <1>2, <2>1, <2>3, <2>4, <2>5 DEF Asked
<1>4. ASSUME Plus(wire[e], wire'[e], Verdict, c.peer), wire'[p] = wire[p] PROVE Serves(e)
  <2>1. Reported(pending[p], pending'[p], wire[p], wire'[p],
                 connecting[e], connecting'[e], wire[e], wire'[e])
    BY <1>1, <1>2, <1>4, AlikeSame DEF Reported
  <2> QED  BY <2>1 DEF Serves, Handled
<1>5. CASE /\ AllocId(e) /\ Insert(e, Chan(n, c.peer, FALSE, FALSE))
           /\ Send(e, [type |-> "confirm", to |-> c.peer, id |-> n])
  <2> DEFINE ch == Chan(n, c.peer, FALSE, FALSE)
  <2>1. ch.id = n /\ ch.peer = c.peer /\ ~ch.sent_close
    BY DEF Chan
  <2>2. [type |-> "confirm", to |-> c.peer, id |-> n] = Confirm(c.peer, n) /\ Good(Confirm(c.peer, n))
    BY DEF Confirm, Good
  <2>3. wire'[e] = Append(wire[e], Confirm(c.peer, n)) /\ wire'[p] = wire[p]
    <3>1. Send(e, Confirm(c.peer, n))
      BY <1>5, <2>2
    <3> QED  BY <2>2, <3>1, WireSent DEF Wires
  <2>4. next_id'[e] = n + 1 /\ next_id'[p] = next_id[p]
    <3>1. (n + 1) % IdSpace = n + 1
      BY <1>1, IdLeft
    <3> QED  BY <1>0, <1>5, <3>1 DEF AllocId, Sound
  <2>5. channels'[e] = channels[e] \cup {ch} /\ channels'[p] = channels[p]
    BY <1>0, <1>5 DEF IInv, Tables, Insert
  <2> HIDE DEF ch
  <2>6. Alone(e)
    BY <1>1, <1>2, <2>4, <2>5 DEF Alone
  <2>7. Serves(e)
    BY <1>0, <1>4, <2>3, ConfirmSent
  <2>8. Alike(wire[p], wire'[p], Verdict) /\ Level(wire[p], wire'[p])
    BY <2>3, AlikeSame, LevelSame
  <2> QED
    BY <1>1, <1>3, <2>1, <2>3, <2>4, <2>5, <2>6, <2>7, <2>8, AcceptCore
<1>6. CASE RefuseConnect(e, c) /\ UNCHANGED <<channels, next_id>>
  <2> DEFINE m == [type |-> "failure", to |-> c.peer]
  <2>1. wire'[e] = Append(wire[e], m) /\ wire'[p] = wire[p]
    <3>1. Good(m) /\ Send(e, m)
      BY <1>6 DEF Good, RefuseConnect
    <3> HIDE DEF m
    <3> QED  BY <3>1, WireSent DEF Wires
  <2>2. Alone(e)
    BY <1>1, <1>2, <1>6 DEF Alone
  <2>3. /\ Plus(wire[e], wire'[e], Verdict, c.peer) /\ Alike(wire[e], wire'[e], {"open"})
        /\ Level(wire[e], wire'[e])
    BY <1>0, <2>1, FailureSent
  <2>4. Serves(e)
    BY <1>4, <2>1, <2>3
  <2>5. Alike(wire[p], wire'[p], Verdict) /\ Level(wire[p], wire'[p])
    BY <2>1, AlikeSame, LevelSame
  <2> QED  BY <1>1, <1>3, <1>6, <2>2, <2>3, <2>4, <2>5, StillCore
<1> QED  BY <1>1, <1>5, <1>6

\* on_open_confirm: whoever is answered has asked.
LEMMA OnOpenConfirmCore ==
    ASSUME Core, IInv, Sound, NEW e \in End, OnOpenConfirm(e)
    PROVE  Core'
<1> DEFINE p == Peer(e)  x == Packet(e).to  i == Packet(e).id  q == wire[p]
<1>0. p \in End /\ p # e /\ Peer(p) = e
  BY Peers
<1>1. /\ Running(e) /\ q # <<>> /\ Head(q) = Packet(e) /\ Head(q).type = "confirm"
      /\ GoodWire(q) /\ Listed(q)
  BY <1>0 DEF OnOpenConfirm, Arrives, Packet, Sound, GoodWire
<1>2. wire'[e] = wire[e] /\ wire'[p] = Tail(q)
  <2>1. Take(e)
    BY DEF OnOpenConfirm
  <2> QED  BY <1>1, <2>1, WireTaken DEF Wires
<1>3. Head(q) = Confirm(x, i)
  <2>1. Good(Head(q))
    BY <1>1, <1>2, GoodTaken
  <2> QED  BY <1>1, <2>1 DEF Good
<1> HIDE DEF x, i
<1>4. /\ Head(q).type \in Verdict /\ Tag(Head(q)) = x /\ Head(q).type \notin {"open"}
  BY <1>3 DEF Confirm, Verdict, Tag
<1>5. Minus(q, wire'[p], Verdict, x)
  BY <1>1, <1>2, <1>4, MinusTaken
<1>6. Alike(q, wire'[p], {"open"})
  BY <1>1, <1>2, <1>4, AlikeTaken
<1>7. Asked(pending[e], wire[e], connecting[p], q) /\ Fresh(channels[e], pending[e], next_id[e])
  BY <1>1 DEF Core, Own
<1>8. x \in Ids(pending[e]) /\ Once(q, Verdict)
  BY <1>5, <1>7 DEF Asked, Minus
<1>9. PICK o \in pending[e] :
        /\ o.id = x
        /\ pending' = [pending EXCEPT ![e] = @ \ {o}]
        /\ Insert(e, Chan(x, i, o.terminal, o.terminal))
        /\ UNCHANGED run
  <2>1. Opens(e, x) # {}
    BY <1>8 DEF Opens, Ids
  <2>2. PICK o \in Opens(e, x) :
             /\ pending' = [pending EXCEPT ![e] = @ \ {o}]
             /\ Insert(e, Chan(x, i, o.terminal, o.terminal))
             /\ UNCHANGED run
    BY <2>1 DEF OnOpenConfirm, x, i
  <2> QED  BY <2>2 DEF Opens
<1> DEFINE c == Chan(x, i, o.terminal, o.terminal)
<1>10. c.id = x /\ c.peer = i /\ ~c.sent_close
  BY DEF Chan
<1> HIDE DEF c
<1>11. /\ pending'[e] = pending[e] \ {o} /\ pending'[p] = pending[p]
       /\ channels'[e] = channels[e] \cup {c} /\ channels'[p] = channels[p]
  BY <1>0, <1>9 DEF IInv, Tables, Insert, c
<1>12. UNCHANGED <<connecting, pending_connects, next_id>>
  BY DEF OnOpenConfirm
<1>13. Alone(e)
  BY <1>9, <1>11, <1>12 DEF Alone
<1>14. pending'[e] \subseteq pending[e] /\ Ids(pending'[e]) = Ids(pending[e]) \ {x}
  <2>1. \A a \in pending[e] : a.id = x => a = o
    BY <1>7, <1>9 DEF Asked
  <2> QED  BY <1>9, <1>11, <2>1 DEF Ids
<1>15. Asks(e)
  <2>1. Settles(pending[e], pending'[e], wire[e], wire'[e],
                connecting[p], connecting'[p], wire[p], wire'[p])
    BY <1>2, <1>5, <1>12, <1>14, AlikeSame DEF Settles
  <2> QED  BY <2>1 DEF Asks, Handled
<1>16. Serves(e)
  <2>1. Alike(wire[e], wire'[e], Verdict)
    BY <1>2, AlikeSame
  <2> QED  BY <1>6, <1>11, <1>12, <2>1, NothingDone DEF Serves
<1>17. Fresh(channels'[e], pending'[e], next_id'[e])
  BY <1>7, <1>8, <1>10, <1>11, <1>12, <1>14, FreshConfirm
<1>18. Running(p) => Pairs(e)
  <2>1. SUFFICES ASSUME Running(p) PROVE Pairs(e)
    OBVIOUS
  <2>2. /\ Pair(channels[e], pending[e], next_id[e], wire[e],
                channels[p], pending[p], next_id[p], q)
        /\ pending_connects[e] = Cardinality(connecting[e])
    BY <1>1, <2>1 DEF Core, Joint
  <2>3. Pair(channels'[e], pending'[e], next_id[e], wire[e],
             channels[p], pending[p], next_id[p], wire'[p])
    <3> DEFINE wp2 == wire'[p]  C2 == channels'[e]  P2 == pending'[e]
    <3>1. /\ Listed(q) /\ q # <<>> /\ wp2 = Tail(q) /\ Head(q) = Confirm(x, i)
          /\ x \in Ids(pending[e]) /\ Once(q, Verdict)
          /\ C2 = channels[e] \cup {c} /\ P2 \subseteq pending[e]
          /\ Ids(P2) = Ids(pending[e]) \ {x}
      BY <1>1, <1>2, <1>3, <1>8, <1>11, <1>14
    <3> HIDE DEF wp2, C2, P2, q
    <3>2. Pair(C2, P2, next_id[e], wire[e], channels[p], pending[p], next_id[p], wp2)
      BY <1>10, <2>2, <3>1, PairConfirm
    <3> QED  BY <3>2 DEF wp2, C2, P2
  <2> QED  BY <1>2, <1>11, <1>12, <2>2, <2>3 DEF Pairs
<1>19. run'[e] # "error" /\ (Running(e)' => Running(e))
  BY <1>9 DEF Core, NoProtocolError, Running
<1> QED  BY <1>13, <1>15, <1>16, <1>17, <1>18, <1>19, ActorKeeps

\* on_open_failure.
LEMMA OnOpenFailureCore ==
    ASSUME Core, IInv, Sound, NEW e \in End, OnOpenFailure(e)
    PROVE  Core'
<1> DEFINE p == Peer(e)  x == Packet(e).to  q == wire[p]
<1>0. p \in End /\ p # e /\ Peer(p) = e
  BY Peers
<1>1. /\ Running(e) /\ q # <<>> /\ Head(q).to = x /\ Head(q).type = "failure" /\ Listed(q)
  BY <1>0 DEF OnOpenFailure, Arrives, Packet, Sound, GoodWire
<1>2. wire'[e] = wire[e] /\ wire'[p] = Tail(q)
  <2>1. Take(e)
    BY DEF OnOpenFailure
  <2> QED  BY <1>1, <2>1, WireTaken DEF Wires
<1> HIDE DEF x
<1>3. /\ Head(q).type \in Verdict /\ Tag(Head(q)) = x /\ Head(q).type \notin {"open"}
      /\ Head(q).type \notin {"confirm", "close"}
  BY <1>1 DEF Verdict, Tag
<1>4. Minus(q, wire'[p], Verdict, x)
  BY <1>1, <1>2, <1>3, MinusTaken
<1>5. Alike(q, wire'[p], {"open"}) /\ Level(q, wire'[p])
  <2>1. Alike(q, wire'[p], {"open"})
    BY <1>1, <1>2, <1>3, AlikeTaken
  <2>2. Level(q, wire'[p])
    BY <1>1, <1>2, <1>3, LevelTaken
  <2> QED  BY <2>1, <2>2
<1>6. UNCHANGED <<connecting, pending_connects, next_id>>
  BY DEF OnOpenFailure
<1>7. CASE EndLoop(e, "ended")
  BY <1>2, <1>5, <1>6, <1>7, AlikeSame, EndCore
<1>8. CASE /\ pending' = [pending EXCEPT ![e] = @ \ Opens(e, x)] /\ UNCHANGED <<run, channels>>
  <2>1. pending'[e] = pending[e] \ Opens(e, x) /\ pending'[p] = pending[p]
    BY <1>0, <1>8 DEF IInv, Tables
  <2>2. Alone(e)
    BY <1>6, <1>8, <2>1 DEF Alone
  <2>3. pending'[e] \subseteq pending[e] /\ Ids(pending'[e]) = Ids(pending[e]) \ {x}
    BY <2>1 DEF Opens, Ids
  <2>4. Asks(e)
    <3>1. Settles(pending[e], pending'[e], wire[e], wire'[e],
                  connecting[p], connecting'[p], wire[p], wire'[p])
      BY <1>2, <1>4, <1>6, <2>3, AlikeSame DEF Settles
    <3> QED  BY <3>1 DEF Asks, Handled
  <2>5. Serves(e)
    <3>1. Alike(wire[e], wire'[e], Verdict)
      BY <1>2, AlikeSame
    <3> QED  BY <1>5, <1>6, <2>1, <3>1, NothingDone DEF Serves
  <2>6. Fresh(channels'[e], pending'[e], next_id'[e])
    <3>1. Fresh(channels[e], pending[e], next_id[e])
      BY <1>1 DEF Core, Own
    <3> QED  BY <1>6, <1>8, <2>3, <3>1, FreshLess
  <2>7. Running(p) => Pairs(e)
    <3>1. SUFFICES ASSUME Running(p) PROVE Pairs(e)
      OBVIOUS
    <3>2. /\ Pair(channels[e], pending[e], next_id[e], wire[e],
                  channels[p], pending[p], next_id[p], q)
          /\ pending_connects[e] = Cardinality(connecting[e])
      BY <1>1, <3>1 DEF Core, Joint
    <3>3. Pair(channels[e], pending'[e], next_id[e], wire[e],
               channels[p], pending[p], next_id[p], wire'[p])
      BY <1>5, <2>3, <3>2, PairRefused
    <3> QED  BY <1>2, <1>6, <1>8, <2>1, <3>2, <3>3 DEF Pairs
  <2>8. run'[e] # "error" /\ (Running(e)' => Running(e))
    BY <1>8 DEF Core, NoProtocolError, Running
  <2> QED  BY <2>2, <2>4, <2>5, <2>6, <2>7, <2>8, ActorKeeps
<1> QED  BY <1>7, <1>8 DEF OnOpenFailure, x

\* A close that is sent, as far as opens go.
LEMMA CloseAlike ==
    ASSUME NEW q, Listed(q), NEW x, NEW q2, q2 = Append(q, [type |-> "close", to |-> x])
    PROVE  Alike(q, q2, {"open"}) /\ Alike(q, q2, Verdict)
<1> DEFINE m == [type |-> "close", to |-> x]
<1>1. m.type \notin {"open"} /\ m.type \notin Verdict
  BY DEF Verdict
<1> HIDE DEF m
<1>2. q2 = Append(q, m)
  BY DEF m
<1>3. Alike(q, q2, {"open"})
  BY <1>1, <1>2, AlikeAdded
<1>4. Alike(q, q2, Verdict)
  BY <1>1, <1>2, AlikeAdded
<1> QED  BY <1>3, <1>4

\* on_cmd: Close.
LEMMA SendCloseCore ==
    ASSUME Core, IInv, Sound, NEW e \in End, SendClose(e)
    PROVE  Core'
<1> DEFINE p == Peer(e)
<1>0. p \in End /\ p # e /\ Peer(p) = e /\ Listed(wire[e])
  BY Peers DEF Sound, GoodWire
<1>1. PICK c \in channels[e] :
        /\ Running(e) /\ ~c.sent_close
        /\ channels' = [channels EXCEPT ![e] =
              (@ \ {c}) \cup {[c EXCEPT !.sent_close = TRUE]}]
        /\ Send(e, [type |-> "close", to |-> c.peer])
        /\ UNCHANGED <<run, pending, connecting, pending_connects, next_id>>
  BY DEF SendClose
<1> DEFINE d == [c EXCEPT !.sent_close = TRUE]
<1>2. d.id = c.id /\ d.peer = c.peer
  OBVIOUS
<1> HIDE DEF d
<1>3. channels'[e] = (channels[e] \ {c}) \cup {d} /\ channels'[p] = channels[p]
  BY <1>0, <1>1 DEF IInv, Tables, d
<1>4. wire'[e] = Append(wire[e], [type |-> "close", to |-> c.peer]) /\ wire'[p] = wire[p]
  <2> DEFINE m == [type |-> "close", to |-> c.peer]
  <2>1. Good(m) /\ Send(e, m)
    BY <1>1 DEF Good
  <2> HIDE DEF m
  <2>2. wire'[e] = Append(wire[e], m) /\ wire'[p] = wire[p]
    BY <2>1, WireSent DEF Wires
  <2> QED  BY <2>2 DEF m
<1>5. Alone(e)
  BY <1>1, <1>3 DEF Alone
<1>6. Alike(wire[e], wire'[e], {"open"}) /\ Alike(wire[e], wire'[e], Verdict)
  BY <1>0, <1>4, CloseAlike
<1>7. Alike(wire[p], wire'[p], {"open"}) /\ Alike(wire[p], wire'[p], Verdict)
  BY <1>4, AlikeSame
<1>8. Asks(e) /\ Serves(e)
  BY <1>1, <1>6, <1>7, NothingDone DEF Asks, Serves
<1>9. Fresh(channels'[e], pending'[e], next_id'[e])
  <2>1. Fresh(channels[e], pending[e], next_id[e])
    BY <1>1 DEF Core, Own
  <2> QED  BY <1>1, <1>2, <1>3, <2>1, FreshClose
<1>10. Running(p) => Pairs(e)
  <2>1. SUFFICES ASSUME Running(p) PROVE Pairs(e)
    OBVIOUS
  <2>2. /\ Pair(channels[e], pending[e], next_id[e], wire[e],
                channels[p], pending[p], next_id[p], wire[p])
        /\ pending_connects[e] = Cardinality(connecting[e])
    BY <1>1, <2>1 DEF Core, Joint
  <2> DEFINE C2 == channels'[e]  we2 == wire'[e]
  <2>3. /\ C2 = (channels[e] \ {c}) \cup {d} /\ Listed(wire[e])
        /\ we2 = Append(wire[e], [type |-> "close", to |-> c.peer])
    BY <1>0, <1>3, <1>4
  <2> HIDE DEF C2, we2
  <2>4. Pair(C2, pending[e], next_id[e], we2,
             channels[p], pending[p], next_id[p], wire[p])
    BY <1>2, <2>2, <2>3, PairClose
  <2> QED  BY <1>1, <1>3, <1>4, <2>2, <2>4 DEF Pairs, C2, we2
<1>11. run'[e] # "error" /\ (Running(e)' => Running(e))
  BY <1>1 DEF Core, NoProtocolError, Running
<1> QED  BY <1>5, <1>8, <1>9, <1>10, <1>11, ActorKeeps

\* What is put behind a queue.
LEMMA Behind ==
    ASSUME NEW q, Listed(q)
    PROVE  q \o <<>> = q /\ \A m : q \o <<m>> = Append(q, m)
<1> DEFINE S == {q[i] : i \in 1..Len(q)}
<1>1. q \in Seq(S)
  BY ListedSeq
<1> HIDE DEF S
<1>2. q \o <<>> = q
  BY <1>1
<1>3. ASSUME NEW m PROVE q \o <<m>> = Append(q, m)
  <2>1. q \in Seq(S \cup {m}) /\ m \in S \cup {m}
    BY <1>1
  <2> QED  BY <2>1
<1> QED  BY <1>2, <1>3

\* What on_close sends for a channel: nothing, a close, and a goodbye or not.
LEMMA CloseAnswered ==
    ASSUME NEW q, GoodWire(q), NEW c, NEW q2, q2 = q \o CloseAnswer(c) \o Goodbye(c)
    PROVE  /\ GoodWire(q2) /\ Alike(q, q2, {"open"}) /\ Alike(q, q2, Verdict)
           /\ OpensOn(q2) = OpensOn(q)
           /\ ~c.end_on_close => \/ c.sent_close /\ q2 = q
                                 \/ q2 = Append(q, [type |-> "close", to |-> c.peer])
<1> DEFINE m == [type |-> "close", to |-> c.peer]  g == [type |-> "disconnect"]
           r == q \o CloseAnswer(c)
<1>0. /\ Good(m) /\ Good(g) /\ g.type \notin {"open"} /\ g.type \notin Verdict
      /\ m.type \notin {"open"}
  BY DEF Good, Verdict
<1>1. Listed(q) /\ q2 = r \o Goodbye(c)
  BY DEF GoodWire
<1>2. (c.sent_close /\ r = q) \/ r = Append(q, m)
  <2>1. CASE c.sent_close
    BY <1>1, <2>1, Behind DEF CloseAnswer
  <2>2. CASE ~c.sent_close
    BY <1>1, <2>2, Behind DEF CloseAnswer
  <2> QED  BY <2>1, <2>2
<1>3. r = Append(q, m) => Alike(q, r, {"open"}) /\ Alike(q, r, Verdict)
  BY <1>1, CloseAlike
<1> HIDE DEF m, g, r
<1>4. GoodWire(r)
  BY <1>0, <1>2, GoodAdded
<1>5. Alike(q, r, {"open"}) /\ Alike(q, r, Verdict)
  BY <1>2, <1>3, AlikeSame
<1>6. OpensOn(r) = OpensOn(q)
  <2>1. ASSUME r = Append(q, m) PROVE OpensOn(r) = OpensOn(q)
    <3>1. Counts(OpensOn(q), OpensOn(r), m.type, {"open"})
      BY <1>1, <2>1, OpensAdded
    <3> QED  BY <1>0, <3>1 DEF Counts
  <2> QED  BY <1>2, <2>1
<1>7. Listed(r)
  BY <1>4 DEF GoodWire
<1>8. CASE c.end_on_close
  <2>1. q2 = Append(r, g)
    BY <1>1, <1>7, <1>8, Behind DEF Goodbye, g
  <2>2. GoodWire(q2)
    BY <1>0, <1>4, <2>1, GoodAdded
  <2>3. Alike(r, q2, {"open"}) /\ Alike(r, q2, Verdict)
    BY <1>0, <1>7, <2>1, AlikeAdded
  <2>4. Counts(OpensOn(r), OpensOn(q2), g.type, {"open"})
    BY <1>7, <2>1, OpensAdded
  <2>5. OpensOn(q2) = OpensOn(r)
    BY <1>0, <2>4 DEF Counts
  <2>6. Alike(q, q2, {"open"})
    BY <1>5, <2>3, AlikeTwice
  <2>7. Alike(q, q2, Verdict)
    BY <1>5, <2>3, AlikeTwice
  <2> QED  BY <1>6, <1>8, <2>2, <2>5, <2>6, <2>7
<1>9. CASE ~c.end_on_close
  <2>1. q2 = r
    BY <1>1, <1>7, <1>9, Behind DEF Goodbye
  <2> QED  BY <1>2, <1>4, <1>5, <1>6, <2>1 DEF m
<1> QED  BY <1>8, <1>9

\* The wires after a close was answered.
LEMMA WireAnswered ==
    ASSUME Sound, NEW e \in End, wire[Peer(e)] # <<>>, NEW c,
           wire' = [wire EXCEPT ![Peer(e)] = Tail(@),
                      ![e] = @ \o CloseAnswer(c) \o Goodbye(c)]
    PROVE  Wires(e, wire[e] \o CloseAnswer(c) \o Goodbye(c), Tail(wire[Peer(e)]))
<1> DEFINE p == Peer(e)  q == Tail(wire[p])
           r == wire[e] \o CloseAnswer(c) \o Goodbye(c)
<1>0. p \in End /\ p # e
  BY Peers
<1>1. GoodWire(q)
  BY <1>0, GoodTaken DEF Sound
<1>2. GoodWire(r)
  BY CloseAnswered DEF Sound
<1>3. wire' = [wire EXCEPT ![p] = q, ![e] = r]
  BY <1>0 DEF Sound
<1> HIDE DEF q, p, r
<1>4. wire' = [f \in End |-> wire'[f]] /\ wire'[e] = r /\ wire'[p] = q
  BY <1>0, <1>3 DEF Sound
<1> QED  BY <1>1, <1>2, <1>4 DEF Wires, q, p, r

\* An end takes a close for x, and drops the channel of that id if it has one.
LEMMA ClosedCore ==
    ASSUME Core, Sound, NEW e \in End, Running(e), Alone(e), NEW x,
           wire[Peer(e)] # <<>>, Head(wire[Peer(e)]).type = "close",
           Head(wire[Peer(e)]).to = x, wire'[Peer(e)] = Tail(wire[Peer(e)]),
           channels'[e] = {c \in channels[e] : c.id # x},
           pending'[e] = pending[e], next_id'[e] = next_id[e], run'[e] = run[e],
           connecting'[e] = connecting[e], pending_connects'[e] = pending_connects[e],
           Alike(wire[e], wire'[e], {"open"}), Alike(wire[e], wire'[e], Verdict),
           \/ wire'[e] = wire[e] /\ \A c \in channels[e] : c.id = x => c.sent_close
           \/ \E c \in channels[e] :
                 c.id = x /\ wire'[e] = Append(wire[e], [type |-> "close", to |-> c.peer])
    PROVE  Core'
<1> DEFINE p == Peer(e)  q == wire[p]
<1>0. p \in End /\ Listed(wire[e]) /\ Listed(q)
  BY Peers DEF Sound, GoodWire
<1>1. Alike(q, wire'[p], {"open"}) /\ Alike(q, wire'[p], Verdict)
  <2>1. Head(q).type \notin {"open"} /\ Head(q).type \notin Verdict
    BY DEF Verdict
  <2> QED  BY <1>0, <2>1, AlikeTaken
<1>2. Asks(e) /\ Serves(e)
  BY <1>1, NothingDone DEF Asks, Serves, Alone
<1>3. Fresh(channels'[e], pending'[e], next_id'[e])
  <2>1. Fresh(channels[e], pending[e], next_id[e])
    BY DEF Core, Own
  <2> QED  BY <2>1, FreshLess
<1>4. Running(p) => Pairs(e)
  <2>1. SUFFICES ASSUME Running(p) PROVE Pairs(e)
    OBVIOUS
  <2>2. /\ Pair(channels[e], pending[e], next_id[e], wire[e],
                channels[p], pending[p], next_id[p], q)
        /\ pending_connects[e] = Cardinality(connecting[e])
    BY <2>1 DEF Core, Joint
  <2>3. Pair(channels'[e], pending[e], next_id[e], wire'[e],
             channels[p], pending[p], next_id[p], wire'[p])
    <3> DEFINE wp2 == wire'[p]  C2 == channels'[e]  we2 == wire'[e]
    <3>1. /\ Listed(wire[e]) /\ Listed(q) /\ q # <<>> /\ wp2 = Tail(q)
          /\ Head(q).type = "close" /\ Head(q).to = x
          /\ C2 = Without(channels[e], x)
      BY <1>0 DEF Without
    <3>2. Closing(channels[e], wire[e], we2, x)
      BY DEF Closing
    <3> HIDE DEF wp2, C2, we2, q
    <3>3. Pair(C2, pending[e], next_id[e], we2, channels[p], pending[p], next_id[p], wp2)
      BY <2>2, <3>1, <3>2, PairClosed
    <3> QED  BY <3>3 DEF wp2, C2, we2
  <2> QED  BY <2>2, <2>3 DEF Pairs, Alone
<1>5. run'[e] # "error" /\ (Running(e)' => Running(e))
  BY DEF Core, NoProtocolError, Running
<1> QED  BY <1>2, <1>3, <1>4, <1>5, ActorKeeps

\* on_close.
LEMMA OnCloseCore ==
    ASSUME Core, IInv, Sound, NEW e \in End, OnClose(e)
    PROVE  Core'
<1> DEFINE p == Peer(e)  x == Packet(e).to  here == {c \in channels[e] : c.id = x}
<1>0. p \in End /\ p # e /\ Peer(p) = e
  BY Peers
<1>1. /\ Running(e) /\ wire[p] # <<>> /\ Head(wire[p]).to = x /\ Listed(wire[p])
      /\ Head(wire[p]).type = "close" /\ UNCHANGED <<connecting, pending_connects, next_id>>
  BY <1>0 DEF OnClose, Arrives, Packet, Sound, GoodWire
<1>2. CASE here = {} /\ Take(e) /\ UNCHANGED <<run, channels, pending>>
  <2>1. wire'[e] = wire[e] /\ wire'[p] = Tail(wire[p])
    BY <1>1, <1>2, WireTaken DEF Wires
  <2>2. Alone(e)
    BY <1>1, <1>2 DEF Alone
  <2>3. channels'[e] = {c \in channels[e] : c.id # x} /\ \A c \in channels[e] : c.id # x
    BY <1>2
  <2>4. Alike(wire[e], wire'[e], {"open"}) /\ Alike(wire[e], wire'[e], Verdict)
    BY <2>1, AlikeSame
  <2> HIDE DEF x
  <2> QED  BY <1>1, <1>2, <2>1, <2>2, <2>3, <2>4, ClosedCore
<1>3. ASSUME NEW c \in here,
             wire' = [wire EXCEPT ![Peer(e)] = Tail(@),
                        ![e] = @ \o CloseAnswer(c) \o Goodbye(c)],
             \/ c.end_on_close /\ EndLoop(e, "ended")
             \/ /\ ~c.end_on_close
                /\ channels' = [channels EXCEPT ![e] = @ \ {c}]
                /\ UNCHANGED <<run, pending>>
      PROVE  Core'
  <2>1. /\ wire'[e] = wire[e] \o CloseAnswer(c) \o Goodbye(c) /\ wire'[p] = Tail(wire[p])
        /\ GoodWire(wire[e])
    BY <1>1, <1>3, WireAnswered DEF Wires, Sound
  <2>2. /\ Alike(wire[e], wire'[e], {"open"}) /\ Alike(wire[e], wire'[e], Verdict)
        /\ ~c.end_on_close => \/ c.sent_close /\ wire'[e] = wire[e]
                              \/ wire'[e] = Append(wire[e], [type |-> "close", to |-> c.peer])
    BY <2>1, CloseAnswered
  <2>3. CASE EndLoop(e, "ended")
    <3>1. Alike(wire[p], wire'[p], {"open"})
      <4>1. Head(wire[p]).type \notin {"open"}
        BY <1>1
      <4> QED  BY <1>1, <2>1, <4>1, AlikeTaken
    <3> QED  BY <1>1, <2>2, <2>3, <3>1, EndCore
  <2>4. CASE /\ ~c.end_on_close
             /\ channels' = [channels EXCEPT ![e] = @ \ {c}]
             /\ UNCHANGED <<run, pending>>
    <3>1. channels'[e] = channels[e] \ {c} /\ channels'[p] = channels[p]
      BY <1>0, <2>4 DEF IInv, Tables
    <3>2. c \in channels[e] /\ c.id = x /\ \A d \in channels[e] : d.id = x => d = c
      <4>1. Fresh(channels[e], pending[e], next_id[e])
        BY <1>1 DEF Core, Own
      <4> QED  BY <1>3, <4>1 DEF Fresh
    <3>3. channels'[e] = {d \in channels[e] : d.id # x}
      BY <3>1, <3>2
    <3>4. Alone(e)
      BY <1>1, <2>4, <3>1 DEF Alone
    <3> HIDE DEF x
    <3>5. \/ wire'[e] = wire[e] /\ \A d \in channels[e] : d.id = x => d.sent_close
          \/ \E d \in channels[e] :
                d.id = x /\ wire'[e] = Append(wire[e], [type |-> "close", to |-> d.peer])
      BY <2>2, <2>4, <3>2
    <3> QED  BY <1>1, <2>1, <2>2, <2>4, <3>3, <3>4, <3>5, ClosedCore
  <2> QED  BY <1>3, <2>3, <2>4
<1> QED  BY <1>2, <1>3 DEF OnClose

\* A DISCONNECT, or the end of the transport.
LEMMA OnDisconnectCore ==
    ASSUME Core, IInv, Sound, NEW e \in End, OnDisconnect(e) \/ PeerGone(e)
    PROVE  Core'
<1> DEFINE p == Peer(e)
<1>0. p \in End
  BY Peers
<1>1. CASE OnDisconnect(e)
  <2>1. /\ wire[p] # <<>> /\ Head(wire[p]).type = "disconnect" /\ Listed(wire[p])
        /\ EndLoop(e, "ended") /\ UNCHANGED <<connecting, pending_connects, next_id>> /\ Take(e)
    BY <1>0, <1>1 DEF OnDisconnect, Arrives, Sound, GoodWire
  <2>2. wire'[e] = wire[e] /\ wire'[p] = Tail(wire[p])
    BY <2>1, WireTaken DEF Wires
  <2>3. Alike(wire[p], wire'[p], {"open"})
    <3>1. Head(wire[p]).type \notin {"open"}
      BY <2>1
    <3> QED  BY <2>1, <2>2, <3>1, AlikeTaken
  <2> QED  BY <2>1, <2>2, <2>3, AlikeSame, EndCore
<1>2. CASE PeerGone(e)
  <2>1. EndLoop(e, "ended") /\ UNCHANGED <<connecting, pending_connects, next_id, wire>>
    BY <1>2 DEF PeerGone
  <2> QED  BY <2>1, AlikeSame, EndCore
<1> QED  BY <1>1, <1>2

-----------------------------------------------------------------------------
(* The books: what the variables are, and that ids do not run out.         *)

\* A step of e, as far as the bounds go.
Ledger(e) ==
    LET p == Peer(e) IN
    /\ run' = [f \in End |-> run'[f]] /\ cmds' = [f \in End |-> cmds'[f]]
    /\ next_id' \in [End -> Nat] /\ accepts' \in [End -> Nat]
    /\ open_admission' \in [End -> Nat] /\ scenario' = scenario
    /\ next_id'[p] = next_id[p] /\ cmds'[p] = cmds[p] /\ accepts'[p] = accepts[p]
    /\ connecting'[p] = connecting[p]
    /\ Listed(cmds'[e])

\* It takes no more ids than it gives up, and promises no more opens.
Thrifty(e) ==
    LET p == Peer(e) IN
    /\ next_id'[e] + Commands(cmds'[e], OpenKinds) + accepts'[e]
           + Cardinality(connecting'[e]) + OpensOn(wire'[p])
         <= next_id[e] + Commands(cmds[e], OpenKinds) + accepts[e]
              + Cardinality(connecting[e]) + OpensOn(wire[p])
    /\ OpensOn(wire'[e]) + Commands(cmds'[e], OpenKinds) + accepts'[e]
         <= OpensOn(wire[e]) + Commands(cmds[e], OpenKinds) + accepts[e]

\* A thrifty step keeps the books: ids are not used up.
LEMMA BooksKept ==
    ASSUME Sound, Budget, IInv, IInv', NEW e \in End, Ledger(e), Thrifty(e),
           NEW we, NEW wp, Wires(e, we, wp)
    PROVE  Sound' /\ Budget'
<1> DEFINE p == Peer(e)
<1>0. p \in End /\ p # e /\ Peer(p) = e /\ \A f \in End : f = e \/ f = p
  BY Peers DEF End
<1>1. Sound'
  <2>1. \A f \in End : GoodWire(wire'[f])
    BY <1>0 DEF Wires
  <2>2. \A f \in End : Listed(cmds'[f])
    BY <1>0 DEF Ledger, Sound
  <2> QED  BY <2>1, <2>2 DEF Wires, Ledger, Sound
<1>2. /\ next_id[e] \in Nat /\ Commands(cmds[e], OpenKinds) \in Nat
      /\ accepts[e] \in Nat /\ Cardinality(connecting[e]) \in Nat /\ OpensOn(wire[e]) \in Nat
  BY Numbers
<1>3. /\ next_id[p] \in Nat /\ Commands(cmds[p], OpenKinds) \in Nat
      /\ accepts[p] \in Nat /\ Cardinality(connecting[p]) \in Nat /\ OpensOn(wire[p]) \in Nat
  BY <1>0, Numbers
<1>4. /\ next_id'[e] \in Nat /\ accepts'[e] \in Nat
      /\ Commands(cmds'[e], OpenKinds) \in Nat /\ Cardinality(connecting'[e]) \in Nat
      /\ OpensOn(wire'[e]) \in Nat /\ OpensOn(wire'[p]) \in Nat
  <2>1. next_id'[e] \in Nat /\ accepts'[e] \in Nat
    BY DEF Ledger
  <2>2. Commands(cmds'[e], OpenKinds) \in Nat
    BY CommandsNat DEF Ledger
  <2>3. Cardinality(connecting'[e]) \in Nat
    BY FS_CardinalityType DEF IInv, Tables
  <2>4. OpensOn(wire'[e]) \in Nat /\ OpensOn(wire'[p]) \in Nat
    BY OpensNat DEF Wires, GoodWire
  <2> QED  BY <2>1, <2>2, <2>3, <2>4
<1>5. /\ next_id[e] + Commands(cmds[e], OpenKinds) + accepts[e] + Cardinality(connecting[e])
           + (OpensOn(wire[p]) + Commands(cmds[p], OpenKinds) + accepts[p]) < IdSpace
      /\ next_id[p] + Commands(cmds[p], OpenKinds) + accepts[p] + Cardinality(connecting[p])
           + (OpensOn(wire[e]) + Commands(cmds[e], OpenKinds) + accepts[e]) < IdSpace
  BY <1>0 DEF Budget, Spend, Ahead
<1>6. IdSpace \in Nat
  BY OpensAssumption
<1>7. next_id'[e] + Commands(cmds'[e], OpenKinds) + accepts'[e] + Cardinality(connecting'[e])
        + (OpensOn(wire'[p]) + Commands(cmds[p], OpenKinds) + accepts[p]) < IdSpace
  BY <1>2, <1>3, <1>4, <1>5, <1>6 DEF Thrifty
<1>8. next_id[p] + Commands(cmds[p], OpenKinds) + accepts[p] + Cardinality(connecting[p])
        + (OpensOn(wire'[e]) + Commands(cmds'[e], OpenKinds) + accepts'[e]) < IdSpace
  BY <1>2, <1>3, <1>4, <1>5, <1>6 DEF Thrifty
<1>9. (Spend(e) + Ahead(p))' < IdSpace
  BY <1>7 DEF Spend, Ahead, Ledger
<1>10. (Spend(p) + Ahead(e))' < IdSpace
  BY <1>8 DEF Spend, Ahead, Ledger
<1>11. Budget'
  BY <1>0, <1>9, <1>10 DEF Budget
<1> QED  BY <1>1, <1>11

\* Opens on a wire that a packet was put on, or taken from.
LEMMA OpensSent ==
    ASSUME NEW q, GoodWire(q), NEW m, NEW q2, q2 = Append(q, m)
    PROVE  /\ OpensOn(q) \in Nat
           /\ m.type = "open" => OpensOn(q2) = OpensOn(q) + 1
           /\ m.type # "open" => OpensOn(q2) = OpensOn(q)
<1>1. Listed(q)
  BY DEF GoodWire
<1>2. Counts(OpensOn(q), OpensOn(q2), m.type, {"open"})
  BY <1>1, OpensAdded
<1>3. OpensOn(q) \in Nat
  BY <1>1, OpensNat
<1> QED  BY <1>2, <1>3 DEF Counts

\* Reading adds no open, and reading an open removes one.
LEMMA OpensRead ==
    ASSUME NEW q, GoodWire(q), q # <<>>, NEW q2, q2 = Tail(q)
    PROVE  /\ OpensOn(q2) \in Nat /\ OpensOn(q) \in Nat /\ OpensOn(q2) <= OpensOn(q)
           /\ Head(q).type = "open" => OpensOn(q) = OpensOn(q2) + 1
<1>1. Listed(q)
  BY DEF GoodWire
<1>2. Listed(q2)
  BY <1>1, Taken
<1>3. Counts(OpensOn(q2), OpensOn(q), Head(q).type, {"open"})
  BY <1>1, OpensTaken
<1>4. OpensOn(q) \in Nat /\ OpensOn(q2) \in Nat
  BY <1>1, <1>2, OpensNat
<1> QED  BY <1>3, <1>4 DEF Counts

\* Packets that concern no open, answer or close.
IdleWire(e) ==
    \/ UNCHANGED wire
    \/ \E m : m.type \notin Matters /\ Send(e, m)
    \/ /\ wire[Peer(e)] # <<>> /\ Head(wire[Peer(e)]).type \notin Matters
       /\ Take(e) \/ \E m : m.type \notin Matters /\ Reply(e, m)

\* What such packets do to the two wires.
LEMMA IdleWires ==
    ASSUME Sound, NEW e \in End, IdleWire(e)
    PROVE  /\ Wires(e, wire'[e], wire'[Peer(e)])
           /\ Quietly(wire[e], wire'[e]) /\ Quietly(wire[Peer(e)], wire'[Peer(e)])
           /\ OpensOn(wire'[e]) = OpensOn(wire[e])
           /\ OpensOn(wire'[Peer(e)]) <= OpensOn(wire[Peer(e)])
<1> DEFINE p == Peer(e)
<1>0. GoodWire(wire[e]) /\ GoodWire(wire[p])
  BY Peers DEF Sound
<1>1. OpensOn(wire[e]) \in Nat /\ OpensOn(wire[p]) \in Nat
  BY <1>0, OpensNat DEF GoodWire
<1>2. CASE UNCHANGED wire
  <2>1. Wires(e, wire[e], wire[p])
    BY <1>2, WireSame
  <2> QED  BY <1>1, <1>2, <2>1, QuietSame
<1>3. ASSUME NEW m, m.type \notin Matters, wire'[e] = Append(wire[e], m)
      PROVE  Good(m) /\ Quietly(wire[e], wire'[e]) /\ OpensOn(wire'[e]) = OpensOn(wire[e])
  <2>1. m.type # "confirm" /\ m.type # "open"
    BY <1>3 DEF Matters
  <2>2. Quietly(wire[e], wire'[e])
    BY <1>0, <1>3, QuietAdded
  <2>3. OpensOn(wire'[e]) = OpensOn(wire[e])
    BY <1>0, <1>3, <2>1, OpensSent
  <2> QED  BY <2>1, <2>2, <2>3 DEF Good
<1>4. ASSUME wire[p] # <<>>, Head(wire[p]).type \notin Matters, wire'[p] = Tail(wire[p])
      PROVE  Quietly(wire[p], wire'[p]) /\ OpensOn(wire'[p]) <= OpensOn(wire[p])
  <2>1. Quietly(wire[p], wire'[p])
    BY <1>0, <1>4, QuietTaken
  <2>2. OpensOn(wire'[p]) <= OpensOn(wire[p])
    BY <1>0, <1>4, OpensRead
  <2> QED  BY <2>1, <2>2
<1>5. ASSUME NEW m, m.type \notin Matters PROVE Good(m)
  BY <1>5 DEF Matters, Good
<1>6. ASSUME NEW m, m.type \notin Matters, Send(e, m)
      PROVE  /\ Wires(e, wire'[e], wire'[p])
             /\ Quietly(wire[e], wire'[e]) /\ Quietly(wire[p], wire'[p])
             /\ OpensOn(wire'[e]) = OpensOn(wire[e]) /\ OpensOn(wire'[p]) <= OpensOn(wire[p])
  <2>1. Wires(e, Append(wire[e], m), wire[p])
    BY <1>5, <1>6, WireSent
  <2>2. wire'[e] = Append(wire[e], m) /\ wire'[p] = wire[p]
    BY <2>1 DEF Wires
  <2> QED  BY <1>1, <1>3, <1>6, <2>1, <2>2, QuietSame
<1>7. ASSUME wire[p] # <<>>, Head(wire[p]).type \notin Matters, Take(e)
      PROVE  /\ Wires(e, wire'[e], wire'[p])
             /\ Quietly(wire[e], wire'[e]) /\ Quietly(wire[p], wire'[p])
             /\ OpensOn(wire'[e]) = OpensOn(wire[e]) /\ OpensOn(wire'[p]) <= OpensOn(wire[p])
  <2>1. Wires(e, wire[e], Tail(wire[p]))
    BY <1>7, WireTaken
  <2>2. wire'[e] = wire[e] /\ wire'[p] = Tail(wire[p])
    BY <2>1 DEF Wires
  <2> QED  BY <1>4, <1>7, <2>1, <2>2, QuietSame
<1>8. ASSUME wire[p] # <<>>, Head(wire[p]).type \notin Matters,
             NEW m, m.type \notin Matters, Reply(e, m)
      PROVE  /\ Wires(e, wire'[e], wire'[p])
             /\ Quietly(wire[e], wire'[e]) /\ Quietly(wire[p], wire'[p])
             /\ OpensOn(wire'[e]) = OpensOn(wire[e]) /\ OpensOn(wire'[p]) <= OpensOn(wire[p])
  <2>1. Wires(e, Append(wire[e], m), Tail(wire[p]))
    BY <1>5, <1>8, WireReplied
  <2>2. wire'[e] = Append(wire[e], m) /\ wire'[p] = Tail(wire[p])
    BY <2>1 DEF Wires
  <2> QED  BY <1>3, <1>4, <1>8, <2>1, <2>2
<1> QED  BY <1>2, <1>6, <1>7, <1>8 DEF IdleWire

OInv == Sound /\ Budget /\ Core

\* A step of e that concerns no open, answer or close.
LEMMA IdleStep ==
    ASSUME OInv, IInv, IInv', NEW e \in End, UNCHANGED <<run, table>>, IdleWire(e), Ledger(e),
           NEW k, k = Commands(cmds'[e], OpenKinds), k \in Nat,
           k + accepts'[e] <= Commands(cmds[e], OpenKinds) + accepts[e]
    PROVE  OInv'
<1> DEFINE p == Peer(e)
<1>0. p \in End
  BY Peers
<1>1. /\ Wires(e, wire'[e], wire'[p])
      /\ Quietly(wire[e], wire'[e]) /\ Quietly(wire[p], wire'[p])
      /\ OpensOn(wire'[e]) = OpensOn(wire[e]) /\ OpensOn(wire'[p]) <= OpensOn(wire[p])
  BY IdleWires DEF OInv
<1>2. Core'
  BY <1>1, IdleCore DEF OInv
<1>3. /\ next_id[e] \in Nat /\ Commands(cmds[e], OpenKinds) \in Nat
      /\ accepts[e] \in Nat /\ Cardinality(connecting[e]) \in Nat /\ OpensOn(wire[e]) \in Nat
      /\ OpensOn(wire[p]) \in Nat /\ OpensOn(wire'[p]) \in Nat /\ accepts'[e] \in Nat
  <2>1. /\ next_id[e] \in Nat /\ Commands(cmds[e], OpenKinds) \in Nat
        /\ accepts[e] \in Nat /\ Cardinality(connecting[e]) \in Nat /\ OpensOn(wire[e]) \in Nat
    BY Numbers DEF OInv
  <2>2. OpensOn(wire[p]) \in Nat
    BY <1>0, Numbers DEF OInv
  <2>3. OpensOn(wire'[p]) \in Nat
    BY <1>1, OpensNat DEF Wires, GoodWire
  <2> QED  BY <2>1, <2>2, <2>3 DEF Ledger
<1>4. next_id'[e] = next_id[e] /\ connecting'[e] = connecting[e]
  BY DEF table
<1>5. Thrifty(e)
  BY <1>1, <1>3, <1>4 DEF Thrifty
<1>6. Sound' /\ Budget'
  BY <1>1, <1>5, BooksKept DEF OInv
<1> QED  BY <1>2, <1>6 DEF OInv

\* ... when the queue and the sockets are left alone too.
LEMMA IdleStill ==
    ASSUME OInv, IInv, IInv', NEW e \in End, UNCHANGED <<run, table, queues, accepts, scenario>>,
           IdleWire(e)
    PROVE  OInv'
<1>1. Peer(e) \in End
  BY Peers
<1>2. Ledger(e)
  BY <1>1 DEF Ledger, OInv, Sound, table, queues
<1>3. Commands(cmds[e], OpenKinds) \in Nat /\ accepts[e] \in Nat
  BY Numbers DEF OInv
<1>4. cmds' = cmds /\ accepts' = accepts
  BY DEF queues
<1>5. Commands(cmds'[e], OpenKinds) + accepts'[e] <= Commands(cmds[e], OpenKinds) + accepts[e]
  BY <1>3, <1>4
<1> QED  BY <1>2, <1>3, <1>4, <1>5, IdleStep

\* The requests and replies that are not about channels.
LEMMA GlobalStep ==
    ASSUME OInv, IInv, IInv', NEW e \in End,
           \/ Probe(e) \/ OnKeepalive(e) \/ OnGlobalReply(e)
           \/ e = "server" /\ (OnForward \/ OnCancel)
    PROVE  OInv'
<1>1. CASE Probe(e)
  <2> DEFINE m == [type |-> "keepalive"]
  <2>1. m.type \notin Matters /\ Send(e, m)
    BY <1>1 DEF Probe, Matters
  <2> HIDE DEF m
  <2>2. IdleWire(e)
    BY <2>1 DEF IdleWire
  <2> QED  BY <1>1, <2>2, IdleStill DEF Probe
<1>2. CASE OnKeepalive(e)
  <2> DEFINE m == [type |-> "refused"]
  <2>1. m.type \notin Matters /\ Reply(e, m)
    BY <1>2 DEF OnKeepalive, Matters
  <2> HIDE DEF m
  <2>2. wire[Peer(e)] # <<>> /\ Head(wire[Peer(e)]).type \notin Matters
    BY <1>2 DEF OnKeepalive, Arrives, Matters
  <2>3. IdleWire(e)
    BY <2>1, <2>2 DEF IdleWire
  <2> QED  BY <1>2, <2>3, IdleStill DEF OnKeepalive, bounds
<1>3. CASE OnGlobalReply(e)
  <2>1. wire[Peer(e)] # <<>> /\ Head(wire[Peer(e)]).type \notin Matters /\ Take(e)
    BY <1>3 DEF OnGlobalReply, Arrives, Matters
  <2>2. IdleWire(e)
    BY <2>1 DEF IdleWire
  <2> QED  BY <1>3, <2>2, IdleStill DEF OnGlobalReply, bounds
<1>4. CASE e = "server" /\ OnForward
  <2>1. wire[Peer(e)] # <<>> /\ Head(wire[Peer(e)]).type \notin Matters
    BY <1>4 DEF OnForward, Arrives, Matters
  <2>2. \E m : m.type \notin Matters /\ Reply(e, m)
    <3>1. ASSUME NEW n, Reply(e, [type |-> "success", port |-> n]) PROVE \E m : m.type \notin Matters /\ Reply(e, m)
      <4> DEFINE m == [type |-> "success", port |-> n]
      <4>1. m.type \notin Matters /\ Reply(e, m)
        BY <3>1 DEF Matters
      <4> HIDE DEF m
      <4> QED  BY <4>1
    <3>2. CASE Reply(e, [type |-> "refused"])
      <4> DEFINE m == [type |-> "refused"]
      <4>1. m.type \notin Matters /\ Reply(e, m)
        BY <3>2 DEF Matters
      <4> HIDE DEF m
      <4> QED  BY <4>1
    <3> QED  BY <1>4, <3>1, <3>2 DEF OnForward
  <2>3. IdleWire(e)
    BY <2>1, <2>2 DEF IdleWire
  <2> QED  BY <1>4, <2>3, IdleStill DEF OnForward, bounds
<1>5. CASE e = "server" /\ OnCancel
  <2>1. wire[Peer(e)] # <<>> /\ Head(wire[Peer(e)]).type \notin Matters /\ Take(e)
    BY <1>5 DEF OnCancel, Arrives, Matters
  <2>2. IdleWire(e)
    BY <2>1 DEF IdleWire
  <2> QED  BY <1>5, <2>2, IdleStill DEF OnCancel, bounds
<1> QED  BY <1>1, <1>2, <1>3, <1>4, <1>5

\* A queue of commands that one was taken from, or put in.
LEMMA CommandTaken ==
    ASSUME NEW q, Listed(q), q # <<>>, NEW q2, q2 = Tail(q), NEW K
    PROVE  /\ Listed(q2) /\ Commands(q2, K) \in Nat /\ Commands(q, K) \in Nat
           /\ Head(q).kind \in K => Commands(q, K) = Commands(q2, K) + 1
           /\ Head(q).kind \notin K => Commands(q, K) = Commands(q2, K)
<1>1. Listed(q2)
  BY Taken
<1>2. Counts(Commands(q2, K), Commands(q, K), Head(q).kind, K)
  BY CommandsTaken
<1>3. Commands(q2, K) \in Nat /\ Commands(q, K) \in Nat
  BY <1>1, CommandsNat
<1> QED  BY <1>1, <1>2, <1>3 DEF Counts

\* A command queued counts with those of its kind.
LEMMA CommandAdded ==
    ASSUME NEW q, Listed(q), NEW m, NEW q2, q2 = Append(q, m), NEW K
    PROVE  /\ Listed(q2) /\ Commands(q2, K) \in Nat /\ Commands(q, K) \in Nat
           /\ Commands(q2, K) <= Commands(q, K) + 1
           /\ m.kind \in K => Commands(q2, K) = Commands(q, K) + 1
           /\ m.kind \notin K => Commands(q2, K) = Commands(q, K)
<1>1. Listed(q2)
  BY Added
<1>2. Counts(Commands(q, K), Commands(q2, K), m.kind, K)
  BY CommandsAdded
<1>3. Commands(q2, K) \in Nat /\ Commands(q, K) \in Nat
  BY <1>1, CommandsNat
<1> QED  BY <1>1, <1>2, <1>3 DEF Counts

\* on_cmd: RemoteForward.
LEMMA RequestForwardStep ==
    ASSUME OInv, IInv, IInv', NEW e \in End, RequestForward(e)
    PROVE  OInv'
<1> DEFINE p == Peer(e)  q == Tail(cmds[e])
<1>0. p \in End /\ p # e
  BY Peers
<1>1. /\ cmds[e] # <<>> /\ Head(cmds[e]).kind \notin OpenKinds /\ Listed(cmds[e])
      /\ UNCHANGED <<run, table, open_admission, accepts, scenario>>
      /\ cmds' = [cmds EXCEPT ![e] = q]
  BY DEF RequestForward, Commanded, OpenKinds, OInv, Sound, bounds
<1>2. IdleWire(e)
  <2> DEFINE cmd == Head(cmds[e])
             m == [type |-> "tcpip-forward", bind |-> cmd.bind, port |-> cmd.port,
                   target |-> cmd.target]
  <2>1. m.type \notin Matters /\ Send(e, m)
    BY DEF RequestForward, Matters
  <2> HIDE DEF m
  <2> QED  BY <2>1 DEF IdleWire
<1>3. /\ Listed(q) /\ Commands(q, OpenKinds) \in Nat
      /\ Commands(cmds[e], OpenKinds) = Commands(q, OpenKinds)
  BY <1>1, CommandTaken, ZenonT(60)
<1> HIDE DEF q
<1>4. cmds' = [f \in End |-> cmds'[f]] /\ cmds'[e] = q /\ cmds'[p] = cmds[p]
  BY <1>0, <1>1 DEF OInv, Sound
<1>5. Ledger(e)
  BY <1>0, <1>1, <1>3, <1>4 DEF Ledger, OInv, Sound, table
<1>6. Commands(cmds'[e], OpenKinds) + accepts'[e] <= Commands(cmds[e], OpenKinds) + accepts[e]
  <2>1. accepts'[e] = accepts[e] /\ accepts[e] \in Nat
    BY <1>1 DEF OInv, Sound
  <2> QED  BY <1>3, <1>4, <2>1
<1> QED  BY <1>1, <1>2, <1>3, <1>4, <1>5, <1>6, IdleStep

\* An acceptor queues an open.
LEMMA AdmitStep ==
    ASSUME OInv, IInv, IInv', NEW e \in End, NEW cmd, Admit(e, cmd)
    PROVE  OInv'
<1> DEFINE p == Peer(e)  q == Append(cmds[e], cmd)
<1>0. p \in End /\ p # e
  BY Peers
<1>1. /\ accepts[e] > 0 /\ accepts' = [accepts EXCEPT ![e] = @ - 1]
      /\ open_admission[e] > 0 /\ open_admission' = [open_admission EXCEPT ![e] = @ - 1]
      /\ cmds' = [cmds EXCEPT ![e] = q] /\ Listed(cmds[e])
      /\ UNCHANGED <<run, table, wire, scenario>>
  BY DEF Admit, OInv, Sound
<1>2. IdleWire(e)
  BY <1>1 DEF IdleWire
<1>3. /\ Listed(q) /\ Commands(q, OpenKinds) \in Nat /\ Commands(cmds[e], OpenKinds) \in Nat
      /\ Commands(q, OpenKinds) <= Commands(cmds[e], OpenKinds) + 1
  BY <1>1, CommandAdded
<1> HIDE DEF q
<1>4. cmds' = [f \in End |-> cmds'[f]] /\ cmds'[e] = q /\ cmds'[p] = cmds[p]
  BY <1>0, <1>1 DEF OInv, Sound
<1>5. /\ accepts[e] \in Nat /\ accepts'[e] = accepts[e] - 1 /\ accepts'[p] = accepts[p]
      /\ accepts' \in [End -> Nat] /\ open_admission' \in [End -> Nat]
  BY <1>0, <1>1 DEF OInv, Sound
<1>6. Ledger(e)
  BY <1>0, <1>1, <1>3, <1>4, <1>5 DEF Ledger, OInv, Sound, table
<1>7. Commands(cmds'[e], OpenKinds) + accepts'[e] <= Commands(cmds[e], OpenKinds) + accepts[e]
  BY <1>3, <1>4, <1>5
<1> QED  BY <1>1, <1>2, <1>3, <1>4, <1>6, <1>7, IdleStep

\* A socket for nobody, and a cancel.
LEMMA SpendStep ==
    ASSUME OInv, IInv, IInv', AcceptForNobody \/ \E key \in scenario.cancels : SendCancel(key)
    PROVE  OInv'
<1> DEFINE e == "client"  p == Peer(e)
<1>0. e \in End /\ p \in End /\ p # e
  BY Peers DEF End
<1>1. /\ accepts[e] > 0 /\ accepts' = [accepts EXCEPT ![e] = @ - 1]
      /\ UNCHANGED <<run, table, queues, scenario>>
  BY DEF AcceptForNobody, SendCancel
<1>2. IdleWire(e)
  <2>1. CASE AcceptForNobody
    BY <2>1 DEF AcceptForNobody, IdleWire
  <2>2. ASSUME NEW key, SendCancel(key) PROVE IdleWire(e)
    <3> DEFINE m == [type |-> "cancel", key |-> key]
    <3>1. m.type \notin Matters /\ Send(e, m)
      BY <2>2 DEF SendCancel, Matters
    <3> HIDE DEF m
    <3> QED  BY <3>1 DEF IdleWire
  <2> QED  BY <2>1, <2>2
<1> HIDE DEF e
<1>3. Commands(cmds[e], OpenKinds) \in Nat
  BY <1>0, Numbers DEF OInv
<1>4. /\ accepts[e] \in Nat /\ accepts'[e] = accepts[e] - 1 /\ accepts'[p] = accepts[p]
      /\ accepts' \in [End -> Nat]
  BY <1>0, <1>1 DEF OInv, Sound
<1>5. Ledger(e)
  BY <1>0, <1>1, <1>4 DEF Ledger, OInv, Sound, table, queues
<1>6. cmds' = cmds
  BY <1>1 DEF queues
<1>7. Commands(cmds'[e], OpenKinds) + accepts'[e] <= Commands(cmds[e], OpenKinds) + accepts[e]
  BY <1>3, <1>4, <1>6
<1> QED  BY <1>0, <1>1, <1>2, <1>3, <1>5, <1>6, <1>7, IdleStep

\* A step of e that leaves the queue and the sockets alone.
LEMMA TableBooks ==
    ASSUME Sound, Budget, IInv, IInv', NEW e \in End,
           UNCHANGED <<queues, accepts, scenario>>,
           run' = [f \in End |-> run'[f]],
           next_id' \in [End -> Nat], next_id'[Peer(e)] = next_id[Peer(e)],
           connecting'[Peer(e)] = connecting[Peer(e)],
           NEW we, NEW wp, Wires(e, we, wp), OpensOn(we) <= OpensOn(wire[e]),
           next_id'[e] + Cardinality(connecting'[e]) + OpensOn(wp)
               <= next_id[e] + Cardinality(connecting[e]) + OpensOn(wire[Peer(e)])
    PROVE  Sound' /\ Budget'
<1> DEFINE p == Peer(e)
<1>0. p \in End
  BY Peers
<1>1. /\ next_id[e] \in Nat /\ Commands(cmds[e], OpenKinds) \in Nat
      /\ accepts[e] \in Nat /\ Cardinality(connecting[e]) \in Nat /\ OpensOn(wire[e]) \in Nat
  BY Numbers
<1>2. OpensOn(wire[p]) \in Nat
  BY <1>0, Numbers
<1>3. OpensOn(we) \in Nat /\ OpensOn(wp) \in Nat
  BY OpensNat DEF Wires, GoodWire
<1>4. Cardinality(connecting'[e]) \in Nat
  BY FS_CardinalityType DEF IInv, Tables
<1>5. cmds' = cmds /\ accepts' = accepts /\ wire'[e] = we /\ wire'[p] = wp /\ next_id'[e] \in Nat
  BY DEF queues, Wires
<1>6. Ledger(e)
  BY <1>0 DEF Ledger, queues, Sound
<1>7. Thrifty(e)
  BY <1>1, <1>2, <1>3, <1>4, <1>5 DEF Thrifty
<1> QED  BY <1>6, <1>7, BooksKept

\* on_cmd: OpenTunnel and OpenSession.
LEMMA OpenStep ==
    ASSUME OInv, IInv, IInv', NEW e \in End, Open(e)
    PROVE  OInv'
<1> DEFINE p == Peer(e)  q == Tail(cmds[e])  cmd == Head(cmds[e])  n == next_id[e]
           m == [type |-> "open", id |-> n, open |-> cmd]
<1>0. p \in End /\ p # e /\ Sound /\ Budget /\ Core
  BY Peers DEF OInv
<1>1. Core'
  BY <1>0, OpenCore
<1>2. /\ cmds[e] # <<>> /\ cmd.kind \in OpenKinds /\ Listed(cmds[e])
      /\ UNCHANGED <<run, accepts, scenario>> /\ cmds' = [cmds EXCEPT ![e] = q]
      /\ open_admission' = [open_admission EXCEPT ![e] = Released(e, cmd.kind)]
  BY <1>0 DEF Open, Commanded, OpenKinds, Sound, bounds
<1>3. /\ Listed(q) /\ Commands(q, OpenKinds) \in Nat
      /\ Commands(cmds[e], OpenKinds) = Commands(q, OpenKinds) + 1
  BY <1>2, CommandTaken
<1> HIDE DEF q
<1>4. cmds' = [f \in End |-> cmds'[f]] /\ cmds'[e] = q /\ cmds'[p] = cmds[p]
  BY <1>0, <1>2 DEF Sound
<1>5. open_admission' \in [End -> Nat]
  <2>1. open_admission[e] \in Nat /\ open_admission[e] + 1 \in Nat
    BY <1>0 DEF Sound
  <2>2. Released(e, cmd.kind) \in Nat
    BY <2>1 DEF Released
  <2> QED  BY <1>0, <1>2, <2>2 DEF Sound
<1>6. /\ n \in Nat /\ accepts[e] \in Nat /\ Cardinality(connecting[e]) \in Nat
      /\ OpensOn(wire[e]) \in Nat
  BY <1>0, Numbers
<1>7. OpensOn(wire[p]) \in Nat
  BY <1>0, Numbers
<1>8. CASE UNCHANGED <<table, wire>>
  <2>1. Wires(e, wire[e], wire[p])
    BY <1>0, <1>8, WireSame
  <2>2. Ledger(e)
    BY <1>0, <1>2, <1>3, <1>4, <1>5, <1>8 DEF Ledger, Sound, table
  <2>3. next_id' = next_id /\ connecting' = connecting /\ wire' = wire /\ accepts' = accepts
    BY <1>2, <1>8 DEF table
  <2>4. Thrifty(e)
    BY <1>3, <1>4, <1>6, <1>7, <2>3 DEF Thrifty
  <2>5. Sound' /\ Budget'
    BY <1>0, <2>1, <2>2, <2>4, BooksKept
  <2> QED  BY <1>1, <2>5 DEF OInv
<1>9. CASE AllocId(e) /\ Send(e, m) /\ UNCHANGED connecting
  <2>1. m.type = "open" /\ Good(m)
    BY DEF Good
  <2> HIDE DEF m
  <2>2. Wires(e, Append(wire[e], m), wire[p])
    BY <1>0, <1>9, <2>1, WireSent
  <2>3. OpensOn(Append(wire[e], m)) = OpensOn(wire[e]) + 1
    BY <1>0, <2>1, OpensSent DEF Sound
  <2>4. next_id'[e] = n + 1 /\ next_id'[p] = next_id[p] /\ next_id' \in [End -> Nat]
    <3>1. (n + 1) % IdSpace = n + 1
      BY <1>0, <1>2, IdLeft
    <3>2. next_id' = [next_id EXCEPT ![e] = n + 1]
      BY <1>9, <3>1 DEF AllocId
    <3> QED  BY <1>0, <1>6, <3>2 DEF Sound
  <2>5. Ledger(e)
    BY <1>0, <1>2, <1>3, <1>4, <1>5, <1>9, <2>4 DEF Ledger, Sound
  <2>6. wire'[e] = Append(wire[e], m) /\ wire'[p] = wire[p] /\ accepts' = accepts
    BY <1>2, <2>2 DEF Wires
  <2>7. Thrifty(e)
    <3>1. /\ Commands(cmds'[e], OpenKinds) = Commands(q, OpenKinds)
          /\ OpensOn(wire'[e]) = OpensOn(wire[e]) + 1 /\ OpensOn(wire'[p]) = OpensOn(wire[p])
          /\ accepts'[e] = accepts[e] /\ connecting'[e] = connecting[e]
      BY <1>4, <1>9, <2>3, <2>6
    <3> QED  BY <1>3, <1>6, <1>7, <2>4, <3>1 DEF Thrifty
  <2>8. Sound' /\ Budget'
    BY <1>0, <2>2, <2>5, <2>7, BooksKept
  <2> QED  BY <1>1, <2>8 DEF OInv
<1> QED  BY <1>8, <1>9 DEF Open

\* on_channel_open.
LEMMA OnChannelOpenStep ==
    ASSUME OInv, IInv, IInv', NEW e \in End, OnChannelOpen(e)
    PROVE  OInv'
<1> DEFINE p == Peer(e)  x == Packet(e).id  n == next_id[e]  q == Tail(wire[p])
           k == [peer |-> x, state |-> Begun(Packet(e).open)]
<1>0. p \in End /\ p # e /\ Sound /\ Budget /\ Core
  BY Peers DEF OInv
<1>1. Core'
  BY <1>0, OnChannelOpenCore
<1>2. /\ wire[p] # <<>> /\ Head(wire[p]).type = "open"
      /\ UNCHANGED <<run, queues, accepts, scenario>> /\ GoodWire(wire[p]) /\ GoodWire(wire[e])
  BY <1>0 DEF OnChannelOpen, Arrives, bounds, Sound
<1>3. OpensOn(q) \in Nat /\ OpensOn(wire[p]) = OpensOn(q) + 1
  BY <1>2, OpensRead
<1>4. /\ n \in Nat /\ Cardinality(connecting[e]) \in Nat /\ OpensOn(wire[e]) \in Nat
      /\ run' = [f \in End |-> run'[f]]
  BY <1>0, <1>2, Numbers DEF Sound
<1> HIDE DEF q
<1>5. CASE /\ AllocId(e) /\ Reply(e, [type |-> "confirm", to |-> x, id |-> n])
           /\ UNCHANGED connecting
  <2> DEFINE m == [type |-> "confirm", to |-> x, id |-> n]
  <2>1. m.type # "open" /\ Good(m)
    BY DEF Good, Confirm
  <2>2. Reply(e, m)
    BY <1>5
  <2> HIDE DEF m
  <2>3. Wires(e, Append(wire[e], m), q)
    BY <1>0, <1>2, <2>1, <2>2, WireReplied DEF q
  <2>4. OpensOn(Append(wire[e], m)) = OpensOn(wire[e])
    BY <1>2, <2>1, OpensSent
  <2>5. next_id'[e] = n + 1 /\ next_id'[p] = next_id[p] /\ next_id' \in [End -> Nat]
    <3>1. (n + 1) % IdSpace = n + 1
      BY <1>0, <1>2, IdLeft
    <3>2. next_id' = [next_id EXCEPT ![e] = n + 1]
      BY <1>5, <3>1 DEF AllocId
    <3> QED  BY <1>0, <1>4, <3>2 DEF Sound
  <2>6. /\ next_id'[e] + Cardinality(connecting'[e]) + OpensOn(q)
              <= n + Cardinality(connecting[e]) + OpensOn(wire[p])
        /\ OpensOn(Append(wire[e], m)) <= OpensOn(wire[e])
    BY <1>3, <1>4, <1>5, <2>4, <2>5
  <2>7. Sound' /\ Budget'
    BY <1>0, <1>2, <1>4, <1>5, <2>3, <2>5, <2>6, TableBooks
  <2> QED  BY <1>1, <2>7 DEF OInv
<1>6. CASE /\ connecting' = [connecting EXCEPT ![e] = @ \cup {k}]
           /\ Take(e) /\ UNCHANGED next_id
  <2> HIDE DEF k
  <2>1. Wires(e, wire[e], q)
    BY <1>0, <1>2, <1>6, WireTaken DEF q
  <2>2. connecting'[e] = connecting[e] \cup {k} /\ connecting'[p] = connecting[p]
    BY <1>0, <1>6 DEF IInv, Tables
  <2>3. /\ Cardinality(connecting[e] \cup {k}) \in Nat
        /\ Cardinality(connecting[e] \cup {k}) <= Cardinality(connecting[e]) + 1
    BY CardinalityAdd DEF IInv, Tables
  <2>4. /\ next_id'[e] + Cardinality(connecting'[e]) + OpensOn(q)
              <= n + Cardinality(connecting[e]) + OpensOn(wire[p])
        /\ OpensOn(wire[e]) <= OpensOn(wire[e])
    BY <1>3, <1>4, <1>6, <2>2, <2>3, SMTT(60)
  <2>5. next_id' \in [End -> Nat] /\ next_id'[p] = next_id[p]
    BY <1>0, <1>6 DEF Sound
  <2>6. Sound' /\ Budget'
    BY <1>0, <1>2, <1>4, <2>1, <2>2, <2>4, <2>5, TableBooks
  <2> QED  BY <1>1, <2>6 DEF OInv
<1>7. CASE Refuse(e, x) /\ UNCHANGED table
  <2> DEFINE m == [type |-> "failure", to |-> x]
  <2>1. m.type # "open" /\ Good(m) /\ Reply(e, m)
    BY <1>7 DEF Good, Refuse
  <2> HIDE DEF m
  <2>2. Wires(e, Append(wire[e], m), q)
    BY <1>0, <1>2, <2>1, WireReplied DEF q
  <2>3. OpensOn(Append(wire[e], m)) = OpensOn(wire[e])
    BY <1>2, <2>1, OpensSent
  <2>4. next_id' = next_id /\ connecting' = connecting /\ next_id' \in [End -> Nat]
    BY <1>0, <1>7 DEF table, Sound
  <2>5. /\ next_id'[e] + Cardinality(connecting'[e]) + OpensOn(q)
              <= n + Cardinality(connecting[e]) + OpensOn(wire[p])
        /\ OpensOn(Append(wire[e], m)) <= OpensOn(wire[e])
    BY <1>3, <1>4, <2>3, <2>4
  <2>6. Sound' /\ Budget'
    BY <1>0, <1>2, <1>4, <2>2, <2>4, <2>5, TableBooks
  <2> QED  BY <1>1, <2>6 DEF OInv
<1> QED  BY <1>5, <1>6, <1>7 DEF OnChannelOpen

\* A step that takes no id, adds no connect and sends no open.
LEMMA PlainBooks ==
    ASSUME Sound, Budget, IInv, IInv', NEW e \in End,
           UNCHANGED <<queues, accepts, scenario, next_id>>,
           run' = [f \in End |-> run'[f]],
           connecting'[Peer(e)] = connecting[Peer(e)],
           Cardinality(connecting'[e]) <= Cardinality(connecting[e]),
           NEW we, NEW wp, Wires(e, we, wp), OpensOn(we) = OpensOn(wire[e]),
           wp = wire[Peer(e)] \/ (wire[Peer(e)] # <<>> /\ wp = Tail(wire[Peer(e)]))
    PROVE  Sound' /\ Budget'
<1> DEFINE p == Peer(e)
<1>0. p \in End /\ GoodWire(wire[p])
  BY Peers DEF Sound
<1>1. /\ next_id[e] \in Nat /\ Cardinality(connecting[e]) \in Nat /\ OpensOn(wire[e]) \in Nat
  BY Numbers
<1>2. OpensOn(wire[p]) \in Nat
  BY <1>0, Numbers
<1>3. OpensOn(wp) \in Nat /\ OpensOn(wp) <= OpensOn(wire[p])
  BY <1>0, <1>2, OpensRead
<1>4. Cardinality(connecting'[e]) \in Nat
  BY FS_CardinalityType DEF IInv, Tables
<1>5. /\ next_id'[e] + Cardinality(connecting'[e]) + OpensOn(wp)
            <= next_id[e] + Cardinality(connecting[e]) + OpensOn(wire[p])
      /\ OpensOn(we) <= OpensOn(wire[e])
  BY <1>1, <1>2, <1>3, <1>4
<1>6. next_id' \in [End -> Nat] /\ next_id'[p] = next_id[p]
  BY DEF Sound
<1> QED  BY <1>5, <1>6, TableBooks

\* A connect task reports.
LEMMA ResolveStep ==
    ASSUME OInv, IInv, IInv', NEW e \in End, Resolve(e)
    PROVE  OInv'
<1> DEFINE p == Peer(e)
<1>0. p \in End /\ p # e /\ Sound /\ Budget /\ Core
  BY Peers DEF OInv
<1>1. Core'
  BY <1>0, ResolveCore
<1>2. PICK c \in connecting[e] : \E d :
         connecting' = [connecting EXCEPT ![e] = (connecting[e] \ {c}) \cup {d}]
  BY DEF Resolve, Reports
<1>3. PICK d : connecting' = [connecting EXCEPT ![e] = (connecting[e] \ {c}) \cup {d}]
  BY <1>2
<1>4. /\ connecting'[e] = (connecting[e] \ {c}) \cup {d} /\ connecting'[p] = connecting[p]
  BY <1>0, <1>3 DEF IInv, Tables
<1>5. Cardinality(connecting'[e]) <= Cardinality(connecting[e])
  BY <1>4, CardinalityReplace DEF IInv, Tables
<1>6. /\ UNCHANGED <<queues, accepts, scenario, next_id, wire>> /\ run' = [f \in End |-> run'[f]]
  BY <1>0 DEF Resolve, Reports, bounds, Sound
<1>7. Wires(e, wire[e], wire[p])
  BY <1>0, <1>6, WireSame
<1>8. Sound' /\ Budget'
  BY <1>0, <1>4, <1>5, <1>6, <1>7, PlainBooks
<1> QED  BY <1>1, <1>8 DEF OInv

\* on_cmd: Connected.
LEMMA OnConnectedStep ==
    ASSUME OInv, IInv, IInv', NEW e \in End, OnConnected(e)
    PROVE  OInv'
<1> DEFINE p == Peer(e)  n == next_id[e]
<1>0. p \in End /\ p # e /\ Sound /\ Budget /\ Core /\ GoodWire(wire[e])
  BY Peers DEF OInv, Sound
<1>1. Core'
  BY <1>0, OnConnectedCore
<1>2. PICK c \in connecting[e] :
        /\ connecting' = [connecting EXCEPT ![e] = @ \ {c}]
        /\ \/ AllocId(e) /\ Send(e, [type |-> "confirm", to |-> c.peer, id |-> n])
           \/ RefuseConnect(e, c) /\ UNCHANGED next_id
        /\ UNCHANGED <<run, queues, bounds>>
  BY DEF OnConnected
<1>3. connecting'[e] = connecting[e] \ {c} /\ connecting'[p] = connecting[p]
  BY <1>0, <1>2 DEF IInv, Tables
<1>4. /\ Cardinality(connecting[e]) \in Nat /\ Cardinality(connecting'[e]) \in Nat
      /\ Cardinality(connecting'[e]) = Cardinality(connecting[e]) - 1
  BY <1>3, CardinalityRemove DEF IInv, Tables
<1>5. UNCHANGED <<queues, accepts, scenario>> /\ run' = [f \in End |-> run'[f]]
  BY <1>0, <1>2 DEF bounds, Sound
<1>6. n \in Nat /\ OpensOn(wire[e]) \in Nat
  BY <1>0, Numbers
<1>7. OpensOn(wire[p]) \in Nat
  BY <1>0, Numbers
<1>8. CASE AllocId(e) /\ Send(e, [type |-> "confirm", to |-> c.peer, id |-> n])
  <2> DEFINE m == [type |-> "confirm", to |-> c.peer, id |-> n]
  <2>1. m.type # "open" /\ Good(m) /\ Send(e, m)
    BY <1>8 DEF Good, Confirm
  <2> HIDE DEF m
  <2>2. Wires(e, Append(wire[e], m), wire[p])
    BY <1>0, <2>1, WireSent
  <2>3. OpensOn(Append(wire[e], m)) = OpensOn(wire[e])
    BY <1>0, <2>1, OpensSent
  <2>4. next_id'[e] = n + 1 /\ next_id'[p] = next_id[p] /\ next_id' \in [End -> Nat]
    <3>1. (n + 1) % IdSpace = n + 1
      BY <1>0, <1>2, IdLeft
    <3>2. next_id' = [next_id EXCEPT ![e] = n + 1]
      BY <1>8, <3>1 DEF AllocId
    <3> QED  BY <1>0, <1>6, <3>2 DEF Sound
  <2>5. /\ next_id'[e] + Cardinality(connecting'[e]) + OpensOn(wire[p])
              <= n + Cardinality(connecting[e]) + OpensOn(wire[p])
        /\ OpensOn(Append(wire[e], m)) <= OpensOn(wire[e])
    BY <1>4, <1>6, <1>7, <2>3, <2>4
  <2>6. Sound' /\ Budget'
    BY <1>0, <1>3, <1>5, <2>2, <2>4, <2>5, TableBooks
  <2> QED  BY <1>1, <2>6 DEF OInv
<1>9. CASE RefuseConnect(e, c) /\ UNCHANGED next_id
  <2> DEFINE m == [type |-> "failure", to |-> c.peer]
  <2>1. m.type # "open" /\ Good(m) /\ Send(e, m)
    BY <1>9 DEF Good, RefuseConnect
  <2> HIDE DEF m
  <2>2. Wires(e, Append(wire[e], m), wire[p])
    BY <1>0, <2>1, WireSent
  <2>3. OpensOn(Append(wire[e], m)) = OpensOn(wire[e])
    BY <1>0, <2>1, OpensSent
  <2>4. Cardinality(connecting'[e]) <= Cardinality(connecting[e])
    BY <1>4
  <2>5. Sound' /\ Budget'
    BY <1>0, <1>3, <1>5, <1>9, <2>2, <2>3, <2>4, PlainBooks
  <2> QED  BY <1>1, <2>5 DEF OInv
<1> QED  BY <1>2, <1>8, <1>9

\* The answers to opens, closes, and the end.
LEMMA ReadStep ==
    ASSUME OInv, IInv, IInv', NEW e \in End,
           OnOpenConfirm(e) \/ OnOpenFailure(e) \/ OnDisconnect(e) \/ PeerGone(e)
    PROVE  OInv'
<1> DEFINE p == Peer(e)
<1>0. p \in End /\ Sound /\ Budget /\ Core
  BY Peers DEF OInv
<1>1. Core'
  BY <1>0, OnOpenConfirmCore, OnOpenFailureCore, OnDisconnectCore
<1>2. UNCHANGED <<queues, accepts, scenario, next_id, connecting>>
  BY DEF OnOpenConfirm, OnOpenFailure, OnDisconnect, PeerGone, bounds
<1>3. run' = [f \in End |-> run'[f]]
  <2>1. UNCHANGED run \/ \E how : EndLoop(e, how)
    BY DEF OnOpenConfirm, OnOpenFailure, OnDisconnect, PeerGone
  <2>2. UNCHANGED run \/ \E how : run' = [run EXCEPT ![e] = how]
    BY <2>1 DEF EndLoop
  <2> QED  BY <1>0, <2>2 DEF Sound
<1>4. UNCHANGED wire \/ (wire[p] # <<>> /\ Take(e))
  BY DEF OnOpenConfirm, OnOpenFailure, OnDisconnect, PeerGone, Arrives
<1>5. Cardinality(connecting'[e]) <= Cardinality(connecting[e])
  <2>1. Cardinality(connecting[e]) \in Nat
    BY <1>0, Numbers
  <2> QED  BY <1>2, <2>1
<1>6. CASE UNCHANGED wire
  <2>1. Wires(e, wire[e], wire[p])
    BY <1>0, <1>6, WireSame
  <2>2. Sound' /\ Budget'
    BY <1>0, <1>2, <1>3, <1>5, <2>1, PlainBooks
  <2> QED  BY <1>1, <2>2 DEF OInv
<1>7. CASE wire[p] # <<>> /\ Take(e)
  <2>1. Wires(e, wire[e], Tail(wire[p]))
    BY <1>0, <1>7, WireTaken
  <2>2. Sound' /\ Budget'
    BY <1>0, <1>2, <1>3, <1>5, <1>7, <2>1, PlainBooks
  <2> QED  BY <1>1, <2>2 DEF OInv
<1> QED  BY <1>4, <1>6, <1>7

\* SendClose keeps the inductive invariant.
LEMMA SendCloseStep ==
    ASSUME OInv, IInv, IInv', NEW e \in End, SendClose(e)
    PROVE  OInv'
<1> DEFINE p == Peer(e)
<1>0. p \in End /\ Sound /\ Budget /\ Core /\ GoodWire(wire[e])
  BY Peers DEF OInv, Sound
<1>1. Core'
  BY <1>0, SendCloseCore
<1>2. UNCHANGED <<queues, accepts, scenario, next_id, connecting>> /\ run' = [f \in End |-> run'[f]]
  BY <1>0 DEF SendClose, bounds, Sound
<1>3. PICK x : Send(e, [type |-> "close", to |-> x])
  BY DEF SendClose
<1> DEFINE m == [type |-> "close", to |-> x]
<1>4. m.type # "open" /\ Good(m) /\ Send(e, m)
  BY <1>3 DEF Good
<1> HIDE DEF m
<1>5. Wires(e, Append(wire[e], m), wire[p])
  BY <1>0, <1>4, WireSent
<1>6. OpensOn(Append(wire[e], m)) = OpensOn(wire[e])
  BY <1>0, <1>4, OpensSent
<1>7. Cardinality(connecting'[e]) <= Cardinality(connecting[e])
  <2>1. Cardinality(connecting[e]) \in Nat
    BY <1>0, Numbers
  <2> QED  BY <1>2, <2>1
<1>8. Sound' /\ Budget'
  BY <1>0, <1>2, <1>5, <1>6, <1>7, PlainBooks
<1> QED  BY <1>1, <1>8 DEF OInv

\* OnClose keeps the inductive invariant.
LEMMA OnCloseStep ==
    ASSUME OInv, IInv, IInv', NEW e \in End, OnClose(e)
    PROVE  OInv'
<1> DEFINE p == Peer(e)
<1>0. p \in End /\ Sound /\ Budget /\ Core /\ GoodWire(wire[e])
  BY Peers DEF OInv, Sound
<1>1. Core'
  BY <1>0, OnCloseCore
<1>2. UNCHANGED <<queues, accepts, scenario, next_id, connecting>> /\ wire[p] # <<>>
  BY DEF OnClose, bounds, Arrives
<1>3. run' = [f \in End |-> run'[f]]
  <2>1. UNCHANGED run \/ \E how : EndLoop(e, how)
    BY DEF OnClose
  <2>2. UNCHANGED run \/ \E how : run' = [run EXCEPT ![e] = how]
    BY <2>1 DEF EndLoop
  <2> QED  BY <1>0, <2>2 DEF Sound
<1>4. Cardinality(connecting'[e]) <= Cardinality(connecting[e])
  <2>1. Cardinality(connecting[e]) \in Nat
    BY <1>0, Numbers
  <2> QED  BY <1>2, <2>1
<1>5. CASE Take(e)
  <2>1. Wires(e, wire[e], Tail(wire[p]))
    BY <1>0, <1>2, <1>5, WireTaken
  <2>2. Sound' /\ Budget'
    BY <1>0, <1>2, <1>3, <1>4, <2>1, PlainBooks
  <2> QED  BY <1>1, <2>2 DEF OInv
<1>6. ASSUME NEW c, wire' = [wire EXCEPT ![Peer(e)] = Tail(@),
                        ![e] = @ \o CloseAnswer(c) \o Goodbye(c)]
      PROVE  OInv'
  <2> DEFINE we == wire[e] \o CloseAnswer(c) \o Goodbye(c)
  <2>1. Wires(e, we, Tail(wire[p]))
    BY <1>0, <1>2, <1>6, WireAnswered
  <2>2. OpensOn(we) = OpensOn(wire[e])
    BY <1>0, CloseAnswered, ZenonT(60)
  <2> HIDE DEF we
  <2>3. Sound' /\ Budget'
    BY <1>0, <1>2, <1>3, <1>4, <2>1, <2>2, PlainBooks
  <2> QED  BY <1>1, <2>3 DEF OInv
<1> QED  BY <1>5, <1>6 DEF OnClose

\* Every step keeps the two ends' accounts.
LEMMA StepOInv == IInv /\ OInv /\ [Next]_vars => OInv'
<1> SUFFICES ASSUME IInv, OInv, [Next]_vars PROVE OInv'
  OBVIOUS
<1>1. IInv'
  BY StepIInv
<1>2. ASSUME NEW e \in End, Step(e) \/ Resolve(e) \/ SendClose(e) \/ Probe(e) PROVE OInv'
  BY <1>1, <1>2, OpenStep, RequestForwardStep, OnConnectedStep, OnChannelOpenStep, ReadStep,
     OnCloseStep, GlobalStep, ResolveStep, SendCloseStep DEF Step
<1>3. ASSUME NEW target, AcceptLocal(target) PROVE OInv'
  <2>1. "client" \in End
    BY DEF End
  <2> QED  BY <1>1, <1>3, <2>1, AdmitStep DEF AcceptLocal
<1>4. ASSUME AcceptAgent \/ \E l \in live : AcceptRemote(l) PROVE OInv'
  <2>1. "server" \in End
    BY DEF End
  <2>2. \E cmd : Admit("server", cmd)
    BY <1>4 DEF AcceptAgent, AcceptRemote
  <2> QED  BY <1>1, <2>1, <2>2, AdmitStep
<1>5. CASE AcceptForNobody \/ \E key \in scenario.cancels : SendCancel(key)
  BY <1>1, <1>5, SpendStep
<1>6. CASE UNCHANGED vars
  <2>1. UNCHANGED <<run, table, queues, accepts, scenario>> /\ UNCHANGED wire
    BY <1>6 DEF vars, bounds
  <2>2. "client" \in End /\ IdleWire("client")
    BY <2>1 DEF End, IdleWire
  <2> QED  BY <1>1, <2>1, <2>2, IdleStill
<1> QED  BY <1>2, <1>3, <1>4, <1>5, <1>6 DEF Next, Environment

-----------------------------------------------------------------------------
\* What is asked of a Handle: sessions, which are opens, and forwards.
LEMMA Requests ==
    ASSUME NEW sc \in Scenarios
    PROVE  /\ Listed(sc.requests)
           /\ \A i \in 1..Len(sc.requests) :
                 sc.requests[i].kind \in {"session", "tcpip-forward"}
           /\ Commands(sc.requests, OpenKinds) =
                 Cardinality({i \in DOMAIN sc.requests : sc.requests[i].kind = "session"})
<1> DEFINE q == sc.requests
<1>1. q \in Seq(Request)
  BY OpensAssumption
<1> HIDE DEF q
<1>2. Listed(q)
  BY <1>1, SeqListed
<1>3. DOMAIN q = 1..Len(q) /\ \A i \in 1..Len(q) : q[i] \in Request
  BY <1>1
<1>4. \A i \in 1..Len(q) : q[i].kind \in {"session", "tcpip-forward"}
  <2>1. \A r \in Request : r.kind \in {"session", "tcpip-forward"}
    BY DEF Request
  <2> QED  BY <1>3, <2>1
<1>5. Kinded(q, OpenKinds) = {i \in DOMAIN q : q[i].kind = "session"}
  BY <1>3, <1>4 DEF Kinded, OpenKinds
<1> QED  BY <1>2, <1>4, <1>5 DEF Commands, q

\* Nothing of any type is on an empty wire.
LEMMA EmptyWire ==
    /\ GoodWire(<<>>) /\ OpensOn(<<>>) = 0
    /\ \A T : Once(<<>>, T) /\ \A x : ~Has(<<>>, T, x)
    /\ \A m : ~On(<<>>, m)
    /\ \A S : Ordered(<<>>, S)
    /\ \A K : Commands(<<>>, K) = 0
<1>1. Listed(<<>>) /\ Len(<<>>) = 0
  BY EmptyListed
<1>2. 1..Len(<<>>) = {}
  BY <1>1
<1>3. GoodWire(<<>>) /\ (\A T : Once(<<>>, T) /\ \A x : ~Has(<<>>, T, x))
  BY <1>1, <1>2 DEF GoodWire, Once, Has
<1>4. (\A m : ~On(<<>>, m)) /\ \A S : Ordered(<<>>, S)
  BY <1>2 DEF On, Ordered
<1>5. OpensOn(<<>>) = 0
  BY <1>1, RankNone DEF OpensOn
<1>6. \A K : Commands(<<>>, K) = 0
  <2>1. \A K : Kinded(<<>>, K) = {}
    BY <1>2 DEF Kinded
  <2> QED  BY <2>1, FS_EmptySet DEF Commands
<1> QED  BY <1>3, <1>4, <1>5, <1>6

\* It holds when the two loops start.
LEMMA InitOInv == Init => OInv
<1> SUFFICES ASSUME Init PROVE OInv
  OBVIOUS
<1>1. /\ scenario \in Scenarios /\ accepts = scenario.sockets
      /\ \A e \in End : /\ run[e] = "running" /\ channels[e] = {} /\ pending[e] = {}
                        /\ connecting[e] = {} /\ pending_connects[e] = 0 /\ next_id[e] = 0
                        /\ wire[e] = <<>>
      /\ cmds["client"] = scenario.requests /\ cmds["server"] = <<>>
  BY DEF Init, End
<1>2. accepts \in [End -> Nat]
  BY <1>1, OpensAssumption
<1>3. /\ Listed(scenario.requests) /\ Listed(<<>>)
  BY <1>1, Requests, EmptyListed
<1>4. Sound
  <2>1. /\ run = [f \in End |-> run[f]] /\ wire = [f \in End |-> wire[f]]
        /\ cmds = [f \in End |-> cmds[f]] /\ next_id \in [End -> Nat]
    BY DEF Init
  <2>2. open_admission \in [End -> Nat]
    BY OpensAssumption DEF Init
  <2>3. \A f \in End : GoodWire(wire[f]) /\ Listed(cmds[f])
    BY <1>1, <1>3, EmptyWire DEF End
  <2> QED  BY <1>1, <1>2, <2>1, <2>2, <2>3 DEF Sound
<1>5. Budget
  <2> DEFINE k == Commands(scenario.requests, OpenKinds)
  <2>1. k + scenario.sockets["client"] + scenario.sockets["server"] < IdSpace /\ k \in Nat
    <3>1. k = Cardinality({i \in DOMAIN scenario.requests : scenario.requests[i].kind = "session"})
      BY <1>1, Requests
    <3>2. k \in Nat
      BY <1>3, CommandsNat
    <3> QED  BY <1>1, <3>1, <3>2, IdsAssumption
  <2>2. Commands(cmds["client"], OpenKinds) = k /\ Commands(cmds["server"], OpenKinds) = 0
    BY <1>1, EmptyWire
  <2>3. \A e \in End : OpensOn(wire[e]) = 0 /\ Cardinality(connecting[e]) = 0 /\ next_id[e] = 0
    BY <1>1, EmptyWire, FS_EmptySet
  <2>4. accepts["client"] = scenario.sockets["client"] /\ accepts["server"] = scenario.sockets["server"]
        /\ accepts["client"] \in Nat /\ accepts["server"] \in Nat /\ IdSpace \in Nat
    BY <1>1, <1>2, OpensAssumption DEF End
  <2> HIDE DEF k
  <2>5. Spend("client") + Ahead("server") < IdSpace
    BY <2>1, <2>2, <2>3, <2>4 DEF Spend, Ahead, End
  <2>6. Spend("server") + Ahead("client") < IdSpace
    BY <2>1, <2>2, <2>3, <2>4 DEF Spend, Ahead, End
  <2> QED  BY <2>5, <2>6, Peers DEF Budget, End
<1>6. Core
  <2>1. NoProtocolError
    BY <1>1 DEF NoProtocolError
  <2>2. Ids({}) = {} /\ Askers({}) = {}
    BY DEF Ids, Askers
  <2>3. Fresh({}, {}, 0)
    BY <2>2 DEF Fresh
  <2>4. Asked({}, <<>>, {}, <<>>) /\ Owed({}, <<>>, {}, <<>>)
    BY <2>2, EmptyWire DEF Asked, Owed
  <2>5. Half({}, {}, {}, <<>>, <<>>, 0)
    BY <2>2, EmptyWire DEF Half
  <2>6. Pair({}, {}, 0, <<>>, {}, {}, 0, <<>>)
    BY <2>3, <2>5 DEF Pair
  <2>7. \A e \in End : Own(e) /\ Joint(e)
    BY <1>1, <2>3, <2>4, <2>6, Peers, FS_EmptySet DEF Own, Joint
  <2> QED  BY <2>1, <2>7 DEF Core
<1> QED  BY <1>4, <1>5, <1>6 DEF OInv

\* With everything handled nothing is left over.
LEMMA CoreLeavesNothing == Core => NothingLeft
<1> SUFFICES ASSUME Core, Quiet PROVE NothingLeft
  BY DEF NothingLeft
<1>1. \A e \in End : /\ Running(e) /\ wire[e] = <<>> /\ connecting[e] = {}
                     /\ Peer(e) \in End
  BY Peers DEF Quiet
<1>2. ASSUME NEW e \in End PROVE pending[e] = {} /\ pending_connects[e] = 0
  <2>1. Owed(pending[e], <<>>, {}, <<>>) /\ pending_connects[e] = Cardinality({})
    BY <1>1 DEF Core, Joint
  <2>2. Askers({}) = {}
    BY DEF Askers
  <2>3. Ids(pending[e]) = {}
    BY <2>1, <2>2, EmptyWire DEF Owed
  <2>4. pending[e] = {}
    BY <2>3 DEF Ids
  <2> QED  BY <2>1, <2>4, FS_EmptySet
<1>3. ASSUME NEW e \in End PROVE \A c \in channels[e] : Mate(c, channels[Peer(e)])
  <2>1. Half(channels[e], channels[Peer(e)], pending[e], <<>>, <<>>, next_id[e])
    BY <1>1 DEF Core, Joint, Pair
  <2> QED  BY <2>1, EmptyWire DEF Half
<1>4. /\ \A c \in channels["client"] : \E d \in channels["server"] : d.id = c.peer /\ d.peer = c.id
      /\ \A d \in channels["server"] : \E c \in channels["client"] : c.id = d.peer /\ c.peer = d.id
  BY <1>3, Peers DEF Mate, End
<1>5. ASSUME NEW h PROVE h \in Halves("client") <=> h \in {<<g[2], g[1]>> : g \in Halves("server")}
  <2>1. ASSUME h \in Halves("client") PROVE h \in {<<g[2], g[1]>> : g \in Halves("server")}
    <3>1. PICK c \in channels["client"] : h = <<c.id, c.peer>>
      BY <2>1 DEF Halves
    <3>2. PICK d \in channels["server"] : d.id = c.peer /\ d.peer = c.id
      BY <1>4
    <3> DEFINE g == <<d.id, d.peer>>
    <3>3. g \in Halves("server") /\ h = <<g[2], g[1]>>
      BY <3>1, <3>2 DEF Halves
    <3> QED  BY <3>3
  <2>2. ASSUME NEW g \in Halves("server"), h = <<g[2], g[1]>> PROVE h \in Halves("client")
    <3>1. PICK d \in channels["server"] : g = <<d.id, d.peer>>
      BY DEF Halves
    <3>2. PICK c \in channels["client"] : c.id = d.peer /\ c.peer = d.id
      BY <1>4
    <3>3. h = <<c.id, c.peer>>
      BY <2>2, <3>1, <3>2
    <3> QED  BY <3>3 DEF Halves
  <2> QED  BY <2>1, <2>2
<1>6. Halves("client") = {<<g[2], g[1]>> : g \in Halves("server")}
  BY <1>5
<1> QED  BY <1>2, <1>6 DEF NothingLeft

-----------------------------------------------------------------------------
(* Permits.                                                                *)

Tunnels == {"direct", "forwarded", "agent"}
Permits == \A e \in End :
    Running(e) => Commands(cmds[e], Tunnels) + open_admission[e] = MaxPendingOpens

\* This is PermitsKept.
LEMMA PermitsAre == Sound /\ Permits => PermitsKept
<1> SUFFICES ASSUME Sound, Permits, NEW e \in End, Running(e)
             PROVE  Admitted(e) + open_admission[e] = MaxPendingOpens
  BY DEF PermitsKept
<1>1. cmds[e] = [i \in 1..Len(cmds[e]) |-> cmds[e][i]]
  BY DEF Sound, Listed
<1>2. DOMAIN cmds[e] = 1..Len(cmds[e])
  BY <1>1
<1>3. Admitted(e) = Commands(cmds[e], Tunnels)
  BY <1>2 DEF Admitted, Commands, Kinded, Tunnels
<1> QED  BY <1>3 DEF Permits

\* At first every permit is free.
LEMMA InitPermits == Init => Permits
<1> SUFFICES ASSUME Init PROVE Permits
  OBVIOUS
<1>1. /\ scenario \in Scenarios /\ cmds["client"] = scenario.requests /\ cmds["server"] = <<>>
      /\ \A e \in End : open_admission[e] = MaxPendingOpens
  BY DEF Init, End
<1>2. Commands(scenario.requests, Tunnels) = 0
  <2>1. \A i \in 1..Len(scenario.requests) :
                 scenario.requests[i].kind \in {"session", "tcpip-forward"}
    BY <1>1, Requests
  <2>2. Kinded(scenario.requests, Tunnels) = {}
    BY <2>1 DEF Kinded, Tunnels
  <2> QED  BY <2>2, FS_EmptySet DEF Commands
<1>3. Commands(<<>>, Tunnels) = 0
  BY EmptyWire
<1>4. MaxPendingOpens \in Nat
  BY OpensAssumption
<1> QED  BY <1>1, <1>2, <1>3, <1>4 DEF Permits, End

\* Every step keeps the permits: Admit takes one, Open gives it back.
LEMMA StepPermits == Sound /\ Permits /\ [Next]_vars => Permits'
<1> SUFFICES ASSUME Sound, Permits, [Next]_vars PROVE Permits'
  OBVIOUS
<1>1. ASSUME UNCHANGED queues, \A f \in End : Running(f)' => Running(f) PROVE Permits'
  BY <1>1 DEF Permits, queues
<1>2. ASSUME NEW e \in End, UNCHANGED run, NEW q, cmds' = [cmds EXCEPT ![e] = q],
             NEW n, open_admission' = [open_admission EXCEPT ![e] = n],
             Commands(q, Tunnels) + n = Commands(cmds[e], Tunnels) + open_admission[e]
      PROVE  Permits'
  <2>1. \A f \in End : /\ f = e => cmds'[f] = q /\ open_admission'[f] = n
                       /\ f # e => cmds'[f] = cmds[f] /\ open_admission'[f] = open_admission[f]
    BY <1>2 DEF Sound
  <2> QED  BY <1>2, <2>1 DEF Permits, Running
<1>3. ASSUME NEW e \in End, Open(e) PROVE Permits'
  <2> DEFINE q == Tail(cmds[e])  k == Head(cmds[e]).kind
  <2>1. /\ cmds[e] # <<>> /\ Listed(cmds[e]) /\ k \in OpenKinds /\ UNCHANGED run
        /\ cmds' = [cmds EXCEPT ![e] = q]
        /\ open_admission' = [open_admission EXCEPT ![e] = Released(e, k)]
    BY <1>3 DEF Open, Commanded, OpenKinds, Sound
  <2>2. /\ Commands(q, Tunnels) \in Nat /\ Commands(cmds[e], Tunnels) \in Nat
        /\ k \in Tunnels => Commands(cmds[e], Tunnels) = Commands(q, Tunnels) + 1
        /\ k \notin Tunnels => Commands(cmds[e], Tunnels) = Commands(q, Tunnels)
    BY <2>1, CommandTaken, ZenonT(60)
  <2>3. open_admission[e] \in Nat
    BY DEF Sound
  <2>4. k = "session" <=> k \notin Tunnels
    BY <2>1 DEF OpenKinds, Tunnels
  <2> HIDE DEF q, k
  <2>5. Commands(q, Tunnels) + Released(e, k) = Commands(cmds[e], Tunnels) + open_admission[e]
    BY <2>2, <2>3, <2>4 DEF Released
  <2> QED  BY <1>2, <2>1, <2>5
<1>4. ASSUME NEW e \in End, RequestForward(e) PROVE Permits'
  <2> DEFINE q == Tail(cmds[e])
  <2>1. /\ cmds[e] # <<>> /\ Listed(cmds[e]) /\ Head(cmds[e]).kind \notin Tunnels
        /\ UNCHANGED <<run, open_admission>> /\ cmds' = [cmds EXCEPT ![e] = q]
    BY <1>4 DEF RequestForward, Commanded, Tunnels, Sound
  <2>2. Commands(cmds[e], Tunnels) = Commands(q, Tunnels)
    BY <2>1, CommandTaken, ZenonT(60)
  <2> HIDE DEF q
  <2>3. open_admission' = [open_admission EXCEPT ![e] = open_admission[e]]
    BY <2>1 DEF Sound
  <2> QED  BY <1>2, <2>1, <2>2, <2>3
<1>5. ASSUME NEW e \in End, NEW cmd, cmd.kind \in Tunnels, Admit(e, cmd) PROVE Permits'
  <2> DEFINE q == Append(cmds[e], cmd)
  <2>1. /\ Listed(cmds[e]) /\ UNCHANGED run /\ cmds' = [cmds EXCEPT ![e] = q]
        /\ open_admission[e] \in Nat
        /\ open_admission' = [open_admission EXCEPT ![e] = open_admission[e] - 1]
    BY <1>5 DEF Admit, Sound
  <2>2. /\ Commands(cmds[e], Tunnels) \in Nat
        /\ Commands(q, Tunnels) = Commands(cmds[e], Tunnels) + 1
    <3>1. Counts(Commands(cmds[e], Tunnels), Commands(q, Tunnels), cmd.kind, Tunnels)
      BY <2>1, CommandsAdded
    <3>2. Commands(cmds[e], Tunnels) \in Nat
      BY <2>1, CommandsNat
    <3> HIDE DEF q
    <3> QED  BY <1>5, <3>1, <3>2 DEF Counts
  <2> HIDE DEF q
  <2>3. Commands(q, Tunnels) + (open_admission[e] - 1)
            = Commands(cmds[e], Tunnels) + open_admission[e]
    BY <2>1, <2>2
  <2> QED  BY <1>2, <2>1, <2>3
<1>6. ASSUME NEW target, AcceptLocal(target) PROVE Permits'
  <2> DEFINE cmd == [kind |-> "direct", target |-> target]
  <2>1. cmd.kind \in Tunnels /\ "client" \in End /\ Admit("client", cmd)
    BY <1>6 DEF Tunnels, End, AcceptLocal
  <2> HIDE DEF cmd
  <2> QED  BY <1>5, <2>1
<1>7. ASSUME NEW l, AcceptRemote(l) PROVE Permits'
  <2> DEFINE cmd == [kind |-> "forwarded", key |-> Echo(l), target |-> l.target]
  <2>1. cmd.kind \in Tunnels /\ "server" \in End /\ Admit("server", cmd)
    BY <1>7 DEF Tunnels, End, AcceptRemote
  <2> HIDE DEF cmd
  <2> QED  BY <1>5, <2>1
<1>8. CASE AcceptAgent
  <2> DEFINE cmd == [kind |-> "agent"]
  <2>1. cmd.kind \in Tunnels /\ "server" \in End /\ Admit("server", cmd)
    BY <1>8 DEF Tunnels, End, AcceptAgent
  <2> HIDE DEF cmd
  <2> QED  BY <1>5, <2>1
<1>9. ASSUME NEW e \in End, NEW how, run' = [run EXCEPT ![e] = how], Running(e)
      PROVE  \A f \in End : Running(f)' => Running(f)
  BY <1>9 DEF Sound, Running
<1>10. ASSUME NEW e \in End,
              OnOpenConfirm(e) \/ OnOpenFailure(e) \/ OnClose(e) \/ OnDisconnect(e) \/ PeerGone(e)
       PROVE  Permits'
  <2>1. Running(e) /\ UNCHANGED queues
    BY <1>10 DEF OnOpenConfirm, OnOpenFailure, OnClose, OnDisconnect, PeerGone, Arrives
  <2>2. UNCHANGED run \/ \E how : run' = [run EXCEPT ![e] = how]
    BY <1>10 DEF OnOpenConfirm, OnOpenFailure, OnClose, OnDisconnect, PeerGone, EndLoop
  <2>3. \A f \in End : Running(f)' => Running(f)
    BY <1>9, <2>1, <2>2 DEF Running
  <2> QED  BY <1>1, <2>1, <2>3
<1>11. CASE UNCHANGED <<run, queues>>
  BY <1>1, <1>11 DEF Running
<1>12. ASSUME NEW e \in End,
              \/ OnConnected(e) \/ OnChannelOpen(e) \/ OnKeepalive(e) \/ OnGlobalReply(e)
              \/ Resolve(e) \/ SendClose(e) \/ Probe(e) \/ OnForward \/ OnCancel
       PROVE  Permits'
  BY <1>11, <1>12 DEF OnConnected, OnChannelOpen, OnKeepalive, OnGlobalReply, Resolve, Reports, SendClose,
     Probe, OnForward, OnCancel
<1>13. CASE AcceptForNobody \/ \E key \in scenario.cancels : SendCancel(key)
  BY <1>11, <1>13 DEF AcceptForNobody, SendCancel
<1>14. CASE UNCHANGED vars
  BY <1>11, <1>14 DEF vars
<1> QED
  BY <1>3, <1>4, <1>6, <1>7, <1>8, <1>10, <1>12, <1>13, <1>14 DEF Next, Step, Environment

-----------------------------------------------------------------------------
(* The session a client's connection is for.                               *)

\* A session is queued, and only requests of the program are before it.
Ready(q) ==
    \E i \in 1..Len(q) :
        /\ q[i].kind = "session"
        /\ \A j \in 1..(i - 1) : q[j].kind \in {"session", "tcpip-forward"}

\* What the client's cap counts, and all that the server may add to it.
Held == Cardinality(channels["client"]) + Cardinality(pending["client"])
            + pending_connects["client"]
Lasts == \/ \E o \in pending["client"] : o.terminal
         \/ \E c \in channels["client"] : c.end_on_close
Sess ==
    ForSession /\ Running("client") =>
        \/ Lasts
        \/ Ready(cmds["client"]) /\ Held + Ahead("server") <= scenario.sockets["server"]

\* The session stays at the head of the queue, or moves up to it.
LEMMA ReadyAdded ==
    ASSUME NEW q, Listed(q), Ready(q), NEW m, NEW q2, q2 = Append(q, m)
    PROVE  Ready(q2)
<1>1. Len(q) \in Nat /\ Len(q2) = Len(q) + 1 /\ \A i \in 1..Len(q) : q2[i] = q[i]
  BY Added
<1>2. PICK i \in 1..Len(q) :
        /\ q[i].kind = "session"
        /\ \A j \in 1..(i - 1) : q[j].kind \in {"session", "tcpip-forward"}
  BY DEF Ready
<1>3. i \in 1..Len(q2) /\ q2[i].kind = "session"
  BY <1>1, <1>2
<1>4. \A j \in 1..(i - 1) : q2[j].kind \in {"session", "tcpip-forward"}
  BY <1>1, <1>2
<1> QED  BY <1>3, <1>4 DEF Ready

\* What the loop takes first is a request of the program.
LEMMA ReadyTaken ==
    ASSUME NEW q, Listed(q), Ready(q), q # <<>>, NEW q2, q2 = Tail(q)
    PROVE  /\ Head(q).kind \in {"session", "tcpip-forward"}
           /\ Head(q).kind # "session" => Ready(q2)
<1>1. /\ Len(q) \in Nat \ {0} /\ Len(q2) = Len(q) - 1 /\ Head(q) = q[1]
      /\ \A i \in 1..Len(q2) : q2[i] = q[i + 1] /\ i + 1 \in 1..Len(q)
  BY Taken
<1>2. PICK i \in 1..Len(q) :
        /\ q[i].kind = "session"
        /\ \A j \in 1..(i - 1) : q[j].kind \in {"session", "tcpip-forward"}
  BY DEF Ready
<1>3. Head(q).kind \in {"session", "tcpip-forward"}
  <2>1. i = 1 \/ 1 \in 1..(i - 1)
    BY <1>1, <1>2
  <2> QED  BY <1>1, <1>2, <2>1
<1>4. ASSUME Head(q).kind # "session" PROVE Ready(q2)
  <2>1. i # 1
    BY <1>1, <1>2, <1>4
  <2> DEFINE k == i - 1
  <2>2. k \in 1..Len(q2) /\ k + 1 = i
    BY <1>1, <2>1
  <2>3. q2[k].kind = "session"
    BY <1>1, <1>2, <2>2
  <2>4. \A j \in 1..(k - 1) : j \in 1..Len(q2) /\ j + 1 \in 1..(i - 1)
    BY <2>2
  <2>5. \A j \in 1..(k - 1) : q2[j].kind \in {"session", "tcpip-forward"}
    BY <1>1, <1>2, <2>4
  <2> QED  BY <2>2, <2>3, <2>5 DEF Ready
<1> QED  BY <1>3, <1>4

\* A wire that no open was put on.
Quieter(f) ==
    \/ wire'[f] = wire[f]
    \/ wire[f] # <<>> /\ wire'[f] = Tail(wire[f])
    \/ \E m : m.type # "open" /\ wire'[f] = Append(wire[f], m)
    \/ \E c : wire'[f] = wire[f] \o CloseAnswer(c) \o Goodbye(c)

\* The server promises no more than it did.
LEMMA AheadLess ==
    ASSUME Sound, NEW f \in End, Quieter(f)
    PROVE  /\ OpensOn(wire'[f]) \in Nat /\ OpensOn(wire[f]) \in Nat
           /\ OpensOn(wire'[f]) <= OpensOn(wire[f])
<1>1. GoodWire(wire[f])
  BY DEF Sound
<1>2. OpensOn(wire[f]) \in Nat
  BY <1>1, OpensNat DEF GoodWire
<1>3. CASE wire'[f] = wire[f]
  BY <1>2, <1>3
<1>4. CASE wire[f] # <<>> /\ wire'[f] = Tail(wire[f])
  BY <1>1, <1>4, OpensRead
<1>5. ASSUME NEW m, m.type # "open", wire'[f] = Append(wire[f], m)
      PROVE  OpensOn(wire'[f]) = OpensOn(wire[f])
  BY <1>1, <1>5, OpensSent
<1>6. ASSUME NEW c, wire'[f] = wire[f] \o CloseAnswer(c) \o Goodbye(c)
      PROVE  OpensOn(wire'[f]) = OpensOn(wire[f])
  BY <1>1, <1>6, CloseAnswered
<1> QED  BY <1>2, <1>3, <1>4, <1>5, <1>6 DEF Quieter

\* What a step puts on the wires.
LEMMA SendQuieter ==
    ASSUME Sound, NEW e \in End, NEW m, m.type # "open", Send(e, m), NEW f \in End
    PROVE  Quieter(f)
<1>1. CASE f = e
  <2>1. wire'[f] = Append(wire[f], m)
    BY <1>1 DEF Send, Sound
  <2> QED  BY <2>1 DEF Quieter
<1>2. CASE f # e
  <2>1. wire'[f] = wire[f]
    BY <1>2 DEF Send, Sound
  <2> QED  BY <2>1 DEF Quieter
<1> QED  BY <1>1, <1>2

\* The same for a packet that is read, ...
LEMMA TakeQuieter ==
    ASSUME Sound, NEW e \in End, wire[Peer(e)] # <<>>, Take(e), NEW f \in End
    PROVE  Quieter(f)
<1>0. Peer(e) \in End
  BY Peers
<1>1. CASE f = Peer(e)
  <2>1. wire'[f] = Tail(wire[f])
    BY <1>0, <1>1 DEF Take, Sound
  <2> QED  BY <1>1, <2>1 DEF Quieter
<1>2. CASE f # Peer(e)
  <2>1. wire'[f] = wire[f]
    BY <1>2 DEF Take, Sound
  <2> QED  BY <2>1 DEF Quieter
<1> QED  BY <1>1, <1>2

\* ... for one that is read and answered, ...
LEMMA ReplyQuieter ==
    ASSUME Sound, NEW e \in End, wire[Peer(e)] # <<>>, NEW m, m.type # "open", Reply(e, m),
           NEW f \in End
    PROVE  Quieter(f)
<1>0. Peer(e) \in End /\ Peer(e) # e /\ (f = e \/ f = Peer(e))
  BY Peers DEF End
<1>1. CASE f = Peer(e)
  <2>1. wire'[f] = Tail(wire[f])
    BY <1>0, <1>1 DEF Reply, Sound
  <2> QED  BY <1>1, <2>1 DEF Quieter
<1>2. CASE f = e
  <2>1. wire'[f] = Append(wire[f], m)
    BY <1>0, <1>2 DEF Reply, Sound
  <2> QED  BY <2>1 DEF Quieter
<1> QED  BY <1>0, <1>1, <1>2

\* ... and for a close that is answered.
LEMMA AnswerQuieter ==
    ASSUME Sound, NEW e \in End, wire[Peer(e)] # <<>>, NEW c,
           wire' = [wire EXCEPT ![Peer(e)] = Tail(@),
                      ![e] = @ \o CloseAnswer(c) \o Goodbye(c)],
           NEW f \in End
    PROVE  Quieter(f)
<1>0. Peer(e) \in End /\ Peer(e) # e /\ (f = e \/ f = Peer(e))
  BY Peers DEF End
<1>1. Wires(e, wire[e] \o CloseAnswer(c) \o Goodbye(c), Tail(wire[Peer(e)]))
  BY WireAnswered
<1>2. CASE f = Peer(e)
  <2>1. wire'[f] = Tail(wire[f])
    BY <1>1, <1>2 DEF Wires
  <2> QED  BY <1>2, <2>1 DEF Quieter
<1>3. CASE f = e
  <2>1. wire'[f] = wire[f] \o CloseAnswer(c) \o Goodbye(c)
    BY <1>1, <1>3 DEF Wires
  <2> QED  BY <2>1 DEF Quieter
<1> QED  BY <1>0, <1>2, <1>3

Plain(e) ==
    \/ OnConnected(e) \/ OnChannelOpen(e) \/ OnOpenConfirm(e) \/ OnOpenFailure(e)
    \/ OnClose(e) \/ OnDisconnect(e) \/ PeerGone(e) \/ OnKeepalive(e) \/ OnGlobalReply(e)
    \/ e = "server" /\ (OnForward \/ OnCancel)
    \/ Resolve(e) \/ SendClose(e) \/ Probe(e)

\* Only the handler of a queued open sends one.
LEMMA PlainQuieter ==
    ASSUME Sound, NEW e \in End, Plain(e), NEW f \in End PROVE Quieter(f)
<1>1. ASSUME NEW m, m.type # "open", Send(e, m) PROVE Quieter(f)
  BY <1>1, SendQuieter
<1>2. ASSUME NEW m, m.type # "open", wire[Peer(e)] # <<>>, Reply(e, m) PROVE Quieter(f)
  BY <1>2, ReplyQuieter
<1>3. ASSUME wire[Peer(e)] # <<>>, Take(e) PROVE Quieter(f)
  BY <1>3, TakeQuieter
<1>4. ASSUME UNCHANGED wire PROVE Quieter(f)
  BY <1>4 DEF Quieter
<1>5. ASSUME NEW x, NEW y, Send(e, [type |-> "confirm", to |-> x, id |-> y]) PROVE Quieter(f)
  <2> DEFINE m == [type |-> "confirm", to |-> x, id |-> y]
  <2>1. m.type # "open" /\ Send(e, m)
    BY <1>5
  <2> HIDE DEF m
  <2> QED  BY <1>1, <2>1
<1>6. ASSUME NEW x, NEW t, t # "open", Send(e, [type |-> t, to |-> x]) PROVE Quieter(f)
  <2> DEFINE m == [type |-> t, to |-> x]
  <2>1. m.type # "open" /\ Send(e, m)
    BY <1>6
  <2> HIDE DEF m
  <2> QED  BY <1>1, <2>1
<1>7. CASE OnConnected(e)
  BY <1>5, <1>6, <1>7 DEF OnConnected, RefuseConnect
<1>8. CASE OnChannelOpen(e)
  <2> DEFINE x == Packet(e).id  y == next_id[e]
  <2>1. wire[Peer(e)] # <<>>
    BY <1>8 DEF OnChannelOpen, Arrives
  <2>2. \/ Reply(e, [type |-> "confirm", to |-> x, id |-> y])
        \/ Take(e) \/ Reply(e, [type |-> "failure", to |-> x])
    BY <1>8 DEF OnChannelOpen, Refuse
  <2>3. CASE Reply(e, [type |-> "confirm", to |-> x, id |-> y])
    <3> DEFINE m == [type |-> "confirm", to |-> x, id |-> y]
    <3>1. m.type # "open" /\ Reply(e, m)
      BY <2>3
    <3> HIDE DEF m
    <3> QED  BY <1>2, <2>1, <3>1
  <2>4. CASE Reply(e, [type |-> "failure", to |-> x])
    <3> DEFINE m == [type |-> "failure", to |-> x]
    <3>1. m.type # "open" /\ Reply(e, m)
      BY <2>4
    <3> HIDE DEF m
    <3> QED  BY <1>2, <2>1, <3>1
  <2> QED  BY <1>3, <2>1, <2>2, <2>3, <2>4
<1>9. CASE OnOpenConfirm(e) \/ OnOpenFailure(e) \/ OnDisconnect(e) \/ OnGlobalReply(e)
             \/ (e = "server" /\ OnCancel)
  <2>1. wire[Peer(e)] # <<>> /\ Take(e)
    BY <1>9 DEF OnOpenConfirm, OnOpenFailure, OnDisconnect, OnGlobalReply, OnCancel, Arrives
  <2> QED  BY <1>3, <2>1
<1>10. CASE OnClose(e)
  <2>1. wire[Peer(e)] # <<>>
    BY <1>10 DEF OnClose, Arrives
  <2>2. \/ Take(e)
        \/ \E c : wire' = [wire EXCEPT ![Peer(e)] = Tail(@),
                             ![e] = @ \o CloseAnswer(c) \o Goodbye(c)]
    BY <1>10 DEF OnClose
  <2> QED  BY <1>3, <2>1, <2>2, AnswerQuieter
<1>11. CASE OnKeepalive(e)
  <2> DEFINE m == [type |-> "refused"]
  <2>1. m.type # "open" /\ Reply(e, m) /\ wire[Peer(e)] # <<>>
    BY <1>11 DEF OnKeepalive, Arrives
  <2> HIDE DEF m
  <2> QED  BY <1>2, <2>1
<1>12. CASE e = "server" /\ OnForward
  <2>1. wire[Peer(e)] # <<>>
    BY <1>12 DEF OnForward, Arrives
  <2>2. ASSUME NEW n, Reply(e, [type |-> "success", port |-> n]) PROVE Quieter(f)
    <3> DEFINE m == [type |-> "success", port |-> n]
    <3>1. m.type # "open" /\ Reply(e, m)
      BY <2>2
    <3> HIDE DEF m
    <3> QED  BY <1>2, <2>1, <3>1
  <2>3. CASE Reply(e, [type |-> "refused"])
    <3> DEFINE m == [type |-> "refused"]
    <3>1. m.type # "open" /\ Reply(e, m)
      BY <2>3
    <3> HIDE DEF m
    <3> QED  BY <1>2, <2>1, <3>1
  <2> QED  BY <1>12, <2>2, <2>3 DEF OnForward
<1>13. CASE SendClose(e)
  BY <1>6, <1>13 DEF SendClose
<1>14. CASE Probe(e)
  <2> DEFINE m == [type |-> "keepalive"]
  <2>1. m.type # "open" /\ Send(e, m)
    BY <1>14 DEF Probe
  <2> HIDE DEF m
  <2> QED  BY <1>1, <2>1
<1>15. CASE Resolve(e) \/ PeerGone(e)
  BY <1>4, <1>15 DEF Resolve, Reports, PeerGone
<1> QED
  BY <1>7, <1>8, <1>9, <1>10, <1>11, <1>12, <1>13, <1>14, <1>15 DEF Plain

\* The numbers in it.
LEMMA HeldNat == ASSUME IInv PROVE Held \in Nat
<1>1. "client" \in End
  BY DEF End
<1> QED  BY <1>1, SameValue DEF Held

\* What may still come from an end is a number.
LEMMA AheadNat == ASSUME IInv, Sound, NEW f \in End PROVE Ahead(f) \in Nat
BY Numbers DEF Ahead

\* The client's session is kept by a step that keeps it when it lasts, and
\* while it is queued keeps it there without adding to the load.
Onward ==
    \/ Lasts'
    \/ Ready(cmds'["client"]) /\ (Held + Ahead("server"))' <= Held + Ahead("server")
\* Such a step keeps the session.
LEMMA SessKept ==
    ASSUME Sess, IInv, IInv', Sound, Sound', scenario' = scenario,
           Running("client")' => Running("client"),
           Running("client")' /\ Lasts => Lasts',
           Running("client")' /\ Ready(cmds["client"])
               /\ Held + Ahead("server") < MaxChannels => Onward
    PROVE  Sess'
<1> SUFFICES ASSUME ForSession', Running("client")', ~Lasts'
             PROVE  (Ready(cmds["client"]) /\ Held + Ahead("server") <= scenario.sockets["server"])'
  BY DEF Sess
<1>1. ForSession /\ Running("client") /\ ~Lasts
  BY DEF ForSession
<1>2. Ready(cmds["client"]) /\ Held + Ahead("server") <= scenario.sockets["server"]
  BY <1>1 DEF Sess
<1> DEFINE s == scenario.sockets["server"]  a == Held + Ahead("server")
           b == (Held + Ahead("server"))'
<1>3. s \in Nat /\ s < MaxChannels /\ MaxChannels \in Nat
  <2>1. scenario.sockets \in [End -> Nat] /\ MaxChannels \in Nat /\ "server" \in End
    BY OpensAssumption DEF Sound, End
  <2> QED  BY <1>1, <2>1 DEF ForSession
<1>4. a \in Nat /\ b \in Nat
  <2>1. Held \in Nat /\ Ahead("server") \in Nat
    BY HeldNat, AheadNat DEF End
  <2>2. Held' \in Nat
    <3>1. /\ IsFiniteSet(channels'["client"]) /\ IsFiniteSet(pending'["client"])
          /\ pending_connects'["client"] \in Nat
      BY DEF IInv, Tables, End
    <3> QED  BY <3>1, FS_CardinalityType DEF Held
  <2>3. Ahead("server")' \in Nat
    <3>1. Listed(cmds'["server"]) /\ GoodWire(wire'["server"]) /\ accepts'["server"] \in Nat
      BY DEF Sound, End
    <3>2. Commands(cmds'["server"], OpenKinds) \in Nat
      BY <3>1, CommandsNat
    <3>3. OpensOn(wire'["server"]) \in Nat
      BY <3>1, OpensNat DEF GoodWire
    <3> QED  BY <3>1, <3>2, <3>3 DEF Ahead
  <2> QED  BY <2>1, <2>2, <2>3
<1>5. a < MaxChannels
  BY <1>2, <1>3, <1>4
<1>6. Ready(cmds'["client"]) /\ b <= a
  BY <1>2, <1>5 DEF Onward
<1>7. b <= s
  <2> HIDE DEF a, b, s
  <2>1. a <= s
    BY <1>2 DEF a, s
  <2> QED  BY <1>3, <1>4, <1>6, <2>1
<1> QED  BY <1>6, <1>7

\* What a step of one end leaves alone of the other's.
LEMMA OthersHeld ==
    ASSUME IInv, Sound, NEW e \in End, NEW f \in End, f # e, Plain(e) \/ Open(e) \/ RequestForward(e)
    PROVE  /\ channels'[f] = channels[f] /\ pending'[f] = pending[f]
           /\ pending_connects'[f] = pending_connects[f]
           /\ run'[f] = run[f] /\ cmds'[f] = cmds[f] /\ accepts'[f] = accepts[f]
<1>0. /\ channels = [g \in End |-> channels[g]] /\ pending = [g \in End |-> pending[g]]
      /\ pending_connects = [g \in End |-> pending_connects[g]]
      /\ run = [g \in End |-> run[g]] /\ cmds = [g \in End |-> cmds[g]]
  BY DEF IInv, Tables, Sound
<1>1. CASE Open(e) \/ RequestForward(e)
  BY <1>0, <1>1 DEF Open, RequestForward, table, bounds
<1>2. CASE OnConnected(e) \/ OnChannelOpen(e)
  BY <1>0, <1>2 DEF OnConnected, OnChannelOpen, table, bounds, queues, Insert
<1>3. CASE OnOpenConfirm(e) \/ OnOpenFailure(e)
  BY <1>0, <1>3 DEF OnOpenConfirm, OnOpenFailure, EndLoop, table, bounds, queues, Insert
<1>4. CASE OnClose(e)
  <2>1. UNCHANGED <<pending_connects, queues, bounds>>
    BY <1>4 DEF OnClose
  <2>2. \/ UNCHANGED <<run, channels, pending>>
        \/ EndLoop(e, "ended")
        \/ UNCHANGED <<run, pending>> /\ \E c : channels' = [channels EXCEPT ![e] = @ \ {c}]
    BY <1>4 DEF OnClose
  <2> QED  BY <1>0, <2>1, <2>2 DEF EndLoop, queues, bounds
<1>5. CASE OnDisconnect(e) \/ PeerGone(e)
  BY <1>0, <1>5 DEF OnDisconnect, PeerGone, EndLoop, queues, bounds
<1>6. CASE OnKeepalive(e) \/ OnGlobalReply(e) \/ (e = "server" /\ (OnForward \/ OnCancel))
  BY <1>0, <1>6 DEF OnKeepalive, OnGlobalReply, OnForward, OnCancel, table, queues, bounds
<1>7. CASE Resolve(e) \/ SendClose(e) \/ Probe(e)
  BY <1>0, <1>7 DEF Resolve, Reports, SendClose, Probe, table, queues, bounds
<1> QED  BY <1>1, <1>2, <1>3, <1>4, <1>5, <1>6, <1>7 DEF Plain

\* A plain step of either end takes no command and no socket.
LEMMA PlainQueues ==
    ASSUME NEW e \in End, Plain(e) PROVE cmds' = cmds /\ accepts' = accepts /\ scenario' = scenario
<1>1. CASE OnConnected(e) \/ OnChannelOpen(e) \/ OnOpenConfirm(e) \/ OnOpenFailure(e) \/ OnClose(e)
  BY <1>1 DEF OnConnected, OnChannelOpen, OnOpenConfirm, OnOpenFailure, OnClose, queues, bounds
<1>2. CASE OnDisconnect(e) \/ PeerGone(e) \/ OnKeepalive(e) \/ OnGlobalReply(e)
            \/ (e = "server" /\ (OnForward \/ OnCancel))
  BY <1>2 DEF OnDisconnect, PeerGone, OnKeepalive, OnGlobalReply, OnForward, OnCancel, queues, bounds
<1>3. CASE Resolve(e) \/ SendClose(e) \/ Probe(e)
  BY <1>3 DEF Resolve, Reports, SendClose, Probe, queues, bounds
<1> QED  BY <1>1, <1>2, <1>3 DEF Plain

\* The server's own steps.
LEMMA ServerSess ==
    ASSUME Sess, IInv, IInv', Sound, Sound', scenario' = scenario,
           channels'["client"] = channels["client"], pending'["client"] = pending["client"],
           pending_connects'["client"] = pending_connects["client"],
           run'["client"] = run["client"],
           Ready(cmds["client"]) => Ready(cmds'["client"]),
           Ahead("server")' <= Ahead("server")
    PROVE  Sess'
<1>1. Held' = Held /\ Lasts' = Lasts
  BY DEF Held, Lasts
<1>2. Running("client")' = Running("client")
  BY DEF Running
<1>3. Held \in Nat /\ Ahead("server") \in Nat
  BY HeldNat, AheadNat DEF End
<1>4. Ahead("server")' \in Nat
  <2>1. Listed(cmds'["server"]) /\ GoodWire(wire'["server"]) /\ accepts'["server"] \in Nat
    BY DEF Sound, End
  <2>2. Commands(cmds'["server"], OpenKinds) \in Nat
    BY <2>1, CommandsNat
  <2>3. OpensOn(wire'["server"]) \in Nat
    BY <2>1, OpensNat DEF GoodWire
  <2> QED  BY <2>1, <2>2, <2>3 DEF Ahead
<1>5. (Held + Ahead("server"))' <= Held + Ahead("server")
  BY <1>1, <1>3, <1>4
<1>6. Ready(cmds["client"]) => Onward
  BY <1>5 DEF Onward
<1> QED  BY <1>1, <1>2, <1>6, SessKept

\* What the server may still send is no more after a plain step ...
LEMMA PlainAhead ==
    ASSUME IInv, Sound, NEW e \in End, Plain(e), NEW f \in End PROVE Ahead(f)' <= Ahead(f)
<1>1. cmds' = cmds /\ accepts' = accepts
  BY PlainQueues
<1>2. /\ OpensOn(wire'[f]) \in Nat /\ OpensOn(wire[f]) \in Nat
      /\ OpensOn(wire'[f]) <= OpensOn(wire[f])
  BY PlainQuieter, AheadLess
<1>3. Commands(cmds[f], OpenKinds) \in Nat /\ accepts[f] \in Nat
  BY Numbers
<1> QED  BY <1>1, <1>2, <1>3 DEF Ahead

\* ... nor when it opens a channel, asks for a forward or accepts a socket.
LEMMA OpenAhead ==
    ASSUME IInv, Sound, NEW f \in End, Open(f) \/ RequestForward(f) PROVE Ahead(f)' <= Ahead(f)
<1> DEFINE q == Tail(cmds[f])  k == Head(cmds[f]).kind
<1>1. /\ cmds[f] # <<>> /\ Listed(cmds[f]) /\ cmds'[f] = q /\ accepts' = accepts
      /\ GoodWire(wire[f])
  BY DEF Open, RequestForward, Commanded, Sound, bounds
<1>2. /\ Commands(q, OpenKinds) \in Nat /\ Commands(cmds[f], OpenKinds) \in Nat
      /\ k \in OpenKinds => Commands(cmds[f], OpenKinds) = Commands(q, OpenKinds) + 1
      /\ k \notin OpenKinds => Commands(cmds[f], OpenKinds) = Commands(q, OpenKinds)
  BY <1>1, CommandTaken, ZenonT(60)
<1>3. OpensOn(wire[f]) \in Nat /\ accepts[f] \in Nat
  BY Numbers
<1> HIDE DEF q, k
<1>4. CASE Open(f)
  <2>1. k \in OpenKinds
    BY <1>4 DEF Open, Commanded, OpenKinds, k
  <2>2. OpensOn(wire'[f]) \in Nat /\ OpensOn(wire'[f]) <= OpensOn(wire[f]) + 1
    <3>1. CASE UNCHANGED wire
      BY <1>3, <3>1
    <3>2. ASSUME NEW m, m.type = "open", Send(f, m)
          PROVE  OpensOn(wire'[f]) = OpensOn(wire[f]) + 1
      <4>1. wire'[f] = Append(wire[f], m)
        BY <3>2 DEF Send, Sound
      <4> QED  BY <1>1, <3>2, <4>1, OpensSent, ZenonT(60)
    <3>3. UNCHANGED wire \/ \E m : m.type = "open" /\ Send(f, m)
      <4> DEFINE m == [type |-> "open", id |-> next_id[f], open |-> Head(cmds[f])]
      <4>1. m.type = "open" /\ (UNCHANGED wire \/ Send(f, m))
        BY <1>4 DEF Open
      <4> HIDE DEF m
      <4> QED  BY <4>1
    <3> QED  BY <1>3, <3>1, <3>2, <3>3
  <2> QED  BY <1>1, <1>2, <1>3, <2>1, <2>2 DEF Ahead
<1>5. CASE RequestForward(f)
  <2>1. k \notin OpenKinds
    BY <1>5 DEF RequestForward, Commanded, OpenKinds, k
  <2>2. \E m : m.type # "open" /\ Send(f, m)
    <3> DEFINE cmd == Head(cmds[f])
               m == [type |-> "tcpip-forward", bind |-> cmd.bind, port |-> cmd.port,
                     target |-> cmd.target]
    <3>1. m.type # "open" /\ Send(f, m)
      BY <1>5 DEF RequestForward
    <3> HIDE DEF m
    <3> QED  BY <3>1
  <2>3. Quieter(f)
    BY <2>2, SendQuieter
  <2>4. OpensOn(wire'[f]) \in Nat /\ OpensOn(wire'[f]) <= OpensOn(wire[f])
    BY <2>3, AheadLess
  <2> QED  BY <1>1, <1>2, <1>3, <2>1, <2>4 DEF Ahead
<1> QED  BY <1>4, <1>5

\* A socket that is admitted was counted before.
LEMMA AdmitAhead ==
    ASSUME IInv, Sound, NEW f \in End, NEW cmd, Admit(f, cmd)
    PROVE  Ahead(f)' <= Ahead(f) /\ cmds'[f] = Append(cmds[f], cmd) /\ Listed(cmds[f])
<1> DEFINE q == Append(cmds[f], cmd)
<1>1. /\ Listed(cmds[f]) /\ cmds'[f] = q /\ accepts'[f] = accepts[f] - 1 /\ accepts[f] > 0
      /\ wire' = wire
  BY DEF Admit, Sound
<1>2. /\ Commands(q, OpenKinds) \in Nat /\ Commands(cmds[f], OpenKinds) \in Nat
      /\ Commands(q, OpenKinds) <= Commands(cmds[f], OpenKinds) + 1
  BY <1>1, CommandAdded
<1>3. OpensOn(wire[f]) \in Nat /\ accepts[f] \in Nat
  BY Numbers
<1> QED  BY <1>1, <1>2, <1>3 DEF Ahead

\* The client's own handlers.
LEMMA ClientSess ==
    ASSUME Sess, IInv, IInv', Sound, Sound', scenario' = scenario,
           cmds'["client"] = cmds["client"], Running("client"),
           Running("client")' /\ Lasts => Lasts',
           Running("client")' => (Held + Ahead("server"))' <= Held + Ahead("server")
    PROVE  Sess'
<1>1. Running("client")' /\ Ready(cmds["client"]) => Onward
  BY DEF Onward
<1> QED  BY <1>1, SessKept

\* A step of the client that holds no more than before adds nothing to the load.
LEMMA ClientHeld ==
    ASSUME IInv, IInv', Sound, Sound', "client" \in End, Plain("client"),
           NEW h, h = Held', h <= Held
    PROVE  (Held + Ahead("server"))' <= Held + Ahead("server")
<1>1. Ahead("server")' <= Ahead("server")
  BY PlainAhead DEF End
<1>2. Held \in Nat /\ Ahead("server") \in Nat
  BY HeldNat, AheadNat DEF End
<1>3. Ahead("server")' \in Nat /\ Held' \in Nat
  <2>1. Listed(cmds'["server"]) /\ GoodWire(wire'["server"]) /\ accepts'["server"] \in Nat
    BY DEF Sound, End
  <2>2. Commands(cmds'["server"], OpenKinds) \in Nat
    BY <2>1, CommandsNat
  <2>3. OpensOn(wire'["server"]) \in Nat
    BY <2>1, OpensNat DEF GoodWire
  <2>4. /\ IsFiniteSet(channels'["client"]) /\ IsFiniteSet(pending'["client"])
        /\ pending_connects'["client"] \in Nat
    BY DEF IInv, Tables, End
  <2> QED  BY <2>1, <2>2, <2>3, <2>4, FS_CardinalityType, SMTT(60) DEF Ahead, Held
<1> QED  BY <1>1, <1>2, <1>3

\* The tables of the client, as numbers.
LEMMA ClientTables ==
    ASSUME IInv, IInv'
    PROVE  /\ "client" \in End
           /\ IsFiniteSet(channels["client"]) /\ IsFiniteSet(pending["client"])
           /\ Cardinality(channels["client"]) \in Nat /\ Cardinality(pending["client"]) \in Nat
           /\ pending_connects["client"] \in Nat
           /\ Cardinality(channels'["client"]) \in Nat /\ Cardinality(pending'["client"]) \in Nat
           /\ pending_connects'["client"] \in Nat
<1>1. "client" \in End
  BY DEF End
<1>2. /\ IsFiniteSet(channels["client"]) /\ IsFiniteSet(pending["client"])
      /\ IsFiniteSet(channels'["client"]) /\ IsFiniteSet(pending'["client"])
      /\ pending_connects["client"] \in Nat /\ pending_connects'["client"] \in Nat
  BY <1>1 DEF IInv, Tables
<1> QED  BY <1>1, <1>2, FS_CardinalityType

\* on_cmd (Connected): a reservation becomes a channel, or goes.
LEMMA OnConnectedSess ==
    ASSUME Sess, IInv, IInv', Sound, Sound', OnConnected("client") PROVE Sess'
<1>0. Plain("client") /\ "client" \in End
  BY DEF Plain, End
<1>1. PICK c \in connecting["client"] :
        /\ Running("client")
        /\ pending_connects' = [pending_connects EXCEPT !["client"] = Resolved("client")]
        /\ \/ \E d : channels' = [channels EXCEPT !["client"] = @ \cup {d}]
           \/ UNCHANGED channels
        /\ UNCHANGED <<run, pending>>
  BY DEF OnConnected, Insert
<1>2. pending_connects["client"] \in Nat \ {0}
  <2>1. /\ IsFiniteSet(connecting["client"]) /\ pending_connects["client"] \in Nat
        /\ Cardinality(connecting["client"]) <= pending_connects["client"]
    BY <1>0 DEF IInv, Tables, Reserved
  <2>2. /\ Cardinality(connecting["client"]) \in Nat
        /\ Cardinality(connecting["client"] \ {c}) \in Nat
        /\ Cardinality(connecting["client"] \ {c}) = Cardinality(connecting["client"]) - 1
    BY <2>1, CardinalityRemove
  <2> QED  BY <2>1, <2>2
<1>3. pending_connects'["client"] = pending_connects["client"] - 1
  BY <1>0, <1>1, <1>2 DEF Resolved, IInv, Tables
<1>4. \/ \E d : channels'["client"] = channels["client"] \cup {d}
      \/ channels'["client"] = channels["client"]
  BY <1>0, <1>1 DEF IInv, Tables
<1>5. /\ IsFiniteSet(channels["client"]) /\ Cardinality(channels["client"]) \in Nat
      /\ Cardinality(pending["client"]) \in Nat /\ Cardinality(channels'["client"]) \in Nat
  BY ClientTables
<1>6. Cardinality(channels'["client"]) <= Cardinality(channels["client"]) + 1
  <2>1. CASE channels'["client"] = channels["client"]
    BY <1>5, <2>1
  <2>2. ASSUME NEW d, channels'["client"] = channels["client"] \cup {d}
        PROVE  Cardinality(channels'["client"]) <= Cardinality(channels["client"]) + 1
    BY <1>5, <2>2, CardinalityAdd
  <2> QED  BY <1>4, <2>1, <2>2
<1>7. Held' <= Held
  BY <1>1, <1>2, <1>3, <1>5, <1>6 DEF Held
<1>8. Lasts => Lasts'
  BY <1>1, <1>4 DEF Lasts
<1>9. (Held + Ahead("server"))' <= Held + Ahead("server")
  BY <1>0, <1>7, ClientHeld
<1>10. cmds' = cmds /\ scenario' = scenario
  BY <1>0, PlainQueues
<1> QED  BY <1>1, <1>8, <1>9, <1>10, ClientSess

\* on_channel_open: an open of the server becomes a channel or a reservation.
LEMMA OnChannelOpenSess ==
    ASSUME Sess, IInv, IInv', Sound, Sound', OnChannelOpen("client") PROVE Sess'
<1>0. Plain("client") /\ "client" \in End /\ "server" \in End /\ Peer("client") = "server"
  BY DEF Plain, End, Peer
<1>1. Running("client") /\ wire["server"] # <<>> /\ Head(wire["server"]).type = "open"
  BY <1>0 DEF OnChannelOpen, Arrives
<1>2. UNCHANGED <<run, pending>>
  BY DEF OnChannelOpen, table
<1>3. \/ /\ \E d : channels'["client"] = channels["client"] \cup {d}
         /\ pending_connects'["client"] = pending_connects["client"]
      \/ /\ channels'["client"] = channels["client"]
         /\ pending_connects'["client"] = pending_connects["client"] + 1
      \/ /\ channels'["client"] = channels["client"]
         /\ pending_connects'["client"] = pending_connects["client"]
  <2>1. \/ /\ \E d : channels' = [channels EXCEPT !["client"] = @ \cup {d}]
           /\ UNCHANGED pending_connects
        \/ /\ UNCHANGED channels
           /\ pending_connects' = [pending_connects EXCEPT !["client"] = @ + 1]
        \/ UNCHANGED <<channels, pending_connects>>
    BY DEF OnChannelOpen, Insert, table
  <2> QED  BY <1>0, <2>1 DEF IInv, Tables
<1>4. /\ IsFiniteSet(channels["client"]) /\ Cardinality(channels["client"]) \in Nat
      /\ Cardinality(pending["client"]) \in Nat /\ Cardinality(channels'["client"]) \in Nat
      /\ pending_connects["client"] \in Nat
  BY ClientTables
<1>5. \A d : Cardinality(channels["client"] \cup {d}) <= Cardinality(channels["client"]) + 1
  BY <1>4, CardinalityAdd
<1>6. Held' \in Nat /\ Held \in Nat /\ Held' <= Held + 1
  <2> DEFINE c == Cardinality(channels["client"])  c2 == Cardinality(channels'["client"])
             n == pending_connects["client"]  n2 == pending_connects'["client"]
             k == Cardinality(pending["client"])
  <2>1. \/ c2 <= c + 1 /\ n2 = n
        \/ c2 = c /\ n2 = n + 1
        \/ c2 = c /\ n2 = n
    BY <1>3, <1>5
  <2>2. c \in Nat /\ c2 \in Nat /\ n \in Nat /\ k \in Nat /\ Held = c + k + n /\ Held' = c2 + k + n2
    BY <1>2, <1>4 DEF Held
  <2> HIDE DEF c, c2, n, n2, k
  <2> QED  BY <2>1, <2>2
<1>7. Ahead("server") \in Nat /\ Ahead("server")' = Ahead("server") - 1
  <2>1. wire'["server"] = Tail(wire["server"])
    <3>1. \E m : wire' = [wire EXCEPT !["server"] = Tail(@), !["client"] = Append(@, m)] \/ Take("client")
      BY <1>0 DEF OnChannelOpen, Reply, Refuse
    <3> QED  BY <1>0, <3>1 DEF Take, Sound
  <2>2. /\ OpensOn(wire'["server"]) \in Nat /\ OpensOn(wire["server"]) \in Nat
        /\ OpensOn(wire["server"]) = OpensOn(wire'["server"]) + 1
    BY <1>0, <1>1, <2>1, OpensRead DEF Sound
  <2>3. cmds' = cmds /\ accepts' = accepts
    BY <1>0, PlainQueues
  <2>4. Commands(cmds["server"], OpenKinds) \in Nat /\ accepts["server"] \in Nat
    BY <1>0, Numbers
  <2> QED  BY <2>2, <2>3, <2>4 DEF Ahead
<1>8. (Held + Ahead("server"))' <= Held + Ahead("server")
  BY <1>6, <1>7
<1>9. Lasts => Lasts'
  BY <1>2, <1>3 DEF Lasts
<1>10. cmds' = cmds /\ scenario' = scenario
  BY <1>0, PlainQueues
<1> QED  BY <1>1, <1>8, <1>9, <1>10, ClientSess

\* on_open_confirm: the session's open becomes its channel.
LEMMA OnOpenConfirmSess ==
    ASSUME Sess, IInv, IInv', Sound, Sound', OnOpenConfirm("client") PROVE Sess'
<1>0. Plain("client") /\ "client" \in End
  BY DEF Plain, End
<1>1. Running("client") /\ pending_connects' = pending_connects
  BY DEF OnOpenConfirm, Arrives
<1>2. cmds' = cmds /\ scenario' = scenario
  BY <1>0, PlainQueues
<1>3. ASSUME NEW o \in pending["client"], NEW x, NEW y,
             pending' = [pending EXCEPT !["client"] = @ \ {o}],
             Insert("client", Chan(x, y, o.terminal, o.terminal))
      PROVE  Sess'
  <2> DEFINE d == Chan(x, y, o.terminal, o.terminal)
  <2>1. /\ channels'["client"] = channels["client"] \cup {d} /\ d.end_on_close = o.terminal
        /\ pending'["client"] = pending["client"] \ {o}
    BY <1>0, <1>3 DEF IInv, Tables, Insert, Chan
  <2> HIDE DEF d
  <2>2. /\ IsFiniteSet(channels["client"]) /\ Cardinality(channels["client"]) \in Nat
        /\ IsFiniteSet(pending["client"])
        /\ Cardinality(pending["client"]) \in Nat /\ Cardinality(channels'["client"]) \in Nat
        /\ Cardinality(pending'["client"]) \in Nat /\ pending_connects["client"] \in Nat
    BY ClientTables
  <2>3. Cardinality(channels'["client"]) <= Cardinality(channels["client"]) + 1
    BY <2>1, <2>2, CardinalityAdd
  <2>4. Cardinality(pending'["client"]) = Cardinality(pending["client"]) - 1
    BY <2>1, <2>2, CardinalityRemove
  <2>5. Held' <= Held
    BY <1>1, <2>2, <2>3, <2>4 DEF Held
  <2>6. Lasts => Lasts'
    BY <2>1 DEF Lasts
  <2>7. (Held + Ahead("server"))' <= Held + Ahead("server")
    BY <1>0, <2>5, ClientHeld
  <2> QED  BY <1>1, <1>2, <2>6, <2>7, ClientSess
<1>4. CASE EndLoop("client", "error")
  <2>1. ~Running("client")'
    BY <1>0, <1>4 DEF EndLoop, Running, Sound
  <2> QED  BY <2>1 DEF Sess
<1> QED  BY <1>3, <1>4 DEF OnOpenConfirm, Opens

\* on_open_failure: a refused session ends the loop, another open just goes.
LEMMA OnOpenFailureSess ==
    ASSUME Sess, IInv, IInv', Sound, Sound', OnOpenFailure("client") PROVE Sess'
<1>0. Plain("client") /\ "client" \in End
  BY DEF Plain, End
<1>1. Running("client") /\ pending_connects' = pending_connects
  BY DEF OnOpenFailure, Arrives
<1>2. cmds' = cmds /\ scenario' = scenario
  BY <1>0, PlainQueues
<1>3. ASSUME NEW x, ~TerminalRefused("client", x), UNCHANGED channels,
             pending' = [pending EXCEPT !["client"] = @ \ Opens("client", x)]
      PROVE  Sess'
  <2>1. pending'["client"] = pending["client"] \ Opens("client", x)
    BY <1>0, <1>3 DEF IInv, Tables
  <2>2. /\ IsFiniteSet(pending["client"]) /\ Cardinality(channels["client"]) \in Nat
        /\ Cardinality(pending["client"]) \in Nat
        /\ Cardinality(pending'["client"]) \in Nat /\ pending_connects["client"] \in Nat
    BY ClientTables
  <2>3. Cardinality(pending'["client"]) <= Cardinality(pending["client"])
    <3>1. pending'["client"] \in SUBSET pending["client"]
      BY <2>1
    <3> QED  BY <2>2, <3>1, FS_Subset
  <2>4. Held' <= Held
    BY <1>1, <1>3, <2>2, <2>3 DEF Held
  <2>5. Lasts => Lasts'
    BY <1>3, <2>1 DEF Lasts, TerminalRefused
  <2>6. (Held + Ahead("server"))' <= Held + Ahead("server")
    BY <1>0, <2>4, ClientHeld
  <2> QED  BY <1>1, <1>2, <2>5, <2>6, ClientSess
<1>4. CASE EndLoop("client", "ended")
  <2>1. ~Running("client")'
    BY <1>0, <1>4 DEF EndLoop, Running, Sound
  <2> QED  BY <2>1 DEF Sess
<1> QED  BY <1>3, <1>4 DEF OnOpenFailure

\* on_close: the loop ends with its session.
LEMMA OnCloseSess ==
    ASSUME Sess, IInv, IInv', Sound, Sound', OnClose("client") PROVE Sess'
<1>0. Plain("client") /\ "client" \in End
  BY DEF Plain, End
<1>1. Running("client") /\ pending_connects' = pending_connects
  BY DEF OnClose, Arrives
<1>2. cmds' = cmds /\ scenario' = scenario
  BY <1>0, PlainQueues
<1>3. ASSUME UNCHANGED pending, NEW G \in SUBSET channels["client"],
             channels'["client"] = channels["client"] \ G,
             \A c \in G : ~c.end_on_close
      PROVE  Sess'
  <2>1. /\ IsFiniteSet(channels["client"]) /\ Cardinality(channels["client"]) \in Nat
        /\ Cardinality(pending["client"]) \in Nat
        /\ Cardinality(channels'["client"]) \in Nat /\ pending_connects["client"] \in Nat
    BY ClientTables
  <2>2. Cardinality(channels'["client"]) <= Cardinality(channels["client"])
    <3>1. channels'["client"] \in SUBSET channels["client"]
      BY <1>3
    <3> QED  BY <2>1, <3>1, FS_Subset
  <2>3. Held' <= Held
    BY <1>1, <1>3, <2>1, <2>2 DEF Held
  <2>4. Lasts => Lasts'
    BY <1>3 DEF Lasts
  <2>5. (Held + Ahead("server"))' <= Held + Ahead("server")
    BY <1>0, <2>3, ClientHeld
  <2> QED  BY <1>1, <1>2, <2>4, <2>5, ClientSess
<1>4. CASE EndLoop("client", "ended")
  <2>1. ~Running("client")'
    BY <1>0, <1>4 DEF EndLoop, Running, Sound
  <2> QED  BY <2>1 DEF Sess
<1>5. CASE UNCHANGED <<channels, pending>>
  <2> DEFINE G == {}
  <2>1. UNCHANGED pending /\ G \in SUBSET channels["client"] /\ channels'["client"] = channels["client"] \ G
    BY <1>5
  <2> QED  BY <1>3, <2>1
<1>6. ASSUME NEW c \in channels["client"], ~c.end_on_close, UNCHANGED pending,
             channels' = [channels EXCEPT !["client"] = @ \ {c}]
      PROVE  Sess'
  <2> DEFINE G == {c}
  <2>1. /\ G \in SUBSET channels["client"] /\ channels'["client"] = channels["client"] \ G
        /\ \A d \in G : ~d.end_on_close
    BY <1>0, <1>6 DEF IInv, Tables
  <2> HIDE DEF G
  <2> QED  BY <1>3, <1>6, <2>1
<1> QED  BY <1>4, <1>5, <1>6 DEF OnClose

\* on_cmd (Close): a channel is marked, nothing else.
LEMMA SendCloseSess ==
    ASSUME Sess, IInv, IInv', Sound, Sound', SendClose("client") PROVE Sess'
<1>0. Plain("client") /\ "client" \in End
  BY DEF Plain, End
<1>1. cmds' = cmds /\ scenario' = scenario
  BY <1>0, PlainQueues
<1>2. PICK c \in channels["client"] :
         /\ Running("client") /\ UNCHANGED <<pending, pending_connects>>
         /\ channels' = [channels EXCEPT !["client"] =
               (@ \ {c}) \cup {[c EXCEPT !.sent_close = TRUE]}]
  BY DEF SendClose
<1> DEFINE d == [c EXCEPT !.sent_close = TRUE]
<1>3. channels'["client"] = (channels["client"] \ {c}) \cup {d} /\ d.end_on_close = c.end_on_close
  BY <1>0, <1>2 DEF IInv, Tables
<1> HIDE DEF d
<1>4. /\ IsFiniteSet(channels["client"]) /\ Cardinality(channels["client"]) \in Nat
      /\ Cardinality(pending["client"]) \in Nat
      /\ Cardinality(channels'["client"]) \in Nat /\ pending_connects["client"] \in Nat
  BY ClientTables
<1>5. Cardinality(channels'["client"]) <= Cardinality(channels["client"])
  BY <1>3, <1>4, CardinalityReplace
<1>6. Held' <= Held
  BY <1>2, <1>4, <1>5 DEF Held
<1>7. Lasts => Lasts'
  BY <1>2, <1>3 DEF Lasts
<1>8. (Held + Ahead("server"))' <= Held + Ahead("server")
  BY <1>0, <1>6, ClientHeld
<1> QED  BY <1>1, <1>2, <1>7, <1>8, ClientSess

\* The other steps of the client leave its table alone, or end its loop.
LEMMA TableSess ==
    ASSUME Sess, IInv, IInv', Sound, Sound',
           \/ OnDisconnect("client") \/ PeerGone("client") \/ OnKeepalive("client")
           \/ OnGlobalReply("client") \/ Resolve("client") \/ Probe("client")
    PROVE  Sess'
<1>0. Plain("client") /\ "client" \in End
  BY DEF Plain, End
<1>1. cmds' = cmds /\ scenario' = scenario
  BY <1>0, PlainQueues
<1>2. CASE OnDisconnect("client") \/ PeerGone("client")
  <2>1. EndLoop("client", "ended")
    BY <1>2 DEF OnDisconnect, PeerGone
  <2>2. ~Running("client")'
    BY <1>0, <2>1 DEF EndLoop, Running, Sound
  <2> QED  BY <2>2 DEF Sess
<1>3. CASE OnKeepalive("client") \/ OnGlobalReply("client") \/ Resolve("client") \/ Probe("client")
  <2>1. UNCHANGED <<run, channels, pending, pending_connects>>
    BY <1>3 DEF OnKeepalive, OnGlobalReply, Resolve, Reports, Probe, table
  <2>2. Held' = Held /\ Lasts' = Lasts
    BY <2>1 DEF Held, Lasts
  <2>3. Ahead("server")' <= Ahead("server")
    BY <1>0, PlainAhead DEF End
  <2> QED  BY <1>1, <2>1, <2>3, ServerSess
<1> QED  BY <1>2, <1>3

\* on_cmd (OpenSession): while the session waits its turn there is room for it.
LEMMA OpenSess ==
    ASSUME Sess, IInv, IInv', Sound, Sound', Open("client") PROVE Sess'
<1>0. "client" \in End /\ "server" \in End /\ scenario' = scenario
  BY DEF End, Open, bounds
<1> DEFINE cmd == Head(cmds["client"])
           o == [id |-> next_id["client"], terminal |-> cmd.kind = "session"]
<1>1. /\ Running("client") /\ UNCHANGED <<run, channels>> /\ cmds["client"] # <<>>
      /\ cmd.kind \in OpenKinds
      /\ \/ AtCap("client") /\ UNCHANGED <<channels, pending>>
         \/ pending' = [pending EXCEPT !["client"] = @ \cup {o}]
  BY DEF Open, Commanded, OpenKinds, table
<1>2. pending'["client"] = pending["client"] \/ pending'["client"] = pending["client"] \cup {o}
  BY <1>0, <1>1 DEF IInv, Tables
<1>3. Lasts => Lasts'
  BY <1>1, <1>2 DEF Lasts
<1>4. ASSUME Ready(cmds["client"]), Held + Ahead("server") < MaxChannels PROVE Lasts'
  <2>1. cmd.kind = "session"
    <3>1. Listed(cmds["client"])
      BY <1>0 DEF Sound
    <3>2. Head(cmds["client"]).kind \in {"session", "tcpip-forward"}
      BY <1>1, <1>4, <3>1, ReadyTaken
    <3> QED  BY <1>1, <3>2 DEF OpenKinds
  <2>2. ~AtCap("client")
    <3>1. Held \in Nat /\ Ahead("server") \in Nat /\ MaxChannels \in Nat
      BY <1>0, HeldNat, AheadNat, OpensAssumption
    <3>2. Held < MaxChannels
      BY <1>4, <3>1
    <3> QED  BY <3>1, <3>2 DEF AtCap, Held
  <2>3. o \in pending'["client"] /\ o.terminal
    BY <1>0, <1>1, <2>1, <2>2, ZenonT(60) DEF IInv, Tables
  <2> QED  BY <2>3 DEF Lasts
<1>5. Running("client")' /\ Ready(cmds["client"]) /\ Held + Ahead("server") < MaxChannels => Onward
  BY <1>4 DEF Onward
<1>6. Running("client")' => Running("client")
  BY <1>1
<1> QED  BY <1>0, <1>3, <1>5, <1>6, SessKept

\* Every step keeps the session.
LEMMA StepSess == IInv /\ OInv /\ Sess /\ [Next]_vars => Sess'
<1> SUFFICES ASSUME IInv, OInv, Sess, [Next]_vars PROVE Sess'
  OBVIOUS
<1>1. IInv' /\ Sound /\ Sound' /\ "client" \in End /\ "server" \in End
  BY StepIInv, StepOInv DEF OInv, End
<1>2. ASSUME Plain("client") PROVE Sess'
  BY <1>1, <1>2, OnConnectedSess, OnChannelOpenSess, OnOpenConfirmSess, OnOpenFailureSess,
     OnCloseSess, SendCloseSess, TableSess DEF Plain
<1>3. ASSUME Plain("server") PROVE Sess'
  <2>1. /\ channels'["client"] = channels["client"] /\ pending'["client"] = pending["client"]
        /\ pending_connects'["client"] = pending_connects["client"]
        /\ run'["client"] = run["client"] /\ cmds'["client"] = cmds["client"]
    BY <1>1, <1>3, OthersHeld
  <2>2. Ahead("server")' <= Ahead("server") /\ scenario' = scenario
    BY <1>1, <1>3, PlainAhead, PlainQueues
  <2> QED  BY <1>1, <2>1, <2>2, ServerSess
<1>4. ASSUME Open("server") \/ RequestForward("server") PROVE Sess'
  <2>1. /\ channels'["client"] = channels["client"] /\ pending'["client"] = pending["client"]
        /\ pending_connects'["client"] = pending_connects["client"]
        /\ run'["client"] = run["client"] /\ cmds'["client"] = cmds["client"]
    BY <1>1, <1>4, OthersHeld
  <2>2. Ahead("server")' <= Ahead("server")
    BY <1>1, <1>4, OpenAhead
  <2>3. scenario' = scenario
    BY <1>4 DEF Open, RequestForward, bounds
  <2> QED  BY <1>1, <2>1, <2>2, <2>3, ServerSess
<1>5. ASSUME RequestForward("client") PROVE Sess'
  <2>1. /\ UNCHANGED <<run, channels, pending, pending_connects>> /\ scenario' = scenario
        /\ accepts' = accepts /\ Head(cmds["client"]).kind # "session" /\ cmds["client"] # <<>>
        /\ cmds'["client"] = Tail(cmds["client"]) /\ cmds'["server"] = cmds["server"]
        /\ Listed(cmds["client"])
    BY <1>1, <1>5 DEF RequestForward, table, bounds, Commanded, Sound
  <2>2. Ready(cmds["client"]) => Ready(cmds'["client"])
    BY <2>1, ReadyTaken
  <2>3. wire'["server"] = wire["server"]
    BY <1>1, <1>5 DEF RequestForward, Send, Sound
  <2>4. Ahead("server")' = Ahead("server")
    BY <2>1, <2>3 DEF Ahead
  <2>5. Ahead("server") \in Nat
    BY <1>1, AheadNat
  <2>6. Ahead("server")' <= Ahead("server")
    BY <2>4, <2>5
  <2> QED  BY <1>1, <2>1, <2>2, <2>6, ServerSess
<1>6. ASSUME NEW cmd, Admit("server", cmd) PROVE Sess'
  <2>1. /\ UNCHANGED <<run, channels, pending, pending_connects, scenario>>
        /\ cmds'["client"] = cmds["client"]
    BY <1>1, <1>6 DEF Admit, table, Sound
  <2>2. Ahead("server")' <= Ahead("server")
    BY <1>1, <1>6, AdmitAhead
  <2> QED  BY <1>1, <2>1, <2>2, ServerSess
<1>7. ASSUME UNCHANGED <<run, channels, pending, pending_connects, scenario, cmds>>,
             accepts'["server"] = accepts["server"], wire'["server"] = wire["server"]
      PROVE  Sess'
  <2>1. Ahead("server")' = Ahead("server")
    BY <1>7 DEF Ahead
  <2>2. Ahead("server") \in Nat
    BY <1>1, AheadNat
  <2>3. Ahead("server")' <= Ahead("server")
    BY <2>1, <2>2
  <2> QED  BY <1>1, <1>7, <2>3, ServerSess
<1>8. ASSUME NEW cmd, Admit("client", cmd) PROVE Sess'
  <2>1. /\ UNCHANGED <<run, channels, pending, pending_connects, scenario, wire>>
        /\ cmds'["client"] = Append(cmds["client"], cmd) /\ Listed(cmds["client"])
        /\ cmds'["server"] = cmds["server"] /\ accepts'["server"] = accepts["server"]
    BY <1>1, <1>8 DEF Admit, table, Sound
  <2>2. Ready(cmds["client"]) => Ready(cmds'["client"])
    BY <2>1, ReadyAdded
  <2>3. Ahead("server")' = Ahead("server")
    BY <2>1 DEF Ahead
  <2>4. Ahead("server") \in Nat
    BY <1>1, AheadNat
  <2>5. Ahead("server")' <= Ahead("server")
    BY <2>3, <2>4
  <2> QED  BY <1>1, <2>1, <2>2, <2>5, ServerSess
<1>9. CASE AcceptForNobody \/ \E key \in scenario.cancels : SendCancel(key)
  <2>1. CASE AcceptForNobody
    BY <1>1, <1>7, <2>1 DEF AcceptForNobody, table, queues, Sound
  <2>2. ASSUME NEW key, SendCancel(key) PROVE Sess'
    <3>1. UNCHANGED <<run, channels, pending, pending_connects, scenario, cmds>>
      BY <2>2 DEF SendCancel, table, queues
    <3>2. accepts'["server"] = accepts["server"] /\ wire'["server"] = wire["server"]
      BY <1>1, <2>2 DEF SendCancel, Send, Sound
    <3> QED  BY <1>7, <3>1, <3>2
  <2> QED  BY <1>9, <2>1, <2>2
<1>10. CASE UNCHANGED vars
  BY <1>7, <1>10 DEF vars, table, queues, bounds
<1>11. ASSUME NEW e \in End, Step(e) \/ Resolve(e) \/ SendClose(e) \/ Probe(e) PROVE Sess'
  <2>1. Plain(e) \/ Open(e) \/ RequestForward(e)
    BY <1>11 DEF Step, Plain
  <2>2. CASE e = "client"
    BY <1>1, <1>2, <1>5, <2>1, <2>2, OpenSess
  <2>3. CASE e = "server"
    BY <1>3, <1>4, <2>1, <2>3
  <2> QED  BY <2>2, <2>3 DEF End
<1>12. ASSUME AcceptAgent \/ (\E l \in live : AcceptRemote(l)) PROVE Sess'
  <2>1. \E cmd : Admit("server", cmd)
    BY <1>12 DEF AcceptAgent, AcceptRemote
  <2> QED  BY <1>6, <2>1
<1>13. ASSUME NEW target, AcceptLocal(target) PROVE Sess'
  BY <1>8, <1>13 DEF AcceptLocal
<1> QED  BY <1>9, <1>10, <1>11, <1>12, <1>13 DEF Next, Environment

\* At first the session is queued.
LEMMA InitSess == Init => Sess
<1> SUFFICES ASSUME Init, ForSession PROVE Sess
  BY DEF Sess
<1>1. /\ scenario \in Scenarios /\ cmds["client"] = scenario.requests /\ cmds["server"] = <<>>
      /\ channels["client"] = {} /\ pending["client"] = {} /\ pending_connects["client"] = 0
      /\ wire["server"] = <<>> /\ accepts = scenario.sockets
  BY DEF Init, End
<1>2. Ready(cmds["client"])
  <2>1. PICK i \in DOMAIN scenario.requests : scenario.requests[i].kind = "session"
    BY DEF ForSession
  <2>2. /\ Listed(scenario.requests)
        /\ \A j \in 1..Len(scenario.requests) :
                 scenario.requests[j].kind \in {"session", "tcpip-forward"}
    BY <1>1, Requests
  <2>3. i \in 1..Len(scenario.requests) /\ Len(scenario.requests) \in Nat
    <3>1. DOMAIN scenario.requests = 1..Len(scenario.requests)
      BY <2>2 DEF Listed
    <3> QED  BY <2>1, <2>2, <3>1 DEF Listed
  <2>4. \A j \in 1..(i - 1) : j \in 1..Len(scenario.requests)
    BY <2>3
  <2> QED  BY <1>1, <2>1, <2>2, <2>3, <2>4 DEF Ready
<1>3. Held = 0
  BY <1>1, FS_EmptySet DEF Held
<1>4. Ahead("server") = scenario.sockets["server"] /\ scenario.sockets["server"] \in Nat
  <2>1. scenario.sockets["server"] \in Nat
    BY <1>1, OpensAssumption DEF End
  <2>2. OpensOn(wire["server"]) = 0 /\ Commands(cmds["server"], OpenKinds) = 0
    BY <1>1, EmptyWire
  <2> QED  BY <1>1, <2>1, <2>2 DEF Ahead
<1>5. Held + Ahead("server") <= scenario.sockets["server"]
  BY <1>3, <1>4
<1> QED  BY <1>2, <1>5 DEF Sess

\* A queue that is ready holds a session.
LEMMA SessIs == Sound /\ Sess => SessionOrEnd
<1> SUFFICES ASSUME Sound, Sess, ForSession, Running("client") PROVE SessionOrEnd
  BY DEF SessionOrEnd
<1>1. CASE Lasts
  BY <1>1 DEF Lasts, SessionOrEnd
<1>2. CASE Ready(cmds["client"])
  <2>1. PICK i \in 1..Len(cmds["client"]) : cmds["client"][i].kind = "session"
    BY <1>2 DEF Ready
  <2>2. DOMAIN cmds["client"] = 1..Len(cmds["client"])
    BY DEF Sound, Listed, End
  <2> QED  BY <2>1, <2>2 DEF SessionOrEnd
<1> QED  BY <1>1, <1>2 DEF Sess

\* The client's loop goes on only as long as the session it exists for.
THEOREM SessionKept == Spec => []SessionOrEnd
<1>1. Init => IInv /\ OInv /\ Sess
  BY InitIInv, InitOInv, InitSess
<1>2. IInv /\ OInv /\ Sess /\ [Next]_vars => (IInv /\ OInv /\ Sess)'
  BY StepIInv, StepOInv, StepSess
<1>3. IInv /\ OInv /\ Sess => SessionOrEnd
  BY SessIs DEF OInv
<1> QED  BY <1>1, <1>2, <1>3, PTL DEF Spec

-----------------------------------------------------------------------------
(* Remote forwards: which request a reply answers, and what it registers.  *)

Reps == {"success", "refused"}
Asking == {"tcpip-forward", "keepalive"}

\* The forward that the reply m to the request g registers.
Key(g, m) == <<g.bind, IF g.port = 0 THEN m.port ELSE g.port>>

\* The i-th packet of q grants the forward k to t, G being the requests
\* without an answer.
Grants(q, G, i, k, t) ==
    /\ i \in 1..Len(q) /\ q[i].type = "success"
    /\ k = Key(G[Rank(q, i, Reps)], q[i]) /\ t = G[Rank(q, i, Reps)].target

\* Every reply has its request, a success that of a forward.
Fits(m, G, r) ==
    m.type \in Reps =>
        r \in 1..Len(G) /\ (m.type = "success" => G[r].kind = "tcpip-forward")
Replied(q, G) == \A i \in 1..Len(q) : Fits(q[i], G, Rank(q, i, Reps))

\* The same grants before the place n, and all the same but the first.
Keeps(q, G, q2, G2, n) ==
    \A i \in 1..n : \A k, t : Grants(q2, G2, i, k, t) <=> Grants(q, G, i, k, t)
Shifts(q, G, q2, G2) ==
    \A i \in Nat \ {0} : \A k, t : Grants(q2, G2, i, k, t) <=> Grants(q, G, i + 1, k, t)

\* A reply has one of the requests at or after the first.
LEMMA RankPositive ==
    ASSUME NEW q, NEW i \in Nat \ {0}, q[i].type \in Reps
    PROVE  Rank(q, i, Reps) \in Nat \ {0}
<1>1. Counts(Rank(q, i - 1, Reps), Rank(q, i, Reps), q[i].type, Reps)
  BY RankNext
<1>2. Rank(q, i - 1, Reps) \in Nat
  <2>1. i - 1 \in Nat
    OBVIOUS
  <2> QED  BY <2>1, RankNat
<1> QED  BY <1>1, <1>2 DEF Counts

\* A request more.
LEMMA GrantAsked ==
    ASSUME NEW q, Listed(q), NEW G, Listed(G), Replied(q, G), NEW g, NEW G2, G2 = Append(G, g)
    PROVE  Replied(q, G2) /\ Keeps(q, G, q, G2, Len(q))
<1>1. Len(G) \in Nat /\ Len(G2) = Len(G) + 1 /\ \A i \in 1..Len(G) : G2[i] = G[i]
  BY Added
<1>2. ASSUME NEW i \in 1..Len(q), q[i].type \in Reps
      PROVE  /\ Rank(q, i, Reps) \in 1..Len(G) /\ Rank(q, i, Reps) \in 1..Len(G2)
             /\ G2[Rank(q, i, Reps)] = G[Rank(q, i, Reps)]
             /\ q[i].type = "success" => G[Rank(q, i, Reps)].kind = "tcpip-forward"
  <2>1. /\ Rank(q, i, Reps) \in 1..Len(G)
        /\ q[i].type = "success" => G[Rank(q, i, Reps)].kind = "tcpip-forward"
    BY <1>2 DEF Replied, Fits
  <2> QED  BY <1>1, <2>1
<1>3. Replied(q, G2)
  <2> SUFFICES ASSUME NEW i \in 1..Len(q), q[i].type \in Reps
               PROVE  /\ Rank(q, i, Reps) \in 1..Len(G2)
                      /\ q[i].type = "success" => G2[Rank(q, i, Reps)].kind = "tcpip-forward"
    BY DEF Replied, Fits
  <2> QED  BY <1>2
<1>4. ASSUME NEW i \in 1..Len(q), NEW k, NEW t PROVE Grants(q, G2, i, k, t) <=> Grants(q, G, i, k, t)
  <2>1. CASE q[i].type # "success"
    BY <2>1 DEF Grants
  <2>2. CASE q[i].type = "success"
    <3>1. q[i].type \in Reps
      BY <2>2 DEF Reps
    <3>2. G2[Rank(q, i, Reps)] = G[Rank(q, i, Reps)]
      BY <1>2, <3>1
    <3> QED  BY <3>2 DEF Grants
  <2> QED  BY <2>1, <2>2
<1> QED  BY <1>3, <1>4 DEF Keeps

\* A packet more: the earlier ones mean what they did.
LEMMA GrantKept ==
    ASSUME NEW q, Listed(q), NEW G, NEW m, NEW q2, q2 = Append(q, m)
    PROVE  /\ Keeps(q, G, q2, G, Len(q))
           /\ \A i \in 1..Len(q) : q2[i] = q[i] /\ Rank(q2, i, Reps) = Rank(q, i, Reps)
<1>1. Len(q) \in Nat /\ Len(q2) = Len(q) + 1 /\ \A i \in 1..Len(q) : q2[i] = q[i]
  BY Added
<1>2. ASSUME NEW i \in 1..Len(q) PROVE i \in 1..Len(q2) /\ Rank(q2, i, Reps) = Rank(q, i, Reps)
  <2>1. i \in 0..Len(q) /\ i \in 1..Len(q2)
    BY <1>1
  <2>2. Rank(q2, i, Reps) = Rank(q, i, Reps)
    <3>1. \A j \in 1..i : q2[j] = q[j]
      BY <1>1
    <3>2. Typed(q2, i, Reps) = Typed(q, i, Reps)
      BY <3>1 DEF Typed
    <3> QED  BY <3>2 DEF Rank
  <2> QED  BY <2>1, <2>2
<1>3. \A i \in 1..Len(q) : \A k, t : Grants(q2, G, i, k, t) <=> Grants(q, G, i, k, t)
  BY <1>1, <1>2 DEF Grants
<1> QED  BY <1>1, <1>2, <1>3 DEF Keeps

Last(q, G, m, r) ==
    \A k, t : Grants(q, G, Len(q), k, t) <=>
        m.type = "success" /\ k = Key(G[r], m) /\ t = G[r].target
\* What the packet added means.
LEMMA GrantSent ==
    ASSUME NEW q, Listed(q), NEW G, Replied(q, G), NEW m, NEW q2, q2 = Append(q, m),
           NEW r, r = Rank(q, Len(q), Reps) + 1, Fits(m, G, r)
    PROVE  /\ Replied(q2, G)
           /\ Last(q2, G, m, r)
<1>1. /\ Len(q) \in Nat /\ Len(q2) = Len(q) + 1 /\ (\A i \in 1..Len(q) : q2[i] = q[i])
      /\ q2[Len(q) + 1] = m
  BY Added
<1>2. m.type \in Reps => Rank(q2, Len(q2), Reps) = r
  <2>1. Counts(Rank(q, Len(q), Reps), Rank(q2, Len(q2), Reps), m.type, Reps)
    BY RankAdded
  <2> QED  BY <2>1 DEF Counts
<1>3. ASSUME NEW i \in 1..Len(q2) PROVE Fits(q2[i], G, Rank(q2, i, Reps))
  <2>1. CASE i = Len(q2)
    BY <1>1, <1>2, <2>1 DEF Fits
  <2>2. CASE i # Len(q2)
    <3>1. i \in 1..Len(q)
      BY <1>1, <2>2
    <3>2. q2[i] = q[i] /\ Rank(q2, i, Reps) = Rank(q, i, Reps)
      BY <3>1, GrantKept
    <3> QED  BY <3>1, <3>2 DEF Replied
  <2> QED  BY <2>1, <2>2
<1>4. ASSUME NEW k, NEW t
      PROVE  Grants(q2, G, Len(q2), k, t) <=>
                 m.type = "success" /\ k = Key(G[r], m) /\ t = G[r].target
  <2>1. Len(q2) \in 1..Len(q2) /\ q2[Len(q2)] = m
    BY <1>1
  <2>2. m.type = "success" => Rank(q2, Len(q2), Reps) = r
    BY <1>2 DEF Reps
  <2> QED  BY <2>1, <2>2 DEF Grants
<1> QED  BY <1>3, <1>4 DEF Replied, Last

\* A packet that is not a reply is taken ...
LEMMA GrantTaken ==
    ASSUME NEW q, Listed(q), q # <<>>, NEW G, Replied(q, G), Head(q).type \notin Reps,
           NEW q2, q2 = Tail(q)
    PROVE  /\ Replied(q2, G) /\ Shifts(q, G, q2, G)
           /\ \A k, t : ~Grants(q, G, 1, k, t)
<1>1. /\ Len(q) \in Nat \ {0} /\ Len(q2) = Len(q) - 1 /\ Head(q) = q[1]
      /\ \A i \in 1..Len(q2) : q2[i] = q[i + 1] /\ i + 1 \in 1..Len(q)
  BY Taken
<1>2. ASSUME NEW i \in 1..Len(q2) PROVE Rank(q2, i, Reps) = Rank(q, i + 1, Reps)
  <2> DEFINE n == i + 1
  <2>1. n \in 1..Len(q) /\ n - 1 = i
    BY <1>1
  <2> HIDE DEF n
  <2>2. Counts(Rank(q2, n - 1, Reps), Rank(q, n, Reps), Head(q).type, Reps)
    BY <2>1, RankTaken
  <2>3. Rank(q, n, Reps) = Rank(q2, n - 1, Reps)
    BY <2>2 DEF Counts
  <2> QED  BY <2>1, <2>3 DEF n
<1>3. Replied(q2, G)
  BY <1>1, <1>2 DEF Replied
<1>4. ASSUME NEW i \in Nat \ {0}, NEW k, NEW t
      PROVE  Grants(q2, G, i, k, t) <=> Grants(q, G, i + 1, k, t)
  <2>1. i \in 1..Len(q2) <=> i + 1 \in 1..Len(q)
    BY <1>1
  <2> QED  BY <1>1, <1>2, <2>1 DEF Grants
<1>5. \A k, t : ~Grants(q, G, 1, k, t)
  BY <1>1 DEF Grants, Reps
<1> QED  BY <1>3, <1>4, <1>5 DEF Shifts

\* ... and a reply with its request.
LEMMA GrantAnswered ==
    ASSUME NEW q, Listed(q), q # <<>>, NEW G, Listed(G), Replied(q, G), Head(q).type \in Reps,
           NEW q2, q2 = Tail(q), NEW G2, G2 = Tail(G)
    PROVE  /\ G # <<>> /\ Replied(q2, G2) /\ Shifts(q, G, q2, G2)
           /\ Head(q).type = "success" => Head(G).kind = "tcpip-forward"
           /\ \A k, t : Grants(q, G, 1, k, t) <=>
                 Head(q).type = "success" /\ k = Key(Head(G), Head(q)) /\ t = Head(G).target
<1>1. /\ Len(q) \in Nat \ {0} /\ Len(q2) = Len(q) - 1 /\ Head(q) = q[1]
      /\ \A i \in 1..Len(q2) : q2[i] = q[i + 1] /\ i + 1 \in 1..Len(q)
  BY Taken
<1>2. Rank(q, 1, Reps) = 1
  <2>1. Counts(Rank(q, 1 - 1, Reps), Rank(q, 1, Reps), q[1].type, Reps)
    BY RankNext
  <2>2. Rank(q, 1 - 1, Reps) = 0
    BY RankNone
  <2> QED  BY <1>1, <2>1, <2>2 DEF Counts
<1>3. G # <<>> /\ (Head(q).type = "success" => G[1].kind = "tcpip-forward")
  <2>1. Fits(q[1], G, 1)
    BY <1>1, <1>2 DEF Replied
  <2>2. 1 \in 1..Len(G) /\ (Head(q).type = "success" => G[1].kind = "tcpip-forward")
    BY <1>1, <2>1 DEF Fits
  <2>3. Len(<<>>) = 0
    BY EmptyListed
  <2> QED  BY <2>2, <2>3
<1>4. /\ Len(G) \in Nat \ {0} /\ Len(G2) = Len(G) - 1 /\ Head(G) = G[1]
      /\ \A i \in 1..Len(G2) : G2[i] = G[i + 1] /\ i + 1 \in 1..Len(G)
  BY <1>3, Taken
<1>5. ASSUME NEW i \in 1..Len(q2) PROVE Rank(q, i + 1, Reps) = Rank(q2, i, Reps) + 1
  <2> DEFINE n == i + 1
  <2>1. n \in 1..Len(q) /\ n - 1 = i
    BY <1>1
  <2> HIDE DEF n
  <2>2. Counts(Rank(q2, n - 1, Reps), Rank(q, n, Reps), Head(q).type, Reps)
    BY <2>1, RankTaken
  <2>3. Rank(q, n, Reps) = Rank(q2, n - 1, Reps) + 1
    BY <2>2 DEF Counts
  <2> QED  BY <2>1, <2>3 DEF n
<1>6. ASSUME NEW i \in 1..Len(q2), q2[i].type \in Reps
      PROVE  /\ Rank(q2, i, Reps) \in 1..Len(G2)
             /\ G2[Rank(q2, i, Reps)] = G[Rank(q, i + 1, Reps)]
             /\ q2[i].type = "success" => G2[Rank(q2, i, Reps)].kind = "tcpip-forward"
  <2>1. Fits(q[i + 1], G, Rank(q, i + 1, Reps)) /\ q2[i] = q[i + 1]
    BY <1>1 DEF Replied
  <2>2. /\ Rank(q, i + 1, Reps) \in 1..Len(G)
        /\ q2[i].type = "success" => G[Rank(q, i + 1, Reps)].kind = "tcpip-forward"
    BY <1>6, <2>1 DEF Fits
  <2>3. Rank(q2, i, Reps) \in Nat \ {0}
    <3>1. i \in Nat \ {0}
      BY <1>1
    <3> QED  BY <1>6, <3>1, RankPositive
  <2>4. Rank(q2, i, Reps) \in 1..Len(G2)
    BY <1>4, <1>5, <2>2, <2>3
  <2> QED  BY <1>4, <1>5, <2>2, <2>4
<1>7. Replied(q2, G2)
  <2> SUFFICES ASSUME NEW i \in 1..Len(q2) PROVE Fits(q2[i], G2, Rank(q2, i, Reps))
    BY DEF Replied
  <2> QED  BY <1>6 DEF Fits
<1>8. ASSUME NEW i \in Nat \ {0}, NEW k, NEW t
      PROVE  Grants(q2, G2, i, k, t) <=> Grants(q, G, i + 1, k, t)
  <2>1. i \in 1..Len(q2) <=> i + 1 \in 1..Len(q)
    BY <1>1
  <2>2. CASE i \in 1..Len(q2) /\ q2[i].type = "success"
    <3>1. q2[i].type \in Reps
      BY <2>2 DEF Reps
    <3>2. G2[Rank(q2, i, Reps)] = G[Rank(q, i + 1, Reps)] /\ q2[i] = q[i + 1]
      BY <1>1, <1>6, <2>2, <3>1
    <3> QED  BY <2>1, <2>2, <3>2 DEF Grants
  <2>3. CASE ~(i \in 1..Len(q2) /\ q2[i].type = "success")
    BY <1>1, <2>1, <2>3 DEF Grants
  <2> QED  BY <2>2, <2>3
<1>9. \A k, t : Grants(q, G, 1, k, t) <=>
                 Head(q).type = "success" /\ k = Key(Head(G), Head(q)) /\ t = Head(G).target
  <2>1. 1 \in 1..Len(q) /\ q[1] = Head(q) /\ G[1] = Head(G)
    BY <1>1, <1>4
  <2> QED  BY <1>2, <2>1 DEF Grants
<1> QED  BY <1>3, <1>4, <1>7, <1>8, <1>9 DEF Shifts

-----------------------------------------------------------------------------
\* A forward is due at the place n of q: registered, or granted before.
Due(q, G, R, k, t, n) ==
    (k \in DOMAIN R /\ R[k] = t) \/ \E j \in 1..n : Grants(q, G, j, k, t)

\* No forward is granted twice, and every open for one comes after its grant.
Unique(q, G, R) ==
    /\ \A i, j, k, t, u : Grants(q, G, i, k, t) /\ Grants(q, G, j, k, u) => i = j
    /\ \A i, k, t : Grants(q, G, i, k, t) => k \notin DOMAIN R
IsForward(m) == m.type = "open" /\ m.open.kind = "forwarded"
OpensDue(q, G, R) ==
    \A i \in 1..Len(q) :
        IsForward(q[i]) => Due(q, G, R, q[i].open.key, q[i].open.target, i - 1)
Told(q, G, R) == Replied(q, G) /\ Unique(q, G, R) /\ OpensDue(q, G, R)

\* A listener is behind every forward granted or registered, and every
\* listener and every open of one that is queued is due.
Backed(q, G, R, L) ==
    /\ \A i, k, t : Grants(q, G, i, k, t) => \E l \in L : Echo(l) = k
    /\ \A k \in DOMAIN R : \E l \in L : Echo(l) = k
Listening(q, G, R, L) ==
    \A l \in L : Due(q, G, R, Echo(l), l.target, Len(q)) /\ l.addr = Normalize(l.bind)
Queued(q, G, R, C) ==
    \A i \in 1..Len(C) :
        C[i].kind = "forwarded" => Due(q, G, R, C[i].key, C[i].target, Len(q))

\* Grants are places of the queue.
LEMMA GrantPlace ==
    ASSUME NEW q, NEW G, NEW i, NEW k, NEW t, Grants(q, G, i, k, t) PROVE i \in 1..Len(q)
BY DEF Grants

\* A request more: nothing is granted by it.
LEMMA ToldAsked ==
    ASSUME NEW q, Listed(q), NEW G, Listed(G), NEW R, Told(q, G, R),
           NEW g, NEW G2, G2 = Append(G, g)
    PROVE  /\ Told(q, G2, R)
           /\ \A L : Backed(q, G, R, L) => Backed(q, G2, R, L)
           /\ \A L : Listening(q, G, R, L) => Listening(q, G2, R, L)
           /\ \A C : Queued(q, G, R, C) => Queued(q, G2, R, C)
<1>1. Replied(q, G2) /\ Keeps(q, G, q, G2, Len(q)) /\ Len(q) \in Nat
  BY GrantAsked DEF Told, Listed
<1>2. \A i, k, t : Grants(q, G2, i, k, t) <=> Grants(q, G, i, k, t)
  <2>1. \A i, k, t : i \in 1..Len(q) => (Grants(q, G2, i, k, t) <=> Grants(q, G, i, k, t))
    BY <1>1 DEF Keeps
  <2> QED  BY <2>1, GrantPlace
<1>3. \A k, t, n : Due(q, G2, R, k, t, n) <=> Due(q, G, R, k, t, n)
  BY <1>2 DEF Due
<1>4. Unique(q, G2, R)
  <2>1. Unique(q, G, R)
    BY DEF Told
  <2> QED  BY <1>2, <2>1 DEF Unique
<1>5. OpensDue(q, G2, R)
  <2>1. OpensDue(q, G, R)
    BY DEF Told
  <2> QED  BY <1>3, <2>1 DEF OpensDue
<1>6. \A L : Backed(q, G, R, L) => Backed(q, G2, R, L)
  BY <1>2 DEF Backed
<1>7. \A L : Listening(q, G, R, L) => Listening(q, G2, R, L)
  BY <1>3 DEF Listening
<1>8. \A C : Queued(q, G, R, C) => Queued(q, G2, R, C)
  BY <1>3 DEF Queued
<1> QED  BY <1>1, <1>4, <1>5, <1>6, <1>7, <1>8 DEF Told

\* What was due stays due when a packet is added ...
LEMMA DueAdded ==
    ASSUME NEW q, Listed(q), NEW G, NEW R, NEW m, NEW q2, q2 = Append(q, m),
           NEW k, NEW t, NEW n \in 0..Len(q), Due(q, G, R, k, t, n), NEW n2 \in Nat, n <= n2
    PROVE  Due(q2, G, R, k, t, n2)
<1>1. Keeps(q, G, q2, G, Len(q)) /\ Len(q) \in Nat
  BY GrantKept DEF Listed
<1>2. CASE k \in DOMAIN R /\ R[k] = t
  BY <1>2 DEF Due
<1>3. ASSUME NEW j \in 1..n, Grants(q, G, j, k, t) PROVE Due(q2, G, R, k, t, n2)
  <2>1. j \in 1..Len(q) /\ j \in 1..n2
    BY <1>1
  <2>2. Grants(q2, G, j, k, t)
    BY <1>1, <1>3, <2>1 DEF Keeps
  <2> QED  BY <2>1, <2>2 DEF Due
<1> QED  BY <1>2, <1>3 DEF Due

\* A packet more, whose grant, if it is one, is of a forward not known.
NewGrant(q, G, R, q2) ==
    \A k, t : Grants(q2, G, Len(q2), k, t) =>
        k \notin DOMAIN R /\ \A j, u : ~Grants(q, G, j, k, u)
\* The replies and opens on the wire are in order with one packet more.
LEMMA ToldAdded ==
    ASSUME NEW q, Listed(q), NEW G, NEW R, Told(q, G, R), NEW m, NEW q2, q2 = Append(q, m),
           Replied(q2, G), NewGrant(q, G, R, q2),
           IsForward(m) => Due(q, G, R, m.open.key, m.open.target, Len(q))
    PROVE  Told(q2, G, R)
<1>1. /\ Len(q) \in Nat /\ Len(q2) = Len(q) + 1 /\ (\A i \in 1..Len(q) : q2[i] = q[i])
      /\ q2[Len(q) + 1] = m
  BY Added
<1>2. Keeps(q, G, q2, G, Len(q)) /\ Unique(q, G, R) /\ OpensDue(q, G, R)
  BY GrantKept DEF Told
<1>3. ASSUME NEW i, NEW k, NEW t, Grants(q2, G, i, k, t)
      PROVE  i = Len(q2) \/ Grants(q, G, i, k, t)
  <2>1. i \in 1..Len(q2)
    BY <1>3, GrantPlace
  <2>2. i = Len(q2) \/ i \in 1..Len(q)
    BY <1>1, <2>1
  <2> QED  BY <1>2, <1>3, <2>2 DEF Keeps
<1>4. Unique(q2, G, R)
  <2>1. ASSUME NEW i, NEW j, NEW k, NEW t, NEW u,
               Grants(q2, G, i, k, t), Grants(q2, G, j, k, u)
        PROVE  i = j
    <3>1. i = Len(q2) \/ Grants(q, G, i, k, t)
      BY <1>3, <2>1
    <3>2. j = Len(q2) \/ Grants(q, G, j, k, u)
      BY <1>3, <2>1
    <3>3. CASE i = Len(q2)
      BY <2>1, <3>2, <3>3 DEF NewGrant
    <3>4. CASE j = Len(q2)
      BY <2>1, <3>1, <3>4 DEF NewGrant
    <3>5. CASE Grants(q, G, i, k, t) /\ Grants(q, G, j, k, u)
      BY <1>2, <3>5 DEF Unique
    <3> QED  BY <3>1, <3>2, <3>3, <3>4, <3>5
  <2>2. ASSUME NEW i, NEW k, NEW t, Grants(q2, G, i, k, t) PROVE k \notin DOMAIN R
    <3>1. i = Len(q2) \/ Grants(q, G, i, k, t)
      BY <1>3, <2>2
    <3>2. CASE i = Len(q2)
      BY <2>2, <3>2 DEF NewGrant
    <3>3. CASE Grants(q, G, i, k, t)
      BY <1>2, <3>3 DEF Unique
    <3> QED  BY <3>1, <3>2, <3>3
  <2> QED  BY <2>1, <2>2 DEF Unique
<1>5. OpensDue(q2, G, R)
  <2> SUFFICES ASSUME NEW i \in 1..Len(q2), IsForward(q2[i])
               PROVE  Due(q2, G, R, q2[i].open.key, q2[i].open.target, i - 1)
    BY DEF OpensDue
  <2>0. i - 1 \in Nat /\ i - 1 \in 0..Len(q) /\ i - 1 <= i - 1
    BY <1>1
  <2>1. Due(q, G, R, q2[i].open.key, q2[i].open.target, i - 1)
    <3>1. CASE i = Len(q2)
      BY <1>1, <3>1
    <3>2. CASE i # Len(q2)
      <4>1. i \in 1..Len(q) /\ q2[i] = q[i]
        BY <1>1, <3>2
      <4> QED  BY <1>2, <4>1 DEF OpensDue
    <3> QED  BY <3>1, <3>2
  <2> DEFINE n == i - 1
  <2>2. n \in Nat /\ n \in 0..Len(q) /\ n <= n /\ Due(q, G, R, q2[i].open.key, q2[i].open.target, n)
    BY <2>0, <2>1
  <2> HIDE DEF n
  <2>3. Due(q2, G, R, q2[i].open.key, q2[i].open.target, n)
    BY <2>2, DueAdded
  <2> QED  BY <2>3 DEF n
<1> QED  BY <1>4, <1>5 DEF Told

\* ... and so does what the server has.
LEMMA KnownAdded ==
    ASSUME NEW q, Listed(q), NEW G, NEW R, NEW m, NEW q2, q2 = Append(q, m)
    PROVE  /\ \A L : Listening(q, G, R, L) => Listening(q2, G, R, L)
           /\ \A C : Queued(q, G, R, C) => Queued(q2, G, R, C)
<1>1. Len(q) \in Nat /\ Len(q2) = Len(q) + 1 /\ Len(q) \in 0..Len(q) /\ Len(q2) \in Nat
      /\ Len(q) <= Len(q2)
  BY Added
<1>2. ASSUME NEW k, NEW t, Due(q, G, R, k, t, Len(q)) PROVE Due(q2, G, R, k, t, Len(q2))
  BY <1>1, <1>2, DueAdded
<1>3. \A L : Listening(q, G, R, L) => Listening(q2, G, R, L)
  BY <1>2 DEF Listening
<1>4. \A C : Queued(q, G, R, C) => Queued(q2, G, R, C)
  BY <1>2 DEF Queued
<1> QED  BY <1>3, <1>4

\* The first packet is taken, and what it grants is registered.
Extends(R, R2, k, t) ==
    /\ \A x : x \in DOMAIN R2 <=> x \in DOMAIN R \/ x = k
    /\ R2[k] = t /\ \A x \in DOMAIN R : x # k => R2[x] = R[x]
Handed(q, G, R, R2) ==
    \/ R2 = R /\ \A k, t : ~Grants(q, G, 1, k, t)
    \/ \E k, t : Grants(q, G, 1, k, t) /\ Extends(R, R2, k, t)

\* What was due stays due when the first packet is taken.
LEMMA DueTaken ==
    ASSUME NEW q, NEW G, NEW R, Unique(q, G, R), NEW q2, NEW G2, Shifts(q, G, q2, G2),
           NEW R2, Handed(q, G, R, R2), NEW k, NEW t, NEW n \in Nat, Due(q, G, R, k, t, n + 1)
    PROVE  Due(q2, G2, R2, k, t, n)
<1>1. ASSUME k \in DOMAIN R, R[k] = t PROVE k \in DOMAIN R2 /\ R2[k] = t
  <2>1. CASE R2 = R
    BY <1>1, <2>1
  <2>2. ASSUME NEW k1, NEW t1, Grants(q, G, 1, k1, t1), Extends(R, R2, k1, t1)
        PROVE  k \in DOMAIN R2 /\ R2[k] = t
    <3>1. k1 \notin DOMAIN R
      BY <2>2 DEF Unique
    <3> QED  BY <1>1, <2>2, <3>1 DEF Extends
  <2> QED  BY <2>1, <2>2 DEF Handed
<1>2. ASSUME Grants(q, G, 1, k, t) PROVE k \in DOMAIN R2 /\ R2[k] = t
  <2>1. PICK k1, t1 : Grants(q, G, 1, k1, t1) /\ Extends(R, R2, k1, t1)
    BY <1>2 DEF Handed
  <2>2. k1 = k /\ t1 = t
    BY <1>2, <2>1 DEF Grants
  <2> QED  BY <2>1, <2>2 DEF Extends
<1>3. ASSUME NEW j \in 1..(n + 1), Grants(q, G, j, k, t), j # 1 PROVE Due(q2, G2, R2, k, t, n)
  <2> DEFINE i == j - 1
  <2>1. i \in Nat \ {0} /\ i + 1 = j /\ i \in 1..n
    BY <1>3
  <2> HIDE DEF i
  <2>2. Grants(q2, G2, i, k, t)
    BY <1>3, <2>1 DEF Shifts
  <2> QED  BY <2>1, <2>2 DEF Due
<1>4. CASE k \in DOMAIN R /\ R[k] = t
  BY <1>1, <1>4 DEF Due
<1>5. CASE Grants(q, G, 1, k, t)
  BY <1>2, <1>5 DEF Due
<1> QED  BY <1>3, <1>4, <1>5 DEF Due

\* The replies and opens on the wire are in order with the first taken.
LEMMA ToldTaken ==
    ASSUME NEW q, Listed(q), q # <<>>, NEW G, NEW R, Told(q, G, R), NEW q2, q2 = Tail(q),
           NEW G2, Shifts(q, G, q2, G2), Replied(q2, G2), NEW R2, Handed(q, G, R, R2)
    PROVE  /\ Told(q2, G2, R2)
           /\ \A L : Backed(q, G, R, L) => Backed(q2, G2, R2, L)
           /\ \A L : Listening(q, G, R, L) => Listening(q2, G2, R2, L)
           /\ \A C : Queued(q, G, R, C) => Queued(q2, G2, R2, C)
<1>1. /\ Len(q) \in Nat \ {0} /\ Len(q2) = Len(q) - 1 /\ Len(q2) \in Nat /\ Len(q) = Len(q2) + 1
      /\ \A i \in 1..Len(q2) : q2[i] = q[i + 1] /\ i + 1 \in 1..Len(q)
  <2>1. /\ Len(q) \in Nat \ {0} /\ Len(q2) = Len(q) - 1
        /\ \A i \in 1..Len(q2) : q2[i] = q[i + 1] /\ i + 1 \in 1..Len(q)
    BY Taken
  <2> QED  BY <2>1
<1>2. Unique(q, G, R) /\ OpensDue(q, G, R)
  BY DEF Told
<1>3. ASSUME NEW i, NEW k, NEW t, Grants(q2, G2, i, k, t)
      PROVE  i \in Nat \ {0} /\ Grants(q, G, i + 1, k, t)
  <2>1. i \in Nat \ {0}
    BY <1>1, <1>3, GrantPlace
  <2> QED  BY <1>3, <2>1 DEF Shifts
<1>4. Unique(q2, G2, R2)
  <2>1. ASSUME NEW i, NEW j, NEW k, NEW t, NEW u,
               Grants(q2, G2, i, k, t), Grants(q2, G2, j, k, u)
        PROVE  i = j
    <3>1. /\ i \in Nat \ {0} /\ Grants(q, G, i + 1, k, t)
          /\ j \in Nat \ {0} /\ Grants(q, G, j + 1, k, u)
      BY <1>3, <2>1
    <3>2. i + 1 = j + 1
      BY <1>2, <3>1 DEF Unique
    <3> QED  BY <3>1, <3>2
  <2>2. ASSUME NEW i, NEW k, NEW t, Grants(q2, G2, i, k, t) PROVE k \notin DOMAIN R2
    <3>1. i \in Nat \ {0} /\ Grants(q, G, i + 1, k, t)
      BY <1>3, <2>2
    <3>2. k \notin DOMAIN R
      BY <1>2, <3>1 DEF Unique
    <3>3. ASSUME NEW k1, NEW t1, Grants(q, G, 1, k1, t1), Extends(R, R2, k1, t1)
          PROVE  k \notin DOMAIN R2
      <4>1. k # k1
        <5>1. SUFFICES ASSUME k = k1 PROVE FALSE
          OBVIOUS
        <5>2. i + 1 = 1
          BY <1>2, <3>1, <3>3, <5>1 DEF Unique
        <5> QED  BY <3>1, <5>2
      <4> QED  BY <3>2, <3>3, <4>1 DEF Extends
    <3> QED  BY <3>2, <3>3 DEF Handed
  <2> QED  BY <2>1, <2>2 DEF Unique
<1>5. ASSUME NEW k, NEW t, NEW n \in Nat, Due(q, G, R, k, t, n + 1) PROVE Due(q2, G2, R2, k, t, n)
  BY <1>2, <1>5, DueTaken
<1>6. OpensDue(q2, G2, R2)
  <2> SUFFICES ASSUME NEW i \in 1..Len(q2), IsForward(q2[i])
               PROVE  Due(q2, G2, R2, q2[i].open.key, q2[i].open.target, i - 1)
    BY DEF OpensDue
  <2> DEFINE n == i - 1
  <2>1. n \in Nat /\ (i + 1) - 1 = n + 1 /\ i + 1 \in 1..Len(q) /\ q2[i] = q[i + 1]
    BY <1>1
  <2>2. Due(q, G, R, q2[i].open.key, q2[i].open.target, (i + 1) - 1)
    BY <1>2, <2>1 DEF OpensDue
  <2>3. Due(q, G, R, q2[i].open.key, q2[i].open.target, n + 1)
    BY <2>1, <2>2
  <2> HIDE DEF n
  <2>4. Due(q2, G2, R2, q2[i].open.key, q2[i].open.target, n)
    BY <1>5, <2>1, <2>3
  <2> QED  BY <2>4 DEF n
<1>7. \A L : Backed(q, G, R, L) => Backed(q2, G2, R2, L)
  <2> SUFFICES ASSUME NEW L, Backed(q, G, R, L) PROVE Backed(q2, G2, R2, L)
    OBVIOUS
  <2>1. \A i, k, t : Grants(q2, G2, i, k, t) => \E l \in L : Echo(l) = k
    BY <1>3 DEF Backed
  <2>2. ASSUME NEW k \in DOMAIN R2 PROVE \E l \in L : Echo(l) = k
    <3>1. CASE k \in DOMAIN R
      BY <3>1 DEF Backed
    <3>2. CASE k \notin DOMAIN R
      <4>1. \E t : Grants(q, G, 1, k, t)
        BY <3>2 DEF Handed, Extends
      <4> QED  BY <4>1 DEF Backed
    <3> QED  BY <3>1, <3>2
  <2> QED  BY <2>1, <2>2 DEF Backed
<1>8. \A k, t : Due(q, G, R, k, t, Len(q)) => Due(q2, G2, R2, k, t, Len(q2))
  BY <1>1, <1>5
<1>9. \A L : Listening(q, G, R, L) => Listening(q2, G2, R2, L)
  BY <1>8 DEF Listening
<1>10. \A C : Queued(q, G, R, C) => Queued(q2, G2, R2, C)
  BY <1>8 DEF Queued
<1> QED  BY <1>4, <1>6, <1>7, <1>9, <1>10 DEF Told

-----------------------------------------------------------------------------
\* The requests without a reply are those replied to and those on the wire.
Matches(m, g) ==
    /\ g.kind = m.type
    /\ m.type = "tcpip-forward" => g.bind = m.bind /\ g.port = m.port /\ g.target = m.target
InStep(w, q, G) ==
    /\ Rank(q, Len(q), Reps) + Rank(w, Len(w), Asking) = Len(G)
    /\ \A i \in 1..Len(w) :
         w[i].type \in Asking => Matches(w[i], G[Rank(q, Len(q), Reps) + Rank(w, i, Asking)])

\* Rank and length of a queue.
LEMMA RankAll == ASSUME NEW q, Listed(q), NEW T PROVE Rank(q, Len(q), T) \in Nat /\ Len(q) \in Nat
BY RankNat DEF Listed

\* What is on the wire keeps its place when a packet is added.
Longer(w, w2) == Len(w) \in Nat /\ \A i \in 1..Len(w) : w2[i] = w[i]
\* Its rank is the same.
LEMMA RankSame ==
    ASSUME NEW w, NEW w2, Longer(w, w2), NEW i \in 1..Len(w), NEW T
    PROVE  Rank(w2, i, T) = Rank(w, i, T)
<1>1. \A j \in 1..i : w2[j] = w[j]
  BY DEF Longer
<1>2. Typed(w2, i, T) = Typed(w, i, T)
  BY <1>1 DEF Typed
<1> QED  BY <1>2 DEF Rank

\* A packet's rank is one of those there are.
LEMMA RankWithin ==
    ASSUME NEW w, NEW n \in Nat, NEW i \in 1..n, NEW T, w[i].type \in T
    PROVE  Rank(w, i, T) \in Nat \ {0} /\ Rank(w, i, T) <= Rank(w, n, T)
<1>1. Rank(w, i, T) \in Nat \ {0}
  <2>1. Counts(Rank(w, i - 1, T), Rank(w, i, T), w[i].type, T)
    BY RankNext
  <2>2. Rank(w, i - 1, T) \in Nat
    <3>1. i - 1 \in Nat
      OBVIOUS
    <3> QED  BY <3>1, RankNat
  <2> QED  BY <2>1, <2>2 DEF Counts
<1>2. IsFiniteSet(Typed(w, n, T)) /\ Typed(w, i, T) \in SUBSET Typed(w, n, T)
  <2>1. IsFiniteSet(1..n) /\ Typed(w, n, T) \in SUBSET (1..n)
    BY FS_Interval DEF Typed
  <2>2. \A j \in 1..i : j \in 1..n
    OBVIOUS
  <2> QED  BY <2>1, <2>2, FS_Subset DEF Typed
<1>3. Rank(w, i, T) <= Rank(w, n, T)
  BY <1>2, FS_Subset DEF Rank
<1> QED  BY <1>1, <1>3

\* The client sends something else ...
LEMMA StepSent ==
    ASSUME NEW w, Listed(w), NEW q, NEW G, InStep(w, q, G), NEW m, m.type \notin Asking,
           NEW w2, w2 = Append(w, m)
    PROVE  InStep(w2, q, G)
<1>1. /\ Len(w) \in Nat /\ Len(w2) = Len(w) + 1 /\ w2[Len(w) + 1] = m
      /\ \A i \in 1..Len(w) : w2[i] = w[i]
  BY Added
<1>0. Longer(w, w2)
  BY <1>1 DEF Longer
<1>2. Rank(w2, Len(w2), Asking) = Rank(w, Len(w), Asking)
  <2>1. Counts(Rank(w, Len(w), Asking), Rank(w2, Len(w2), Asking), m.type, Asking)
    BY RankAdded
  <2> QED  BY <2>1 DEF Counts
<1>3. ASSUME NEW i \in 1..Len(w2), w2[i].type \in Asking
      PROVE  Matches(w2[i], G[Rank(q, Len(q), Reps) + Rank(w2, i, Asking)])
  <2>1. i \in 1..Len(w)
    BY <1>1, <1>3
  <2>2. w2[i] = w[i] /\ Rank(w2, i, Asking) = Rank(w, i, Asking)
    BY <1>0, <1>1, <2>1, RankSame
  <2> QED  BY <1>3, <2>1, <2>2 DEF InStep
<1> QED  BY <1>2, <1>3 DEF InStep

\* ... or asks.
LEMMA StepAsked ==
    ASSUME NEW w, Listed(w), NEW q, Listed(q), NEW G, Listed(G), InStep(w, q, G),
           NEW m, m.type \in Asking, NEW w2, w2 = Append(w, m),
           NEW g, Matches(m, g), NEW G2, G2 = Append(G, g)
    PROVE  InStep(w2, q, G2)
<1>1. /\ Len(w) \in Nat /\ Len(w2) = Len(w) + 1 /\ w2[Len(w) + 1] = m
      /\ \A i \in 1..Len(w) : w2[i] = w[i]
  BY Added
<1>0. Longer(w, w2)
  BY <1>1 DEF Longer
<1>2. /\ Len(G) \in Nat /\ Len(G2) = Len(G) + 1 /\ G2[Len(G) + 1] = g
      /\ \A i \in 1..Len(G) : G2[i] = G[i]
  BY Added
<1> DEFINE a == Rank(q, Len(q), Reps)  b == Rank(w, Len(w), Asking)
           b2 == Rank(w2, Len(w2), Asking)
<1>3. b2 = b + 1
  <2>1. Counts(Rank(w, Len(w), Asking), Rank(w2, Len(w2), Asking), m.type, Asking)
    BY RankAdded
  <2> QED  BY <2>1 DEF Counts
<1>4. a \in Nat /\ b \in Nat /\ a + b = Len(G)
  BY RankAll DEF InStep
<1>5. ASSUME NEW i \in 1..Len(w2), w2[i].type \in Asking
      PROVE  Matches(w2[i], G2[a + Rank(w2, i, Asking)])
  <2>1. CASE i = Len(w2)
    <3>1. a + Rank(w2, i, Asking) = Len(G) + 1
      <4>1. Rank(w2, i, Asking) = b2
        BY <2>1
      <4> HIDE DEF a, b, b2
      <4> QED  BY <1>3, <1>4, <4>1, SMTT(60)
    <3> QED  BY <1>1, <1>2, <2>1, <3>1
  <2>2. CASE i # Len(w2)
    <3>1. i \in 1..Len(w)
      BY <1>1, <2>2
    <3>2. w2[i] = w[i] /\ Rank(w2, i, Asking) = Rank(w, i, Asking)
      BY <1>0, <1>1, <3>1, RankSame
    <3>3. Matches(w[i], G[a + Rank(w, i, Asking)])
      BY <1>5, <3>1, <3>2 DEF InStep
    <3>4. Rank(w, i, Asking) \in Nat \ {0} /\ Rank(w, i, Asking) <= b
      BY <1>1, <1>5, <3>1, <3>2, RankWithin
    <3>5. a + Rank(w, i, Asking) \in 1..Len(G)
      BY <1>4, <3>4
    <3> QED  BY <1>2, <3>2, <3>3, <3>5
  <2> QED  BY <2>1, <2>2
<1>6. a + b2 = Len(G2)
  BY <1>2, <1>3, <1>4
<1> QED  BY <1>5, <1>6 DEF InStep

\* Ranks when the first packet is taken.
LEMMA RankShift ==
    ASSUME NEW w, Listed(w), w # <<>>, NEW w2, w2 = Tail(w), NEW i \in 1..Len(w2), NEW T
    PROVE  Counts(Rank(w2, i, T), Rank(w, i + 1, T), Head(w).type, T)
<1> DEFINE n == i + 1
<1>1. n \in 1..Len(w) /\ n - 1 = i
  <2>1. Len(w) \in Nat \ {0} /\ Len(w2) = Len(w) - 1
    BY Taken
  <2> QED  BY <2>1
<1> HIDE DEF n
<1>2. Counts(Rank(w2, n - 1, T), Rank(w, n, T), Head(w).type, T)
  BY <1>1, RankTaken
<1> QED  BY <1>1, <1>2 DEF n

\* How many there are when the first packet is taken.
LEMMA RankLast ==
    ASSUME NEW w, Listed(w), w # <<>>, NEW w2, w2 = Tail(w), NEW T
    PROVE  Counts(Rank(w2, Len(w2), T), Rank(w, Len(w), T), Head(w).type, T)
<1> DEFINE n == Len(w)
<1>1. n \in 1..Len(w) /\ n - 1 = Len(w2)
  <2>1. Len(w) \in Nat \ {0} /\ Len(w2) = Len(w) - 1
    BY Taken
  <2> QED  BY <2>1
<1> HIDE DEF n
<1>2. Counts(Rank(w2, n - 1, T), Rank(w, n, T), Head(w).type, T)
  BY <1>1, RankTaken
<1> QED  BY <1>1, <1>2 DEF n

\* The server takes something else ...
LEMMA StepTaken ==
    ASSUME NEW w, Listed(w), w # <<>>, NEW q, NEW G, InStep(w, q, G),
           Head(w).type \notin Asking, NEW w2, w2 = Tail(w)
    PROVE  InStep(w2, q, G)
<1>1. \A i \in 1..Len(w2) : w2[i] = w[i + 1] /\ i + 1 \in 1..Len(w)
  BY Taken
<1>2. Rank(w2, Len(w2), Asking) = Rank(w, Len(w), Asking)
  <2>1. Counts(Rank(w2, Len(w2), Asking), Rank(w, Len(w), Asking), Head(w).type, Asking)
    BY RankLast
  <2> QED  BY <2>1 DEF Counts
<1>3. ASSUME NEW i \in 1..Len(w2), w2[i].type \in Asking
      PROVE  Matches(w2[i], G[Rank(q, Len(q), Reps) + Rank(w2, i, Asking)])
  <2>1. Counts(Rank(w2, i, Asking), Rank(w, i + 1, Asking), Head(w).type, Asking)
    BY RankShift
  <2>2. Rank(w2, i, Asking) = Rank(w, i + 1, Asking)
    BY <2>1 DEF Counts
  <2> QED  BY <1>1, <1>3, <2>2 DEF InStep
<1> QED  BY <1>2, <1>3 DEF InStep

\* ... or a request, and answers it.
LEMMA StepNext ==
    ASSUME NEW w, Listed(w), w # <<>>, NEW q, Listed(q), NEW G, InStep(w, q, G), Listed(G),
           Head(w).type \in Asking, NEW r, r = Rank(q, Len(q), Reps) + 1
    PROVE  r \in 1..Len(G) /\ Matches(Head(w), G[r])
<1>1. Len(w) \in Nat \ {0} /\ Head(w) = w[1]
  BY Taken
<1>2. Rank(w, 1, Asking) = 1
  <2>1. Counts(Rank(w, 1 - 1, Asking), Rank(w, 1, Asking), w[1].type, Asking)
    BY RankNext
  <2>2. Rank(w, 1 - 1, Asking) = 0
    BY RankNone
  <2> QED  BY <1>1, <2>1, <2>2 DEF Counts
<1>3. 1 <= Rank(w, Len(w), Asking)
  <2>1. Len(w) \in Nat /\ 1 \in 1..Len(w) /\ w[1].type \in Asking
    BY <1>1
  <2>2. Rank(w, 1, Asking) <= Rank(w, Len(w), Asking)
    BY <2>1, RankWithin
  <2> QED  BY <1>2, <2>2
<1>4. Rank(q, Len(q), Reps) \in Nat /\ Rank(w, Len(w), Asking) \in Nat
      /\ Rank(q, Len(q), Reps) + Rank(w, Len(w), Asking) = Len(G)
  BY RankAll DEF InStep
<1>5. r \in 1..Len(G)
  BY <1>3, <1>4
<1>6. Matches(w[1], G[Rank(q, Len(q), Reps) + Rank(w, 1, Asking)])
  BY <1>1 DEF InStep
<1> QED  BY <1>1, <1>2, <1>5, <1>6

\* With its reply on the wire the request counts as replied to.
LEMMA StepReplied ==
    ASSUME NEW w, Listed(w), w # <<>>, NEW q, Listed(q), NEW G, InStep(w, q, G),
           Head(w).type \in Asking, NEW w2, w2 = Tail(w),
           NEW m, m.type \in Reps, NEW q2, q2 = Append(q, m)
    PROVE  InStep(w2, q2, G)
<1>1. (\A i \in 1..Len(w2) : w2[i] = w[i + 1] /\ i + 1 \in 1..Len(w)) /\ Len(w2) \in Nat
  <2>1. /\ Len(w) \in Nat \ {0} /\ Len(w2) = Len(w) - 1
        /\ \A i \in 1..Len(w2) : w2[i] = w[i + 1] /\ i + 1 \in 1..Len(w)
    BY Taken
  <2> QED  BY <2>1
<1> DEFINE a == Rank(q, Len(q), Reps)  a2 == Rank(q2, Len(q2), Reps)
<1>2. Rank(w, Len(w), Asking) = Rank(w2, Len(w2), Asking) + 1
  <2>1. Counts(Rank(w2, Len(w2), Asking), Rank(w, Len(w), Asking), Head(w).type, Asking)
    BY RankLast
  <2> QED  BY <2>1 DEF Counts
<1>3. a2 = a + 1 /\ a \in Nat
  <2>1. Counts(Rank(q, Len(q), Reps), Rank(q2, Len(q2), Reps), m.type, Reps)
    BY RankAdded
  <2> QED  BY <2>1, RankAll DEF Counts
<1>4. a + Rank(w, Len(w), Asking) = Len(G)
  BY DEF InStep
<1>5. Rank(w2, Len(w2), Asking) \in Nat
  BY <1>1, RankNat
<1>6. ASSUME NEW i \in 1..Len(w2), w2[i].type \in Asking
      PROVE  Matches(w2[i], G[a2 + Rank(w2, i, Asking)])
  <2>1. Counts(Rank(w2, i, Asking), Rank(w, i + 1, Asking), Head(w).type, Asking)
    BY RankShift
  <2>2. Rank(w, i + 1, Asking) = Rank(w2, i, Asking) + 1
    BY <2>1 DEF Counts
  <2>3. Rank(w2, i, Asking) \in Nat
    <3>1. i \in Nat
      BY <1>1
    <3> QED  BY <3>1, RankNat
  <2>4. a2 + Rank(w2, i, Asking) = a + Rank(w, i + 1, Asking)
    BY <1>3, <2>2, <2>3
  <2>5. Matches(w[i + 1], G[a + Rank(w, i + 1, Asking)])
    BY <1>1, <1>6 DEF InStep
  <2> HIDE DEF a, a2
  <2> QED  BY <1>1, <2>4, <2>5
<1>7. a2 + Rank(w2, Len(w2), Asking) = Len(G)
  BY <1>2, <1>3, <1>4, <1>5
<1> QED  BY <1>6, <1>7 DEF InStep

\* A packet of the server that is no reply, and one taken by the client.
LEMMA StepOther ==
    ASSUME NEW w, NEW q, Listed(q), NEW G, InStep(w, q, G),
           NEW m, m.type \notin Reps, NEW q2, q2 = Append(q, m)
    PROVE  InStep(w, q2, G)
<1>1. Counts(Rank(q, Len(q), Reps), Rank(q2, Len(q2), Reps), m.type, Reps)
  BY RankAdded
<1>2. Rank(q2, Len(q2), Reps) = Rank(q, Len(q), Reps)
  BY <1>1 DEF Counts
<1> QED  BY <1>2 DEF InStep

\* The client reads a packet that is no reply ...
LEMMA StepSkipped ==
    ASSUME NEW w, NEW q, Listed(q), q # <<>>, NEW G, InStep(w, q, G),
           Head(q).type \notin Reps, NEW q2, q2 = Tail(q)
    PROVE  InStep(w, q2, G)
<1>1. Counts(Rank(q2, Len(q2), Reps), Rank(q, Len(q), Reps), Head(q).type, Reps)
  BY RankLast
<1>2. Rank(q2, Len(q2), Reps) = Rank(q, Len(q), Reps)
  BY <1>1 DEF Counts
<1> QED  BY <1>2 DEF InStep

\* ... or a reply, and forgets the request.
LEMMA StepAnswered ==
    ASSUME NEW w, Listed(w), NEW q, Listed(q), q # <<>>, NEW G, Listed(G), G # <<>>,
           InStep(w, q, G), Head(q).type \in Reps, NEW q2, q2 = Tail(q), NEW G2, G2 = Tail(G)
    PROVE  InStep(w, q2, G2)
<1>1. /\ Len(G) \in Nat \ {0} /\ Len(G2) = Len(G) - 1
      /\ \A i \in 1..Len(G2) : G2[i] = G[i + 1] /\ i + 1 \in 1..Len(G)
  BY Taken
<1> DEFINE a == Rank(q, Len(q), Reps)  a2 == Rank(q2, Len(q2), Reps)
           b == Rank(w, Len(w), Asking)
<1>2. a = a2 + 1 /\ a2 \in Nat
  <2>1. Counts(Rank(q2, Len(q2), Reps), Rank(q, Len(q), Reps), Head(q).type, Reps)
    BY RankLast
  <2>2. Listed(q2)
    BY Taken
  <2>3. Rank(q2, Len(q2), Reps) \in Nat
    BY <2>2, RankAll
  <2> QED  BY <2>1, <2>3 DEF Counts
<1>3. a + b = Len(G) /\ b \in Nat /\ Len(w) \in Nat
  BY RankAll DEF InStep
<1>4. ASSUME NEW i \in 1..Len(w), w[i].type \in Asking
      PROVE  Matches(w[i], G2[a2 + Rank(w, i, Asking)])
  <2> DEFINE c == Rank(w, i, Asking)
  <2>1. Matches(w[i], G[a + c])
    BY <1>4 DEF InStep
  <2>2. c \in Nat \ {0} /\ c <= b
    BY <1>3, <1>4, RankWithin
  <2> HIDE DEF a, a2, b, c
  <2>3. a2 + c \in 1..Len(G2) /\ (a2 + c) + 1 = a + c
    BY <1>1, <1>2, <1>3, <2>2
  <2>4. G2[a2 + c] = G[a + c]
    BY <1>1, <2>3
  <2>5. Matches(w[i], G2[a2 + c])
    BY <2>1, <2>4
  <2> QED  BY <2>5 DEF a2, c
<1>5. a2 + b = Len(G2)
  BY <1>1, <1>2, <1>3
<1> QED  BY <1>4, <1>5 DEF InStep

-----------------------------------------------------------------------------
\* At most two packets are added to a wire, none of the types T; one that is
\* not of these types may be taken.
Adds(w, w2, T) ==
    \/ w2 = w
    \/ \E m : m.type \notin T /\ w2 = Append(w, m)
    \/ \E m, n : m.type \notin T /\ n.type \notin T /\ w2 = Append(Append(w, m), n)
Drops(w, w2, T) == w2 = w \/ (w # <<>> /\ Head(w).type \notin T /\ w2 = Tail(w))

\* Less is excluded by fewer types, ...
LEMMA AddsFewer ==
    ASSUME NEW w, NEW w2, NEW T, NEW S \in SUBSET T, Adds(w, w2, T) PROVE Adds(w, w2, S)
BY DEF Adds

\* ... for packets sent and for packets read.
LEMMA DropsFewer ==
    ASSUME NEW w, NEW w2, NEW T, NEW S \in SUBSET T, Drops(w, w2, T) PROVE Drops(w, w2, S)
BY DEF Drops

\* What the two ends know of the forwards, with both running.
View(w, q, G, R, L, C) ==
    InStep(w, q, G) /\ Backed(q, G, R, L) /\ Listening(q, G, R, L) /\ Queued(q, G, R, C)

\* A packet of the server that is neither a reply nor an open.
Unrelated == Reps \cup {"open"}
\* It leaves what the two ends know of the forwards.
LEMMA OtherAdded ==
    ASSUME NEW q, Listed(q), NEW G, NEW R, Told(q, G, R), NEW m, m.type \notin Reps,
           IsForward(m) => Due(q, G, R, m.open.key, m.open.target, Len(q)),
           NEW q2, q2 = Append(q, m)
    PROVE  /\ Told(q2, G, R) /\ Listed(q2)
           /\ \A w, L, C : View(w, q, G, R, L, C) => View(w, q2, G, R, L, C)
<1> DEFINE r == Rank(q, Len(q), Reps) + 1
<1>0. r = Rank(q, Len(q), Reps) + 1
  OBVIOUS
<1> HIDE DEF r
<1>1. Fits(m, G, r) /\ Replied(q, G)
  BY DEF Fits, Told
<1>2. Replied(q2, G) /\ Last(q2, G, m, r)
  BY <1>0, <1>1, GrantSent
<1>3. \A k, t : ~Grants(q2, G, Len(q2), k, t)
  BY <1>2 DEF Reps, Last
<1>4. NewGrant(q, G, R, q2)
  BY <1>3 DEF NewGrant
<1>5. Told(q2, G, R)
  BY <1>2, <1>4, ToldAdded
<1>6. /\ Listed(q2) /\ Len(q) \in Nat /\ Len(q2) = Len(q) + 1
  BY Added
<1>7. \A i, k, t : Grants(q2, G, i, k, t) => Grants(q, G, i, k, t)
  <2>1. Keeps(q, G, q2, G, Len(q))
    BY GrantKept
  <2> SUFFICES ASSUME NEW i, NEW k, NEW t, Grants(q2, G, i, k, t) PROVE Grants(q, G, i, k, t)
    OBVIOUS
  <2>2. i \in 1..Len(q2) /\ i # Len(q2)
    BY <1>3, GrantPlace
  <2>3. i \in 1..Len(q)
    BY <1>6, <2>2
  <2> QED  BY <2>1, <2>3 DEF Keeps
<1>8. \A L : Backed(q, G, R, L) => Backed(q2, G, R, L)
  BY <1>7 DEF Backed
<1>9. (\A L : Listening(q, G, R, L) => Listening(q2, G, R, L))
      /\ \A C : Queued(q, G, R, C) => Queued(q2, G, R, C)
  BY KnownAdded
<1>10. \A w : InStep(w, q, G) => InStep(w, q2, G)
  BY StepOther
<1> QED  BY <1>5, <1>6, <1>8, <1>9, <1>10 DEF View

\* So do two of them.
LEMMA ServerAdds ==
    ASSUME NEW q, Listed(q), NEW G, NEW R, Told(q, G, R), NEW q2, Adds(q, q2, Unrelated)
    PROVE  /\ Told(q2, G, R) /\ Listed(q2)
           /\ \A w, L, C : View(w, q, G, R, L, C) => View(w, q2, G, R, L, C)
<1>1. \A m : m.type \notin Unrelated => m.type \notin Reps /\ ~IsForward(m)
  BY DEF Unrelated, IsForward
<1>2. CASE q2 = q
  BY <1>2
<1>3. ASSUME NEW m, m.type \notin Unrelated, q2 = Append(q, m)
      PROVE  /\ Told(q2, G, R) /\ Listed(q2)
             /\ \A w, L, C : View(w, q, G, R, L, C) => View(w, q2, G, R, L, C)
  <2>1. m.type \notin Reps /\ ~IsForward(m)
    BY <1>1, <1>3
  <2> QED  BY <1>3, <2>1, OtherAdded
<1>4. ASSUME NEW m, NEW n, m.type \notin Unrelated, n.type \notin Unrelated,
             q2 = Append(Append(q, m), n)
      PROVE  /\ Told(q2, G, R) /\ Listed(q2)
             /\ \A w, L, C : View(w, q, G, R, L, C) => View(w, q2, G, R, L, C)
  <2> DEFINE r == Append(q, m)
  <2>1. m.type \notin Reps /\ ~IsForward(m) /\ n.type \notin Reps /\ ~IsForward(n)
    BY <1>1, <1>4
  <2>2. /\ Told(r, G, R) /\ Listed(r)
        /\ \A w, L, C : View(w, q, G, R, L, C) => View(w, r, G, R, L, C)
    BY <2>1, OtherAdded
  <2>3. q2 = Append(r, n)
    BY <1>4
  <2> HIDE DEF r
  <2>4. /\ Told(q2, G, R) /\ Listed(q2)
        /\ \A w, L, C : View(w, r, G, R, L, C) => View(w, q2, G, R, L, C)
    BY <2>1, <2>2, <2>3, OtherAdded
  <2> QED  BY <2>2, <2>4
<1> QED  BY <1>2, <1>3, <1>4 DEF Adds

\* The client's packets other than requests.
LEMMA ClientAdds ==
    ASSUME NEW w, Listed(w), NEW w2, Adds(w, w2, Asking)
    PROVE  \A q, G, R, L, C : View(w, q, G, R, L, C) => View(w2, q, G, R, L, C)
<1>1. CASE w2 = w
  BY <1>1
<1>2. ASSUME NEW m, m.type \notin Asking, w2 = Append(w, m)
      PROVE  \A q, G, R, L, C : View(w, q, G, R, L, C) => View(w2, q, G, R, L, C)
  <2>1. \A q, G : InStep(w, q, G) => InStep(w2, q, G)
    BY <1>2, StepSent
  <2> QED  BY <2>1 DEF View
<1>3. ASSUME NEW m, NEW n, m.type \notin Asking, n.type \notin Asking,
             w2 = Append(Append(w, m), n)
      PROVE  \A q, G, R, L, C : View(w, q, G, R, L, C) => View(w2, q, G, R, L, C)
  <2> DEFINE r == Append(w, m)
  <2>1. Listed(r) /\ w2 = Append(r, n)
    BY <1>3, Added
  <2>2. \A q, G : InStep(w, q, G) => InStep(r, q, G)
    BY <1>3, StepSent
  <2> HIDE DEF r
  <2>3. \A q, G : InStep(r, q, G) => InStep(w2, q, G)
    BY <1>3, <2>1, StepSent
  <2> QED  BY <2>2, <2>3 DEF View
<1> QED  BY <1>1, <1>2, <1>3 DEF Adds

\* Taking a packet that is not a request, or not a reply.
LEMMA ServerDrops ==
    ASSUME NEW w, Listed(w), NEW w2, Drops(w, w2, Asking)
    PROVE  \A q, G, R, L, C : View(w, q, G, R, L, C) => View(w2, q, G, R, L, C)
<1>1. CASE w2 = w
  BY <1>1
<1>2. CASE w # <<>> /\ Head(w).type \notin Asking /\ w2 = Tail(w)
  <2>1. \A q, G : InStep(w, q, G) => InStep(w2, q, G)
    BY <1>2, StepTaken
  <2> QED  BY <2>1 DEF View
<1> QED  BY <1>1, <1>2 DEF Drops

\* The client reads a packet that is no reply.
LEMMA ClientDrops ==
    ASSUME NEW q, Listed(q), NEW G, NEW R, Told(q, G, R), NEW q2, Drops(q, q2, Reps)
    PROVE  /\ Told(q2, G, R)
           /\ \A w, L, C : View(w, q, G, R, L, C) => View(w, q2, G, R, L, C)
<1>1. CASE q2 = q
  BY <1>1
<1>2. CASE q # <<>> /\ Head(q).type \notin Reps /\ q2 = Tail(q)
  <2>1. Replied(q, G)
    BY DEF Told
  <2>2. Replied(q2, G) /\ Shifts(q, G, q2, G) /\ \A k, t : ~Grants(q, G, 1, k, t)
    BY <1>2, <2>1, GrantTaken
  <2>3. Handed(q, G, R, R)
    BY <2>2 DEF Handed
  <2>4. /\ Told(q2, G, R)
        /\ \A L : Backed(q, G, R, L) => Backed(q2, G, R, L)
        /\ \A L : Listening(q, G, R, L) => Listening(q2, G, R, L)
        /\ \A C : Queued(q, G, R, C) => Queued(q2, G, R, C)
    BY <1>2, <2>2, <2>3, ToldTaken
  <2>5. \A w : InStep(w, q, G) => InStep(w, q2, G)
    BY <1>2, StepSkipped
  <2> QED  BY <2>4, <2>5 DEF View
<1> QED  BY <1>1, <1>2 DEF Drops

\* A reply is taken, with its request, and registers what it grants.
LEMMA ClientAnswered ==
    ASSUME NEW q, Listed(q), q # <<>>, NEW G, Listed(G), NEW R, Told(q, G, R),
           Head(q).type \in Reps, NEW q2, q2 = Tail(q), NEW G2, G2 = Tail(G), NEW R2,
           Head(q).type = "success" /\ Head(G).kind = "tcpip-forward" =>
               Extends(R, R2, Key(Head(G), Head(q)), Head(G).target),
           Head(q).type # "success" => R2 = R
    PROVE  /\ G # <<>> /\ Told(q2, G2, R2)
           /\ \A w, L, C : Listed(w) /\ View(w, q, G, R, L, C) => View(w, q2, G2, R2, L, C)
<1>1. Replied(q, G)
  BY DEF Told
<1>2. /\ G # <<>> /\ Replied(q2, G2) /\ Shifts(q, G, q2, G2)
      /\ Head(q).type = "success" => Head(G).kind = "tcpip-forward"
      /\ \A k, t : Grants(q, G, 1, k, t) <=>
            Head(q).type = "success" /\ k = Key(Head(G), Head(q)) /\ t = Head(G).target
  BY <1>1, GrantAnswered
<1>3. Handed(q, G, R, R2)
  <2>1. CASE Head(q).type = "success"
    <3>1. Extends(R, R2, Key(Head(G), Head(q)), Head(G).target)
      BY <1>2, <2>1
    <3>2. Grants(q, G, 1, Key(Head(G), Head(q)), Head(G).target)
      BY <1>2, <2>1
    <3> QED  BY <3>1, <3>2 DEF Handed
  <2>2. CASE Head(q).type # "success"
    BY <1>2, <2>2 DEF Handed
  <2> QED  BY <2>1, <2>2
<1>4. /\ Told(q2, G2, R2)
      /\ \A L : Backed(q, G, R, L) => Backed(q2, G2, R2, L)
      /\ \A L : Listening(q, G, R, L) => Listening(q2, G2, R2, L)
      /\ \A C : Queued(q, G, R, C) => Queued(q2, G2, R2, C)
  BY <1>2, <1>3, ToldTaken
<1>5. \A w : Listed(w) /\ InStep(w, q, G) => InStep(w, q2, G2)
  BY <1>2, StepAnswered
<1> QED  BY <1>2, <1>4, <1>5 DEF View

\* A request more.
LEMMA ClientAsked ==
    ASSUME NEW q, Listed(q), NEW G, Listed(G), NEW R, Told(q, G, R), NEW w, Listed(w),
           NEW m, m.type \in Asking, NEW g, Matches(m, g),
           NEW w2, w2 = Append(w, m), NEW G2, G2 = Append(G, g)
    PROVE  /\ Told(q, G2, R)
           /\ \A L, C : View(w, q, G, R, L, C) => View(w2, q, G2, R, L, C)
<1>1. /\ Told(q, G2, R)
      /\ \A L : Backed(q, G, R, L) => Backed(q, G2, R, L)
      /\ \A L : Listening(q, G, R, L) => Listening(q, G2, R, L)
      /\ \A C : Queued(q, G, R, C) => Queued(q, G2, R, C)
  BY ToldAsked
<1>2. InStep(w, q, G) => InStep(w2, q, G2)
  BY StepAsked
<1> QED  BY <1>1, <1>2 DEF View

\* The server answers a request: it refuses ...
LEMMA ServerRefused ==
    ASSUME NEW q, Listed(q), NEW G, Listed(G), NEW R, Told(q, G, R),
           NEW w, Listed(w), w # <<>>, Head(w).type \in Asking, NEW w2, w2 = Tail(w),
           NEW L, NEW C, View(w, q, G, R, L, C),
           NEW m, m.type = "refused", NEW q2, q2 = Append(q, m)
    PROVE  Told(q2, G, R) /\ View(w2, q2, G, R, L, C)
<1> DEFINE r == Rank(q, Len(q), Reps) + 1
<1>0. r = Rank(q, Len(q), Reps) + 1
  OBVIOUS
<1> HIDE DEF r
<1>1. InStep(w, q, G) /\ Backed(q, G, R, L) /\ Listening(q, G, R, L) /\ Queued(q, G, R, C)
  BY DEF View
<1>2. r \in 1..Len(G)
  BY <1>0, <1>1, StepNext
<1>3. Fits(m, G, r) /\ Replied(q, G) /\ m.type \in Reps /\ ~IsForward(m)
  BY <1>2 DEF Fits, Told, Reps, IsForward
<1>4. Replied(q2, G) /\ Last(q2, G, m, r)
  BY <1>0, <1>3, GrantSent
<1>5. \A k, t : ~Grants(q2, G, Len(q2), k, t)
  BY <1>4 DEF Last
<1>6. NewGrant(q, G, R, q2)
  BY <1>5 DEF NewGrant
<1>7. Told(q2, G, R)
  BY <1>3, <1>4, <1>6, ToldAdded
<1>8. Len(q) \in Nat /\ Len(q2) = Len(q) + 1
  BY Added
<1>9. \A i, k, t : Grants(q2, G, i, k, t) => Grants(q, G, i, k, t)
  <2>1. Keeps(q, G, q2, G, Len(q))
    BY GrantKept
  <2> SUFFICES ASSUME NEW i, NEW k, NEW t, Grants(q2, G, i, k, t) PROVE Grants(q, G, i, k, t)
    OBVIOUS
  <2>2. i \in 1..Len(q2) /\ i # Len(q2)
    BY <1>5, GrantPlace
  <2>3. i \in 1..Len(q)
    BY <1>8, <2>2
  <2> QED  BY <2>1, <2>3 DEF Keeps
<1>10. Backed(q2, G, R, L)
  BY <1>1, <1>9 DEF Backed
<1>11. Listening(q2, G, R, L) /\ Queued(q2, G, R, C)
  BY <1>1, KnownAdded
<1>12. InStep(w2, q2, G)
  BY <1>1, <1>3, StepReplied
<1> QED  BY <1>7, <1>10, <1>11, <1>12 DEF View

\* ... or it listens, on an address and port that no listener has.
LEMMA ServerGranted ==
    ASSUME NEW q, Listed(q), NEW G, Listed(G), NEW R, Told(q, G, R),
           NEW w, Listed(w), w # <<>>, Head(w).type = "tcpip-forward", NEW w2, w2 = Tail(w),
           NEW L, NEW C, View(w, q, G, R, L, C),
           NEW l, \A h \in L : Echo(h) # Echo(l), l.addr = Normalize(l.bind),
           NEW m, m.type = "success", Key(Head(w), m) = Echo(l), l.target = Head(w).target,
           NEW q2, q2 = Append(q, m), NEW L2, L2 = L \cup {l}
    PROVE  Told(q2, G, R) /\ View(w2, q2, G, R, L2, C)
<1> DEFINE r == Rank(q, Len(q), Reps) + 1
<1>0. r = Rank(q, Len(q), Reps) + 1
  OBVIOUS
<1> HIDE DEF r
<1>1. InStep(w, q, G) /\ Backed(q, G, R, L) /\ Listening(q, G, R, L) /\ Queued(q, G, R, C)
  BY DEF View
<1>2. r \in 1..Len(G) /\ Matches(Head(w), G[r]) /\ Head(w).type \in Asking
  <2>1. Head(w).type \in Asking
    BY DEF Asking
  <2> QED  BY <1>0, <1>1, <2>1, StepNext
<1>3. /\ G[r].kind = "tcpip-forward" /\ G[r].target = l.target
      /\ Key(G[r], m) = Echo(l)
  BY <1>2 DEF Matches, Key
<1>4. Fits(m, G, r) /\ Replied(q, G) /\ m.type \in Reps /\ ~IsForward(m)
  BY <1>2, <1>3 DEF Fits, Told, Reps, IsForward
<1>5. Replied(q2, G) /\ Last(q2, G, m, r)
  BY <1>0, <1>4, GrantSent
<1>6. \A k, t : Grants(q2, G, Len(q2), k, t) <=> k = Echo(l) /\ t = l.target
  BY <1>3, <1>5 DEF Last
<1>7. NewGrant(q, G, R, q2)
  BY <1>1, <1>6 DEF NewGrant, Backed
<1>8. Told(q2, G, R)
  BY <1>4, <1>5, <1>7, ToldAdded
<1>9. Len(q) \in Nat /\ Len(q2) = Len(q) + 1
  BY Added
<1>10. ASSUME NEW i, NEW k, NEW t, Grants(q2, G, i, k, t) PROVE \E h \in L2 : Echo(h) = k
  <2>1. Keeps(q, G, q2, G, Len(q))
    BY GrantKept
  <2>2. CASE i = Len(q2)
    BY <1>6, <1>10, <2>2
  <2>3. CASE i # Len(q2)
    <3>1. i \in 1..Len(q2)
      BY <1>10, GrantPlace
    <3>2. i \in 1..Len(q)
      BY <1>9, <2>3, <3>1
    <3>3. Grants(q, G, i, k, t)
      BY <1>10, <2>1, <3>2 DEF Keeps
    <3> QED  BY <1>1, <3>3 DEF Backed
  <2> QED  BY <2>2, <2>3
<1>11. Backed(q2, G, R, L2)
  <2>1. \A k \in DOMAIN R : \E h \in L2 : Echo(h) = k
    BY <1>1 DEF Backed
  <2> QED  BY <1>10, <2>1 DEF Backed
<1>12. Listening(q2, G, R, L) /\ Queued(q2, G, R, C)
  BY <1>1, KnownAdded
<1>13. Listening(q2, G, R, L2)
  <2>1. Grants(q2, G, Len(q2), Echo(l), l.target) /\ Len(q2) \in 1..Len(q2)
    BY <1>6, <1>9
  <2>2. Due(q2, G, R, Echo(l), l.target, Len(q2))
    BY <2>1 DEF Due
  <2> QED  BY <1>12, <2>2 DEF Listening
<1>14. InStep(w2, q2, G)
  BY <1>1, <1>2, <1>4, StepReplied
<1> QED  BY <1>8, <1>11, <1>12, <1>13, <1>14 DEF View

\* An acceptor queues an open, due when it is for a forward.
LEMMA ServerQueued ==
    ASSUME NEW C, Listed(C), NEW c, NEW C2, C2 = Append(C, c),
           NEW w, NEW q, NEW G, NEW R, NEW L, View(w, q, G, R, L, C),
           c.kind = "forwarded" => Due(q, G, R, c.key, c.target, Len(q))
    PROVE  View(w, q, G, R, L, C2)
<1>1. /\ Len(C) \in Nat /\ Len(C2) = Len(C) + 1 /\ C2[Len(C) + 1] = c
      /\ \A i \in 1..Len(C) : C2[i] = C[i]
  BY Added
<1>2. Queued(q, G, R, C2)
  <2> SUFFICES ASSUME NEW i \in 1..Len(C2), C2[i].kind = "forwarded"
               PROVE  Due(q, G, R, C2[i].key, C2[i].target, Len(q))
    BY DEF Queued
  <2>1. CASE i = Len(C) + 1
    BY <1>1, <2>1
  <2>2. CASE i # Len(C) + 1
    <3>1. i \in 1..Len(C) /\ C2[i] = C[i]
      BY <1>1, <2>2
    <3> QED  BY <3>1 DEF View, Queued
  <2> QED  BY <2>1, <2>2
<1> QED  BY <1>2 DEF View

\* The loop takes it.
LEMMA ServerDequeued ==
    ASSUME NEW C, Listed(C), C # <<>>, NEW C2, C2 = Tail(C),
           NEW w, NEW q, NEW G, NEW R, NEW L, View(w, q, G, R, L, C)
    PROVE  /\ View(w, q, G, R, L, C2)
           /\ Head(C).kind = "forwarded" =>
                 Due(q, G, R, Head(C).key, Head(C).target, Len(q))
<1>1. /\ Len(C) \in Nat \ {0} /\ Len(C2) = Len(C) - 1 /\ Head(C) = C[1]
      /\ \A i \in 1..Len(C2) : C2[i] = C[i + 1] /\ i + 1 \in 1..Len(C)
  BY Taken
<1>2. Queued(q, G, R, C)
  BY DEF View
<1>3. Queued(q, G, R, C2)
  BY <1>1, <1>2 DEF Queued
<1>4. Head(C).kind = "forwarded" => Due(q, G, R, Head(C).key, Head(C).target, Len(q))
  BY <1>1, <1>2 DEF Queued
<1> QED  BY <1>3, <1>4 DEF View

-----------------------------------------------------------------------------
\* Only the client asks for forwards, and no one cancels.
Only(q, K) == \A i \in 1..Len(q) : q[i].kind \in K
NoCancel(q) == \A i \in 1..Len(q) : q[i].type # "cancel"
Kinds ==
    /\ pending_global = [f \in End |-> pending_global[f]]
    /\ \A f \in End : Listed(pending_global[f])
    /\ Only(pending_global["server"], {"keepalive"})
    /\ Only(cmds["server"], {"forwarded", "agent"})
    /\ scenario.cancels = {} => NoCancel(wire["client"])

\* The forwards, as long as the client runs.
Fwd ==
    scenario.cancels = {} /\ Running("client") =>
        /\ Told(wire["server"], pending_global["client"], remote_forwards)
        /\ Running("server") =>
              View(wire["client"], wire["server"], pending_global["client"],
                   remote_forwards, live, cmds["server"])

\* Queueing a command of these kinds ...
LEMMA OnlyAdded ==
    ASSUME NEW q, Listed(q), NEW K, Only(q, K), NEW m, m.kind \in K, NEW q2, q2 = Append(q, m)
    PROVE  Only(q2, K)
<1>1. /\ Len(q) \in Nat /\ Len(q2) = Len(q) + 1 /\ q2[Len(q) + 1] = m
      /\ \A i \in 1..Len(q) : q2[i] = q[i]
  BY Added
<1>2. \A i \in 1..Len(q2) : i = Len(q) + 1 \/ i \in 1..Len(q)
  BY <1>1
<1> QED  BY <1>1, <1>2 DEF Only

\* ... and taking one.
LEMMA OnlyTaken ==
    ASSUME NEW q, Listed(q), q # <<>>, NEW K, Only(q, K), NEW q2, q2 = Tail(q)
    PROVE  Only(q2, K) /\ Head(q).kind \in K
<1>1. /\ Len(q) \in Nat \ {0} /\ Head(q) = q[1]
      /\ \A i \in 1..Len(q2) : q2[i] = q[i + 1] /\ i + 1 \in 1..Len(q)
  BY Taken
<1> QED  BY <1>1 DEF Only

\* A wire without a cancel stays one when another packet is sent, ...
LEMMA NoCancelSent ==
    ASSUME NEW q, Listed(q), NoCancel(q), NEW m, m.type # "cancel", NEW q2, q2 = Append(q, m)
    PROVE  NoCancel(q2) /\ Listed(q2)
<1>0. Listed(q2)
  BY Added
<1>1. /\ Len(q) \in Nat /\ Len(q2) = Len(q) + 1 /\ q2[Len(q) + 1] = m
      /\ \A i \in 1..Len(q) : q2[i] = q[i]
  BY Added
<1>2. \A i \in 1..Len(q2) : i = Len(q) + 1 \/ i \in 1..Len(q)
  BY <1>1
<1> QED  BY <1>0, <1>1, <1>2 DEF NoCancel

\* ... or two, ...
LEMMA NoCancelAdds ==
    ASSUME NEW q, Listed(q), NoCancel(q), NEW T, "cancel" \in T, NEW q2, Adds(q, q2, T)
    PROVE  NoCancel(q2)
<1>1. CASE q2 = q
  BY <1>1
<1>2. ASSUME NEW m, m.type \notin T, q2 = Append(q, m) PROVE NoCancel(q2)
  BY <1>2, NoCancelSent
<1>3. ASSUME NEW m, NEW n, m.type \notin T, n.type \notin T, q2 = Append(Append(q, m), n)
      PROVE  NoCancel(q2)
  <2> DEFINE r == Append(q, m)
  <2>1. m.type # "cancel" /\ n.type # "cancel" /\ q2 = Append(r, n)
    BY <1>3
  <2>2. NoCancel(r) /\ Listed(r)
    BY <2>1, NoCancelSent
  <2> HIDE DEF r
  <2> QED  BY <2>1, <2>2, NoCancelSent
<1> QED  BY <1>1, <1>2, <1>3 DEF Adds

\* ... or when one is read.
LEMMA NoCancelTaken ==
    ASSUME NEW q, Listed(q), q # <<>>, NoCancel(q), NEW q2, q2 = Tail(q)
    PROVE  NoCancel(q2) /\ Head(q).type # "cancel"
<1>1. /\ Len(q) \in Nat \ {0} /\ Head(q) = q[1]
      /\ \A i \in 1..Len(q2) : q2[i] = q[i + 1] /\ i + 1 \in 1..Len(q)
  BY Taken
<1> QED  BY <1>1 DEF NoCancel

\* The handlers that have to do with channels only.
Routine(e) ==
    \/ OnConnected(e) \/ OnChannelOpen(e) \/ OnOpenConfirm(e) \/ OnOpenFailure(e)
    \/ OnClose(e) \/ OnDisconnect(e) \/ PeerGone(e) \/ Resolve(e) \/ SendClose(e)
Globals == {"tcpip-forward", "keepalive", "success", "refused", "cancel"}
Special == Globals \cup {"open"}

\* The packets they send and take.
LEMMA RoutineSent ==
    ASSUME NEW e, Routine(e)
    PROVE  \/ UNCHANGED wire
           \/ \E m : m.type \notin Special /\ Send(e, m)
           \/ /\ wire[Peer(e)] # <<>> /\ Head(wire[Peer(e)]).type \notin Globals
              /\ \/ Take(e)
                 \/ \E m : m.type \notin Special /\ Reply(e, m)
                 \/ \E c : wire' = [wire EXCEPT ![Peer(e)] = Tail(@),
                                      ![e] = @ \o CloseAnswer(c) \o Goodbye(c)]
<1>1. ASSUME NEW x, NEW y
      PROVE  /\ [type |-> "confirm", to |-> x, id |-> y].type \notin Special
             /\ [type |-> "failure", to |-> x].type \notin Special
             /\ [type |-> "close", to |-> x].type \notin Special
  BY DEF Special, Globals
<1>2. CASE OnConnected(e)
  <2>1. PICK c : \/ Send(e, [type |-> "confirm", to |-> c.peer, id |-> next_id[e]])
                 \/ Send(e, [type |-> "failure", to |-> c.peer])
    BY <1>2 DEF OnConnected, RefuseConnect
  <2>2. \E m : m.type \notin Special /\ Send(e, m)
    BY <1>1, <2>1
  <2> QED  BY <2>2
<1>3. CASE OnChannelOpen(e)
  <2>1. wire[Peer(e)] # <<>> /\ Head(wire[Peer(e)]).type \notin Globals
    BY <1>3 DEF OnChannelOpen, Arrives, Globals
  <2>2. \/ Take(e)
        \/ Reply(e, [type |-> "confirm", to |-> Packet(e).id, id |-> next_id[e]])
        \/ Reply(e, [type |-> "failure", to |-> Packet(e).id])
    BY <1>3 DEF OnChannelOpen, Refuse
  <2>3. Take(e) \/ \E m : m.type \notin Special /\ Reply(e, m)
    BY <1>1, <2>2
  <2> QED  BY <2>1, <2>3
<1>4. CASE OnOpenConfirm(e) \/ OnOpenFailure(e) \/ OnDisconnect(e)
  <2>1. wire[Peer(e)] # <<>> /\ Head(wire[Peer(e)]).type \notin Globals /\ Take(e)
    BY <1>4 DEF OnOpenConfirm, OnOpenFailure, OnDisconnect, Arrives, Globals
  <2> QED  BY <2>1
<1>5. CASE OnClose(e)
  <2>1. wire[Peer(e)] # <<>> /\ Head(wire[Peer(e)]).type \notin Globals
    BY <1>5 DEF OnClose, Arrives, Globals
  <2>2. \/ Take(e)
        \/ \E c : wire' = [wire EXCEPT ![Peer(e)] = Tail(@),
                             ![e] = @ \o CloseAnswer(c) \o Goodbye(c)]
    BY <1>5 DEF OnClose
  <2> QED  BY <2>1, <2>2
<1>6. CASE SendClose(e)
  <2>1. PICK c : Send(e, [type |-> "close", to |-> c.peer])
    BY <1>6 DEF SendClose
  <2>2. \E m : m.type \notin Special /\ Send(e, m)
    BY <1>1, <2>1
  <2> QED  BY <2>2
<1>7. CASE Resolve(e) \/ PeerGone(e)
  BY <1>7 DEF Resolve, Reports, PeerGone
<1> QED  BY <1>2, <1>3, <1>4, <1>5, <1>6, <1>7 DEF Routine

\* A close answered puts at most two packets on the wire.
LEMMA CloseAdds ==
    ASSUME NEW q, Listed(q), NEW c, NEW q2, q2 = q \o CloseAnswer(c) \o Goodbye(c)
    PROVE  Adds(q, q2, Special)
<1> DEFINE m == [type |-> "close", to |-> c.peer]  g == [type |-> "disconnect"]
           r == q \o CloseAnswer(c)
<1>1. m.type \notin Special /\ g.type \notin Special
  BY DEF Special, Globals
<1>2. CloseAnswer(c) = <<>> \/ CloseAnswer(c) = <<m>>
  BY DEF CloseAnswer
<1>3. Goodbye(c) = <<>> \/ Goodbye(c) = <<g>>
  BY DEF Goodbye
<1>4. q2 = r \o Goodbye(c)
  OBVIOUS
<1> HIDE DEF m, g
<1>5. (r = q \/ r = Append(q, m)) /\ Listed(r)
  <2>1. q \o <<>> = q /\ q \o <<m>> = Append(q, m)
    BY Behind
  <2>2. r = q \/ r = Append(q, m)
    BY <1>2, <2>1
  <2>3. Listed(Append(q, m))
    BY Added
  <2> QED  BY <2>2, <2>3
<1> HIDE DEF r
<1>6. q2 = r \/ q2 = Append(r, g)
  <2>1. r \o <<>> = r /\ r \o <<g>> = Append(r, g)
    BY <1>5, Behind
  <2> QED  BY <1>3, <1>4, <2>1
<1> QED  BY <1>1, <1>5, <1>6 DEF Adds

\* What that does to the two wires.
LEMMA RoutineWires ==
    ASSUME Sound, NEW e \in End, Routine(e)
    PROVE  Adds(wire[e], wire'[e], Special) /\ Drops(wire[Peer(e)], wire'[Peer(e)], Globals)
<1>0. Peer(e) \in End /\ Peer(e) # e /\ Listed(wire[e]) /\ wire = [f \in End |-> wire[f]]
  BY Peers DEF Sound, GoodWire
<1>1. CASE UNCHANGED wire
  BY <1>1 DEF Adds, Drops
<1>2. ASSUME NEW m, m.type \notin Special, Send(e, m)
      PROVE  Adds(wire[e], wire'[e], Special) /\ Drops(wire[Peer(e)], wire'[Peer(e)], Globals)
  <2>1. wire'[e] = Append(wire[e], m) /\ wire'[Peer(e)] = wire[Peer(e)]
    BY <1>0, <1>2 DEF Send
  <2> QED  BY <1>2, <2>1 DEF Adds, Drops
<1>3. ASSUME wire[Peer(e)] # <<>>, Head(wire[Peer(e)]).type \notin Globals,
             wire'[Peer(e)] = Tail(wire[Peer(e)])
      PROVE  Drops(wire[Peer(e)], wire'[Peer(e)], Globals)
  BY <1>3 DEF Drops
<1>4. ASSUME Take(e) PROVE wire'[e] = wire[e] /\ wire'[Peer(e)] = Tail(wire[Peer(e)])
  BY <1>0, <1>4 DEF Take
<1>5. ASSUME NEW m, Reply(e, m)
      PROVE  wire'[e] = Append(wire[e], m) /\ wire'[Peer(e)] = Tail(wire[Peer(e)])
  BY <1>0, <1>5 DEF Reply
<1>6. ASSUME NEW c, wire[Peer(e)] # <<>>,
             wire' = [wire EXCEPT ![Peer(e)] = Tail(@),
                        ![e] = @ \o CloseAnswer(c) \o Goodbye(c)]
      PROVE  /\ wire'[e] = wire[e] \o CloseAnswer(c) \o Goodbye(c)
             /\ wire'[Peer(e)] = Tail(wire[Peer(e)])
  <2>1. Wires(e, wire[e] \o CloseAnswer(c) \o Goodbye(c), Tail(wire[Peer(e)]))
    BY <1>6, WireAnswered
  <2> QED  BY <2>1 DEF Wires
<1>7. wire'[e] = wire[e] => Adds(wire[e], wire'[e], Special)
  BY DEF Adds
<1>8. \A m : m.type \notin Special /\ wire'[e] = Append(wire[e], m)
                => Adds(wire[e], wire'[e], Special)
  BY DEF Adds
<1>9. ASSUME NEW c, wire'[e] = wire[e] \o CloseAnswer(c) \o Goodbye(c)
      PROVE  Adds(wire[e], wire'[e], Special)
  BY <1>0, <1>9, CloseAdds
<1> QED  BY <1>1, <1>2, <1>3, <1>4, <1>5, <1>6, <1>7, <1>8, <1>9, RoutineSent

\* What such a step leaves alone.
LEMMA RoutineKeeps ==
    ASSUME Sound, NEW e \in End, Routine(e)
    PROVE  /\ UNCHANGED <<cmds, scenario, pending_global, remote_forwards>>
           /\ \A f \in End : Running(f)' => Running(f)
           /\ live' = live \/ ~Running("server")'
<1>1. UNCHANGED <<cmds, scenario, pending_global, remote_forwards>>
  <2>1. CASE OnConnected(e) \/ OnChannelOpen(e) \/ OnOpenConfirm(e) \/ OnOpenFailure(e)
    BY <2>1 DEF OnConnected, OnChannelOpen, OnOpenConfirm, OnOpenFailure, queues, bounds, forwards
  <2>2. CASE OnClose(e) \/ OnDisconnect(e) \/ PeerGone(e)
    BY <2>2 DEF OnClose, OnDisconnect, PeerGone, queues, bounds
  <2>3. CASE Resolve(e) \/ SendClose(e)
    BY <2>3 DEF Resolve, Reports, SendClose, queues, bounds, forwards
  <2> QED  BY <2>1, <2>2, <2>3 DEF Routine
<1>2. UNCHANGED <<run, live>> \/ (Running(e) /\ \E how \in {"ended", "error"} : EndLoop(e, how))
  <2>1. CASE OnConnected(e) \/ OnChannelOpen(e) \/ Resolve(e) \/ SendClose(e)
    BY <2>1 DEF OnConnected, OnChannelOpen, Resolve, Reports, SendClose, forwards
  <2>2. CASE OnOpenConfirm(e) \/ OnOpenFailure(e)
    BY <2>2 DEF OnOpenConfirm, OnOpenFailure, Arrives
  <2>3. CASE OnClose(e)
    BY <2>3 DEF OnClose, Arrives
  <2>4. CASE OnDisconnect(e) \/ PeerGone(e)
    BY <2>4 DEF OnDisconnect, PeerGone, Arrives
  <2> QED  BY <2>1, <2>2, <2>3, <2>4 DEF Routine
<1>3. CASE UNCHANGED <<run, live>>
  BY <1>1, <1>3 DEF Running
<1>4. ASSUME Running(e), NEW how \in {"ended", "error"}, EndLoop(e, how)
      PROVE  /\ \A f \in End : Running(f)' => Running(f)
             /\ live' = live \/ ~Running("server")'
  <2>1. run' = [run EXCEPT ![e] = how] /\ run = [f \in End |-> run[f]] /\ how # "running"
    BY <1>4 DEF EndLoop, Sound
  <2>2. \A f \in End : Running(f)' => Running(f)
    BY <1>4, <2>1 DEF Running
  <2>3. CASE e = "server"
    BY <2>1, <2>3 DEF Running
  <2>4. CASE e # "server"
    <3>1. live' = live
      BY <1>4, <2>4 DEF EndLoop
    <3> QED  BY <2>2, <3>1
  <2> QED  BY <2>2, <2>3, <2>4
<1> QED  BY <1>1, <1>2, <1>3, <1>4

\* A step that adds to the wire of one end and takes from the other's,
\* neither requests nor replies.
LEMMA QuietForwards ==
    ASSUME Sound, Fwd, scenario' = scenario, \A f \in End : Running(f)' => Running(f),
           pending_global'["client"] = pending_global["client"],
           remote_forwards' = remote_forwards,
           live' = live \/ ~Running("server")', cmds'["server"] = cmds["server"],
           \/ /\ Adds(wire["client"], wire'["client"], Asking)
              /\ Drops(wire["server"], wire'["server"], Reps)
           \/ /\ Adds(wire["server"], wire'["server"], Unrelated)
              /\ Drops(wire["client"], wire'["client"], Asking)
    PROVE  Fwd'
<1> SUFFICES ASSUME scenario.cancels = {}, Running("client")'
             PROVE  /\ Told(wire'["server"], pending_global["client"], remote_forwards)
                    /\ Running("server")' =>
                          View(wire'["client"], wire'["server"], pending_global["client"],
                               remote_forwards, live', cmds["server"])
  BY DEF Fwd
<1> DEFINE w == wire["client"]  q == wire["server"]  w2 == wire'["client"]  q2 == wire'["server"]
           G == pending_global["client"]  R == remote_forwards  C == cmds["server"]
<1>1. Running("client") /\ (Running("server")' => Running("server") /\ live' = live)
  BY DEF End
<1>2. Told(q, G, R) /\ (Running("server") => View(w, q, G, R, live, C))
  BY <1>1 DEF Fwd
<1>3. Listed(w) /\ Listed(q)
  BY DEF Sound, GoodWire, End
<1>4. \/ Adds(w, w2, Asking) /\ Drops(q, q2, Reps)
      \/ Adds(q, q2, Unrelated) /\ Drops(w, w2, Asking)
  OBVIOUS
<1> HIDE DEF w, q, w2, q2, G, R, C
<1>5. CASE Adds(w, w2, Asking) /\ Drops(q, q2, Reps)
  <2>1. Told(q2, G, R) /\ (View(w, q, G, R, live, C) => View(w, q2, G, R, live, C))
    BY <1>2, <1>3, <1>5, ClientDrops
  <2>2. View(w, q2, G, R, live, C) => View(w2, q2, G, R, live, C)
    BY <1>3, <1>5, ClientAdds
  <2> QED  BY <1>1, <1>2, <2>1, <2>2 DEF w, q, w2, q2, G, R, C
<1>6. CASE Adds(q, q2, Unrelated) /\ Drops(w, w2, Asking)
  <2>1. Told(q2, G, R) /\ (View(w, q, G, R, live, C) => View(w, q2, G, R, live, C))
    BY <1>2, <1>3, <1>6, ServerAdds
  <2>2. View(w, q2, G, R, live, C) => View(w2, q2, G, R, live, C)
    BY <1>3, <1>6, ServerDrops
  <2> QED  BY <1>1, <1>2, <2>1, <2>2 DEF w, q, w2, q2, G, R, C
<1> QED  BY <1>4, <1>5, <1>6

\* So the handlers of channels leave the forwards as they are.
LEMMA RoutineForwards ==
    ASSUME Sound, Kinds, Fwd, NEW e \in End, Routine(e) PROVE Kinds' /\ Fwd'
<1>1. /\ UNCHANGED <<cmds, scenario, pending_global, remote_forwards>>
      /\ \A f \in End : Running(f)' => Running(f)
      /\ live' = live \/ ~Running("server")'
  BY RoutineKeeps
<1>2. Adds(wire[e], wire'[e], Special) /\ Drops(wire[Peer(e)], wire'[Peer(e)], Globals)
  BY RoutineWires
<1>3. Asking \in SUBSET Special /\ Unrelated \in SUBSET Special
      /\ Reps \in SUBSET Globals /\ Asking \in SUBSET Globals /\ "cancel" \in Special
  BY DEF Asking, Unrelated, Special, Globals, Reps
<1>4. Listed(wire["client"]) /\ Peer("client") = "server" /\ Peer("server") = "client"
  BY DEF Sound, GoodWire, End, Peer
<1>0. pending_global'["client"] = pending_global["client"] /\ remote_forwards' = remote_forwards
      /\ scenario' = scenario /\ cmds'["server"] = cmds["server"]
  BY <1>1
<1>5. CASE e = "client"
  <2>1. /\ Adds(wire["client"], wire'["client"], Asking)
        /\ Drops(wire["server"], wire'["server"], Reps)
    BY <1>2, <1>3, <1>4, <1>5, AddsFewer, DropsFewer
  <2>2. Fwd'
    BY <1>0, <1>1, <2>1, QuietForwards
  <2>3. scenario.cancels = {} => NoCancel(wire'["client"])
    BY <1>2, <1>3, <1>4, <1>5, NoCancelAdds DEF Kinds
  <2> QED  BY <1>1, <2>2, <2>3 DEF Kinds
<1>6. CASE e = "server"
  <2>1. /\ Adds(wire["server"], wire'["server"], Unrelated)
        /\ Drops(wire["client"], wire'["client"], Asking)
    BY <1>2, <1>3, <1>4, <1>6, AddsFewer, DropsFewer
  <2>2. Fwd'
    BY <1>0, <1>1, <2>1, QuietForwards
  <2>3. scenario.cancels = {} => NoCancel(wire'["client"])
    <3>1. CASE wire'["client"] = wire["client"]
      BY <3>1 DEF Kinds
    <3>2. CASE wire["client"] # <<>> /\ wire'["client"] = Tail(wire["client"])
      BY <1>4, <3>2, NoCancelTaken DEF Kinds
    <3> QED  BY <2>1, <3>1, <3>2 DEF Drops
  <2> QED  BY <1>1, <2>2, <2>3 DEF Kinds
<1> QED  BY <1>5, <1>6 DEF End

-----------------------------------------------------------------------------
\* The ends and their wires.
LEMMA TwoEnds ==
    ASSUME Sound
    PROVE  /\ "client" \in End /\ "server" \in End
           /\ Peer("client") = "server" /\ Peer("server") = "client"
           /\ wire = [f \in End |-> wire[f]] /\ cmds = [f \in End |-> cmds[f]]
           /\ Listed(wire["client"]) /\ Listed(wire["server"])
           /\ Listed(cmds["client"]) /\ Listed(cmds["server"])
<1>1. Peer("client") = "server" /\ Peer("server") = "client"
  BY DEF Peer, End
<1> QED  BY <1>1 DEF Sound, GoodWire, End

\* A step of the client that neither asks nor is answered.
LEMMA ClientQuiet ==
    ASSUME Sound, Kinds, Fwd, UNCHANGED <<run, scenario, pending_global, remote_forwards, live>>,
           cmds'["server"] = cmds["server"],
           Adds(wire["client"], wire'["client"], Asking),
           scenario.cancels = {} => Adds(wire["client"], wire'["client"], {"cancel"}),
           Drops(wire["server"], wire'["server"], Reps)
    PROVE  Kinds' /\ Fwd'
<1>1. Listed(wire["client"])
  BY TwoEnds
<1>2. Fwd'
  <2>1. \A f \in End : Running(f)' => Running(f)
    BY DEF Running
  <2>2. live' = live \/ ~Running("server")'
    OBVIOUS
  <2>3. pending_global'["client"] = pending_global["client"] /\ remote_forwards' = remote_forwards
        /\ scenario' = scenario
    OBVIOUS
  <2> QED  BY <2>1, <2>2, <2>3, QuietForwards
<1>3. ASSUME scenario.cancels = {} PROVE NoCancel(wire'["client"])
  <2>1. "cancel" \in {"cancel"} /\ NoCancel(wire["client"])
    BY <1>3 DEF Kinds
  <2> QED  BY <1>1, <1>3, <2>1, NoCancelAdds
<1> QED  BY <1>2, <1>3 DEF Kinds

\* The client answers a keepalive, opens a channel, or queues an open; a
\* client that cancels is not among those whose forwards are followed.
LEMMA ClientForwards ==
    ASSUME Sound, Kinds, Fwd,
           \/ OnKeepalive("client") \/ Open("client") \/ AcceptForNobody
           \/ \E t : AcceptLocal(t)
           \/ \E k \in scenario.cancels : SendCancel(k)
    PROVE  Kinds' /\ Fwd'
<1>0. /\ "client" \in End /\ "server" \in End
      /\ Peer("client") = "server" /\ wire = [f \in End |-> wire[f]]
      /\ cmds = [f \in End |-> cmds[f]]
  BY TwoEnds
<1>1. ASSUME NEW m, m.type \notin Asking, scenario.cancels = {} => m.type # "cancel",
             wire'["client"] = Append(wire["client"], m)
      PROVE  /\ Adds(wire["client"], wire'["client"], Asking)
             /\ scenario.cancels = {} => Adds(wire["client"], wire'["client"], {"cancel"})
  BY <1>1 DEF Adds
<1>2. wire' = wire => /\ Adds(wire["client"], wire'["client"], Asking)
                      /\ Adds(wire["client"], wire'["client"], {"cancel"})
                      /\ Drops(wire["server"], wire'["server"], Reps)
  BY DEF Adds, Drops
<1>3. wire'["server"] = wire["server"] => Drops(wire["server"], wire'["server"], Reps)
  BY DEF Drops
<1>4. CASE OnKeepalive("client")
  <2> DEFINE m == [type |-> "refused"]
  <2>1. /\ wire["server"] # <<>> /\ Head(wire["server"]).type = "keepalive"
        /\ wire'["server"] = Tail(wire["server"]) /\ wire'["client"] = Append(wire["client"], m)
    BY <1>0, <1>4 DEF OnKeepalive, Arrives, Reply
  <2>2. m.type \notin Asking /\ m.type # "cancel"
    BY DEF Asking
  <2>3. Drops(wire["server"], wire'["server"], Reps)
    BY <2>1 DEF Drops, Reps
  <2>4. UNCHANGED <<run, scenario, pending_global, remote_forwards, live, cmds>>
    BY <1>4 DEF OnKeepalive, queues, forwards, bounds
  <2> QED  BY <1>1, <2>1, <2>2, <2>3, <2>4, ClientQuiet
<1>5. CASE Open("client")
  <2>1. UNCHANGED <<run, scenario, pending_global, remote_forwards, live>>
        /\ cmds' = [cmds EXCEPT !["client"] = Tail(@)]
    BY <1>5 DEF Open, forwards, bounds
  <2>2. cmds'["server"] = cmds["server"]
    BY <1>0, <2>1
  <2> DEFINE m == [type |-> "open", id |-> next_id["client"], open |-> Head(cmds["client"])]
  <2>3. wire' = wire \/ wire' = [wire EXCEPT !["client"] = Append(@, m)]
    BY <1>5 DEF Open, Send
  <2>4. CASE wire' = wire
    BY <1>2, <2>1, <2>2, <2>4, ClientQuiet
  <2>5. CASE wire' = [wire EXCEPT !["client"] = Append(@, m)]
    <3>1. wire'["server"] = wire["server"] /\ wire'["client"] = Append(wire["client"], m)
      BY <1>0, <2>5
    <3>2. m.type \notin Asking /\ m.type # "cancel"
      BY DEF Asking
    <3> HIDE DEF m
    <3> QED  BY <1>1, <1>3, <2>1, <2>2, <3>1, <3>2, ClientQuiet
  <2> QED  BY <2>3, <2>4, <2>5
<1>6. CASE AcceptForNobody \/ \E t : AcceptLocal(t)
  <2>1. UNCHANGED <<run, scenario, pending_global, remote_forwards, live, wire>>
    BY <1>6 DEF AcceptForNobody, AcceptLocal, Admit, forwards
  <2>2. cmds' = cmds \/ \E c : cmds' = [cmds EXCEPT !["client"] = Append(@, c)]
    BY <1>6 DEF AcceptForNobody, AcceptLocal, Admit, queues
  <2>3. cmds'["server"] = cmds["server"]
    BY <1>0, <2>2
  <2> QED  BY <1>2, <2>1, <2>3, ClientQuiet
<1>7. ASSUME NEW k \in scenario.cancels, SendCancel(k) PROVE Kinds' /\ Fwd'
  <2> DEFINE m == [type |-> "cancel", key |-> k]
  <2>1. UNCHANGED <<run, scenario, pending_global, remote_forwards, live, cmds>>
        /\ wire' = [wire EXCEPT !["client"] = Append(@, m)]
    BY <1>7 DEF SendCancel, Send, queues, forwards
  <2>2. wire'["server"] = wire["server"] /\ wire'["client"] = Append(wire["client"], m)
    BY <1>0, <2>1
  <2>3. m.type \notin Asking /\ scenario.cancels # {}
    BY DEF Asking
  <2> HIDE DEF m
  <2> QED  BY <1>1, <1>3, <2>1, <2>2, <2>3, ClientQuiet
<1> QED  BY <1>4, <1>5, <1>6, <1>7

\* The client asks: a forward, or a keepalive.
LEMMA AskedForwards ==
    ASSUME Sound, Kinds, Fwd, RequestForward("client") \/ Probe("client")
    PROVE  Kinds' /\ Fwd'
<1> DEFINE w == wire["client"]  q == wire["server"]  w2 == wire'["client"]
           G == pending_global["client"]  G2 == pending_global'["client"]
           R == remote_forwards  C == cmds["server"]
<1>0. /\ "client" \in End /\ "server" \in End
      /\ wire = [f \in End |-> wire[f]] /\ cmds = [f \in End |-> cmds[f]]
      /\ Listed(w) /\ Listed(q)
  BY TwoEnds
<1>1. pending_global = [f \in End |-> pending_global[f]] /\ Listed(G)
  BY <1>0 DEF Kinds
<1>2. UNCHANGED <<run, scenario, remote_forwards, live>>
  BY DEF RequestForward, Probe, bounds
<1>3. cmds'["server"] = cmds["server"]
  <2>1. cmds' = cmds \/ cmds' = [cmds EXCEPT !["client"] = Tail(@)]
    BY DEF RequestForward, Probe, queues
  <2> QED  BY <1>0, <2>1
<1>4. PICK m, g : /\ m.type \in Asking /\ m.type # "cancel" /\ Matches(m, g)
                  /\ wire' = [wire EXCEPT !["client"] = Append(@, m)]
                  /\ pending_global' = [pending_global EXCEPT !["client"] = Append(@, g)]
  <2>1. CASE RequestForward("client")
    <3> DEFINE c == Head(cmds["client"])
               p == [type |-> "tcpip-forward", bind |-> c.bind, port |-> c.port,
                     target |-> c.target]
    <3>1. c.kind = "tcpip-forward"
      BY <2>1 DEF RequestForward, Commanded
    <3>2. p.type \in Asking /\ p.type # "cancel" /\ Matches(p, c)
      BY <3>1 DEF Asking, Matches
    <3>3. /\ wire' = [wire EXCEPT !["client"] = Append(@, p)]
          /\ pending_global' = [pending_global EXCEPT !["client"] = Append(@, c)]
      BY <2>1 DEF RequestForward, Send
    <3> HIDE DEF c, p
    <3> QED  BY <3>2, <3>3
  <2>2. CASE Probe("client")
    <3> DEFINE c == [kind |-> "keepalive"]  p == [type |-> "keepalive"]
    <3>1. p.type \in Asking /\ p.type # "cancel" /\ Matches(p, c)
      BY DEF Asking, Matches
    <3>2. /\ wire' = [wire EXCEPT !["client"] = Append(@, p)]
          /\ pending_global' = [pending_global EXCEPT !["client"] = Append(@, c)]
      BY <2>2 DEF Probe, Send
    <3> HIDE DEF c, p
    <3> QED  BY <3>1, <3>2
  <2> QED  BY <2>1, <2>2
<1>5. w2 = Append(w, m) /\ wire'["server"] = q
  BY <1>0, <1>4
<1>6. /\ G2 = Append(G, g) /\ pending_global'["server"] = pending_global["server"]
      /\ pending_global' = [f \in End |-> pending_global'[f]]
  BY <1>0, <1>1, <1>4
<1> HIDE DEF w, q, w2, G, G2, R, C
<1>7. Listed(G2) /\ (NoCancel(w) => NoCancel(w2))
  BY <1>0, <1>1, <1>4, <1>5, <1>6, Added, NoCancelSent
<1>8. Told(q, G, R) =>
        Told(q, G2, R) /\ \A L, B : View(w, q, G, R, L, B) => View(w2, q, G2, R, L, B)
  BY <1>0, <1>1, <1>4, <1>5, <1>6, ClientAsked
<1>9. Fwd'
  <2> SUFFICES ASSUME scenario.cancels = {}, Running("client")
               PROVE  Told(q, G2, R) /\ (Running("server") => View(w2, q, G2, R, live, C))
    BY <1>2, <1>3, <1>5 DEF Fwd, Running, w, q, w2, G, G2, R, C
  <2>1. Told(q, G, R) /\ (Running("server") => View(w, q, G, R, live, C))
    BY DEF Fwd, w, q, G, R, C
  <2> QED  BY <1>8, <2>1
<1>10. Kinds'
  <2>1. \A f \in End : Listed(pending_global'[f])
    BY <1>6, <1>7 DEF Kinds, End, G2
  <2>2. scenario.cancels = {} => NoCancel(wire'["client"])
    BY <1>7 DEF Kinds, w, w2
  <2> QED  BY <1>2, <1>3, <1>6, <2>1, <2>2 DEF Kinds
<1> QED  BY <1>9, <1>10

\* A reply reaches the client.
LEMMA AnsweredForwards ==
    ASSUME Sound, Kinds, Fwd, OnGlobalReply("client") PROVE Kinds' /\ Fwd'
<1> DEFINE w == wire["client"]  q == wire["server"]  q2 == wire'["server"]
           G == pending_global["client"]  G2 == pending_global'["client"]
           R == remote_forwards  R2 == remote_forwards'  C == cmds["server"]
<1>0. /\ "client" \in End /\ "server" \in End /\ Peer("client") = "server"
      /\ wire = [f \in End |-> wire[f]] /\ Listed(w) /\ Listed(q)
  BY TwoEnds
<1>1. pending_global = [f \in End |-> pending_global[f]] /\ Listed(G)
  BY <1>0 DEF Kinds
<1>2. UNCHANGED <<run, scenario, live, cmds>>
  BY DEF OnGlobalReply, bounds, queues
<1>3. /\ q # <<>> /\ Head(q).type \in Reps
      /\ wire' = [wire EXCEPT !["server"] = Tail(@)]
  BY <1>0 DEF OnGlobalReply, Arrives, Take, Reps
<1>4. wire'["client"] = w /\ q2 = Tail(q)
  BY <1>0, <1>3
<1>5. CASE G = <<>>
  <2>1. pending_global' = pending_global
    BY <1>5 DEF OnGlobalReply
  <2>2. ASSUME scenario.cancels = {}, Running("client") PROVE FALSE
    <3>1. Told(q, G, R)
      BY <2>2 DEF Fwd
    <3>2. Replied(q, G)
      BY <3>1 DEF Told
    <3> DEFINE T == Tail(q)  U == Tail(G)
    <3>3. T = Tail(q) /\ U = Tail(G)
      OBVIOUS
    <3> HIDE DEF q, G, T, U
    <3>4. G # <<>>
      BY <1>0, <1>1, <1>3, <3>2, <3>3, GrantAnswered
    <3> QED  BY <1>5, <3>4
  <2>3. Fwd'
    BY <1>2, <2>2 DEF Fwd, Running
  <2>4. Kinds'
    BY <1>2, <1>4, <2>1 DEF Kinds
  <2> QED  BY <2>3, <2>4
<1>6. CASE G # <<>>
  <2>1. pending_global' = [pending_global EXCEPT !["client"] = Tail(@)]
    BY <1>6 DEF OnGlobalReply
  <2>2. /\ G2 = Tail(G) /\ pending_global'["server"] = pending_global["server"]
        /\ pending_global' = [f \in End |-> pending_global'[f]]
    BY <1>0, <1>1, <2>1
  <2>3. Head(q).type # "success" => R2 = R
    BY <1>0, <1>6 DEF OnGlobalReply, Packet
  <2>4. Head(q).type = "success" /\ Head(G).kind = "tcpip-forward" =>
            Extends(R, R2, Key(Head(G), Head(q)), Head(G).target)
    <3> SUFFICES ASSUME Head(q).type = "success", Head(G).kind = "tcpip-forward"
                 PROVE  Extends(R, R2, Key(Head(G), Head(q)), Head(G).target)
      OBVIOUS
    <3> DEFINE port == IF Head(G).port = 0 THEN Head(q).port ELSE Head(G).port
    <3>1. R2 = Registered(Head(G), port, Head(G).target)
      BY <1>0, <1>6 DEF OnGlobalReply, Packet, Answered
    <3>2. Key(Head(G), Head(q)) = <<Head(G).bind, port>>
      BY DEF Key
    <3> HIDE DEF port
    <3> DEFINE k == <<Head(G).bind, port>>  t == Head(G).target
    <3>3. R2 = [x \in DOMAIN R \cup {k} |-> IF x = k THEN t ELSE R[x]]
      BY <3>1 DEF Registered
    <3> HIDE DEF k, t, R, R2
    <3>4. Extends(R, R2, k, t)
      BY <3>3 DEF Extends
    <3> QED  BY <3>2, <3>4 DEF k, t
  <2> HIDE DEF w, q, q2, G, G2, R, R2, C
  <2>5. Told(q, G, R) =>
          /\ Told(q2, G2, R2)
          /\ \A u, L, B : Listed(u) /\ View(u, q, G, R, L, B) => View(u, q2, G2, R2, L, B)
    BY <1>0, <1>1, <1>3, <1>4, <2>2, <2>3, <2>4, ClientAnswered
  <2>6. Fwd'
    <3> SUFFICES ASSUME scenario.cancels = {}, Running("client")
                 PROVE  Told(q2, G2, R2) /\ (Running("server") => View(w, q2, G2, R2, live, C))
      BY <1>2, <1>4 DEF Fwd, Running, w, q, q2, G, G2, R, R2, C
    <3>1. Told(q, G, R) /\ (Running("server") => View(w, q, G, R, live, C))
      BY DEF Fwd, w, q, G, R, C
    <3> QED  BY <1>0, <2>5, <3>1
  <2>7. Listed(G2)
    BY <1>1, <1>6, <2>2, Taken
  <2>8. \A f \in End : Listed(pending_global'[f])
    BY <2>2, <2>7 DEF Kinds, End, G2
  <2>9. Kinds'
    BY <1>2, <1>4, <2>2, <2>8 DEF Kinds, w
  <2> QED  BY <2>6, <2>9
<1> QED  BY <1>5, <1>6

-----------------------------------------------------------------------------
\* A step of the server that answers no request of the client's: it probes,
\* takes a reply, or takes back a forward the client cancelled.
LEMMA ServerForwards ==
    ASSUME Sound, Kinds, Fwd, Probe("server") \/ OnGlobalReply("server") \/ OnCancel
    PROVE  Kinds' /\ Fwd'
<1>0. /\ "client" \in End /\ "server" \in End /\ Peer("server") = "client"
      /\ wire = [f \in End |-> wire[f]] /\ Listed(wire["client"])
      /\ pending_global = [f \in End |-> pending_global[f]]
      /\ Listed(pending_global["client"]) /\ Listed(pending_global["server"])
      /\ Only(pending_global["server"], {"keepalive"})
  BY TwoEnds DEF Kinds
<1>1. ASSUME UNCHANGED <<run, scenario, remote_forwards, cmds, live>>,
             pending_global'["client"] = pending_global["client"],
             pending_global' = [f \in End |-> pending_global'[f]],
             Listed(pending_global'["server"]),
             Only(pending_global'["server"], {"keepalive"}),
             Adds(wire["server"], wire'["server"], Unrelated),
             Drops(wire["client"], wire'["client"], Asking)
      PROVE  Kinds' /\ Fwd'
  <2>1. \A f \in End : Running(f)' => Running(f)
    BY <1>1 DEF Running
  <2>2. live' = live \/ ~Running("server")'
    BY <1>1
  <2>3. scenario' = scenario /\ remote_forwards' = remote_forwards /\ cmds'["server"] = cmds["server"]
    BY <1>1
  <2>4. Fwd'
    BY <1>1, <2>1, <2>2, <2>3, QuietForwards
  <2>5. NoCancel(wire["client"]) => NoCancel(wire'["client"])
    <3>1. CASE wire["client"] # <<>> /\ wire'["client"] = Tail(wire["client"])
      BY <1>0, <3>1, NoCancelTaken
    <3> QED  BY <1>1, <3>1 DEF Drops
  <2>6. \A f \in End : Listed(pending_global'[f])
    BY <1>0, <1>1 DEF End
  <2>7. Kinds'
    BY <1>1, <2>5, <2>6 DEF Kinds
  <2> QED  BY <2>4, <2>7
<1>2. CASE Probe("server")
  <2> DEFINE g == [kind |-> "keepalive"]  m == [type |-> "keepalive"]
  <2>1. /\ UNCHANGED <<run, scenario, remote_forwards, cmds, live>>
        /\ pending_global' = [pending_global EXCEPT !["server"] = Append(@, g)]
        /\ wire' = [wire EXCEPT !["server"] = Append(@, m)]
    BY <1>2 DEF Probe, Send, queues
  <2>2. g.kind \in {"keepalive"} /\ m.type \notin Unrelated
    BY DEF Unrelated, Reps
  <2> HIDE DEF g, m
  <2>3. /\ pending_global'["client"] = pending_global["client"]
        /\ pending_global' = [f \in End |-> pending_global'[f]]
        /\ pending_global'["server"] = Append(pending_global["server"], g)
        /\ wire'["client"] = wire["client"] /\ wire'["server"] = Append(wire["server"], m)
    BY <1>0, <2>1
  <2> DEFINE P == pending_global["server"]  P2 == pending_global'["server"]  K == {"keepalive"}
  <2>4. Listed(P) /\ P2 = Append(P, g) /\ Only(P, K) /\ g.kind \in K
    BY <1>0, <2>2, <2>3
  <2> HIDE DEF P, P2, K
  <2>5. Listed(P2) /\ Only(P2, K)
    BY <2>4, Added, OnlyAdded
  <2>6. /\ Adds(wire["server"], wire'["server"], Unrelated)
        /\ Drops(wire["client"], wire'["client"], Asking)
    BY <2>2, <2>3 DEF Adds, Drops
  <2> QED  BY <1>1, <2>1, <2>3, <2>5, <2>6 DEF P2, K
<1>3. CASE OnGlobalReply("server")
  <2>1. /\ UNCHANGED <<run, scenario, cmds, live>>
        /\ wire["client"] # <<>> /\ Head(wire["client"]).type \in {"success", "refused"}
        /\ wire' = [wire EXCEPT !["client"] = Tail(@)]
    BY <1>0, <1>3 DEF OnGlobalReply, Arrives, Take, queues, bounds
  <2>2. wire'["server"] = wire["server"] /\ wire'["client"] = Tail(wire["client"])
    BY <1>0, <2>1
  <2>3. /\ Adds(wire["server"], wire'["server"], Unrelated)
        /\ Drops(wire["client"], wire'["client"], Asking)
    BY <2>1, <2>2 DEF Adds, Drops, Asking
  <2>4. CASE pending_global["server"] = <<>>
    <3>1. UNCHANGED <<pending_global, remote_forwards>>
      BY <1>3, <2>4 DEF OnGlobalReply
    <3> QED  BY <1>0, <1>1, <2>1, <2>3, <3>1
  <2>5. CASE pending_global["server"] # <<>>
    <3>1. pending_global' = [pending_global EXCEPT !["server"] = Tail(@)]
      BY <1>3, <2>5 DEF OnGlobalReply
    <3>2. /\ pending_global'["client"] = pending_global["client"]
          /\ pending_global' = [f \in End |-> pending_global'[f]]
          /\ pending_global'["server"] = Tail(pending_global["server"])
      BY <1>0, <3>1
    <3>3. Listed(pending_global'["server"])
      BY <1>0, <2>5, <3>2, Taken
    <3>4. /\ Only(pending_global'["server"], {"keepalive"})
          /\ Head(pending_global["server"]).kind \in {"keepalive"}
      BY <1>0, <2>5, <3>2, OnlyTaken
    <3>5. remote_forwards' = remote_forwards
      BY <1>3, <2>5, <3>4 DEF OnGlobalReply, Answered
    <3> QED  BY <1>1, <2>1, <2>3, <3>2, <3>3, <3>4, <3>5
  <2> QED  BY <2>4, <2>5
<1>4. CASE OnCancel
  <2>1. /\ UNCHANGED <<run, scenario, cmds, pending_global>>
        /\ wire["client"] # <<>> /\ Head(wire["client"]).type = "cancel"
    BY <1>0, <1>4 DEF OnCancel, Arrives, queues, bounds
  <2>2. ASSUME NoCancel(wire["client"]) PROVE FALSE
    <3> DEFINE T == Tail(wire["client"])
    <3>1. T = Tail(wire["client"])
      OBVIOUS
    <3> HIDE DEF T
    <3> QED  BY <1>0, <2>1, <2>2, <3>1, NoCancelTaken
  <2>3. scenario.cancels # {}
    BY <2>2 DEF Kinds
  <2>4. Fwd'
    BY <2>1, <2>3 DEF Fwd
  <2>5. Kinds'
    BY <2>1, <2>3 DEF Kinds
  <2> QED  BY <2>4, <2>5
<1> QED  BY <1>2, <1>3, <1>4

\* An acceptor of the server queues an open.
LEMMA AcceptedForwards ==
    ASSUME Sound, Kinds, Fwd, AcceptAgent \/ \E l \in live : AcceptRemote(l)
    PROVE  Kinds' /\ Fwd'
<1> DEFINE w == wire["client"]  q == wire["server"]  G == pending_global["client"]
           R == remote_forwards  C == cmds["server"]  C2 == cmds'["server"]
<1>0. /\ "server" \in End /\ cmds = [f \in End |-> cmds[f]] /\ Listed(C)
      /\ Only(C, {"forwarded", "agent"})
  BY TwoEnds DEF Kinds
<1>1. Running("server") /\ UNCHANGED <<run, scenario, pending_global, remote_forwards, live, wire>>
  BY DEF AcceptAgent, AcceptRemote, Admit, forwards
<1>2. PICK c : /\ cmds' = [cmds EXCEPT !["server"] = Append(@, c)]
               /\ c.kind \in {"forwarded", "agent"}
               /\ c.kind = "forwarded" =>
                     \E l \in live : c.key = Echo(l) /\ c.target = l.target
  <2>1. CASE AcceptAgent
    <3> DEFINE c == [kind |-> "agent"]
    <3>1. cmds' = [cmds EXCEPT !["server"] = Append(@, c)] /\ c.kind = "agent"
      BY <2>1 DEF AcceptAgent, Admit
    <3> HIDE DEF c
    <3> QED  BY <3>1
  <2>2. ASSUME NEW l \in live, AcceptRemote(l)
        PROVE  \E c : /\ cmds' = [cmds EXCEPT !["server"] = Append(@, c)]
                      /\ c.kind \in {"forwarded", "agent"}
                      /\ c.kind = "forwarded" =>
                            \E h \in live : c.key = Echo(h) /\ c.target = h.target
    <3> DEFINE c == [kind |-> "forwarded", key |-> Echo(l), target |-> l.target]
    <3>1. /\ cmds' = [cmds EXCEPT !["server"] = Append(@, c)]
          /\ c.kind = "forwarded" /\ c.key = Echo(l) /\ c.target = l.target
      BY <2>2 DEF AcceptRemote, Admit
    <3> HIDE DEF c
    <3> QED  BY <3>1
  <2> QED  BY <2>1, <2>2
<1>3. C2 = Append(C, c)
  BY <1>0, <1>2
<1> HIDE DEF w, q, G, R, C, C2
<1>4. Only(C2, {"forwarded", "agent"})
  <2> DEFINE K == {"forwarded", "agent"}
  <2>1. Only(C, K) /\ c.kind \in K
    BY <1>0, <1>2
  <2> HIDE DEF K
  <2>2. Only(C2, K)
    BY <1>0, <1>3, <2>1, OnlyAdded
  <2> QED  BY <2>2 DEF K
<1>5. Kinds'
  BY <1>1, <1>4 DEF Kinds, C2
<1>6. Fwd'
  <2> SUFFICES ASSUME scenario.cancels = {}, Running("client")
               PROVE  Told(q, G, R) /\ View(w, q, G, R, live, C2)
    BY <1>1 DEF Fwd, Running, w, q, G, R, C2
  <2>1. Told(q, G, R) /\ View(w, q, G, R, live, C)
    BY <1>1 DEF Fwd, w, q, G, R, C
  <2>2. c.kind = "forwarded" => Due(q, G, R, c.key, c.target, Len(q))
    <3> SUFFICES ASSUME c.kind = "forwarded" PROVE Due(q, G, R, c.key, c.target, Len(q))
      OBVIOUS
    <3>1. PICK l \in live : c.key = Echo(l) /\ c.target = l.target
      BY <1>2
    <3>2. Due(q, G, R, Echo(l), l.target, Len(q))
      BY <2>1 DEF View, Listening
    <3> QED  BY <3>1, <3>2
  <2>3. View(w, q, G, R, live, C2)
    BY <1>0, <1>3, <2>1, <2>2, ServerQueued
  <2> QED  BY <2>1, <2>3
<1> QED  BY <1>5, <1>6

\* The server opens a channel for a socket, or drops the socket.
LEMMA OpenedForwards ==
    ASSUME Sound, Kinds, Fwd, Open("server") PROVE Kinds' /\ Fwd'
<1> DEFINE w == wire["client"]  q == wire["server"]  q2 == wire'["server"]
           G == pending_global["client"]  R == remote_forwards
           C == cmds["server"]  C2 == cmds'["server"]  h == Head(C)
           m == [type |-> "open", id |-> next_id["server"], open |-> h]
<1>0. /\ "client" \in End /\ "server" \in End /\ cmds = [f \in End |-> cmds[f]] /\ Listed(C)
      /\ wire = [f \in End |-> wire[f]] /\ Listed(q) /\ Only(C, {"forwarded", "agent"})
  BY TwoEnds DEF Kinds
<1>1. /\ Running("server") /\ UNCHANGED <<run, scenario, pending_global, remote_forwards, live>>
      /\ C # <<>> /\ cmds' = [cmds EXCEPT !["server"] = Tail(@)]
  BY DEF Open, Commanded, forwards, bounds
<1>2. C2 = Tail(C)
  BY <1>0, <1>1
<1>3. wire' = wire \/ wire' = [wire EXCEPT !["server"] = Append(@, m)]
  BY DEF Open, Send
<1>4. wire'["client"] = w /\ (q2 = q \/ q2 = Append(q, m))
  <2> HIDE DEF m
  <2> QED  BY <1>0, <1>3
<1>5. m.type \notin Reps /\ m.open = h
  BY DEF Reps
<1> HIDE DEF w, q, q2, G, R, C, C2, m
<1>6. Only(C2, {"forwarded", "agent"})
  BY <1>0, <1>1, <1>2, OnlyTaken
<1>7. Kinds'
  BY <1>1, <1>4, <1>6 DEF Kinds, C2, w
<1>8. Fwd'
  <2> SUFFICES ASSUME scenario.cancels = {}, Running("client")
               PROVE  Told(q2, G, R) /\ View(w, q2, G, R, live, C2)
    BY <1>1, <1>4 DEF Fwd, Running, w, q2, G, R, C2
  <2>1. Told(q, G, R) /\ View(w, q, G, R, live, C)
    BY <1>1 DEF Fwd, w, q, G, R, C
  <2>2. /\ View(w, q, G, R, live, C2)
        /\ h.kind = "forwarded" => Due(q, G, R, h.key, h.target, Len(q))
    BY <1>0, <1>1, <1>2, <2>1, ServerDequeued
  <2>3. CASE q2 = q
    BY <2>1, <2>2, <2>3
  <2>4. CASE q2 = Append(q, m)
    <3>1. IsForward(m) => Due(q, G, R, m.open.key, m.open.target, Len(q))
      BY <1>5, <2>2 DEF IsForward
    <3>2. Told(q2, G, R) /\ (View(w, q, G, R, live, C2) => View(w, q2, G, R, live, C2))
      BY <1>0, <1>5, <2>1, <2>4, <3>1, OtherAdded
    <3> QED  BY <2>2, <3>2
  <2> QED  BY <1>4, <2>3, <2>4
<1> QED  BY <1>7, <1>8

\* The server answers a request of the client's: a keepalive or a forward.
LEMMA RepliedForwards ==
    ASSUME Sound, Kinds, Fwd, OnKeepalive("server") \/ OnForward PROVE Kinds' /\ Fwd'
<1> DEFINE w == wire["client"]  q == wire["server"]  q2 == wire'["server"]
           w2 == wire'["client"]  G == pending_global["client"]  R == remote_forwards
           C == cmds["server"]  p == Head(w)
<1>0. /\ "client" \in End /\ "server" \in End /\ Peer("server") = "client"
      /\ wire = [f \in End |-> wire[f]] /\ Listed(q) /\ Listed(w) /\ Listed(G)
  BY TwoEnds DEF Kinds
<1>1. /\ Running("server") /\ UNCHANGED <<run, scenario, pending_global, remote_forwards, cmds>>
      /\ w # <<>> /\ p.type \in Asking
  BY <1>0 DEF OnKeepalive, OnForward, Arrives, queues, bounds, forwards, Asking
<1>2. ASSUME NEW m, wire' = [wire EXCEPT !["client"] = Tail(@), !["server"] = Append(@, m)]
      PROVE  w2 = Tail(w) /\ q2 = Append(q, m)
  BY <1>0, <1>2
<1>3. \E m : \/ m.type = "refused" /\ live' = live /\ Reply("server", m)
             \/ /\ m.type = "success" /\ p.type = "tcpip-forward" /\ Reply("server", m)
                /\ \E l : /\ live' = live \cup {l} /\ Free(Normalize(l.bind), l.port)
                          /\ l.addr = Normalize(l.bind) /\ l.target = p.target
                          /\ Key(p, m) = Echo(l)
  <2>1. CASE OnKeepalive("server") \/ (OnForward /\ live' = live /\ Reply("server", [type |-> "refused"]))
    <3> DEFINE m == [type |-> "refused"]
    <3>1. m.type = "refused" /\ live' = live /\ Reply("server", m)
      BY <2>1 DEF OnKeepalive, forwards
    <3> HIDE DEF m
    <3> QED  BY <3>1
  <2>2. ASSUME NEW actual \in Bindable(Normalize(p.bind), p.port), p.type = "tcpip-forward",
               Listen(Listener(p, actual), p.port),
               Reply("server", [type |-> "success", port |-> PortEchoed(p.port, actual)])
        PROVE  \E m, l : /\ m.type = "success" /\ Reply("server", m)
                         /\ live' = live \cup {l} /\ Free(Normalize(l.bind), l.port)
                         /\ l.addr = Normalize(l.bind) /\ l.target = p.target
                         /\ Key(p, m) = Echo(l)
    <3> DEFINE m == [type |-> "success", port |-> PortEchoed(p.port, actual)]
               l == Listener(p, actual)
    <3>1. Free(Normalize(p.bind), actual) /\ (p.port # 0 => actual = p.port)
      BY DEF Bindable
    <3>2. /\ l.bind = p.bind /\ l.addr = Normalize(p.bind) /\ l.port = actual
          /\ l.target = p.target
      BY DEF Listener
    <3>3. m.type = "success" /\ m.port = PortEchoed(p.port, actual)
      OBVIOUS
    <3>4. Key(p, m) = Echo(l)
      <4> HIDE DEF m, l, p
      <4> QED  BY <3>1, <3>2, <3>3 DEF Key, Echo, PortEchoed
    <3>5. live' = live \cup {l} /\ Reply("server", m)
      BY <2>2 DEF Listen
    <3> HIDE DEF m, l, p
    <3> QED  BY <3>1, <3>2, <3>3, <3>4, <3>5
  <2>3. OnForward =>
          \/ live' = live /\ Reply("server", [type |-> "refused"])
          \/ p.type = "tcpip-forward" /\
             \E actual \in Bindable(Normalize(p.bind), p.port) :
                /\ Listen(Listener(p, actual), p.port)
                /\ Reply("server", [type |-> "success", port |-> PortEchoed(p.port, actual)])
    BY <1>0 DEF OnForward, Arrives, Packet
  <2> HIDE DEF p
  <2> QED  BY <2>1, <2>2, <2>3
<1> HIDE DEF w, q, q2, w2, G, R, C
<1>4. PICK m : \/ m.type = "refused" /\ live' = live /\ Reply("server", m)
               \/ /\ m.type = "success" /\ p.type = "tcpip-forward" /\ Reply("server", m)
                  /\ \E l : /\ live' = live \cup {l} /\ Free(Normalize(l.bind), l.port)
                            /\ l.addr = Normalize(l.bind) /\ l.target = p.target
                            /\ Key(p, m) = Echo(l)
  BY <1>3
<1>5. w2 = Tail(w) /\ q2 = Append(q, m)
  BY <1>0, <1>2, <1>4 DEF Reply
<1>6. NoCancel(w) => NoCancel(w2)
  BY <1>0, <1>1, <1>5, NoCancelTaken
<1>7. Kinds'
  BY <1>1, <1>6 DEF Kinds, w, w2
<1>8. Fwd'
  <2> SUFFICES ASSUME scenario.cancels = {}, Running("client")
               PROVE  Told(q2, G, R) /\ View(w2, q2, G, R, live', C)
    BY <1>1 DEF Fwd, Running, w2, q2, G, R, C
  <2>1. Told(q, G, R) /\ View(w, q, G, R, live, C)
    BY <1>1 DEF Fwd, w, q, G, R, C
  <2>2. CASE m.type = "refused" /\ live' = live
    <3>1. Told(q2, G, R) /\ View(w2, q2, G, R, live, C)
      BY <1>0, <1>1, <1>5, <2>1, <2>2, ServerRefused
    <3> QED  BY <2>2, <3>1
  <2>3. ASSUME NEW l, m.type = "success", p.type = "tcpip-forward",
               live' = live \cup {l}, Free(Normalize(l.bind), l.port),
               l.addr = Normalize(l.bind), l.target = p.target, Key(p, m) = Echo(l)
        PROVE  Told(q2, G, R) /\ View(w2, q2, G, R, live', C)
    <3>1. ASSUME NEW x \in live, Echo(x) = Echo(l) PROVE FALSE
      <4>1. x.bind = l.bind /\ x.port = l.port
        BY <3>1 DEF Echo
      <4>2. x.addr = Normalize(x.bind)
        BY <2>1 DEF View, Listening
      <4> QED  BY <2>3, <4>1, <4>2 DEF Free
    <3> DEFINE L2 == live'
    <3>2. L2 = live \cup {l} /\ \A x \in live : Echo(x) # Echo(l)
      BY <2>3, <3>1
    <3> HIDE DEF L2
    <3>3. Told(q2, G, R) /\ View(w2, q2, G, R, L2, C)
      BY <1>0, <1>1, <1>5, <2>1, <2>3, <3>2, ServerGranted, ZenonT(60)
    <3> QED  BY <3>3 DEF L2
  <2> QED  BY <1>4, <2>2, <2>3
<1> QED  BY <1>7, <1>8

-----------------------------------------------------------------------------
\* So every step keeps what the two ends know of the forwards.
LEMMA StepForwards == Sound /\ Kinds /\ Fwd /\ [Next]_vars => Kinds' /\ Fwd'
<1> SUFFICES ASSUME Sound, Kinds, Fwd, [Next]_vars PROVE Kinds' /\ Fwd'
  OBVIOUS
<1>1. ASSUME NEW e \in End, Routine(e) PROVE Kinds' /\ Fwd'
  BY <1>1, RoutineForwards
<1>2. CASE RequestForward("server")
  <2>1. cmds["server"] # <<>> /\ Head(cmds["server"]).kind = "tcpip-forward"
    BY <1>2 DEF RequestForward, Commanded
  <2> DEFINE C == cmds["server"]  K == {"forwarded", "agent"}  T == Tail(C)
  <2>2. Listed(C) /\ Only(C, K) /\ T = Tail(C) /\ Head(C).kind \notin K
    BY <2>1, TwoEnds DEF Kinds
  <2> HIDE DEF C, K, T
  <2>3. FALSE
    BY <2>1, <2>2, OnlyTaken DEF C
  <2> QED  BY <2>3
<1>3. ASSUME NEW e \in End, Step(e) PROVE Kinds' /\ Fwd'
  <2>1. CASE e = "client"
    <3>1. \/ Routine("client") \/ OnKeepalive("client") \/ Open("client")
          \/ RequestForward("client") \/ OnGlobalReply("client")
      BY <1>3, <2>1 DEF Step, Routine
    <3> QED  BY <1>1, <1>3, <2>1, <3>1, ClientForwards, AskedForwards, AnsweredForwards
  <2>2. CASE e = "server"
    <3>1. \/ Routine("server") \/ OnKeepalive("server") \/ Open("server")
          \/ RequestForward("server") \/ OnGlobalReply("server") \/ OnForward \/ OnCancel
      BY <1>3, <2>2 DEF Step, Routine
    <3> QED  BY <1>1, <1>2, <1>3, <2>2, <3>1, ServerForwards, OpenedForwards, RepliedForwards
  <2> QED  BY <1>3, <2>1, <2>2 DEF End
<1>4. ASSUME NEW e \in End, Resolve(e) \/ SendClose(e) PROVE Kinds' /\ Fwd'
  BY <1>1, <1>4 DEF Routine
<1>5. CASE Environment
  <2>1. ASSUME NEW e \in End, Probe(e) PROVE Kinds' /\ Fwd'
    BY <2>1, AskedForwards, ServerForwards DEF End
  <2>2. CASE AcceptForNobody \/ (\E t : AcceptLocal(t)) \/ \E k \in scenario.cancels : SendCancel(k)
    BY <2>2, ClientForwards
  <2>3. CASE AcceptAgent \/ \E l \in live : AcceptRemote(l)
    BY <2>3, AcceptedForwards
  <2> QED  BY <1>5, <2>1, <2>2, <2>3 DEF Environment
<1>6. CASE UNCHANGED vars
  BY <1>6 DEF vars, queues, forwards, bounds, Kinds, Fwd, Running
<1> QED  BY <1>3, <1>4, <1>5, <1>6 DEF Next

\* Nothing is asked, granted or listened to at first.
LEMMA InitForwards == Init => Kinds /\ Fwd
<1> SUFFICES ASSUME Init PROVE Kinds /\ Fwd
  OBVIOUS
<1>1. /\ pending_global["client"] = <<>> /\ pending_global["server"] = <<>>
      /\ pending_global = [f \in End |-> pending_global[f]]
      /\ wire["client"] = <<>> /\ wire["server"] = <<>> /\ cmds["server"] = <<>>
      /\ remote_forwards = <<>> /\ live = {}
  BY DEF Init, End
<1>2. Listed(<<>>) /\ Len(<<>>) = 0 /\ \A i : i \notin 1..0
  BY EmptyListed
<1>3. Kinds
  BY <1>1, <1>2 DEF Kinds, Only, NoCancel, End
<1>4. \A i, k, t : ~Grants(<<>>, <<>>, i, k, t)
  BY <1>2 DEF Grants
<1>5. \A k : k \notin DOMAIN <<>>
  OBVIOUS
<1>6. Told(<<>>, <<>>, <<>>)
  BY <1>2, <1>4 DEF Told, Replied, Unique, OpensDue
<1>7. InStep(<<>>, <<>>, <<>>)
  <2>1. Rank(<<>>, 0, Reps) = 0 /\ Rank(<<>>, 0, Asking) = 0
    BY RankNone
  <2> QED  BY <1>2, <2>1 DEF InStep
<1>8. Backed(<<>>, <<>>, <<>>, {}) /\ Listening(<<>>, <<>>, <<>>, {}) /\ Queued(<<>>, <<>>, <<>>, <<>>)
  BY <1>2, <1>4, <1>5 DEF Backed, Listening, Queued
<1>9. Fwd
  BY <1>1, <1>6, <1>7, <1>8 DEF Fwd, View
<1> QED  BY <1>3, <1>9

\* An open that arrives is for a forward registered, and by its exact key.
LEMMA RightTargetIs == Sound /\ Fwd => RightTarget
<1> SUFFICES ASSUME Sound, Fwd, scenario.cancels = {}, Arrives("client", "open"),
                    Packet("client").open.kind = "forwarded"
             PROVE  LookupRemote(Packet("client").open.key) = {Packet("client").open.target}
  BY DEF RightTarget
<1> DEFINE q == wire["server"]  G == pending_global["client"]  R == remote_forwards
           p == Packet("client")  k == p.open.key  t == p.open.target  T == Tail(q)
<1>1. /\ Running("client") /\ Listed(q) /\ q # <<>> /\ Head(q).type = "open" /\ p = Head(q)
      /\ T = Tail(q)
  BY TwoEnds DEF Arrives, Packet
<1>2. Told(q, G, R)
  BY <1>1 DEF Fwd
<1> HIDE DEF q, G, R, T
<1>3. Len(q) \in Nat \ {0} /\ Head(q) = q[1]
  BY <1>1, Taken
<1>4. IsForward(q[1]) /\ q[1] = p
  BY <1>1, <1>3 DEF IsForward
<1> HIDE DEF p
<1>5. Due(q, G, R, q[1].open.key, q[1].open.target, 1 - 1)
  BY <1>2, <1>3, <1>4 DEF Told, OpensDue
<1>6. k \in DOMAIN R /\ R[k] = t
  BY <1>4, <1>5 DEF Due
<1>7. LookupRemote(k) = {R[k]}
  BY <1>6 DEF LookupRemote, R
<1> QED  BY <1>6, <1>7 DEF p

\* However opens, refusals, closes and global replies cross, both ends keep
\* the same account (connect/mux.rs): no protocol error, every permit of
\* open_admission held by a queued open or free, every channel with its other
\* half once all is handled, every forwarded open for its own target.
THEOREM AccountKept == Spec => []Paired
<1>1. Init => IInv /\ OInv /\ Permits /\ Kinds /\ Fwd
  BY InitIInv, InitOInv, InitPermits, InitForwards
<1>2. IInv /\ OInv /\ Permits /\ Kinds /\ Fwd /\ [Next]_vars
        => (IInv /\ OInv /\ Permits /\ Kinds /\ Fwd)'
  BY StepIInv, StepOInv, StepPermits, StepForwards DEF OInv
<1>3. IInv /\ OInv /\ Permits /\ Kinds /\ Fwd => Paired
  BY CoreLeavesNothing, PermitsAre, RightTargetIs DEF OInv, Core, Paired
<1> QED  BY <1>1, <1>2, <1>3, PTL DEF Spec

-----------------------------------------------------------------------------
(* Types.                                                                  *)

\* The ids in a packet.
Proper(m) ==
    /\ m.type \in {"open", "confirm"} => m.id \in Id
    /\ m.type \in {"confirm", "failure", "close"} => m.to \in Id
Packed(q) == \A i \in 1..Len(q) : Proper(q[i])

\* The entries of the tables.
Channels == [id : Id, peer : Id, is_session : BOOLEAN, end_on_close : BOOLEAN,
             sent_close : BOOLEAN]
Waiting == [id : Id, terminal : BOOLEAN]
Connect == [peer : Id, state : Underway \cup {"connected", "failed"}]
Sorted(C, P, K) == C \subseteq Channels /\ P \subseteq Waiting /\ K \subseteq Connect

\* Beyond TypeOK: what is on the wires has to hold ids too, since it is stored.
TInv ==
    /\ \A f \in End : Sorted(channels[f], pending[f], connecting[f]) /\ Packed(wire[f])
    /\ next_id \in [End -> Id]
    /\ run \in [End -> {"running", "ended", "error"}]
    /\ open_admission \in [End -> 0..MaxPendingOpens]

\* A packet is sent ...
LEMMA PackedAdded ==
    ASSUME NEW q, Listed(q), Packed(q), NEW m, Proper(m), NEW q2, q2 = Append(q, m)
    PROVE  Packed(q2) /\ Listed(q2)
<1>0. Listed(q2)
  BY Added
<1>1. /\ Len(q) \in Nat /\ Len(q2) = Len(q) + 1 /\ q2[Len(q) + 1] = m
      /\ \A i \in 1..Len(q) : q2[i] = q[i]
  BY Added
<1>2. \A i \in 1..Len(q2) : i = Len(q) + 1 \/ i \in 1..Len(q)
  BY <1>1
<1> QED  BY <1>0, <1>1, <1>2 DEF Packed

\* ... or read.
LEMMA PackedTaken ==
    ASSUME NEW q, Listed(q), q # <<>>, Packed(q), NEW q2, q2 = Tail(q)
    PROVE  Packed(q2) /\ Proper(Head(q))
<1>1. /\ Len(q) \in Nat \ {0} /\ Head(q) = q[1]
      /\ \A i \in 1..Len(q2) : q2[i] = q[i + 1] /\ i + 1 \in 1..Len(q)
  BY Taken
<1>2. Proper(q[1])
  BY <1>1 DEF Packed
<1> QED  BY <1>1, <1>2 DEF Packed

\* What the packets are after a step that sends proper ones.
LEMMA WiresPacked ==
    ASSUME Sound, TInv, NEW e \in End,
           \/ UNCHANGED wire
           \/ \E m : Proper(m) /\ Send(e, m)
           \/ /\ wire[Peer(e)] # <<>>
              /\ \/ Take(e)
                 \/ \E m : Proper(m) /\ Reply(e, m)
                 \/ \E c : /\ c.peer \in Id
                           /\ wire' = [wire EXCEPT ![Peer(e)] = Tail(@),
                                         ![e] = @ \o CloseAnswer(c) \o Goodbye(c)]
    PROVE  \A f \in End : Packed(wire'[f])
<1> DEFINE p == Peer(e)
<1>0. p \in End /\ p # e /\ \A f \in End : f = e \/ f = p
  BY Peers DEF End
<1>1. /\ wire = [f \in End |-> wire[f]] /\ Listed(wire[e]) /\ Listed(wire[p])
      /\ Packed(wire[e]) /\ Packed(wire[p])
  BY <1>0 DEF Sound, GoodWire, TInv
<1>2. CASE UNCHANGED wire
  BY <1>2 DEF TInv
<1>3. ASSUME NEW m, Proper(m), wire'[e] = Append(wire[e], m) PROVE Packed(wire'[e])
  BY <1>1, <1>3, PackedAdded
<1>4. ASSUME wire[p] # <<>>, wire'[p] = Tail(wire[p]) PROVE Packed(wire'[p])
  BY <1>1, <1>4, PackedTaken
<1>5. ASSUME NEW m, Proper(m), Send(e, m) PROVE Packed(wire'[e]) /\ Packed(wire'[p])
  <2>1. wire'[e] = Append(wire[e], m) /\ wire'[p] = wire[p]
    BY <1>0, <1>1, <1>5 DEF Send
  <2> QED  BY <1>1, <1>3, <1>5, <2>1
<1>6. ASSUME wire[p] # <<>>, Take(e) PROVE Packed(wire'[e]) /\ Packed(wire'[p])
  <2>1. wire'[e] = wire[e] /\ wire'[p] = Tail(wire[p])
    BY <1>0, <1>1, <1>6 DEF Take
  <2> QED  BY <1>1, <1>4, <1>6, <2>1
<1>7. ASSUME wire[p] # <<>>, NEW m, Proper(m), Reply(e, m)
      PROVE  Packed(wire'[e]) /\ Packed(wire'[p])
  <2>1. wire'[e] = Append(wire[e], m) /\ wire'[p] = Tail(wire[p])
    BY <1>0, <1>1, <1>7 DEF Reply
  <2> QED  BY <1>3, <1>4, <1>7, <2>1
<1>8. ASSUME wire[p] # <<>>, NEW c, c.peer \in Id,
             wire' = [wire EXCEPT ![p] = Tail(@), ![e] = @ \o CloseAnswer(c) \o Goodbye(c)]
      PROVE  Packed(wire'[e]) /\ Packed(wire'[p])
  <2>1. wire'[e] = wire[e] \o CloseAnswer(c) \o Goodbye(c) /\ wire'[p] = Tail(wire[p])
    <3>1. Wires(e, wire[e] \o CloseAnswer(c) \o Goodbye(c), Tail(wire[p]))
      BY <1>8, WireAnswered
    <3> QED  BY <3>1 DEF Wires
  <2> DEFINE m == [type |-> "close", to |-> c.peer]  g == [type |-> "disconnect"]
             q == wire[e]  r == q \o CloseAnswer(c)  q2 == wire'[e]
  <2>2. Proper(m) /\ Proper(g)
    BY <1>8 DEF Proper
  <2>3. (CloseAnswer(c) = <<>> \/ CloseAnswer(c) = <<m>>) /\ (Goodbye(c) = <<>> \/ Goodbye(c) = <<g>>)
    BY DEF CloseAnswer, Goodbye
  <2>4. q2 = r \o Goodbye(c) /\ Listed(q) /\ Packed(q)
    BY <1>1, <2>1
  <2> HIDE DEF m, g, q, q2
  <2>5. r = q \/ r = Append(q, m)
    <3>1. q \o <<>> = q /\ q \o <<m>> = Append(q, m)
      BY <2>4, Behind
    <3> QED  BY <2>3, <3>1
  <2> HIDE DEF r
  <2>6. Packed(r) /\ Listed(r)
    BY <2>2, <2>4, <2>5, PackedAdded
  <2>7. q2 = r \/ q2 = Append(r, g)
    <3>1. r \o <<>> = r /\ r \o <<g>> = Append(r, g)
      BY <2>6, Behind
    <3> QED  BY <2>3, <2>4, <3>1
  <2>8. Packed(q2)
    BY <2>2, <2>6, <2>7, PackedAdded
  <2> QED  BY <1>4, <1>8, <2>1, <2>8 DEF q2
<1> QED  BY <1>0, <1>2, <1>5, <1>6, <1>7, <1>8

\* What the tables are after a step that changes those of e.
LEMMA TablesSorted ==
    ASSUME IInv, TInv, NEW e \in End, NEW C, NEW P, NEW K, Sorted(C, P, K),
           channels' = [channels EXCEPT ![e] = C],
           pending' = [pending EXCEPT ![e] = P],
           connecting' = [connecting EXCEPT ![e] = K]
    PROVE  \A f \in End : Sorted(channels'[f], pending'[f], connecting'[f])
<1>1. \A f \in End :
        /\ f = e => channels'[f] = C /\ pending'[f] = P /\ connecting'[f] = K
        /\ f # e => /\ channels'[f] = channels[f] /\ pending'[f] = pending[f]
                    /\ connecting'[f] = connecting[f]
  BY DEF IInv, Tables
<1> QED  BY <1>1 DEF TInv

\* The tables left alone, or those of an end whose loop is over.
LEMMA SortedSame ==
    ASSUME TInv, UNCHANGED <<channels, pending, connecting>>
    PROVE  \A f \in End : Sorted(channels'[f], pending'[f], connecting'[f])
BY DEF TInv

\* The tables of e.
LEMMA SortedNow ==
    ASSUME TInv, NEW e \in End
    PROVE  /\ channels[e] \subseteq Channels /\ pending[e] \subseteq Waiting
           /\ connecting[e] \subseteq Connect /\ next_id[e] \in Id
BY DEF TInv, Sorted

\* A loop that ends empties its tables.
LEMMA EndLoopSorted ==
    ASSUME IInv, TInv, NEW e \in End, NEW how, EndLoop(e, how), UNCHANGED connecting
    PROVE  \A f \in End : Sorted(channels'[f], pending'[f], connecting'[f])
<1>1. Sorted({}, {}, connecting[e])
  BY SortedNow DEF Sorted
<1>2. connecting' = [connecting EXCEPT ![e] = connecting[e]]
  BY SameValue
<1>3. channels' = [channels EXCEPT ![e] = {}] /\ pending' = [pending EXCEPT ![e] = {}]
  BY DEF EndLoop
<1> QED  BY <1>1, <1>2, <1>3, TablesSorted

\* Open enters an open under the next id.
LEMMA OpenTypes ==
    ASSUME IInv, Sound, TInv, NEW e \in End, Open(e)
    PROVE  \A f \in End : /\ Sorted(channels'[f], pending'[f], connecting'[f])
                          /\ Packed(wire'[f])
<1> DEFINE cmd == Head(cmds[e])  n == next_id[e]
           o == [id |-> n, terminal |-> cmd.kind = "session"]
           m == [type |-> "open", id |-> n, open |-> cmd]
<1>1. CASE UNCHANGED <<table, wire>>
  BY <1>1, SortedSame, WiresPacked DEF table
<1>2. CASE /\ pending' = [pending EXCEPT ![e] = pending[e] \cup {o}]
           /\ Send(e, m) /\ UNCHANGED <<channels, connecting>>
  <2>1. n \in Id
    BY SortedNow
  <2>2. o \in Waiting /\ Proper(m)
    BY <2>1 DEF Waiting, Proper
  <2>3. \A f \in End : Packed(wire'[f])
    BY <1>2, <2>2, WiresPacked
  <2> HIDE DEF o, m
  <2> DEFINE P == pending[e] \cup {o}
  <2>4. Sorted(channels[e], P, connecting[e])
    BY <2>2, SortedNow DEF Sorted
  <2>5. /\ channels' = [channels EXCEPT ![e] = channels[e]]
        /\ connecting' = [connecting EXCEPT ![e] = connecting[e]]
        /\ pending' = [pending EXCEPT ![e] = P]
    BY <1>2, SameValue
  <2> HIDE DEF P
  <2>6. \A f \in End : Sorted(channels'[f], pending'[f], connecting'[f])
    BY <2>4, <2>5, TablesSorted
  <2> QED  BY <2>3, <2>6
<1> QED  BY <1>1, <1>2 DEF Open

\* A channel that is entered.
LEMMA ChanType ==
    ASSUME NEW i \in Id, NEW p \in Id, NEW s \in BOOLEAN, NEW t \in BOOLEAN
    PROVE  Chan(i, p, s, t) \in Channels
BY DEF Chan, Channels

\* OnChannelOpen enters a session or a connect, or refuses.
LEMMA OnChannelOpenTypes ==
    ASSUME IInv, Sound, TInv, NEW e \in End, OnChannelOpen(e)
    PROVE  \A f \in End : /\ Sorted(channels'[f], pending'[f], connecting'[f])
                          /\ Packed(wire'[f])
<1> DEFINE p == Packet(e)  n == next_id[e]
<1>1. wire[Peer(e)] # <<>> /\ p = Head(wire[Peer(e)]) /\ p.type = "open"
  BY DEF OnChannelOpen, Arrives, Packet
<1>2. p.id \in Id /\ n \in Id
  <2> DEFINE q == wire[Peer(e)]  T == Tail(q)
  <2>1. Listed(q) /\ Packed(q) /\ T = Tail(q)
    BY Peers DEF Sound, GoodWire, TInv
  <2> HIDE DEF q, T
  <2>2. Proper(Head(q))
    BY <1>1, <2>1, PackedTaken DEF q
  <2> QED  BY <1>1, <2>2, SortedNow DEF Proper, q
<1>3. CASE UNCHANGED table /\ Refuse(e, p.id)
  <2> DEFINE m == [type |-> "failure", to |-> p.id]
  <2>1. Proper(m) /\ Reply(e, m)
    BY <1>2, <1>3 DEF Proper, Refuse
  <2>2. \A f \in End : Packed(wire'[f])
    BY <1>1, <2>1, WiresPacked
  <2> QED  BY <1>3, <2>2, SortedSame DEF table
<1>4. CASE /\ Insert(e, Chan(n, p.id, TRUE, FALSE)) /\ UNCHANGED <<pending, connecting>>
           /\ Reply(e, [type |-> "confirm", to |-> p.id, id |-> n])
  <2> DEFINE m == [type |-> "confirm", to |-> p.id, id |-> n]  c == Chan(n, p.id, TRUE, FALSE)
  <2>1. Proper(m) /\ Reply(e, m)
    BY <1>2, <1>4 DEF Proper
  <2>2. \A f \in End : Packed(wire'[f])
    BY <1>1, <2>1, WiresPacked
  <2>3. c \in Channels /\ channels' = [channels EXCEPT ![e] = channels[e] \cup {c}]
    BY <1>2, <1>4, ChanType DEF Insert
  <2> HIDE DEF c
  <2>4. Sorted(channels[e] \cup {c}, pending[e], connecting[e])
    BY <2>3, SortedNow DEF Sorted
  <2>5. /\ pending' = [pending EXCEPT ![e] = pending[e]]
        /\ connecting' = [connecting EXCEPT ![e] = connecting[e]]
    BY <1>4, SameValue
  <2> QED  BY <2>2, <2>3, <2>4, <2>5, TablesSorted
<1>5. CASE /\ connecting' = [connecting EXCEPT ![e] = connecting[e] \cup
                 {[peer |-> p.id, state |-> Begun(p.open)]}]
           /\ Take(e) /\ UNCHANGED <<channels, pending>>
  <2> DEFINE c == [peer |-> p.id, state |-> Begun(p.open)]
  <2>1. \A f \in End : Packed(wire'[f])
    BY <1>1, <1>5, WiresPacked
  <2>2. c \in Connect
    BY <1>2 DEF Connect, Begun, Underway
  <2> HIDE DEF c
  <2>3. Sorted(channels[e], pending[e], connecting[e] \cup {c})
    BY <2>2, SortedNow DEF Sorted
  <2>4. /\ channels' = [channels EXCEPT ![e] = channels[e]]
        /\ pending' = [pending EXCEPT ![e] = pending[e]]
        /\ connecting' = [connecting EXCEPT ![e] = connecting[e] \cup {c}]
    BY <1>5, SameValue DEF c
  <2> QED  BY <2>1, <2>3, <2>4, TablesSorted
<1> QED  BY <1>3, <1>4, <1>5 DEF OnChannelOpen

\* A connect resolves, and its outcome is handled.
LEMMA ConnectTypes ==
    ASSUME IInv, Sound, TInv, NEW e \in End, Resolve(e) \/ OnConnected(e)
    PROVE  \A f \in End : /\ Sorted(channels'[f], pending'[f], connecting'[f])
                          /\ Packed(wire'[f])
<1>0. /\ channels = [channels EXCEPT ![e] = channels[e]]
      /\ pending = [pending EXCEPT ![e] = pending[e]]
  BY SameValue
<1>1. CASE Resolve(e)
  <2>1. PICK c \in connecting[e], state \in {"connected", "failed"} :
          /\ connecting' = [connecting EXCEPT ![e] =
                (connecting[e] \ {c}) \cup {[c EXCEPT !.state = state]}]
          /\ UNCHANGED <<channels, pending, wire>>
    BY <1>1 DEF Resolve, Reports
  <2> DEFINE d == [c EXCEPT !.state = state]
  <2>2. d \in Connect
    <3>1. c \in Connect
      BY SortedNow
    <3> QED  BY <3>1 DEF Connect
  <2> HIDE DEF d
  <2> DEFINE K == (connecting[e] \ {c}) \cup {d}
  <2>3. Sorted(channels[e], pending[e], K)
    BY <2>2, SortedNow DEF Sorted
  <2>4. /\ connecting' = [connecting EXCEPT ![e] = K]
        /\ channels' = [channels EXCEPT ![e] = channels[e]]
        /\ pending' = [pending EXCEPT ![e] = pending[e]]
    BY <1>0, <2>1 DEF d
  <2> HIDE DEF K
  <2>5. \A f \in End : Sorted(channels'[f], pending'[f], connecting'[f])
    BY <2>3, <2>4, TablesSorted
  <2> QED  BY <2>1, <2>5, WiresPacked
<1>2. CASE OnConnected(e)
  <2> DEFINE n == next_id[e]
  <2>1. PICK c \in connecting[e] :
          /\ connecting' = [connecting EXCEPT ![e] = connecting[e] \ {c}]
          /\ UNCHANGED pending
          /\ \/ /\ Insert(e, Chan(n, c.peer, FALSE, FALSE))
                /\ Send(e, [type |-> "confirm", to |-> c.peer, id |-> n])
             \/ RefuseConnect(e, c) /\ UNCHANGED channels
    BY <1>2 DEF OnConnected
  <2>2. c.peer \in Id /\ n \in Id
    <3>1. c \in Connect
      BY SortedNow
    <3> QED  BY <3>1, SortedNow DEF Connect
  <2> DEFINE C2 == channels[e] \cup {Chan(n, c.peer, FALSE, FALSE)}
  <2>3. \E m : Proper(m) /\ Send(e, m)
    <3> DEFINE m1 == [type |-> "confirm", to |-> c.peer, id |-> n]
               m2 == [type |-> "failure", to |-> c.peer]
    <3>1. Proper(m1) /\ Proper(m2)
      BY <2>2 DEF Proper
    <3>2. Send(e, m1) \/ Send(e, m2)
      BY <2>1 DEF RefuseConnect
    <3> HIDE DEF m1, m2
    <3> QED  BY <3>1, <3>2
  <2>4. \A f \in End : Packed(wire'[f])
    BY <2>3, WiresPacked
  <2>5. C2 \subseteq Channels
    <3>1. Chan(n, c.peer, FALSE, FALSE) \in Channels
      BY <2>2, ChanType
    <3> QED  BY <3>1, SortedNow
  <2>6. channels' = [channels EXCEPT ![e] = channels[e]] \/ channels' = [channels EXCEPT ![e] = C2]
    BY <1>0, <2>1 DEF Insert
  <2> HIDE DEF C2
  <2>7. /\ Sorted(channels[e], pending[e], connecting[e] \ {c})
        /\ Sorted(C2, pending[e], connecting[e] \ {c})
    BY <2>5, SortedNow DEF Sorted
  <2>8. pending' = [pending EXCEPT ![e] = pending[e]]
    BY <1>0, <2>1
  <2> QED  BY <2>1, <2>4, <2>6, <2>7, <2>8, TablesSorted
<1> QED  BY <1>1, <1>2

\* The packet that an end reads next is proper.
LEMMA PacketProper ==
    ASSUME Sound, TInv, NEW e \in End, wire[Peer(e)] # <<>>
    PROVE  Proper(Packet(e))
<1> DEFINE q == wire[Peer(e)]  T == Tail(q)
<1>1. Listed(q) /\ Packed(q) /\ T = Tail(q) /\ q # <<>>
  BY Peers DEF Sound, GoodWire, TInv
<1> HIDE DEF q, T
<1>2. Proper(Head(q))
  BY <1>1, PackedTaken
<1> QED  BY <1>2 DEF Packet, q

\* A confirmation turns an open into a channel, a refusal removes it.
LEMMA VerdictTypes ==
    ASSUME IInv, Sound, TInv, NEW e \in End, OnOpenConfirm(e) \/ OnOpenFailure(e)
    PROVE  \A f \in End : /\ Sorted(channels'[f], pending'[f], connecting'[f])
                          /\ Packed(wire'[f])
<1>0. /\ channels = [channels EXCEPT ![e] = channels[e]]
      /\ connecting = [connecting EXCEPT ![e] = connecting[e]]
  BY SameValue
<1>1. wire[Peer(e)] # <<>> /\ Take(e) /\ UNCHANGED connecting
  BY DEF OnOpenConfirm, OnOpenFailure, Arrives
<1>2. \A f \in End : Packed(wire'[f])
  BY <1>1, WiresPacked
<1>3. ASSUME NEW how, EndLoop(e, how)
      PROVE  \A f \in End : Sorted(channels'[f], pending'[f], connecting'[f])
  BY <1>1, <1>3, EndLoopSorted
<1>4. CASE OnOpenFailure(e)
  <2> DEFINE P == pending[e] \ Opens(e, Packet(e).to)
  <2>1. CASE UNCHANGED channels /\ pending' = [pending EXCEPT ![e] = P]
    <3>1. /\ channels' = [channels EXCEPT ![e] = channels[e]]
          /\ connecting' = [connecting EXCEPT ![e] = connecting[e]]
          /\ pending' = [pending EXCEPT ![e] = P]
      BY <1>0, <1>1, <2>1
    <3>2. Sorted(channels[e], P, connecting[e])
      BY SortedNow DEF Sorted
    <3> HIDE DEF P
    <3>3. \A f \in End : Sorted(channels'[f], pending'[f], connecting'[f])
      BY <3>1, <3>2, TablesSorted
    <3> QED  BY <1>2, <3>3
  <2>2. \/ EndLoop(e, "ended")
        \/ UNCHANGED channels /\ pending' = [pending EXCEPT ![e] = P]
    BY <1>4 DEF OnOpenFailure
  <2> QED  BY <1>2, <1>3, <2>1, <2>2
<1>5. CASE OnOpenConfirm(e)
  <2> DEFINE p == Packet(e)
  <2>1. p.to \in Id /\ p.id \in Id
    <3>1. Proper(p) /\ p.type = "confirm"
      BY <1>1, <1>5, PacketProper DEF OnOpenConfirm, Arrives, Packet
    <3> HIDE DEF p
    <3> QED  BY <3>1 DEF Proper
  <2>2. ASSUME NEW o \in pending[e], pending' = [pending EXCEPT ![e] = pending[e] \ {o}],
               Insert(e, Chan(p.to, p.id, o.terminal, o.terminal))
        PROVE  \A f \in End : Sorted(channels'[f], pending'[f], connecting'[f])
    <3> DEFINE c == Chan(p.to, p.id, o.terminal, o.terminal)
               C == channels[e] \cup {c}  P == pending[e] \ {o}
    <3>1. c \in Channels
      <4>1. o.terminal \in BOOLEAN
        <5>1. o \in Waiting
          BY SortedNow
        <5> QED  BY <5>1 DEF Waiting
      <4> HIDE DEF p
      <4> QED  BY <2>1, <4>1, ChanType
    <3>2. /\ channels' = [channels EXCEPT ![e] = C] /\ pending' = [pending EXCEPT ![e] = P]
          /\ connecting' = [connecting EXCEPT ![e] = connecting[e]]
      BY <1>0, <1>1, <2>2 DEF Insert
    <3> HIDE DEF c
    <3>3. Sorted(C, P, connecting[e])
      BY <3>1, SortedNow DEF Sorted
    <3> HIDE DEF C, P
    <3> QED  BY <3>2, <3>3, TablesSorted
  <2>3. \/ EndLoop(e, "error")
        \/ \E o \in Opens(e, p.to) : /\ pending' = [pending EXCEPT ![e] = pending[e] \ {o}]
                                     /\ Insert(e, Chan(p.to, p.id, o.terminal, o.terminal))
    BY <1>5 DEF OnOpenConfirm
  <2>4. \A o \in Opens(e, p.to) : o \in pending[e]
    BY DEF Opens
  <2> HIDE DEF p
  <2>5. \A f \in End : Sorted(channels'[f], pending'[f], connecting'[f])
    BY <1>3, <2>2, <2>3, <2>4
  <2> QED  BY <1>2, <2>5
<1> QED  BY <1>4, <1>5

\* A close is sent, or read and answered.
LEMMA CloseTypes ==
    ASSUME IInv, Sound, TInv, NEW e \in End, SendClose(e) \/ OnClose(e)
    PROVE  \A f \in End : /\ Sorted(channels'[f], pending'[f], connecting'[f])
                          /\ Packed(wire'[f])
<1>0. /\ pending = [pending EXCEPT ![e] = pending[e]]
      /\ connecting = [connecting EXCEPT ![e] = connecting[e]]
  BY SameValue
<1>1. \A c \in channels[e] : c \in Channels /\ c.peer \in Id
  BY SortedNow DEF Channels
<1>2. ASSUME NEW C, C \subseteq Channels, channels' = [channels EXCEPT ![e] = C],
             UNCHANGED <<pending, connecting>>
      PROVE  \A f \in End : Sorted(channels'[f], pending'[f], connecting'[f])
  <2>1. Sorted(C, pending[e], connecting[e])
    BY <1>2, SortedNow DEF Sorted
  <2>2. /\ pending' = [pending EXCEPT ![e] = pending[e]]
        /\ connecting' = [connecting EXCEPT ![e] = connecting[e]]
        /\ channels' = [channels EXCEPT ![e] = C]
    BY <1>0, <1>2
  <2> QED  BY <2>1, <2>2, TablesSorted
<1>3. CASE SendClose(e)
  <2>1. PICK c \in channels[e] :
          /\ channels' = [channels EXCEPT ![e] =
                (channels[e] \ {c}) \cup {[c EXCEPT !.sent_close = TRUE]}]
          /\ Send(e, [type |-> "close", to |-> c.peer])
          /\ UNCHANGED <<pending, connecting>>
    BY <1>3 DEF SendClose
  <2> DEFINE d == [c EXCEPT !.sent_close = TRUE]  m == [type |-> "close", to |-> c.peer]
             C == (channels[e] \ {c}) \cup {d}
  <2>2. d \in Channels
    BY <1>1 DEF Channels
  <2>3. Proper(m)
    BY <1>1 DEF Proper
  <2>4. \A f \in End : Packed(wire'[f])
    BY <2>1, <2>3, WiresPacked
  <2> HIDE DEF d
  <2>5. C \subseteq Channels
    BY <1>1, <2>2
  <2>6. channels' = [channels EXCEPT ![e] = C] /\ UNCHANGED <<pending, connecting>>
    BY <2>1 DEF d
  <2> HIDE DEF C
  <2>7. \A f \in End : Sorted(channels'[f], pending'[f], connecting'[f])
    BY <1>2, <2>5, <2>6
  <2> QED  BY <2>4, <2>7
<1>4. CASE OnClose(e)
  <2>1. wire[Peer(e)] # <<>> /\ UNCHANGED connecting
    BY <1>4 DEF OnClose, Arrives
  <2>2. \/ Take(e) /\ UNCHANGED <<channels, pending>>
        \/ \E c \in channels[e] :
              /\ wire' = [wire EXCEPT ![Peer(e)] = Tail(@),
                            ![e] = @ \o CloseAnswer(c) \o Goodbye(c)]
              /\ \/ EndLoop(e, "ended")
                 \/ channels' = [channels EXCEPT ![e] = channels[e] \ {c}] /\ UNCHANGED pending
    BY <1>4 DEF OnClose
  <2>3. CASE Take(e) /\ UNCHANGED <<channels, pending>>
    BY <2>1, <2>3, SortedSame, WiresPacked
  <2>4. ASSUME NEW c \in channels[e],
               wire' = [wire EXCEPT ![Peer(e)] = Tail(@),
                          ![e] = @ \o CloseAnswer(c) \o Goodbye(c)],
               \/ EndLoop(e, "ended")
               \/ channels' = [channels EXCEPT ![e] = channels[e] \ {c}] /\ UNCHANGED pending
        PROVE  \A f \in End : /\ Sorted(channels'[f], pending'[f], connecting'[f])
                              /\ Packed(wire'[f])
    <3>1. \A f \in End : Packed(wire'[f])
      <4>1. c.peer \in Id
        BY <1>1
      <4> QED  BY <2>1, <2>4, <4>1, WiresPacked
    <3>2. CASE EndLoop(e, "ended")
      BY <2>1, <3>1, <3>2, EndLoopSorted
    <3>3. CASE channels' = [channels EXCEPT ![e] = channels[e] \ {c}] /\ UNCHANGED pending
      <4> DEFINE C == channels[e] \ {c}
      <4>1. C \subseteq Channels /\ channels' = [channels EXCEPT ![e] = C]
        BY <1>1, <3>3
      <4> HIDE DEF C
      <4>2. \A f \in End : Sorted(channels'[f], pending'[f], connecting'[f])
        BY <1>2, <2>1, <3>3, <4>1
      <4> QED  BY <3>1, <4>2
    <3> QED  BY <2>4, <3>2, <3>3
  <2> QED  BY <2>2, <2>3, <2>4
<1> QED  BY <1>3, <1>4

\* The loop ends because the peer is gone.
LEMMA GoneTypes ==
    ASSUME IInv, Sound, TInv, NEW e \in End, OnDisconnect(e) \/ PeerGone(e)
    PROVE  \A f \in End : /\ Sorted(channels'[f], pending'[f], connecting'[f])
                          /\ Packed(wire'[f])
<1>1. EndLoop(e, "ended") /\ UNCHANGED connecting
  BY DEF OnDisconnect, PeerGone
<1>2. \A f \in End : Sorted(channels'[f], pending'[f], connecting'[f])
  BY <1>1, EndLoopSorted
<1>3. UNCHANGED wire \/ (wire[Peer(e)] # <<>> /\ Take(e))
  BY DEF OnDisconnect, PeerGone, Arrives
<1>4. \A f \in End : Packed(wire'[f])
  BY <1>3, WiresPacked
<1> QED  BY <1>2, <1>4

\* The handlers of global requests, the acceptors and the probes leave the
\* tables alone, and their packets hold no ids.
LEMMA OtherTypes ==
    ASSUME IInv, Sound, TInv,
           \/ \E e \in End : \/ RequestForward(e) \/ OnKeepalive(e) \/ OnGlobalReply(e)
                             \/ Probe(e)
           \/ OnForward \/ OnCancel \/ (\E t : AcceptLocal(t)) \/ AcceptForNobody
           \/ AcceptAgent \/ (\E l : AcceptRemote(l)) \/ (\E k : SendCancel(k))
    PROVE  \A f \in End : /\ Sorted(channels'[f], pending'[f], connecting'[f])
                          /\ Packed(wire'[f])
<1>0. "client" \in End /\ "server" \in End
  BY DEF End
<1>1. UNCHANGED <<channels, pending, connecting>>
  BY DEF RequestForward, OnKeepalive, OnGlobalReply, Probe, OnForward, OnCancel, AcceptLocal,
     AcceptForNobody, AcceptAgent, AcceptRemote, SendCancel, Admit, table
<1>2. \A m : m.type \in {"tcpip-forward", "keepalive", "cancel", "success", "refused"} => Proper(m)
  BY DEF Proper
<1>3. ASSUME NEW e \in End, NEW m,
             m.type \in {"tcpip-forward", "keepalive", "cancel", "success", "refused"},
             Send(e, m) \/ (wire[Peer(e)] # <<>> /\ Reply(e, m))
      PROVE  \A f \in End : Packed(wire'[f])
  <2>1. Proper(m)
    BY <1>2, <1>3
  <2> QED  BY <1>3, <2>1, WiresPacked
<1>4. ASSUME NEW e \in End, RequestForward(e) PROVE \A f \in End : Packed(wire'[f])
  <2> DEFINE c == Head(cmds[e])
             m == [type |-> "tcpip-forward", bind |-> c.bind, port |-> c.port,
                   target |-> c.target]
  <2>1. Send(e, m) /\ m.type = "tcpip-forward"
    BY <1>4 DEF RequestForward
  <2> HIDE DEF m
  <2> QED  BY <1>3, <2>1
<1>5. ASSUME NEW e \in End, OnKeepalive(e) \/ Probe(e) PROVE \A f \in End : Packed(wire'[f])
  <2> DEFINE m == [type |-> "refused"]  g == [type |-> "keepalive"]
  <2>1. /\ m.type = "refused" /\ g.type = "keepalive"
        /\ Send(e, g) \/ (wire[Peer(e)] # <<>> /\ Reply(e, m))
    BY <1>5 DEF OnKeepalive, Probe, Arrives
  <2> HIDE DEF m, g
  <2> QED  BY <1>3, <2>1
<1>6. ASSUME NEW e \in End, OnGlobalReply(e) PROVE \A f \in End : Packed(wire'[f])
  <2>1. wire[Peer(e)] # <<>> /\ Take(e)
    BY <1>6 DEF OnGlobalReply, Arrives
  <2> QED  BY <2>1, WiresPacked
<1>7. ASSUME NEW s \in End, s = "server", OnForward PROVE \A f \in End : Packed(wire'[f])
  <2> DEFINE m == [type |-> "refused"]
  <2>1. /\ wire[Peer(s)] # <<>>
        /\ \/ Reply(s, m)
           \/ \E x : Reply(s, [type |-> "success", port |-> x])
    BY <1>7 DEF OnForward, Arrives
  <2>2. ASSUME Reply(s, m) PROVE \A f \in End : Packed(wire'[f])
    <3>1. m.type = "refused"
      OBVIOUS
    <3> HIDE DEF m
    <3>2. Proper(m)
      BY <1>2, <3>1
    <3> QED  BY <2>1, <2>2, <3>2, WiresPacked
  <2>3. ASSUME NEW x, Reply(s, [type |-> "success", port |-> x])
        PROVE  \A f \in End : Packed(wire'[f])
    <3> DEFINE g == [type |-> "success", port |-> x]
    <3>1. g.type = "success" /\ Reply(s, g)
      BY <2>3
    <3> HIDE DEF g
    <3>2. Proper(g)
      BY <1>2, <3>1
    <3> QED  BY <2>1, <3>1, <3>2, WiresPacked
  <2> HIDE DEF m
  <2> QED  BY <2>1, <2>2, <2>3
<1>8. ASSUME NEW s \in End, s = "server", OnCancel PROVE \A f \in End : Packed(wire'[f])
  <2>1. wire[Peer(s)] # <<>> /\ Take(s)
    BY <1>8 DEF OnCancel, Arrives
  <2> QED  BY <2>1, WiresPacked
<1>9. ASSUME NEW k, NEW c \in End, c = "client", SendCancel(k)
      PROVE  \A f \in End : Packed(wire'[f])
  <2> DEFINE m == [type |-> "cancel", key |-> k]
  <2>1. Send(c, m) /\ m.type = "cancel"
    BY <1>9 DEF SendCancel
  <2> HIDE DEF m
  <2> QED  BY <1>3, <2>1
<1>10. CASE (\E t : AcceptLocal(t)) \/ AcceptForNobody \/ AcceptAgent \/ \E l : AcceptRemote(l)
  <2>1. UNCHANGED wire
    BY <1>10 DEF AcceptLocal, AcceptForNobody, AcceptAgent, AcceptRemote, Admit
  <2>2. \A f \in End : Packed(wire'[f])
    BY <2>1 DEF TInv
  <2>3. \A f \in End : Sorted(channels'[f], pending'[f], connecting'[f])
    BY <1>1 DEF TInv
  <2> QED  BY <2>2, <2>3
<1>11. \A f \in End : Packed(wire'[f])
  BY <1>0, <1>4, <1>5, <1>6, <1>7, <1>8, <1>9, <1>10
<1>12. \A f \in End : Sorted(channels'[f], pending'[f], connecting'[f])
  BY <1>1 DEF TInv
<1> QED  BY <1>11, <1>12

\* Ids are taken modulo IdSpace, and a loop that ends says how.
LEMMA IdsTypes ==
    ASSUME TInv, NEW e \in End, AllocId(e) PROVE next_id' \in [End -> Id]
<1> DEFINE n == (next_id[e] + 1) % IdSpace
<1>1. n \in Id
  <2>1. next_id[e] \in Nat /\ IdSpace \in Nat \ {0}
    BY OpensAssumption DEF TInv, Id
  <2> QED  BY <2>1 DEF Id
<1>2. next_id' = [next_id EXCEPT ![e] = n]
  BY DEF AllocId
<1> HIDE DEF n
<1> QED  BY <1>1, <1>2 DEF TInv

\* How a step changes the ids and the loops.
LEMMA NumbersTypes ==
    ASSUME TInv, [Next]_vars
    PROVE  next_id' \in [End -> Id] /\ run' \in [End -> {"running", "ended", "error"}]
<1>1. UNCHANGED next_id \/ \E e \in End : AllocId(e)
  <2>1. ASSUME NEW e \in End, Step(e) \/ Resolve(e) \/ SendClose(e)
        PROVE  UNCHANGED next_id \/ AllocId(e)
    <3>1. CASE Open(e) \/ RequestForward(e) \/ OnConnected(e) \/ OnChannelOpen(e)
      BY <3>1 DEF Open, RequestForward, OnConnected, OnChannelOpen, table
    <3>2. CASE OnOpenConfirm(e) \/ OnOpenFailure(e) \/ OnClose(e) \/ OnDisconnect(e) \/ PeerGone(e)
      BY <3>2 DEF OnOpenConfirm, OnOpenFailure, OnClose, OnDisconnect, PeerGone
    <3>3. CASE OnKeepalive(e) \/ OnGlobalReply(e) \/ OnForward \/ OnCancel
      BY <3>3 DEF OnKeepalive, OnGlobalReply, OnForward, OnCancel, table
    <3>4. CASE Resolve(e) \/ SendClose(e)
      BY <3>4 DEF Resolve, Reports, SendClose
    <3> QED  BY <2>1, <3>1, <3>2, <3>3, <3>4 DEF Step
  <2>2. CASE Environment
    BY <2>2 DEF Environment, AcceptLocal, AcceptForNobody, AcceptAgent, AcceptRemote, SendCancel,
       Probe, Admit, table
  <2>3. CASE UNCHANGED vars
    BY <2>3 DEF vars, table
  <2> QED  BY <2>1, <2>2, <2>3 DEF Next
<1>2. UNCHANGED run \/ \E e \in End : \E how \in {"ended", "error"} : run' = [run EXCEPT ![e] = how]
  <2>1. ASSUME NEW e \in End, Step(e) \/ Resolve(e) \/ SendClose(e)
        PROVE  UNCHANGED run \/ \E how \in {"ended", "error"} : run' = [run EXCEPT ![e] = how]
    <3>1. CASE Open(e) \/ RequestForward(e) \/ OnConnected(e) \/ OnChannelOpen(e)
      BY <3>1 DEF Open, RequestForward, OnConnected, OnChannelOpen
    <3>2. CASE OnOpenConfirm(e) \/ OnOpenFailure(e) \/ OnClose(e) \/ OnDisconnect(e) \/ PeerGone(e)
      BY <3>2 DEF OnOpenConfirm, OnOpenFailure, OnClose, OnDisconnect, PeerGone, EndLoop
    <3>3. CASE OnKeepalive(e) \/ OnGlobalReply(e) \/ OnForward \/ OnCancel
      BY <3>3 DEF OnKeepalive, OnGlobalReply, OnForward, OnCancel
    <3>4. CASE Resolve(e) \/ SendClose(e)
      BY <3>4 DEF Resolve, Reports, SendClose
    <3> QED  BY <2>1, <3>1, <3>2, <3>3, <3>4 DEF Step
  <2>2. CASE Environment
    BY <2>2 DEF Environment, AcceptLocal, AcceptForNobody, AcceptAgent, AcceptRemote, SendCancel,
       Probe, Admit
  <2>3. CASE UNCHANGED vars
    BY <2>3 DEF vars
  <2> QED  BY <2>1, <2>2, <2>3 DEF Next
<1>3. next_id' \in [End -> Id]
  BY <1>1, IdsTypes DEF TInv
<1>4. run' \in [End -> {"running", "ended", "error"}]
  BY <1>2 DEF TInv
<1> QED  BY <1>3, <1>4

\* A permit is given back by a loop that runs, which took it.
LEMMA PermitTypes ==
    ASSUME Sound, Permits, TInv, [Next]_vars
    PROVE  open_admission' \in [End -> 0..MaxPendingOpens]
<1>1. CASE UNCHANGED open_admission
  BY <1>1 DEF TInv
<1>2. ASSUME NEW e \in End, NEW cmd, Admit(e, cmd)
      PROVE  open_admission' \in [End -> 0..MaxPendingOpens]
  <2>1. /\ open_admission' = [open_admission EXCEPT ![e] = open_admission[e] - 1]
        /\ open_admission[e] > 0 /\ open_admission[e] \in 0..MaxPendingOpens
    BY <1>2 DEF Admit, TInv
  <2>2. open_admission[e] - 1 \in 0..MaxPendingOpens
    BY <2>1, OpensAssumption
  <2> QED  BY <2>1, <2>2 DEF TInv
<1>3. ASSUME NEW e \in End, Open(e) PROVE open_admission' \in [End -> 0..MaxPendingOpens]
  <2> DEFINE q == Tail(cmds[e])  k == Head(cmds[e]).kind  n == Released(e, k)
  <2>1. /\ cmds[e] # <<>> /\ Listed(cmds[e]) /\ k \in OpenKinds /\ Running(e)
        /\ open_admission' = [open_admission EXCEPT ![e] = n]
    BY <1>3 DEF Open, Commanded, OpenKinds, Sound
  <2>2. /\ Commands(q, Tunnels) \in Nat /\ Commands(cmds[e], Tunnels) \in Nat
        /\ k \in Tunnels => Commands(cmds[e], Tunnels) = Commands(q, Tunnels) + 1
    BY <2>1, CommandTaken
  <2>3. /\ open_admission[e] \in 0..MaxPendingOpens /\ MaxPendingOpens \in Nat
        /\ Commands(cmds[e], Tunnels) + open_admission[e] = MaxPendingOpens
    BY <2>1, OpensAssumption DEF TInv, Permits
  <2>4. k # "session" => k \in Tunnels
    BY <2>1 DEF OpenKinds, Tunnels
  <2>5. n \in 0..MaxPendingOpens
    <3> HIDE DEF q, k
    <3> QED  BY <2>2, <2>3, <2>4 DEF Released
  <2> HIDE DEF n
  <2> QED  BY <2>1, <2>5 DEF TInv
<1>4. ASSUME NEW e \in End, Step(e) \/ Resolve(e) \/ SendClose(e), ~Open(e)
      PROVE  UNCHANGED open_admission
  <2>1. CASE RequestForward(e) \/ OnConnected(e) \/ OnChannelOpen(e)
    BY <2>1 DEF RequestForward, OnConnected, OnChannelOpen, queues
  <2>2. CASE OnOpenConfirm(e) \/ OnOpenFailure(e) \/ OnClose(e) \/ OnDisconnect(e) \/ PeerGone(e)
    BY <2>2 DEF OnOpenConfirm, OnOpenFailure, OnClose, OnDisconnect, PeerGone, queues
  <2>3. CASE OnKeepalive(e) \/ OnGlobalReply(e) \/ OnForward \/ OnCancel
    BY <2>3 DEF OnKeepalive, OnGlobalReply, OnForward, OnCancel, queues
  <2>4. CASE Resolve(e) \/ SendClose(e)
    BY <2>4 DEF Resolve, Reports, SendClose, queues
  <2> QED  BY <1>4, <2>1, <2>2, <2>3, <2>4 DEF Step
<1>5. CASE Environment
  <2>1. \/ UNCHANGED open_admission
        \/ \E cmd : Admit("client", cmd) \/ Admit("server", cmd)
    BY <1>5 DEF Environment, AcceptLocal, AcceptForNobody, AcceptAgent, AcceptRemote, SendCancel,
       Probe, queues
  <2> QED  BY <1>1, <1>2, <2>1 DEF End
<1>6. CASE UNCHANGED vars
  BY <1>1, <1>6 DEF vars, queues
<1> QED  BY <1>1, <1>3, <1>4, <1>5, <1>6 DEF Next

\* So the types are kept ...
LEMMA StepTypes == IInv /\ Sound /\ Permits /\ TInv /\ [Next]_vars => TInv'
<1> SUFFICES ASSUME IInv, Sound, Permits, TInv, [Next]_vars PROVE TInv'
  OBVIOUS
<1> DEFINE Good2 == \A f \in End : /\ Sorted(channels'[f], pending'[f], connecting'[f])
                                   /\ Packed(wire'[f])
<1>1. ASSUME NEW e \in End, Step(e) \/ Resolve(e) \/ SendClose(e) PROVE Good2
  <2>1. CASE Open(e)
    BY <2>1, OpenTypes
  <2>2. CASE OnConnected(e) \/ Resolve(e)
    BY <2>2, ConnectTypes
  <2>3. CASE OnChannelOpen(e)
    BY <2>3, OnChannelOpenTypes
  <2>4. CASE OnOpenConfirm(e) \/ OnOpenFailure(e)
    BY <2>4, VerdictTypes
  <2>5. CASE OnClose(e) \/ SendClose(e)
    BY <2>5, CloseTypes
  <2>6. CASE OnDisconnect(e) \/ PeerGone(e)
    BY <2>6, GoneTypes
  <2>7. CASE RequestForward(e) \/ OnKeepalive(e) \/ OnGlobalReply(e) \/ OnForward \/ OnCancel
    BY <2>7, OtherTypes
  <2> HIDE DEF Good2
  <2> QED  BY <1>1, <2>1, <2>2, <2>3, <2>4, <2>5, <2>6, <2>7 DEF Step
<1>2. ASSUME Environment PROVE Good2
  <2>1. \/ \E e \in End : Probe(e)
        \/ (\E t : AcceptLocal(t)) \/ AcceptForNobody
        \/ AcceptAgent \/ (\E l : AcceptRemote(l)) \/ (\E k : SendCancel(k))
    BY <1>2 DEF Environment
  <2> QED  BY <2>1, OtherTypes
<1>3. ASSUME UNCHANGED vars PROVE Good2
  <2>1. UNCHANGED <<channels, pending, connecting, wire>>
    BY <1>3 DEF vars, table
  <2> QED  BY <2>1 DEF TInv
<1>4. Good2
  <2> HIDE DEF Good2
  <2>1. ASSUME Next PROVE Good2
    BY <1>1, <1>2, <2>1 DEF Next
  <2> QED  BY <1>3, <2>1
<1> QED  BY <1>4, NumbersTypes, PermitTypes DEF TInv

\* ... from the start.
LEMMA InitTypes == Init => TInv
<1> SUFFICES ASSUME Init PROVE TInv
  OBVIOUS
<1>1. /\ \A f \in End : /\ channels[f] = {} /\ pending[f] = {} /\ connecting[f] = {}
                        /\ wire[f] = <<>>
      /\ run \in [End -> {"running", "ended", "error"}]
      /\ next_id = [f \in End |-> 0] /\ open_admission = [f \in End |-> MaxPendingOpens]
  BY DEF Init
<1>2. 0 \in Id /\ MaxPendingOpens \in 0..MaxPendingOpens
  BY OpensAssumption DEF Id
<1>3. Sorted({}, {}, {}) /\ Packed(<<>>)
  BY EmptyListed DEF Sorted, Packed
<1> QED  BY <1>1, <1>2, <1>3 DEF TInv

\* These are the types of the state of the two loops (Connection in
\* connect/mux.rs): ids within IdSpace wherever they come from, counters
\* within MAX_CHANNELS and MAX_PENDING_OPENS.
THEOREM TypesKept == Spec => []TypeOK
<1>1. Init => IInv /\ OInv /\ Permits /\ TInv
  BY InitIInv, InitOInv, InitPermits, InitTypes
<1>2. IInv /\ OInv /\ Permits /\ TInv /\ [Next]_vars => (IInv /\ OInv /\ Permits /\ TInv)'
  BY StepIInv, StepOInv, StepPermits, StepTypes DEF OInv
<1>3. IInv /\ OInv /\ Permits /\ TInv => TypeOK
  <2> SUFFICES ASSUME IInv, TInv PROVE TypeOK
    OBVIOUS
  <2>1. pending_connects \in [End -> 0..MaxChannels]
    <3>1. \A f \in End : pending_connects[f] \in 0..MaxChannels
      BY SameValue, OpensAssumption
    <3>2. pending_connects \in [End -> Nat]
      BY DEF IInv, Tables
    <3> QED  BY <3>1, <3>2
  <2>2. \A f \in End : /\ channels[f] \subseteq Channels /\ pending[f] \subseteq Waiting
                       /\ connecting[f] \subseteq Connect
    BY SortedNow
  <2> QED  BY <2>1, <2>2 DEF TInv, TypeOK, Channels, Waiting, Connect
<1> QED  BY <1>1, <1>2, <1>3, PTL DEF Spec
=============================================================================
