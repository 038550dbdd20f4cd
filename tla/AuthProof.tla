----------------------------- MODULE AuthProof ------------------------------
(***************************************************************************)
(* Module Auth, for any number of agent connections, any requests on them, *)
(* any passphrases, credentials, policies and MAX_ATTEMPTS.                *)
(*                                                                         *)
(* First the agent, whoever asks it what: every step of the composition is *)
(* a step of the agent (NextIsAgentStep), and IInv is inductive for those. *)
(* Then the login: LoginInv says, for each place the client can be in,     *)
(* what is under way in both directions, and which credentials the server  *)
(* has turned down for good.                                               *)
(***************************************************************************)
EXTENDS Auth, SequenceTheorems, FiniteSetTheorems, WellFoundedInduction, TLAPS

\* What can be bound and asked at all.
Hops == {Binding(req) : req \in {r \in Meddling \cup {HostBinding} : r.op = "bind"}}
WellAsked(req) ==
    /\ req.op = "bind" => Binding(req) \in Hops
    /\ req.op = "lock" => req.pass \in Pass
    /\ req.op = "add" => req \in Adds

\* The inductive invariant.  A lock is one passphrase that passed set_lock's
\* bound; a connection's path ends at the first hop that does not forward.
LockInv ==
    /\ lock \subseteq Pass
    /\ \A p \in lock : Len(p) <= LockMaxLen
    /\ \A p, q \in lock : p = q
AskInv ==
    /\ request = [c \in Conns |-> request[c]]
    /\ reply = [c \in Conns |-> reply[c]]
    /\ \A c \in Conns : WellAsked(request[c])
IInv ==
    /\ AskInv
    /\ LockInv
    /\ bindings \in [Conns -> Seq(Hops)]
    /\ PathProven

\* How a step of the composition looks from the agent.
AgentStep ==
    \/ UNCHANGED agentVars
    \/ Tick
    \/ \E c \in Conns : Read(c) \/ HangUp(c) \/ Handle(c)
    \/ \E c \in Conns : \E req \in Meddling : Ask(c, req)
    \/ Ask(Login, HostBinding)
    \/ \E req : Ask(Login, req) /\ req.op \in {"list", "sign"}

\* Every step of Auth is a step of the agent, or leaves it alone.
LEMMA NextIsAgentStep ==
    ASSUME [Next]_vars PROVE AgentStep
<1>0. Login \in Conns
  BY AuthAssumption
<1>1. CASE Client
  <2>1. CASE NoAgent \/ DialFails \/ Accepted \/ Exhausted \/ Verdict \/ ClientEof
    BY <2>1 DEF NoAgent, DialFails, Accepted, Exhausted, Verdict, ClientEof, AgentStep
  <2>2. CASE ListIdentities
    <3>1. Ask(Login, [op |-> "list"])
      BY <2>2 DEF ListIdentities
    <3>. QED
      BY <3>1 DEF AgentStep
  <2>3. CASE GotIdentities \/ Bound \/ Signed
    BY <2>3, <1>0 DEF GotIdentities, Bound, Signed, AgentStep
  <2>4. CASE Dialled
    BY <2>4 DEF Dialled, AgentStep
  <2>5. CASE Offer
    <3>1. CASE cl.agent
      <4>1. Ask(Login, [op |-> "sign", blob |-> Cred, data |-> CredSpan])
        BY <2>5, <3>1 DEF Offer
      <4>. DEFINE req == [op |-> "sign", blob |-> Cred, data |-> CredSpan]
      <4>2. req.op = "sign"
        OBVIOUS
      <4>. QED
        BY <4>1, <4>2 DEF AgentStep
    <3>2. CASE ~cl.agent
      BY <2>5, <3>2 DEF Offer, AgentStep
    <3>. QED
      BY <3>1, <3>2
  <2>. QED
    BY <1>1, <2>1, <2>2, <2>3, <2>4, <2>5 DEF Client
<1>2. CASE ForeignSend \/ ForeignLeave \/ Server
  BY <1>2 DEF ForeignSend, ForeignLeave, Server, Service, UserauthRequest,
              ServerEof, AgentStep
<1>3. CASE Serve
  BY <1>3 DEF Serve, AgentStep
<1>4. CASE Meddle
  BY <1>4 DEF Meddle, AgentStep
<1>5. CASE Lose \/ Clock
  BY <1>5 DEF Lose, Clock, AgentStep
<1>6. CASE UNCHANGED vars
  BY <1>6 DEF vars, AgentStep
<1>. QED
  BY <1>1, <1>2, <1>3, <1>4, <1>5, <1>6 DEF Next

-----------------------------------------------------------------------------
(* The inductive invariant, part by part.                                  *)

\* The agent starts unlocked, with nothing asked and nothing bound.
LEMMA InitIInv == ASSUME Init PROVE IInv
<1>. USE DEF Init, AgentInit
<1>1. AskInv
  BY DEF AskInv, WellAsked, Idle
<1>2. LockInv
  BY DEF LockInv
<1>3. bindings \in [Conns -> Seq(Hops)] /\ PathProven
  BY DEF PathProven
<1>. QED
  BY <1>1, <1>2, <1>3 DEF IInv

\* What is answered is no longer asked.
LEMMA HandleAsk ==
    ASSUME AskInv, NEW c \in Conns, Handle(c)
    PROVE  AskInv'
<1>1. \E ans : /\ request' = [request EXCEPT ![c] = Idle]
              /\ reply' = [reply EXCEPT ![c] = ans]
  BY DEF Handle, HandleSealed, HandleList, HandleSign, HandleAdd, HandleRemove,
         HandleRemoveAll, HandleLock, HandleUnlock, HandleBind, Refuse, Success,
         Answer
<1>2. WellAsked(Idle)
  BY DEF WellAsked, Idle
<1>. QED
  BY <1>1, <1>2 DEF AskInv

\* Requests and replies stay per connection and well formed.
LEMMA AskKept ==
    ASSUME AskInv, AgentStep PROVE AskInv'
<1>0. Login \in Conns
  BY AuthAssumption
<1>1. CASE UNCHANGED agentVars \/ Tick \/ \E c \in Conns : Read(c) \/ HangUp(c)
  <2>1. request' = request /\ \A c \in Conns : WellAsked(request'[c])
    BY <1>1 DEF agentVars, Tick, Read, HangUp, AskInv, WellAsked
  <2>. QED
    BY <1>1, <2>1 DEF AskInv, agentVars, Tick, Read, HangUp
<1>2. CASE \E c \in Conns : Handle(c)
  BY <1>2, HandleAsk
<1>3. ASSUME NEW c \in Conns, NEW req, Ask(c, req), WellAsked(req) PROVE AskInv'
  BY <1>3 DEF AskInv, Ask
<1>4. CASE \E c \in Conns : \E req \in Meddling : Ask(c, req)
  <2>1. \A req \in Meddling : WellAsked(req)
    BY AuthAssumption DEF WellAsked, Hops, Adds
  <2>. QED
    BY <2>1, <1>3, <1>4
<1>5. CASE Ask(Login, HostBinding)
  <2>1. HostBinding.op = "bind"
    BY DEF HostBinding
  <2>2. WellAsked(HostBinding)
    BY <2>1 DEF WellAsked, Hops
  <2>. QED
    BY <2>2, <1>0, <1>3, <1>5
<1>6. CASE \E req : Ask(Login, req) /\ req.op \in {"list", "sign"}
  BY <1>0, <1>3, <1>6 DEF WellAsked
<1>. QED
  BY <1>1, <1>2, <1>4, <1>5, <1>6 DEF AgentStep

\* Only set_lock sets a lock, and only on an unlocked store.
LEMMA LockKept ==
    ASSUME AskInv, LockInv, AgentStep PROVE LockInv'
<1>1. CASE UNCHANGED lock
  BY <1>1 DEF LockInv
<1>2. ASSUME NEW c \in Conns, HandleLock(c) PROVE LockInv'
  <2>1. CASE Refuse(c)
    BY <2>1 DEF Refuse, LockInv
  <2>2. CASE Lockable(request[c].pass) /\ lock' = {request[c].pass}
    <3>1. request[c].pass \in Pass
      BY <1>2 DEF HandleLock, Open, Handles, AskInv, WellAsked
    <3>. QED
      BY <2>2, <3>1 DEF Lockable, LockInv
  <2>. QED
    BY <1>2, <2>1, <2>2 DEF HandleLock
<1>3. ASSUME NEW c \in Conns, HandleUnlock(c) PROVE LockInv'
  BY <1>3 DEF HandleUnlock, Refuse, LockInv
<1>4. ASSUME NEW c \in Conns, Handle(c), ~HandleLock(c), ~HandleUnlock(c)
      PROVE  UNCHANGED lock
  BY <1>4 DEF Handle, HandleSealed, HandleList, HandleSign, HandleAdd,
              HandleRemove, HandleRemoveAll, HandleBind, Refuse
<1>. QED
  BY <1>1, <1>2, <1>3, <1>4 DEF AgentStep, agentVars, Tick, Read, HangUp, Ask

\* A path grows only by session_bind, at its end.
LEMMA PathKept ==
    ASSUME AskInv, bindings \in [Conns -> Seq(Hops)], PathProven, AgentStep
    PROVE  bindings' \in [Conns -> Seq(Hops)] /\ PathProven'
<1>1. CASE UNCHANGED bindings
  BY <1>1 DEF PathProven
<1>2. ASSUME NEW c \in Conns, HangUp(c)
      PROVE  bindings' \in [Conns -> Seq(Hops)] /\ PathProven'
  BY <1>2 DEF HangUp, PathProven
<1>3. ASSUME NEW c \in Conns, HandleBind(c)
      PROVE  bindings' \in [Conns -> Seq(Hops)] /\ PathProven'
  <2>1. CASE Refuse(c)
    BY <2>1, <1>1 DEF Refuse
  <2>2. CASE ~Refuse(c)
    <3>. DEFINE req == request[c]
                hop == Binding(req)
    <3>1. /\ ~Replayed(c, req.session_id) /\ ~EndsHere(c)
          /\ bindings' = [bindings EXCEPT ![c] = Append(bindings[c], hop)]
      BY <1>3, <2>2 DEF HandleBind
    <3>2. hop \in Hops
      BY <1>3 DEF HandleBind, Open, Handles, AskInv, WellAsked
    <3>3. bindings' \in [Conns -> Seq(Hops)]
      BY <3>1, <3>2
    <3>4. hop.session_id = req.session_id
      BY DEF Binding
    <3>. HIDE DEF hop, req
    <3>5. ASSUME NEW d \in Conns, NEW i \in DOMAIN bindings'[d]
          PROVE  /\ i < Len(bindings'[d]) => bindings'[d][i].is_forwarding
                 /\ \A j \in DOMAIN bindings'[d] :
                      bindings'[d][i].session_id = bindings'[d][j].session_id => i = j
      <4>1. CASE d # c
        BY <4>1, <3>1 DEF PathProven
      <4>2. CASE d = c
        <5>. DEFINE path == bindings[c]
                    n == Len(path)
        <5>0. path \in Seq(Hops) /\ n \in Nat
          OBVIOUS
        <5>1. /\ bindings'[d] = Append(path, hop)
              /\ DOMAIN bindings'[d] = 1..n + 1
              /\ Len(bindings'[d]) = n + 1
              /\ \A k \in 1..n : bindings'[d][k] = path[k]
              /\ bindings'[d][n + 1] = hop
          BY <4>2, <3>1, <3>2
        <5>2. DOMAIN path = 1..n
          BY <5>0
        <5>3. \A k \in 1..n : k < n => path[k].is_forwarding
          BY <5>2 DEF PathProven
        <5>4. n # 0 => path[n].is_forwarding
          BY <3>1, <5>0 DEF EndsHere
        <5>5. \A k \in 1..n : path[k].session_id # hop.session_id
          BY <3>1, <3>4, <5>2 DEF Replayed
        <5>6. \A k, m \in 1..n : path[k].session_id = path[m].session_id => k = m
          BY <5>2 DEF PathProven
        <5>. DEFINE long == bindings'[d]
        <5>7. i < Len(long) => i \in 1..n /\ (i < n \/ (i = n /\ n # 0))
          BY <5>0, <5>1
        <5>. HIDE DEF path, n, long
        <5>8. i < Len(long) => path[i].is_forwarding
          BY <5>3, <5>4, <5>7
        <5>9. i < Len(long) => long[i] = path[i]
          BY <5>1, <5>7 DEF long
        <5>10. ASSUME NEW j \in 1..n + 1, long[i].session_id = long[j].session_id
               PROVE  i = j
          <6>1. i \in 1..n \/ i = n + 1
            BY <5>0, <5>1
          <6>2. j \in 1..n \/ j = n + 1
            BY <5>0
          <6>. QED
            BY <6>1, <6>2, <5>1, <5>5, <5>6, <5>10 DEF long
        <5>. QED
          BY <5>1, <5>8, <5>9, <5>10 DEF long
      <4>. QED
        BY <4>1, <4>2
    <3>. QED
      BY <3>3, <3>5 DEF PathProven
  <2>. QED
    BY <2>1, <2>2
<1>4. ASSUME NEW c \in Conns, Handle(c), ~HandleBind(c) PROVE UNCHANGED bindings
  BY <1>4 DEF Handle, HandleSealed, HandleList, HandleSign, HandleAdd,
              HandleRemove, HandleRemoveAll, HandleLock, HandleUnlock, Refuse
<1>. QED
  BY <1>1, <1>2, <1>3, <1>4 DEF AgentStep, agentVars, Tick, Read, Ask

-----------------------------------------------------------------------------
\* Whatever connections ask in whatever order, IInv holds.
THEOREM AgentInvariant == Spec => []IInv
<1>1. Init => IInv
  BY InitIInv
<1>2. IInv /\ [Next]_vars => IInv'
  <2>. SUFFICES ASSUME IInv, [Next]_vars PROVE IInv'
    OBVIOUS
  <2>1. AgentStep
    BY NextIsAgentStep
  <2>. QED
    BY <2>1, AskKept, LockKept, PathKept DEF IInv
<1>. QED
  BY <1>1, <1>2, PTL DEF Spec

\* session_bind: on every connection to the agent, for any requests on any
\* number of connections, the recorded hops are a path without repetitions
\* in which only the last hop may not forward.
THEOREM ProvenPaths == Spec => []PathProven
<1>1. IInv => PathProven
  BY DEF IInv
<1>. QED
  BY <1>1, AgentInvariant, PTL

\* set_lock and unset_lock: for any LOCK_MAX_LEN and any passphrases, a
\* locked store is unlocked by the passphrase it was locked with and by no
\* other, although what is compared is two zero-padded buffers.
THEOREM LockHasItsKey == Spec => []Unlockable
<1>1. IInv => Unlockable
  <2>. SUFFICES ASSUME IInv, lock # {}, NEW pass \in Pass
                PROVE  Unlocks(pass) <=> pass \in lock
    BY DEF Unlockable
  <2>1. Pass \subseteq Seq(Nat) /\ LockMaxLen \in Nat
    BY AgentAssumption
  <2>2. PICK held \in lock : lock = {held} /\ held \in Pass /\ Len(held) <= LockMaxLen
    BY DEF IInv, LockInv
  <2>3. held \in Seq(Nat) /\ pass \in Seq(Nat)
    BY <2>1, <2>2
  <2>4. pass = held => Unlocks(pass)
    BY <2>2, <2>3 DEF Unlocks, Comparable
  <2>5. Unlocks(pass) => pass = held
    <3>. SUFFICES ASSUME Unlocks(pass) PROVE pass = held
      OBVIOUS
    <3>1. Len(held) = Len(pass) /\ Padded(held) = Padded(pass)
      BY <2>2 DEF Unlocks
    <3>2. \A i \in 1..Len(held) : held[i] = Padded(held)[i] /\ pass[i] = Padded(pass)[i]
      BY <2>1, <2>2, <2>3, <3>1 DEF Padded
    <3>. QED
      BY <3>1, <3>2, <2>3, SeqEqual
  <2>. QED
    BY <2>2, <2>4, <2>5
<1>. QED
  BY <1>1, AgentInvariant, PTL

\* Keyring::handle: for any requests on any number of connections, a locked
\* store gives nothing away and takes nothing in before it is unlocked.
THEOREM SealedWhileLocked == Spec => LockSeals
<1>. DEFINE Sealed ==
        lock # {} =>
          /\ lock' \in {lock, {}}
          /\ keys' \in {keys, Purged}
          /\ \A c \in Conns : bindings'[c] \in {bindings[c], <<>>}
          /\ \A c \in Conns : Gives(reply'[c]) => reply'[c] = reply[c]
<1>1. IInv /\ [Next]_vars => [Sealed]_agentVars
  <2>. SUFFICES ASSUME IInv, [Next]_vars, lock # {} PROVE Sealed \/ UNCHANGED agentVars
    OBVIOUS
  <2>0. /\ reply = [c \in Conns |-> reply[c]]
        /\ bindings = [c \in Conns |-> bindings[c]]
    BY DEF IInv, AskInv
  <2>1. AgentStep
    BY NextIsAgentStep
  <2>2. ASSUME NEW c \in Conns, Handle(c) PROVE Sealed
    <3>1. HandleSealed(c) \/ HandleList(c) \/ HandleUnlock(c)
      BY <2>2 DEF Handle, HandleSign, HandleAdd, HandleRemove, HandleRemoveAll,
                  HandleLock, HandleBind, Open, Handles, Gate
    <3>2. PICK ans : reply' = [reply EXCEPT ![c] = ans] /\ ~Gives(ans)
      <4>1. ~Gives([op |-> "success"]) /\ ~Gives([op |-> "failure"])
        BY DEF Gives
      <4>2. CASE Refuse(c)
        <5>1. Answer(c, [op |-> "failure"])
          BY <4>2 DEF Refuse
        <5>. QED
          BY <5>1, <4>1 DEF Answer
      <4>3. CASE Success(c)
        <5>1. Answer(c, [op |-> "success"])
          BY <4>3 DEF Success
        <5>. QED
          BY <5>1, <4>1 DEF Answer
      <4>4. CASE HandleList(c)
        <5>1. Answer(c, [op |-> "identities", blobs |-> <<>>])
          BY <4>4 DEF HandleList
        <5>2. ~Gives([op |-> "identities", blobs |-> <<>>])
          BY DEF Gives
        <5>. QED
          BY <5>1, <5>2 DEF Answer
      <4>. QED
        BY <3>1, <4>2, <4>3, <4>4 DEF HandleSealed, HandleUnlock
    <3>3. /\ keys' = Purged /\ bindings' = bindings
          /\ lock' = lock \/ lock' = {}
      BY <3>1 DEF HandleSealed, HandleList, HandleUnlock, Refuse
    <3>4. \A d \in Conns : Gives(reply'[d]) => reply'[d] = reply[d]
      BY <3>2, <2>0
    <3>. QED
      BY <3>3, <3>4
  <2>3. ASSUME NEW c \in Conns, Read(c) PROVE Sealed
    <3>1. ~Gives(Idle)
      BY DEF Gives, Idle
    <3>. QED
      BY <2>3, <3>1, <2>0 DEF Read
  <2>4. ASSUME NEW c \in Conns, HangUp(c) PROVE Sealed
    BY <2>4, <2>0 DEF HangUp
  <2>5. ASSUME UNCHANGED <<keys, lock, bindings, reply>> PROVE Sealed
    BY <2>5
  <2>. HIDE DEF Sealed
  <2>. QED
    BY <2>1, <2>2, <2>3, <2>4, <2>5 DEF AgentStep, Ask, Tick
<1>. QED
  BY <1>1, AgentInvariant, PTL DEF Spec, LockSeals

-----------------------------------------------------------------------------
(* Retain, with which the agent's store and its answers are filtered.      *)

\* A set of numbers that is not empty has a least one.
LEMMA LeastNat ==
    ASSUME NEW T, T \subseteq Nat, T # {}
    PROVE  \E x \in T : \A y \in T : x <= y
<1>1. PICK x \in T : \A y \in T : ~(<<y, x>> \in OpToRel(<, Nat))
  BY NatLessThanWellFounded, WFMin
<1>2. \A y \in T : ~(y < x)
  BY <1>1 DEF OpToRel
<1>3. \A y \in T : x \in Nat /\ y \in Nat
  BY <1>1
<1>4. \A y \in T : x <= y
  BY <1>2, <1>3
<1>. QED
  BY <1>1, <1>4

\* Every rank up to the size of a set of places is the rank of one of them.
LEMMA RankTaken ==
    ASSUME NEW L \in Nat, NEW at, at \subseteq 1..L, NEW n \in 1..Cardinality(at)
    PROVE  \E i \in at : Rank(at, i) = n
<1>. DEFINE Upto(k) == {j \in at : j <= k}
<1>1. IsFiniteSet(at) /\ Cardinality(at) \in Nat
  <2>1. IsFiniteSet(1..L)
    BY FS_Interval
  <2>. QED
    BY <2>1, FS_Subset, FS_CardinalityType
<1>2. \A k \in Nat : IsFiniteSet(Upto(k)) /\ Cardinality(Upto(k)) \in Nat
  <2>1. \A k \in Nat : Upto(k) \in SUBSET at
    OBVIOUS
  <2>2. \A k \in Nat : IsFiniteSet(Upto(k))
    BY <1>1, <2>1, FS_Subset
  <2>. QED
    BY <2>2, FS_CardinalityType
<1>. DEFINE T == {k \in Nat : n <= Cardinality(Upto(k))}
<1>0. \A j \in at : j \in Nat /\ j <= L /\ j >= 1
  OBVIOUS
<1>3. Upto(L) = at
  BY <1>0
<1>4. L \in T
  BY <1>3
<1>5. PICK k \in T : \A y \in T : k <= y
  <2>1. T \subseteq Nat /\ T # {}
    BY <1>4
  <2>. QED
    BY <2>1, LeastNat
<1>6. k # 0
  <2>1. Upto(0) = {}
    <3>1. \A j \in at : ~(j <= 0)
      BY <1>0
    <3>. QED
      BY <3>1
  <2>2. Cardinality(Upto(0)) = 0
    BY <2>1, FS_EmptySet
  <2>. QED
    BY <1>5, <2>2
<1>7. k \in Nat /\ k - 1 \in Nat /\ k - 1 \notin T
  <2>1. k \in Nat /\ k - 1 \in Nat /\ ~(k <= k - 1)
    BY <1>5, <1>6
  <2>. HIDE DEF T
  <2>. QED
    BY <1>5, <2>1
<1>8. Upto(k) = Upto(k - 1) \cup (IF k \in at THEN {k} ELSE {})
  <2>1. \A j \in at : j <= k <=> (j <= k - 1 \/ j = k)
    BY <1>0, <1>7
  <2>. QED
    BY <2>1
<1>9. CASE k \in at
  <2>1. Upto(k) = Upto(k - 1) \cup {k} /\ k \notin Upto(k - 1)
    BY <1>7, <1>8, <1>9
  <2>2. Cardinality(Upto(k)) = Cardinality(Upto(k - 1)) + 1
    <3>. DEFINE S == Upto(k - 1)
    <3>1. IsFiniteSet(S)
      BY <1>2, <1>7
    <3>. HIDE DEF Upto, S
    <3>2. Cardinality(S \cup {k}) = IF k \in S THEN Cardinality(S) ELSE Cardinality(S) + 1
      BY <3>1, FS_AddElement
    <3>. QED
      BY <2>1, <3>2 DEF S
  <2>3. Cardinality(Upto(k)) = n
    <3>. DEFINE C(j) == Cardinality(Upto(j))
    <3>1. C(k) \in Nat /\ C(k - 1) \in Nat /\ n <= C(k) /\ ~(n <= C(k - 1)) /\ n \in Nat
      <4>1. C(k) \in Nat /\ C(k - 1) \in Nat
        BY <1>2, <1>7
      <4>2. n <= C(k)
        BY <1>5
      <4>3. ~(n <= C(k - 1))
        BY <1>7
      <4>. QED
        BY <1>1, <4>1, <4>2, <4>3
    <3>2. C(k) = C(k - 1) + 1
      BY <2>2
    <3>. HIDE DEF C
    <3>3. C(k) = n
      BY <3>1, <3>2
    <3>. QED
      BY <3>3 DEF C
  <2>. QED
    BY <1>9, <2>3 DEF Rank
<1>10. CASE k \notin at
  <2>1. Upto(k) = Upto(k - 1)
    BY <1>8, <1>10
  <2>. QED
    BY <1>5, <1>7, <2>1
<1>. QED
  BY <1>9, <1>10

\* What is retained of a sequence is a sequence of the same things.
LEMMA Retained ==
    ASSUME NEW S, NEW s \in Seq(S), NEW at, at \subseteq DOMAIN s
    PROVE  Retain(s, at) \in Seq(S)
<1>. DEFINE L == Len(s)
            m == Cardinality(at)
<1>1. L \in Nat /\ at \subseteq 1..L /\ \A i \in 1..L : s[i] \in S
  OBVIOUS
<1>2. m \in Nat
  <2>1. IsFiniteSet(1..L)
    BY <1>1, FS_Interval
  <2>. QED
    BY <1>1, <2>1, FS_Subset, FS_CardinalityType
<1>3. ASSUME NEW n \in 1..m PROVE s[CHOOSE i \in at : Rank(at, i) = n] \in S
  <2>1. \E i \in at : Rank(at, i) = n
    BY <1>1, <1>3, RankTaken
  <2>2. (CHOOSE i \in at : Rank(at, i) = n) \in at
    BY <2>1
  <2>. QED
    BY <1>1, <2>2
<1>4. Retain(s, at) \in [1..m -> S]
  BY <1>3 DEF Retain
<1>. QED
  BY <1>2, <1>4

\* purge_expired leaves a list of what was stored.
LEMMA PurgedType ==
    ASSUME keys \in Seq(Entries) PROVE Purged \in Seq(Entries)
BY Retained DEF Purged

\* Taking a key out leaves a list of what was stored.
LEMMA WithoutType ==
    ASSUME NEW ks \in Seq(Entries), NEW blob PROVE Without(ks, blob) \in Seq(Entries)
BY Retained DEF Without

\* Certificates first is a list of the same credentials.
LEMMA CertsFirstType ==
    ASSUME NEW ids \in Seq(Credentials) PROVE CertsFirst(ids) \in Seq(Credentials)
<1>1. OfAlgo(ids, "cert") \in Seq(Credentials) /\ OfAlgo(ids, "ed25519") \in Seq(Credentials)
  BY Retained DEF OfAlgo
<1>. QED
  BY <1>1 DEF CertsFirst

-----------------------------------------------------------------------------
(* The store holds credentials, whatever is added to it and when.          *)

KeysInv == keys \in Seq(Entries) /\ now \in Nat

\* Whatever an agent handles, its store holds credentials there are and the
\* clock does not run back.
LEMMA KeysKept ==
    ASSUME AskInv, KeysInv, AgentStep PROVE KeysInv'
<1>0. Purged \in Seq(Entries) /\ keys \in Seq(Entries) /\ now \in Nat
  BY PurgedType DEF KeysInv
<1>1. ASSUME NEW c \in Conns, Handle(c) PROVE KeysInv'
  <2>0. now' = now
    BY <1>1 DEF Handle, HandleSealed, HandleList, HandleSign, HandleAdd, HandleRemove,
                HandleRemoveAll, HandleLock, HandleUnlock, HandleBind, Refuse, Success,
                Answer
  <2>1. CASE keys' = Purged \/ keys' = <<>>
    <3>1. <<>> \in Seq(Entries)
      OBVIOUS
    <3>2. keys' \in Seq(Entries)
      BY <1>0, <2>1, <3>1
    <3>. QED
      BY <1>0, <2>0, <3>2 DEF KeysInv
  <2>2. CASE HandleAdd(c) /\ keys' # Purged
    <3>. DEFINE req == request[c]
                entry == [blob |-> req.blob, constraints |-> req.constraints,
                          expires |-> IF req.lifetime = Never THEN Never
                                      ELSE now + req.lifetime]
    <3>1. keys' = Append(Without(Purged, req.blob), entry) /\ req \in Adds
      BY <2>2 DEF HandleAdd, Refuse, Open, Handles, AskInv, WellAsked
    <3>2. /\ req.blob \in Credentials
          /\ req.constraints \in {q.constraints : q \in Adds}
          /\ req.lifetime \in Int \cup {Never}
      BY <3>1, CredentialAssumption DEF Credentials
    <3>3. (IF req.lifetime = Never THEN Never ELSE now + req.lifetime) \in Int \cup {Never}
      BY <1>0, <3>2
    <3>4. entry \in Entries
      BY <3>2, <3>3 DEF Entries
    <3>5. Without(Purged, req.blob) \in Seq(Entries)
      BY <1>0, WithoutType
    <3>. HIDE DEF entry, req
    <3>. QED
      BY <1>0, <2>0, <3>1, <3>4, <3>5 DEF KeysInv
  <2>3. CASE HandleRemove(c) /\ keys' # Purged
    <3>1. keys' = Without(Purged, request[c].blob)
      BY <2>3 DEF HandleRemove, Refuse
    <3>. QED
      BY <1>0, <2>0, <3>1, WithoutType DEF KeysInv
  <2>. QED
    BY <1>1, <2>1, <2>2, <2>3
       DEF Handle, HandleSealed, HandleList, HandleSign, HandleAdd, HandleRemove,
           HandleRemoveAll, HandleLock, HandleUnlock, HandleBind, Refuse
<1>2. CASE Tick
  BY <1>0, <1>2 DEF Tick, KeysInv
<1>3. CASE UNCHANGED <<keys, now>>
  BY <1>3 DEF KeysInv
<1>. QED
  BY <1>1, <1>2, <1>3 DEF AgentStep, agentVars, Read, HangUp, Ask

-----------------------------------------------------------------------------
(* The login.                                                              *)

Message(x) == [t |-> x]
Early == {"start", "listing", "dial", "binding"}
Places == Early \cup {"service", "offer", "signing", "verdict", "in", "failed", "foreign"}

LoginType ==
    /\ policy \in Policies /\ file \in Files /\ lost \in BOOLEAN
    /\ cl \in [at : Places, agent : BOOLEAN, creds : Seq(Credentials), i : Nat \ {0},
               refused : SUBSET Nat]
    /\ cl.refused \subseteq 1..(cl.i - 1)
    /\ sv = [at |-> sv.at, left |-> sv.left, as |-> sv.as]
    /\ sv.left \in 0..MaxAttempts
    /\ sv.at \in {"service", "auth", "in", "failed"}
    /\ sv.at \in {"service", "auth"} => sv.left > 0

\* What the client asks of the agent is answered with what it asked for.
SignRequest == [op |-> "sign", blob |-> Cred, data |-> CredSpan]
LoginAsk ==
    /\ cl.at \notin {"listing", "binding", "signing"} =>
         request[Login] = Idle /\ reply[Login] = Idle
    /\ cl.at = "listing" =>
         \/ request[Login] = [op |-> "list"] /\ reply[Login] = Idle
         \/ request[Login] = Idle /\ reply[Login].blobs \in Seq(Credentials)
    /\ cl.at = "binding" => request[Login] = Idle \/ reply[Login] = Idle
    /\ cl.at = "signing" =>
         \/ request[Login] = SignRequest /\ reply[Login] = Idle
         \/ request[Login] = Idle
              /\ \/ reply[Login] = [op |-> "failure"]
                 \/ reply[Login] = [op |-> "signature", sig |-> Signature(Cred.key, CredSpan)]

\* The server has seen none of the client's offers.
Fresh ==
    /\ cl.i = 1 /\ cl.refused = {}
    /\ sv.left = MaxAttempts
    /\ sv.at = "failed" => lost

\* The server has answered the first k credentials but for those the agent did
\* not sign with, and it has taken none of them.
Offers(k) == Cardinality((1..k) \ cl.refused)
Answered(k) ==
    /\ sv.at \in {"auth", "failed"}
    /\ sv.left = MaxAttempts - Offers(k)
    /\ sv.at = "auth" => sv.left > 0
    /\ sv.at = "failed" /\ ~lost => sv.left = 0
    /\ \A i \in DOMAIN cl.creds \ cl.refused : i <= k => ~Acceptable(i)

Offered == Request(Cred, Signature(Cred.key, CredSpan))
Unread == {<<>>, <<Message("banner")>>}
Answers(x) == {<<Message(x)>>, <<Message("banner"), Message(x)>>}

\* Where the conversation is when the client is at a given place.
TalkEarly ==
    cl.at \in Early =>
        /\ c2s = <<>> /\ s2c = <<>> /\ sv.at \in {"service", "failed"} /\ Fresh
        /\ cl.at \in {"start", "listing"} => cl.creds = <<>>
TalkService ==
    cl.at = "service" =>
        /\ Fresh
        /\ \/ c2s = <<Message("service")>> /\ s2c = <<>> /\ sv.at \in {"service", "failed"}
           \/ /\ c2s = <<>> /\ sv.at \in {"auth", "failed"}
              /\ s2c \in {<<Message("accept")>>, <<Message("accept"), Message("banner")>>}
TalkOffer ==
    cl.at \in {"offer", "signing"} =>
        /\ c2s = <<>> /\ s2c \in Unread /\ Answered(cl.i - 1)
        /\ cl.at = "signing" => cl.i <= Len(cl.creds)
TalkVerdict ==
    cl.at = "verdict" =>
        /\ cl.i <= Len(cl.creds)
        /\ \/ c2s = <<Offered>> /\ s2c \in Unread /\ Answered(cl.i - 1)
           \/ c2s = <<>> /\ s2c \in Answers("failure") /\ Answered(cl.i)
           \/ c2s = <<>> /\ s2c \in Answers("success") /\ sv.at = "in" /\ sv.as = {Cred}
TalkOver ==
    /\ cl.at = "in" => sv.at = "in" /\ sv.as = {Cred}
    /\ cl.at = "failed" =>
         \/ sv.at = "failed"
         \/ c2s = <<>> /\ sv.at \in {"service", "auth"}
         \/ lost /\ c2s = <<Message("service")>> /\ sv.at = "service"
         \/ lost /\ c2s = <<Offered>> /\ sv.at = "auth"
         \/ lost /\ sv.at = "in" /\ sv.as = {Cred}
         \/ cl.creds = <<>> /\ sv.at # "in" /\ \E m \in Foreign : c2s = <<m>>
    /\ cl.at = "foreign" =>
         /\ cl.creds = <<>> /\ sv.at # "in"
         /\ c2s = <<>> \/ \E m \in Foreign : c2s = <<m>>

TalkInv == TalkEarly /\ TalkService /\ TalkOffer /\ TalkVerdict /\ TalkOver /\ LastResort

LoginInv == LoginType /\ LoginAsk /\ TalkInv

talkVars == <<policy, file, cl, sv, c2s, s2c, lost>>

\* A login starts before anything is listed, dialled or sent.
LEMMA LoginInit == ASSUME Init PROVE LoginInv /\ KeysInv
<1>. USE DEF Init, AgentInit
<1>0. Login \in Conns /\ MaxAttempts \in Nat \ {0}
  BY AuthAssumption
<1>1. KeysInv
  BY CredentialAssumption DEF KeysInv
<1>a. PICK a \in {"start", "foreign"} :
            cl = [at |-> a, agent |-> FALSE, creds |-> <<>>, i |-> 1, refused |-> {}]
  OBVIOUS
<1>b. sv = [at |-> "service", left |-> MaxAttempts, as |-> {}]
  OBVIOUS
<1>3. /\ cl.at \in {"start", "foreign"} /\ cl.agent = FALSE /\ cl.creds = <<>> /\ cl.i = 1
      /\ cl.refused = {} /\ sv.at = "service" /\ sv.left = MaxAttempts
  BY ONLY <1>a, <1>b
<1>4. LoginType
  <2>1. cl \in [at : Places, agent : BOOLEAN, creds : Seq(Credentials), i : Nat \ {0},
                refused : SUBSET Nat]
    BY ONLY <1>a DEF Places, Early
  <2>2. sv = [at |-> sv.at, left |-> sv.left, as |-> sv.as]
    BY ONLY <1>b
  <2>3. sv.left \in 0..MaxAttempts /\ sv.at \in {"service", "auth", "in", "failed"} /\ sv.left > 0
    BY ONLY <1>0, <1>3
  <2>4. cl.refused \subseteq 1..(cl.i - 1)
    BY ONLY <1>3
  <2>5. policy \in Policies /\ file \in Files /\ lost \in BOOLEAN
    OBVIOUS
  <2>. QED
    BY ONLY <2>1, <2>2, <2>3, <2>4, <2>5 DEF LoginType
<1>5. LoginAsk
  BY <1>0, <1>3 DEF LoginAsk
<1>6. Fresh
  BY <1>3 DEF Fresh
<1>7. TalkEarly /\ TalkService /\ TalkOffer /\ TalkVerdict /\ TalkOver
  BY <1>3, <1>6 DEF TalkEarly, TalkService, TalkOffer, TalkVerdict, TalkOver, Early
<1>8. LastResort
  BY <1>3 DEF LastResort
<1>. QED
  BY <1>1, <1>4, <1>5, <1>7, <1>8 DEF LoginInv, TalkInv

-----------------------------------------------------------------------------
(* Steps of the agent and of the clock.                                    *)

\* The answer on one connection is to the request on it.
LEMMA HandleAnswers ==
    ASSUME AskInv, KeysInv, NEW c \in Conns, Handle(c)
    PROVE  /\ request[c] # Idle
           /\ \A d \in Conns : d # c => request'[d] = request[d] /\ reply'[d] = reply[d]
           /\ request'[c] = Idle
           /\ request[c].op = "list" => reply'[c].blobs \in Seq(Credentials)
           /\ request[c].op = "sign" =>
                \/ reply'[c] = [op |-> "failure"]
                \/ reply'[c] = [op |-> "signature",
                                sig |-> [key |-> request[c].blob.key, over |-> request[c].data]]
<1>0. reply = [d \in Conns |-> reply[d]] /\ request = [d \in Conns |-> request[d]]
  BY DEF AskInv
<1>1. PICK ans : request' = [request EXCEPT ![c] = Idle] /\ reply' = [reply EXCEPT ![c] = ans]
  BY DEF Handle, HandleSealed, HandleList, HandleSign, HandleAdd, HandleRemove,
         HandleRemoveAll, HandleLock, HandleUnlock, HandleBind, Refuse, Success,
         Answer
<1>2. /\ \A d \in Conns : d # c => request'[d] = request[d] /\ reply'[d] = reply[d]
      /\ request'[c] = Idle
  BY <1>0, <1>1
<1>3. request[c] # Idle
  BY DEF Handle, HandleSealed, HandleList, HandleSign, HandleAdd, HandleRemove,
         HandleRemoveAll, HandleLock, HandleUnlock, HandleBind, Open, Handles, Idle
<1>4. ASSUME request[c].op = "list" PROVE reply'[c].blobs \in Seq(Credentials)
  <2>1. HandleList(c)
    BY <1>4 DEF Handle, HandleSealed, Gate, HandleSign, HandleAdd, HandleRemove,
         HandleRemoveAll, HandleLock, HandleUnlock, HandleBind, Open, Handles
  <2>. DEFINE ids == IF lock # {} THEN <<>> ELSE [i \in DOMAIN Purged |-> Purged[i].blob]
  <2>2. reply' = [reply EXCEPT ![c] = [op |-> "identities", blobs |-> ids]]
    BY <2>1 DEF HandleList, Answer
  <2>3. Purged \in Seq(Entries)
    BY PurgedType DEF KeysInv
  <2>4. ids \in Seq(Credentials)
    <3>0. \A i \in DOMAIN Purged : Purged[i] \in Entries
      BY <2>3
    <3>1. \A i \in DOMAIN Purged : Purged[i].blob \in Credentials
      BY <3>0 DEF Entries
    <3>2. [i \in DOMAIN Purged |-> Purged[i].blob] \in Seq(Credentials)
      BY <2>3, <3>1
    <3>3. <<>> \in Seq(Credentials)
      OBVIOUS
    <3>. QED
      BY <3>2, <3>3
  <2>. HIDE DEF ids
  <2>5. reply'[c] = [op |-> "identities", blobs |-> ids]
    BY <1>0, <2>2
  <2>. QED
    BY <2>4, <2>5
<1>5. ASSUME request[c].op = "sign"
      PROVE  \/ reply'[c] = [op |-> "failure"]
             \/ reply'[c] = [op |-> "signature",
                             sig |-> [key |-> request[c].blob.key, over |-> request[c].data]]
  <2>1. HandleSign(c) \/ HandleSealed(c)
    BY <1>5 DEF Handle, HandleList, HandleAdd, HandleRemove,
         HandleRemoveAll, HandleLock, HandleUnlock, HandleBind, Open, Handles
  <2>2. \/ reply' = [reply EXCEPT ![c] = [op |-> "failure"]]
        \/ reply' = [reply EXCEPT ![c] = [op |-> "signature",
                        sig |-> [key |-> request[c].blob.key, over |-> request[c].data]]]
    BY <2>1 DEF HandleSign, HandleSealed, Refuse, Answer
  <2>. QED
    BY <1>0, <2>2
<1>. QED
  BY <1>2, <1>3, <1>4, <1>5

\* What is acceptable was so before: certificates only run out.
LEMMA OnceAcceptable ==
    ASSUME LoginType, policy' = policy, cl'.creds = cl.creds,
           now \in Nat, now' \in Nat, now <= now',
           NEW i \in DOMAIN cl.creds, Acceptable(i)'
    PROVE  Acceptable(i)
<1>. DEFINE b == cl.creds[i]
            m == Request(b, {})
<1>1. b \in Credentials
  BY DEF LoginType
<1>2. b.after \in Int /\ b.until \in Int
  BY <1>1, CredentialAssumption
<1>3. m.user = User /\ m.blob = b /\ m.algo = b.algo
  BY DEF Request
<1>4. b.after <= 0 /\ (Acceptable(i) <=> Authorized(m))
  BY DEF Acceptable
<1>5. /\ policy' = policy
      /\ UserAllowed(User)' <=> UserAllowed(User)
      /\ AuthorizeCert(b, User)' => AuthorizeCert(b, User)
  BY <1>2, <1>4 DEF AuthorizeCert, UserAllowed, ValidAt
<1>. QED
  BY <1>3, <1>4, <1>5 DEF Acceptable, Authorized

\* The clock moves on, and the client and its server stay where they are.
Later == now \in Nat /\ now' \in Nat /\ now <= now' /\ policy' = policy

\* A credential the server has turned down stays turned down: certificates
\* only expire.
LEMMA StillAnswered ==
    ASSUME LoginType, Later, cl'.creds = cl.creds, cl'.refused = cl.refused,
           sv' = sv, lost => lost', NEW k, Answered(k)
    PROVE  Answered(k)'
<1>1. \A i \in DOMAIN cl.creds : Acceptable(i)' => Acceptable(i)
  <2>. TAKE i \in DOMAIN cl.creds
  <2>. HAVE Acceptable(i)'
  <2>. QED
    BY OnceAcceptable DEF Later
<1>2. Offers(k)' = Offers(k)
  BY DEF Offers
<1>. QED
  BY <1>1, <1>2 DEF Answered

\* A client that has given up still had nothing better later on.
LEMMA StillLast ==
    ASSUME LoginType, Later, UNCHANGED <<cl, sv>>, lost => lost', LastResort
    PROVE  LastResort'
<1>1. \A i \in DOMAIN cl.creds : Acceptable(i)' => Acceptable(i)
  <2>. TAKE i \in DOMAIN cl.creds
  <2>. HAVE Acceptable(i)'
  <2>. QED
    BY OnceAcceptable DEF Later
<1>. QED
  BY <1>1 DEF LastResort, Acceptable

\* A step that leaves client, server and wire alone keeps what is true of them.
LEMMA StillTalking ==
    ASSUME LoginType, TalkInv, Later, UNCHANGED talkVars
    PROVE  LoginType' /\ TalkInv'
<1>. USE DEF talkVars
<1>1. LoginType'
  BY DEF LoginType
<1>2. Fresh' <=> Fresh
  BY DEF Fresh
<1>3. Offered' = Offered /\ Cred' = Cred
  BY DEF Offered, Cred, CredSpan
<1>4. \A k : Answered(k) => Answered(k)'
  <2>. TAKE k
  <2>. QED
    BY StillAnswered
<1>5. LastResort'
  BY StillLast DEF TalkInv
<1>6. TalkEarly' /\ TalkService'
  BY <1>2 DEF TalkInv, TalkEarly, TalkService
<1>7. TalkOffer' /\ TalkVerdict'
  BY <1>3, <1>4 DEF TalkInv, TalkOffer, TalkVerdict
<1>8. TalkOver'
  BY <1>3 DEF TalkInv, TalkOver
<1>. QED
  BY <1>1, <1>5, <1>6, <1>7, <1>8 DEF TalkInv

\* What the login waits for from the agent depends on its own connection only.
LEMMA AskUndisturbed ==
    ASSUME LoginAsk, cl' = cl, request'[Login] = request[Login], reply'[Login] = reply[Login]
    PROVE  LoginAsk'
BY DEF LoginAsk, SignRequest, Cred, CredSpan

\* An answer of the agent, to the login or to another connection.
LEMMA ServeKeeps ==
    ASSUME AskInv, KeysInv, KeysInv', LoginInv, Serve PROVE LoginInv'
<1>1. PICK c \in Conns : Handle(c) /\ UNCHANGED authVars
  BY DEF Serve
<1>2. UNCHANGED talkVars /\ Login \in Conns /\ LoginAsk
  BY <1>1, AuthAssumption DEF authVars, talkVars, LoginInv
<1>3. Later
  <2>1. now' = now
    BY <1>1 DEF Handle, HandleSealed, HandleList, HandleSign, HandleAdd, HandleRemove,
                HandleRemoveAll, HandleLock, HandleUnlock, HandleBind, Refuse, Success,
                Answer
  <2>. QED
    BY <1>2, <2>1 DEF Later, KeysInv, talkVars
<1>4. LoginAsk'
  <2>0. /\ request[c] # Idle
        /\ \A d \in Conns : d # c => request'[d] = request[d] /\ reply'[d] = reply[d]
        /\ request'[c] = Idle
        /\ request[c].op = "list" => reply'[c].blobs \in Seq(Credentials)
        /\ request[c].op = "sign" =>
             \/ reply'[c] = [op |-> "failure"]
             \/ reply'[c] = [op |-> "signature",
                             sig |-> [key |-> request[c].blob.key, over |-> request[c].data]]
    BY <1>1, HandleAnswers
  <2>1. CASE c # Login
    BY <1>2, <2>0, <2>1, AskUndisturbed DEF talkVars
  <2>2. CASE c = Login /\ cl.at = "listing"
    <3>1. request[c] = [op |-> "list"]
      BY <1>2, <2>0, <2>2 DEF LoginAsk
    <3>2. request'[Login] = Idle /\ reply'[Login].blobs \in Seq(Credentials)
      BY <2>0, <2>2, <3>1
    <3>. QED
      BY <1>2, <2>2, <3>2 DEF LoginAsk, talkVars
  <2>3. CASE c = Login /\ cl.at = "signing"
    <3>1. request[c] = SignRequest
      BY <1>2, <2>0, <2>3 DEF LoginAsk
    <3>2. request[c].op = "sign" /\ request[c].blob = Cred /\ request[c].data = CredSpan
      BY <3>1 DEF SignRequest
    <3>3. /\ request'[Login] = Idle
          /\ \/ reply'[Login] = [op |-> "failure"]
             \/ reply'[Login] = [op |-> "signature", sig |-> Signature(Cred.key, CredSpan)]
      BY <2>0, <2>3, <3>2 DEF Signature
    <3>4. Cred' = Cred /\ CredSpan' = CredSpan
      BY <1>2 DEF talkVars, Cred, CredSpan
    <3>. QED
      BY <1>2, <2>3, <3>3, <3>4 DEF LoginAsk, talkVars
  <2>4. CASE c = Login /\ cl.at \notin {"listing", "signing"}
    <3>1. cl.at = "binding"
      BY <1>2, <2>0, <2>4 DEF LoginAsk
    <3>. QED
      BY <1>2, <2>0, <2>4, <3>1 DEF LoginAsk, talkVars
  <2>. QED
    BY <2>1, <2>2, <2>3, <2>4
<1>. QED
  BY <1>2, <1>3, <1>4, StillTalking DEF LoginInv

\* A request of another connection is not one of the login's.
LEMMA MeddleKeeps ==
    ASSUME AskInv, KeysInv, KeysInv', LoginInv, Meddle PROVE LoginInv'
<1>1. PICK c \in Conns \ {Login} :
        \/ /\ \E req \in Meddling : Ask(c, req)
           /\ UNCHANGED <<policy, file, cl, sv, c2s, s2c, lost>>
        \/ (Read(c) \/ HangUp(c)) /\ UNCHANGED authVars
  BY DEF Meddle
<1>2. UNCHANGED talkVars /\ Login \in Conns /\ LoginAsk /\ cl' = cl
  BY <1>1, AuthAssumption DEF authVars, talkVars, LoginInv
<1>3. now' = now
  BY <1>1 DEF Ask, Read, HangUp
<1>4. Later
  BY <1>2, <1>3 DEF Later, KeysInv, talkVars
<1>5. request'[Login] = request[Login] /\ reply'[Login] = reply[Login]
  BY <1>1, <1>2 DEF Ask, Read, HangUp, AskInv
<1>. QED
  BY <1>2, <1>4, <1>5, AskUndisturbed, StillTalking DEF LoginInv

\* The clock runs: certificates and stored keys may expire, none comes back.
LEMMA ClockKeeps ==
    ASSUME KeysInv, KeysInv', LoginInv, Clock PROVE LoginInv'
<1>1. UNCHANGED talkVars /\ cl' = cl /\ LoginAsk /\ LoginType /\ TalkInv
  BY DEF Clock, authVars, talkVars, LoginInv
<1>2. Later
  BY <1>1 DEF Later, KeysInv, Clock, Tick, talkVars
<1>3. request'[Login] = request[Login] /\ reply'[Login] = reply[Login]
  BY DEF Clock, Tick
<1>. QED
  BY <1>1, <1>2, <1>3, AskUndisturbed, StillTalking DEF LoginInv

-----------------------------------------------------------------------------
(* Counting the offers.                                                    *)

\* The places up to n that were not refused can be counted.
LEMMA OffersNat ==
    ASSUME NEW n \in Nat, NEW R
    PROVE  IsFiniteSet((1..n) \ R) /\ Cardinality((1..n) \ R) \in Nat
<1>1. IsFiniteSet(1..n)
  BY FS_Interval
<1>2. (1..n) \ R \in SUBSET (1..n)
  OBVIOUS
<1>. QED
  BY <1>1, <1>2, FS_Subset, FS_CardinalityType

\* One credential further is one offer more.
LEMMA OneMore ==
    ASSUME NEW n \in Nat \ {0}, NEW R, R \subseteq 1..(n - 1)
    PROVE  Cardinality((1..n) \ R) = Cardinality((1..(n - 1)) \ R) + 1
<1>. DEFINE S == (1..(n - 1)) \ R
<1>1. IsFiniteSet(S)
  BY OffersNat
<1>2. (1..n) \ R = S \cup {n} /\ n \notin S
  OBVIOUS
<1>. HIDE DEF S
<1>3. Cardinality(S \cup {n}) = IF n \in S THEN Cardinality(S) ELSE Cardinality(S) + 1
  BY <1>1, FS_AddElement
<1>. QED
  BY <1>2, <1>3 DEF S

\* There are no fewer of them up to a later place.
LEMMA NoLess ==
    ASSUME NEW n \in Nat, NEW k \in Nat, n <= k, NEW R
    PROVE  Cardinality((1..n) \ R) <= Cardinality((1..k) \ R)
<1>1. IsFiniteSet((1..k) \ R)
  BY OffersNat
<1>2. (1..n) \ R \in SUBSET ((1..k) \ R)
  OBVIOUS
<1>. QED
  BY <1>1, <1>2, FS_Subset

-----------------------------------------------------------------------------
(* Steps of the client.                                                    *)

\* The client as the record it is, field by field.
Fields(at, agent, creds, i, refused) ==
    [at |-> at, agent |-> agent, creds |-> creds, i |-> i, refused |-> refused]

\* The client's record, field by field.
LEMMA ClientFields ==
    ASSUME LoginType
    PROVE  /\ cl = Fields(cl.at, cl.agent, cl.creds, cl.i, cl.refused)
           /\ cl.at \in Places /\ cl.agent \in BOOLEAN /\ cl.creds \in Seq(Credentials)
           /\ cl.i \in Nat \ {0} /\ cl.refused \subseteq 1..(cl.i - 1)
BY DEF LoginType, Fields

\* Typing is a matter of the fields that change.
LEMMA MoveType ==
    ASSUME LoginType, UNCHANGED <<policy, file>>, lost' \in BOOLEAN, sv' = sv,
           NEW at \in Places, NEW agent \in BOOLEAN, NEW creds \in Seq(Credentials),
           NEW i \in Nat \ {0}, NEW refused, refused \subseteq 1..(i - 1),
           cl' = Fields(at, agent, creds, i, refused)
    PROVE  LoginType'
<1>1. cl' \in [at : Places, agent : BOOLEAN, creds : Seq(Credentials), i : Nat \ {0},
               refused : SUBSET Nat]
  BY DEF Fields
<1>2. cl'.refused \subseteq 1..(cl'.i - 1)
  BY DEF Fields
<1>. QED
  BY <1>1, <1>2 DEF LoginType

\* The client goes on with its identity file, or gives up when there is none.
LEMMA UseFileKeeps ==
    ASSUME LoginType, TalkInv, cl.at \in {"start", "listing"}, UseFile,
           UNCHANGED <<policy, file, sv, c2s, s2c, lost>>,
           request'[Login] = Idle, reply'[Login] = Idle
    PROVE  LoginInv'
<1>0. cl.i = 1 /\ cl.refused = {} /\ cl.creds = <<>> /\ Fresh /\ c2s = <<>> /\ s2c = <<>>
      /\ sv.at \in {"service", "failed"}
  BY DEF TalkInv, TalkEarly, Early, Fresh
<1>1. PICK at \in Places, ag \in BOOLEAN : cl = Fields(at, ag, <<>>, 1, {})
  BY <1>0, ClientFields
<1>2. \/ cl' = Fields("failed", ag, <<>>, 1, {})
      \/ cl' = Fields("dial", ag, file, 1, {})
  BY ONLY <1>1, UseFile DEF UseFile, Fields
<1>3. LoginType'
  <2>1. file \in Seq(Credentials) /\ <<>> \in Seq(Credentials) /\ lost \in BOOLEAN
    BY CredentialAssumption DEF LoginType
  <2>2. "failed" \in Places /\ "dial" \in Places /\ {} \subseteq 1..(1 - 1) /\ 1 \in Nat \ {0}
    BY DEF Places, Early
  <2>3. CASE cl' = Fields("failed", ag, <<>>, 1, {})
    BY <1>1, <2>1, <2>2, <2>3, MoveType
  <2>4. CASE cl' = Fields("dial", ag, file, 1, {})
    BY <1>1, <2>1, <2>2, <2>4, MoveType
  <2>. QED
    BY <1>2, <2>3, <2>4
<1>4. cl'.at \in {"failed", "dial"} /\ cl'.i = 1 /\ cl'.refused = {}
      /\ (cl'.at = "failed" => cl'.creds = <<>>)
  BY <1>2 DEF Fields
<1>5. LoginAsk'
  BY <1>4 DEF LoginAsk
<1>6. Fresh'
  BY <1>0, <1>4 DEF Fresh
<1>7. TalkEarly' /\ TalkService' /\ TalkOffer' /\ TalkVerdict' /\ TalkOver'
  BY <1>0, <1>4, <1>6 DEF TalkEarly, TalkService, TalkOffer, TalkVerdict, TalkOver, Early
<1>8. LastResort'
  BY <1>4 DEF LastResort
<1>. QED
  BY <1>3, <1>5, <1>7, <1>8 DEF LoginInv, TalkInv

\* connect without an agent.
LEMMA NoAgentKeeps ==
    ASSUME LoginInv, NoAgent PROVE LoginInv'
<1>1. request[Login] = Idle /\ reply[Login] = Idle
  BY DEF LoginInv, LoginAsk, NoAgent
<1>2. request'[Login] = Idle /\ reply'[Login] = Idle
  BY <1>1 DEF NoAgent, agentVars
<1>. QED
  BY <1>2, UseFileKeeps DEF NoAgent, LoginInv

\* The client waits for the agent, and nothing else happens to the talk.
LEMMA EarlyKeeps ==
    ASSUME LoginInv, cl.at \in Early, UNCHANGED <<policy, file, sv, c2s, s2c, lost>>,
           NEW at \in Early, NEW agent \in BOOLEAN, NEW creds \in Seq(Credentials),
           cl' = Fields(at, agent, creds, 1, {}),
           at \in {"start", "listing"} => creds = <<>>,
           LoginAsk'
    PROVE  LoginInv'
<1>0. Fresh /\ c2s = <<>> /\ s2c = <<>> /\ sv.at \in {"service", "failed"}
  BY DEF LoginInv, TalkInv, TalkEarly, Early
<1>1. cl'.at = at /\ cl'.i = 1 /\ cl'.refused = {} /\ cl'.creds = creds
  BY DEF Fields
<1>2. LoginType'
  <2>1. LoginType /\ lost' \in BOOLEAN /\ at \in Places /\ {} \subseteq 1..(1 - 1)
        /\ 1 \in Nat \ {0} /\ sv' = sv
    BY DEF LoginInv, LoginType, Places
  <2>. QED
    BY <2>1, MoveType
<1>3. Fresh'
  BY <1>0, <1>1 DEF Fresh
<1>4. TalkEarly' /\ TalkService' /\ TalkOffer' /\ TalkVerdict' /\ TalkOver' /\ LastResort'
  BY <1>0, <1>1, <1>3
     DEF TalkEarly, TalkService, TalkOffer, TalkVerdict, TalkOver, LastResort, Early
<1>. QED
  BY <1>2, <1>4 DEF LoginInv, TalkInv

\* connect asks the agent for its identities.
LEMMA ListIdentitiesKeeps ==
    ASSUME AskInv, LoginInv, ListIdentities PROVE LoginInv'
<1>0. cl.at = "start" /\ cl.at \in Early /\ cl.i = 1 /\ cl.refused = {} /\ cl.creds = <<>>
  BY DEF ListIdentities, LoginInv, TalkInv, TalkEarly, Early, Fresh
<1>1. PICK ag \in BOOLEAN : cl = Fields("start", ag, <<>>, 1, {})
  BY <1>0, ClientFields DEF LoginInv
<1>2. cl' = Fields("listing", ag, <<>>, 1, {})
  BY ONLY <1>1, ListIdentities DEF ListIdentities, Fields
<1>3. request'[Login] = [op |-> "list"] /\ reply'[Login] = Idle
  BY AuthAssumption DEF ListIdentities, Ask, AskInv
<1>4. cl'.at = "listing"
  BY <1>2 DEF Fields
<1>5. LoginAsk'
  BY <1>3, <1>4 DEF LoginAsk
<1>6. "listing" \in Early /\ <<>> \in Seq(Credentials)
  BY DEF Early
<1>. QED
  BY <1>0, <1>1, <1>2, <1>5, <1>6, EarlyKeeps DEF ListIdentities

\* connect takes over what the agent listed, or the identity file.
LEMMA GotIdentitiesKeeps ==
    ASSUME AskInv, LoginInv, GotIdentities PROVE LoginInv'
<1>0. cl.at = "listing" /\ cl.at \in Early /\ cl.i = 1 /\ cl.refused = {} /\ cl.creds = <<>>
  BY DEF GotIdentities, LoginInv, TalkInv, TalkEarly, Early, Fresh
<1>1. PICK ag \in BOOLEAN : cl = Fields("listing", ag, <<>>, 1, {})
  BY <1>0, ClientFields DEF LoginInv
<1>. DEFINE creds == CertsFirst(reply[Login].blobs)
<1>2. request[Login] = Idle /\ reply[Login].blobs \in Seq(Credentials)
  BY <1>0 DEF GotIdentities, Read, LoginInv, LoginAsk
<1>3. creds \in Seq(Credentials)
  BY <1>2, CertsFirstType
<1>4. request'[Login] = Idle /\ reply'[Login] = Idle
  BY <1>2, AuthAssumption DEF GotIdentities, Read, AskInv
<1>5. CASE creds # <<>>
  <2>1. cl' = [cl EXCEPT !.at = "dial", !.agent = TRUE, !.creds = creds]
    BY <1>5 DEF GotIdentities
  <2>. HIDE DEF creds
  <2>2. cl' = Fields("dial", TRUE, creds, 1, {})
    BY ONLY <1>1, <2>1 DEF Fields
  <2>3. LoginAsk'
    <3>1. cl'.at = "dial"
      BY <2>2 DEF Fields
    <3>. QED
      BY <1>4, <3>1 DEF LoginAsk
  <2>4. "dial" \in Early /\ TRUE \in BOOLEAN
    BY DEF Early
  <2>5. UNCHANGED <<policy, file, sv, c2s, s2c, lost>>
    BY DEF GotIdentities
  <2>. QED
    BY <1>0, <1>3, <2>2, <2>3, <2>4, <2>5, EarlyKeeps
<1>6. CASE creds = <<>>
  BY <1>0, <1>4, <1>6, UseFileKeeps DEF GotIdentities, LoginInv
<1>. QED
  BY <1>5, <1>6

\* The client asks for the service.
LEMMA ServiceAsked ==
    ASSUME LoginInv, cl.at \in Early, UNCHANGED <<policy, file, sv, s2c, lost>>,
           NEW agent \in BOOLEAN, NEW creds \in Seq(Credentials),
           cl' = Fields("service", agent, creds, 1, {}),
           c2s' = <<Message("service")>>, request'[Login] = Idle, reply'[Login] = Idle
    PROVE  LoginInv'
<1>0. Fresh /\ s2c = <<>> /\ sv.at \in {"service", "failed"}
  BY DEF LoginInv, TalkInv, TalkEarly, Early
<1>1. cl'.at = "service" /\ cl'.i = 1 /\ cl'.refused = {}
  BY DEF Fields
<1>2. LoginType'
  <2>1. LoginType /\ lost' \in BOOLEAN /\ "service" \in Places /\ {} \subseteq 1..(1 - 1)
        /\ 1 \in Nat \ {0} /\ sv' = sv
    BY DEF LoginInv, LoginType, Places
  <2>. QED
    BY <2>1, MoveType
<1>3. LoginAsk'
  BY <1>1 DEF LoginAsk
<1>4. Fresh'
  BY <1>0, <1>1 DEF Fresh
<1>5. TalkEarly' /\ TalkService' /\ TalkOffer' /\ TalkVerdict' /\ TalkOver' /\ LastResort'
  BY <1>0, <1>1, <1>4
     DEF TalkEarly, TalkService, TalkOffer, TalkVerdict, TalkOver, LastResort, Early
<1>. QED
  BY <1>2, <1>3, <1>5 DEF LoginInv, TalkInv

\* The connection is up: an agent is told the session first.
LEMMA DialledKeeps ==
    ASSUME AskInv, LoginInv, Dialled PROVE LoginInv'
<1>0. cl.at = "dial" /\ cl.at \in Early /\ cl.i = 1 /\ cl.refused = {} /\ Fresh /\ c2s = <<>>
      /\ s2c = <<>> /\ sv.at \in {"service", "failed"}
  BY DEF Dialled, LoginInv, TalkInv, TalkEarly, Early, Fresh
<1>1. PICK ag \in BOOLEAN, creds \in Seq(Credentials) : cl = Fields("dial", ag, creds, 1, {})
  BY <1>0, ClientFields DEF LoginInv
<1>2. cl.agent = ag /\ cl.creds = creds
  BY <1>1 DEF Fields
<1>3. CASE ag
  <2>1. cl' = Fields("binding", ag, creds, 1, {})
    BY ONLY <1>1, <1>2, <1>3, Dialled DEF Dialled, Fields
  <2>2. cl'.at = "binding"
    BY <2>1 DEF Fields
  <2>3. LoginAsk'
    <3>1. reply'[Login] = Idle
      BY <1>2, <1>3 DEF Dialled, Ask
    <3>. QED
      BY <2>2, <3>1 DEF LoginAsk
  <2>4. "binding" \in Early /\ ~("binding" \in {"start", "listing"})
    BY DEF Early
  <2>5. UNCHANGED <<policy, file, sv, c2s, s2c, lost>>
    BY <1>2, <1>3 DEF Dialled
  <2>. QED
    BY <1>0, <1>1, <2>1, <2>3, <2>4, <2>5, EarlyKeeps
<1>4. CASE ~ag
  <2>1. cl' = Fields("service", ag, creds, 1, {})
    BY ONLY <1>1, <1>2, <1>4, Dialled DEF Dialled, Fields
  <2>2. c2s' = <<Message("service")>> /\ UNCHANGED <<policy, file, sv, s2c, lost, agentVars>>
    BY <1>0, <1>2, <1>4 DEF Dialled, Message
  <2>3. request'[Login] = Idle /\ reply'[Login] = Idle
    BY <1>0, <2>2 DEF LoginInv, LoginAsk, agentVars
  <2>. QED
    BY <1>0, <2>1, <2>2, <2>3, ServiceAsked
<1>. QED
  BY <1>3, <1>4

\* No connection, no login.
LEMMA DialFailsKeeps ==
    ASSUME LoginInv, DialFails PROVE LoginInv'
<1>0. cl.at = "dial" /\ cl.i = 1 /\ cl.refused = {} /\ c2s = <<>> /\ sv.at \in {"service", "failed"}
  BY DEF DialFails, LoginInv, TalkInv, TalkEarly, Early, Fresh
<1>1. PICK ag \in BOOLEAN, creds \in Seq(Credentials) : cl = Fields("dial", ag, creds, 1, {})
  BY <1>0, ClientFields DEF LoginInv
<1>2. cl' = Fields("failed", ag, <<>>, 1, {})
  BY ONLY <1>1, DialFails DEF DialFails, Fields
<1>3. cl'.at = "failed" /\ cl'.creds = <<>>
  BY <1>2 DEF Fields
<1>4. UNCHANGED <<policy, file, sv, c2s, s2c, lost, agentVars>>
  BY DEF DialFails
<1>5. LoginType'
  <2>1. LoginType /\ lost' \in BOOLEAN /\ "failed" \in Places /\ {} \subseteq 1..(1 - 1)
        /\ 1 \in Nat \ {0} /\ sv' = sv /\ <<>> \in Seq(Credentials)
    BY <1>4 DEF LoginInv, LoginType, Places
  <2>. QED
    BY <1>1, <1>2, <1>4, <2>1, MoveType
<1>6. LoginAsk'
  BY <1>0, <1>3, <1>4 DEF LoginInv, LoginAsk, agentVars
<1>7. TalkEarly' /\ TalkService' /\ TalkOffer' /\ TalkVerdict' /\ TalkOver' /\ LastResort'
  BY <1>0, <1>3, <1>4
     DEF TalkEarly, TalkService, TalkOffer, TalkVerdict, TalkOver, LastResort, Early
<1>. QED
  BY <1>5, <1>6, <1>7 DEF LoginInv, TalkInv

\* The agent has answered the session-bind, and the service is asked for.
LEMMA BoundKeeps ==
    ASSUME AskInv, LoginInv, Bound PROVE LoginInv'
<1>0. cl.at = "binding" /\ cl.i = 1 /\ cl.refused = {} /\ Fresh /\ c2s = <<>>
      /\ s2c = <<>> /\ sv.at \in {"service", "failed"} /\ cl.at \in Early
  BY DEF Bound, LoginInv, TalkInv, TalkEarly, Early, Fresh
<1>1. PICK ag \in BOOLEAN, creds \in Seq(Credentials) : cl = Fields("binding", ag, creds, 1, {})
  BY <1>0, ClientFields DEF LoginInv
<1>2. cl' = Fields("service", ag, creds, 1, {})
  BY ONLY <1>1, Bound DEF Bound, Fields
<1>3. c2s' = <<Message("service")>> /\ UNCHANGED <<policy, file, sv, s2c, lost>>
  BY <1>0 DEF Bound, Message
<1>4. request'[Login] = Idle /\ reply'[Login] = Idle
  BY <1>0, AuthAssumption DEF LoginInv, LoginAsk, Bound, Read, AskInv
<1>. QED
  BY <1>0, <1>1, <1>2, <1>3, <1>4, ServiceAsked

\* The offers themselves: the credentials and which of them were refused stay.
LEMMA SameOffer ==
    ASSUME LoginType, NEW at, cl' = [cl EXCEPT !.at = at]
    PROVE  /\ cl'.at = at /\ cl'.creds = cl.creds /\ cl'.i = cl.i
           /\ cl'.refused = cl.refused /\ cl'.agent = cl.agent
           /\ Cred' = Cred /\ CredSpan' = CredSpan /\ Offered' = Offered
           /\ SignRequest' = SignRequest
<1>1. PICK at0 \in Places, ag \in BOOLEAN, creds \in Seq(Credentials), i \in Nat \ {0}, refused \in {cl.refused} :
        cl = Fields(at0, ag, creds, i, refused)
  BY ClientFields
<1>2. cl' = Fields(at, ag, creds, i, refused)
  BY ONLY <1>1, cl' = [cl EXCEPT !.at = at] DEF Fields
<1>3. /\ cl'.at = at /\ cl'.creds = cl.creds /\ cl'.i = cl.i
      /\ cl'.refused = cl.refused /\ cl'.agent = cl.agent
  BY ONLY <1>1, <1>2 DEF Fields
<1>4. Cred' = Cred
  BY <1>3 DEF Cred
<1>5. CredSpan' = CredSpan
  BY <1>4 DEF CredSpan
<1>6. Offered' = Offered /\ SignRequest' = SignRequest
  BY <1>4, <1>5 DEF Offered, SignRequest
<1>. QED
  BY <1>3, <1>4, <1>5, <1>6

\* Moving on to another place keeps the client's record well formed.
LEMMA SameType ==
    ASSUME LoginType, NEW at \in Places, cl' = [cl EXCEPT !.at = at],
           UNCHANGED <<policy, file, sv, lost>>
    PROVE  LoginType'
<1>1. PICK at0 \in Places, ag \in BOOLEAN, creds \in Seq(Credentials), i \in Nat \ {0}, refused \in {cl.refused} :
        cl = Fields(at0, ag, creds, i, refused)
  BY ClientFields
<1>2. cl' = Fields(at, ag, creds, i, refused)
  BY ONLY <1>1, cl' = [cl EXCEPT !.at = at] DEF Fields
<1>3. refused \subseteq 1..(i - 1)
  <2>1. cl.refused = refused /\ cl.i = i
    BY ONLY <1>1 DEF Fields
  <2>. QED
    BY <2>1, ClientFields
<1>4. lost' \in BOOLEAN
  BY DEF LoginType
<1>. QED
  BY <1>1, <1>2, <1>3, <1>4, MoveType

\* Heads and tails of sequences of one and of two.
LEMMA HeadTail ==
    ASSUME NEW x, NEW y
    PROVE  /\ Head(<<x>>) = x /\ Tail(<<x>>) = <<>>
           /\ Head(<<x, y>>) = x /\ Tail(<<x, y>>) = <<y>>
OBVIOUS

\* The service is granted: the offers begin.
LEMMA AcceptedKeeps ==
    ASSUME KeysInv, LoginInv, Accepted PROVE LoginInv'
<1>0. cl.at = "service" /\ Fresh /\ c2s = <<>> /\ sv.at \in {"auth", "failed"}
      /\ s2c \in {<<Message("accept")>>, <<Message("accept"), Message("banner")>>}
  BY DEF Accepted, LoginInv, TalkInv, TalkService
<1>1. Head(s2c).t = "accept" /\ Tail(s2c) \in Unread
  <2>1. Message("accept").t = "accept"
    BY DEF Message
  <2>. QED
    BY ONLY <1>0, <2>1, HeadTail, ZenonT(60) DEF Unread
<1>2. cl' = [cl EXCEPT !.at = "offer"] /\ s2c' \in Unread
      /\ UNCHANGED <<agentVars, policy, file, sv, c2s, lost>>
  BY <1>1 DEF Accepted
<1>3. LoginType /\ "offer" \in Places
  BY DEF LoginInv, Places
<1>4. cl'.at = "offer" /\ cl'.creds = cl.creds /\ cl'.i = cl.i /\ cl'.refused = cl.refused
  BY <1>2, <1>3, SameOffer
<1>5. LoginType'
  BY <1>2, <1>3, SameType
<1>6. LoginAsk'
  BY <1>0, <1>2, <1>4 DEF LoginInv, LoginAsk, agentVars
<1>7. Answered(cl.i - 1)'
  <2>1. cl'.i = 1 /\ cl'.refused = {} /\ sv'.left = MaxAttempts /\ sv'.at = sv.at
        /\ (sv.at = "failed" => lost') /\ MaxAttempts \in Nat \ {0}
    BY <1>0, <1>2, <1>4, AuthAssumption DEF Fresh
  <2>2. (1..0) \ {} = {} /\ 1 - 1 = 0
    OBVIOUS
  <2>3. Offers(cl.i - 1)' = 0
    BY <2>1, <2>2, FS_EmptySet DEF Offers
  <2>4. \A i \in DOMAIN cl'.creds : ~(i <= cl'.i - 1)
    BY <2>1, <1>5 DEF LoginType
  <2>. QED
    BY <1>0, <2>1, <2>3, <2>4 DEF Answered
<1>8. TalkOffer'
  BY <1>0, <1>2, <1>4, <1>7 DEF TalkOffer
<1>9. TalkEarly' /\ TalkService' /\ TalkVerdict' /\ TalkOver' /\ LastResort'
  BY <1>4 DEF TalkEarly, TalkService, TalkVerdict, TalkOver, LastResort, Early
<1>. QED
  BY <1>5, <1>6, <1>8, <1>9 DEF LoginInv, TalkInv

\* run_auth has no credential left.
LEMMA ExhaustedKeeps ==
    ASSUME KeysInv, LoginInv, Exhausted PROVE LoginInv'
<1>0. cl.at = "offer" /\ cl.i > Len(cl.creds) /\ c2s = <<>> /\ s2c \in Unread /\ Answered(cl.i - 1)
  BY DEF Exhausted, LoginInv, TalkInv, TalkOffer
<1>1. cl' = [cl EXCEPT !.at = "failed"] /\ UNCHANGED <<agentVars, policy, file, sv, c2s, s2c, lost>>
  BY DEF Exhausted
<1>2. LoginType /\ "failed" \in Places
  BY DEF LoginInv, Places
<1>3. cl'.at = "failed" /\ cl'.creds = cl.creds /\ cl'.i = cl.i /\ cl'.refused = cl.refused
  BY <1>1, <1>2, SameOffer
<1>4. LoginType'
  BY <1>1, <1>2, SameType
<1>5. LoginAsk'
  BY <1>0, <1>1, <1>3 DEF LoginInv, LoginAsk, agentVars
<1>6. Later
  BY <1>1 DEF Later, KeysInv, agentVars
<1>7. LastResort'
  <2>1. ASSUME NEW i \in DOMAIN cl'.creds \ cl'.refused, Acceptable(i)' PROVE FALSE
    <3>1. i \in DOMAIN cl.creds /\ i \notin cl.refused /\ Acceptable(i)
      BY <1>2, <1>3, <1>6, <2>1, OnceAcceptable DEF Later
    <3>2. i <= cl.i - 1
      BY <1>0, <1>2, <3>1 DEF LoginType
    <3>. QED
      BY <1>0, <3>1, <3>2 DEF Answered
  <2>. QED
    BY <2>1 DEF LastResort, Acceptable
<1>8. TalkEarly' /\ TalkService' /\ TalkOffer' /\ TalkVerdict' /\ TalkOver'
  BY <1>0, <1>1, <1>3
     DEF TalkEarly, TalkService, TalkOffer, TalkVerdict, TalkOver, Early, Answered
<1>. QED
  BY <1>4, <1>5, <1>7, <1>8 DEF LoginInv, TalkInv

\* A credential is offered, signed by the file's key or by the agent.
LEMMA OfferKeeps ==
    ASSUME AskInv, KeysInv, LoginInv, Offer PROVE LoginInv'
<1>0. cl.at = "offer" /\ cl.i <= Len(cl.creds) /\ c2s = <<>> /\ s2c \in Unread /\ Answered(cl.i - 1)
  BY DEF Offer, LoginInv, TalkInv, TalkOffer
<1>1. PICK at \in {"signing", "verdict"} :
        /\ cl' = [cl EXCEPT !.at = at]
        /\ IF at = "signing" THEN Ask(Login, SignRequest) /\ UNCHANGED c2s
           ELSE c2s' = <<Offered>> /\ UNCHANGED agentVars
        /\ UNCHANGED <<policy, file, sv, s2c, lost>>
  <2>1. Append(<<>>, Offered) = <<Offered>>
    OBVIOUS
  <2>2. CASE cl.agent
    BY <2>2 DEF Offer, SignRequest
  <2>3. CASE ~cl.agent
    BY <1>0, <2>1, <2>3 DEF Offer, Offered
  <2>. QED
    BY <2>2, <2>3
<1>2. LoginType /\ at \in Places
  BY DEF LoginInv, Places
<1>3. /\ cl'.at = at /\ cl'.creds = cl.creds /\ cl'.i = cl.i /\ cl'.refused = cl.refused
      /\ Offered' = Offered /\ SignRequest' = SignRequest
  BY <1>1, <1>2, SameOffer
<1>4. LoginType'
  BY <1>1, <1>2, SameType
<1>5. now' = now
  BY <1>1 DEF agentVars, Ask
<1>6. Later /\ sv' = sv /\ (lost => lost')
  BY <1>1, <1>5 DEF Later, KeysInv
<1>7. Answered(cl.i - 1)'
  <2>1. PICK k : k = cl.i - 1
    OBVIOUS
  <2>2. Answered(k)
    BY <1>0, <2>1
  <2>3. Answered(k)'
    BY <1>2, <1>3, <1>6, <2>2, StillAnswered
  <2>4. k = cl'.i - 1
    BY <1>3, <2>1
  <2>. QED
    BY <2>3, <2>4 DEF Answered, Offers
<1>8. LoginAsk'
  <2>1. CASE at = "signing"
    <3>1. request'[Login] = SignRequest /\ reply'[Login] = Idle
      BY <1>1, <2>1, AuthAssumption DEF Ask, AskInv
    <3>. QED
      BY <1>3, <2>1, <3>1 DEF LoginAsk
  <2>2. CASE at = "verdict"
    BY <1>0, <1>1, <1>3, <2>2 DEF LoginInv, LoginAsk, agentVars
  <2>. QED
    BY <2>1, <2>2
<1>9. TalkOffer' /\ TalkVerdict'
  BY <1>0, <1>1, <1>3, <1>7 DEF TalkOffer, TalkVerdict
<1>10. TalkEarly' /\ TalkService' /\ TalkOver' /\ LastResort'
  BY <1>3 DEF TalkEarly, TalkService, TalkOver, LastResort, Early
<1>. QED
  BY <1>4, <1>8, <1>9, <1>10 DEF LoginInv, TalkInv

\* The agent signed, or refused and the credential is skipped.
LEMMA SignedKeeps ==
    ASSUME AskInv, KeysInv, LoginInv, Signed PROVE LoginInv'
<1>0. cl.at = "signing" /\ cl.i <= Len(cl.creds) /\ c2s = <<>> /\ s2c \in Unread
      /\ Answered(cl.i - 1) /\ LoginType
  BY DEF Signed, LoginInv, TalkInv, TalkOffer
<1>1. /\ request[Login] = Idle
      /\ \/ reply[Login] = [op |-> "failure"]
         \/ reply[Login] = [op |-> "signature", sig |-> Signature(Cred.key, CredSpan)]
  BY <1>0 DEF LoginInv, LoginAsk, Signed, Read
<1>2. request'[Login] = Idle /\ reply'[Login] = Idle /\ now' = now
  BY <1>1, AuthAssumption DEF Signed, Read, AskInv
<1>3. UNCHANGED <<policy, file, sv, s2c, lost>>
  BY DEF Signed
<1>4. Later
  BY <1>2, <1>3 DEF Later, KeysInv
<1>5. CASE reply[Login].op = "signature"
  <2>1. reply[Login].sig = Signature(Cred.key, CredSpan)
    BY <1>1, <1>5
  <2>2. cl' = [cl EXCEPT !.at = "verdict"] /\ c2s' = <<Offered>>
    <3>1. c2s' = Append(<<>>, Offered) /\ cl' = [cl EXCEPT !.at = "verdict"]
      BY <1>0, <1>5, <2>1 DEF Signed, Offered
    <3>. QED
      BY <3>1
  <2>3. "verdict" \in Places
    BY DEF Places
  <2>4. /\ cl'.at = "verdict" /\ cl'.creds = cl.creds /\ cl'.i = cl.i
        /\ cl'.refused = cl.refused /\ Offered' = Offered
    BY <1>0, <2>2, SameOffer
  <2>5. LoginType'
    BY <1>0, <1>3, <2>2, <2>3, SameType
  <2>6. Answered(cl.i - 1)'
    <3>1. PICK k : k = cl.i - 1
      OBVIOUS
    <3>2. Answered(k)
      BY <1>0, <3>1
    <3>3. Answered(k)'
      BY <1>0, <1>3, <1>4, <2>4, <3>2, StillAnswered
    <3>4. k = cl'.i - 1
      BY <2>4, <3>1
    <3>. QED
      BY <3>3, <3>4 DEF Answered, Offers
  <2>7. LoginAsk'
    BY <1>2, <2>4 DEF LoginAsk
  <2>8. TalkVerdict'
    BY <1>0, <1>3, <2>2, <2>4, <2>6 DEF TalkVerdict
  <2>9. TalkEarly' /\ TalkService' /\ TalkOffer' /\ TalkOver' /\ LastResort'
    BY <2>4 DEF TalkEarly, TalkService, TalkOffer, TalkOver, LastResort, Early
  <2>. QED
    BY <2>5, <2>7, <2>8, <2>9 DEF LoginInv, TalkInv
<1>6. CASE reply[Login].op # "signature"
  <2>1. SkipRefused /\ c2s' = <<>>
    BY <1>0, <1>6 DEF Signed
  <2>2. PICK ag \in BOOLEAN, creds \in Seq(Credentials), i \in Nat \ {0}, R \in {cl.refused} :
           cl = Fields("signing", ag, creds, i, R)
    BY <1>0, ClientFields
  <2>3. cl.creds = creds /\ cl.i = i /\ cl.refused = R
    BY ONLY <2>2 DEF Fields
  <2>4. R \subseteq 1..(i - 1)
    BY <1>0, <2>3, ClientFields
  <2>5. cl' = Fields("offer", ag, creds, i + 1, R \cup {i})
    BY ONLY <2>1, <2>2 DEF SkipRefused, Fields
  <2>6. cl'.at = "offer" /\ cl'.creds = creds /\ cl'.i = i + 1 /\ cl'.refused = R \cup {i}
    BY ONLY <2>5 DEF Fields
  <2>7. LoginType'
    <3>1. i + 1 \in Nat \ {0} /\ R \cup {i} \subseteq 1..((i + 1) - 1)
      BY <2>4
    <3>2. "offer" \in Places /\ lost' \in BOOLEAN /\ sv' = sv
      BY <1>0, <1>3 DEF Places, LoginType
    <3>. QED
      BY <1>0, <1>3, <2>2, <2>5, <3>1, <3>2, MoveType
  <2>8. Answered(cl.i - 1)'
    <3>1. Answered(i - 1)
      BY <1>0, <2>3
    <3>2. cl'.i - 1 = i
      BY <2>6
    <3>3. (1..i) \ (R \cup {i}) = (1..(i - 1)) \ R
      BY <2>4
    <3>4. Offers(cl.i - 1)' = Offers(i - 1)
      BY <2>3, <2>6, <3>2, <3>3 DEF Offers
    <3>5. ASSUME NEW k \in DOMAIN cl'.creds \ cl'.refused, k <= cl'.i - 1 PROVE ~Acceptable(k)'
      <4>1. k \in DOMAIN cl.creds /\ k \notin R /\ k # i /\ k <= i /\ k \in Nat
        BY <2>3, <2>6, <3>2, <3>5
      <4>2. k <= i - 1 /\ k \in DOMAIN cl.creds \ cl.refused
        BY <2>3, <4>1
      <4>3. ~Acceptable(k)
        BY <3>1, <4>2 DEF Answered
      <4>4. cl'.creds = cl.creds
        BY <2>3, <2>6
      <4>. QED
        BY <1>0, <1>4, <4>1, <4>3, <4>4, OnceAcceptable DEF Later
    <3>. QED
      BY <1>3, <3>1, <3>4, <3>5 DEF Answered
  <2>9. LoginAsk'
    BY <1>2, <2>6 DEF LoginAsk
  <2>10. TalkOffer'
    BY <1>0, <1>3, <2>1, <2>6, <2>8 DEF TalkOffer
  <2>11. TalkEarly' /\ TalkService' /\ TalkVerdict' /\ TalkOver' /\ LastResort'
    BY <2>6 DEF TalkEarly, TalkService, TalkVerdict, TalkOver, LastResort, Early
  <2>. QED
    BY <2>7, <2>9, <2>10, <2>11 DEF LoginInv, TalkInv
<1>. QED
  BY <1>5, <1>6

\* What the client reads while it waits for the verdict.
LEMMA FirstAnswer ==
    ASSUME NEW x, Message(x) # Message("banner"),
           s2c \in Unread \cup Answers(x), s2c # <<>>, s2c' = Tail(s2c)
    PROVE  \/ Head(s2c) = Message("banner") /\ s2c \notin Answers(x) /\ s2c' \in Unread
           \/ Head(s2c) = Message("banner") /\ s2c \in Answers(x) /\ s2c' \in Answers(x)
           \/ Head(s2c) = Message(x) /\ s2c \in Answers(x) /\ s2c' = <<>>
<1>1. \A y, z : <<y>> # <<z, y>> /\ (<<y>> = <<z>> => y = z)
  <2>. TAKE y, z
  <2>1. Len(<<y>>) = 1 /\ Len(<<z, y>>) = 2 /\ <<y>>[1] = y /\ <<z>>[1] = z
    OBVIOUS
  <2>. QED
    BY <2>1
<1>2. <<Message("banner")>> \notin Answers(x)
  <2>1. <<Message("banner")>> # <<Message(x)>>
    BY <1>1
  <2>2. <<Message("banner")>> # <<Message("banner"), Message(x)>>
    <3>1. Len(<<Message("banner")>>) = 1 /\ Len(<<Message("banner"), Message(x)>>) = 2
      OBVIOUS
    <3>. QED
      BY <3>1
  <2>. QED
    BY <2>1, <2>2 DEF Answers
<1>3. CASE s2c \in Unread
  BY <1>2, <1>3, HeadTail DEF Unread
<1>4. CASE s2c \in Answers(x)
  BY <1>4, HeadTail DEF Answers
<1>. QED
  BY <1>3, <1>4

\* The client reads the server's verdict on its offer.
LEMMA VerdictKeeps ==
    ASSUME KeysInv, LoginInv, Verdict PROVE LoginInv'
<1>0. cl.at = "verdict" /\ cl.i <= Len(cl.creds) /\ LoginType /\ s2c # <<>> /\ s2c' = Tail(s2c)
      /\ UNCHANGED <<agentVars, policy, file, sv, c2s, lost>>
  BY DEF Verdict, LoginInv, TalkInv, TalkVerdict
<1>a. Later
  BY <1>0 DEF Later, KeysInv, agentVars
<1>b. request[Login] = Idle /\ reply[Login] = Idle /\ request' = request /\ reply' = reply
  BY <1>0 DEF LoginInv, LoginAsk, agentVars
<1>1. PICK x \in {"failure", "success"} :
        /\ s2c \in Unread \cup Answers(x)
        /\ s2c \in Answers(x) =>
             /\ c2s = <<>>
             /\ x = "failure" => Answered(cl.i)
             /\ x = "success" => sv.at = "in" /\ sv.as = {Cred}
        /\ s2c \notin Answers(x) => c2s = <<Offered>> /\ s2c \in Unread /\ Answered(cl.i - 1)
  <2>1. CASE c2s = <<Offered>> /\ s2c \in Unread /\ Answered(cl.i - 1)
    <3>1. s2c \notin Answers("failure")
      <4>1. Len(<<>>) = 0 /\ \A y : Len(<<y>>) = 1 /\ <<y>>[1] = y
        OBVIOUS
      <4>2. \A y, z : Len(<<y, z>>) = 2
        OBVIOUS
      <4>3. Message("failure") # Message("banner")
        BY DEF Message
      <4>4. Len(s2c) = 0 \/ (Len(s2c) = 1 /\ s2c[1] = Message("banner"))
        BY <2>1, <4>1 DEF Unread
      <4>5. \A y \in Answers("failure") : Len(y) = 2 \/ (Len(y) = 1 /\ y[1] = Message("failure"))
        BY <4>1, <4>2 DEF Answers
      <4>. QED
        BY <4>3, <4>4, <4>5
    <3>. QED
      BY <2>1, <3>1
  <2>2. CASE c2s = <<>> /\ s2c \in Answers("failure") /\ Answered(cl.i)
    BY <2>2
  <2>3. CASE c2s = <<>> /\ s2c \in Answers("success") /\ sv.at = "in" /\ sv.as = {Cred}
    BY <2>3
  <2>. QED
    BY <1>0, <2>1, <2>2, <2>3 DEF LoginInv, TalkInv, TalkVerdict
<1>2. CASE Head(s2c) = Message("banner")
  <2>1. Head(s2c).t = "banner"
    BY <1>2 DEF Message
  <2>2. cl' = cl
    BY <2>1 DEF Verdict
  <2>3. /\ s2c \in Answers(x) => s2c' \in Answers(x)
        /\ s2c \notin Answers(x) => s2c' \in Unread
    <3>1. Message(x) # Message("banner")
      BY DEF Message
    <3>. QED
      BY <1>0, <1>1, <1>2, <3>1, FirstAnswer
  <2>4. Offered' = Offered /\ Cred' = Cred
    BY <2>2 DEF Offered, Cred, CredSpan
  <2>5. LoginType' /\ LoginAsk'
    <3>1. LoginType'
      BY <1>0, <2>2 DEF LoginType
    <3>2. LoginAsk'
      BY <1>0, <1>b, <2>2 DEF LoginAsk
    <3>. QED
      BY <3>1, <3>2
  <2>6. \A k : Answered(k) => Answered(k)'
    <3>. TAKE k
    <3>. HAVE Answered(k)
    <3>1. cl'.creds = cl.creds /\ cl'.refused = cl.refused /\ sv' = sv /\ (lost => lost')
      BY <1>0, <2>2
    <3>. QED
      BY <1>0, <1>a, <3>1, StillAnswered
  <2>7. TalkVerdict'
    <3>1. CASE s2c \in Answers(x) /\ x = "failure"
      BY <1>0, <1>1, <2>2, <2>3, <2>6, <3>1 DEF TalkVerdict
    <3>2. CASE s2c \in Answers(x) /\ x = "success"
      BY <1>0, <1>1, <2>2, <2>3, <2>4, <3>2 DEF TalkVerdict
    <3>3. CASE s2c \notin Answers(x)
      BY <1>0, <1>1, <2>2, <2>3, <2>4, <2>6, <3>3 DEF TalkVerdict
    <3>. QED
      BY <3>1, <3>2, <3>3
  <2>8. TalkEarly' /\ TalkService' /\ TalkOffer' /\ TalkOver' /\ LastResort'
    BY <1>0, <2>2 DEF TalkEarly, TalkService, TalkOffer, TalkOver, LastResort, Early
  <2>. QED
    BY <2>5, <2>7, <2>8 DEF LoginInv, TalkInv
<1>3. CASE Head(s2c) # Message("banner")
  <2>1. Head(s2c) = Message(x) /\ s2c \in Answers(x) /\ s2c' = <<>>
    <3>1. Message(x) # Message("banner")
      BY DEF Message
    <3>. QED
      BY <1>0, <1>1, <1>3, <3>1, FirstAnswer
  <2>2. Head(s2c).t = x
    BY <2>1 DEF Message
  <2>3. CASE x = "success"
    <3>1. cl' = [cl EXCEPT !.at = "in"] /\ "in" \in Places
      BY <2>2, <2>3 DEF Verdict, Places
    <3>2. cl'.at = "in" /\ Cred' = Cred
      BY <1>0, <3>1, SameOffer
    <3>3. LoginType'
      BY <1>0, <3>1, SameType
    <3>4. LoginAsk'
      BY <1>b, <3>2 DEF LoginAsk
    <3>5. TalkEarly' /\ TalkService' /\ TalkOffer' /\ TalkVerdict' /\ TalkOver' /\ LastResort'
      BY <1>0, <1>1, <2>1, <2>3, <3>2
         DEF TalkEarly, TalkService, TalkOffer, TalkVerdict, TalkOver, LastResort, Early
    <3>. QED
      BY <3>3, <3>4, <3>5 DEF LoginInv, TalkInv
  <2>4. CASE x = "failure"
    <3>1. cl' = [cl EXCEPT !.at = "offer", !.i = @ + 1]
      BY <2>2, <2>4 DEF Verdict
    <3>2. PICK ag \in BOOLEAN, creds \in Seq(Credentials), i \in Nat \ {0}, R \in {cl.refused} :
             cl = Fields("verdict", ag, creds, i, R)
      BY <1>0, ClientFields
    <3>3. cl.creds = creds /\ cl.i = i /\ cl.refused = R
      BY ONLY <3>2 DEF Fields
    <3>4. R \subseteq 1..(i - 1)
      BY <1>0, <3>3, ClientFields
    <3>5. cl' = Fields("offer", ag, creds, i + 1, R)
      BY ONLY <3>1, <3>2 DEF Fields
    <3>6. cl'.at = "offer" /\ cl'.creds = creds /\ cl'.i = i + 1 /\ cl'.refused = R
      BY ONLY <3>5 DEF Fields
    <3>7. LoginType'
      <4>1. i + 1 \in Nat \ {0} /\ R \subseteq 1..((i + 1) - 1)
        BY <3>4
      <4>2. "offer" \in Places /\ lost' \in BOOLEAN /\ sv' = sv
        BY <1>0 DEF Places, LoginType
      <4>. QED
        BY <1>0, <3>2, <3>5, <4>1, <4>2, MoveType
    <3>8. Answered(cl.i - 1)'
      <4>1. Answered(i)
        BY <1>1, <2>1, <2>4, <3>3
      <4>2. Answered(i)'
        <5>1. cl'.creds = cl.creds /\ cl'.refused = cl.refused /\ sv' = sv /\ (lost => lost')
          BY <1>0, <3>3, <3>6
        <5>. QED
          BY <1>0, <1>a, <4>1, <5>1, StillAnswered
      <4>3. cl'.i - 1 = i
        BY <3>6
      <4>. QED
        BY <4>2, <4>3 DEF Answered, Offers
    <3>9. LoginAsk'
      BY <1>b, <3>6 DEF LoginAsk
    <3>10. TalkOffer'
      <4>1. c2s' = <<>> /\ s2c' \in Unread
        BY <1>0, <1>1, <2>1 DEF Unread
      <4>. QED
        BY <3>6, <3>8, <4>1 DEF TalkOffer
    <3>11. TalkEarly' /\ TalkService' /\ TalkVerdict' /\ TalkOver' /\ LastResort'
      BY <3>6 DEF TalkEarly, TalkService, TalkVerdict, TalkOver, LastResort, Early
    <3>. QED
      BY <3>7, <3>9, <3>10, <3>11 DEF LoginInv, TalkInv
  <2>. QED
    BY <2>3, <2>4
<1>. QED
  BY <1>2, <1>3

\* A client that gives up while the server has refused all it may refuse: what
\* is left of its credentials is beyond MAX_ATTEMPTS.
LEMMA ClientEofKeeps ==
    ASSUME KeysInv, LoginInv, ClientEof PROVE LoginInv'
<1>0. /\ cl.at \in {"service", "verdict"} /\ LoginType
      /\ lost \/ (s2c = <<>> /\ sv.at = "failed")
      /\ cl' = [cl EXCEPT !.at = "failed"]
      /\ UNCHANGED <<agentVars, policy, file, sv, c2s, s2c, lost>>
  BY DEF ClientEof, ServerGone, LoginInv
<1>1. /\ cl'.at = "failed" /\ cl'.creds = cl.creds /\ cl'.i = cl.i /\ cl'.refused = cl.refused
      /\ Offered' = Offered /\ Cred' = Cred
  BY <1>0, SameOffer
<1>2. LoginType'
  <2>1. "failed" \in Places
    BY DEF Places
  <2>. QED
    BY <1>0, <2>1, SameType
<1>3. LoginAsk'
  BY <1>0, <1>1 DEF LoginInv, LoginAsk, agentVars
<1>4. Later
  BY <1>0 DEF Later, KeysInv, agentVars
<1>5. CASE cl.at = "service"
  <2>1. /\ Fresh
        /\ \/ c2s = <<Message("service")>> /\ sv.at \in {"service", "failed"}
           \/ c2s = <<>> /\ sv.at \in {"auth", "failed"}
    BY <1>5 DEF LoginInv, TalkInv, TalkService
  <2>2. lost
    BY <1>0, <2>1 DEF Fresh
  <2>3. TalkEarly' /\ TalkService' /\ TalkOffer' /\ TalkVerdict' /\ TalkOver' /\ LastResort'
    BY <1>0, <1>1, <2>1, <2>2
       DEF TalkEarly, TalkService, TalkOffer, TalkVerdict, TalkOver, LastResort, Early
  <2>. QED
    BY <1>2, <1>3, <2>3 DEF LoginInv, TalkInv
<1>6. CASE cl.at = "verdict"
  <2>1. /\ cl.i <= Len(cl.creds)
        /\ \/ c2s = <<Offered>> /\ s2c \in Unread /\ Answered(cl.i - 1)
           \/ c2s = <<>> /\ s2c \in Answers("failure") /\ Answered(cl.i)
           \/ c2s = <<>> /\ s2c \in Answers("success") /\ sv.at = "in" /\ sv.as = {Cred}
    BY <1>6 DEF LoginInv, TalkInv, TalkVerdict
  <2>2. ~lost => Answered(cl.i - 1) /\ sv.at = "failed"
    <3>1. \A x : <<>> \notin Answers(x)
      <4>1. \A x, y : <<>> # <<x>> /\ <<>> # <<y, x>>
        OBVIOUS
      <4>. QED
        BY <4>1 DEF Answers
    <3>. QED
      BY <1>0, <2>1, <3>1
  <2>3. TalkOver'
    <3>1. CASE sv.at = "failed"
      BY <1>0, <1>1, <3>1 DEF TalkOver
    <3>2. CASE sv.at # "failed"
      <4>1. lost
        BY <1>0, <3>2
      <4>2. CASE c2s = <<Offered>> /\ Answered(cl.i - 1)
        BY <1>0, <1>1, <3>2, <4>1, <4>2 DEF TalkOver, Answered
      <4>3. CASE c2s = <<>> /\ Answered(cl.i)
        BY <1>0, <1>1, <3>2, <4>1, <4>3 DEF TalkOver, Answered
      <4>4. CASE sv.at = "in" /\ sv.as = {Cred}
        BY <1>0, <1>1, <4>1, <4>4 DEF TalkOver
      <4>. QED
        BY <2>1, <4>2, <4>3, <4>4
    <3>. QED
      BY <3>1, <3>2
  <2>4. LastResort'
    <3>1. ASSUME ~lost, NEW i \in DOMAIN cl'.creds \ cl'.refused, Acceptable(i)'
          PROVE  sv'.left = 0 /\ Cardinality((1..i) \ cl'.refused) > MaxAttempts
      <4>1. i \in DOMAIN cl.creds /\ i \notin cl.refused /\ Acceptable(i)
        BY <1>0, <1>1, <1>4, <3>1, OnceAcceptable DEF Later
      <4>2. Answered(cl.i - 1) /\ sv.left = 0
        BY <2>2, <3>1 DEF Answered
      <4>3. i \in Nat /\ cl.i \in Nat \ {0} /\ cl.refused \subseteq 1..(cl.i - 1)
        BY <1>0, <4>1, ClientFields
      <4>4. ~(i <= cl.i - 1)
        BY <4>1, <4>2 DEF Answered
      <4>5. cl.i <= i
        BY <4>3, <4>4
      <4>. DEFINE C(k) == Cardinality((1..k) \ cl.refused)
      <4>6. C(cl.i) = C(cl.i - 1) + 1
        BY <4>3, OneMore
      <4>7. C(cl.i) <= C(i)
        BY <4>3, <4>5, NoLess
      <4>8. C(i) \in Nat /\ C(cl.i) \in Nat /\ C(cl.i - 1) \in Nat
        <5>1. cl.i - 1 \in Nat
          BY <4>3
        <5>. QED
          BY <4>3, <5>1, OffersNat
      <4>9. sv.left = MaxAttempts - C(cl.i - 1) /\ MaxAttempts \in Nat
        BY <4>2, AuthAssumption DEF Answered, Offers
      <4>. HIDE DEF C
      <4>10. C(i) > MaxAttempts
        BY <4>2, <4>6, <4>7, <4>8, <4>9
      <4>. QED
        BY <1>0, <1>1, <4>2, <4>10 DEF C
    <3>. QED
      BY <1>0, <3>1 DEF LastResort, Acceptable
  <2>5. TalkEarly' /\ TalkService' /\ TalkOffer' /\ TalkVerdict'
    BY <1>1 DEF TalkEarly, TalkService, TalkOffer, TalkVerdict, Early
  <2>. QED
    BY <1>2, <1>3, <2>3, <2>4, <2>5 DEF LoginInv, TalkInv
<1>. QED
  BY <1>0, <1>5, <1>6

\* Every step of the client.
LEMMA ClientKeeps ==
    ASSUME AskInv, KeysInv, LoginInv, Client PROVE LoginInv'
BY NoAgentKeeps, ListIdentitiesKeeps, GotIdentitiesKeeps, DialledKeeps, DialFailsKeeps,
   BoundKeeps, AcceptedKeeps, ExhaustedKeeps, OfferKeeps, SignedKeeps, VerdictKeeps,
   ClientEofKeeps DEF Client

-----------------------------------------------------------------------------
(* Steps of another client, and of a connection that breaks.               *)

\* Another client says something else.
LEMMA ForeignSendKeeps ==
    ASSUME LoginInv, ForeignSend PROVE LoginInv'
<1>0. /\ cl.at = "foreign" /\ LoginType /\ UNCHANGED <<agentVars, policy, file, cl, sv, lost>>
      /\ sv.at # "in" /\ cl.creds = <<>>
      /\ \E m \in Foreign : c2s' = <<m>>
  BY DEF ForeignSend, LoginInv, TalkInv, TalkOver
<1>1. LoginType' /\ LoginAsk'
  <2>1. LoginType'
    BY <1>0 DEF LoginType
  <2>2. LoginAsk'
    BY <1>0 DEF LoginInv, LoginAsk, agentVars
  <2>. QED
    BY <2>1, <2>2
<1>2. TalkEarly' /\ TalkService' /\ TalkOffer' /\ TalkVerdict' /\ LastResort'
  BY <1>0 DEF TalkEarly, TalkService, TalkOffer, TalkVerdict, LastResort, Early
<1>3. TalkOver'
  BY <1>0 DEF TalkOver
<1>. QED
  BY <1>1, <1>2, <1>3 DEF LoginInv, TalkInv

\* Another client leaves.
LEMMA ForeignLeaveKeeps ==
    ASSUME LoginInv, ForeignLeave PROVE LoginInv'
<1>0. /\ cl.at = "foreign" /\ LoginType /\ cl' = [cl EXCEPT !.at = "failed"]
      /\ UNCHANGED <<agentVars, policy, file, sv, c2s, s2c, lost>>
      /\ sv.at # "in" /\ cl.creds = <<>> /\ (c2s = <<>> \/ \E m \in Foreign : c2s = <<m>>)
  BY DEF ForeignLeave, LoginInv, TalkInv, TalkOver
<1>1. cl'.at = "failed" /\ cl'.creds = <<>>
  BY <1>0, SameOffer
<1>2. LoginType' /\ LoginAsk'
  <2>1. "failed" \in Places
    BY DEF Places
  <2>2. LoginType'
    BY <1>0, <2>1, SameType
  <2>3. LoginAsk'
    BY <1>0, <1>1 DEF LoginInv, LoginAsk, agentVars
  <2>. QED
    BY <2>2, <2>3
<1>3. TalkEarly' /\ TalkService' /\ TalkOffer' /\ TalkVerdict' /\ LastResort'
  BY <1>1 DEF TalkEarly, TalkService, TalkOffer, TalkVerdict, LastResort, Early
<1>4. TalkOver'
  <2>1. sv.at \in {"service", "auth", "failed"}
    BY <1>0 DEF LoginType
  <2>. QED
    BY <1>0, <1>1, <2>1 DEF TalkOver
<1>. QED
  BY <1>2, <1>3, <1>4 DEF LoginInv, TalkInv

\* The connection breaks, and what was under way is gone.
LEMMA LoseKeeps ==
    ASSUME KeysInv, LoginInv, Lose PROVE LoginInv'
<1>0. /\ cl.at \in {"binding", "service", "offer", "signing", "verdict"} /\ lost' = TRUE
      /\ LoginType /\ UNCHANGED <<agentVars, policy, file, cl, sv, c2s, s2c>>
  BY DEF Lose, LoginInv
<1>1. LoginType'
  BY <1>0 DEF LoginType
<1>2. LoginAsk'
  <2>1. request'[Login] = request[Login] /\ reply'[Login] = reply[Login] /\ cl' = cl
    BY <1>0 DEF agentVars
  <2>. QED
    BY <2>1, AskUndisturbed DEF LoginInv
<1>3. Later
  BY <1>0 DEF Later, KeysInv, agentVars
<1>4. Offered' = Offered /\ Cred' = Cred
  BY <1>0 DEF Offered, Cred, CredSpan
<1>5. \A k : Answered(k) => Answered(k)'
  <2>. TAKE k
  <2>. HAVE Answered(k)
  <2>1. cl'.creds = cl.creds /\ cl'.refused = cl.refused /\ sv' = sv /\ (lost => lost')
    BY <1>0
  <2>. QED
    BY <1>0, <1>3, <2>1, StillAnswered
<1>6. Fresh => Fresh'
  BY <1>0 DEF Fresh
<1>7. TalkEarly' /\ TalkService'
  BY <1>0, <1>6 DEF LoginInv, TalkInv, TalkEarly, TalkService
<1>8. TalkOffer' /\ TalkVerdict'
  BY <1>0, <1>4, <1>5 DEF LoginInv, TalkInv, TalkOffer, TalkVerdict
<1>9. TalkOver' /\ LastResort'
  BY <1>0 DEF TalkOver, LastResort
<1>. QED
  BY <1>1, <1>2, <1>7, <1>8, <1>9 DEF LoginInv, TalkInv

-----------------------------------------------------------------------------
(* Steps of the server.                                                    *)

\* A server's new record is well formed when its fields are.
LEMMA ServerType ==
    ASSUME LoginType, UNCHANGED <<policy, file, cl, lost>>,
           NEW at \in {"service", "auth", "in", "failed"}, NEW left \in 0..MaxAttempts, NEW as,
           at \in {"service", "auth"} => left > 0,
           sv' = [at |-> at, left |-> left, as |-> as]
    PROVE  LoginType'
<1>1. sv' = [at |-> sv'.at, left |-> sv'.left, as |-> sv'.as] /\ sv'.left = left /\ sv'.at = at
  OBVIOUS
<1>. QED
  BY <1>1 DEF LoginType

\* The server's record, field by field.
LEMMA ServerFields ==
    ASSUME LoginType
    PROVE  \E at \in {"service", "auth", "in", "failed"}, left \in 0..MaxAttempts, as \in {sv.as} :
              sv = [at |-> at, left |-> left, as |-> as]
BY DEF LoginType

\* Sequences of one, put together.
LEMMA Joined ==
    ASSUME NEW x, NEW y
    PROVE  <<>> \o <<x>> = <<x>> /\ <<x>> \o <<y>> = <<x, y>>
<1>. DEFINE S == {x, y}
            s == <<x>> \o <<y>>
<1>1. <<x>> \in Seq(S) /\ <<y>> \in Seq(S) /\ <<x, y>> \in Seq(S)
  OBVIOUS
<1>2. Len(<<x>>) = 1 /\ Len(<<y>>) = 1 /\ Len(<<x, y>>) = 2
      /\ <<x>>[1] = x /\ <<y>>[1] = y /\ <<x, y>>[1] = x /\ <<x, y>>[2] = y
  OBVIOUS
<1>3. /\ s \in Seq(S) /\ Len(s) = Len(<<x>>) + Len(<<y>>)
      /\ \A i \in 1 .. Len(<<x>>) + Len(<<y>>) :
            s[i] = IF i <= Len(<<x>>) THEN <<x>>[i] ELSE <<y>>[i - Len(<<x>>)]
  BY <1>1, ConcatProperties
<1>4. <<>> \o <<x>> = <<x>>
  BY <1>1, ConcatEmptySeq
<1>. HIDE DEF s
<1>5. Len(s) = 2 /\ s[1] = x /\ s[2] = y
  BY <1>2, <1>3
<1>6. \A i \in 1 .. Len(s) : s[i] = <<x, y>>[i]
  <2>1. \A i \in 1 .. Len(s) : i = 1 \/ i = 2
    BY <1>5
  <2>. QED
    BY <1>2, <1>5, <2>1
<1>7. s = <<x, y>>
  BY <1>1, <1>2, <1>3, <1>5, <1>6, SeqEqual
<1>. QED
  BY <1>4, <1>7 DEF s

\* auth::server grants the service, or ends on another one.
LEMMA ServiceKeeps ==
    ASSUME KeysInv, LoginInv, Service PROVE LoginInv'
<1>0. /\ sv.at = "service" /\ c2s # <<>> /\ c2s' = Tail(c2s) /\ LoginType
      /\ UNCHANGED <<agentVars, policy, file, cl, lost>>
  BY DEF Service, LoginInv
<1>1. PICK left \in 0..MaxAttempts, as \in {sv.as} : sv = [at |-> "service", left |-> left, as |-> as]
  <2>1. PICK at \in {"service", "auth", "in", "failed"}, left \in 0..MaxAttempts, as \in {sv.as} :
              sv = [at |-> at, left |-> left, as |-> as]
    BY <1>0, ServerFields
  <2>. QED
    BY <1>0, <2>1
<1>2. \/ /\ sv' = [at |-> "auth", left |-> left, as |-> as] /\ Head(c2s).t = "service"
         /\ s2c' = s2c \o <<[t |-> "accept"]>>
                          \o (IF policy.banner THEN <<[t |-> "banner"]>> ELSE <<>>)
      \/ /\ sv' = [at |-> "failed", left |-> left, as |-> as] /\ s2c' = s2c
         /\ Head(c2s).t # "service"
  BY ONLY <1>1, Service DEF Service, ServerFails
<1>3. LoginType'
  <2>1. left > 0
    BY <1>0, <1>1 DEF LoginType
  <2>. QED
    BY <1>0, <1>1, <1>2, <2>1, ServerType
<1>4. LoginAsk'
  <2>1. request'[Login] = request[Login] /\ reply'[Login] = reply[Login] /\ cl' = cl
    BY <1>0 DEF agentVars
  <2>. QED
    BY <2>1, AskUndisturbed DEF LoginInv
<1>5. CASE cl.at = "service"
  <2>1. c2s = <<Message("service")>> /\ s2c = <<>> /\ Fresh
    BY <1>0, <1>5 DEF LoginInv, TalkInv, TalkService
  <2>2. Head(c2s).t = "service" /\ c2s' = <<>>
    BY <1>0, <2>1, HeadTail DEF Message
  <2>3. sv' = [at |-> "auth", left |-> left, as |-> as]
        /\ s2c' = s2c \o <<[t |-> "accept"]>>
                          \o (IF policy.banner THEN <<[t |-> "banner"]>> ELSE <<>>)
    BY <1>2, <2>2
  <2>4. s2c' \in {<<Message("accept")>>, <<Message("accept"), Message("banner")>>}
    <3>1. CASE policy.banner
      <4>1. s2c' = <<>> \o <<[t |-> "accept"]>> \o <<[t |-> "banner"]>>
        BY <2>1, <2>3, <3>1
      <4>2. s2c' = <<Message("accept"), Message("banner")>>
        BY ONLY <4>1, Joined DEF Message
      <4>. QED
        BY <4>2
    <3>2. CASE ~policy.banner
      <4>1. s2c' = <<>> \o <<[t |-> "accept"]>> \o <<>>
        BY <2>1, <2>3, <3>2
      <4>2. s2c' = <<Message("accept")>>
        BY ONLY <4>1 DEF Message
      <4>. QED
        BY <4>2
    <3>. QED
      BY <3>1, <3>2
  <2>5. Fresh'
    <3>1. sv'.left = sv.left /\ sv'.at = "auth"
      BY <1>1, <2>3
    <3>. QED
      BY <1>0, <2>1, <3>1 DEF Fresh
  <2>6. TalkService'
    <3>1. sv'.at = "auth"
      BY <2>3
    <3>. QED
      BY <2>2, <2>4, <2>5, <3>1 DEF TalkService
  <2>7. TalkEarly' /\ TalkOffer' /\ TalkVerdict' /\ TalkOver' /\ LastResort'
    BY <1>0, <1>5 DEF TalkEarly, TalkOffer, TalkVerdict, TalkOver, LastResort, Early
  <2>. QED
    BY <1>3, <1>4, <2>6, <2>7 DEF LoginInv, TalkInv
<1>6. CASE cl.at # "service"
  <2>a. cl' = cl /\ lost' = lost
    BY <1>0
  <2>b. sv'.left = sv.left /\ sv'.at \in {"auth", "failed"}
    <3>1. CASE sv' = [at |-> "auth", left |-> left, as |-> as]
      BY ONLY <1>1, <3>1
    <3>2. CASE sv' = [at |-> "failed", left |-> left, as |-> as]
      BY ONLY <1>1, <3>2
    <3>. QED
      BY <1>2, <3>1, <3>2
  <2>0. cl' = cl /\ sv'.left = sv.left /\ sv'.at \in {"auth", "failed"} /\ lost' = lost
    BY <2>a, <2>b
  <2>1. cl.at \in {"failed", "foreign"}
    <3>1. cl.at \notin Early
      BY <1>0 DEF LoginInv, TalkInv, TalkEarly
    <3>2. cl.at \notin {"offer", "signing"}
      BY <1>0 DEF LoginInv, TalkInv, TalkOffer, Answered
    <3>3. cl.at # "verdict"
      BY <1>0 DEF LoginInv, TalkInv, TalkVerdict, Answered
    <3>4. cl.at # "in"
      BY <1>0 DEF LoginInv, TalkInv, TalkOver
    <3>. QED
      BY <1>0, <1>6, <3>1, <3>2, <3>3, <3>4, ClientFields DEF Places, Early
  <2>2. c2s' = <<>>
    <3>1. \A x : Tail(<<x>>) = <<>>
      OBVIOUS
    <3>2. \E x : c2s = <<x>>
      BY <1>0, <2>1 DEF LoginInv, TalkInv, TalkOver
    <3>. QED
      BY <1>0, <3>1, <3>2
  <2>3. TalkOver'
    BY <1>0, <2>0, <2>1, <2>2 DEF LoginInv, TalkInv, TalkOver
  <2>4. LastResort'
    <3>1. Later
      BY <1>0 DEF Later, KeysInv, agentVars
    <3>2. \A i \in DOMAIN cl.creds : Acceptable(i)' => Acceptable(i)
      <4>. TAKE i \in DOMAIN cl.creds
      <4>. HAVE Acceptable(i)'
      <4>. QED
        BY <1>0, <2>0, <3>1, OnceAcceptable DEF Later
    <3>. QED
      BY <2>0, <3>2 DEF LoginInv, TalkInv, LastResort, Acceptable
  <2>5. TalkEarly' /\ TalkService' /\ TalkOffer' /\ TalkVerdict'
    BY <2>0, <2>1 DEF TalkEarly, TalkService, TalkOffer, TalkVerdict, Early
  <2>. QED
    BY <1>3, <1>4, <2>3, <2>4, <2>5 DEF LoginInv, TalkInv
<1>. QED
  BY <1>5, <1>6

\* The server notices that nobody is there.
LEMMA ServerEofKeeps ==
    ASSUME KeysInv, LoginInv, ServerEof PROVE LoginInv'
<1>0. /\ sv.at \in {"service", "auth"} /\ LoginType
      /\ lost \/ (c2s = <<>> /\ cl.at = "failed")
      /\ UNCHANGED <<agentVars, policy, file, cl, c2s, s2c, lost>>
  BY DEF ServerEof, LoginInv, ClientGone
<1>1. PICK at \in {"service", "auth", "in", "failed"}, left \in 0..MaxAttempts, as \in {sv.as} :
              sv = [at |-> at, left |-> left, as |-> as]
  BY <1>0, ServerFields
<1>2. sv' = [at |-> "failed", left |-> left, as |-> as]
  BY ONLY <1>1, ServerEof DEF ServerEof
<1>3. sv'.at = "failed" /\ sv'.left = sv.left /\ cl' = cl
  BY <1>0, <1>1, <1>2
<1>4. LoginType'
  BY <1>0, <1>1, <1>2, ServerType
<1>5. LoginAsk'
  <2>1. request'[Login] = request[Login] /\ reply'[Login] = reply[Login] /\ cl' = cl
    BY <1>0 DEF agentVars
  <2>. QED
    BY <2>1, AskUndisturbed DEF LoginInv
<1>6. \A i \in DOMAIN cl.creds : Acceptable(i)' => Acceptable(i)
  <2>1. Later
    BY <1>0 DEF Later, KeysInv, agentVars
  <2>. TAKE i \in DOMAIN cl.creds
  <2>. HAVE Acceptable(i)'
  <2>. QED
    BY <1>0, <1>3, <2>1, OnceAcceptable DEF Later
<1>7. LastResort'
  BY <1>0, <1>3, <1>6 DEF LoginInv, TalkInv, LastResort, Acceptable
<1>8. TalkOver'
  BY <1>0, <1>3 DEF LoginInv, TalkInv, TalkOver
<1>9. lost => (Fresh => Fresh') /\ \A k : Answered(k) => Answered(k)'
  <2>1. \A k : Offers(k)' = Offers(k)
    BY <1>3 DEF Offers
  <2>. QED
    BY <1>0, <1>3, <1>6, <2>1 DEF Fresh, Answered
<1>10. Offered' = Offered
  BY <1>0 DEF Offered, Cred, CredSpan
<1>11. TalkEarly' /\ TalkService'
  BY <1>0, <1>3, <1>9 DEF LoginInv, TalkInv, TalkEarly, TalkService, Early
<1>12. TalkOffer' /\ TalkVerdict'
  BY <1>0, <1>3, <1>9, <1>10 DEF LoginInv, TalkInv, TalkOffer, TalkVerdict
<1>. QED
  BY <1>4, <1>5, <1>7, <1>8, <1>11, <1>12 DEF LoginInv, TalkInv

\* What the server makes of a request, whoever it comes from.
Judged(m, left, as, at1, left1, as1) ==
    \/ at1 = "failed" /\ left1 = left /\ as1 = as /\ BadRequest(m)
    \/ /\ at1 = IF left = 1 THEN "failed" ELSE "auth"
       /\ left1 = left - 1 /\ as1 = as
       /\ ~BadRequest(m)
       /\ ~(m.method = "publickey" /\ Authorized(m) /\ m.sig # {} /\ Verified(m))
       /\ m.sig # {} => s2c' = Append(s2c, Message("failure"))
    \/ /\ at1 = "in" /\ left1 = left /\ as1 = {m.blob}
       /\ ~BadRequest(m) /\ Authorized(m) /\ m.sig # {} /\ Verified(m)
       /\ s2c' = Append(s2c, Message("success"))

\* Every request is refused, counted, or a login with a verified signature.
LEMMA UserauthJudged ==
    ASSUME LoginType, UserauthRequest, NEW m, m = Head(c2s)
    PROVE  \E at1 \in {"service", "auth", "in", "failed"}, left1 \in 0..MaxAttempts, as1 \in {sv'.as} :
              /\ sv' = [at |-> at1, left |-> left1, as |-> as1]
              /\ Judged(m, sv.left, sv.as, at1, left1, as1)
<1>0. sv.at = "auth" /\ MaxAttempts \in Nat /\ sv.left > 0
  BY AuthAssumption DEF UserauthRequest, LoginType
<1>1. PICK left \in 0..MaxAttempts, as \in {sv.as} : sv = [at |-> "auth", left |-> left, as |-> as]
  <2>1. PICK at \in {"service", "auth", "in", "failed"}, left \in 0..MaxAttempts, as \in {sv.as} :
              sv = [at |-> at, left |-> left, as |-> as]
    BY ServerFields
  <2>. QED
    BY <1>0, <2>1
<1>2. sv.left = left /\ sv.as = as
  BY <1>1
<1>3. left - 1 \in 0..MaxAttempts
  BY <1>0, <1>2
<1>4. ASSUME NEW x, Attempt(x)
      PROVE  /\ sv' = [at |-> IF left = 1 THEN "failed" ELSE "auth", left |-> left - 1, as |-> as]
             /\ s2c' = Append(s2c, Message(x))
  BY ONLY <1>1, <1>4 DEF Attempt, Message
<1>10. ASSUME NEW x, Attempt(x)
       PROVE  \E at1 \in {"failed", "auth"} :
                 /\ at1 = IF left = 1 THEN "failed" ELSE "auth"
                 /\ sv' = [at |-> at1, left |-> left - 1, as |-> as]
                 /\ sv'.as = as
  <2>1. PICK at1 \in {"failed", "auth"} : at1 = IF left = 1 THEN "failed" ELSE "auth"
    OBVIOUS
  <2>2. sv' = [at |-> at1, left |-> left - 1, as |-> as]
    BY <1>4, <1>10, <2>1
  <2>. QED
    BY <2>1, <2>2
<1>5. CASE BadRequest(m) /\ ServerFails
  <2>1. sv' = [at |-> "failed", left |-> left, as |-> as]
    BY ONLY <1>1, <1>5 DEF ServerFails
  <2>. QED
    BY <1>2, <1>5, <2>1 DEF Judged
<1>6. CASE ~BadRequest(m) /\ (m.method # "publickey" \/ ~Authorized(m)) /\ Reject
  BY <1>2, <1>3, <1>4, <1>10, <1>6 DEF Judged, Reject
<1>7. CASE ~BadRequest(m) /\ m.sig = {} /\ Attempt("pk_ok")
  BY <1>2, <1>3, <1>4, <1>10, <1>7 DEF Judged
<1>8. CASE ~BadRequest(m) /\ ~Verified(m) /\ Reject
  BY <1>2, <1>3, <1>4, <1>10, <1>8 DEF Judged, Reject
<1>9. CASE /\ ~BadRequest(m) /\ Authorized(m) /\ m.sig # {} /\ Verified(m)
           /\ sv' = [sv EXCEPT !.at = "in", !.as = {m.blob}]
           /\ s2c' = Append(s2c, Message("success"))
  <2>1. sv' = [at |-> "in", left |-> left, as |-> {m.blob}]
    BY ONLY <1>1, <1>9
  <2>. QED
    BY <1>2, <1>9, <2>1 DEF Judged
<1>. QED
  BY <1>5, <1>6, <1>7, <1>8, <1>9 DEF UserauthRequest, Message

\* The client's own offer: it is well formed and its signature verifies, so
\* the server's policy alone decides.
LEMMA OfferedJudged ==
    /\ ~BadRequest(Offered) /\ Offered.method = "publickey"
    /\ Offered.sig # {} /\ Verified(Offered)
    /\ Offered.blob = Cred
    /\ Acceptable(cl.i) => Authorized(Offered)
<1>1. /\ Offered.t = "request" /\ Offered.service = "connection" /\ Offered.method = "publickey"
      /\ Offered.user = User /\ Offered.algo = Cred.algo /\ Offered.blob = Cred
      /\ Offered.sig = {Signature(Cred.key, CredSpan)}
  BY DEF Offered, Request
<1>2. ~BadRequest(Offered)
  BY <1>1 DEF BadRequest
<1>3. Verified(Offered)
  BY <1>1 DEF Verified, CredSpan
<1>4. Acceptable(cl.i) => Authorized(Offered)
  <2>. DEFINE m == Request(Cred, {})
  <2>1. m.user = User /\ m.algo = Cred.algo /\ m.blob = Cred
    BY DEF Request
  <2>2. Acceptable(cl.i) => Authorized(m)
    BY DEF Acceptable, Cred
  <2>. HIDE DEF m
  <2>. QED
    BY <1>1, <2>1, <2>2 DEF Authorized
<1>. QED
  BY <1>1, <1>2, <1>3, <1>4

\* What another client signed for this session does not let it in.
LEMMA ForeignJudged ==
    ASSUME LoginType, NEW m \in Foreign
    PROVE  ~(~BadRequest(m) /\ Authorized(m) /\ m.sig # {} /\ Verified(m))
<1>. SUFFICES ASSUME ~BadRequest(m), Authorized(m), m.sig # {}, Verified(m)
              PROVE  FALSE
  OBVIOUS
<1>1. PICK o \in Outside : m = Presented(o)
  BY DEF Foreign
<1>2. m.t = "request"
  BY DEF BadRequest
<1>3. o.t = "request"
  BY <1>1, <1>2 DEF Presented
<1>4. /\ m.blob = o.blob
      /\ m.sig = {Signature(s.key, SignedSpan(s.sid, s.user, s.algo, s.blob)) : s \in o.sig}
  BY <1>1, <1>3 DEF Presented
<1>5. PICK s \in o.sig : Signature(s.key, SignedSpan(s.sid, s.user, s.algo, s.blob)) \in m.sig
  BY <1>4
<1>6. Signature(s.key, SignedSpan(s.sid, s.user, s.algo, s.blob)) =
        Signature(m.blob.key, SignedSpan(Session, m.user, m.algo, m.blob))
  BY <1>5 DEF Verified
<1>7. s.key = m.blob.key /\ s.sid = Session
  <2>1. ASSUME NEW k1, NEW k2, NEW x1, NEW x2, Signature(k1, x1) = Signature(k2, x2)
        PROVE  k1 = k2 /\ x1 = x2
    <3>1. Signature(k1, x1).key = k1 /\ Signature(k1, x1).over = x1
      BY DEF Signature
    <3>2. Signature(k2, x2).key = k2 /\ Signature(k2, x2).over = x2
      BY DEF Signature
    <3>. QED
      BY <2>1, <3>1, <3>2
  <2>2. ASSUME NEW s1, NEW u1, NEW a1, NEW b1 PROVE SignedSpan(s1, u1, a1, b1).sid = s1
    BY DEF SignedSpan
  <2>. QED
    BY <1>6, <2>1, <2>2
<1>8. policy \in Policies
  BY DEF LoginType
<1>9. m.blob.key \notin policy.keys /\ m.blob.ca \notin policy.cas
  BY <1>3, <1>4, <1>7, <1>8, ForeignAssumption
<1>. QED
  BY <1>9 DEF Authorized, AuthorizeCert

\* What is in s2c after an answer, a banner before it included.
LEMMA Appended ==
    ASSUME NEW x, s2c \in Unread, s2c' = Append(s2c, Message(x)) PROVE s2c' \in Answers(x)
<1>1. CASE s2c = <<>>
  BY <1>1 DEF Answers
<1>2. CASE s2c = <<Message("banner")>>
  <2>. DEFINE S == {Message("banner"), Message(x)}
  <2>1. <<Message("banner")>> \in Seq(S) /\ Message(x) \in S
    OBVIOUS
  <2>2. s2c' = <<Message("banner")>> \o <<Message(x)>>
    BY <1>2, <2>1, AppendIsConcat
  <2>. QED
    BY <2>2, Joined DEF Answers
<1>. QED
  BY <1>1, <1>2 DEF Unread

\* One round of auth::server's loop keeps the login's invariant.
LEMMA UserauthRequestKeeps ==
    ASSUME KeysInv, LoginInv, UserauthRequest PROVE LoginInv'
<1>0. /\ sv.at = "auth" /\ c2s # <<>> /\ c2s' = Tail(c2s) /\ LoginType
      /\ UNCHANGED <<agentVars, policy, file, cl, lost>>
  BY DEF UserauthRequest, LoginInv
<1>1. PICK m : m = Head(c2s)
  OBVIOUS
<1>2. PICK at1 \in {"service", "auth", "in", "failed"}, left1 \in 0..MaxAttempts, as1 \in {sv'.as} :
        /\ sv' = [at |-> at1, left |-> left1, as |-> as1]
        /\ Judged(m, sv.left, sv.as, at1, left1, as1)
  BY <1>0, <1>1, UserauthJudged
<1>3. LoginType'
  <2>1. at1 \in {"service", "auth"} => left1 > 0
    <3>1. sv.left \in Nat /\ sv.left > 0
      BY <1>0, AuthAssumption DEF LoginType
    <3>. QED
      BY <1>2, <3>1 DEF Judged
  <2>. QED
    BY <1>0, <1>2, <2>1, ServerType
<1>4. LoginAsk'
  <2>1. request'[Login] = request[Login] /\ reply'[Login] = reply[Login] /\ cl' = cl
    BY <1>0 DEF agentVars
  <2>. QED
    BY <2>1, AskUndisturbed DEF LoginInv
<1>5. Offered' = Offered /\ Cred' = Cred /\ cl' = cl /\ lost' = lost
  BY <1>0 DEF Offered, Cred, CredSpan
<1>6. sv'.at = at1 /\ sv'.left = left1 /\ sv'.as = as1
  BY <1>2
<1>7. \A i \in DOMAIN cl.creds : Acceptable(i)' => Acceptable(i)
  <2>1. Later
    BY <1>0 DEF Later, KeysInv, agentVars
  <2>. TAKE i \in DOMAIN cl.creds
  <2>. HAVE Acceptable(i)'
  <2>. QED
    BY <1>0, <2>1, OnceAcceptable DEF Later
<1>8. CASE cl.at = "verdict"
  <2>1. c2s = <<Offered>> /\ s2c \in Unread /\ Answered(cl.i - 1) /\ cl.i <= Len(cl.creds)
    BY <1>0, <1>8 DEF LoginInv, TalkInv, TalkVerdict
  <2>2. m = Offered /\ c2s' = <<>>
    BY <1>0, <1>1, <2>1, HeadTail
  <2>3. CASE at1 = "in"
    <3>1. as1 = {Cred} /\ s2c' = Append(s2c, Message("success"))
      BY <1>2, <2>2, <2>3, OfferedJudged DEF Judged
    <3>2. s2c' \in Answers("success")
      BY <2>1, <3>1, Appended
    <3>3. TalkVerdict'
      BY <1>0, <1>5, <1>6, <2>1, <2>2, <2>3, <3>1, <3>2 DEF TalkVerdict
    <3>4. TalkEarly' /\ TalkService' /\ TalkOffer' /\ TalkOver' /\ LastResort'
      BY <1>5, <1>8 DEF TalkEarly, TalkService, TalkOffer, TalkOver, LastResort, Early
    <3>. QED
      BY <1>3, <1>4, <3>3, <3>4 DEF LoginInv, TalkInv
  <2>4. CASE at1 # "in"
    <3>1. /\ at1 = IF sv.left = 1 THEN "failed" ELSE "auth"
          /\ left1 = sv.left - 1
          /\ ~Acceptable(cl.i) /\ s2c' = Append(s2c, Message("failure"))
      BY <1>2, <2>2, <2>4, OfferedJudged DEF Judged
    <3>2. s2c' \in Answers("failure")
      BY <2>1, <3>1, Appended
    <3>3. Answered(cl.i)'
      <4>. DEFINE C(k) == Cardinality((1..k) \ cl.refused)
      <4>1. cl.i \in Nat \ {0} /\ cl.i - 1 \in Nat /\ cl.refused \subseteq 1..(cl.i - 1)
        BY <1>0, ClientFields
      <4>2. C(cl.i) = C(cl.i - 1) + 1
        BY <4>1, OneMore
      <4>3. C(cl.i) \in Nat /\ C(cl.i - 1) \in Nat
        BY <4>1, OffersNat
      <4>4. sv.left = MaxAttempts - C(cl.i - 1) /\ sv.left > 0 /\ MaxAttempts \in Nat
        BY <1>0, <2>1, AuthAssumption DEF Answered, Offers
      <4>5. Offers(cl.i)' = C(cl.i)
        BY <1>5 DEF Offers
      <4>6. ASSUME NEW k \in DOMAIN cl.creds \ cl.refused, k <= cl.i PROVE ~Acceptable(k)'
        <5>1. CASE k = cl.i
          BY <1>7, <3>1, <4>6, <5>1
        <5>2. CASE k # cl.i
          <6>1. k \in Nat
            BY <1>0, <4>6 DEF LoginType
          <6>2. k <= cl.i - 1
            BY <4>1, <4>6, <5>2, <6>1
          <6>3. ~Acceptable(k)
            BY <2>1, <4>6, <6>2 DEF Answered
          <6>. QED
            BY <1>7, <4>6, <6>3
        <5>. QED
          BY <5>1, <5>2
      <4>. HIDE DEF C
      <4>7. left1 = MaxAttempts - C(cl.i)
        BY <3>1, <4>2, <4>3, <4>4
      <4>8. /\ at1 \in {"auth", "failed"}
            /\ at1 = "auth" => left1 > 0
            /\ at1 = "failed" => left1 = 0
        BY <3>1, <4>3, <4>4
      <4>. QED
        BY <1>5, <1>6, <4>5, <4>6, <4>7, <4>8 DEF Answered
    <3>4. TalkVerdict'
      BY <1>5, <2>1, <2>2, <3>2, <3>3 DEF TalkVerdict
    <3>5. TalkEarly' /\ TalkService' /\ TalkOffer' /\ TalkOver' /\ LastResort'
      BY <1>5, <1>8 DEF TalkEarly, TalkService, TalkOffer, TalkOver, LastResort, Early
    <3>. QED
      BY <1>3, <1>4, <3>4, <3>5 DEF LoginInv, TalkInv
  <2>. QED
    BY <2>3, <2>4
<1>9. CASE cl.at # "verdict"
  <2>1. cl.at \in {"failed", "foreign"}
    <3>1. cl.at \notin Early
      BY <1>0 DEF LoginInv, TalkInv, TalkEarly
    <3>2. cl.at \notin {"offer", "signing"}
      BY <1>0 DEF LoginInv, TalkInv, TalkOffer
    <3>3. cl.at # "service"
      BY <1>0 DEF LoginInv, TalkInv, TalkService
    <3>4. cl.at # "in"
      BY <1>0 DEF LoginInv, TalkInv, TalkOver
    <3>. QED
      BY <1>0, <1>9, <3>1, <3>2, <3>3, <3>4, ClientFields DEF Places, Early
  <2>2. TalkEarly' /\ TalkService' /\ TalkOffer' /\ TalkVerdict'
    BY <1>5, <2>1 DEF TalkEarly, TalkService, TalkOffer, TalkVerdict, Early
  <2>3. \/ cl.at = "failed" /\ lost /\ c2s = <<Offered>>
        \/ cl.creds = <<>> /\ \E f \in Foreign : c2s = <<f>>
    BY <1>0, <2>1 DEF LoginInv, TalkInv, TalkOver
  <2>4. CASE cl.at = "failed" /\ lost /\ c2s = <<Offered>>
    <3>1. m = Offered /\ c2s' = <<>>
      BY <1>0, <1>1, <2>4, HeadTail
    <3>2. at1 = "in" => as1 = {Cred}
      BY <1>2, <3>1, OfferedJudged DEF Judged
    <3>3. TalkOver' /\ LastResort'
      <4>1. at1 \in {"auth", "in", "failed"}
        BY <1>2 DEF Judged
      <4>. QED
        BY <1>5, <1>6, <2>4, <3>1, <3>2, <4>1 DEF TalkOver, LastResort
    <3>. QED
      BY <1>3, <1>4, <2>2, <3>3 DEF LoginInv, TalkInv
  <2>5. CASE cl.creds = <<>> /\ \E f \in Foreign : c2s = <<f>>
    <3>1. m \in Foreign /\ c2s' = <<>>
      BY <1>0, <1>1, <2>5, HeadTail
    <3>2. at1 \in {"auth", "failed"}
      <4>1. ~(~BadRequest(m) /\ Authorized(m) /\ m.sig # {} /\ Verified(m))
        BY <1>0, <3>1, ForeignJudged
      <4>. QED
        BY <1>2, <4>1 DEF Judged
    <3>3. TalkOver' /\ LastResort'
      BY <1>5, <1>6, <2>1, <2>5, <3>1, <3>2 DEF TalkOver, LastResort
    <3>. QED
      BY <1>3, <1>4, <2>2, <3>3 DEF LoginInv, TalkInv
  <2>. QED
    BY <2>3, <2>4, <2>5
<1>. QED
  BY <1>8, <1>9

-----------------------------------------------------------------------------

\* Every step of the composition keeps the login's invariant.
LEMMA LoginKept ==
    ASSUME AskInv, KeysInv, KeysInv', LoginInv, [Next]_vars PROVE LoginInv'
<1>1. CASE UNCHANGED vars
  <2>1. UNCHANGED talkVars /\ cl' = cl /\ Later
        /\ request'[Login] = request[Login] /\ reply'[Login] = reply[Login]
    BY <1>1 DEF vars, talkVars, authVars, agentVars, Later, KeysInv
  <2>. QED
    BY <2>1, StillTalking, AskUndisturbed DEF LoginInv
<1>. QED
  BY <1>1, ClientKeeps, ForeignSendKeeps, ForeignLeaveKeeps, ServiceKeeps,
     UserauthRequestKeeps, ServerEofKeeps, ServeKeeps, MeddleKeeps, LoseKeeps, ClockKeeps
     DEF Next, Server

\* The server admits whom it should: a login is of the client at the other end
\* and of the credential it signed with in this session, both ends agree that
\* there is one, and a client that gives up on a connection that holds has
\* nothing left that the server would have taken (auth::run_auth and
\* auth::server), whatever the agent's other users do in between, whenever
\* certificates run out, for any policies, credentials and MAX_ATTEMPTS.
THEOREM RightlyJudged == Spec => []RightVerdict
<1>1. Init => IInv /\ KeysInv /\ LoginInv
  BY InitIInv, LoginInit
<1>2. (IInv /\ KeysInv /\ LoginInv) /\ [Next]_vars => (IInv /\ KeysInv /\ LoginInv)'
  <2>. SUFFICES ASSUME IInv, KeysInv, LoginInv, [Next]_vars PROVE (IInv /\ KeysInv /\ LoginInv)'
    OBVIOUS
  <2>1. AskInv /\ AgentStep
    BY NextIsAgentStep DEF IInv
  <2>2. IInv'
    BY <2>1, AskKept, LockKept, PathKept DEF IInv
  <2>3. KeysInv'
    BY <2>1, KeysKept
  <2>4. LoginInv'
    BY <2>1, <2>3, LoginKept
  <2>. QED
    BY <2>2, <2>3, <2>4
<1>3. LoginInv => RightVerdict
  <2>. SUFFICES ASSUME LoginInv PROVE RightVerdict
    OBVIOUS
  <2>1. LastResort
    BY DEF LoginInv, TalkInv
  <2>2. cl.at = "in" => sv.at = "in"
    BY DEF LoginInv, TalkInv, TalkOver
  <2>3. ASSUME sv.at = "in" PROVE (cl.at \in {"verdict", "in"} \/ lost) /\ Cred \in sv.as
    <3>1. cl.at \notin Early
      BY <2>3 DEF LoginInv, TalkInv, TalkEarly
    <3>2. cl.at \notin {"offer", "signing"}
      BY <2>3 DEF LoginInv, TalkInv, TalkOffer, Answered
    <3>3. cl.at # "service"
      BY <2>3 DEF LoginInv, TalkInv, TalkService
    <3>4. cl.at # "foreign"
      BY <2>3 DEF LoginInv, TalkInv, TalkOver
    <3>5. cl.at = "failed" => lost /\ sv.as = {Cred}
      BY <2>3 DEF LoginInv, TalkInv, TalkOver
    <3>6. cl.at = "verdict" => sv.as = {Cred}
      BY <2>3 DEF LoginInv, TalkInv, TalkVerdict, Answered
    <3>7. cl.at = "in" => sv.as = {Cred}
      BY <2>3 DEF LoginInv, TalkInv, TalkOver
    <3>8. cl.at \in Places
      BY ClientFields DEF LoginInv
    <3>. QED
      BY <3>1, <3>2, <3>3, <3>4, <3>5, <3>6, <3>7, <3>8 DEF Places, Early
  <2>. QED
    BY <2>1, <2>2, <2>3 DEF RightVerdict, SameLogin
<1>. QED
  BY <1>1, <1>2, <1>3, PTL DEF Spec
=============================================================================
