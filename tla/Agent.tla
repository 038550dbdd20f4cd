------------------------------- MODULE Agent --------------------------------
(***************************************************************************)
(* The key agent of agent/server.rs: one keyring behind a mutex, shared by *)
(* every connection of serve_conn, and on each connection the session      *)
(* bindings that say which hosts it reaches through.  A connection has one *)
(* request and one reply in flight, as agent::Client uses it.              *)
(*                                                                         *)
(* Signatures are symbolic: [key, over] is key's signature over what over  *)
(* names.  A blob, of a host key or of an identity, is a record of what    *)
(* parsing it finds: [algo, key, ca, type, after, until, principals,       *)
(* sources], where a plain key has ca = "none" and type = "none", and a    *)
(* certificate is valid from after to before until.  Passphrases are       *)
(* sequences of bytes, because what the agent compares is a padded copy of *)
(* them.                                                                   *)
(***************************************************************************)
EXTENDS Integers, Sequences, FiniteSets

CONSTANTS
    Conns,         \* connections to the agent
    Pass,          \* lock passphrases: sequences of bytes
    LockMaxLen,    \* LOCK_MAX_LEN
    Stock,         \* what the store holds at first: a sequence of Stored
    Never          \* the expiry of an identity added without a lifetime

Idle == [op |-> "none"]

ASSUME AgentAssumption ==
    /\ Pass \subseteq Seq(Nat)
    /\ LockMaxLen \in Nat

VARIABLES
    now,       \* the clock
    keys,      \* Vec<Stored>: [blob, expires, constraints]
    lock,      \* Option: {}, or the passphrase the store is locked with
    bindings,  \* per connection: [host_key, session_id, is_forwarding]
    request,   \* per connection: the frame not yet handled
    reply      \* per connection: the answer not yet read

agentVars == <<now, keys, lock, bindings, request, reply>>

AgentInit ==
    /\ now = 0
    /\ keys = Stock
    /\ lock = {}
    /\ bindings = [c \in Conns |-> <<>>]
    /\ request = [c \in Conns |-> Idle]
    /\ reply = [c \in Conns |-> Idle]

-----------------------------------------------------------------------------
(* Client::roundtrip.                                                      *)

\* write_frame
Ask(c, req) ==
    /\ request[c] = Idle /\ reply[c] = Idle
    /\ request' = [request EXCEPT ![c] = req]
    /\ UNCHANGED <<now, keys, lock, bindings, reply>>

\* read_frame
Read(c) ==
    /\ reply[c] # Idle
    /\ reply' = [reply EXCEPT ![c] = Idle]
    /\ UNCHANGED <<now, keys, lock, bindings, request>>

-----------------------------------------------------------------------------
(* What the handlers look at.                                              *)

\* What is at the places of s that are in at, in their order.
Rank(at, i) == Cardinality({j \in at : j <= i})
Retain(s, at) ==
    [n \in 1..Cardinality(at) |-> s[CHOOSE i \in at : Rank(at, i) = n]]

Unexpired(k) == k.expires = Never \/ k.expires > now

\* purge_expired, which handle() and len() begin with.
Purged == Retain(keys, {i \in DOMAIN keys : Unexpired(keys[i])})

Without(ks, blob) == Retain(ks, {i \in DOMAIN ks : ks[i].blob # blob})
Find(ks, blob) == {ks[i] : i \in {j \in DOMAIN ks : ks[j].blob = blob}}

\* Certificate::valid_at, of the clock.
ValidAt(blob) == blob.after <= now /\ now < blob.until

\* hop_lists_key: a hop is a set of [key, is_ca].  A CA entry stands for the
\* hosts with a host certificate of that CA that is valid now.
HopLists(hop, blob) ==
    \E entry \in hop :
        IF entry.is_ca
        THEN blob.ca = entry.key /\ blob.type = "host" /\ ValidAt(blob)
        ELSE blob.key = entry.key

\* destinations_permit: every hop of the path, from the previous one; the
\* first from the local origin, which is a hop without keys.
HopPermitted(constraints, bs, i) ==
    \E c \in constraints :
        /\ IF i = 1 THEN c.from = {} ELSE HopLists(c.from, bs[i - 1].host_key)
        /\ HopLists(c.to, bs[i].host_key)

DestinationsPermit(constraints, bs) ==
    \/ constraints = {}
    \/ bs # <<>> /\ \A i \in DOMAIN bs : HopPermitted(constraints, bs, i)

-----------------------------------------------------------------------------
(* Keyring::handle: the store is purged, the request answered, all under   *)
(* the mutex.  Success and Refuse end every handler.                       *)

Answer(c, ans) ==
    /\ request' = [request EXCEPT ![c] = Idle]
    /\ reply' = [reply EXCEPT ![c] = ans]
    /\ UNCHANGED now

Success(c) == Answer(c, [op |-> "success"])

Refuse(c) ==
    /\ Answer(c, [op |-> "failure"])
    /\ keys' = Purged
    /\ UNCHANGED <<lock, bindings>>

Handles(c, op) == request[c].op = op

\* A locked store answers a listing and an unlock.
\* (Twin: an addition passes too.)
GateButAdd(op) == lock # {} /\ op \notin {"list", "unlock", "add"}
Gate(op) == lock # {} /\ op \notin {"list", "unlock"}

HandleSealed(c) ==
    /\ request[c] # Idle
    /\ Gate(request[c].op)
    /\ Refuse(c)

Open(c, op) == Handles(c, op) /\ ~Gate(op)

\* list: a locked agent names nothing.
HandleList(c) ==
    /\ Open(c, "list")
    /\ keys' = Purged
    /\ Answer(c, [op |-> "identities",
                  blobs |-> IF lock # {} THEN <<>>
                            ELSE [i \in DOMAIN Purged |-> Purged[i].blob]])
    /\ UNCHANGED <<lock, bindings>>

\* sign
HandleSign(c) ==
    LET req == request[c]
        held == {k \in Find(Purged, req.blob) :
                    DestinationsPermit(k.constraints, bindings[c])}
    IN  /\ Open(c, "sign")
        /\ \/ held = {} /\ Refuse(c)
           \/ /\ held # {}
              /\ keys' = Purged
              /\ Answer(c, [op |-> "signature",
                            sig |-> [key |-> req.blob.key, over |-> req.data]])
              /\ UNCHANGED <<lock, bindings>>

\* add: what the agent cannot honour, a lifetime of zero included, is refused;
\* an identity that is held already is replaced.
Honours(req) == req.sound /\ req.lifetime # 0
HandleAdd(c) ==
    LET req == request[c] IN
    /\ Open(c, "add")
    /\ \/ ~Honours(req) /\ Refuse(c)
       \/ /\ Honours(req)
          /\ keys' = Append(Without(Purged, req.blob),
                [blob |-> req.blob, constraints |-> req.constraints,
                 expires |-> IF req.lifetime = Never THEN Never
                             ELSE now + req.lifetime])
          /\ Success(c)
          /\ UNCHANGED <<lock, bindings>>

\* remove, and REMOVE_ALL_IDENTITIES
HandleRemove(c) ==
    /\ Open(c, "remove")
    /\ \/ Find(Purged, request[c].blob) = {} /\ Refuse(c)
       \/ /\ Find(Purged, request[c].blob) # {}
          /\ keys' = Without(Purged, request[c].blob)
          /\ Success(c)
          /\ UNCHANGED <<lock, bindings>>

HandleRemoveAll(c) ==
    /\ Open(c, "remove_all")
    /\ keys' = <<>>
    /\ Success(c)
    /\ UNCHANGED <<lock, bindings>>

\* set_lock: what unset_lock would refuse to compare is refused.
\* (Twin: any length is accepted.)
AnyLength(pass) == TRUE
Lockable(pass) == Len(pass) <= LockMaxLen
HandleLock(c) ==
    LET pass == request[c].pass IN
    /\ Open(c, "lock")
    /\ \/ ~Lockable(pass) /\ Refuse(c)
       \/ /\ Lockable(pass)
          /\ lock' = {pass}
          /\ keys' = Purged
          /\ Success(c)
          /\ UNCHANGED bindings

\* unset_lock: both are copied into zeroed buffers, which are compared whole,
\* and so are the lengths.
Padded(pass) == [i \in 1..LockMaxLen |-> IF i <= Len(pass) THEN pass[i] ELSE 0]
Comparable(held, pass) == Len(held) <= LockMaxLen /\ Len(pass) <= LockMaxLen
Unlocks(pass) ==
    \E held \in lock : /\ Comparable(held, pass)
                       /\ Len(held) = Len(pass)
                       /\ Padded(held) = Padded(pass)
HandleUnlock(c) ==
    LET pass == request[c].pass IN
    /\ Open(c, "unlock")
    /\ \/ ~Unlocks(pass) /\ Refuse(c)
       \/ /\ Unlocks(pass)
          /\ lock' = {}
          /\ keys' = Purged
          /\ Success(c)
          /\ UNCHANGED bindings

\* session_bind: a host's own signature over the session id, a session not
\* bound before, and no hop beyond one that does not forward.
Verifies(req) == req.sig = [key |-> req.host_key.key, over |-> req.session_id]
Replayed(c, sid) ==
    \E i \in DOMAIN bindings[c] : bindings[c][i].session_id = sid
\* (Twin: a path has no end.)
NeverEnds(c) == FALSE
EndsHere(c) ==
    /\ bindings[c] # <<>>
    /\ ~bindings[c][Len(bindings[c])].is_forwarding

Binding(req) == [host_key |-> req.host_key, session_id |-> req.session_id,
                 is_forwarding |-> req.is_forwarding]
HandleBind(c) ==
    LET req == request[c]
        ok == Verifies(req) /\ ~Replayed(c, req.session_id) /\ ~EndsHere(c)
    IN  /\ Open(c, "bind")
        /\ \/ ~ok /\ Refuse(c)
           \/ /\ ok
              /\ bindings' = [bindings EXCEPT ![c] = Append(@, Binding(req))]
              /\ keys' = Purged
              /\ Success(c)
              /\ UNCHANGED lock

Handle(c) ==
    \/ HandleSealed(c) \/ HandleList(c) \/ HandleSign(c) \/ HandleAdd(c)
    \/ HandleRemove(c) \/ HandleRemoveAll(c)
    \/ HandleLock(c) \/ HandleUnlock(c) \/ HandleBind(c)

\* serve_conn ends when its peer closes between two requests; what a later
\* connection has proved starts from nothing.
HangUp(c) ==
    /\ request[c] = Idle /\ reply[c] = Idle
    /\ bindings[c] # <<>>
    /\ bindings' = [bindings EXCEPT ![c] = <<>>]
    /\ UNCHANGED <<now, keys, lock, request, reply>>

\* The clock, to a bound the composition sets.
Tick ==
    /\ now' = now + 1
    /\ UNCHANGED <<keys, lock, bindings, request, reply>>

-----------------------------------------------------------------------------
\* A locked agent stays as it is until it is unlocked: whatever its
\* connections ask, nothing is listed, signed, added, removed or bound, and
\* identities leave the store only by the end of their lifetime.  A locked
\* store is not locked over either: its passphrase stays the same.
Gives(ans) ==
    ans.op = "signature" \/ (ans.op = "identities" /\ ans.blobs # <<>>)
LockSeals ==
    [][lock # {} =>
          /\ lock' \in {lock, {}}
          /\ keys' \in {keys, Purged}
          /\ \A c \in Conns : bindings'[c] \in {bindings[c], <<>>}
          /\ \A c \in Conns : Gives(reply'[c]) => reply'[c] = reply[c]]_agentVars

\* A lock can be taken off again, by its own passphrase and by no other:
\* whatever was accepted unlocks ("permanently bricking unlock" is what
\* LOCK_MAX_LEN on both ends prevents), and one that differs does not, not
\* even by zero bytes at its end.
Unlockable == lock # {} => \A pass \in Pass : Unlocks(pass) <=> pass \in lock

\* The path a connection has proved is one somebody can have taken: no session
\* is in it twice, and traffic was forwarded at every hop but the last.
PathProven ==
    \A c \in Conns : \A i \in DOMAIN bindings[c] :
        /\ i < Len(bindings[c]) => bindings[c][i].is_forwarding
        /\ \A j \in DOMAIN bindings[c] :
             bindings[c][i].session_id = bindings[c][j].session_id => i = j
=============================================================================
