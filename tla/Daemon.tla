------------------------------- MODULE Daemon -------------------------------
(***************************************************************************)
(* shhd around the connections it serves (bin/shhd.rs, privsep.rs): its    *)
(* host key, made by the first start and read by the later ones; the order *)
(* of bind, fork and drop at start-up; the signer process that holds the   *)
(* key under --privsep, reached by all connections over one socket and one *)
(* mutex; and the account a session ends up with.                          *)
(*                                                                         *)
(* Several daemons (on ports of their own) share the key file.  A daemon   *)
(* may be killed between any two steps and started again.  A key is the    *)
(* number of the start that generated it; a hash to be signed is the       *)
(* connection and the exchange it comes from.                              *)
(***************************************************************************)
EXTENDS Integers, Sequences

CONSTANTS
    Daemons, Conns,
    Configs,        \* functions from daemons to command lines
    Users,          \* names that get through authentication
    Accounts,       \* the ones that are accounts of the system
    None,
    MaxStarts,      \* bound: starts of all daemons
    MaxSigns,       \* bound: key exchanges of a connection, for one at a time
    MaxDeaths       \* bound: signers that die on their own

ASSUME DaemonAssumption ==
    /\ MaxStarts \in Nat /\ MaxSigns \in Nat /\ MaxDeaths \in Nat
    /\ Accounts \subseteq Users
    /\ None \notin Conns /\ None \notin Daemons /\ None \notin Nat
    /\ \A f \in Configs : \A d \in Daemons :
          f[d] \in [root : BOOLEAN, privsep : BOOLEAN, sandbox : BOOLEAN,
                    no_privilege_drop : BOOLEAN, user_exists : BOOLEAN]

VARIABLES
    args,           \* the command line, and whether it is root that starts
    file,           \* the host-key file
    starts, deaths,
    pc,             \* where each daemon is in main
    key,            \* the host key in each daemon's own memory
    cred,           \* the credentials of each daemon
    public,         \* public_blob: the key each daemon presents
    signer,         \* the signer process of each daemon: none, up or gone
    busy,           \* the request it has read: a set with at most one member
    lock,           \* who holds the mutex of the socket
    toSigner, fromSigner,
    conn,           \* each connection: where it is, whose it is, the exchanges
                    \* it began, the signature it got last, who it is for and
                    \* what its session runs as
    served          \* every key a client was shown

keyVars == <<file, starts, served>>
mainVars == <<pc, key, cred, public>>
signerVars == <<signer, busy, lock, toSigner, fromSigner, deaths>>
vars == <<args, keyVars, mainVars, signerVars, conn>>

Unused ==
    [at |-> "none", of |-> None, signs |-> 0, sig |-> None, login |-> None, account |-> None]
Closed == [Unused EXCEPT !.at = "closed"]

Privsep(d) == IF args[d].sandbox THEN TRUE ELSE args[d].privsep

\* Credentials: user, group and supplementary groups.
As(a) == [uid |-> a, gid |-> a, groups |-> a]
Root == As("root")
Nobody == "nobody"

setgid(c, a) == [uid |-> c.uid, gid |-> a, groups |-> c.groups]
initgroups(c, a) == [uid |-> c.uid, gid |-> c.gid, groups |-> a]
setuid(c, a) == [uid |-> a, gid |-> c.gid, groups |-> c.groups]

DropWithoutGroups(c, a) == setuid(setgid(c, a), a)

\* In the order that root needs: the first that fails is an error of the whole.
Dropped(c, a) == setuid(initgroups(setgid(c, a), a), a)

Init ==
    /\ args \in Configs
    /\ file = [state |-> "absent", key |-> None]
    /\ starts = 0 /\ deaths = 0
    /\ pc = [d \in Daemons |-> "off"]
    /\ key = [d \in Daemons |-> None]
    /\ cred = [d \in Daemons |-> Root]
    /\ public = [d \in Daemons |-> None]
    /\ signer = [d \in Daemons |-> "none"]
    /\ busy = [d \in Daemons |-> {}]
    /\ lock = [d \in Daemons |-> None]
    /\ toSigner = [d \in Daemons |-> <<>>]
    /\ fromSigner = [d \in Daemons |-> <<>>]
    /\ conn = [c \in Conns |-> Unused]
    /\ served = {}

-----------------------------------------------------------------------------
(* main. *)

Goto(d, p) == pc' = [pc EXCEPT ![d] = p]

\* The process ends: its memory, its sockets and its connections go with it.
\* The signer finds out by itself.
Exit(d) ==
    /\ Goto(d, "off")
    /\ key' = [key EXCEPT ![d] = None]
    /\ public' = [public EXCEPT ![d] = None]
    /\ conn' = [c \in Conns |-> IF conn[c].of = d THEN Closed ELSE conn[c]]
    /\ lock' = [lock EXCEPT ![d] = None]
    /\ UNCHANGED <<args, cred, signer, busy, toSigner, fromSigner, deaths>>

startVars == <<args, signerVars, conn>>

Start(d) ==
    /\ pc[d] = "off" /\ starts < MaxStarts
    /\ starts' = starts + 1
    /\ Goto(d, "exists")
    /\ cred' = [cred EXCEPT ![d] = IF args[d].root THEN Root ELSE As("shhd")]
    /\ UNCHANGED <<key, public, file, served>> /\ UNCHANGED startVars

\* load_or_create_host_key: a file that exists is read, whatever is in it ...
KeyExists(d) ==
    /\ pc[d] = "exists"
    /\ Goto(d, IF file.state = "absent" THEN "create" ELSE "read")
    /\ key' = [key EXCEPT ![d] = IF file.state = "absent" THEN starts ELSE None]
    /\ UNCHANGED <<cred, public>> /\ UNCHANGED keyVars /\ UNCHANGED startVars

ReadKey(d) ==
    /\ pc[d] = "read" /\ file.state = "written"
    /\ key' = [key EXCEPT ![d] = file.key]
    /\ Goto(d, "bind")
    /\ UNCHANGED <<cred, public>> /\ UNCHANGED keyVars /\ UNCHANGED startVars

\* ... and one that does not decode stops the daemon.
BadKey(d) ==
    /\ pc[d] = "read" /\ file.state # "written"
    /\ Exit(d) /\ UNCHANGED keyVars

CreateOver(d) ==
    /\ pc[d] = "create"
    /\ file' = [state |-> "empty", key |-> None]
    /\ Goto(d, "write")
    /\ UNCHANGED <<key, cred, public, starts, served>> /\ UNCHANGED startVars

\* create_new: only one start makes the file.
CreateKey(d) ==
    /\ pc[d] = "create" /\ file.state = "absent"
    /\ file' = [state |-> "empty", key |-> None]
    /\ Goto(d, "write")
    /\ UNCHANGED <<key, cred, public, starts, served>> /\ UNCHANGED startVars

CreateLost(d) ==
    /\ pc[d] = "create" /\ file.state # "absent"
    /\ Exit(d) /\ UNCHANGED keyVars

WriteKey(d) ==
    /\ pc[d] = "write"
    /\ file' = [state |-> "written", key |-> key[d]]
    /\ Goto(d, "bind")
    /\ UNCHANGED <<key, cred, public, starts, served>> /\ UNCHANGED startVars

\* The disk is full half way.
WriteFails(d) ==
    /\ pc[d] = "write"
    /\ file' = [state |-> "torn", key |-> None]
    /\ Exit(d) /\ UNCHANGED <<starts, served>>

\* A signer that has outlived its daemon still has the listening socket.
Bind(d) ==
    /\ pc[d] = "bind" /\ signer[d] # "up"
    /\ Goto(d, "fork")
    /\ public' = [public EXCEPT ![d] = key[d]]
    /\ UNCHANGED <<key, cred>> /\ UNCHANGED keyVars /\ UNCHANGED startVars

BindFails(d) ==
    /\ pc[d] = "bind"
    /\ Exit(d) /\ UNCHANGED keyVars

\* spawn_signer: the child has the key and a fresh socket pair; the parent
\* drops its copy.  What the child makes of harden does not stop it from
\* serving, unless it could take its privileges back.
Fork(d) ==
    /\ pc[d] = "fork"
    /\ signer' = [signer EXCEPT ![d] = IF Privsep(d) THEN "up" ELSE "none"]
    /\ key' = [key EXCEPT ![d] = IF Privsep(d) THEN None ELSE @]
    /\ toSigner' = [toSigner EXCEPT ![d] = <<>>] /\ fromSigner' = [fromSigner EXCEPT ![d] = <<>>]
    /\ busy' = [busy EXCEPT ![d] = {}]
    /\ Goto(d, "drop")
    /\ UNCHANGED <<cred, public, args, lock, deaths>> /\ UNCHANGED keyVars
    /\ UNCHANGED conn

\* drop_daemon_privileges, under --sandbox: all three steps or the end.
MustDrop(d) == args[d].sandbox /\ args[d].root

DropPrivileges(d) ==
    /\ pc[d] = "drop"
    /\ IF MustDrop(d) THEN args[d].user_exists ELSE TRUE
    /\ cred' = IF MustDrop(d) THEN [cred EXCEPT ![d] = Dropped(@, Nobody)] ELSE cred
    /\ Goto(d, "serve")
    /\ UNCHANGED <<key, public>> /\ UNCHANGED keyVars /\ UNCHANGED startVars

DropFails(d) ==
    /\ pc[d] = "drop" /\ MustDrop(d)
    /\ Exit(d) /\ UNCHANGED keyVars

\* Killed, or stopped by an error of accept.
Killed(d) ==
    /\ pc[d] # "off"
    /\ Exit(d) /\ UNCHANGED keyVars

-----------------------------------------------------------------------------
(* Connections up to the signature. *)

ConnAt(c, p) == conn' = [conn EXCEPT ![c].at = p]
Signed(c, s) == conn' = [conn EXCEPT ![c].at = "signed", ![c].sig = s]
Of(c) == conn[c].of
In(c, p) == conn[c].at = p /\ Of(c) # None /\ pc[Of(c)] = "serve"

connRest == <<args, keyVars, mainVars>>

Accept(d, c) ==
    /\ pc[d] = "serve" /\ conn[c].at = "none"
    /\ conn' = [conn EXCEPT ![c].at = "sign", ![c].of = d, ![c].signs = 1]
    /\ served' = served \cup {public[d]}
    /\ UNCHANGED <<args, mainVars, file, starts>> /\ UNCHANGED signerVars

Hash(c) == [conn |-> c, n |-> conn[c].signs]
Signature(h, k) == [hash |-> h, key |-> k]
Empty == [hash |-> None, key |-> None]

\* LocalSigner.
SignHere(c) ==
    /\ In(c, "sign") /\ ~Privsep(Of(c))
    /\ Signed(c, Signature(Hash(c), key[Of(c)]))
    /\ UNCHANGED connRest /\ UNCHANGED signerVars

TakeNoLock(c) ==
    /\ In(c, "sign") /\ Privsep(Of(c))
    /\ ConnAt(c, "locked")
    /\ UNCHANGED connRest /\ UNCHANGED signerVars

\* MonitorSigner: the mutex is held over the round trip, and the thread with it.
TakeLock(c) ==
    /\ In(c, "sign") /\ Privsep(Of(c))
    /\ lock[Of(c)] = None
    /\ lock' = [lock EXCEPT ![Of(c)] = c]
    /\ ConnAt(c, "locked")
    /\ UNCHANGED connRest /\ UNCHANGED <<signer, busy, toSigner, fromSigner, deaths>>

RequestFrame(c) ==
    /\ In(c, "locked") /\ signer[Of(c)] = "up"
    /\ toSigner' = [toSigner EXCEPT ![Of(c)] = Append(@, Hash(c))]
    /\ ConnAt(c, "waiting")
    /\ UNCHANGED connRest /\ UNCHANGED <<signer, busy, lock, fromSigner, deaths>>

ReplyFrame(c) ==
    /\ In(c, "waiting") /\ fromSigner[Of(c)] # <<>>
    /\ Signed(c, Head(fromSigner[Of(c)]))
    /\ fromSigner' = [fromSigner EXCEPT ![Of(c)] = Tail(@)]
    /\ lock' = [lock EXCEPT ![Of(c)] = None]
    /\ UNCHANGED connRest /\ UNCHANGED <<signer, busy, toSigner, deaths>>

NoSigner(c) ==
    /\ IF In(c, "locked") THEN TRUE ELSE In(c, "waiting")
    /\ signer[Of(c)] # "up" /\ fromSigner[Of(c)] = <<>>

FailKeepsLock(c) ==
    /\ NoSigner(c)
    /\ Signed(c, Empty)
    /\ UNCHANGED connRest /\ UNCHANGED signerVars

\* A broken pipe or the end of the stream: an empty signature, and the guard
\* is dropped.
RequestFails(c) ==
    /\ NoSigner(c)
    /\ Signed(c, Empty)
    /\ lock' = [lock EXCEPT ![Of(c)] = None]
    /\ UNCHANGED connRest /\ UNCHANGED <<signer, busy, toSigner, fromSigner, deaths>>

-----------------------------------------------------------------------------
(* The signer. *)

signerRest == <<args, keyVars, mainVars, conn, lock, deaths>>

Serve(d) ==
    /\ signer[d] = "up" /\ busy[d] = {} /\ toSigner[d] # <<>>
    /\ busy' = [busy EXCEPT ![d] = {Head(toSigner[d])}]
    /\ toSigner' = [toSigner EXCEPT ![d] = Tail(@)]
    /\ UNCHANGED <<signer, fromSigner>> /\ UNCHANGED signerRest

\* It has the key its daemon presents.
Respond(d) ==
    /\ signer[d] = "up" /\ pc[d] \in {"drop", "serve"}
    /\ \E h \in busy[d] :
          fromSigner' = [fromSigner EXCEPT ![d] = Append(@, Signature(h, public[d]))]
    /\ busy' = [busy EXCEPT ![d] = {}]
    /\ UNCHANGED <<signer, toSigner>> /\ UNCHANGED signerRest

SignerEnds(d) ==
    /\ signer[d] = "up" /\ pc[d] \notin {"drop", "serve"}
    /\ signer' = [signer EXCEPT ![d] = "gone"]
    /\ busy' = [busy EXCEPT ![d] = {}]
    /\ UNCHANGED <<toSigner, fromSigner>> /\ UNCHANGED signerRest

SignerDies(d) ==
    /\ signer[d] = "up" /\ deaths < MaxDeaths
    /\ deaths' = deaths + 1
    /\ signer' = [signer EXCEPT ![d] = "gone"]
    /\ busy' = [busy EXCEPT ![d] = {}]
    /\ UNCHANGED <<toSigner, fromSigner>>
    /\ UNCHANGED <<args, keyVars, mainVars, conn, lock>>

-----------------------------------------------------------------------------
(* After the signature. *)

Verifies(c) == conn[c].sig = Signature(Hash(c), public[Of(c)])

\* The client checks the signature; a first exchange is followed by
\* authentication, a rekey by more of the session.
Checked(c) ==
    /\ In(c, "signed")
    /\ IF Verifies(c)
         THEN conn' = [conn EXCEPT ![c].at = IF conn[c].signs = 1 THEN "auth" ELSE "session",
                                   ![c].sig = None]
         ELSE conn' = [conn EXCEPT ![c] = Closed]
    /\ UNCHANGED connRest /\ UNCHANGED signerVars

PerUser(d) == ~args[d].no_privilege_drop /\ ~args[d].sandbox

\* The account of a session for u: the login's own where the daemon can drop
\* to it, the daemon's where it cannot, none if it could and u is no account.
SessionCred(d, u) ==
    IF PerUser(d) /\ cred[d].uid = "root"
      THEN IF u \in Accounts THEN {Dropped(cred[d], u)} ELSE {}
      ELSE {cred[d]}

Authenticated(c, u) ==
    /\ In(c, "auth")
    /\ conn' = [conn EXCEPT ![c] =
                  IF SessionCred(Of(c), u) = {} THEN Closed
                  ELSE [@ EXCEPT !.at = "session", !.login = u,
                                 !.account = CHOOSE x \in SessionCred(Of(c), u) : TRUE]]
    /\ UNCHANGED connRest /\ UNCHANGED signerVars

Rekey(c) ==
    /\ In(c, "session") /\ \A x \in Conns : conn[x].signs < MaxSigns
    /\ conn' = [conn EXCEPT ![c].at = "sign", ![c].signs = @ + 1]
    /\ UNCHANGED connRest /\ UNCHANGED signerVars

-----------------------------------------------------------------------------
Main(d) ==
    \/ KeyExists(d) \/ ReadKey(d) \/ BadKey(d) \/ CreateKey(d) \/ CreateLost(d)
    \/ WriteKey(d) \/ WriteFails(d) \/ Bind(d) \/ BindFails(d) \/ Fork(d)
    \/ DropPrivileges(d) \/ DropFails(d)
Signer(d) == Serve(d) \/ Respond(d) \/ SignerEnds(d)
Connection(c) ==
    \/ SignHere(c) \/ TakeLock(c) \/ RequestFrame(c) \/ ReplyFrame(c) \/ RequestFails(c)
    \/ Checked(c)

Next ==
    \/ \E d \in Daemons : Start(d) \/ Main(d) \/ Killed(d) \/ Signer(d) \/ SignerDies(d)
    \/ \E c \in Conns : Connection(c) \/ Rekey(c)
    \/ \E d \in Daemons, c \in Conns : Accept(d, c)
    \/ \E c \in Conns, u \in Users : Authenticated(c, u)

Spec == Init /\ [][Next]_vars

\* Processes and tasks keep running until they end; nobody need connect, rekey,
\* start or kill anything.
FairSpec ==
    /\ Spec
    /\ \A d \in Daemons : WF_vars(Main(d)) /\ WF_vars(Signer(d))
    /\ \A c \in Conns : WF_vars(Connection(c))

-----------------------------------------------------------------------------
\* Every signature a connection gets back is over its own exchange hash, by the
\* key its daemon presents, or is empty: replies on the shared socket are not
\* mixed up, not even after a round trip that failed.
RightSignature ==
    \A c \in Conns :
        In(c, "signed") => conn[c].sig = Empty \/ Verifies(c)

\* A daemon that serves is as confined as its command line says: with --privsep
\* the key is not in the process that parses, with --sandbox neither user nor
\* group nor supplementary group is root's; and a session has root's rights in
\* any of the three only if it is root's, or the operator turned the drop off.
Confined ==
    /\ \A d \in Daemons :
          pc[d] = "serve" =>
             /\ Privsep(d) => key[d] = None
             /\ args[d].sandbox => "root" \notin {cred[d].uid, cred[d].gid, cred[d].groups}
    /\ \A c \in Conns :
          LET a == conn[c].account
          IN  (In(c, "session") /\ "root" \in {a.uid, a.gid, a.groups}) =>
                 \/ conn[c].login = "root"
                 \/ args[Of(c)].no_privilege_drop /\ ~args[Of(c)].sandbox

\* However starts race for the key file and wherever they are killed, clients
\* are shown one host key, and it is the one the file holds.
OneHostKey ==
    \A k \in served : file = [state |-> "written", key |-> k]

\* A request for a signature comes back, also from a signer that died, so that
\* no connection keeps the mutex or waits for it for ever; and a signer whose
\* daemon is gone ends, so that the port can be bound again.
HandshakeSettles ==
    /\ \A c \in Conns :
          conn[c].at \in {"sign", "locked", "waiting"} ~>
              conn[c].at \notin {"sign", "locked", "waiting"}
    /\ \A d \in Daemons : (pc[d] = "off" /\ signer[d] = "up") ~> signer[d] # "up"
=============================================================================
