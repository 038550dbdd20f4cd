-------------------------------- MODULE Auth --------------------------------
(***************************************************************************)
(* User authentication on one connection: the client of client.rs and      *)
(* auth::run_auth, which signs with an identity file or through the agent  *)
(* of Agent, the server of auth::server, and the messages between them.    *)
(* The other connections of the agent belong to shh-agent commands and to  *)
(* forwarded clients, which ask for anything in Meddling at any time.      *)
(*                                                                         *)
(* The key exchange has happened (module Transport): the connection has    *)
(* session identifier Session and the host proved Host with a signature    *)
(* over it.  The server may also face some other client of the protocol,   *)
(* which sends any of Foreign; the agent's user then does nothing.         *)
(***************************************************************************)
EXTENDS Agent

CONSTANTS
    MaxAttempts,   \* MAX_ATTEMPTS
    Login,         \* the agent connection that `shh` uses
    Session, Host, \* this connection's session identifier and host key blob
    User, Addr,    \* the login name asked for and the client's address
    Files,         \* credentials an identity file gives: certificate, then key
    Policies,      \* [user, keys, cas, banner]; user is an Option
    Outside,       \* requests another client may send, with what it signed
    Meddling,      \* what is asked on the other agent connections
    MaxMeddling,   \* bound on those requests
    MaxTime        \* bound on the clock

ASSUME AuthAssumption ==
    /\ MaxAttempts \in Nat \ {0}
    /\ Login \in Conns
    /\ \A req \in Meddling : req.op = "lock" => req.pass \in Pass

\* The credentials there are: in the agent's store, on their way to it, and in
\* the identity file; and what the store keeps of one.
Adds == {req \in Meddling : req.op = "add"}
Credentials ==
    {Stock[i].blob : i \in DOMAIN Stock} \cup {req.blob : req \in Adds}
      \cup UNION {{f[i] : i \in DOMAIN f} : f \in Files}
Entries ==
    [blob : Credentials, expires : Int \cup {Never},
     constraints : {Stock[i].constraints : i \in DOMAIN Stock}
                     \cup {req.constraints : req \in Adds}]

ASSUME CredentialAssumption ==
    /\ Stock \in Seq(Entries)
    /\ Files \subseteq Seq(Credentials)
    /\ \A req \in Adds : req.lifetime \in Int \cup {Never}
    /\ \A blob \in Credentials : blob.after \in Int /\ blob.until \in Int

VARIABLES
    policy,    \* auth::Policy
    file,      \* the identity file there is, as credentials; <<>> for none
    cl,        \* client: [at, agent, creds, i, refused]
    sv,        \* server: [at, left, as]
    c2s, s2c,  \* the two directions of the transport
    lost,      \* the connection broke
    meddled    \* requests made on the other agent connections

authVars == <<policy, file, cl, sv, c2s, s2c, lost, meddled>>
vars == <<agentVars, authVars>>

Certs == {"cert", "sk-cert"}
Bare == {"ed25519", "sk"}

Init ==
    /\ AgentInit
    /\ policy \in Policies
    /\ file \in Files
    /\ cl \in [at : {"start", "foreign"}, agent : {FALSE}, creds : {<<>>},
               i : {1}, refused : {{}}]
    /\ sv = [at |-> "service", left |-> MaxAttempts, as |-> {}]
    /\ c2s = <<>> /\ s2c = <<>>
    /\ lost = FALSE
    /\ meddled = IF cl.at = "foreign" THEN MaxMeddling ELSE 0

-----------------------------------------------------------------------------
(* Messages.                                                               *)

\* What a signature covers.  (Twin: the session is left out.)
SpanSansSession(sid, user, algo, blob) == [user |-> user, algo |-> algo, blob |-> blob]
SignedSpan(sid, user, algo, blob) ==
    [sid |-> sid, user |-> user, algo |-> algo, blob |-> blob]

Signature(key, span) == [key |-> key, over |-> span]

Request(blob, sig) ==
    [t |-> "request", user |-> User, service |-> "connection",
     method |-> "publickey", algo |-> blob.algo, blob |-> blob, sig |-> {sig}]

\* Another client presents signatures it made itself, or came by in other
\* sessions.  It has none of the private keys that count here: what it signed in
\* this session with the key it offers, it signed with one that no policy lists
\* and no accepted CA has certified.
Presented(m) ==
    IF m.t # "request" THEN m
    ELSE [t |-> m.t, user |-> m.user, service |-> m.service, method |-> m.method,
          algo |-> m.algo, blob |-> m.blob,
          sig |-> {Signature(s.key, SignedSpan(s.sid, s.user, s.algo, s.blob)) : s \in m.sig}]
Foreign == {Presented(m) : m \in Outside}

ASSUME ForeignAssumption ==
    \A m \in Outside : m.t = "request" =>
        \A s \in m.sig : (s.sid = Session /\ s.key = m.blob.key) =>
            \A p \in Policies : m.blob.key \notin p.keys /\ m.blob.ca \notin p.cas

\* Either side is gone when its function has returned; what it sent first
\* still arrives.
ClientGone == cl.at = "failed"
ServerGone == sv.at = "failed"

-----------------------------------------------------------------------------
(* client::connect, up to the authenticated transport.                     *)

\* Without an agent the identity file decides, before anything is dialled.
UseFile ==
    cl' = IF file = <<>> THEN [cl EXCEPT !.at = "failed"]
          ELSE [cl EXCEPT !.at = "dial", !.creds = file]

\* The agent is not asked, or cannot be reached.
NoAgent ==
    /\ cl.at = "start"
    /\ UseFile
    /\ UNCHANGED <<agentVars, policy, file, sv, c2s, s2c, lost, meddled>>

ListIdentities ==
    /\ cl.at = "start"
    /\ Ask(Login, [op |-> "list"])
    /\ cl' = [cl EXCEPT !.at = "listing"]
    /\ UNCHANGED <<policy, file, sv, c2s, s2c, lost, meddled>>

\* client_agent: certificates first.
OfAlgo(ids, algo) == Retain(ids, {i \in DOMAIN ids : ids[i].algo = algo})
CertsFirst(ids) == OfAlgo(ids, "cert") \o OfAlgo(ids, "ed25519")

\* An agent without usable identities, a locked one too, is no agent.
GotIdentities ==
    /\ cl.at = "listing"
    /\ Read(Login)
    /\ LET creds == CertsFirst(reply[Login].blobs) IN
       IF creds # <<>>
       THEN cl' = [cl EXCEPT !.at = "dial", !.agent = TRUE, !.creds = creds]
       ELSE UseFile
    /\ UNCHANGED <<policy, file, sv, c2s, s2c, lost, meddled>>

\* Client::session_bind with what Transport::host_binding gives.
HostBinding ==
    [op |-> "bind", host_key |-> Host, session_id |-> Session,
     sig |-> Signature(Host.key, Session), is_forwarding |-> FALSE]

\* Connected: the agent learns which host it was, then the service is asked
\* for.  The binding is best effort.
Dialled ==
    /\ cl.at = "dial"
    /\ IF cl.agent
       THEN /\ Ask(Login, HostBinding)
            /\ cl' = [cl EXCEPT !.at = "binding"]
            /\ UNCHANGED c2s
       ELSE /\ c2s' = Append(c2s, [t |-> "service"])
            /\ cl' = [cl EXCEPT !.at = "service"]
            /\ UNCHANGED agentVars
    /\ UNCHANGED <<policy, file, sv, s2c, lost, meddled>>

\* The connection, the key exchange or the host key fails: nothing is offered.
DialFails ==
    /\ cl.at = "dial"
    /\ cl' = [cl EXCEPT !.at = "failed", !.creds = <<>>]
    /\ UNCHANGED <<agentVars, policy, file, sv, c2s, s2c, lost, meddled>>

Bound ==
    /\ cl.at = "binding"
    /\ Read(Login)
    /\ c2s' = Append(c2s, [t |-> "service"])
    /\ cl' = [cl EXCEPT !.at = "service"]
    /\ UNCHANGED <<policy, file, sv, s2c, lost, meddled>>

-----------------------------------------------------------------------------
(* auth::run_auth.                                                         *)

Accepted ==
    /\ cl.at = "service"
    /\ s2c # <<>>
    /\ s2c' = Tail(s2c)
    /\ cl' = [cl EXCEPT !.at = IF Head(s2c).t = "accept" THEN "offer" ELSE "failed"]
    /\ UNCHANGED <<agentVars, policy, file, sv, c2s, lost, meddled>>

Cred == cl.creds[cl.i]
CredSpan == SignedSpan(Session, User, Cred.algo, Cred)

Exhausted ==
    /\ cl.at = "offer" /\ cl.i > Len(cl.creds)
    /\ cl' = [cl EXCEPT !.at = "failed"]
    /\ UNCHANGED <<agentVars, policy, file, sv, c2s, s2c, lost, meddled>>

Offer ==
    /\ cl.at = "offer" /\ cl.i <= Len(cl.creds)
    /\ IF cl.agent
       THEN /\ Ask(Login, [op |-> "sign", blob |-> Cred, data |-> CredSpan])
            /\ cl' = [cl EXCEPT !.at = "signing"]
            /\ UNCHANGED c2s
       ELSE /\ c2s' = Append(c2s, Request(Cred, Signature(Cred.key, CredSpan)))
            /\ cl' = [cl EXCEPT !.at = "verdict"]
            /\ UNCHANGED agentVars
    /\ UNCHANGED <<policy, file, sv, s2c, lost, meddled>>

\* An agent that will not sign costs one credential and no attempt.
SkipRefused ==
    cl' = [cl EXCEPT !.at = "offer", !.i = @ + 1, !.refused = @ \cup {cl.i}]
Signed ==
    /\ cl.at = "signing"
    /\ Read(Login)
    /\ IF reply[Login].op = "signature"
       THEN /\ c2s' = Append(c2s, Request(Cred, reply[Login].sig))
            /\ cl' = [cl EXCEPT !.at = "verdict"]
       ELSE SkipRefused /\ UNCHANGED c2s
    /\ UNCHANGED <<policy, file, sv, s2c, lost, meddled>>

Verdict ==
    /\ cl.at = "verdict"
    /\ s2c # <<>>
    /\ s2c' = Tail(s2c)
    /\ cl' = CASE Head(s2c).t = "success" -> [cl EXCEPT !.at = "in"]
               [] Head(s2c).t = "banner"  -> cl
               [] Head(s2c).t = "failure" -> [cl EXCEPT !.at = "offer", !.i = @ + 1]
               [] OTHER                   -> [cl EXCEPT !.at = "failed"]
    /\ UNCHANGED <<agentVars, policy, file, sv, c2s, lost, meddled>>

\* recv finds the connection closed.
ClientEof ==
    /\ cl.at \in {"service", "verdict"}
    /\ lost \/ (s2c = <<>> /\ ServerGone)
    /\ cl' = [cl EXCEPT !.at = "failed"]
    /\ UNCHANGED <<agentVars, policy, file, sv, c2s, s2c, lost, meddled>>

Client ==
    \/ NoAgent \/ ListIdentities \/ GotIdentities \/ Dialled \/ DialFails
    \/ Bound \/ Accepted \/ Exhausted \/ Offer \/ Signed \/ Verdict \/ ClientEof

\* Another client sends what it likes, and leaves when it likes.
ForeignSend ==
    /\ cl.at = "foreign"
    /\ c2s = <<>>
    /\ \E m \in Foreign : c2s' = Append(c2s, m)
    /\ s2c' = <<>>
    /\ UNCHANGED <<agentVars, policy, file, cl, sv, lost, meddled>>
ForeignLeave ==
    /\ cl.at = "foreign"
    /\ cl' = [cl EXCEPT !.at = "failed"]
    /\ UNCHANGED <<agentVars, policy, file, sv, c2s, s2c, lost, meddled>>

-----------------------------------------------------------------------------
(* auth::server.                                                           *)

UserAllowed(user) == policy.user \subseteq {user}

\* authorize_cert
AuthorizeCert(blob, user) ==
    /\ blob.type = "user"
    /\ blob.ca \in policy.cas
    /\ ValidAt(blob)
    /\ blob.principals = {} \/ user \in blob.principals
    /\ blob.sources = {} \/ Addr \in blob.sources

\* A bare key must be listed; a certificate, whatever the policy lists, stands
\* on its CA.
Authorized(m) ==
    /\ UserAllowed(m.user)
    /\ \/ m.algo \in Bare /\ m.blob.algo \in Bare /\ m.blob.key \in policy.keys
       \/ m.algo \in Certs /\ m.blob.algo \in Certs /\ AuthorizeCert(m.blob, m.user)

Verified(m) ==
    \A sig \in m.sig :
        sig = Signature(m.blob.key, SignedSpan(Session, m.user, m.algo, m.blob))

ServerFails == sv' = [sv EXCEPT !.at = "failed"] /\ UNCHANGED s2c

\* One round of the loop of MAX_ATTEMPTS, answered with msg.
Attempt(msg) ==
    /\ s2c' = Append(s2c, [t |-> msg])
    /\ sv' = [sv EXCEPT !.left = @ - 1, !.at = IF sv.left = 1 THEN "failed" ELSE @]

Service ==
    /\ sv.at = "service"
    /\ c2s # <<>>
    /\ c2s' = Tail(c2s)
    /\ IF Head(c2s).t = "service"
       THEN /\ s2c' = s2c \o <<[t |-> "accept"]>>
                          \o (IF policy.banner THEN <<[t |-> "banner"]>> ELSE <<>>)
            /\ sv' = [sv EXCEPT !.at = "auth"]
       ELSE ServerFails
    /\ UNCHANGED <<agentVars, policy, file, cl, lost, meddled>>

\* Out of order, or a service there is not.
BadRequest(m) == ~(m.t = "request" /\ m.service = "connection")
\* (Twin: an unauthorized offer is dropped without an answer.)
DropOffer == sv' = [sv EXCEPT !.left = @ - 1] /\ UNCHANGED s2c
Reject == Attempt("failure")

UserauthRequest ==
    LET m == Head(c2s) IN
    /\ sv.at = "auth"
    /\ c2s # <<>>
    /\ c2s' = Tail(c2s)
    /\ \/ BadRequest(m) /\ ServerFails
       \/ ~BadRequest(m) /\ (m.method # "publickey" \/ ~Authorized(m)) /\ Reject
       \/ /\ ~BadRequest(m) /\ m.method = "publickey" /\ Authorized(m)
          /\ \/ m.sig = {} /\ Attempt("pk_ok")
             \/ m.sig # {} /\ ~Verified(m) /\ Reject
             \/ /\ m.sig # {} /\ Verified(m)
                /\ s2c' = Append(s2c, [t |-> "success"])
                /\ sv' = [sv EXCEPT !.at = "in", !.as = {m.blob}]
    /\ UNCHANGED <<agentVars, policy, file, cl, lost, meddled>>

ServerEof ==
    /\ sv.at \in {"service", "auth"}
    /\ lost \/ (c2s = <<>> /\ ClientGone)
    /\ sv' = [sv EXCEPT !.at = "failed"]
    /\ UNCHANGED <<agentVars, policy, file, cl, c2s, s2c, lost, meddled>>

Server == Service \/ UserauthRequest \/ ServerEof

-----------------------------------------------------------------------------
(* The agent, its other connections, and the clock.                        *)

Serve == \E c \in Conns : Handle(c) /\ UNCHANGED authVars

Meddle ==
    \E c \in Conns \ {Login} :
        \/ /\ meddled < MaxMeddling
           /\ meddled' = meddled + 1
           /\ \E req \in Meddling : Ask(c, req)
           /\ UNCHANGED <<policy, file, cl, sv, c2s, s2c, lost>>
        \/ (Read(c) \/ HangUp(c)) /\ UNCHANGED authVars

\* The connection breaks once there is one; either end may still read what
\* reached it, and then finds out.
Lose ==
    /\ cl.at \in {"binding", "service", "offer", "signing", "verdict"}
    /\ ~lost
    /\ lost' = TRUE
    /\ UNCHANGED <<agentVars, policy, file, cl, sv, c2s, s2c, meddled>>

Clock == now < MaxTime /\ Tick /\ UNCHANGED authVars

Over == cl.at \in {"in", "failed"} /\ sv.at \in {"in", "failed"}

Next ==
    \/ Client \/ ForeignSend \/ ForeignLeave \/ Server
    \/ Serve \/ Meddle \/ Lose \/ Clock

\* Both ends keep running and the agent answers what it was asked.  Nothing is
\* assumed of another client: it may stay silent, and no timeout ends that.
Spec ==
    /\ Init /\ [][Next]_vars
    /\ WF_vars(Client) /\ WF_vars(Server) /\ WF_vars(Serve)

-----------------------------------------------------------------------------
(* Properties.                                                             *)

\* A login is of whoever is at the other end, and both ends know it: the
\* server lets in only a client that signed in this very session, with the
\* credential it is offering, so that an exchange captured on another
\* connection lets nobody in; and a client is in only when the server says so.
SameLogin ==
    /\ sv.at = "in" => /\ cl.at \in {"verdict", "in"} \/ lost
                       /\ Cred \in sv.as
    /\ cl.at = "in" => sv.at = "in"

\* The server takes credential i, and would have since the login began.
Acceptable(i) == cl.creds[i].after <= 0 /\ Authorized(Request(cl.creds[i], {}))

\* Nobody who could have been let in is turned away: a client that gives up
\* on a connection that holds has no credential left that this server would
\* take, but for the ones the agent would not sign with, the ones beyond the
\* server's MAX_ATTEMPTS, and the certificates that were not valid when the
\* login began.
LastResort ==
    cl.at = "failed" /\ ~lost =>
        \A i \in DOMAIN cl.creds \ cl.refused :
            Acceptable(i) =>
                sv.left = 0 /\ Cardinality(1..i \ cl.refused) > MaxAttempts

\* The server admits whom it should: nobody else, and nobody less.
RightVerdict == SameLogin /\ LastResort

\* However the agent's other users get in between, a login of this client
\* comes to an end, on both sides: nobody is left waiting for the other.
Settles == cl.at = "start" => <>Over
=============================================================================
