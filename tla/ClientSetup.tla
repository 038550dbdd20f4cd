---------------------------- MODULE ClientSetup ----------------------------
(***************************************************************************)
(* client::connect: how a client program (shh, shh-sftp, a tab of the GUI) *)
(* finds a credential, dials, decides whether to trust the host and        *)
(* authenticates.  Several programs of one user run at the same time and   *)
(* share one file, ~/.shh/known_hosts, which each reads and appends to     *)
(* without a lock.                                                         *)
(*                                                                         *)
(* Keys are model values.  Of a host name this module keeps what decides   *)
(* how a line that carries it is read: the character it begins with, the   *)
(* names between its commas, whether there is whitespace in it.  The last  *)
(* line of the file may lack its end, because a write failed half way or   *)
(* an editor left it so, and the file may be one that cannot be read as    *)
(* text.  Nobody edits it while the programs run.                          *)
(***************************************************************************)
EXTENDS Integers, Sequences

CONSTANTS
    Clients,        \* programs (or tabs) that connect
    Targets,        \* hosts and ports that may be asked for
    Keys,           \* host keys
    HostCerts,      \* host certificates a server may present
    Setups,         \* functions from clients to their options and files
    Files,          \* what known_hosts may be at the start
    Now             \* the clock certificates are checked against

CONSTANT None

\* The name a host has in known_hosts: [host]:port unless the port is 22.  The
\* brackets of a name with commas end up around its pieces (port 0 here).
host_label(t) ==
    LET whole == \E n \in t.host.parts : t.host.parts = {n}
    IN  [begins |-> IF t.port = 22 THEN t.host.begins ELSE "[",
         parts |-> {[name |-> n, port |-> IF t.port = 22 \/ whole THEN t.port ELSE 0] :
                       n \in t.host.parts},
         spaced |-> t.host.spaced]
Labels == {host_label(t) : t \in Targets}

ASSUME SetupAssumption ==
    /\ \A t \in Targets : t.host.spaced \in BOOLEAN
    /\ None \notin Keys
    /\ Now \in Int
    /\ \A f \in Files :
         /\ f.lines \in Seq([mark : {"key", "ca"}, label : Labels, key : Keys])
         /\ f.ended \in BOOLEAN /\ f.legible \in BOOLEAN
         /\ ~f.ended => f.lines # <<>>
    /\ \A s \in Setups, c \in Clients : s[c].file \in {"missing", "bad", "locked", "plain"}

VARIABLES
    setup,          \* setup[c]: options, environment and files of c
    pc,             \* where c is in connect
    target,         \* the host and port it was asked for
    cred,           \* what it will authenticate with
    tries,          \* wrong passphrases typed, while at it
    cas,            \* host_cas: certificate authorities it read
    offered,        \* an unknown host key, while the question is open
    recorded,       \* what its lookup found: {} or one key
    trusted,        \* how it came to trust the host
    known,          \* the lines of the file
    ended,          \* its last line has its line break
    legible         \* it can be read, as UTF-8

fileVars == <<known, ended, legible>>
setupVars == <<setup, pc, target, cred, tries, cas, offered, recorded, trusted, fileVars>>

Untrusted == [how |-> "not", key |-> None]

SetupInit ==
    /\ setup \in Setups
    /\ pc = [c \in Clients |-> "idle"]
    /\ target = [c \in Clients |-> None]
    /\ cred = [c \in Clients |-> "none"]
    /\ tries = [c \in Clients |-> 0]
    /\ cas = [c \in Clients |-> {}]
    /\ offered = [c \in Clients |-> None]
    /\ recorded = [c \in Clients |-> {}]
    /\ trusted = [c \in Clients |-> Untrusted]
    /\ \E f \in Files : known = f.lines /\ ended = f.ended /\ legible = f.legible

At(c, p) == pc[c] = p
Goto(c, p) == pc' = [pc EXCEPT ![c] = p]
Label(c) == host_label(target[c])

-----------------------------------------------------------------------------
(* known_hosts. *)

\* A line that begins with # or @ is skipped, and what is behind the first
\* whitespace must be a key.  A label with a comma is no name between commas.
LineFor(line, l) ==
    /\ line.mark \in {"key", "joined"}
    /\ line.label.begins \notin {"#", "@"} /\ ~line.label.spaced
    /\ ~l.spaced /\ \E p \in line.label.parts : l.parts = {p}

LookupLast(text, l) ==
    {text[i].key : i \in {i \in DOMAIN text :
        LineFor(text[i], l) /\ \A j \in DOMAIN text : LineFor(text[j], l) => j <= i}}

\* known_hosts_lookup: the key of the first line for l, as a set.
known_hosts_lookup(text, l) ==
    {text[i].key : i \in {i \in DOMAIN text :
        LineFor(text[i], l) /\ \A j \in DOMAIN text : LineFor(text[j], l) => i <= j}}

known_hosts_cert_authorities(text) ==
    {text[i].key : i \in {i \in DOMAIN text : text[i].mark = "ca"}}

known_hosts_line(l, k) == [mark |-> "key", label |-> l, key |-> k]

\* What a program gets to read: an error counts as an empty file.
Text == IF legible THEN known ELSE <<>>

\* What an unfinished line x and one written behind it read as together: no
\* key, or, if x stops within a name, a key under a longer name.
Together(x, line) ==
    {[line EXCEPT !.mark = "junk"]} \cup
    (IF x.mark = "junk" THEN {[line EXCEPT !.mark = "joined", !.label = l] : l \in Labels}
                        ELSE {})

\* The lines there may be once line is written at the end of the file.
Behind(line) ==
    IF ended THEN {Append(known, line)}
    ELSE {[known EXCEPT ![Len(known)] = y] : y \in Together(known[Len(known)], line)}

-----------------------------------------------------------------------------
(* The credential, settled before dialing. *)

Launch(c, t) ==
    /\ At(c, "idle")
    /\ target' = [target EXCEPT ![c] = t]
    /\ Goto(c, "start")
    /\ UNCHANGED <<setup, cred, tries, cas, offered, recorded, trusted, fileVars>>

\* An agent with a usable key, unless -i names a file or the agent is ruled
\* out; one that cannot be reached or has nothing to offer is no agent.
AgentUsable(o) == ~o.no_agent /\ ~o.explicit /\ o.agent = "usable"

credVars == <<setup, target, cas, offered, recorded, trusted, fileVars>>

UseAgent(c) ==
    /\ At(c, "start") /\ AgentUsable(setup[c])
    /\ cred' = [cred EXCEPT ![c] = "agent"]
    /\ Goto(c, "dial")
    /\ UNCHANGED tries /\ UNCHANGED credVars

\* find_identity, read and load_identity: an explicit path is not looked for.
LoadIdentity(c) ==
    /\ At(c, "start") /\ ~AgentUsable(setup[c])
    /\ Goto(c, CASE setup[c].file \in {"missing", "bad"} -> "failed"
                 [] setup[c].file = "locked"             -> "passphrase"
                 [] setup[c].file = "plain"              -> "certificate")
    /\ UNCHANGED <<cred, tries>> /\ UNCHANGED credVars

MaxTries == 3

\* Three tries at the terminal; no terminal, no prompt.
Passphrase(c) ==
    /\ At(c, "passphrase")
    /\ \E right \in BOOLEAN :
          LET again == setup[c].tty /\ ~right /\ tries[c] + 1 < MaxTries
          IN  /\ tries' = [tries EXCEPT ![c] = IF again THEN @ + 1 ELSE 0]
              /\ Goto(c, IF again THEN "passphrase"
                         ELSE IF setup[c].tty /\ right THEN "certificate" ELSE "failed")
    /\ UNCHANGED cred /\ UNCHANGED credVars

\* load_certificate: absent is not an error, unreadable is.
LoadCertificate(c) ==
    /\ At(c, "certificate")
    /\ cred' = [cred EXCEPT ![c] = IF setup[c].cert = "good" THEN "certificate" ELSE "key"]
    /\ Goto(c, IF setup[c].cert = "bad" THEN "failed" ELSE "dial")
    /\ UNCHANGED tries /\ UNCHANGED credVars

-----------------------------------------------------------------------------
(* The host. *)

\* The authorities are read once, before the connection is made, which may fail.
Dial(c) ==
    /\ At(c, "dial")
    /\ cas' = [cas EXCEPT ![c] = setup[c].host_ca \cup known_hosts_cert_authorities(Text)]
    /\ \E up \in BOOLEAN : Goto(c, IF up THEN "hello" ELSE "failed")
    /\ UNCHANGED <<setup, target, cred, tries, offered, recorded, trusted, fileVars>>

valid_at(cert, t) == cert.valid_after <= t /\ t < cert.valid_before
permits_principal(cert, h) == cert.principals = {} \/ h \in cert.principals

\* verify_host_cert: unlike a user's, a host's certificate must name its hosts.
verify_host_cert(c, cert) ==
    /\ cert.type = "host" /\ ~cert.sk
    /\ cert.ca \in cas[c]
    /\ valid_at(cert, Now)
    /\ cert.principals # {} /\ permits_principal(cert, target[c].host)

\* A certificate can only be negotiated by a client that trusts an authority.
OnHostCert(c) ==
    /\ At(c, "hello") /\ cas[c] # {}
    /\ \E cert \in HostCerts :
          IF verify_host_cert(c, cert)
            THEN /\ trusted' = [trusted EXCEPT ![c] = [how |-> "cert", key |-> cert.key]]
                 /\ Goto(c, "proof")
            ELSE Goto(c, "failed") /\ UNCHANGED trusted
    /\ UNCHANGED <<setup, target, cred, tries, cas, offered, recorded, fileVars>>

\* verify_host_key reads the file ...
OnHostKey(c) ==
    /\ At(c, "hello")
    /\ \E k \in Keys :
          LET found == known_hosts_lookup(Text, Label(c))
          IN  /\ offered' = [offered EXCEPT ![c] = IF found = {} THEN k ELSE None]
              /\ recorded' = [recorded EXCEPT ![c] = found]
              /\ Goto(c, IF found = {} THEN "ask" ELSE IF found = {k} THEN "proof" ELSE "failed")
              /\ trusted' = IF found = {k}
                              THEN [trusted EXCEPT ![c] = [how |-> "pin", key |-> k]]
                              ELSE trusted
    /\ UNCHANGED <<setup, target, cred, tries, cas, fileVars>>

\* ... asks, unless told to accept ...
Ask(c) ==
    /\ At(c, "ask")
    /\ \E yes \in BOOLEAN :
          LET accept == IF setup[c].accept_new THEN TRUE ELSE setup[c].tty /\ yes
          IN  /\ Goto(c, IF accept THEN "record" ELSE "failed")
              /\ offered' = [offered EXCEPT ![c] = IF accept THEN @ ELSE None]
    /\ UNCHANGED <<setup, target, cred, tries, cas, recorded, trusted, fileVars>>

\* ... and appends, without a second look.
Record(c) ==
    /\ At(c, "record")
    /\ known' \in Behind(known_hosts_line(Label(c), offered[c])) /\ ended' = TRUE
    /\ trusted' = [trusted EXCEPT ![c] = [how |-> "first", key |-> offered[c]]]
    /\ Goto(c, "proof")
    /\ offered' = [offered EXCEPT ![c] = None]
    /\ UNCHANGED <<setup, target, cred, tries, cas, recorded, legible>>

\* A line that cannot be written refuses the host.  write_all may have written
\* some of it, up to the middle of a character or all but the line break.
RecordFails(c) ==
    /\ At(c, "record")
    /\ \/ UNCHANGED fileVars
       \/ LET line == known_hosts_line(Label(c), offered[c])
          IN  /\ known' \in Behind(line) \cup Behind([line EXCEPT !.mark = "junk"])
              /\ ended' = FALSE /\ legible' \in {legible, FALSE}
    /\ Goto(c, "failed")
    /\ offered' = [offered EXCEPT ![c] = None]
    /\ UNCHANGED <<setup, target, cred, tries, cas, recorded, trusted>>

\* The host's signature comes after the trust decision: a key stays recorded
\* when its holder does not prove that it is one.
Prove(c) ==
    /\ At(c, "proof")
    /\ \E valid \in BOOLEAN : Goto(c, IF valid THEN "auth" ELSE "failed")
    /\ UNCHANGED <<setup, target, cred, tries, cas, offered, recorded, trusted, fileVars>>

\* The session is bound to the agent, if there is one, whatever it answers;
\* then module Auth.
Authenticate(c) ==
    /\ At(c, "auth")
    /\ \E ok \in BOOLEAN : Goto(c, IF ok THEN "connected" ELSE "failed")
    /\ UNCHANGED <<setup, target, cred, tries, cas, offered, recorded, trusted, fileVars>>

Connecting(c) ==
    \/ UseAgent(c) \/ LoadIdentity(c) \/ Passphrase(c) \/ LoadCertificate(c)
    \/ Dial(c) \/ OnHostCert(c) \/ OnHostKey(c) \/ Ask(c) \/ Record(c)
    \/ RecordFails(c) \/ Prove(c) \/ Authenticate(c)

SetupNext == \E c \in Clients : Connecting(c) \/ \E t \in Targets : Launch(c, t)
SetupSpec == SetupInit /\ [][SetupNext]_setupVars

-----------------------------------------------------------------------------
\* The host's only line is the last, and has no line break.
Unfinished(l) ==
    /\ ~ended /\ LineFor(known[Len(known)], l)
    /\ \A i \in 1..(Len(known) - 1) : ~LineFor(known[i], l)

\* Once a host has a key in the file, it keeps that key: programs that met it
\* at the same moment may have appended others, but never in front of it.  Only
\* a line without a line break is lost to what is appended behind it, and all
\* are lost if a write fails in the middle of a character.
PinNeverMoves ==
    [][\A l \in Labels :
          known_hosts_lookup(Text, l) # {} /\ ~Unfinished(l) /\ legible' =>
              known_hosts_lookup(Text', l) = known_hosts_lookup(Text, l)]_setupVars
=============================================================================
