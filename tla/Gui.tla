-------------------------------- MODULE Gui --------------------------------
(***************************************************************************)
(* The desktop program: the list of saved hosts (hosts.rs), the sessions   *)
(* of its backend (sessions.rs) and the tabs of its window (main.ts),      *)
(* beside command-line clients of the same user (module ClientSetup).      *)
(*                                                                         *)
(* Backend and window are two processes.  Commands are calls with a reply; *)
(* what the backend has to say on its own goes through one queue of        *)
(* events, which a reply may overtake or be overtaken by.  Of a connection *)
(* this module keeps whether it runs and the output it produces, numbered. *)
(***************************************************************************)
EXTENDS ClientSetup

CONSTANTS
    Disks,          \* what gui_hosts.json may hold at the start
    Tabs,           \* the clients that are tabs of the window
    MaxOutput,      \* bound: pieces of output of a session
    MaxEdits        \* bound: changes to the list of hosts

ASSUME GuiAssumption ==
    /\ Tabs \subseteq Clients
    /\ Disks \subseteq SUBSET Targets
    /\ MaxOutput \in Nat /\ MaxEdits \in Nat

VARIABLES
    disk, hosts,    \* gui_hosts.json and HostStore.hosts, as what is dialed
    edits,
    tab,            \* tab[t]: none, connecting, open, dead, failed or closed
    first_contact,  \* connect_host's look at known_hosts before it dials
    reply,          \* connect_host's answer, on its way
    conn,           \* conn_task: none, up, ended or aborted
    reader,         \* reader_task
    exit,           \* the task that waits for the exit status
    registry,       \* SessionRegistry.sessions
    disconnects,    \* disconnect_session calls on their way
    produced,       \* output the connection has written so far
    pipe,           \* the output in the duplex pipe
    events,         \* backend to window
    pendingOutput,  \* output for a session the window does not know
    term            \* what a tab's terminal shows

storeVars == <<disk, hosts, edits>>
sessionVars == <<conn, reader, exit, registry, disconnects, produced, pipe>>
windowVars == <<tab, pendingOutput, term>>
guiVars == <<storeVars, sessionVars, windowVars, first_contact, reply, events>>
vars == <<setupVars, guiVars>>

-----------------------------------------------------------------------------
(* Saved hosts. *)

\* No whitespace and no control characters; a comma, # or @ is let through.
validate_host(t) == ~t.host.spaced

LoadUnfiltered(ts) == ts

drop_invalid_hosts(ts) == {t \in ts : validate_host(t)}

\* A file that does not parse loads as an empty list.
Init ==
    /\ SetupInit
    /\ disk \in Disks
    /\ hosts = drop_invalid_hosts(disk)
    /\ edits = 0
    /\ tab = [t \in Tabs |-> "none"]
    /\ first_contact = [t \in Tabs |-> FALSE]
    /\ reply = [t \in Tabs |-> "none"]
    /\ conn = [t \in Tabs |-> "none"]
    /\ reader = [t \in Tabs |-> "none"]
    /\ exit = [t \in Tabs |-> "none"]
    /\ registry = {}
    /\ disconnects = {}
    /\ produced = [t \in Tabs |-> 0]
    /\ pipe = [t \in Tabs |-> <<>>]
    /\ events = <<>>
    /\ pendingOutput = [t \in Tabs |-> <<>>]
    /\ term = [t \in Tabs |-> <<>>]

\* persist may fail; the list in memory has changed by then.
Persist ==
    \/ disk' = hosts'
    \/ UNCHANGED disk

\* Bound: the list is edited before the first tab is opened.  A click reads it
\* once and nothing later does.
Edit ==
    /\ edits < MaxEdits /\ edits' = edits + 1
    /\ \A t \in Tabs : tab[t] = "none"

\* save_host, upsert.
SaveHost(h) ==
    /\ Edit
    /\ validate_host(h)
    /\ hosts' = hosts \cup {h}
    /\ Persist
    /\ UNCHANGED <<setupVars, sessionVars, windowVars, first_contact, reply, events>>

DeleteHost(h) ==
    /\ Edit
    /\ h \in hosts
    /\ hosts' = hosts \ {h}
    /\ Persist
    /\ UNCHANGED <<setupVars, sessionVars, windowVars, first_contact, reply, events>>

-----------------------------------------------------------------------------
(* connect_host. *)

\* connectHost: a click on a row of the window's list, which may be stale.
Click(t, h) ==
    /\ tab[t] = "none" /\ At(t, "idle")
    /\ tab' = [tab EXCEPT ![t] = "connecting"]
    /\ IF h \in hosts
         THEN /\ Launch(t, h)
              /\ first_contact' = [first_contact EXCEPT ![t] =
                                      known_hosts_lookup(Text, host_label(h)) = {}]
              /\ UNCHANGED reply
         ELSE /\ reply' = [reply EXCEPT ![t] = "err"]
              /\ UNCHANGED <<setupVars, first_contact>>
    /\ UNCHANGED <<storeVars, sessionVars, pendingOutput, term, events>>

ConnectFailed(t) ==
    /\ At(t, "failed") /\ tab[t] = "connecting" /\ reply[t] = "none"
    /\ reply' = [reply EXCEPT ![t] = "err"]
    /\ UNCHANGED <<setupVars, storeVars, sessionVars, windowVars, first_contact, events>>

Trusted(t) ==
    LET found == known_hosts_lookup(Text, Label(t))
    IN  IF first_contact[t] /\ found # {}
          THEN <<[kind |-> "trusted", tab |-> t, n |-> 0]>> ELSE <<>>

\* The three tasks start at once; the handle is not registered yet.
Spawn(t) ==
    /\ At(t, "connected") /\ conn[t] = "none"
    /\ conn' = [conn EXCEPT ![t] = "up"]
    /\ reader' = [reader EXCEPT ![t] = "up"]
    /\ exit' = [exit EXCEPT ![t] = "waiting"]
    /\ events' = events \o Trusted(t)
    /\ UNCHANGED <<setupVars, storeVars, windowVars, registry, disconnects, produced, pipe>>
    /\ UNCHANGED <<first_contact, reply>>

Insert(t) ==
    /\ conn[t] # "none" /\ tab[t] = "connecting" /\ reply[t] = "none"
    /\ registry' = registry \cup {t}
    /\ reply' = [reply EXCEPT ![t] = "ok"]
    /\ UNCHANGED <<setupVars, storeVars, windowVars, conn, reader, exit, disconnects>>
    /\ UNCHANGED <<produced, pipe, first_contact, events>>

-----------------------------------------------------------------------------
(* The tasks of a session. *)

\* The connection's own end closes the pipe behind what is in it.
Produce(t) ==
    /\ conn[t] = "up" /\ exit[t] = "waiting" /\ produced[t] < MaxOutput
    /\ produced' = [produced EXCEPT ![t] = @ + 1]
    /\ pipe' = [pipe EXCEPT ![t] = Append(@, produced[t] + 1)]
    /\ UNCHANGED <<setupVars, storeVars, windowVars, conn, reader, exit, registry>>
    /\ UNCHANGED <<disconnects, first_contact, reply, events>>

ConnEnds(t) ==
    /\ conn[t] = "up"
    /\ conn' = [conn EXCEPT ![t] = "ended"]
    /\ UNCHANGED <<setupVars, storeVars, windowVars, reader, exit, registry>>
    /\ UNCHANGED <<disconnects, produced, pipe, first_contact, reply, events>>

ReaderTask(t) ==
    /\ reader[t] = "up" /\ pipe[t] # <<>>
    /\ events' = Append(events, [kind |-> "output", tab |-> t, n |-> Head(pipe[t])])
    /\ pipe' = [pipe EXCEPT ![t] = Tail(@)]
    /\ UNCHANGED <<setupVars, storeVars, windowVars, conn, reader, exit, registry>>
    /\ UNCHANGED <<disconnects, produced, first_contact, reply>>

ReaderEnds(t) ==
    /\ reader[t] = "up" /\ pipe[t] = <<>> /\ conn[t] # "up"
    /\ reader' = [reader EXCEPT ![t] = "ended"]
    /\ UNCHANGED <<setupVars, storeVars, windowVars, conn, exit, registry>>
    /\ UNCHANGED <<disconnects, produced, pipe, first_contact, reply, events>>

\* The session task's last act is to send the status; the connection runs on.
SessionEnds(t) ==
    /\ conn[t] = "up" /\ exit[t] = "waiting"
    /\ exit' = [exit EXCEPT ![t] = "sent"]
    /\ UNCHANGED <<setupVars, storeVars, windowVars, conn, reader, registry>>
    /\ UNCHANGED <<disconnects, produced, pipe, first_contact, reply, events>>

\* The status, or the end of the connection without one.
ExitEmits(t) ==
    /\ exit[t] = "sent" \/ (exit[t] = "waiting" /\ conn[t] # "up")
    /\ exit' = [exit EXCEPT ![t] = "emitted"]
    /\ events' = Append(events, [kind |-> "exit", tab |-> t, n |-> 0])
    /\ UNCHANGED <<setupVars, storeVars, windowVars, conn, reader, registry>>
    /\ UNCHANGED <<disconnects, produced, pipe, first_contact, reply>>

RemoveOnly(t) ==
    /\ registry' = registry \ {t}
    /\ UNCHANGED <<conn, reader>>

\* SessionRegistry::remove, which aborts the two tasks of the handle.
remove(t) ==
    /\ registry' = registry \ {t}
    /\ conn' = IF t \in registry /\ conn[t] = "up" THEN [conn EXCEPT ![t] = "aborted"] ELSE conn
    /\ reader' = IF t \in registry /\ reader[t] = "up"
                   THEN [reader EXCEPT ![t] = "aborted"] ELSE reader

ExitRemoves(t) ==
    /\ exit[t] = "emitted"
    /\ exit' = [exit EXCEPT ![t] = "done"]
    /\ remove(t)
    /\ UNCHANGED <<setupVars, storeVars, windowVars, disconnects, produced, pipe>>
    /\ UNCHANGED <<first_contact, reply, events>>

disconnect_session(t) ==
    /\ t \in disconnects
    /\ disconnects' = disconnects \ {t}
    /\ remove(t)
    /\ UNCHANGED <<setupVars, storeVars, windowVars, exit, produced, pipe>>
    /\ UNCHANGED <<first_contact, reply, events>>

-----------------------------------------------------------------------------
(* The window. *)

ResolveUnflushed(t) ==
    /\ tab[t] = "connecting" /\ reply[t] = "ok"
    /\ tab' = [tab EXCEPT ![t] = "open"]
    /\ reply' = [reply EXCEPT ![t] = "taken"]
    /\ UNCHANGED <<setupVars, storeVars, sessionVars, first_contact, events>>
    /\ UNCHANGED <<term, pendingOutput>>

\* The promise resolves: the entry is registered and early output flushed.
Resolve(t) ==
    /\ tab[t] = "connecting" /\ reply[t] = "ok"
    /\ tab' = [tab EXCEPT ![t] = "open"]
    /\ reply' = [reply EXCEPT ![t] = "taken"]
    /\ term' = [term EXCEPT ![t] = pendingOutput[t]]
    /\ pendingOutput' = [pendingOutput EXCEPT ![t] = <<>>]
    /\ UNCHANGED <<setupVars, storeVars, sessionVars, first_contact, events>>

\* The tab of a failed connect has no session id: its close button does nothing.
Reject(t) ==
    /\ tab[t] = "connecting" /\ reply[t] = "err"
    /\ tab' = [tab EXCEPT ![t] = "failed"]
    /\ reply' = [reply EXCEPT ![t] = "taken"]
    /\ UNCHANGED <<setupVars, storeVars, sessionVars, first_contact, events>>
    /\ UNCHANGED <<term, pendingOutput>>

Registered(t) == tab[t] \in {"open", "dead"}

OnOutput(e) ==
    /\ e.kind = "output"
    /\ IF Registered(e.tab)
         THEN /\ term' = [term EXCEPT ![e.tab] = Append(@, e.n)]
              /\ UNCHANGED pendingOutput
         ELSE /\ pendingOutput' = [pendingOutput EXCEPT ![e.tab] = Append(@, e.n)]
              /\ UNCHANGED term
    /\ UNCHANGED tab

\* An exit for a session the window does not know (yet) is ignored.
OnExit(e) ==
    /\ e.kind = "exit"
    /\ tab' = IF Registered(e.tab) THEN [tab EXCEPT ![e.tab] = "dead"] ELSE tab
    /\ UNCHANGED <<term, pendingOutput>>

OnTrusted(e) == e.kind = "trusted" /\ UNCHANGED windowVars

Deliver ==
    /\ events # <<>>
    /\ events' = Tail(events)
    /\ OnOutput(Head(events)) \/ OnExit(Head(events)) \/ OnTrusted(Head(events))
    /\ UNCHANGED <<setupVars, storeVars, sessionVars, first_contact, reply>>

closeSession(t) ==
    /\ Registered(t)
    /\ tab' = [tab EXCEPT ![t] = "closed"]
    /\ disconnects' = disconnects \cup {t}
    /\ UNCHANGED <<setupVars, storeVars, conn, reader, exit, registry, produced, pipe>>
    /\ UNCHANGED <<pendingOutput, term, first_contact, reply, events>>

-----------------------------------------------------------------------------
Backend(t) ==
    \/ ConnectFailed(t) \/ Spawn(t) \/ Insert(t) \/ ReaderTask(t) \/ ReaderEnds(t)
    \/ ExitEmits(t) \/ ExitRemoves(t) \/ disconnect_session(t)
Window(t) == Resolve(t) \/ Reject(t)
\* Bounds: the command-line clients rest while a tab's session runs and are
\* followed up to their trust decision; where one was started the list of hosts
\* is as it was, and output is followed where neither happened.  They share
\* nothing but known_hosts, which nobody looks at after that.
Decided == {"proof", "auth"}
Turn(c) ==
    c \in Clients \ Tabs => pc[c] \notin Decided /\ \A t \in Tabs : conn[t] = "none"
Alone == \A c \in Clients \ Tabs : At(c, "idle")
Client(c) == Connecting(c) /\ Turn(c) /\ UNCHANGED guiVars
Typed(c, h) == edits = 0 /\ Launch(c, h) /\ Turn(c) /\ UNCHANGED guiVars

Next ==
    \/ \E t \in Tabs : Backend(t) \/ Window(t) \/ closeSession(t)
    \/ \E t \in Tabs : (Alone /\ edits = 0 /\ Produce(t)) \/ SessionEnds(t) \/ ConnEnds(t)
    \/ \E t \in Tabs, h \in Targets : Click(t, h)
    \/ \E h \in Targets : Alone /\ (SaveHost(h) \/ DeleteHost(h))
    \/ \E c \in Clients : Client(c)
    \/ \E c \in Clients \ Tabs, h \in Targets : Typed(c, h)
    \/ Deliver

Spec == Init /\ [][Next]_vars

\* Where connect waits for somebody else, without a timeout: the agent's keys,
\* a passphrase, the server's key exchange and its verdict on the login.
Waits(t) ==
    \/ At(t, "start") /\ AgentUsable(setup[t])
    \/ At(t, "passphrase") /\ setup[t].tty
    \/ pc[t] \in {"hello", "proof", "auth"}

\* The runtime polls every task and the window handles every event; nobody is
\* obliged to click, type or close, no session to end, and no server, agent or
\* user to answer.  A dial that gets no answer ends with the kernel's timeout.
FairSpec ==
    /\ Spec
    /\ \A t \in Tabs : /\ WF_vars(Backend(t)) /\ WF_vars(Window(t))
                       /\ WF_vars(~Waits(t) /\ Client(t))
    /\ WF_vars(Deliver)

-----------------------------------------------------------------------------
\* The places of t's output among the events of q.
OutputOf(q, t) == {i \in 1..Len(q) : q[i].kind = "output" /\ q[i].tab = t}

\* It is pieces a + 1 to b, each once and in this order.
Ordered(q, t, a, b) ==
    /\ \A i \in OutputOf(q, t) : a < q[i].n /\ q[i].n <= b
    /\ \A i, j \in OutputOf(q, t) : i < j => q[i].n < q[j].n
    /\ \A n \in (a + 1)..b : \E i \in OutputOf(q, t) : q[i].n = n

\* Until its tab is closed, a session's output is exactly once and in order in
\* the terminal, in the buffer for early output, in an event, in the pipe: none
\* is lost between the backend's first emit and the moment the window knows the
\* session, and the buffer is empty from then on.  When the reader is aborted,
\* what stays in the pipe is the end, and nothing before it is missing.
TerminalFaithful ==
    \A t \in Tabs :
        tab[t] # "closed" =>
            LET shown == term[t] \o pendingOutput[t]
                emitted == produced[t] - Len(pipe[t])
            IN  /\ \A i \in 1..Len(shown) : shown[i] = i
                /\ Len(shown) <= emitted
                /\ Ordered(events, t, Len(shown), emitted)
                /\ \A i \in 1..Len(pipe[t]) : pipe[t][i] = emitted + i
                /\ Registered(t) => pendingOutput[t] = <<>>

\* A line was cut off or written behind one that was, or the file cannot be
\* read: what it says of a host is anybody's guess.
Spoiled == ~legible \/ \E i \in DOMAIN known : known[i].mark \in {"junk", "joined"}

\* The labels that validate_host lets through and no lookup ever finds: with a
\* comma in them, or taken for a comment or a marker.
Odd(l) == l.begins \in {"#", "@"} \/ \A p \in l.parts : l.parts # {p}

\* A key that went through the trust decision without a certificate is in the
\* file, in a line that finds it again: for every host a tab can be opened on,
\* because the list is checked as it is read and as it is changed, and for what
\* is typed without whitespace.  Unless the program looked before anything was
\* recorded, it is the key everyone else gets too.
TrustKept ==
    \A c \in Clients :
        LET l == Label(c)
        IN  trusted[c].how \in {"pin", "first"} /\ ~Spoiled =>
              /\ ~Odd(l) /\ (c \in Tabs \/ ~l.spaced) =>
                    \E i \in DOMAIN known : LineFor(known[i], l) /\ known[i].key = trusted[c].key
              /\ recorded[c] # {} => known_hosts_lookup(known, l) = {trusted[c].key}

\* A closed tab's connection and its handle go away, whatever ended first, and
\* a tab that is connecting comes to be open, failed or dead, unless it waits
\* for a server, an agent or a passphrase: nothing on this side holds it up.
ClosedReleased ==
    \A t \in Tabs :
        /\ tab[t] = "closed" ~> (conn[t] # "up" /\ reader[t] # "up" /\ t \notin registry)
        /\ tab[t] = "connecting" ~> (tab[t] # "connecting" \/ Waits(t))
=============================================================================
