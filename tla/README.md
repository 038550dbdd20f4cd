# SHH: a verification project

SHH is an SSH implementation in Rust (client `shh`, server `shhd`, agent, SFTP).
This directory holds TLA+ models of the parts of it in which several tasks, two
machines or a long sequence of packets decide whether the program is right, the
TLC configurations that check them on small instances, and TLAPS proofs of the
results that matter for every size of the constants. Every definition is a
translation of code under `src/`; `PROJECT.json` names the lines (`map`).

## The system and its parts

| part | state it keeps | operations | hard because |
|---|---|---|---|
| transport (`transport/mod.rs`) | two ciphers, two sequence numbers, rekey counters, session id, pinned host key, queue of packets set aside | `send`, `recv`, `rekey_initiate`, `rekey_respond`, `run_kex`, `disconnect` | either end may rekey at any time, and the packets of both cross |
| packets and negotiation (`transport/mod.rs`, `transport/kexinit.rs`, `crypto/cipher.rs`) | version line, read state of a half-read packet, negotiated suite, cipher counters | `exchange_idents`, `send_raw`, `recv_raw`, `negotiate`, `padded`, `check_length` | a read is dropped half way whenever another branch of the loop wins; three framings; a guessed packet that may have to be thrown away |
| connection loop (`connect/mux.rs`) | channel table, opens under way, connects under way, forward tables, listeners, keepalive counters | `on_packet`, `on_cmd`, `on_keepalive_tick`, `drop` | one task reads, writes and keeps time; commands, packets and connect results arrive in any order |
| forward tasks (`connect/forward.rs`) | a socket, credit (a semaphore), an inbox | reader half, writer half, acceptors | half-closes, window batching, sockets that fail at any point |
| session tasks (`connect/session.rs`) | client: stdin, exit status; server: child process, pipes | request phase, pump phase on both sides | the exit, the end of two outputs, stdin and the close race |
| authentication (`auth/mod.rs`) | attempts, authenticated method | request loop | several credentials against an attempt limit |
| agent (`agent/`) | keyring shared by connections, per-connection session bindings | list, sign, add, remove, lock, bind | a lock or expiry between listing and signing |
| SFTP (`sftp/`) | handles, directory cursors | one handler per request | handle cap, multi-request client operations |
| daemon (`bin/shhd.rs`, `privsep.rs`) | host-key file, credentials, the signer process behind one socket and one mutex | start, fork, drop, accept, sign | several starts share the file, a process may die between any two steps, a round trip may fail half way |
| client set-up (`client.rs`, parts of `crypto/keyfile.rs` and `crypto/cert.rs`) | options, credential, `known_hosts` | `connect`, `verify_host_key`, `verify_host_cert` | programs of one user read and append to one file without a lock |
| desktop GUI (`gui/`) | saved hosts, session registry, tabs, early output | `connect_host` and its tasks, `disconnect_session`, the window's handlers | two processes; events and the answers of calls overtake each other |
| key files, certificates, wire encoding, terminals | files, byte strings | parsing, prompting | pure or I/O |

How they interact: a connection is one task, the *loop*, which owns the
transport. Channel tasks send it `Cmd`s over an unbounded queue and get `ToTask`
events back over another; the credit to send is a semaphore the loop tops up on
`CHANNEL_WINDOW_ADJUST`. Acceptors and connect tasks talk to the loop only by
commands. The two loops share nothing but a byte stream. The properties that
make each part right are listed with the runs below; what can go wrong in each,
line by line, is in `PROJECT.json` under `hazards`.

## Modules

| module | models | state |
|---|---|---|
| `Window` | what flow control promises for one direction of a channel, in amounts only (abstract) | where each byte of the window is |
| `MuxLoop` | what the views of a connection have in common | how each loop is doing, the commands in its queue |
| `MuxChannel` | the loop's half of one open channel: every packet handler and command that concerns it, teardown, connection loss | `Chan` records, credit, both queues, the wire |
| `Channel` | `forward_task` on both ends over `MuxChannel`; implements `Window` in each direction | sockets, reader and writer halves |
| `Session` | `session_client_task`, `session_server_task` and the child, over `MuxChannel` | both tasks' phases, pipes, outputs, statuses |
| `Transport` | two `Transport`s, symbolic cryptography | ciphers, counters, exchange state, wire |
| `LoopIO` | `Connection::run` with blocking writes and bounded kernel buffers, keepalives | buffers, half-written packets, probe counts |
| `Opens` | opening of channels, caps, admission permits, remote forwards, global replies | channel tables, opens, connects, listeners |
| `Agent` | the key agent: every request of `Keyring::handle` on several connections | keyring, lock, bindings, the request and the reply of each connection |
| `Auth` | a login: `connect` and `run_auth`, `auth::server`, over `Agent` | policy, credentials, attempts, both directions of the transport |
| `Sftp` | the SFTP server, one process per session, and the client's commands, over files all sessions share | files, handles, the request and the reply of each session, the command that runs |
| `Frames` | the sizes, checks and nonces of a sealed packet under the three cipher states, and `negotiate` (operators only) | |
| `Wire` | a connection below the packets of `Transport`: version lines, KEXINITs, guessed packets, the first exchange with the signature over its hash, `recv_raw` fed in pieces and dropped half way, over `Frames` | phase, ciphers, the KEXINIT each side heard, the bytes under way, `read_state` |
| `ClientSetup` | `client::connect`: credential, dialling, host trust in a shared `known_hosts` | where each program is, its options, the file |
| `Gui` | saved hosts, `connect_host` with its three tasks, the registry, the event queue, the tabs, beside command-line clients, over `ClientSetup` | disk and memory lists, tasks, events, terminals |
| `Daemon` | `shhd`: the host-key file, bind, fork and drop, the signer and its socket, what a session runs as | every process's place, keys, credentials, the socket |
| `ChannelProof`, `SessionProof`, `LoopProof`, `TransportProof`, `WireProof`, `AuthProof`, `DaemonProof`, `GuiProof` | theorems about `Channel`, `Session`, `Opens` with `Window` and `LoopIO`, `Transport`, `Wire` with `Frames`, `Auth` with `Agent`, `Daemon` and `Sftp`, and `Gui` with `ClientSetup` | |
| `MC*` | bounds for TLC | |

`MuxChannel`, `Opens` and `LoopIO` EXTEND `MuxLoop`, and `Channel` and `Session` EXTEND `MuxChannel`, so both kinds of task run over the
same model of the loop; `Auth` EXTENDS `Agent`, `Wire` EXTENDS `Frames` and `Gui` EXTENDS
`ClientSetup`. `Channel` implements `Window` in each direction
(`WindowBothWays`): `ToServer` and `ToClient` are instances of `Window` with the amounts read off the
queues, and with the packet size the sender really keeps to, `remote_max`.
`Transport`, `LoopIO` and `Opens` are separate views of the same connection:
each keeps the state of the others that its questions cannot tell apart
abstract. `Transport` sends opaque application packets; `Opens` has channels that are open until
closed; `LoopIO` has packets that are only lengths and kinds.

One definition that nothing in a specification uses stands before several
definitions that model code (`BatchForgotten` before `Batch`, `AtCapOfChannels`
before `AtCap`): it is that definition with a plausible slip in it. With it in
place of the original TLC must find the named property violated; the pairs are
`mutants` in `PROJECT.json`.

### Correspondence with the code

* An action is a whole handler, or the part of a task between two awaits at
  which another task can change what it sees. `Took`, `Switch` and `Reply` are
  the reading of a packet and the answer in one step, because nothing can come
  between the two within a loop (LoopIO is about what can happen while that
  answer is being written).
* `MuxChannel`: `chan[e]` is the entry of the channel table; `credit[e]` and
  `sem_closed[e]` are the semaphore a task shares with its loop; `to_task[e]`
  and `cmds[e]` are the two queues. `Loop(e)` is one turn of `Connection::run`.
* `Session`: `job` is fixed at the start and holds what the client asks for and
  what kind of process it is: one that talks and exits (`talk`), copies its input
  (`echo`) or never reads it (`deaf`). The pipes hold `PipeCap` chunks. Three failures the code
  glosses over are actions (`Faults`): a write to the client's stdout or stderr that fails (`ClientWriteFails`), a read of
  an output that fails and counts as its end (`ServerReadFails`), a `wait` that fails and is replaced by
  `dummy_failure` (`ServerWaitFails`). `faulty` remembers that one happened.
* `Transport`: a packet on the wire carries the key and sequence number it was
  sealed with; `Authentic` is the MAC check. A key is named by the exchange hash
  and session id it derives from, and a hash by what it covers, so two ends have the
  same key exactly when they hashed the same exchange. `due` is the byte or time
  limit, an event of the environment; the packet limit is computed. A rekey that is due by packets is started before the
  next packet is read. In the code a reply sent while the packets set aside are drained (`mux.rs:489`) can bring the counter to
  its limit just before one more read; the model has no such read. What is sent is not concerned: `send` looks at
  `should_rekey` before it seals anything.
* `Opens`: `scenario` is fixed at the start and says what programs and peers do.
  A packet of a remote forward carries its target as a tag that no handler reads;
  only `RightTarget` looks at it. A connect task is `connecting` (TCP) or `binding`: waiting for the agent to
  answer the session-bind that `inject_bind` sends it. The exception is `SendCancel`: the client of
  this repository never cancels a forward, but its server serves the request.

* `Agent`: signatures are symbolic, a certificate is valid from `after` up to `until` (`ValidAt`), a blob is the record of what parsing it finds,
  and a frame that does not parse is a request that is not `sound`. Passphrases
  are byte sequences, because `unset_lock` compares padded copies of them. The
  mutex makes `handle` one step; between two requests of a connection anything
  may happen on the others.
* `Auth`: `cl.at` is where `connect` and `run_auth` wait, `sv.at` where
  `auth::server` does. Key-file and security-key logins differ only in the
  credentials they list. `Foreign` are requests of another client: probes, the
  `none` method, wrong services, signatures made in another session; what it may
  sign is in `Outside`, so that which of its signatures the server takes depends on
  what `SignedSpan` covers.

* `Sftp`: the file system is external and small: one directory with three names, a
  node that outlives its name while it is open, empty subdirectories, no links.
  The flags of OPEN go through the rules of Rust's `OpenOptions` (`ValidFlags`)
  and of `open(2)`. A server process handles a request in one step: `read_dir`
  and the size and mode parts of a SETSTAT are not interleaved with other
  processes, but a system call may fail, the second one of a request too
  (`SetModeFails`, `WriteStops`). `held`, `target`, `base` and `dirty` are history.
  `awaits` is the reply our client's command waits for, `link` whether a session's connection stands.

* `Wire`: bytes are counted, not looked at. `net[s]` is what is on its way to side `s`, `off[s]` how
  much of the first packet it has read; `read_state` is the `ReadState` of the code,
  so that `Cancel` (the loop's select drops the future) changes nothing else. A line knows at
  which byte it ends, so that the limits on a line and on all of them together can be crossed. `Alter`
  is a network that alters one packet. Under a negotiated cipher the tag notices. A plain packet has none, and
  may be read as something else of its kind (`Misreadings`): another KEXINIT of `Misread`, another share, another reply. What
  tells is the signature over the exchange hash, which is the record of both KEXINITs and the
  shares as the server saw them (`Hash`, `OnEcdhReply`, `OnBadReply`). Keys and rekeys are left to `Transport`.
* `ClientSetup`: of a host name the model keeps what decides how a line that carries it is read: the character
  it begins with, the names between its commas, whether there is whitespace in it. `LineFor` is the matching of
  `known_hosts_lookup`: a line that begins with `#` or `@` is skipped, one with a comma is a line for each of its
  names and never for the label with the comma, and one with whitespace in its label has no key behind it. Reading
  and appending are separate steps (`OnHostKey`, `Record`), with the question between them. A write that fails may
  leave some of the line (`RecordFails`); what is appended behind an unfinished line is read
  together with it (`Together`). A file that cannot be read, or is not UTF-8 because a write stopped within a
  character, counts as empty (`Text`), as `verify_host_key` has it. Host certificates are checked against
  the host name, known_hosts against the label, which has the port in it.
* `Gui`: a tab is a client of `ClientSetup`. `reply` is the answer of `connect_host` and
  `events` the event queue; either may overtake the other. Aborted tasks stop at once. The exit
  status may be there before the connection's task has ended (`SessionEnds`), whose handle `remove` then aborts.
* `Daemon`: a key is named by the start that generated it, a credential is a triple of user,
  group and supplementary groups. `Exit` is the end of a process with everything in
  its memory; its signer finds out later. The frame of a request is one message:
  both frames of a round trip are far below what a socket pair buffers.

## What the runs check

| run | instance | shows |
|---|---|---|
| `window` | window 8, threshold 4, chunk 4 | `Inv` (nothing of the window is created or lost, the receiver's count agrees with the sender's, no overflow), `NeverStarved` |
| `channel` | windows of 3, threshold 2, chunks 2 and 1, 4 bytes up and 1 down, both connections may fail | `StreamsIntact` (with the silence after a close), `WindowBothWays` (refinement), `Finishes`: `Delivered`, `CloseCompletes`, `Unwinds` |
| `wire` | fifteen pairs of peers: two of this implementation, or one with another order of preference, a guess, banner lines within and beyond each limit, no strict exchange, no common cipher; payloads of 7 and 12 bytes, reads of 3 bytes or all; one altered packet, a KEXINIT possibly into one of six others | `Reassembled`, `NoFalseAlarm`, `NegotiationAgrees`, `AllArrive` |
| `transport` | packet limit 2, queue limit 2, 3-bit sequence numbers, three host keys (one bare, one certified, one untrusted), 1 and 3 application packets, one byte/time limit per side, failures | `ExactlyOnce`, `Undisturbed` (with strict key exchange), `NonceBound`, `SessionAgreed`, `HostKeyPinned`, `AllDelivered` (with `RekeyCompletes`) |
| `session` | window 2, pipes of 1, 14 jobs: every kind of request, output beyond the window, stdin, a copier and a deaf process with more input than their pipes hold; connection failures; for two of the jobs one glossed-over failure | `OutputBeforeStatus`, `NoOrphan`, `VerdictReached`: every session ends, and one without input with the command's status; all but for `Stuck` |
| `session_lost_status` | stdin to a command that does not wait for it | violates `ExitReported` |
| `loopio` | buffers of 2, packets of 2; data or requests in bulk both ways, or a server that stops, while what there is to send fits in the buffers or does not | `LivePeerKept`, `NeverHangs`: `TrafficFlows` but for `Crossed`, `DeadPeerSurfaces` but for `Blocked` |
| `opens` | cap 2, one permit, three scenarios (a session with sockets at both ends; three forwards and a keepalive; forwards and cancels) | `Capped`, `Paired` (`NoProtocolError`, `PermitsKept`, `NothingLeft`, `RightTarget`), `ListenersIndexed`, `SessionOrEnd`, `OpensAnswered` but for `AgentSilent` |
| `auth` | two attempts, an agent with three identities and two connections, two requests on the second one, three policies, four identity files (one with a certificate that is not valid yet), a clock of one tick, foreign clients, connection loss | `LockSeals`, `Unlockable`, `PathProven`, `RightVerdict` (`SameLogin`, `LastResort`), `Settles` |
| `sftp` | two handles, batches and chunks of 2, five scenarios: our client lists, downloads or uploads while the other renames, removes, truncates, writes; single requests; a client that hoards handles; one failing system call, connection loss | `Faithful` (`Intact`, `HandlesKept`), `CleanRefusal` |
| `gui` | a tab and a command-line client of one user, two keys, a host, the same on another port, a name with a comma and one with whitespace; an empty file, one with a line and an authority, and the same without its last line break; writes that fail, three set-ups | `TerminalFaithful`, `TrustKept`, `PinNeverMoves`, `ClosedReleased` |
| `daemon` | two daemons on one key file, two connections; root with `--privsep`, with `--sandbox`, with `--no-privilege-drop`, and a daemon that is not root; three starts, any process killed anywhere, one signer that dies | `RightSignature`, `Confined`, `OneHostKey`, `HandshakeSettles` |

Why the bounds are enough: each is the smallest at which its limit is crossed
and crossed again. In `channel` the client sends more than a window and the
threshold does not divide it, so adjusts are partial and a sender waits with too
few permits. In `transport` the server's packets pass the limit twice and each
side has a rekey of its own, so exchanges meet in every phase, and the packets
under way when one starts may be more than the queue takes. In `session` one
job writes more than the window, and a copier and a deaf command get more than the pipe, the queue and
the task's buffer hold, so that the task gets stuck on either; one failure of those the code glosses over is
enough, because after it nothing is promised. In `opens` the accepted sockets and the session
are more than the cap. In `auth` the listed key is the third credential and there
are two attempts, certificates end within the run, a passphrase is longer than
`LockMaxLen` and two differ by a trailing zero, and two requests of the other connection are
enough to lock and unlock, to bind a path and sign on it, or to take a key away
between listing and signing. In `sftp` a listing takes two batches and a file
two chunks, two failed flushes reach the cap, and four requests are enough to take
two handles, give back the first and take another. In `wire` the two payloads need padding that is
and is not raised by a block, a header and a body are each read in at most two pieces, and two
packets of data follow the change of keys; each limit on the lines is met and passed by one (`MaxLine`, `MaxLines`,
`MaxTotal`), and `Misread` has KEXINITs that change nothing but the cookie, an order, or the guess; a further piece or packet meets the same states. In `gui` two pieces of
output are enough for one to arrive early and one late; the list is edited before the
first tab opens, because a click reads it once and nothing later does, and the
command-line client rests while a tab's session runs, because the two then share nothing.
In `daemon` three starts let two race for the file and one come back after a crash,
and one connection at a time may exchange keys twice, so that a failed round trip is followed by another on the same socket. `IdSpace` is just large enough that an instance never
reuses a channel number, as `IdsAssumption` of `Opens` asks.

Deadlock checking is off in every run: a connection with nothing to do, or one
that has ended, may stop. What must not stop is stated as liveness.

### Fairness

Tokio polls every task that can go on: weak fairness of each task and of each
loop. In `Channel` nothing is assumed of what the local application writes, and
that it reads what it is sent (`WriteSocket`). In `Session` the child runs, and one
that talks ends; how much it writes is left open. In `Transport` nothing is assumed of
the application's sends or of the clock; every send, receive and turn of the loop looks at
`should_rekey`, so a rekey that is due is started. In `LoopIO` the network
carries, and the keepalive interval is longer than anything else takes
(`Settled`). In `Opens` a TCP connect ends (`CONNECT_TIMEOUT`); nothing is assumed of the
agent that a connect task waits for, because the code has no timeout there. In `Auth` both ends and the agent go
on; nothing is assumed of foreign clients or of the agent's other users. In `Wire`
both ends go on with the handshake and with reading; nobody has to
send. `MaxCancels` only keeps the instance small: a dropped read loses no progress, so
more of them repeat states. In `Gui` the
runtime polls every task and the window handles every event and reply, and a dial ends with the
kernel's timeout; nobody is obliged to click or close, no session to end, and no agent, user or server to
answer: where `connect` waits for one of them it has no timeout (`Waits`), and `Client(t)` is fair only elsewhere. In `Daemon` a process or a
connection goes on until it ends; nothing starts, connects, rekeys or dies by obligation.

The type invariant (`TypeOK`) of `Opens` is a theorem (`TypesKept`). Those of `Transport` and `LoopIO` are parts of the proved
invariants, and so are those that the proofs about `Channel`, `Wire`, `Daemon`, `Auth` and `Gui` state; that of `Window` is part of `Inv`; that of `Session`
documents the state and holds in the instances of its runs.

### What the properties do not say

* `Delivered` and `CloseCompletes` are about two ends of this implementation.
* `RightTarget` is stated for clients that do not cancel: after a cancel an open
  in flight may be matched with the next forward of the same address and port.
* `SessionOrEnd` is stated where the server cannot fill the client's table first.
* `VerdictReached` promises the command's status to a session without input;
  with input it fails, see below.
* `NoOrphan` and `VerdictReached` except `Stuck`: the server's task is in `write_all` to a command that never reads
  (`deaf`), or that waits for its output to be read, which the same task would do. The run reaches it for
  both; everything else, a lost connection while the task waits for anything but this included, is covered.
* `OutputBeforeStatus` and the end of a session promise nothing once a failing write, read or wait has been
  glossed over (`faulty`): output may be missing, and a child that fills a pipe nobody reads does not end.
* `TrafficFlows` excepts `Crossed`: both loops are in `write_all` with all buffers full, one of them
  with a reply, which is written without the guard that holds commands back. `DeadPeerSurfaces` excepts `Blocked`: the loop
  is in `write_all` to the peer that stopped. The run reaches both; neither ever ends.
* `OpensAnswered` excepts an open for an agent that never answers the session-bind (`AgentSilent`), which also
  keeps its slot of the cap.
* `LivePeerKept` is about ticks that come when everything in motion has arrived; a peer that is merely slower
  than the keepalive interval is given up.

* `Settles` is about this client. The server has no limit on how long another
  client may stay silent before it has logged in.
* `PathProven` is about the path a connection records. `sign` judges that path and
  not what the data to be signed says.

* `Undisturbed` allows one end of a connection that nobody is to blame for: the queue
  of packets set aside is full. It does not say that this never happens.
* `RightVerdict` takes it that nobody else has a private key that counts (`ForeignAssumption`):
  what another client signs in this session, it signs with a key no policy lists and no accepted
  authority has certified.
* `Faithful` promises nothing for a file that another session writes into during
  a transfer; being renamed, removed or replaced does no harm.
* `NoFalseAlarm` and `AllArrive` are about peers that follow the protocol, this
  implementation or another; an altered packet ends the connection, a plain one at the latest
  with the signature or a packet under the new keys.
* `TrustKept` excepts the names that `validate_host` lets through and no lookup finds (`Odd`: with a comma, or
  beginning with `#` or `@`), names typed with whitespace on a command line, and a file that cannot be read or in which a
  line was cut off (`Spoiled`); for all of these the program asks again at every connection, and with `--accept-new` takes any key.
  `PinNeverMoves` excepts a host whose only line lacks its line break, and a write that stops within a character.
* `TrustKept` does not say that two clients that meet a host together accept the same
  key: both may append, and the first line wins for everyone after. A key is recorded
  before its holder has proved that it has it (`transport/mod.rs:605`).
* `TerminalFaithful` allows the end of the output to be missing: the exit task aborts the reader
  (`sessions.rs:199`), which may not have read everything.
* `ClosedReleased` lets a tab stay connecting as long as it waits for a server, an agent or a passphrase (`Waits`): a server
  that accepts the connection and says nothing keeps it so (`client.rs:131`).
  Its first part starts at the closing of the tab: a session that ended before its
  handle was inserted stays in the registry until then. An exit event that arrives before the
  promise resolves is dropped (`main.ts:537`), and the tab looks alive.
* `OneHostKey` holds because a start that finds an empty or torn key file stops; after
  a crash between creating and writing it, every start does, until the file is
  removed.
* `Confined` is about the daemon and its sessions. The signer logs a drop that failed
  and serves on (`privsep.rs:205`).

* `HandlesKept` counts a handle for each failed flush: `download` returns by `?`
  from `sink.flush()` without closing (`sftp/client.rs:258`). `shh-sftp` exits
  then, a longer-lived user of `Client` would reach the server's cap.

### Disagreements with the repository's text

One is a run that TLC shows violated, and `findings` quotes the lines: an exit status
already received is dropped when the channel closes while stdin is being sent
(`session_lost_status`).

Two more are stated in the modules and fail when they are put in place of a run's properties:

* `Reclaimed` of `Channel` (`MCChannel` with `TotalBytes <- OneByte`, `MayFail = {}`): a channel
  whose two directions have ended is closed by neither side and keeps its slot, while
  `connect/mux.rs:108` says of `Close` "The task finished; tear the channel down".
* `EchoComesBack` of `Session` (`MCSession` with `Jobs <- Copier`, `MayFail = {}`): the server's task
  writes stdin and reads stdout in one loop, so a copier and the task block each
  other, while `README.md:262` says that "stdin is forwarded, stdout/stderr come back
  separated".

Three exceptions of properties that hold are what the code does and its text does not say; without them
TLC finds the property violated:

* `DeadPeerSurfaces` without `Blocked`: the keepalive tick cannot fire
  while the loop is in `write_all`, while `DESIGN.md:247` has keep-alives "surfacing dead
  connections instead of hanging".
* `NoOrphan` without `Stuck`: a server task waiting to write to a command that does not
  read never sees its connection end, while `connect/mux.rs:327` says that teardown wakes a
  task "instead of hanging on the socket / child process it owns".
* `TrustKept` without `Odd`: `hosts.rs:116` refuses whitespace because the lookup "that's supposed to find it again never will",
  and lets a comma through.

Others are met by changing one constant of a run:

* In `Transport`, `err[s] = "queue"` is reachable in the `transport` run: an honest peer
  with more packets in flight than the queue holds is disconnected, while
  `transport/mod.rs:128` calls rekeying transparent.
* In `Transport`, `ext_info["client"] = "escaped"` is reachable: an `EXT_INFO`
  set aside during a rekey is returned by `recv()`, while `transport/mod.rs:437`
  says that transport chatter never escapes.
* `MCChannel` with a window smaller than the chunk violates the assumption of
  `Window` and `Delivered`: the reader waits for a whole chunk of permits.
  `DESIGN.md:29` says flow control is exactly as specified, and the specification
  allows such a peer.
* `MCOpens` with `MaxChannels = 1` and one socket at the server violates
  `SessionOrEnd` without its second guard: a session that meets a full table is
  dropped and the loop goes on, while `connect/mux.rs:1116` calls this handled.
* `AcceptForNobody` may be taken again and again: the acceptor of a local forward
  goes on after its loop is gone, while `connect/forward.rs:187` says it stops.

## What is proved

All proofs are checked by TLAPS for every value of the constants the named
assumptions allow.

* `ChannelProof` (`MuxAssumption`: window, threshold and packet size of each end, the
  window within the ceiling; `ChannelAssumption`: any amounts of data). `Intact`:
  `Spec => []StreamsIntact`. The inductive invariant `Inv` has three parts for each end. `Phase`
  says what an end may still do: which of EOF, CLOSE and the end of its task are in its
  queue, in what order, and that nothing comes after. `Stream` places the bytes: what the writer has
  written, the inbox, the wire, the command queue and the reader's buffer, one after
  the other, are the bytes 1, 2, ... up to what the reader has taken from its socket; a cut only ever
  takes the end. `Account` places the window: permits, bytes in the queues, credit not yet
  reported and adjusts under way add up to it. Every action changes one end and the
  two wires, so `StepKeeps` reduces it to what it does there.
  Amounts in a queue are a recursive function; that it exists and how it grows when something is
  added or taken are proved from the least-number principle (`LeastNat`), which stands in
  for induction.
  `ImplementsWindow`: `Spec => WindowBothWays`. Each step is shown to leave the balance of a direction alone or
  to move an amount from one place to the next, which is one of the actions of `Window`;
  when an end drops the channel, `Teardown`. `WindowsHold` and `SendersNeverStarve` carry the
  promises of `Window` over to the code's channel; the second needs that a packet fits
  between threshold and window, which holds of the repository's constants and which the code
  does not check of a peer (see the disagreements above).
* `LoopProof`, of `Window` (`WindowAssumption`). `FlowControl` (`Inv`) and `NoStarvation` (`NeverStarved`) are the promises of
  flow control for any system of the form of `Window`: `Inv` is inductive as it stands.
* `SessionProof` (`MuxAssumption`; `SessionAssumption`: statuses are not requests of the client, and the request kinds of a channel
  include both). `NoStatusOvertakes`: `Spec => []OutputBeforeStatus`, for every window, packet and pipe size and every
  job, with the channel dropped or the connection lost at either end, until a failing call was glossed over: `SessionInvariant` is
  `Spec => []Sound`, where `Sound` is `faulty \/ IInv` and `faulty` stays (`FaultyStays`). The inductive invariant `IInv` says where output is.
  A byte the child wrote is in one of six places, one behind the other: the child's pipe, the server task's
  buffer, its loop's commands, the wire, the client task's events, the terminal. `Flow` says that each place
  holds the stretch of the stream that follows the next place's, for stdout and stderr apart, and that a status
  stands behind the last byte of both; behind an end that dropped the channel it says
  nothing, for what is there never arrives. That the client task does not throw output away while it waits for an answer needs
  `GrantFirst` (the reply to the request for the command comes before the first byte of its
  output), which needs `AskedFirst` (nothing is started before the client asks) and `RepliesDue` (every request
  asks for an answer). `ServerKnows` and `StatusTrue` tie what the server task and a status under way say of
  the child to the child, `Final` what the client has been told. Each of the loop's steps is first shown to move
  messages along the three queues, or to drop the end's channel (`LoopMoves`), so that the
  loop is argued about once for both streams.
* `TransportProof` (`TransportAssumption`: the limit is well below the range of the counter,
  as 2^28 is below 2^32). `NonceSafety`: no packet is sealed
  beyond the limit plus the packets of one exchange, hence no nonce is used twice
  under one key. The bound alone is not inductive: `SeqByPhase` says how many
  packets a side may have sealed in each phase of the exchange, `Exchanging` that
  the hash is known before NEWKEYS is awaited, and `Typed` what is on the wire.
  `HostPinned` and `SessionFixed` (`SessionIdFixed`: it never changes once set) follow from the same invariant: the client's
  session id, host key and signature are set together and only at the first
  exchange.
  `NeverDisturbed` and `SessionsAgree` need what the two ends know of each other (`FlowInv`). A *sum* is what a reader of one
  direction has seen so far: KEXINITs, exchanges, the key, the sequence number. `WireInv` says that the wire
  leads from the sum of the receiver to the sum of the sender, packet by packet, each one allowed where it
  stands; `PlaceInv` ties a side's phase to the two sums, `KeyInv` says that equal exchanges have equal
  keys. Then no packet can fail to open or be out of turn. `DeliveredOnce` adds `OnceInv`: queue and
  wire together hold the application's packets that were not delivered, by number.
* `LoopProof` (`OpensAssumption`). `CapHolds`: the cap. `OnConnected` turns a
  reservation into a channel, so the invariant is strengthened by `Reserved`:
  there is a reservation for every connect task. `ListenersFound`: every live
  listener is in the index under its real port; it needs `OnRealPort`, that no
  listener is on port 0, because a request for port 0 is indexed twice.
  The next three also use `IdsAssumption`: fewer channels are opened on a connection than there are ids (2^32),
  because `alloc_id` wraps without looking at the ids in use.
  `AccountKept`: `Spec => []Paired`, from an invariant in five parts. `Core` says where every open is: on the
  wire, with a connect task, or answered, with the answer on the wire or taken; and of every channel whether the other end has its
  half, will have it when a confirmation is read, or has closed it with the close under way. It is stated
  for one end as opener (`Pair`), and a step is shown to keep it for both. `Budget`: the ids given out and the opens still to come
  are fewer than `IdSpace`, so a new id is in neither table. `Sound` says that wires and queues are sequences of
  packets and commands, `Permits` that commands and free permits add up to the cap, `Kinds` which commands and opens an
  end can have. From these, no end sees an answer it does not expect (`NoProtocolError`), and at rest nothing is left
  over. `RightTarget` needs `Fwd`: replies carry no number, so the n-th request that is unanswered
  belongs to the n-th reply under way, by rank on the wire; an open for a forward is behind the reply that
  grants it, and a listener stands for each grant.
  `SessionKept`: `Spec => []SessionOrEnd`, from `Sess`: while the session is queued, what the client's table holds and
  all the server may yet open are within the server's sockets, hence below the cap, so that `Open` does not drop the session.
  `TypesKept`: `Spec => []TypeOK`; the ids on the wires have to be ids too (`TInv`), because they are stored.
* `AuthProof` (`AgentAssumption`, `AuthAssumption`, `CredentialAssumption`: stored keys, added keys and
  identity files are credentials; `ForeignAssumption`). `ProvenPaths`, `LockHasItsKey`
  and `SealedWhileLocked`, for any requests on any number of connections. Every
  step of the composition is first shown to be a step of the agent
  (`NextIsAgentStep`). `Unlockable` is not inductive: `LockInv` adds that the lock is
  one passphrase within the bound of `set_lock`, and `AskInv` that what is asked
  comes from the requests there are; that equal buffers and lengths mean equal
  passphrases is extensionality of sequences. `SealedWhileLocked` is an action
  property: while `Gate` holds only three handlers can run.
  `RightlyJudged`: `Spec => []RightVerdict`. `TalkInv` says for each place of the client what is under way in
  both directions. Its core is `Answered(k)`: the server has turned down the first k credentials but for those
  the agent refused to sign with, has as many attempts left as that leaves, and would turn them
  down again; the last because what was acceptable when it was valid from the beginning only expires (`OnceAcceptable`), and
  `LastResort` leaves out the certificates that were not valid yet when the login began. The store changes under the
  client's feet, so `KeysInv` says what can be in it; deleting from it is `Retain`, whose result is
  defined by counting places, because a fold could not be proved about.

* `LoopProof`, of `LoopIO` (`LoopIOAssumption`). `LivePeersKept`: a loop gives up only a peer that has
  stopped. `LivePeerKept` is not inductive: `ProbeUnderWay` adds that a loop which has heard nothing
  since it probed a running peer has the end of its probe, or of some packet of the
  peer's, in one of the three queues on the way. A tick comes when nothing can move
  any more (`Settled`), which leaves all those queues empty (`QuietMeansHeard`).
* `DaemonProof` (`DaemonAssumption`). `HostKeyUnique`, `PrivilegesConfined` and `SignaturesMatch`, for
  any number of daemons, connections and deaths. `KeyInv`: at most one start is writing
  the file, and whoever is past it has the file's key. `CredInv` and `AccountInv`: what each
  place in `main` and each session's login says about credentials, with the key in the
  parsing process only where `--privsep` is off. `LockInv` and `SocketInv`: only the holder of
  the mutex is in a round trip, and the socket with the signer holds its one request or
  reply or nothing; after a round trip that failed the signer is gone, so no later one can read a stale
  reply. `SignedInv` carries that to the connection.
* `DaemonProof`, of `Sftp` (`SftpAssumption`: names are finitely many, files are sequences of bytes, commands
  and requests are those of the client and of the protocol). `TransfersFaithful`: `SftpSpec => []Faithful`, for any cap on handles,
  any batch and chunk size, any list of commands and whatever the other session asks for. A transfer
  is many requests, and `Faithful` says nothing of the state between two of them, so the inductive
  invariant `SftpInv` follows one round trip. `Disk` and `Tables` say what the files and the handles
  of each process are, `Wires` that a session has a request or a reply under way and not both, `Client1` what our
  client's variables can be. `OursInv` has a case for every request our client can have asked
  (`Asks`: OPEN, READDIR, READ, WRITE, CLOSE and the single ones) and for every answer (`Says`): the handle it names is open on what the
  command opened (`Match`), and what was fetched or stored so far is the part of the file before
  `offset`, or of the listing before the cursor (`Begins`). `Counted` adds that the handles open are the one in use and
  those that were leaked. A step of the other session leaves all that alone (`Steady`) because handles are per process
  and a node outlives its name, unless it writes into the same node, which sets `dirty`.
  `RefusalsClean`: `SftpSpec => CleanRefusal`, an action property: an error reply comes
  from one of the branches that leave files and handles alone; the wire part of the same invariant
  rules out that another step puts a reply there.
* `GuiProof` (`SetupAssumption`, `GuiAssumption`). `TrustIsKept` and `PinsStay`, for any number of tabs and
  programs and any failing writes. `TargetInv`: a tab dials only what passed `validate_host`, because the GUI's list is
  filtered when it is read and checked when it is changed. `AskInv`: who still asks has found nothing. `FileStep`: the file
  gets a line at its end, or its unfinished last line becomes one that shows the damage (`BehindIs`,
  `FileChanges`); so a damaged file stays damaged (`DamageStays`), and in any other the first line for a label stays first
  (`LookupKept`). That the line written for a label is one a lookup of it finds is proved from the two definitions
  (`LineCarries`), for labels that are not `Odd` and have no whitespace.
  `OutputReachesTerminal`: `WindowInv` says of each tab that is not closed that its output is, in this order, in the
  terminal or the buffer, in the events, in the pipe, and that only one of terminal and buffer
  is in use, by the state of the tab.
* `WireProof` (`WireAssumption`; `HelloAssumption`: a KEXINIT is lists and a flag; `PeerAssumption`: of two peers one is
  this implementation, so what both list is implemented, and a server announces no guess, as in these
  exchanges the client speaks first; `SizesAssumption`: payloads leave room for padding).
  `FramesFit`: for every framing and payload the receiver's checks accept what
  the sender computes. `BothChooseAlike`: for any two KEXINITs the two ends that get through
  `negotiate` have the same suite.
  `RecvRawIsPrefix` comes from `IInv`, which holds whatever is altered under way: an item that
  opens under the receiver's cipher carries the payload of that number (`ItemInv`), and the lines come before
  the packets (`OrderInv`). For `PeersAgree` it also says that a reply with its own share was signed over what the
  server heard and sent, so that a client which has taken it knows that both heard the other's KEXINIT as it was sent
  (`NegInv`), and by `BothChooseAlike` both negotiated alike; before the signature there is agreement as long as
  nothing was altered (`CleanUntilAltered`). `NoAlarmWithoutCause` needs `CleanInv`. What a side sends is fixed by the two KEXINITs, so that item
  number j of its stream can be written down (`StreamItem`); as long as nothing was altered what is under way is the stretch
  of it between what the receiver took and what the sender emitted (`StreamInv`), a phase says how far
  each has come (`PhaseInv`), a half-read packet how many bytes of the first item are read (`BytesInv`).

Model-checked only: everything about liveness and fairness, because the prover handles neither.

## What is not modelled

Cryptography is ideal: `kex.rs`, `kdf.rs` and signatures are names for what they hash, and
encodings (`wire/`, key files, certificates) are records; of certificates and
`known_hosts` only what decides trust is modelled. SFTP has no links, modes or times.
Pseudo-terminals are sessions with one output; window changes and signals are left out.
Of the GUI, typed input (`send_input` is a call of its own for every key,
serialised only by the session's mutex), resizes, identities and rendering are left out; of the daemon, its
configuration files and its signer's hardening. The command-line programs around
`client::connect`, `shh-keygen`, `shh-id` and the terminal code are parsing and I/O. The
components of `PROJECT.json` say so one by one.

## Plan

Done: all modules and theorems above. What would come next, in this order:

1. Window changes and signals of sessions; typed input of the GUI; an agent that
   dies between two requests.
