------------------------------- MODULE Session -------------------------------
(***************************************************************************)
(* A session channel (connect/session.rs): session_client_task pumps the   *)
(* local stdio, session_server_task a child process, over the channel of   *)
(* MuxChannel.  Each task is one tokio task with one biased select loop:   *)
(* while it waits inside an arm (for send credit, or for the child to take *)
(* its stdin) it looks at nothing else.                                    *)
(*                                                                         *)
(* Abstracted: request bodies to their kinds, an exit status to one of     *)
(* Status, bytes to numbers.  Left out: window-change and the agent        *)
(* request, which change nothing modelled here; and stdin sent before the  *)
(* command is granted, which this client never does.  A system call whose  *)
(* failure the code takes for an end, a success or a status may fail once. *)
(***************************************************************************)
EXTENDS MuxChannel

CONSTANTS
    Jobs,          \* what the client may ask for, and what runs: see Job
    Status,        \* exit statuses and signals, as the requests carry them
    PipeCap,       \* bytes a pipe to or from the child holds
    Fragile        \* the jobs in which a system call may fail unnoticed

Start == {"exec", "shell", "sftp", "other_subsystem"}

\* echo: copies stdin to stdout; talk: writes and discards its stdin; deaf:
\* neither reads nor ends.
Program == {"echo", "talk", "deaf"}

\* A terminal or none, and what to start; a command pinned by the user's
\* certificate; the program that runs; the bytes on the client's stdin, and
\* those a "talk" program writes to its stdout and stderr.
Job == [pty : BOOLEAN, start : Start, force_command : BOOLEAN,
        prog : Program, input : Nat, output : Nat, errors : Nat]

ASSUME SessionAssumption ==
    /\ IsSession
    /\ Jobs \subseteq Job /\ Fragile \subseteq Jobs
    /\ Start \cup Status \cup {"pty-req"} \subseteq RequestKinds
    /\ Status \cap (Start \cup {"pty-req", "none", "missing"}) = {}
    /\ PipeCap \in Nat \ {0}

VARIABLES
    job,     \* the job of this session
    client,  \* session_client_task: its place, buffers, stdio and verdict
    server,  \* session_server_task
    child,   \* the process, its pipes, and all it wrote
    faulty   \* a system call failed and its failure was glossed over

vars == <<loopVars, job, client, server, child, faulty>>

Init ==
    /\ MuxInit
    /\ job \in Jobs
    /\ client = [pc |-> "start", buf |-> <<>>, read |-> 0,
                 stdin_done |-> FALSE, exit_status |-> "none",
                 result |-> "none", stdout |-> <<>>, stderr |-> <<>>]
    /\ server = [pc |-> "phase1", is_pty |-> FALSE, buf |-> <<>>, owed |-> 0,
                 child_stdin |-> FALSE, stdout_eof |-> FALSE,
                 stderr_eof |-> FALSE, exited |-> "none"]
    /\ child = [state |-> "none", status |-> "none",
                stdin |-> <<>>, stdout |-> <<>>, stderr |-> <<>>,
                held |-> <<>>, out |-> <<>>, err |-> <<>>]
    /\ faulty = FALSE

Upto(s, n) == SubSeq(s, 1, Smaller(n, Len(s)))
After(s, n) == SubSeq(s, n + 1, Len(s))

\* to_task.recv() is ready.  Both tasks take the end of the queue for a Close.
Ready(e) == HasEvent(e) \/ Hung(e)
Received(e) == IF HasEvent(e) THEN NextEvent(e) ELSE Plain("close")
Recv(e) == to_task' = [to_task EXCEPT ![e] = IF HasEvent(e) THEN Tail(@) ELSE @]

\* One round of send_credited: reserve the permits, hand over the chunk.
SendCredited(e, kind, buf) ==
    LET chunk == Upto(buf, remote_max(e))
    IN  /\ CanSpend(e, Len(chunk))
        /\ Spend(e, Len(chunk))
        /\ Command(e, <<Bytes(kind, chunk)>>)

-----------------------------------------------------------------------------
(* The client task.                                                        *)

ClientOnly == UNCHANGED <<run, chan, sem_closed, wire, job, server, child, faulty>>

\* The end of the task, on every path: the verdict is delivered, then Close.
Deliver(status) ==
    /\ client' = [client EXCEPT
          !.pc = "done",
          !.result = IF status = "none" THEN "missing" ELSE status]
    /\ Command("client", <<Plain("close")>>)

\* pty-req first if there is a terminal, then what to start.
ClientAsks ==
    /\ client.pc \in {"start", "granted_pty"}
    /\ LET pty == job.pty /\ client.pc = "start"
       IN  /\ client' = [client EXCEPT !.pc = IF pty THEN "await_pty"
                                                     ELSE "await_start"]
           /\ Command("client", <<Request(IF pty THEN "pty-req"
                                                 ELSE job.start, TRUE)>>)
    /\ UNCHANGED <<to_task, credit>> /\ ClientOnly

\* await_reply, and give_up when it fails.
ClientAwaits ==
    /\ client.pc \in {"await_pty", "await_start"}
    /\ Ready("client")
    /\ LET m == Received("client")
           ok == m.type = "reply" /\ m.ok
       IN  IF ok \/ m.type \notin {"reply", "close"}
             THEN /\ client' = [client EXCEPT !.pc =
                        IF ~ok THEN @
                        ELSE IF @ = "await_pty" THEN "granted_pty" ELSE "pump"]
                  /\ UNCHANGED cmds
             ELSE Deliver("none")
    /\ Recv("client")
    /\ UNCHANGED credit /\ ClientOnly

\* The first arm of the pump.
ClientRecv ==
    /\ client.pc = "pump"
    /\ Ready("client")
    /\ LET m == Received("client")
       IN  \/ /\ m.type = "close"
              /\ Deliver(client.exit_status)
           \/ /\ m.type = "data"
              /\ client' = [client EXCEPT !.stdout = @ \o m.bytes]
              /\ Command("client", <<Amount("consumed", Len(m.bytes))>>)
           \/ /\ m.type = "ext"
              /\ client' = [client EXCEPT !.stderr = @ \o m.bytes]
              /\ Command("client", <<Amount("consumed", Len(m.bytes))>>)
           \/ /\ m.type = "request"
              /\ client' = [client EXCEPT !.exit_status =
                                IF m.kind \in Status THEN m.kind ELSE @]
              /\ UNCHANGED cmds
           \/ /\ m.type \in {"eof", "reply"}
              /\ UNCHANGED <<client, cmds>>
    /\ Recv("client")
    /\ UNCHANGED credit /\ ClientOnly

\* The second arm: a read of stdin, of any size the buffer holds.
ClientReads ==
    /\ client.pc = "pump" /\ ~Ready("client")
    /\ ~client.stdin_done
    /\ \E n \in 1..MaxChunk["client"] :
         /\ client.read + n <= job.input
         /\ client' = [client EXCEPT
               !.pc = "sending", !.read = @ + n,
               !.buf = [i \in 1..n |-> client.read + i]]
    /\ UNCHANGED <<to_task, credit, cmds>> /\ ClientOnly

ClientStdinEnds ==
    /\ client.pc = "pump" /\ ~Ready("client")
    /\ ~client.stdin_done /\ client.read = job.input
    /\ client' = [client EXCEPT !.stdin_done = TRUE]
    /\ Command("client", <<Plain("eof")>>)
    /\ UNCHANGED <<to_task, credit>> /\ ClientOnly

ClientSends ==
    /\ client.pc = "sending"
    /\ SendCredited("client", "data", client.buf)
    /\ LET rest == After(client.buf, remote_max("client"))
       IN  client' = [client EXCEPT !.buf = rest,
                          !.pc = IF rest = <<>> THEN "pump" ELSE @]
    /\ UNCHANGED to_task /\ ClientOnly

\* acquire_many fails: the pump ends without looking at to_task again.
ClientCreditClosed ==
    /\ client.pc = "sending" /\ sem_closed["client"]
    /\ Deliver(client.exit_status)
    /\ UNCHANGED <<to_task, credit>> /\ ClientOnly

ClientTask ==
    \/ ClientAsks \/ ClientAwaits \/ ClientRecv \/ ClientReads
    \/ ClientStdinEnds \/ ClientSends \/ ClientCreditClosed

-----------------------------------------------------------------------------
(* The server task.                                                        *)

ServerOnly == UNCHANGED <<run, chan, sem_closed, wire, job, client, faulty>>

ServerForgets == server' = [server EXCEPT !.pc = "done"] /\ UNCHANGED child

\* The task's locals are dropped: kill_on_drop, and the pipes close.
ServerEnds ==
    /\ server' = [server EXCEPT !.pc = "done", !.child_stdin = FALSE]
    /\ child' = IF child.state = "running"
                  THEN [child EXCEPT !.state = "killed"] ELSE child

Answer(m, ok) == IF m.want_reply THEN <<Reply(ok)>> ELSE <<>>

PtyReq(m) ==
    /\ m.kind = "pty-req"
    /\ \E ok \in BOOLEAN :
         /\ server' = [server EXCEPT !.is_pty = @ \/ ok]
         /\ Command("server", Answer(m, ok))
    /\ UNCHANGED child

\* exec, shell, or the one subsystem a forced command does not exclude.
Runs(m) == m.kind \in {"exec", "shell"} \/ (m.kind = "sftp" /\ ~job.force_command)

Spawns(m) ==
    /\ Runs(m)
    /\ child' = [child EXCEPT !.state = "running"]
    /\ server' = [server EXCEPT !.pc = "pump", !.child_stdin = TRUE,
                                !.stderr_eof = server.is_pty]
    /\ Command("server", Answer(m, TRUE))

SpawnFails(m) ==
    /\ Runs(m)
    /\ ServerEnds
    /\ Command("server", Answer(m, FALSE) \o <<Plain("close")>>)

\* Not granted; or, of the sftp subsystem, current_exe fails.
Refuses(m) ==
    /\ m.kind # "pty-req" /\ (~Runs(m) \/ m.kind = "sftp")
    /\ Command("server", Answer(m, FALSE))
    /\ UNCHANGED <<server, child>>

\* Phase 1: until something is started.
ServerWaits ==
    /\ server.pc = "phase1"
    /\ Ready("server")
    /\ LET m == Received("server")
       IN  \/ m.type = "close" /\ ServerEnds /\ UNCHANGED cmds
           \/ /\ m.type = "request"
              /\ PtyReq(m) \/ Spawns(m) \/ SpawnFails(m) \/ Refuses(m)
    /\ Recv("server")
    /\ UNCHANGED credit /\ ServerOnly

\* The test at the top of the pump: child gone and its output drained.
Exited == server.exited # "none"
Drained == server.exited # "none" /\ server.stdout_eof /\ server.stderr_eof

ReportLate == <<Plain("eof"), Plain("close"), Request(server.exited, FALSE)>>
Report == <<Request(server.exited, FALSE), Plain("eof"), Plain("close")>>

ServerReports ==
    /\ server.pc = "pump" /\ Drained
    /\ Command("server", Report)
    /\ ServerEnds
    /\ UNCHANGED <<to_task, credit>> /\ ServerOnly

\* The first arm of the pump.  A terminal has no end of input.
ServerRecv ==
    /\ server.pc = "pump" /\ ~Drained
    /\ Ready("server")
    /\ LET m == Received("server")
       IN  \/ m.type = "close" /\ ServerEnds /\ UNCHANGED cmds
           \/ /\ m.type = "data" /\ server.child_stdin
              /\ server' = [server EXCEPT !.pc = "writing", !.buf = m.bytes,
                                          !.owed = Len(m.bytes)]
              /\ UNCHANGED <<cmds, child>>
           \/ /\ m.type = "data" /\ ~server.child_stdin
              /\ Command("server", <<Amount("consumed", Len(m.bytes))>>)
              /\ UNCHANGED <<server, child>>
           \/ /\ m.type = "eof"
              /\ server' = [server EXCEPT !.child_stdin = @ /\ server.is_pty]
              /\ UNCHANGED <<cmds, child>>
    /\ Recv("server")
    /\ UNCHANGED credit /\ ServerOnly

\* write_all to the child: a byte when the pipe has room, Consumed at the end.
ServerWrites ==
    /\ server.pc = "writing"
    /\ child.state = "running" /\ Len(child.stdin) < PipeCap
    /\ child' = [child EXCEPT !.stdin = Append(@, Head(server.buf))]
    /\ LET last == Len(server.buf) = 1
       IN  /\ server' = [server EXCEPT !.buf = Tail(@),
                             !.pc = IF last THEN "pump" ELSE @,
                             !.owed = IF last THEN 0 ELSE @]
           /\ IF last THEN Command("server", <<Amount("consumed", server.owed)>>)
                      ELSE UNCHANGED cmds
    /\ UNCHANGED <<to_task, credit>> /\ ServerOnly

\* The write fails: the child is gone.
ServerWriteFails ==
    /\ server.pc = "writing" /\ child.state # "running"
    /\ server' = [server EXCEPT !.pc = "pump", !.child_stdin = FALSE,
                                !.buf = <<>>, !.owed = 0]
    /\ Command("server", <<Amount("consumed", server.owed)>>)
    /\ UNCHANGED <<to_task, credit, child>> /\ ServerOnly

\* The other arms: the child's outputs and its exit.
Arm == server.pc = "pump" /\ ~Drained /\ ~Ready("server")
Quiet == UNCHANGED <<to_task, credit, cmds>> /\ ServerOnly

ServerReadsOut ==
    /\ Arm /\ ~server.stdout_eof
    /\ child.stdout # <<>>
    /\ LET chunk == Upto(child.stdout, MaxChunk["server"])
       IN  /\ server' = [server EXCEPT !.pc = "sending_out", !.buf = chunk]
           /\ child' = [child EXCEPT !.stdout = After(@, Len(chunk))]
    /\ Quiet

ServerReadsErr ==
    /\ Arm /\ ~server.stderr_eof
    /\ child.stderr # <<>>
    /\ LET chunk == Upto(child.stderr, MaxChunk["server"])
       IN  /\ server' = [server EXCEPT !.pc = "sending_err", !.buf = chunk]
           /\ child' = [child EXCEPT !.stderr = After(@, Len(chunk))]
    /\ Quiet

ServerOutEnds ==
    /\ Arm /\ ~server.stdout_eof
    /\ child.state # "running" /\ child.stdout = <<>>
    /\ server' = [server EXCEPT !.stdout_eof = TRUE]
    /\ UNCHANGED child /\ Quiet

ServerErrEnds ==
    /\ Arm /\ ~server.stderr_eof
    /\ child.state # "running" /\ child.stderr = <<>>
    /\ server' = [server EXCEPT !.stderr_eof = TRUE]
    /\ UNCHANGED child /\ Quiet

ServerReaps ==
    /\ Arm /\ server.exited = "none"
    /\ child.state = "exited"
    /\ server' = [server EXCEPT !.exited = child.status]
    /\ UNCHANGED child /\ Quiet

Stream == IF server.pc = "sending_err" THEN "ext" ELSE "data"

ServerSends ==
    /\ server.pc \in {"sending_out", "sending_err"}
    /\ SendCredited("server", Stream, server.buf)
    /\ LET rest == After(server.buf, remote_max("server"))
       IN  server' = [server EXCEPT !.buf = rest,
                          !.pc = IF rest = <<>> THEN "pump" ELSE @]
    /\ UNCHANGED <<to_task, child>> /\ ServerOnly

ServerCreditClosed ==
    /\ server.pc \in {"sending_out", "sending_err"} /\ sem_closed["server"]
    /\ ServerEnds
    /\ UNCHANGED <<to_task, credit, cmds>> /\ ServerOnly

ServerTask ==
    \/ ServerWaits \/ ServerReports \/ ServerRecv \/ ServerWrites
    \/ ServerWriteFails \/ ServerReadsOut \/ ServerReadsErr \/ ServerOutEnds
    \/ ServerErrEnds \/ ServerReaps \/ ServerSends \/ ServerCreditClosed

-----------------------------------------------------------------------------
(* The child, as the server task meets it: a process behind three pipes,   *)
(* or behind a terminal that carries both its outputs.                     *)

ChildReads ==
    /\ child.state = "running" /\ job.prog # "deaf"
    /\ child.stdin # <<>> /\ child.held = <<>>
    /\ child' = [child EXCEPT
          !.stdin = Tail(@),
          !.held = IF job.prog = "echo" THEN <<Head(child.stdin)>> ELSE @]

ChildEchoes ==
    /\ child.state = "running" /\ child.held # <<>>
    /\ Len(child.stdout) < PipeCap
    /\ child' = [child EXCEPT !.held = <<>>, !.stdout = @ \o child.held,
                              !.out = @ \o child.held]

Spoken == Len(child.out) + Len(child.err)

ChildTalks ==
    /\ child.state = "running" /\ job.prog = "talk"
    /\ \/ /\ Len(child.out) < job.output /\ Len(child.stdout) < PipeCap
          /\ child' = [child EXCEPT !.stdout = Append(@, Spoken + 1),
                                    !.out = Append(@, Spoken + 1)]
       \/ /\ Len(child.err) < job.errors /\ Len(child.stderr) < PipeCap
          /\ ~server.is_pty
          /\ child' = [child EXCEPT !.stderr = Append(@, Spoken + 1),
                                    !.err = Append(@, Spoken + 1)]

\* A talker may end at any point; a copier at the end of its input.
ChildExits ==
    /\ child.state = "running"
    /\ \/ job.prog = "talk"
       \/ /\ job.prog = "echo" /\ child.held = <<>> /\ child.stdin = <<>>
          /\ ~server.child_stdin
    /\ \E s \in Status :
         child' = [child EXCEPT !.state = "exited", !.status = s, !.stdin = <<>>]

ChildRuns ==
    /\ ChildReads \/ ChildEchoes \/ ChildTalks \/ ChildExits
    /\ UNCHANGED <<loopVars, job, client, server, faulty>>

-----------------------------------------------------------------------------
(* Failures that are glossed over.  Bounds: one in a behaviour, and of the *)
(* jobs of Fragile alone.                                                  *)

\* A write to the client's own stdout or stderr stops half way: the pump goes
\* on, and the bytes count as consumed.
ClientWriteFails ==
    /\ client.pc = "pump" /\ HasEvent("client")
    /\ LET m == NextEvent("client")
       IN  /\ m.type \in {"data", "ext"}
           /\ \E n \in 0..(Len(m.bytes) - 1) :
                client' = IF m.type = "data"
                            THEN [client EXCEPT !.stdout = @ \o Upto(m.bytes, n)]
                            ELSE [client EXCEPT !.stderr = @ \o Upto(m.bytes, n)]
           /\ Command("client", <<Amount("consumed", Len(m.bytes))>>)
    /\ Recv("client")
    /\ UNCHANGED <<run, chan, sem_closed, wire, credit, job, server, child>>

\* A failed read of the child's output counts as its end.
ServerReadFails ==
    /\ Arm
    /\ \/ ~server.stdout_eof /\ server' = [server EXCEPT !.stdout_eof = TRUE]
       \/ ~server.stderr_eof /\ server' = [server EXCEPT !.stderr_eof = TRUE]
    /\ UNCHANGED <<loopVars, job, client, child>>

\* child.wait() fails: dummy_failure, a synthetic exit status, stands in.
dummy_failure == "exit-status"
ServerWaitFails ==
    /\ Arm /\ server.exited = "none" /\ child.state = "exited"
    /\ server' = [server EXCEPT !.exited = dummy_failure]
    /\ UNCHANGED <<loopVars, job, client, child>>

Faults ==
    /\ job \in Fragile
    /\ ~faulty /\ faulty' = TRUE
    /\ ClientWriteFails \/ ServerReadFails \/ ServerWaitFails

-----------------------------------------------------------------------------
LoopStep(e) ==
    /\ Loop(e) \/ ConnectionFails(e)
    /\ UNCHANGED <<job, client, server, child, faulty>>

Next == ClientTask \/ ServerTask \/ ChildRuns \/ Faults \/ \E e \in End : LoopStep(e)

Spec == Init /\ [][Next]_vars

\* Tasks and loops are scheduled by tokio; the child runs, and a talker ends.
Fairness ==
    /\ WF_vars(ClientTask)
    /\ WF_vars(ServerTask)
    /\ WF_vars((ChildReads \/ ChildEchoes) /\ UNCHANGED <<loopVars, job, client, server, faulty>>)
    /\ WF_vars(ChildExits /\ UNCHANGED <<loopVars, job, client, server, faulty>>)
    /\ \A e \in End :
         WF_vars(Loop(e) /\ UNCHANGED <<job, client, server, child, faulty>>)

FairSpec == Spec /\ Fairness

-----------------------------------------------------------------------------
ClientState ==
    [pc : {"start", "await_pty", "granted_pty", "await_start", "pump",
           "sending", "done"},
     buf : Seq(Nat), read : 0..job.input, stdin_done : BOOLEAN,
     exit_status : Status \cup {"none"},
     result : Status \cup {"none", "missing"},
     stdout : Seq(Nat), stderr : Seq(Nat)]

ServerState ==
    [pc : {"phase1", "pump", "writing", "sending_out", "sending_err", "done"},
     is_pty : BOOLEAN, buf : Seq(Nat), owed : Nat, child_stdin : BOOLEAN,
     stdout_eof : BOOLEAN, stderr_eof : BOOLEAN,
     exited : Status \cup {"none"}]

ChildState ==
    [state : {"none", "running", "exited", "killed"},
     status : Status \cup {"none"}, stdin : Seq(Nat), stdout : Seq(Nat),
     stderr : Seq(Nat), held : Seq(Nat), out : Seq(Nat), err : Seq(Nat)]

TypeOK ==
    /\ MuxTypeOK
    /\ job \in Jobs
    /\ client \in ClientState /\ server \in ServerState /\ child \in ChildState

Prefix(s, t) == s = Upto(t, Len(s))

\* What reaches the user's terminal is what the command wrote, in order and
\* with stdout and stderr kept apart, whatever was cut off and whenever.  A
\* status the client reports is the command's own, and by then every byte the
\* command wrote has been delivered: no status overtakes the output.  (Unless a
\* failure was glossed over: a read that failed counts as the end of the output,
\* a failed wait gives a synthetic status, a failed write goes unnoticed.)
OutputBeforeStatus ==
    ~faulty =>
        /\ Prefix(client.stdout, child.out) /\ Prefix(client.stderr, child.err)
        /\ client.result \in Status =>
             /\ client.result = child.status
             /\ client.stdout = child.out
             /\ client.stderr = child.err

\* The server task writes to a command that takes no more input: one that never
\* reads, or one that waits for its own output to be read, which only this task
\* does.  write_all is awaited inside the arm, so that neither moves again: not
\* for the end of the channel, not for the end of the connection.
Stuck ==
    /\ server.pc = "writing" /\ child.state = "running" /\ Len(child.stdin) = PipeCap
    /\ job.prog = "deaf" \/ (child.held # <<>> /\ Len(child.stdout) = PipeCap)

\* Once the client is gone, or has given up, no command is left running for
\* it and none is started later, whether the client left or the connection was
\* lost and whatever the task was waiting for - except a command that the task
\* is stuck on, which stays for ever.
NoOrphan == (client.pc = "done") ~> [](child.state # "running" \/ Stuck)

\* No session waits for ever for a command that ends, unless the task is stuck
\* on it or stopped reading its output over a failed read.
SessionEnds ==
    <>(\/ client.result # "none" \/ Stuck \/ faulty
       \/ child.state = "running" /\ job.prog = "deaf")

Lost == \E e \in End : run[e] = "lost"

\* "the remote exit status becomes shh's exit status": the status of a
\* command that ends is reported, unless the connection fails.
ExitReported ==
    (child.state = "exited") ~> (client.result = child.status \/ Lost \/ faulty)

\* Every session comes to a verdict, unless the command it started never ends or
\* takes no more of its input while the task insists on writing it (Stuck); and
\* for a session that has no input to send the verdict is the status of the
\* command.
VerdictReached == SessionEnds /\ (job.input = 0 => ExitReported)

\* "stdin is forwarded, stdout/stderr come back": all that is fed to a
\* command that copies its input comes back.  The code does not ensure it: see
\* the README.
EchoComesBack ==
    (child.state = "running" /\ job.prog = "echo")
        ~> (Len(client.stdout) = job.input)
=============================================================================
