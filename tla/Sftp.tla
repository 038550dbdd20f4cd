-------------------------------- MODULE Sftp --------------------------------
(***************************************************************************)
(* The SFTP server (sftp/server.rs) and the SFTP client (sftp/client.rs,   *)
(* driven by bin/shh_sftp.rs).  Each session has a server process of its   *)
(* own; the processes share the user's files.  Session "ours" has our      *)
(* Client; at the other end of "other" is a client that sends any of a set *)
(* of requests and may never close what it opens.                          *)
(*                                                                         *)
(* The file system is external: one directory, Dir, whose names stand for  *)
(* nodes; a node outlives its name while a handle is open on it.  There    *)
(* are no links, and subdirectories stay empty.  Modes and times only      *)
(* matter in that setting them may fail.  Each server process handles one  *)
(* request at a time, so the interleaving is that of whole requests.       *)
(***************************************************************************)
EXTENDS Integers, Sequences, FiniteSets, SequencesExt

CONSTANTS
    Names,       \* names in the directory
    MaxHandles,  \* MAX_HANDLES
    MaxRead,     \* MAX_PACKET - 1024
    Batch,       \* entries per READDIR
    Chunk,       \* what the client reads of a file or of its source at once
    Scenarios,   \* what is going on: records of
                 \*   files     the files at first: a function to data
                 \*   jobs      the commands our client runs, in order
                 \*   menu      the requests the other client may send
                 \*   requests  how many of them it sends
                 \*   faults    how many system calls fail without a reason here
    Zero         \* the byte that fills a hole

Dir == "root"
Session == {"ours", "other"}
Jobs == {"list", "download", "upload"}

Byte == STRING
Flags == {"READ", "WRITE", "APPEND", "CREAT", "TRUNC", "EXCL"}

\* The requests that our client's one-request commands send, and all those
\* that a server can read.  A size is optional.
OneRequest ==
    [op : {"STAT", "REALPATH", "REMOVE", "RMDIR"}, path : Names]
    \cup [op : {"MKDIR"}, path : Names, mode : BOOLEAN]
    \cup [op : {"RENAME"}, path : Names, to : Names]
Request ==
    OneRequest
    \cup [op : {"INIT", "malformed", "unknown", "bad length"}]
    \cup [op : {"OPEN"}, path : Names, flags : SUBSET Flags]
    \cup [op : {"OPENDIR"}, path : Names \cup {Dir}]
    \cup [op : {"CLOSE", "READDIR", "FSTAT"}, handle : Nat]
    \cup [op : {"READ"}, handle : Nat, offset : Nat, len : Nat]
    \cup [op : {"WRITE"}, handle : Nat, offset : Nat, data : Seq(Byte)]
    \cup [op : {"SETSTAT"}, path : Names, size : SUBSET Nat, mode : BOOLEAN]
    \cup [op : {"FSETSTAT"}, handle : Nat, size : SUBSET Nat, mode : BOOLEAN]

\* The commands of shh-sftp.
Command ==
    [kind : {"list"}, path : Names \cup {Dir}]
    \cup [kind : {"download"}, path : Names]
    \cup [kind : {"upload"}, path : Names, source : Seq(Byte)]
    \cup [kind : {"one"}, request : OneRequest]

ASSUME SftpAssumption ==
    /\ {MaxHandles, MaxRead, Batch, Chunk} \subseteq Nat \ {0}
    /\ IsFiniteSet(Names) /\ Dir \notin Names
    /\ Zero \in Byte
    /\ \A sc \in Scenarios :
         /\ DOMAIN sc.files \subseteq Names
         /\ \A n \in DOMAIN sc.files : sc.files[n] \in Seq(Byte)
         /\ sc.jobs \in Seq(Command)
         /\ sc.menu \subseteq Request
         /\ sc.requests \in Nat /\ sc.faults \in Nat

VARIABLES
    names,        \* name -> node, or 0
    nodes,        \* [kind, data]
    phase,        \* server: "init", "serving" or "ended"
    handles,      \* server: id -> [kind |-> "file", node, flags]
                  \*            or [kind |-> "dir", entries, next]
    next_handle,
    link,         \* "up" or "cut"
    req, rep,     \* the request and the reply in flight: at most one each
    todo,         \* our client: commands still to run
    job,          \*   the command that runs, or ran last
    awaits,       \*   the reply it waits for; "idle" or "gone"
    handle, offset,
    sent,         \*   how much is in the WRITE it waits for
    got,          \*   what it listed, or wrote to its sink
    result,       \*   "ok" or "err", to be or already returned
    menu, left,   \* the other client: its requests, how many it has left
    faults,
    \* history, for the properties:
    held,         \* <<id, object>>s given to a client and not closed by it
    leaked,       \* flushes that failed
    target,       \* the node our command opened, or 0
    base,         \* what it held, or the names listed, at that moment
    dirty         \* whether another session has changed it since

fs == <<names, nodes>>
server == <<phase, handles, next_handle>>
client == <<todo, job, awaits, handle, offset, sent, got, result>>
limits == <<menu, left, faults>>
history == <<held, leaked, target, base, dirty>>
sftpVars == <<fs, server, link, req, rep, client, limits, history>>

-----------------------------------------------------------------------------
(* Packets *)

Status(code) == [type |-> "STATUS", code |-> code]
TooMany == [type |-> "STATUS", code |-> "FAILURE", why |-> "too many open handles"]

INIT == [op |-> "INIT"]
NoJob == [kind |-> "none"]

SftpInit ==
    \E sc \in Scenarios :
      LET there == SetToSeq(DOMAIN sc.files) IN
      /\ names = [n \in Names |-> IF Contains(there, n)
                                    THEN CHOOSE i \in DOMAIN there : there[i] = n
                                    ELSE 0]
      /\ nodes = [i \in DOMAIN there |->
                    [kind |-> "file", data |-> sc.files[there[i]]]]
      /\ phase = [s \in Session |-> "init"]
      /\ handles = [s \in Session |-> <<>>]
      /\ next_handle = [s \in Session |-> 0]
      /\ link = [s \in Session |-> "up"]
      /\ req = [s \in Session |-> IF s = "ours" THEN <<INIT>> ELSE <<>>]
      /\ rep = [s \in Session |-> <<>>]
      /\ todo = sc.jobs /\ job = NoJob /\ awaits = "version"
      /\ handle = 0 /\ offset = 0 /\ sent = 0 /\ got = <<>> /\ result = "ok"
      /\ menu = sc.menu /\ left = sc.requests /\ faults = sc.faults
      /\ held = [s \in Session |-> {}]
      /\ leaked = 0 /\ target = 0 /\ base = <<>> /\ dirty = FALSE

-----------------------------------------------------------------------------
(* The file system (external) *)

Exists(n) == names[n] # 0
IsDir(n) == Exists(n) /\ nodes[names[n]].kind = "dir"
Listable(n) == IF n = Dir THEN TRUE ELSE IsDir(n)
IsFile(n) == Exists(n) /\ nodes[names[n]].kind = "file"

Create(n, kind) ==
    /\ nodes' = Append(nodes, [kind |-> kind, data |-> <<>>])
    /\ names' = [names EXCEPT ![n] = Len(nodes) + 1]

Unlink(n) == names' = [names EXCEPT ![n] = 0] /\ UNCHANGED nodes

\* data with `bytes' written at offset o, a gap filled with zeros.
Overwritten(data, o, bytes) ==
    LET end == o + Len(bytes)
    IN  [i \in 1..(IF end > Len(data) THEN end ELSE Len(data)) |->
           IF i > o /\ i <= end THEN bytes[i - o]
           ELSE IF i <= Len(data) THEN data[i] ELSE Zero]

Resized(data, size) ==
    [i \in 1..size |-> IF i <= Len(data) THEN data[i] ELSE Zero]

SetData(i, data) == nodes' = [nodes EXCEPT ![i].data = data] /\ UNCHANGED names

\* Where pwrite puts its bytes: an O_APPEND file takes them at its end.
WriteOffset(f, o) == IF "APPEND" \in f.flags THEN Len(nodes[f.node].data) ELSE o

\* What std's OpenOptions and open(2) make of the flags.
Writable(flags) == flags \cap {"WRITE", "APPEND"} # {}
Creates(flags) == flags \cap {"CREAT", "EXCL"} # {}
ValidFlags(flags) ==
    /\ "READ" \in flags \/ Writable(flags)
    /\ Creates(flags) \/ "TRUNC" \in flags => Writable(flags)
    /\ "APPEND" \in flags /\ "TRUNC" \in flags => "EXCL" \in flags
Opens(n, flags) ==
    /\ ValidFlags(flags)
    /\ IF Exists(n)
         THEN "EXCL" \notin flags /\ (IsDir(n) => ~Writable(flags))
         ELSE Creates(flags)
OpenError(n, flags) ==
    IF ValidFlags(flags) /\ ~Exists(n) THEN "NO_SUCH_FILE" ELSE "FAILURE"
OpenEffect(n, flags) ==
    IF ~Exists(n) THEN Create(n, "file")
    ELSE IF "TRUNC" \in flags THEN SetData(names[n], <<>>)
    ELSE UNCHANGED fs

MissingOr(n, code) == IF Exists(n) THEN code ELSE "NO_SUCH_FILE"

-----------------------------------------------------------------------------
(* The server: one handler per request *)

Asked(s) == Head(req[s])
Serving(s, op) == phase[s] = "serving" /\ req[s] # <<>> /\ Asked(s).op = op

Reply(s, r) ==
    /\ req' = [req EXCEPT ![s] = <<>>]
    /\ rep' = [rep EXCEPT ![s] = <<r>>]

Refuse(s, code) == Reply(s, Status(code)) /\ UNCHANGED <<fs, server>>

\* The handle a request names, if there is one, is of this kind.
Holds(s, kind) ==
    /\ Asked(s).handle \in DOMAIN handles[s]
    /\ handles[s][Asked(s).handle].kind = kind
HandleOf(s) == handles[s][Asked(s).handle]

Room(s) == Cardinality(DOMAIN handles[s]) < MaxHandles

HandleByCount(s) == Cardinality(DOMAIN handles[s])
HandleId(s) == next_handle[s]

\* Session::insert, and the reply its two callers send.
Insert(s, h) ==
    IF Room(s)
      THEN /\ handles' = [handles EXCEPT ![s] =
                            [i \in DOMAIN @ \cup {HandleId(s)} |->
                               IF i = HandleId(s) THEN h ELSE handles[s][i]]]
           /\ next_handle' = [next_handle EXCEPT ![s] = @ + 1]
           /\ Reply(s, [type |-> "HANDLE", handle |-> HandleId(s)])
           /\ UNCHANGED phase
      ELSE Reply(s, TooMany) /\ UNCHANGED server

\* The cap as OPEN and OPENDIR check it before they touch the file system.
CheckedLater(s) == TRUE
MayOpen(s) == Room(s)

OverCap(s) ==
    /\ Serving(s, "OPEN") \/ Serving(s, "OPENDIR")
    /\ ~MayOpen(s)
    /\ Reply(s, TooMany)
    /\ UNCHANGED <<fs, server>>

Open(s) ==
    /\ Serving(s, "OPEN")
    /\ MayOpen(s)
    /\ LET n == Asked(s).path
           flags == Asked(s).flags
       IN  \/ /\ Opens(n, flags)
              /\ OpenEffect(n, flags)
              /\ Insert(s, [kind |-> "file", node |-> names'[n], flags |-> flags])
           \/ /\ ~Opens(n, flags)
              /\ Refuse(s, OpenError(n, flags))

Opendir(s) ==
    /\ Serving(s, "OPENDIR")
    /\ MayOpen(s)
    /\ LET n == Asked(s).path
           Entries == IF n = Dir THEN SetToSeq({m \in Names : Exists(m)}) ELSE <<>>
       IN  \/ /\ Listable(n)
              /\ Insert(s, [kind |-> "dir", entries |-> Entries, next |-> 0])
              /\ UNCHANGED fs
           \/ /\ ~Listable(n)
              /\ Refuse(s, MissingOr(n, "FAILURE"))

Close(s) ==
    /\ Serving(s, "CLOSE")
    /\ LET h == Asked(s).handle
       IN  \/ /\ h \in DOMAIN handles[s]
              /\ handles' = [handles EXCEPT ![s] = Restrict(@, DOMAIN @ \ {h})]
              /\ Reply(s, Status("OK"))
              /\ UNCHANGED <<fs, phase, next_handle>>
           \/ /\ h \notin DOMAIN handles[s]
              /\ Refuse(s, "FAILURE")

Read(s) ==
    /\ Serving(s, "READ")
    /\ \/ /\ Holds(s, "file")
          /\ LET f == HandleOf(s)
                 o == Asked(s).offset
                 len == Min({Asked(s).len, MaxRead})
                 data == SubSeq(nodes[f.node].data, o + 1,
                                Min({o + len, Len(nodes[f.node].data)}))
             IN  IF "READ" \notin f.flags \/ nodes[f.node].kind = "dir"
                   THEN Refuse(s, "FAILURE")
                   ELSE /\ Reply(s, IF data = <<>> THEN Status("EOF")
                                    ELSE [type |-> "DATA", data |-> data])
                        /\ UNCHANGED <<fs, server>>
       \/ ~Holds(s, "file") /\ Refuse(s, "FAILURE")

Write(s) ==
    /\ Serving(s, "WRITE")
    /\ \/ /\ Holds(s, "file")
          /\ Writable(HandleOf(s).flags)
          /\ LET f == HandleOf(s)
             IN  SetData(f.node, Overwritten(nodes[f.node].data,
                                    WriteOffset(f, Asked(s).offset), Asked(s).data))
          /\ Reply(s, Status("OK"))
          /\ UNCHANGED server
       \/ /\ ~(Holds(s, "file") /\ Writable(HandleOf(s).flags))
          /\ Refuse(s, "FAILURE")

\* Entries are looked up (lstat) as they are sent; those gone have no attributes.
Readdir(s) ==
    /\ Serving(s, "READDIR")
    /\ \/ /\ Holds(s, "dir")
          /\ LET d == HandleOf(s)
                 end == Min({d.next + Batch, Len(d.entries)})
                 Entry(n) == [name |-> n,
                              attrs |-> IF Exists(n) THEN nodes[names[n]].kind
                                        ELSE "none"]
                 batch == SubSeq(d.entries, d.next + 1, end)
             IN  IF d.next >= Len(d.entries)
                   THEN Refuse(s, "EOF")
                   ELSE /\ handles' = [handles EXCEPT ![s][Asked(s).handle].next = end]
                        /\ Reply(s, [type |-> "NAME",
                                     entries |-> [i \in DOMAIN batch |-> Entry(batch[i])]])
                        /\ UNCHANGED <<fs, phase, next_handle>>
       \/ ~Holds(s, "dir") /\ Refuse(s, "FAILURE")

\* A request on the file system that has a status for its only reply.
Does(s, op, allowed, effect, code) ==
    /\ Serving(s, op)
    /\ \/ allowed /\ effect /\ Reply(s, Status("OK")) /\ UNCHANGED server
       \/ ~allowed /\ Refuse(s, code)

RemoveFile(s) ==
    LET n == Asked(s).path
    IN  Does(s, "REMOVE", IsFile(n), Unlink(n), MissingOr(n, "FAILURE"))

Mkdir(s) ==
    LET n == Asked(s).path
    IN  Does(s, "MKDIR", ~Exists(n), Create(n, "dir"), "FAILURE")

Rmdir(s) ==
    LET n == Asked(s).path
    IN  Does(s, "RMDIR", IsDir(n), Unlink(n), MissingOr(n, "FAILURE"))

\* rename(2) replaces a node of the same kind, and does nothing to itself.
Rename(s) ==
    LET from == Asked(s).path
        to == Asked(s).to
        Moved == names' = [names EXCEPT ![from] = IF from = to THEN @ ELSE 0,
                                        ![to] = names[from]]
    IN  Does(s, "RENAME",
             Exists(from) /\ (Exists(to) => IsDir(from) = IsDir(to)),
             Moved /\ UNCHANGED nodes, MissingOr(from, "FAILURE"))

\* A size is optional: {} or {size}.  The file is opened for writing to set it.
ApplySize(i, size) ==
    IF size = {} THEN UNCHANGED fs
    ELSE SetData(i, Resized(nodes[i].data, CHOOSE n \in size : TRUE))

Setstat(s) ==
    LET n == Asked(s).path
    IN  Does(s, "SETSTAT", Exists(n) /\ (Asked(s).size # {} => IsFile(n)),
             ApplySize(names[n], Asked(s).size), MissingOr(n, "FAILURE"))

Fsetstat(s) ==
    Does(s, "FSETSTAT",
         /\ Holds(s, "file")
         /\ Asked(s).size # {} => Writable(HandleOf(s).flags),
         ApplySize(HandleOf(s).node, Asked(s).size), "FAILURE")

\* STAT and LSTAT (alike here), FSTAT, and REALPATH, which always answers.
Query(s) ==
    /\ \/ /\ Serving(s, "STAT")
          /\ Reply(s, IF Exists(Asked(s).path) THEN [type |-> "ATTRS"]
                      ELSE Status("NO_SUCH_FILE"))
       \/ /\ Serving(s, "FSTAT")
          /\ Reply(s, IF Holds(s, "file") THEN [type |-> "ATTRS"]
                      ELSE Status("FAILURE"))
       \/ Serving(s, "REALPATH") /\ Reply(s, [type |-> "NAME"])
    /\ UNCHANGED <<fs, server>>

\* A request that cannot be parsed, or of a type this server does not know;
\* a second INIT is one of those.
NotServed(s) ==
    \/ Serving(s, "malformed") /\ Refuse(s, "BAD_MESSAGE")
    \/ (Serving(s, "unknown") \/ Serving(s, "INIT")) /\ Refuse(s, "OP_UNSUPPORTED")

Handshake(s) ==
    /\ phase[s] = "init"
    /\ req[s] = <<INIT>>
    /\ phase' = [phase EXCEPT ![s] = "serving"]
    /\ Reply(s, [type |-> "VERSION"])
    /\ UNCHANGED <<fs, handles, next_handle>>

(* System calls that fail for reasons of their own: denied, no space, a disk *)

\* The file system is left as it was.
SyscallFails(s) ==
    /\ \/ Serving(s, "OPEN") /\ MayOpen(s) /\ ValidFlags(Asked(s).flags)
       \/ Serving(s, "OPENDIR") /\ MayOpen(s)
       \/ \E op \in {"READ", "WRITE", "FSTAT", "FSETSTAT"} :
            Serving(s, op) /\ Holds(s, "file")
       \/ \E op \in {"REMOVE", "MKDIR", "RMDIR", "RENAME", "STAT", "SETSTAT"} :
            Serving(s, op)
    /\ \E code \in {"PERMISSION_DENIED", "FAILURE"} : Refuse(s, code)

\* write_all_at fails after it wrote some of the data.
WriteStops(s) ==
    /\ Serving(s, "WRITE")
    /\ Holds(s, "file")
    /\ Writable(HandleOf(s).flags)
    /\ \E k \in 1..(Len(Asked(s).data) - 1) :
         LET f == HandleOf(s)
         IN  SetData(f.node, Overwritten(nodes[f.node].data,
                WriteOffset(f, Asked(s).offset), SubSeq(Asked(s).data, 1, k)))
    /\ Reply(s, Status("FAILURE"))
    /\ UNCHANGED server

\* MKDIR and SETSTAT set a mode (and times) after they did their first part.
SetModeFails(s) ==
    /\ \/ /\ Serving(s, "MKDIR")
          /\ ~Exists(Asked(s).path)
          /\ Create(Asked(s).path, "dir")
       \/ /\ Serving(s, "SETSTAT")
          /\ IsFile(Asked(s).path)
          /\ ApplySize(names[Asked(s).path], Asked(s).size)
       \/ /\ Serving(s, "FSETSTAT")
          /\ Holds(s, "file")
          /\ Writable(HandleOf(s).flags)
          /\ ApplySize(HandleOf(s).node, Asked(s).size)
    /\ Asked(s).mode
    /\ Reply(s, Status("PERMISSION_DENIED"))
    /\ UNCHANGED server

\* What a reply says about handles, and what a request did to the file that
\* our command has open.
Object(h) == IF h.kind = "file" THEN <<"file", h.node, h.flags>>
             ELSE <<"dir", h.entries>>
Recorded(s) ==
    LET q == Asked(s)
        r == Head(rep'[s])
        opened == r.type = "HANDLE"
        h == handles'[s][r.handle]
        mine == s = "ours" /\ opened
    IN  /\ held' = [held EXCEPT ![s] =
              IF opened THEN @ \cup {<<r.handle, Object(h)>>}
              ELSE IF q.op = "CLOSE" THEN {x \in @ : x[1] # q.handle}
              ELSE @]
        /\ target' = IF mine /\ h.kind = "file" THEN h.node ELSE target
        /\ base' = IF ~mine THEN base
                   ELSE IF h.kind = "file" THEN nodes'[h.node].data ELSE h.entries
        /\ dirty' = (dirty \/ (s # "ours" /\ target # 0
                                /\ nodes'[target] # nodes[target]))
        /\ UNCHANGED leaked

Handle(s) ==
    \/ Handshake(s) \/ OverCap(s) \/ Open(s) \/ Opendir(s) \/ Close(s)
    \/ Read(s) \/ Write(s) \/ Readdir(s) \/ RemoveFile(s) \/ Mkdir(s)
    \/ Rmdir(s) \/ Rename(s) \/ Setstat(s) \/ Fsetstat(s) \/ Query(s)
    \/ NotServed(s)

ServeRequest(s) ==
    /\ Handle(s)
    /\ Recorded(s)
    /\ UNCHANGED <<link, client, limits>>

Fail(s) ==
    /\ faults > 0
    /\ faults' = faults - 1
    /\ SyscallFails(s) \/ WriteStops(s) \/ SetModeFails(s)
    /\ Recorded(s)
    /\ UNCHANGED <<link, client, menu, left>>

-----------------------------------------------------------------------------
(* The connection, and the end of a server process *)

\* run() returns: at end of file, at a first packet that is not INIT, and at
\* a length that cannot be.  The process exits and its files are closed.
ServerEnds(s) ==
    /\ phase[s] # "ended"
    /\ \/ link[s] = "cut" /\ req[s] = <<>>
       \/ phase[s] = "init" /\ req[s] # <<>> /\ Asked(s) # INIT
       \/ Serving(s, "bad length")
    /\ phase' = [phase EXCEPT ![s] = "ended"]
    /\ handles' = [handles EXCEPT ![s] = <<>>]
    /\ held' = [held EXCEPT ![s] = {}]
    /\ link' = [link EXCEPT ![s] = "cut"]
    /\ req' = [req EXCEPT ![s] = <<>>]
    /\ UNCHANGED <<fs, next_handle, rep, client, limits, leaked, target, base, dirty>>

\* The connection breaks: a request may still have arrived, no reply does.
Cut(s) ==
    /\ link[s] = "up"
    /\ link' = [link EXCEPT ![s] = "cut"]
    /\ \E keep \in {req[s], <<>>} : req' = [req EXCEPT ![s] = keep]
    /\ rep' = [rep EXCEPT ![s] = <<>>]
    /\ UNCHANGED <<fs, server, client, limits, history>>

OtherSends ==
    /\ left > 0
    /\ link["other"] = "up"
    /\ req["other"] = <<>>
    /\ \E q \in menu \cup {INIT} : req' = [req EXCEPT !["other"] = <<q>>]
    /\ rep' = [rep EXCEPT !["other"] = <<>>]
    /\ left' = left - 1
    /\ UNCHANGED <<fs, server, link, client, menu, faults, history>>

-----------------------------------------------------------------------------
(* The client: one request at a time, and what it does with the reply *)

Received == link["ours"] = "up" /\ rep["ours"] # <<>>
Answer == Head(rep["ours"])
Got(type) == Received /\ Answer.type = type

Send(q) ==
    /\ req' = [req EXCEPT !["ours"] = <<q>>]
    /\ rep' = [rep EXCEPT !["ours"] = <<>>]
Return(r) ==
    /\ result' = r
    /\ awaits' = "idle"
    /\ rep' = [rep EXCEPT !["ours"] = <<>>]
    /\ UNCHANGED req
SendClose(h, r) ==
    /\ Send([op |-> "CLOSE", handle |-> h])
    /\ awaits' = "close"
    /\ result' = r

world == <<fs, server, link, limits, held>>
watched == <<target, base, dirty>>

Connected ==
    /\ awaits = "version"
    /\ Got("VERSION")
    /\ Return("ok")
    /\ UNCHANGED <<world, watched, leaked, todo, job, handle, offset, sent, got>>

Begin ==
    /\ awaits = "idle"
    /\ link["ours"] = "up"
    /\ todo # <<>>
    /\ LET j == Head(todo)
       IN  /\ job' = j
           /\ awaits' = IF j.kind \in Jobs THEN "open" ELSE "status"
           /\ Send(CASE j.kind = "list" -> [op |-> "OPENDIR", path |-> j.path]
                     [] j.kind = "download" ->
                          [op |-> "OPEN", path |-> j.path, flags |-> {"READ"}]
                     [] j.kind = "upload" ->
                          [op |-> "OPEN", path |-> j.path,
                           flags |-> {"WRITE", "CREAT", "TRUNC"}]
                     [] OTHER -> j.request)
    /\ todo' = Tail(todo)
    /\ handle' = 0 /\ offset' = 0 /\ sent' = 0 /\ got' = <<>> /\ result' = "err"
    /\ target' = 0 /\ base' = <<>> /\ dirty' = FALSE
    /\ UNCHANGED <<world, leaked>>

NextRead(h, o) ==
    IF job.kind = "list" THEN [op |-> "READDIR", handle |-> h]
    ELSE [op |-> "READ", handle |-> h, offset |-> o, len |-> Chunk]

\* upload's loop: read some of the source, or its end, or an error.
SourceStep(h, o) ==
    \/ /\ o = Len(job.source)
       /\ SendClose(h, "ok") /\ UNCHANGED sent
    \/ \E n \in 1..Min({Chunk, Len(job.source) - o}) :
         /\ Send([op |-> "WRITE", handle |-> h, offset |-> o,
                  data |-> SubSeq(job.source, o + 1, o + n)])
         /\ awaits' = "write"
         /\ sent' = n
         /\ UNCHANGED result
    \/ SendClose(h, "err") /\ UNCHANGED sent

Opened ==
    /\ awaits = "open"
    /\ Got("HANDLE")
    /\ handle' = Answer.handle
    /\ \/ /\ job.kind # "upload"
          /\ Send(NextRead(Answer.handle, 0))
          /\ awaits' = "read"
          /\ UNCHANGED <<sent, result>>
       \/ job.kind = "upload" /\ SourceStep(Answer.handle, 0)
    /\ UNCHANGED <<world, watched, leaked, todo, job, offset, got>>

NotOpened ==
    /\ awaits = "open"
    /\ Got("STATUS")
    /\ Return("err")
    /\ UNCHANGED <<world, watched, leaked, todo, job, handle, offset, sent, got>>

ReadMore ==
    /\ awaits = "read"
    /\ Got("NAME") \/ Got("DATA")
    /\ LET more == IF Answer.type = "NAME" THEN Answer.entries ELSE Answer.data
       IN  /\ got' = got \o more
           /\ offset' = offset + Len(more)
           /\ Send(NextRead(handle, offset + Len(more)))
    /\ UNCHANGED <<world, watched, leaked, todo, job, awaits, handle, sent, result>>

\* The sink refuses the data; it may have taken some of it.
SinkFails ==
    /\ awaits = "read"
    /\ Got("DATA")
    /\ \E k \in 0..(Len(Answer.data) - 1) : got' = got \o SubSeq(Answer.data, 1, k)
    /\ SendClose(handle, "err")
    /\ UNCHANGED <<world, watched, leaked, todo, job, handle, offset, sent>>

ReadEnds ==
    /\ awaits = "read"
    /\ Got("STATUS")
    /\ SendClose(handle, IF Answer.code = "EOF" THEN "ok" ELSE "err")
    /\ UNCHANGED <<world, watched, leaked, todo, job, handle, offset, sent, got>>

\* `sink.flush().await?': download returns, its handle still open.
FlushFails ==
    /\ awaits = "read"
    /\ job.kind = "download"
    /\ Got("STATUS")
    /\ Answer.code = "EOF"
    /\ Return("err")
    /\ leaked' = leaked + 1
    /\ UNCHANGED <<world, watched, todo, job, handle, offset, sent, got>>

WriteAnswered ==
    /\ awaits = "write"
    /\ Got("STATUS")
    /\ \/ /\ Answer.code = "OK"
          /\ offset' = offset + sent
          /\ SourceStep(handle, offset + sent)
       \/ /\ Answer.code # "OK"
          /\ SendClose(handle, "err")
          /\ UNCHANGED <<offset, sent>>
    /\ UNCHANGED <<world, watched, leaked, todo, job, handle, got>>

\* `close(..).await', or `.ok()' when there is an error to return already.
CloseAnswered ==
    /\ awaits = "close"
    /\ Got("STATUS")
    /\ Return(IF Answer.code = "OK" THEN result ELSE "err")
    /\ UNCHANGED <<world, watched, leaked, todo, job, handle, offset, sent, got>>

\* stat, realpath, and the commands that are one request (status_op).
Answered ==
    /\ awaits = "status"
    /\ Received
    /\ Return(IF Answer.type = "STATUS" /\ Answer.code # "OK" THEN "err" ELSE "ok")
    /\ UNCHANGED <<world, watched, leaked, todo, job, handle, offset, sent, got>>

\* read_packet or write_packet fails: no close is sent, the error returned.
Lost ==
    /\ awaits # "gone"
    /\ link["ours"] = "cut"
    /\ awaits' = "gone"
    /\ result' = IF awaits = "idle" THEN result ELSE "err"
    /\ UNCHANGED <<world, req, rep, watched, leaked, todo, job, handle, offset,
                   sent, got>>

\* drop(client) after the last command: end of file for the server.
Quit ==
    /\ awaits = "idle"
    /\ todo = <<>>
    /\ link["ours"] = "up"
    /\ link' = [link EXCEPT !["ours"] = "cut"]
    /\ awaits' = "gone"
    /\ UNCHANGED <<fs, server, limits, req, rep, history, todo, job, handle,
                   offset, sent, got, result>>

Client ==
    \/ Connected \/ Begin \/ Opened \/ NotOpened \/ ReadMore \/ SinkFails
    \/ ReadEnds \/ FlushFails \/ WriteAnswered \/ CloseAnswered \/ Answered \/ Lost \/ Quit

SftpNext ==
    \/ \E s \in Session : ServeRequest(s) \/ Fail(s) \/ ServerEnds(s) \/ Cut(s)
    \/ OtherSends
    \/ Client

SftpSpec == SftpInit /\ [][SftpNext]_sftpVars

-----------------------------------------------------------------------------
(* Properties *)

Listed == [i \in DOMAIN got |-> got[i].name]

\* What a command of our client returns is what there was when the server
\* opened it: a listing names each entry of that moment once; a download holds
\* the file's bytes of that moment, even if the file is renamed, removed or
\* replaced meanwhile; an upload leaves its source, whole, in the file it
\* opened.  Until it succeeds, and when it fails, it holds a prefix.  (A file
\* that another session writes into meanwhile is not promised anything.)
Intact ==
    LET Holding(part, whole) ==
            IF awaits \in {"idle", "gone"} /\ result = "ok" THEN part = whole
            ELSE IsPrefix(part, whole)
    IN  /\ job.kind = "list" => Holding(Listed, base)
        /\ job.kind = "download" /\ ~dirty => Holding(got, base)
        /\ job.kind = "upload" /\ target # 0 /\ ~dirty =>
              Holding(nodes[target].data, job.source)

\* A server process holds exactly the handles it gave its client and that the
\* client did not close, each on the object it was opened on, and never more
\* than MAX_HANDLES; and between two commands our client holds none, but for
\* one per flush of a download's sink that failed.
HandlesKept ==
    /\ \A s \in Session :
         /\ Cardinality(DOMAIN handles[s]) <= MaxHandles
         /\ held[s] = {<<h, Object(handles[s][h])>> : h \in DOMAIN handles[s]}
    /\ awaits = "idle" /\ link["ours"] = "up" => Cardinality(held["ours"]) = leaked

\* Transfers are faithful however handles come and go: a handle that is lost,
\* confused with another or kept too long would carry another file's bytes.
Faithful == Intact /\ HandlesKept

\* A request that is refused has done nothing: no file created, truncated or
\* moved, no handle taken.  Only a system call that fails half-way can leave
\* something behind (faults decreases).
CleanRefusal ==
    [][\A s \in Session :
         /\ req[s] # <<>> /\ req'[s] = <<>>
         /\ rep'[s] # <<>> /\ rep'[s] # rep[s]
         /\ Head(rep'[s]).type = "STATUS" /\ Head(rep'[s]).code # "OK"
         /\ faults' = faults
         => UNCHANGED <<fs, handles, next_handle>>]_sftpVars
=============================================================================
