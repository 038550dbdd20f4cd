------------------------------- MODULE MCSftp --------------------------------
(* Bounds for model checking Sftp.                                         *)
EXTENDS Sftp

OpenFor(n, flags) == [op |-> "OPEN", path |-> n, flags |-> flags]
On(op, h) == [op |-> op, handle |-> h]
At(op, n) == [op |-> op, path |-> n]
Mk(n, mode) == [op |-> "MKDIR", path |-> n, mode |-> mode]
Mv(n, m) == [op |-> "RENAME", path |-> n, to |-> m]
Put(h, o, data) == [op |-> "WRITE", handle |-> h, offset |-> o, data |-> data]
Size(n, size, mode) == [op |-> "SETSTAT", path |-> n, size |-> size, mode |-> mode]
Fsize(h, size) == [op |-> "FSETSTAT", handle |-> h, size |-> size, mode |-> TRUE]
Take(h, o, len) == [op |-> "READ", handle |-> h, offset |-> o, len |-> len]

Job(kind, n) == [kind |-> kind, path |-> n]
Upload(n, data) == [kind |-> "upload", path |-> n, source |-> data]
One(q) == [kind |-> "one", request |-> q]

Of(files, jobs, menus, n, f) ==
    [files |-> files, jobs |-> jobs, menu |-> menus, requests |-> n, faults |-> f]

Ab == "a" :> <<"x", "y", "z">> @@ "b" :> <<"p">>

\* Our client lists while names come and go.
Listing == Of(Ab, <<Job("list", "root"), Job("list", "c")>>,
    {At("REMOVE", "a"), Mk("c", FALSE), Mv("a", "c"), At("RMDIR", "c"),
     Mv("b", "a"), Mv("c", "b")}, 4, 0)

\* It downloads a file that others replace, remove, cut short or write into.
Downloading == Of(Ab, <<Job("download", "a"), Job("download", "b"), Job("download", "a")>>,
    {Mv("b", "a"), At("REMOVE", "a"), OpenFor("a", {"READ", "WRITE"}),
     Put(0, 1, <<"w", "w">>), Size("a", {1}, FALSE)}, 3, 1)

\* It uploads over a longer file while others rename, truncate and append.
Uploading == Of(Ab, <<Upload("a", <<"n", "m">>), Job("download", "a")>>,
    {Mv("a", "b"), At("REMOVE", "a"), OpenFor("a", {"APPEND"}), Put(0, 0, <<"w">>),
     Fsize(0, {0}), On("CLOSE", 0)}, 3, 1)

\* Single requests, some of them refused, some failing half-way.
Single == Of(Ab, <<One(Mk("c", TRUE)), One(At("STAT", "c")), One(At("REALPATH", "c")),
                   One(At("REMOVE", "c")), One(At("RMDIR", "c")),
                   Upload("c", <<>>)>>,
    {Size("a", {5}, TRUE), Size("a", {}, TRUE), At("RMDIR", "a"), At("REMOVE", "c"),
     [op |-> "malformed"], [op |-> "unknown"], [op |-> "bad length"]}, 3, 1)

\* A client that holds on to its handles, and uses the wrong ones.
Holding == Of(Ab, <<>>,
    {OpenFor("a", {"READ"}), OpenFor("c", {"READ", "WRITE", "CREAT"}),
     OpenFor("b", {"WRITE", "TRUNC"}), OpenFor("b", {"WRITE", "EXCL"}),
     OpenFor("a", {"CREAT"}), At("OPENDIR", "root"), At("OPENDIR", "a"),
     On("CLOSE", 0), On("CLOSE", 1), On("READDIR", 0), On("READDIR", 1),
     Take(0, 1, 9), Take(1, 0, 1), Put(0, 2, <<"w">>), Put(1, 2, <<"w">>),
     Fsize(1, {2}), Fsize(0, {}), On("FSTAT", 0)}, 5, 0)

All == {Listing, Downloading, Uploading, Single, Holding}
=============================================================================
