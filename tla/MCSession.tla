------------------------------ MODULE MCSession ------------------------------
(* Bounds for model checking Session.                                      *)
EXTENDS Session

Window2 == [e \in End |-> 2]
Each1 == [e \in End |-> 1]

SessionRequests == Start \cup Status \cup {"pty-req"}

Exec(prog, input, output, errors) ==
    [pty |-> FALSE, start |-> "exec", force_command |-> FALSE, prog |-> prog,
     input |-> input, output |-> output, errors |-> errors]

\* Everything a client can ask for, of a command that says little.
AllAsks ==
    {[Exec("talk", 0, 1, 0) EXCEPT !.pty = p, !.start = s, !.force_command = f] :
        p \in BOOLEAN, s \in {"exec", "shell"}, f \in {FALSE}}
    \cup {[Exec("talk", 0, 1, 0) EXCEPT !.start = s, !.force_command = f] :
        s \in {"sftp", "other_subsystem"}, f \in BOOLEAN}

Typical == AllAsks \cup
    {Exec("talk", 0, 1, 1), Exec("talk", 0, 0, 1), Exec("talk", 0, 3, 0),
     Exec("talk", 1, 1, 0), Exec("echo", 4, 0, 0), Exec("deaf", 2, 0, 0)}

\* Commands of which a read, a write or the wait may fail.
Unlucky == {Exec("talk", 0, 1, 0), Exec("talk", 0, 0, 1)}

\* A command that does not wait for its input, and one that copies it.
Impatient == {Exec("talk", 1, 1, 0)}
Copier == {Exec("echo", 5, 0, 0)}
=============================================================================
