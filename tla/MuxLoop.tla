------------------------------ MODULE MuxLoop -------------------------------
(***************************************************************************)
(* What every view of a connection's two loops (Connection::run in         *)
(* connect/mux.rs) has in common: the two ends, how each loop is doing,    *)
(* and the commands that its tasks have put in its queue.  MuxChannel,     *)
(* Opens and LoopIO say what a command is and what else a loop keeps.      *)
(***************************************************************************)
End == {"client", "server"}
Peer(e) == CHOOSE p \in End : p # e

VARIABLES
    run,   \* run[e]: "running", or how the loop of e ended
    cmds   \* commands from the tasks of e to its loop
=============================================================================
