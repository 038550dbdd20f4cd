----------------------------- MODULE MCChannel -----------------------------
(***************************************************************************)
(* Module Channel on small instances.                                      *)
(***************************************************************************)
EXTENDS Channel

\* A receiver gives consumed bytes back in halves of its window, and the server
\* takes smaller packets than the client reads: a buffer goes out in several.
SmallWindow == [e \in End |-> 3]
SmallRefill == [e \in End |-> 2]
MixedChunk == [e \in End |-> IF e = "client" THEN 2 ELSE 1]

\* The client's application sends more than a window, the server's answers.
Upload == [e \in End |-> IF e = "client" THEN 4 ELSE 1]
OneByte == [e \in End |-> IF e = "client" THEN 1 ELSE 0]
=============================================================================
