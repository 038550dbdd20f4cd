---------------------------- MODULE MCTransport ----------------------------
(* Module Transport on a small instance: sequence numbers of three bits, a *)
(* packet limit of two, at each end one limit reached by bytes or time.     *)
EXTENDS Transport

FewApp == [s \in Side |-> IF s = "client" THEN 1 ELSE 3]
Age1 == [s \in Side |-> 1]
=============================================================================
