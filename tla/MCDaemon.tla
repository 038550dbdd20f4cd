------------------------------ MODULE MCDaemon ------------------------------
(***************************************************************************)
(* Two daemons with one key file, two connections.                         *)
(***************************************************************************)
EXTENDS Daemon

Args(root, privsep, sandbox, no_drop, exists) ==
    [root |-> root, privsep |-> privsep, sandbox |-> sandbox,
     no_privilege_drop |-> no_drop, user_exists |-> exists]

Pair(a, b) == [d \in Daemons |-> IF d = "d1" THEN a ELSE b]

\* Root with --privsep beside --sandbox; --no-privilege-drop beside a daemon
\* that was not root to begin with.
MCConfigs ==
    {Pair(Args(TRUE, TRUE, FALSE, FALSE, TRUE), Args(TRUE, FALSE, TRUE, FALSE, TRUE)),
     Pair(Args(TRUE, FALSE, FALSE, TRUE, TRUE), Args(FALSE, FALSE, FALSE, FALSE, TRUE))}
=============================================================================
