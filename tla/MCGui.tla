------------------------------- MODULE MCGui -------------------------------
(***************************************************************************)
(* One tab and one command-line client of the same user.                   *)
(***************************************************************************)
EXTENDS Gui

\* What the GUI passes to connect: keys are accepted, no authority, no terminal.
GuiSetup ==
    [accept_new |-> TRUE, tty |-> FALSE, no_agent |-> FALSE, agent |-> "usable",
     explicit |-> FALSE, file |-> "plain", cert |-> "none", host_ca |-> {}]
Cli == [GuiSetup EXCEPT !.accept_new = FALSE, !.tty = TRUE]

Both(g, s) == [c \in Clients |-> IF c \in Tabs THEN g ELSE s]
MCSetups ==
    {Both(GuiSetup, Cli),
     Both([GuiSetup EXCEPT !.explicit = TRUE, !.file = "locked"],
          [Cli EXCEPT !.agent = "none", !.file = "locked", !.cert = "good",
                      !.host_ca = {"k2"}]),
     Both([GuiSetup EXCEPT !.explicit = TRUE, !.file = "missing"],
          [Cli EXCEPT !.no_agent = TRUE, !.cert = "bad"])}

\* A host, the same on another port, and names with a comma and with whitespace.
Host(parts, begins, spaced) == [parts |-> parts, begins |-> begins, spaced |-> spaced]
H == Host({"h"}, "h", FALSE)
At22(host) == [host |-> host, port |-> 22]
MCTargets ==
    {At22(H), [host |-> H, port |-> 2222], At22(Host({"h", "g"}, "h", FALSE)),
     At22(Host({"h x"}, "h", TRUE))}

\* No file; one with an authority and a host, its last line finished or not.
Some == <<[mark |-> "ca", label |-> host_label(At22(H)), key |-> "k2"], known_hosts_line(host_label(At22(H)), "k1")>>
File(q, e, r) == [lines |-> q, ended |-> e, legible |-> r]
MCFiles ==
    {File(<<>>, TRUE, TRUE), File(Some, TRUE, TRUE), File(Some, FALSE, TRUE)}

Certificate ==
    [key |-> "k1", ca |-> "k2", type |-> "host", sk |-> FALSE, valid_after |-> 1,
     valid_before |-> 3, principals |-> {H}]
MCDisks == {Targets}
MCHostCerts ==
    {Certificate, [Certificate EXCEPT !.valid_before = 2], [Certificate EXCEPT !.principals = {}]}
=============================================================================
