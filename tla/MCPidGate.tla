----------------------------- MODULE MCPidGate -----------------------------
(* Instances of PidGate for TLC. *)
EXTENDS PidGate

CONSTANTS a, b, c, d, l, x   \* incarnations; l: yesterday's, x: a bystander

\* Every incarnation has a pid of its own, except that c reuses d's and x
\* reuses l's.
MCPidOf ==
  [p \in Proc |-> CASE p = a -> 1 [] p = b -> 2 [] p \in {c, d} -> 3 [] OTHER -> 4]

\* Start instants in units of half the tolerance: c starts outside d's
\* tolerance even after the worst drift.
MCStartOf == [p \in Proc |-> IF p = d THEN 0 ELSE 5]

\* d crashed before the model starts and left its gate and its inode.
Crash == [pc   |-> [p \in Proc |-> IF p \in {a, b, c} THEN "off" ELSE "dead"],
          gate |-> d, sock |-> d]

\* l is booting, between its gate and its socket, and nothing lies in its way.
Boot == [pc   |-> [p \in Proc |-> CASE p \in {a, b} -> "off"
                                    [] p = l -> "clear"
                                    [] OTHER -> "dead"],
         gate |-> l, sock |-> NoFile]

\* l is gone and the machine has given its pid to x.
Reboot == [pc   |-> [p \in Proc |-> CASE p \in {a, b} -> "off"
                                      [] p = x -> "bystander"
                                      [] OTHER -> "dead"],
           gate |-> l, sock |-> l]

\* A gate whose pid cannot be read, and a regular file where the socket goes.
Mangled == [Crash EXCEPT !.gate = Malformed, !.sock = Foreign]

AnyWreck      == {Crash, Mangled, Boot}
CrashOrReboot == {Crash, Reboot}
=============================================================================
