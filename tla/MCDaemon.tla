------------------------------- MODULE MCDaemon -------------------------------
(* Model-checking instance of Daemon: two clients that may connect, so that   *)
(* one waits behind the other, and one that must not.                         *)
EXTENDS Daemon

CONSTANTS c1, c2, c3

MCClients == {c1, c2, c3}
MCOwners == {c1, c2}

=============================================================================
