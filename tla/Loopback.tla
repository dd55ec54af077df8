------------------------------- MODULE Loopback -------------------------------
(***************************************************************************)
(* The in-process loopback transport (core/transport): two ends wired to   *)
(* each other.  send() hands a message to the other end's receive callback *)
(* before it returns; connect() and close() report a change of state to    *)
(* the state callback the same way.                                        *)
(***************************************************************************)
EXTENDS Naturals

Ends == {"a", "b"}
Peer(e) == IF e = "a" THEN "b" ELSE "a"

VARIABLES
    tstate,     \* state_ of each end
    receiver    \* receive_cb_ of each end is installed

loopback == <<tstate, receiver>>

\* createLoopbackPair leaves both ends Idle.
LoopbackInit ==
    /\ tstate = [e \in Ends |-> "Idle"]
    /\ receiver = [e \in Ends |-> FALSE]

setReceiveCallback(e) ==
    /\ ~receiver[e]
    /\ receiver' = [receiver EXCEPT ![e] = TRUE]
    /\ UNCHANGED tstate

\* The state callback runs only when the state changes, and after it did.
setState(e, s) ==
    /\ tstate[e] # s
    /\ tstate' = [tstate EXCEPT ![e] = s]
    /\ UNCHANGED receiver

connect(e) == setState(e, "Connected")
close(e) == setState(e, "Closed")

\* A send() that reaches the receive callback of the other end, whose own state
\* is not looked at.  Every other send() changes nothing: it fails on an end that
\* is not connected or a message that is too large, and without a receiver it
\* fails on a reliable channel and claims success on a media channel.
send(e, fits) == tstate[e] = "Connected" /\ fits /\ receiver[Peer(e)] /\ UNCHANGED loopback

=============================================================================
