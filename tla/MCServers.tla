----------------------------- MODULE MCServers -----------------------------
(* Model-checking instance of the two servers, Rendezvous and Relay.  They   *)
(* are processes of their own that share neither state nor messages, so a    *)
(* behaviour of one is checked without steps of the other: `server` says     *)
(* which one runs.  Rendezvous: two keys and two endpoints compete for one   *)
(* id.  Relay: two tokens, so that pairs could mix, and three sources, so    *)
(* that a stranger meets a full pair.  The periods keep the order of the     *)
(* code's constants: sweep (15 s, 10 s) < TTL (60 s, 30 s) < guard (90 s).   *)
EXTENDS Rendezvous, Relay, TLC

CONSTANTS i1, k1, k2, e1, e2, t1, t2, s1, s2, s3

VARIABLE server

MCIds == {i1}
MCKeys == {k1, k2}
MCEndpoints == {e1, e2}
MCTokens == {t1, t2}
MCSources == {s1, s2, s3}

ServersInit == Init /\ RelayInit /\ server \in {"rendezvous", "relay"}

ServersNext ==
    \/ /\ server = "rendezvous"
       /\ Next
       /\ UNCHANGED <<table, forwarded, heard>>
       /\ UNCHANGED server
    \/ /\ server = "relay"
       /\ RelayNext
       /\ UNCHANGED <<registry, sessions, sent, holder>>
       /\ UNCHANGED server

ServersSpec == ServersInit /\ [][ServersNext]_<<vars, relayVars, server>>

\* Keys, endpoints, tokens and sources are only compared for equality.
ServersSymmetry ==
    Permutations(MCKeys) \cup Permutations(MCEndpoints)
        \cup Permutations(MCTokens) \cup Permutations(MCSources)

=============================================================================
