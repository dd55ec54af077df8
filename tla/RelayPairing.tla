----------------------------- MODULE RelayPairing -----------------------------
(***************************************************************************)
(* What the blind relay promises, without clock, legs or sweeps: a token   *)
(* pairs the first two endpoints that use it, a datagram of one goes to    *)
(* the other and to nobody else, and the relay may forget a pairing.       *)
(***************************************************************************)
CONSTANTS Tokens, Endpoints

VARIABLES
    members,  \* token -> the endpoints paired by it
    out       \* what the latest datagram led to: the endpoints it was sent to

IsPair(m) == \E x, y \in m : x # y

Init ==
    /\ members = [t \in Tokens |-> {}]
    /\ out = {}

\* The sender joins unless two endpoints are paired already; a member's
\* datagram goes to the other members, a stranger's to nobody.
Datagram(from, tok) ==
    LET m == IF IsPair(members[tok]) THEN members[tok] ELSE members[tok] \cup {from}
    IN  /\ out' = IF from \in m THEN {[token |-> tok, to |-> e] : e \in m \ {from}} ELSE {}
        /\ \E gone \in SUBSET Tokens :
            members' = [t \in Tokens |-> IF t \in gone THEN {}
                                         ELSE IF t = tok THEN m ELSE members[t]]

\* Pairings are forgotten with no datagram that names them.
Forget ==
    /\ out' = {}
    /\ \E gone \in SUBSET Tokens :
        members' = [t \in Tokens |-> IF t \in gone THEN {} ELSE members[t]]

Next == Forget \/ \E from \in Endpoints, tok \in Tokens : Datagram(from, tok)

Spec == Init /\ [][Next]_<<members, out>>

=============================================================================
