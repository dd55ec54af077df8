-------------------------------- MODULE Relay --------------------------------
(***************************************************************************)
(* The relay server (server/relay): a table of allocations, one per token, *)
(* each with two legs learned from the first two sources that use the      *)
(* token; datagrams go verbatim to the other leg, idle allocations are     *)
(* dropped.  The loop is that of the rendezvous server: one datagram, then *)
(* a sweep when one is due; both read the clock.  An allocation's byte     *)
(* counters and creation time are read by nothing and left out.            *)
(***************************************************************************)
EXTENDS ServerLoop

CONSTANTS
    Tokens,       \* session tokens
    Sources       \* observed packet sources

ASSUME RelayNoneAssumption ==
    /\ None \notin Sources
    /\ None \notin [a : Sources \cup {None}, b : Sources \cup {None}, active : Nat]

VARIABLES
    table,       \* InMemoryAllocationTable::map_
    forwarded,   \* what the latest iteration forwarded: at most one datagram
    heard        \* history: token -> when a datagram last named it, 0 if never

relayVars == <<now, table, last_sweep, forwarded, handled, heard>>

Leg == Sources \cup {None}
Allocation == [a : Leg, b : Leg, active : Nat]

-----------------------------------------------------------------------------
(* The allocation table *)

\* Idempotent: a token that is allocated keeps its allocation.
allocate(tok, t) ==
    IF table[tok] = None THEN [a |-> None, b |-> None, active |-> t] ELSE table[tok]

\* A slip: the bound legs are not searched before a free one is claimed.
claimAlways(al, src) ==
    IF al.a = None THEN [al EXCEPT !.a = src]
    ELSE IF al.b = None THEN [al EXCEPT !.b = src]
    ELSE al

\* The leg src is bound to, or the first free one, or neither.
claim(al, src) ==
    IF src \in {al.a, al.b} THEN al
    ELSE IF al.a = None THEN [al EXCEPT !.a = src]
    ELSE IF al.b = None THEN [al EXCEPT !.b = src]
    ELSE al

\* The leg a datagram of src is forwarded to; None when it is not bound yet
\* and for a third party.
peerLeg(al, src) ==
    IF al.a = src THEN al.b ELSE IF al.b = src THEN al.a ELSE None

\* A slip: routing does not count as activity.
touchNot(al, t) == al

\* Activity is recorded before src is matched: a third party's datagram, which
\* is dropped, keeps the allocation alive too.
touch(al, t) == [al EXCEPT !.active = t]

route(al, src, t) == claim(touch(al, t), src)

\* Slip: allocations are dropped only after twice the TTL.
expireIdleLate(tab, t) ==
    [tok \in Tokens |->
        IF tab[tok] # None /\ t - tab[tok].active > 2 * Ttl THEN None ELSE tab[tok]]
expireIdle(tab, t) ==
    [tok \in Tokens |->
        IF tab[tok] # None /\ t - tab[tok].active > Ttl THEN None ELSE tab[tok]]

-----------------------------------------------------------------------------
(* The loop *)

\* The rest of the iteration after the handler left tab.
RelaySweep(tab) ==
    \E t \in {now, now + 1} :
        /\ t <= MaxTime
        /\ now' = t
        /\ handled' = t
        /\ last_sweep' = NextSweep(t)
        /\ table' = IF SweepDue(t) THEN expireIdle(tab, t) ELSE tab

\* A well-formed datagram: allocate, route, forward, sweep.
Datagram(from, tok) ==
    LET al == route(allocate(tok, now), from, now)
        dst == peerLeg(al, from)
    IN  /\ forwarded' = IF dst = None THEN {} ELSE {[token |-> tok, to |-> dst]}
        /\ heard' = [heard EXCEPT ![tok] = now]
        /\ RelaySweep([table EXCEPT ![tok] = al])

\* A receive error, or a datagram with no token or a truncated one.
RelayIgnore ==
    /\ forwarded' = {}
    /\ UNCHANGED heard
    /\ RelaySweep(table)

\* Time passes while the relay is blocked in recv_from; nothing is swept.
RelayTick ==
    /\ now < MaxTime
    /\ now' = now + 1
    /\ forwarded' = {}
    /\ UNCHANGED <<table, last_sweep, handled, heard>>

RelayInit ==
    /\ now = 1
    /\ table = [tok \in Tokens |-> None]
    /\ last_sweep = 1
    /\ forwarded = {}
    /\ handled = 1
    /\ heard = [tok \in Tokens |-> 0]

RelayNext ==
    \/ \E from \in Sources, tok \in Tokens : Datagram(from, tok)
    \/ RelayIgnore
    \/ RelayTick

RelaySpec == RelayInit /\ [][RelayNext]_relayVars

-----------------------------------------------------------------------------
(* Properties *)

\* The type of every variable; no timestamp lies in the future.
RelayTypeOK ==
    /\ now \in Nat \ {0}
    /\ table \in [Tokens -> Allocation \cup {None}]
    /\ last_sweep \in Nat /\ last_sweep <= now
    /\ handled \in Nat /\ handled <= now
    /\ heard \in [Tokens -> Nat]
    /\ forwarded \subseteq [token : Tokens, to : Sources]
    /\ \A tok \in Tokens : heard[tok] <= now

\* The endpoints an allocation pairs.
Members(tok) == IF table[tok] = None THEN {} ELSE {table[tok].a, table[tok].b} \ {None}

\* The relay implements the pairing it promises (allocation_table.h:50-51,
\* 67-73, allocation_table.cpp:45-76): two legs learned and claimed in order
\* behave as a set of at most two endpoints, a datagram reaches exactly the
\* other one, never its sender, a stranger or another token's pair.
Pairing == INSTANCE RelayPairing
    WITH Endpoints <- Sources,
         members <- [tok \in Tokens |-> Members(tok)], out <- forwarded
ImplementsPairing == Pairing!Spec

\* Sweeps run only on traffic, but when an iteration ends nothing left has
\* been idle for the TTL plus one sweep period (main.cpp:129-135).
IdleBounded ==
    /\ handled - last_sweep < SweepPeriod
    /\ \A tok \in Tokens :
        table[tok] # None => handled - heard[tok] < Ttl + SweepPeriod

\* allocation_table.h:77, "Drop allocations idle longer than ttl_seconds": a
\* pair whose token was heard within the TTL keeps both its legs, so a live
\* session's peers are never unbound or swapped under it.
LivePairStable ==
    [][\A tok \in Tokens :
        now' - heard[tok] <= Ttl => Members(tok) \subseteq Members(tok)']_relayVars

=============================================================================
