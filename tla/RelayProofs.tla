------------------------------ MODULE RelayProofs ------------------------------
(***************************************************************************)
(* Proofs about Relay, for every set of tokens and endpoints and for every *)
(* TTL and sweep period (the code has 30 and 10 seconds).                  *)
(***************************************************************************)
EXTENDS Relay, TLAPS

\* An allocation's legs are claimed in order and hold two different sources,
\* its activity time is when its token was last heard, and the last sweep left
\* nothing that had been idle for longer than the TTL.
AllocOK(al, tok) ==
    /\ al.a = None => al.b = None
    /\ al.a # None => al.a # al.b
    /\ al.active = heard[tok]
    /\ last_sweep - al.active <= Ttl

Inv ==
    /\ RelayTypeOK
    /\ handled - last_sweep < SweepPeriod
    /\ \A tok \in Tokens : table[tok] # None => AllocOK(table[tok], tok)

\* Everything the end of an iteration does, for whatever table a handler left
\* it, when heard' is the activity time in that table.
LEMMA SweepStep ==
    ASSUME Inv, NEW tab \in [Tokens -> Allocation \cup {None}], RelaySweep(tab),
           heard' \in [Tokens -> Nat],
           \A tok \in Tokens : heard'[tok] <= now,
           forwarded' \subseteq [token : Tokens, to : Sources],
           \A tok \in Tokens : tab[tok] # None =>
                /\ tab[tok].a = None => tab[tok].b = None
                /\ tab[tok].a # None => tab[tok].a # tab[tok].b
                /\ tab[tok].active = heard'[tok]
                /\ last_sweep - heard'[tok] <= Ttl
    PROVE  /\ Inv'
           /\ now <= now'
           /\ \A tok \in Tokens :
                \/ table'[tok] = tab[tok]
                \/ /\ table'[tok] = None /\ tab[tok] # None
                   /\ now' - heard'[tok] > Ttl
<1> USE TimingAssumption, RelayNoneAssumption
<1>1. PICK t \in {now, now + 1} :
        /\ now' = t /\ handled' = t
        /\ last_sweep' = IF SweepDue(t) THEN t ELSE last_sweep
        /\ table' = IF SweepDue(t) THEN expireIdle(tab, t) ELSE tab
  BY DEF RelaySweep, NextSweep
<1>2. t \in Nat \ {0} /\ now <= t /\ now \in Nat /\ last_sweep \in Nat
  BY <1>1 DEF Inv, RelayTypeOK
<1>3. \A tok \in Tokens : tab[tok] # None => tab[tok].active \in Nat
  BY DEF Allocation
<1>4. /\ table' \in [Tokens -> Allocation \cup {None}]
      /\ \A tok \in Tokens :
            \/ table'[tok] = tab[tok]
            \/ table'[tok] = None /\ tab[tok] # None /\ now' - heard'[tok] > Ttl
  <2>1. CASE SweepDue(t)
    BY <1>1, <1>2, <1>3, <2>1 DEF expireIdle
  <2>2. CASE ~SweepDue(t)
    BY <1>1, <2>2
  <2>3. QED BY <2>1, <2>2
<1>5. handled' - last_sweep' < SweepPeriod /\ last_sweep' \in Nat /\ last_sweep' <= now'
  <2>1. CASE SweepDue(t)
    BY <1>1, <1>2, <2>1
  <2>2. CASE ~SweepDue(t)
    BY <1>1, <1>2, <2>2 DEF SweepDue, Inv, RelayTypeOK
  <2>3. QED BY <2>1, <2>2
<1>6. RelayTypeOK'
  BY <1>1, <1>2, <1>4, <1>5 DEF RelayTypeOK
<1>7. \A tok \in Tokens : table'[tok] # None => last_sweep' - heard'[tok] <= Ttl
  <2>1. CASE SweepDue(t)
    <3>1. \A tok \in Tokens : table'[tok] # None => t - tab[tok].active <= Ttl
      BY <1>1, <1>2, <1>3, <2>1 DEF expireIdle
    <3>2. QED BY <1>1, <1>4, <2>1, <3>1
  <2>2. CASE ~SweepDue(t)
    BY <1>1, <2>2
  <2>3. QED BY <2>1, <2>2
<1>8. \A tok \in Tokens : table'[tok] # None => AllocOK(table[tok], tok)'
  BY <1>4, <1>7 DEF AllocOK
<1>9. QED BY <1>1, <1>2, <1>4, <1>5, <1>6, <1>8 DEF Inv

-----------------------------------------------------------------------------
\* What one datagram does to its token's allocation.
LEMMA RouteStep ==
    ASSUME Inv, NEW from \in Sources, NEW tok \in Tokens
    PROVE  LET al == route(allocate(tok, now), from, now)
               m  == Members(tok)
               n  == {al.a, al.b} \ {None}
           IN  /\ al \in Allocation
               /\ al.active = now
               /\ al.a = None => al.b = None
               /\ al.a # None => al.a # al.b
               /\ m \subseteq n
               /\ n = IF Pairing!IsPair(m) THEN m ELSE m \cup {from}
               /\ (IF peerLeg(al, from) = None THEN {}
                   ELSE {[token |-> tok, to |-> peerLeg(al, from)]})
                  = (IF from \in n THEN {[token |-> tok, to |-> e] : e \in n \ {from}}
                     ELSE {})
               /\ peerLeg(al, from) \in Leg
<1> USE RelayNoneAssumption
<1> DEFINE al0 == allocate(tok, now)
           al == route(al0, from, now)
           m == Members(tok)
           n == {al.a, al.b} \ {None}
<1> SUFFICES
        /\ al \in Allocation
        /\ al.active = now
        /\ al.a = None => al.b = None
        /\ al.a # None => al.a # al.b
        /\ m \subseteq n
        /\ n = IF Pairing!IsPair(m) THEN m ELSE m \cup {from}
        /\ (IF peerLeg(al, from) = None THEN {}
            ELSE {[token |-> tok, to |-> peerLeg(al, from)]})
           = (IF from \in n THEN {[token |-> tok, to |-> e] : e \in n \ {from}} ELSE {})
        /\ peerLeg(al, from) \in Leg
  OBVIOUS
<1>1. /\ al0 \in Allocation
      /\ al0.a = None => al0.b = None
      /\ al0.a # None => al0.a # al0.b
      /\ Members(tok) = {al0.a, al0.b} \ {None}
  BY DEF allocate, Inv, RelayTypeOK, AllocOK, Allocation, Leg, Members
<1>2. now \in Nat
  BY DEF Inv, RelayTypeOK
<1> HIDE DEF al0
<1>3. CASE from \in {al0.a, al0.b}
  <2>1. al = [al0 EXCEPT !.active = now]
    BY <1>1, <1>3 DEF route, touch, claim, Allocation
  <2>2. al \in Allocation /\ al.a = al0.a /\ al.b = al0.b /\ al.active = now
    BY <1>1, <1>2, <2>1 DEF Allocation
  <2> HIDE DEF al
  <2>3. n = Members(tok) /\ from \in n
    BY <1>1, <1>3, <2>2
  <2>4. n = IF Pairing!IsPair(Members(tok)) THEN Members(tok) ELSE Members(tok) \cup {from}
    BY <2>3
  <2>5. peerLeg(al, from) \in Leg
    BY <2>2 DEF peerLeg, Allocation, Leg
  <2>6. n \ {from} = IF peerLeg(al, from) = None THEN {} ELSE {peerLeg(al, from)}
    BY <1>1, <1>3, <2>2 DEF peerLeg
  <2>7. QED BY <1>1, <2>2, <2>3, <2>4, <2>5, <2>6
<1>4. CASE from \notin {al0.a, al0.b} /\ al0.a = None
  <2>1. al = [al0 EXCEPT !.active = now, !.a = from]
    BY <1>1, <1>4 DEF route, touch, claim, Allocation
  <2>2. al \in Allocation /\ al.a = from /\ al.b = None /\ al.active = now
    BY <1>1, <1>2, <1>4, <2>1 DEF Allocation, Leg
  <2> HIDE DEF al
  <2>3. Members(tok) = {} /\ n = {from}
    BY <1>1, <1>4, <2>2
  <2>4. ~Pairing!IsPair(Members(tok))
    BY <2>3 DEF Pairing!IsPair
  <2>5. peerLeg(al, from) = None
    BY <2>2 DEF peerLeg
  <2>6. QED BY <2>2, <2>3, <2>4, <2>5 DEF Leg
<1>5. CASE from \notin {al0.a, al0.b} /\ al0.a # None /\ al0.b = None
  <2>1. al = [al0 EXCEPT !.active = now, !.b = from]
    BY <1>1, <1>5 DEF route, touch, claim, Allocation
  <2>2. al \in Allocation /\ al.a = al0.a /\ al.b = from /\ al.active = now
    BY <1>1, <1>2, <1>5, <2>1 DEF Allocation, Leg
  <2> HIDE DEF al
  <2>3. Members(tok) = {al0.a} /\ n = {al0.a, from} /\ al0.a # from
    BY <1>1, <1>5, <2>2
  <2>4. ~Pairing!IsPair(Members(tok))
    BY <2>3 DEF Pairing!IsPair
  <2>5. peerLeg(al, from) = al0.a /\ al0.a \in Leg
    BY <1>1, <2>2, <2>3 DEF peerLeg, Allocation
  <2>6. QED BY <1>5, <2>2, <2>3, <2>4, <2>5
<1>6. CASE from \notin {al0.a, al0.b} /\ al0.a # None /\ al0.b # None
  <2>1. al = [al0 EXCEPT !.active = now]
    BY <1>1, <1>6 DEF route, touch, claim, Allocation
  <2>2. al \in Allocation /\ al.a = al0.a /\ al.b = al0.b /\ al.active = now
    BY <1>1, <1>2, <2>1 DEF Allocation
  <2> HIDE DEF al
  <2>3. Members(tok) = {al0.a, al0.b} /\ n = Members(tok) /\ from \notin n
    BY <1>1, <1>6, <2>2
  <2>4. Pairing!IsPair(Members(tok))
    BY <1>1, <1>6, <2>3 DEF Pairing!IsPair
  <2>5. peerLeg(al, from) = None
    BY <1>6, <2>2 DEF peerLeg
  <2>6. QED BY <1>1, <1>6, <2>2, <2>3, <2>4, <2>5 DEF Leg
<1>7. QED BY <1>3, <1>4, <1>5, <1>6

-----------------------------------------------------------------------------
\* The table a datagram leaves for the sweep.
Routed(from, tok) == [table EXCEPT ![tok] = route(allocate(tok, now), from, now)]

LEMMA DatagramStep ==
    ASSUME Inv, NEW from \in Sources, NEW tok \in Tokens, Datagram(from, tok)
    PROVE  /\ Inv'
           /\ now <= now'
           /\ heard'[tok] = now
           /\ \A k \in Tokens \ {tok} : heard'[k] = heard[k]
           /\ \A k \in Tokens :
                \/ table'[k] = Routed(from, tok)[k]
                \/ /\ table'[k] = None /\ Routed(from, tok)[k] # None
                   /\ now' - heard'[k] > Ttl
<1> USE RelayNoneAssumption, TimingAssumption
<1> DEFINE al == route(allocate(tok, now), from, now)
           tab == Routed(from, tok)
<1>1. /\ al \in Allocation /\ al.active = now
      /\ al.a = None => al.b = None
      /\ al.a # None => al.a # al.b
      /\ peerLeg(al, from) \in Leg
  BY RouteStep
<1>2. /\ forwarded' = IF peerLeg(al, from) = None THEN {}
                 ELSE {[token |-> tok, to |-> peerLeg(al, from)]}
      /\ heard' = [heard EXCEPT ![tok] = now]
      /\ RelaySweep(tab)
  BY DEF Datagram, Routed
<1>3. tab = [table EXCEPT ![tok] = al]
  BY DEF Routed
<1> HIDE DEF al, tab
<1>4. /\ tab \in [Tokens -> Allocation \cup {None}]
      /\ tab[tok] = al
      /\ \A k \in Tokens \ {tok} : tab[k] = table[k]
  BY <1>1, <1>3 DEF Inv, RelayTypeOK
<1>5. /\ heard' \in [Tokens -> Nat]
      /\ heard'[tok] = now
      /\ \A k \in Tokens \ {tok} : heard'[k] = heard[k]
      /\ \A k \in Tokens : heard'[k] <= now
  BY <1>2 DEF Inv, RelayTypeOK
<1>6. forwarded' \subseteq [token : Tokens, to : Sources]
  BY <1>1, <1>2 DEF Leg
<1>7. last_sweep - now <= Ttl
  BY DEF Inv, RelayTypeOK
<1>8. \A k \in Tokens : tab[k] # None =>
        /\ tab[k].a = None => tab[k].b = None
        /\ tab[k].a # None => tab[k].a # tab[k].b
        /\ tab[k].active = heard'[k]
        /\ last_sweep - heard'[k] <= Ttl
  <2> SUFFICES ASSUME NEW k \in Tokens, tab[k] # None
               PROVE  /\ tab[k].a = None => tab[k].b = None
                      /\ tab[k].a # None => tab[k].a # tab[k].b
                      /\ tab[k].active = heard'[k]
                      /\ last_sweep - heard'[k] <= Ttl
    OBVIOUS
  <2>1. CASE k = tok
    BY <1>1, <1>4, <1>5, <1>7, <2>1
  <2>2. CASE k # tok
    BY <1>4, <1>5, <2>2 DEF Inv, AllocOK
  <2>3. QED BY <2>1, <2>2
<1>9. QED BY <1>2, <1>4, <1>5, <1>6, <1>8, SweepStep DEF tab

LEMMA IgnoreStep ==
    ASSUME Inv, RelayIgnore
    PROVE  /\ Inv'
           /\ now <= now'
           /\ heard' = heard
           /\ \A k \in Tokens :
                \/ table'[k] = table[k]
                \/ table'[k] = None /\ table[k] # None /\ now' - heard[k] > Ttl
<1>1. /\ RelaySweep(table) /\ heard' = heard /\ forwarded' = {}
      /\ table \in [Tokens -> Allocation \cup {None}]
      /\ heard' \in [Tokens -> Nat]
      /\ \A tok \in Tokens : heard'[tok] <= now
  BY DEF RelayIgnore, Inv, RelayTypeOK
<1>2. \A tok \in Tokens : table[tok] # None =>
        /\ table[tok].a = None => table[tok].b = None
        /\ table[tok].a # None => table[tok].a # table[tok].b
        /\ table[tok].active = heard'[tok]
        /\ last_sweep - heard'[tok] <= Ttl
  BY <1>1 DEF Inv, AllocOK
<1>3. QED BY <1>1, <1>2, SweepStep

LEMMA NextInv == Inv /\ [RelayNext]_relayVars => Inv'
<1> SUFFICES ASSUME Inv, [RelayNext]_relayVars PROVE Inv'
  OBVIOUS
<1>1. ASSUME NEW from \in Sources, NEW tok \in Tokens, Datagram(from, tok)
      PROVE  Inv'
  BY <1>1, DatagramStep
<1>2. CASE RelayIgnore
  BY <1>2, IgnoreStep
<1>3. CASE RelayTick
  BY <1>3 DEF RelayTick, Inv, RelayTypeOK, AllocOK
<1>4. CASE UNCHANGED relayVars
  BY <1>4 DEF relayVars, Inv, RelayTypeOK, AllocOK
<1>5. QED BY <1>1, <1>2, <1>3, <1>4 DEF RelayNext

LEMMA SpecInv == RelaySpec => []Inv
<1>1. RelayInit => Inv
  BY TimingAssumption DEF RelayInit, Inv, RelayTypeOK, AllocOK
<1>2. QED BY <1>1, NextInv, PTL DEF RelaySpec

-----------------------------------------------------------------------------
\* Every variable keeps its type and no timestamp is ahead of the clock
\* (allocation_table.h:44-60).
THEOREM TypeCorrect == RelaySpec => []RelayTypeOK
BY SpecInv, PTL DEF Inv

\* main.cpp:129-135: sweeping only on traffic leaves, at the end of every
\* iteration, nothing that was idle for the TTL plus a sweep period.
THEOREM StalenessAlwaysBounded == RelaySpec => []IdleBounded
<1>1. Inv => IdleBounded
  BY TimingAssumption DEF Inv, RelayTypeOK, AllocOK, IdleBounded
<1>2. QED BY <1>1, SpecInv, PTL

\* allocation_table.h:77: while its token is heard at least once per TTL, a
\* pair keeps the legs it has, whoever else sends on the token.
THEOREM LivePairsStay == RelaySpec => LivePairStable
<1> DEFINE Step == \A tok \in Tokens :
        now' - heard[tok] <= Ttl => Members(tok) \subseteq Members(tok)'
<1>1. ASSUME Inv, [RelayNext]_relayVars PROVE [Step]_relayVars
  <2> SUFFICES ASSUME NEW k \in Tokens, RelayNext, now' - heard[k] <= Ttl
               PROVE  Members(k) \subseteq Members(k)'
    BY <1>1 DEF relayVars
  <2> USE <1>1
  <2>1. ASSUME NEW from \in Sources, NEW tok \in Tokens, Datagram(from, tok)
        PROVE  Members(k) \subseteq Members(k)'
    <3> USE <2>1, TimingAssumption, RelayNoneAssumption
    <3>1. heard[k] \in Nat /\ heard'[k] \in Nat /\ now \in Nat /\ now' \in Nat
      BY DatagramStep DEF Inv, RelayTypeOK
    <3>2. heard[k] <= heard'[k]
      BY DatagramStep DEF Inv, RelayTypeOK
    <3>3. ~(now' - heard'[k] > Ttl)
      BY <3>1, <3>2
    <3>4. table'[k] = Routed(from, tok)[k]
      BY <3>3, DatagramStep
    <3>5. CASE k # tok
      <4>1. table'[k] = table[k]
        BY <3>4, <3>5 DEF Routed, Inv, RelayTypeOK
      <4>2. QED BY <4>1 DEF Members
    <3>6. CASE k = tok
      <4> DEFINE al == route(allocate(tok, now), from, now)
      <4>1. table'[k] = al
        BY <3>4, <3>6 DEF Routed, Inv, RelayTypeOK
      <4>2. al \in Allocation /\ Members(k) \subseteq {al.a, al.b} \ {None}
        BY <3>6, RouteStep
      <4> HIDE DEF al
      <4>3. al # None
        BY <4>2 DEF Allocation, Leg
      <4>4. QED BY <4>1, <4>2, <4>3 DEF Members
    <3>7. QED BY <3>5, <3>6
  <2>2. CASE RelayIgnore
    <3>1. heard[k] \in Nat /\ now' \in Nat
      BY <2>2, IgnoreStep DEF Inv, RelayTypeOK
    <3>2. ~(now' - heard[k] > Ttl)
      BY <3>1, TimingAssumption
    <3>3. table'[k] = table[k]
      BY <2>2, <3>2, IgnoreStep
    <3>4. QED BY <3>3 DEF Members
  <2>3. CASE RelayTick
    BY <2>3 DEF RelayTick, Members
  <2>4. QED BY <2>1, <2>2, <2>3 DEF RelayNext
<1>2. QED BY <1>1, SpecInv, PTL DEF RelaySpec, LivePairStable

\* allocation_table.h:50-51, 67-73: the two-leg table with lazy expiry
\* implements the pairing the relay promises.
THEOREM RelayImplementsPairing == RelaySpec => ImplementsPairing
<1> DEFINE M == [tok \in Tokens |-> Members(tok)]
<1>1. RelayInit => Pairing!Init
  BY DEF RelayInit, Pairing!Init, Members
<1>2. ASSUME Inv, [RelayNext]_relayVars PROVE [Pairing!Next]_<<M, forwarded>>
  <2> USE <1>2, RelayNoneAssumption
  <2>1. ASSUME NEW from \in Sources, NEW tok \in Tokens, Datagram(from, tok)
        PROVE  Pairing!Datagram(from, tok)
    <3> USE <2>1
    <3> DEFINE al == route(allocate(tok, now), from, now)
               n == {al.a, al.b} \ {None}
               m == IF Pairing!IsPair(M[tok]) THEN M[tok] ELSE M[tok] \cup {from}
               gone == {k \in Tokens : table'[k] = None}
    <3>1. n = m /\ al \in Allocation
      BY RouteStep
    <3>2. forwarded' = IF from \in m THEN {[token |-> tok, to |-> e] : e \in m \ {from}} ELSE {}
      <4>1. forwarded' = IF peerLeg(al, from) = None THEN {}
                    ELSE {[token |-> tok, to |-> peerLeg(al, from)]}
        BY DEF Datagram
      <4>2. (IF peerLeg(al, from) = None THEN {}
             ELSE {[token |-> tok, to |-> peerLeg(al, from)]})
            = (IF from \in n THEN {[token |-> tok, to |-> e] : e \in n \ {from}} ELSE {})
        BY RouteStep
      <4>3. QED BY <3>1, <4>1, <4>2
    <3>3. al # None
      BY <3>1 DEF Allocation, Leg
    <3> HIDE DEF al, m
    <3>4. \A k \in Tokens : Members(k)' =
            IF k \in gone THEN {} ELSE IF k = tok THEN m ELSE M[k]
      <4> SUFFICES ASSUME NEW k \in Tokens
                   PROVE  Members(k)' =
                            IF k \in gone THEN {} ELSE IF k = tok THEN m ELSE M[k]
        OBVIOUS
      <4>1. CASE table'[k] = None
        BY <4>1 DEF Members
      <4>2. CASE table'[k] # None
        <5>1. table'[k] = Routed(from, tok)[k]
          BY <4>2, DatagramStep
        <5>2. CASE k = tok
          <6>1. table'[k] = al
            BY <5>1, <5>2 DEF Routed, Inv, RelayTypeOK, al
          <6>2. QED BY <3>1, <3>3, <4>2, <5>2, <6>1 DEF Members
        <5>3. CASE k # tok
          <6>1. table'[k] = table[k]
            BY <5>1, <5>3 DEF Routed, Inv, RelayTypeOK
          <6>2. QED BY <4>2, <5>3, <6>1 DEF Members
        <5>4. QED BY <5>2, <5>3
      <4>3. QED BY <4>1, <4>2
    <3>5. gone \in SUBSET Tokens
      OBVIOUS
    <3> HIDE DEF gone
    <3>6. M' = [k \in Tokens |-> IF k \in gone THEN {} ELSE IF k = tok THEN m ELSE M[k]]
      BY <3>4
    <3>7. QED BY <3>2, <3>5, <3>6 DEF Pairing!Datagram, m
  <2>2. CASE RelayIgnore
    <3> DEFINE gone == {k \in Tokens : table'[k] = None}
    <3>1. \A k \in Tokens : Members(k)' = IF k \in gone THEN {} ELSE M[k]
      BY <2>2, IgnoreStep DEF Members
    <3>2. M' = [k \in Tokens |-> IF k \in gone THEN {} ELSE M[k]]
      BY <3>1
    <3>3. forwarded' = {}
      BY <2>2 DEF RelayIgnore
    <3>4. QED BY <3>2, <3>3 DEF Pairing!Next, Pairing!Forget
  <2>3. CASE RelayTick
    <3>1. M' = [k \in Tokens |-> IF k \in {} THEN {} ELSE M[k]] /\ forwarded' = {}
      BY <2>3 DEF RelayTick, Members
    <3>2. QED BY <3>1 DEF Pairing!Next, Pairing!Forget
  <2>4. CASE UNCHANGED relayVars
    BY <2>4 DEF relayVars, Members
  <2>5. QED BY <2>1, <2>2, <2>3, <2>4 DEF RelayNext, Pairing!Next
<1>3. QED
  BY <1>1, <1>2, SpecInv, PTL DEF RelaySpec, ImplementsPairing, Pairing!Spec

=============================================================================
