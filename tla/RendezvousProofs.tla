--------------------------- MODULE RendezvousProofs ---------------------------
(***************************************************************************)
(* Proofs about Rendezvous, for every set of ids, keys and endpoints and   *)
(* for every TTL, sweep period and squat-guard window with Ttl < Guard     *)
(* (the code has 60, 15 and 90 seconds).                                   *)
(***************************************************************************)
EXTENDS Rendezvous, TLAPS

\* registry_store.cpp:17-41: what the registry holds for an id is the latest
\* REGISTER or keepalive accepted for it.
RegistryIsLatest ==
    \A id \in Ids : Bound(registry, id) => registry[id] = holder[id]

\* Strengthenings: the last sweep left nothing older than the TTL, and an id
\* that lost its binding lost it to a sweep, after more than a TTL of silence.
SweptInv ==
    /\ \A id \in Ids : Bound(registry, id) => last_sweep - registry[id].seen <= Ttl
    /\ \A t \in Token : sessions[t] # None => last_sweep - sessions[t] <= Ttl

GoneInv ==
    \A id \in Ids :
        holder[id] # None /\ ~Bound(registry, id) => now - holder[id].seen > Ttl

\* The types that the timing argument rests on.
TimesOK ==
    /\ now \in Nat \ {0}
    /\ registry \in [Ids -> PeerRecord \cup {None}]
    /\ sessions \in [Token -> Nat \cup {None}]
    /\ last_sweep \in Nat /\ last_sweep <= now
    /\ handled \in Nat /\ handled <= now
    /\ holder \in [Ids -> PeerRecord \cup {None}]
    /\ \A id \in Ids : Bound(registry, id) => registry[id].seen <= now
    /\ \A t \in Token : sessions[t] # None => sessions[t] <= now

Inv ==
    /\ TimesOK
    /\ RegistryIsLatest
    /\ handled - last_sweep < SweepPeriod
    /\ SweptInv
    /\ GoneInv

-----------------------------------------------------------------------------
\* A registry and a broker table as a handler may leave them for the sweep:
\* well typed, nothing in the future, everything either as before or fresh.
HandlerResult(reg, ses) ==
    /\ reg \in [Ids -> PeerRecord \cup {None}]
    /\ ses \in [Token -> Nat \cup {None}]
    /\ \A id \in Ids : Bound(reg, id) => reg[id] = registry[id] \/ reg[id].seen = now
    /\ \A t \in Token : ses[t] # None => ses[t] = sessions[t] \/ ses[t] = now

\* The end of an iteration re-establishes the timing invariant, whatever a
\* handler did, and leaves a binding alone unless it is older than the TTL.
LEMMA SweepStep ==
    ASSUME Inv, NEW reg, NEW ses, HandlerResult(reg, ses), Sweep(reg, ses)
    PROVE  /\ now' \in Nat \ {0} /\ now <= now'
           /\ registry' \in [Ids -> PeerRecord \cup {None}]
           /\ sessions' \in [Token -> Nat \cup {None}]
           /\ last_sweep' \in Nat /\ last_sweep' <= now'
           /\ handled' \in Nat /\ handled' <= now'
           /\ handled' - last_sweep' < SweepPeriod
           /\ \A id \in Ids : Bound(registry, id)' =>
                /\ registry'[id] = reg[id]
                /\ registry'[id].seen <= now'
                /\ last_sweep' - registry'[id].seen <= Ttl
           /\ \A id \in Ids : Bound(reg, id) /\ ~Bound(registry, id)'
                => now' - reg[id].seen > Ttl
           /\ \A t \in Token : sessions'[t] # None =>
                sessions'[t] <= now' /\ last_sweep' - sessions'[t] <= Ttl
<1> USE TimingAssumption, NoneAssumption
<1>1. /\ \A id \in Ids : Bound(reg, id) =>
            reg[id].seen \in Nat /\ reg[id].seen <= now
      /\ \A t \in Token : ses[t] # None => ses[t] \in Nat /\ ses[t] <= now
  BY DEF HandlerResult, Inv, TimesOK, Bound, PeerRecord
<1>t. PICK t \in {now, now + 1} :
        /\ now' = t /\ handled' = t
        /\ last_sweep' = IF SweepDue(t) THEN t ELSE last_sweep
        /\ registry' = IF SweepDue(t) THEN expire(reg, t) ELSE reg
        /\ sessions' = IF SweepDue(t)
                       THEN [k \in Token |->
                                IF ses[k] # None /\ t - ses[k] > Ttl THEN None ELSE ses[k]]
                       ELSE ses
  BY DEF Sweep, NextSweep
<1>u. t \in Nat \ {0} /\ now <= t /\ now \in Nat
  BY <1>t DEF Inv, TimesOK
<1>2. CASE SweepDue(t)
  <2>1. /\ registry' = expire(reg, t)
        /\ sessions' = [k \in Token |->
                          IF ses[k] # None /\ t - ses[k] > Ttl THEN None ELSE ses[k]]
        /\ last_sweep' = t /\ handled' = t /\ now' = t
    BY <1>2, <1>t
  <2>2. QED
    BY <1>1, <1>u, <2>1 DEF expire, Bound, HandlerResult, Inv, TimesOK
<1>3. CASE ~SweepDue(t)
  <2>1. /\ registry' = reg /\ sessions' = ses
        /\ last_sweep' = last_sweep /\ handled' = t /\ now' = t
    BY <1>3, <1>t
  <2>2. t - last_sweep < SweepPeriod
    BY <1>3, <1>u DEF SweepDue, Inv, TimesOK
  <2>3. \A id \in Ids : Bound(reg, id) => last_sweep - reg[id].seen <= Ttl
    BY <1>1 DEF HandlerResult, Inv, TimesOK, SweptInv, Bound
  <2>4. \A k \in Token : ses[k] # None => last_sweep - ses[k] <= Ttl
    BY <1>1 DEF HandlerResult, Inv, TimesOK, SweptInv
  <2>5. QED
    BY <1>1, <1>u, <2>1, <2>2, <2>3, <2>4 DEF Bound, HandlerResult, Inv, TimesOK
<1>4. QED BY <1>2, <1>3

\* When a handler leaves registry and holder in step, so does the iteration.
LEMMA IterationInv ==
    ASSUME Inv, NEW reg, NEW ses, HandlerResult(reg, ses), Sweep(reg, ses),
           holder' \in [Ids -> PeerRecord \cup {None}],
           \A id \in Ids : Bound(reg, id) => reg[id] = holder'[id],
           \A id \in Ids : holder'[id] # None /\ ~Bound(reg, id)
                => holder'[id] = holder[id] /\ ~Bound(registry, id)
    PROVE  Inv'
<1> USE SweepStep
<1>1. TimesOK'
  BY DEF TimesOK, Inv
<1>2. RegistryIsLatest'
  BY DEF RegistryIsLatest, Bound
<1>3. SweptInv'
  BY DEF SweptInv
<1>4. GoneInv'
  <2> SUFFICES ASSUME NEW id \in Ids, holder'[id] # None, ~Bound(registry, id)'
               PROVE  now' - holder'[id].seen > Ttl
    BY DEF GoneInv, Bound
  <2>1. CASE Bound(reg, id)
    BY <2>1
  <2>2. CASE ~Bound(reg, id)
    <3>1. holder[id] \in PeerRecord /\ holder'[id] = holder[id]
      BY <2>2 DEF Inv, TimesOK
    <3>2. now - holder[id].seen > Ttl
      BY <2>2, <3>1 DEF Inv, GoneInv
    <3>3. QED
      BY <3>1, <3>2, TimingAssumption DEF PeerRecord, Inv, TimesOK
  <2>3. QED BY <2>1, <2>2
<1>5. QED BY <1>1, <1>2, <1>3, <1>4 DEF Inv

-----------------------------------------------------------------------------
LEMMA InitInv == Init => Inv
<1> USE TimingAssumption, NoneAssumption
<1>1. QED
  BY DEF Init, Inv, TimesOK, RegistryIsLatest, SweptInv, GoneInv, Bound

\* What a handler that leaves the registry alone owes the sweep.
LEMMA UntouchedResult ==
    ASSUME Inv, NEW ses, ses \in [Token -> Nat \cup {None}],
           \A t \in Token : ses[t] # None => ses[t] = sessions[t] \/ ses[t] = now,
           Sweep(registry, ses), holder' = holder
    PROVE  Inv'
<1>1. HandlerResult(registry, ses)
  BY DEF HandlerResult, Inv, TimesOK
<1>2. holder' \in [Ids -> PeerRecord \cup {None}]
  BY DEF Inv, TimesOK
<1>3. \A id \in Ids : Bound(registry, id) => registry[id] = holder'[id]
  BY DEF Inv, RegistryIsLatest
<1>4. \A id \in Ids : holder'[id] # None /\ ~Bound(registry, id)
        => holder'[id] = holder[id] /\ ~Bound(registry, id)
  OBVIOUS
<1>5. QED BY <1>1, <1>2, <1>3, <1>4, IterationInv

\* What a handler that binds one id to a fresh record owes the sweep.
LEMMA BoundResult ==
    ASSUME Inv, NEW id \in Ids, NEW rec \in PeerRecord, rec.seen = now,
           Sweep([registry EXCEPT ![id] = rec], sessions),
           holder' = [holder EXCEPT ![id] = rec]
    PROVE  Inv'
<1> DEFINE reg == [registry EXCEPT ![id] = rec]
<1>1. HandlerResult(reg, sessions)
  BY DEF HandlerResult, Inv, TimesOK, Bound
<1>2. holder' \in [Ids -> PeerRecord \cup {None}]
  BY DEF Inv, TimesOK
<1>3. \A i \in Ids : Bound(reg, i) => reg[i] = holder'[i]
  BY DEF Inv, TimesOK, RegistryIsLatest, Bound
<1>4. \A i \in Ids : holder'[i] # None /\ ~Bound(reg, i)
        => holder'[i] = holder[i] /\ ~Bound(registry, i)
  <2>1. rec # None
    BY NoneAssumption DEF PeerRecord
  <2>2. QED BY <2>1 DEF Inv, TimesOK, Bound
<1> HIDE DEF reg
<1>5. Sweep(reg, sessions)
  BY DEF reg
<1>6. QED BY <1>1, <1>2, <1>3, <1>4, <1>5, IterationInv

\* The record a keepalive writes.
LEMMA KeepaliveRecord ==
    ASSUME Inv, NEW from \in Endpoints, NEW id \in Ids, Bound(registry, id)
    PROVE  LET rec == [registry[id] EXCEPT !.endpoint = from, !.seen = now]
           IN  /\ rec \in PeerRecord
               /\ rec.seen = now
               /\ rec.key = registry[id].key
               /\ ~Refused(registry, id, rec)
<1>1. registry[id] \in PeerRecord /\ now \in Nat
  BY DEF Bound, Inv, TimesOK
<1>2. QED BY <1>1 DEF PeerRecord, Refused

LEMMA NextInv == Inv /\ [Next]_vars => Inv'
<1> SUFFICES ASSUME Inv, [Next]_vars PROVE Inv'
  OBVIOUS
<1>t. /\ sessions \in [Token -> Nat \cup {None}]
      /\ \A t \in Token : sessions[t] # None => sessions[t] = sessions[t] \/ sessions[t] = now
  BY DEF Inv, TimesOK
<1>1. ASSUME NEW from \in Endpoints, NEW id \in Ids, NEW key \in Keys,
             handle_register(from, id, key)
      PROVE  Inv'
  <2> DEFINE rec == [endpoint |-> from, key |-> key, seen |-> now]
  <2>1. rec \in PeerRecord /\ rec.seen = now
    BY DEF PeerRecord, Inv, TimesOK
  <2>2. CASE Refused(registry, id, rec)
    BY <1>1, <1>t, <2>2, UntouchedResult DEF handle_register, upsert
  <2>3. CASE ~Refused(registry, id, rec)
    BY <1>1, <2>1, <2>3, BoundResult DEF handle_register, upsert
  <2>4. QED BY <2>2, <2>3
<1>2. ASSUME NEW from \in Endpoints, NEW id \in Ids, Keepalive(from, id)
      PROVE  Inv'
  <2>1. CASE ~Bound(registry, id)
    BY <1>2, <1>t, <2>1, UntouchedResult DEF Keepalive
  <2>2. CASE Bound(registry, id)
    BY <1>2, <2>2, KeepaliveRecord, BoundResult DEF Keepalive, upsert
  <2>3. QED BY <2>1, <2>2
<1>3. ASSUME NEW from \in Endpoints, NEW id \in Ids, handle_lookup(from, id)
      PROVE  Inv'
  BY <1>3, <1>t, UntouchedResult DEF handle_lookup
<1>4. ASSUME NEW from \in Endpoints, NEW id \in Ids, handle_broker(from, id)
      PROVE  Inv'
  <2>1. CASE lookup(registry, id) = None
    BY <1>4, <1>t, <2>1, UntouchedResult DEF handle_broker
  <2>2. CASE lookup(registry, id) # None
    <3> DEFINE tok == <<from, lookup(registry, id).endpoint>>
               ses == [sessions EXCEPT ![tok] = IF @ = None THEN now ELSE @]
    <3>1. Sweep(registry, ses) /\ holder' = holder
      BY <1>4, <2>2 DEF handle_broker
    <3>2. ses \in [Token -> Nat \cup {None}]
      BY DEF Inv, TimesOK
    <3>3. \A t \in Token : ses[t] # None => ses[t] = sessions[t] \/ ses[t] = now
      BY DEF Inv, TimesOK
    <3> HIDE DEF ses
    <3>4. QED BY <3>1, <3>2, <3>3, UntouchedResult
  <2>3. QED BY <2>1, <2>2
<1>5. CASE Ignore
  BY <1>5, <1>t, UntouchedResult DEF Ignore
<1>6. CASE Tick
  <2>1. TimesOK'
    BY <1>6 DEF Tick, Inv, TimesOK, Bound, PeerRecord
  <2>2. RegistryIsLatest' /\ SweptInv' /\ handled' - last_sweep' < SweepPeriod
    BY <1>6 DEF Tick, Inv, RegistryIsLatest, SweptInv, Bound
  <2>3. GoneInv'
    BY <1>6, TimingAssumption DEF Tick, Inv, GoneInv, Bound, TimesOK, PeerRecord
  <2>4. QED BY <2>1, <2>2, <2>3 DEF Inv
<1>7. CASE UNCHANGED vars
  BY <1>7 DEF vars, Inv, TimesOK, RegistryIsLatest, SweptInv, GoneInv, Bound
<1>8. QED BY <1>1, <1>2, <1>3, <1>4, <1>5, <1>6, <1>7 DEF Next

LEMMA SpecInv == Spec => []Inv
BY InitInv, NextInv, PTL DEF Spec

-----------------------------------------------------------------------------
\* main.cpp:249-260 for every TTL and sweep period: when an iteration of the
\* loop ends no binding and no broker session is older than TTL plus period.
THEOREM StalenessAlwaysBounded == Spec => []StalenessBounded
<1>1. Inv => StalenessBounded
  BY TimingAssumption DEF Inv, TimesOK, SweptInv, StalenessBounded, Bound, PeerRecord
<1>2. QED BY <1>1, SpecInv, PTL

\* For every TTL and sweep period: an answer to a LOOKUP or a BROKER request
\* never rests on a binding that was older than TTL plus sweep period when the
\* server last went idle.
THEOREM AnswersAlwaysFresh == Spec => AnswersFresh
<1> DEFINE Step == (sent' # None /\ sent'.type \in {"LookupOk", "BrokerCandidates"})
                    => handled - sent'.seen < Ttl + SweepPeriod
<1>1. ASSUME StalenessBounded, [Next]_vars PROVE [Step]_vars
  <2> USE <1>1
  <2>1. ASSUME NEW from \in Endpoints, NEW id \in Ids, NEW key \in Keys,
               handle_register(from, id, key)
        PROVE  Step
    BY <2>1 DEF handle_register, Send
  <2>2. ASSUME NEW from \in Endpoints, NEW id \in Ids,
               handle_lookup(from, id) \/ handle_broker(from, id)
        PROVE  Step
    <3>1. CASE lookup(registry, id) = None
      BY <2>2, <3>1 DEF handle_lookup, handle_broker, Send
    <3>2. CASE lookup(registry, id) # None
      <4>1. handled - registry[id].seen < Ttl + SweepPeriod
        BY <3>2 DEF StalenessBounded, Bound, lookup
      <4>2. sent'.seen = registry[id].seen
        BY <2>2, <3>2 DEF handle_lookup, handle_broker, Send, lookup
      <4>3. QED BY <4>1, <4>2
    <3>3. QED BY <3>1, <3>2
  <2>3. ASSUME sent' = None PROVE Step
    BY <2>3
  <2>4. QED
    BY <2>1, <2>2, <2>3 DEF Next, Keepalive, Ignore, Tick
<1>2. QED BY <1>1, StalenessAlwaysBounded, PTL DEF Spec, AnswersFresh

\* registry_store.h:43-46: because the guard window is longer than the TTL, an
\* id never changes hands while its holder has been heard within the TTL,
\* neither by an overwrite nor by a registration after a sweep.
THEOREM NoTakeover == Spec => NoTakeoverOfLiveId
<1> DEFINE Step == \A id \in Ids :
        (holder[id] # None /\ holder'[id] # None /\ holder'[id].key # holder[id].key)
            => now - holder[id].seen > Ttl
<1>1. ASSUME Inv, [Next]_vars PROVE [Step]_vars
  <2> SUFFICES ASSUME NEW i \in Ids, Next, holder[i] # None, holder'[i] # None,
                      holder'[i].key # holder[i].key
               PROVE  now - holder[i].seen > Ttl
    BY <1>1 DEF vars
  <2> USE <1>1
  <2>1. ASSUME NEW from \in Endpoints, NEW id \in Ids, NEW key \in Keys,
               handle_register(from, id, key)
        PROVE  now - holder[i].seen > Ttl
    <3> DEFINE rec == [endpoint |-> from, key |-> key, seen |-> now]
    <3>1. ~Refused(registry, id, rec) /\ holder' = [holder EXCEPT ![id] = rec]
      BY <2>1 DEF handle_register
    <3>2. i = id /\ holder'[i] = rec
      BY <3>1 DEF Inv, TimesOK
    <3>3. CASE Bound(registry, id)
      <4>1. registry[id] = holder[id] /\ registry[id] \in PeerRecord
        BY <3>3 DEF Inv, RegistryIsLatest, TimesOK, Bound
      <4>2. ~(now - registry[id].seen < Guard)
        BY <3>1, <3>2, <3>3, <4>1 DEF Refused
      <4>3. QED
        BY <3>2, <4>1, <4>2, TimingAssumption, GuardAssumption DEF PeerRecord, Inv, TimesOK
    <3>4. CASE ~Bound(registry, id)
      BY <3>2, <3>4 DEF Inv, GoneInv
    <3>5. QED BY <3>3, <3>4
  <2>2. ASSUME NEW from \in Endpoints, NEW id \in Ids, Keepalive(from, id)
        PROVE  FALSE
    <3> DEFINE rec == [registry[id] EXCEPT !.endpoint = from, !.seen = now]
    <3>1. Bound(registry, id) /\ holder' = [holder EXCEPT ![id] = rec]
      BY <2>2 DEF Keepalive
    <3>2. i = id /\ holder'[i] = rec
      BY <3>1 DEF Inv, TimesOK
    <3>3. rec.key = registry[id].key
      BY <3>1, KeepaliveRecord
    <3>4. registry[id] = holder[id]
      BY <3>1 DEF Inv, RegistryIsLatest
    <3>5. QED BY <3>2, <3>3, <3>4
  <2>3. ASSUME holder' = holder PROVE FALSE
    BY <2>3
  <2>4. QED
    BY <2>1, <2>2, <2>3 DEF Next, handle_lookup, handle_broker, Ignore, Tick
<1>2. QED BY <1>1, SpecInv, PTL DEF Spec, NoTakeoverOfLiveId

\* signer.cpp:49-70, main.cpp:91-173: every answer the server sends attests
\* the key its id was last bound to, and relayed candidates go to the
\* endpoint the target was last seen at.
THEOREM AttestsOnlyHolder == Spec => []AttestsHolder
<1>1. Init => AttestsHolder
  BY DEF Init, AttestsHolder
<1>2. Inv /\ AttestsHolder /\ [Next]_vars => AttestsHolder'
  <2> SUFFICES ASSUME Inv, AttestsHolder, [Next]_vars PROVE AttestsHolder'
    OBVIOUS
  <2>1. ASSUME NEW from \in Endpoints, NEW id \in Ids, NEW key \in Keys,
               handle_register(from, id, key)
        PROVE  AttestsHolder'
    <3> DEFINE rec == [endpoint |-> from, key |-> key, seen |-> now]
    <3>1. CASE Refused(registry, id, rec)
      BY <2>1, <3>1 DEF handle_register, AttestsHolder
    <3>2. CASE ~Refused(registry, id, rec)
      <4>1. holder' = [holder EXCEPT ![id] = rec]
        BY <2>1, <3>2 DEF handle_register
      <4>2. Send(from, "RegisterOk", id, key, sign_peer_key(id, key), now)
        BY <2>1, <3>2 DEF handle_register
      <4>3. holder'[id].key = key
        BY <4>1 DEF Inv, TimesOK
      <4>4. QED BY <4>2, <4>3 DEF Send, sign_peer_key, AttestsHolder
    <3>3. QED BY <3>1, <3>2
  <2>2. ASSUME NEW from \in Endpoints, NEW id \in Ids, Keepalive(from, id)
        PROVE  AttestsHolder'
    BY <2>2 DEF Keepalive, AttestsHolder
  <2>3. ASSUME NEW from \in Endpoints, NEW id \in Ids, handle_lookup(from, id)
        PROVE  AttestsHolder'
    <3>1. CASE lookup(registry, id) = None
      BY <2>3, <3>1 DEF handle_lookup, AttestsHolder, Send
    <3>2. CASE lookup(registry, id) # None
      <4>1. holder' = holder /\ registry[id] = holder[id]
        BY <2>3, <3>2 DEF handle_lookup, lookup, Inv, RegistryIsLatest, Bound
      <4>2. Send(from, "LookupOk", id, registry[id].key,
                 sign_peer_key(id, registry[id].key), registry[id].seen)
        BY <2>3, <3>2 DEF handle_lookup, lookup
      <4>3. QED BY <4>1, <4>2 DEF Send, sign_peer_key, AttestsHolder
    <3>3. QED BY <3>1, <3>2
  <2>4. ASSUME NEW from \in Endpoints, NEW id \in Ids, handle_broker(from, id)
        PROVE  AttestsHolder'
    <3>1. CASE lookup(registry, id) = None
      BY <2>4, <3>1 DEF handle_broker, AttestsHolder, Send
    <3>2. CASE lookup(registry, id) # None
      <4>1. holder' = holder /\ registry[id] = holder[id]
        BY <2>4, <3>2 DEF handle_broker, lookup, Inv, RegistryIsLatest, Bound
      <4>2. Send(registry[id].endpoint, "BrokerCandidates", id, None, None,
                 registry[id].seen)
        BY <2>4, <3>2 DEF handle_broker, lookup
      <4>3. QED BY <4>1, <4>2 DEF Send, AttestsHolder
    <3>3. QED BY <3>1, <3>2
  <2>5. CASE Ignore \/ Tick
    BY <2>5 DEF Ignore, Tick, AttestsHolder
  <2>6. CASE UNCHANGED vars
    BY <2>6 DEF vars, AttestsHolder
  <2>7. QED BY <2>1, <2>2, <2>3, <2>4, <2>5, <2>6 DEF Next
<1>3. QED BY <1>1, <1>2, SpecInv, PTL DEF Spec

\* The state is well typed, no timestamp is ahead of the clock, and every
\* frame the loop sends is one of the frames of protocol.h:68-99.
THEOREM TypeCorrect == Spec => []TypeOK
<1> DEFINE SentOK == sent \in Frame \cup {None}
<1>1. Init => SentOK
  BY DEF Init
<1>2. Inv /\ SentOK /\ [Next]_vars => SentOK'
  <2> SUFFICES ASSUME Inv, SentOK, [Next]_vars PROVE SentOK'
    OBVIOUS
  <2>0. /\ now \in Nat
        /\ \A id \in Ids : lookup(registry, id) # None => lookup(registry, id) \in PeerRecord
    BY DEF Inv, TimesOK, lookup
  <2>1. ASSUME NEW to \in Endpoints, NEW type \in MessageType, NEW id \in Ids,
               NEW key \in Keys \cup {None}, NEW sig \in (Ids \X Keys) \cup {None},
               NEW seen \in Nat \cup {None}, Send(to, type, id, key, sig, seen)
        PROVE  SentOK'
    BY <2>1 DEF Send, Frame
  <2>2. ASSUME NEW from \in Endpoints, NEW id \in Ids, NEW key \in Keys,
               handle_register(from, id, key)
        PROVE  SentOK'
    BY <2>0, <2>1, <2>2 DEF handle_register, sign_peer_key, MessageType
  <2>3. ASSUME NEW from \in Endpoints, NEW id \in Ids, handle_lookup(from, id)
        PROVE  SentOK'
    BY <2>0, <2>1, <2>3 DEF handle_lookup, sign_peer_key, MessageType, PeerRecord
  <2>4. ASSUME NEW from \in Endpoints, NEW id \in Ids, handle_broker(from, id)
        PROVE  SentOK'
    BY <2>0, <2>1, <2>4 DEF handle_broker, MessageType, PeerRecord
  <2>5. QED
    BY <2>2, <2>3, <2>4 DEF Next, Keepalive, Ignore, Tick, vars
<1>3. Inv /\ SentOK => TypeOK
  BY DEF Inv, TimesOK, TypeOK
<1>4. QED BY <1>1, <1>2, <1>3, SpecInv, PTL DEF Spec

=============================================================================
