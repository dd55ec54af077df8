------------------------------ MODULE Rendezvous ------------------------------
(***************************************************************************)
(* The rendezvous server (server/rendezvous): a registry of REDesk-ID ->   *)
(* {endpoint, static key, last seen} with a squat guard, LOOKUP answers    *)
(* signed by the server, relaying of ICE candidates, and TTL expiry.       *)
(*                                                                         *)
(* The server is one loop: it blocks in recv_from, dispatches one          *)
(* datagram, and only then looks whether a sweep is due.  One iteration is *)
(* one action; the handler and the sweep each read the clock, so a second  *)
(* may turn between them.  Datagrams come from anyone, in any order, any   *)
(* number of times: loss, duplication and reordering are covered.          *)
(***************************************************************************)
EXTENDS ServerLoop

CONSTANTS
    Ids,          \* REDesk-IDs
    Keys,         \* X25519 static public keys
    Endpoints,    \* observed packet sources
    Guard         \* kSquatGuardWindowS

ASSUME GuardAssumption == Guard \in Nat /\ Ttl < Guard
ASSUME NoneAssumption ==
    /\ None \notin Keys \cup Endpoints \cup Ids \cup Nat
    /\ None \notin [endpoint : Endpoints, key : Keys, seen : Nat]

VARIABLES
    registry,    \* InMemoryRegistry::map_
    sessions,    \* broker sessions: token -> created_unix_s, None when absent
    sent,        \* the frame the latest iteration sent, None when it sent none
    holder       \* history: id -> the latest binding of it, swept or not

vars == <<now, registry, sessions, last_sweep, sent, handled, holder>>

PeerRecord == [endpoint : Endpoints, key : Keys, seen : Nat]
\* A broker token is the two endpoints' text joined by "|".
Token == Endpoints \X Endpoints
MessageType == {"RegisterOk", "LookupOk", "LookupFail", "BrokerCandidates"}
Frame == [to : Endpoints, type : MessageType, id : Ids,
          key : Keys \cup {None}, sig : (Ids \X Keys) \cup {None},
          seen : Nat \cup {None}]

Bound(reg, id) == reg[id] # None

-----------------------------------------------------------------------------
(* The registry store *)

\* A slip in the guard: any REGISTER may change the key.
RefusedNever(reg, id, rec) == FALSE

\* A live id cannot be taken over with a different key.
Refused(reg, id, rec) ==
    /\ Bound(reg, id)
    /\ rec.seen - reg[id].seen < Guard
    /\ reg[id].key # rec.key

upsert(reg, id, rec) ==
    IF Refused(reg, id, rec) THEN reg ELSE [reg EXCEPT ![id] = rec]

\* A slip: a cache in front of the map that the sweep does not purge.
lookupCached(reg, id) == holder[id]

\* No expiry test: what the map holds is returned.
lookup(reg, id) == reg[id]

\* Slip: a binding is dropped only after two TTLs.
expireLate(reg, t) ==
    [id \in Ids |-> IF Bound(reg, id) /\ t - reg[id].seen > 2 * Ttl THEN None ELSE reg[id]]

expire(reg, t) ==
    [id \in Ids |-> IF Bound(reg, id) /\ t - reg[id].seen > Ttl THEN None ELSE reg[id]]

\* The signature covers the id and the key.
sign_peer_key(id, key) == <<id, key>>

-----------------------------------------------------------------------------
(* The loop *)

\* The rest of the iteration after the handler left reg and ses: the clock is
\* read once more, and the sweep runs when one is due.
Sweep(reg, ses) ==
    \E t \in {now, now + 1} :
        /\ t <= MaxTime
        /\ now' = t
        /\ handled' = t
        /\ last_sweep' = NextSweep(t)
        /\ registry' = IF SweepDue(t) THEN expire(reg, t) ELSE reg
        /\ sessions' = IF SweepDue(t)
                       THEN [k \in Token |->
                                IF ses[k] # None /\ t - ses[k] > Ttl THEN None ELSE ses[k]]
                       ELSE ses

Send(to, type, id, key, sig, seen) ==
    sent' = [to |-> to, type |-> type, id |-> id, key |-> key, sig |-> sig, seen |-> seen]

\* A slip: the status of upsert is not looked at before the key is attested.
handle_registerUnchecked(from, id, key) ==
    LET rec == [endpoint |-> from, key |-> key, seen |-> now]
    IN  /\ Sweep(upsert(registry, id, rec), sessions)
        /\ Send(from, "RegisterOk", id, key, sign_peer_key(id, key), now)
        /\ holder' = IF Refused(registry, id, rec) THEN holder
                     ELSE [holder EXCEPT ![id] = rec]

\* The endpoint is the observed source; a refused REGISTER gets no answer.
handle_register(from, id, key) ==
    LET rec == [endpoint |-> from, key |-> key, seen |-> now]
    IN  /\ Sweep(upsert(registry, id, rec), sessions)
        /\ \/ /\ Refused(registry, id, rec)
              /\ sent' = None
              /\ UNCHANGED holder
           \/ /\ ~Refused(registry, id, rec)
              /\ Send(from, "RegisterOk", id, key, sign_peer_key(id, key), now)
              /\ holder' = [holder EXCEPT ![id] = rec]

\* The binding follows the observed source, whoever sent the datagram.
Keepalive(from, id) ==
    LET rec == [registry[id] EXCEPT !.endpoint = from, !.seen = now]
    IN  /\ sent' = None
        /\ \/ /\ ~Bound(registry, id)
              /\ Sweep(registry, sessions)
              /\ UNCHANGED holder
           \/ /\ Bound(registry, id)
              /\ Sweep(upsert(registry, id, rec), sessions)
              /\ holder' = [holder EXCEPT ![id] = rec]

\* The answer carries the key and its signature; the endpoint is not sent.
handle_lookup(from, id) ==
    LET rec == lookup(registry, id)
    IN  /\ Sweep(registry, sessions)
        /\ UNCHANGED holder
        /\ \/ rec = None /\ Send(from, "LookupFail", id, None, None, None)
           \/ /\ rec # None
              /\ Send(from, "LookupOk", id, rec.key, sign_peer_key(id, rec.key), rec.seen)

\* The blob goes to the target's endpoint as the registry knows it; the
\* session is recorded the first time the token is seen.
handle_broker(from, id) ==
    LET rec == lookup(registry, id)
    IN  /\ UNCHANGED holder
        /\ \/ /\ rec = None
              /\ Sweep(registry, sessions)
              /\ Send(from, "LookupFail", id, None, None, None)
           \/ /\ rec # None
              /\ Sweep(registry, [sessions EXCEPT ![<<from, rec.endpoint>>] =
                                    IF @ = None THEN now ELSE @])
              /\ Send(rec.endpoint, "BrokerCandidates", id, None, None, rec.seen)

\* A receive error, a frame that does not decode, an unknown or server-origin
\* type, a REGISTER with an empty id or a short key: nothing changes or is sent.
Ignore ==
    /\ Sweep(registry, sessions)
    /\ sent' = None
    /\ UNCHANGED holder

\* Time passes while the server is blocked in recv_from; nothing is swept.
Tick ==
    /\ now < MaxTime
    /\ now' = now + 1
    /\ sent' = None
    /\ UNCHANGED <<registry, sessions, last_sweep, handled, holder>>

Init ==
    /\ now = 1
    /\ registry = [id \in Ids |-> None]
    /\ sessions = [t \in Token |-> None]
    /\ last_sweep = 1
    /\ sent = None
    /\ handled = 1
    /\ holder = [id \in Ids |-> None]

Next ==
    \/ \E from \in Endpoints, id \in Ids :
        \/ \E key \in Keys : handle_register(from, id, key)
        \/ Keepalive(from, id)
        \/ handle_lookup(from, id)
        \/ handle_broker(from, id)
    \/ Ignore
    \/ Tick

Spec == Init /\ [][Next]_vars

-----------------------------------------------------------------------------
(* Properties *)

\* The type of every variable; no timestamp lies in the future.
TypeOK ==
    /\ now \in Nat \ {0}
    /\ registry \in [Ids -> PeerRecord \cup {None}]
    /\ sessions \in [Token -> Nat \cup {None}]
    /\ last_sweep \in Nat /\ last_sweep <= now
    /\ handled \in Nat /\ handled <= now
    /\ sent \in Frame \cup {None}
    /\ holder \in [Ids -> PeerRecord \cup {None}]
    /\ \A id \in Ids : Bound(registry, id) => registry[id].seen <= now

\* The squat guard together with the sweep (registry_store.h:43-46): an id
\* changes hands, directly or after it was swept, only when its last holder
\* has been silent for longer than the TTL.
NoTakeoverOfLiveId ==
    [][\A id \in Ids :
        (holder[id] # None /\ holder'[id] # None /\ holder'[id].key # holder[id].key)
            => now - holder[id].seen > Ttl]_vars

\* Sweeps are lazy but not late: when an iteration ends, every binding and
\* every broker session left is younger than the TTL plus one sweep period.
StalenessBounded ==
    /\ handled - last_sweep < SweepPeriod
    /\ \A id \in Ids :
        Bound(registry, id) => handled - registry[id].seen < Ttl + SweepPeriod
    /\ \A t \in Token :
        sessions[t] # None => handled - sessions[t] < Ttl + SweepPeriod

\* registry_store.h:49, "nullopt if unknown or expired", as far as the code
\* keeps it: lookup does not test the age, so a LOOKUP is answered, and
\* candidates are relayed, also for a binding past its TTL; but it was younger
\* than the TTL plus one sweep period when the server last went idle.
AnswersFresh ==
    [][(sent' # None /\ sent'.type \in {"LookupOk", "BrokerCandidates"})
        => handled - sent'.seen < Ttl + SweepPeriod]_vars

\* What the server attests: an answer's key is the one its id was last bound
\* to, the signature covers exactly that pair, and relayed candidates go to
\* the endpoint the target was last seen at.
AttestsHolder ==
    sent # None =>
        /\ sent.type \in {"RegisterOk", "LookupOk"} =>
            sent.sig = <<sent.id, holder[sent.id].key>> /\ sent.key = holder[sent.id].key
        /\ sent.type = "BrokerCandidates" => sent.to = holder[sent.id].endpoint

=============================================================================
