---------------------------- MODULE SessionManager ----------------------------
(***************************************************************************)
(* The session manager of the controlled machine (core/session): session   *)
(* lifecycle, default-deny capability gate, deny list, trust-on-first-use  *)
(* pins and the audit log keyed by fingerprint.                            *)
(*                                                                         *)
(* The manager is a passive object: the service, the crypto layer and the  *)
(* operator's UI call it in any order, so every public method is an action *)
(* with no guard but the ones the method itself has.  The capability       *)
(* bitmask is a set of capabilities.  The audit vector is unbounded; what  *)
(* is kept of it is the records the latest call appended (in order) and    *)
(* the set of all grants ever recorded.                                    *)
(***************************************************************************)
EXTENDS Naturals, Sequences

CONSTANTS
    Caps,          \* the capability bits
    ViewOnly,      \* the floor every grant includes
    Control,       \* the bit behind the "being controlled" indicator
    Ceilings,      \* the policy ceilings an operator sets
    Fingerprints,  \* identities a handshake can verify
    NoFp,          \* the empty fingerprint of a first-contact peer
    RedeskIds,     \* routing handles
    MaxSessions    \* bound: sessions ever begun

ASSUME CapsAssumption == {ViewOnly, Control} \subseteq Caps /\ ViewOnly # Control
ASSUME CeilingsAssumption == Ceilings \subseteq SUBSET Caps
ASSUME FpAssumption == NoFp \notin Fingerprints
ASSUME MaxSessionsAssumption == MaxSessions \in Nat

VARIABLES
    state,       \* sessions[id].state_, "Absent" when the map has no such id
    granted,     \* sessions[id].granted_
    peer,        \* sessions[id].peer_
    next_id,
    ceiling,     \* the policy ceiling
    deny_list,
    tofu_pins,   \* redesk_id -> fingerprint first seen, NoFp when not pinned
    grants,      \* every CapabilityGranted record: key and granted mask
    first,       \* history: redesk_id -> key of its first accepted handshake
    last         \* the latest call, its result and the audit records it added

policy == <<ceiling, deny_list>>
table  == <<state, granted, peer, next_id>>
trust  == <<tofu_pins, first>>
vars   == <<table, policy, trust, grants, last>>

SessionIds == 1..MaxSessions
SessionState == {"Pending", "Authenticating", "Active", "Denied", "Closed"}
AuditEvent == {"SessionRequested", "HandshakeStarted", "HandshakeCompleted",
               "AuthSucceeded", "AuthFailed", "CapabilityGranted",
               "CapabilityDenied", "PermissionCheckDenied",
               "KeyChangeDetected", "SessionActivated", "SessionClosed"}
AnyFp == Fingerprints \cup {NoFp}
NoPeer == [redesk_id |-> NoFp, fingerprint |-> NoFp]  \* default-constructed
PeerInfo == [redesk_id : RedeskIds, fingerprint : AnyFp]
AuditRecord == [fp : AnyFp, event : AuditEvent]
Op == {"init", "beginSession", "onHandshakeStarted", "onHandshakeCompleted",
       "authorize", "deny", "checkPermission", "closeSession",
       "NotFound", "policy"}

\* One audit record, and what a call leaves for its caller and its observers.
Record(fp, event) == [fp |-> fp, event |-> event]
Reply(op, sid, fp, needed, ok, audit) ==
    last' = [op |-> op, sid |-> sid, fp |-> fp, needed |-> needed,
             ok |-> ok, audit |-> audit]

-----------------------------------------------------------------------------
Known(sid) == state[sid] # "Absent"

\* True iff every needed bit is granted.
hasCapability(have, needed) == needed \subseteq have

\* The gate without the state test, as a slip would write it.
isAllowedAnyState(sid, needed) == hasCapability(granted[sid], needed)

isAllowed(sid, needed) ==
    state[sid] = "Active" /\ hasCapability(granted[sid], needed)

isBeingControlled ==
    \E sid \in SessionIds :
        state[sid] = "Active" /\ hasCapability(granted[sid], {Control})

transition(sid, to) == state' = [state EXCEPT ![sid] = to]

Init ==
    /\ state = [sid \in SessionIds |-> "Absent"]
    /\ granted = [sid \in SessionIds |-> {}]
    /\ peer = [sid \in SessionIds |-> NoPeer]
    /\ next_id = 1
    /\ ceiling = {ViewOnly}
    /\ deny_list = {}
    /\ tofu_pins = [id \in RedeskIds |-> NoFp]
    /\ grants = {}
    /\ first = [id \in RedeskIds |-> NoFp]
    /\ last = [op |-> "init", sid |-> 0, fp |-> NoFp, needed |-> {},
               ok |-> TRUE, audit |-> <<>>]

-----------------------------------------------------------------------------
\* Every method that takes a session id returns NotFound (the gate: false) for
\* an id the map does not hold, and neither changes nor records anything.
NotFound(sid) ==
    /\ ~Known(sid)
    /\ Reply("NotFound", sid, NoFp, {}, FALSE, <<>>)
    /\ UNCHANGED <<table, policy, trust, grants>>

\* A peer that claims a deny-listed fingerprint is refused before a session
\* exists; any other gets the next id, Pending, with nothing granted.
beginSession(p) ==
    \/ /\ p.fingerprint \in deny_list
       /\ Reply("beginSession", 0, p.fingerprint, {}, FALSE,
                <<Record(p.fingerprint, "CapabilityDenied")>>)
       /\ UNCHANGED <<table, policy, trust, grants>>
    \/ /\ p.fingerprint \notin deny_list
       /\ next_id <= MaxSessions
       /\ next_id' = next_id + 1
       /\ transition(next_id, "Pending")
       /\ granted' = [granted EXCEPT ![next_id] = {}]
       /\ peer' = [peer EXCEPT ![next_id] = p]
       /\ Reply("beginSession", next_id, p.fingerprint, {}, TRUE,
                <<Record(p.fingerprint, "SessionRequested")>>)
       /\ UNCHANGED <<policy, trust, grants>>

\* No guard on the state: also from Active, Denied and Closed.
onHandshakeStarted(sid) ==
    /\ Known(sid)
    /\ transition(sid, "Authenticating")
    /\ Reply("onHandshakeStarted", sid, peer[sid].fingerprint, {}, TRUE,
             <<Record(peer[sid].fingerprint, "HandshakeStarted")>>)
    /\ UNCHANGED <<granted, peer, next_id, policy, trust, grants>>

\* The key the HandshakeCompleted record is written under: a local copy of the
\* peer, completed with the verified fingerprint when the claim was empty.
LearnedFp(sid, fp) ==
    IF peer[sid].fingerprint = NoFp THEN fp ELSE peer[sid].fingerprint

\* A slip in the pin check: the pin follows the latest key.
TofuPinFollows(id, fp) == tofu_pins' = [tofu_pins EXCEPT ![id] = fp]

\* First contact pins the key; a later, different key does not move the pin.
TofuPin(id, fp) ==
    tofu_pins' = [tofu_pins EXCEPT ![id] = IF @ = NoFp THEN fp ELSE @]

\* The handshake verified fp.  A key other than the pinned one is recorded as
\* an alert and changes nothing else.  The session keeps the peer it was begun
\* with.
onHandshakeCompleted(sid, fp) ==
    /\ Known(sid)
    /\ LET id == peer[sid].redesk_id
           completed == <<Record(LearnedFp(sid, fp), "HandshakeCompleted")>>
       IN  \/ /\ fp \in deny_list
              /\ transition(sid, "Denied")
              /\ Reply("onHandshakeCompleted", sid, fp, {}, FALSE,
                       completed \o <<Record(fp, "AuthFailed")>>)
              /\ UNCHANGED trust
           \/ /\ fp \notin deny_list
              /\ TofuPin(id, fp)
              /\ first' = [first EXCEPT ![id] = IF @ = NoFp THEN fp ELSE @]
              /\ Reply("onHandshakeCompleted", sid, fp, {}, TRUE,
                       IF tofu_pins[id] \in {NoFp, fp} THEN completed
                       ELSE completed \o <<Record(fp, "KeyChangeDetected")>>)
              /\ UNCHANGED state
    /\ UNCHANGED <<granted, peer, next_id, policy, grants>>

\* A slip: the request is granted as asked.
ClampNothing(requested) == requested

\* The part of a request that policy allows: the ceiling and always ViewOnly.
Clamp(requested) == requested \cap (ceiling \cup {ViewOnly})

\* The mask granted, and written into the CapabilityGranted record.
GrantMask(requested) == Clamp(requested) \cup {ViewOnly}

\* A slip: the grant takes effect without its record.
LogGrantNothing(fp, mask) == UNCHANGED grants
LogGrant(fp, mask) == grants' = grants \cup {[fp |-> fp, caps |-> mask]}

\* No guard on the state: also from Pending (no handshake), Denied and Closed.
\* Grants accumulate (Session::grant ors the mask in).
authorize(sid, requested) ==
    /\ Known(sid)
    /\ LET fp == peer[sid].fingerprint
           refused == IF requested \subseteq ceiling \cup {ViewOnly} THEN <<>>
                      ELSE <<Record(fp, "CapabilityDenied")>>
       IN  \/ /\ Clamp(requested) = {}
              /\ transition(sid, "Denied")
              /\ Reply("authorize", sid, fp, requested, FALSE, refused)
              /\ UNCHANGED <<granted, grants>>
           \/ /\ Clamp(requested) # {}
              /\ granted' = [granted EXCEPT ![sid] = @ \cup GrantMask(requested)]
              /\ LogGrant(fp, GrantMask(requested))
              /\ transition(sid, "Active")
              /\ Reply("authorize", sid, fp, requested, TRUE,
                       refused \o <<Record(fp, "CapabilityGranted"),
                                    Record(fp, "AuthSucceeded"),
                                    Record(fp, "SessionActivated")>>)
    /\ UNCHANGED <<peer, next_id, policy, trust>>

deny(sid) ==
    /\ Known(sid)
    /\ transition(sid, "Denied")
    /\ Reply("deny", sid, peer[sid].fingerprint, {}, TRUE,
             <<Record(peer[sid].fingerprint, "AuthFailed")>>)
    /\ UNCHANGED <<granted, peer, next_id, policy, trust, grants>>

\* The runtime gate: the answer, and a record when it is no.
checkPermission(sid, needed) ==
    /\ Known(sid)
    /\ LET fp == peer[sid].fingerprint
       IN  Reply("checkPermission", sid, fp, needed, isAllowed(sid, needed),
                 IF isAllowed(sid, needed) THEN <<>>
                 ELSE <<Record(fp, "PermissionCheckDenied")>>)
    /\ UNCHANGED <<table, policy, trust, grants>>

\* The session stays in the map: its grants and its peer survive.
closeSession(sid) ==
    /\ Known(sid)
    /\ transition(sid, "Closed")
    /\ Reply("closeSession", sid, peer[sid].fingerprint, {}, TRUE,
             <<Record(peer[sid].fingerprint, "SessionClosed")>>)
    /\ UNCHANGED <<granted, peer, next_id, policy, trust, grants>>

-----------------------------------------------------------------------------
(* Policy calls: none of them touches a live session.  The allow list, which  *)
(* the last two also write, is read nowhere in the code and left out.        *)
Silent == Reply("policy", 0, NoFp, {}, TRUE, <<>>)

setCapabilityCeiling(caps) ==
    /\ ceiling' = caps
    /\ Silent
    /\ UNCHANGED <<table, deny_list, trust, grants>>

allowPeer(fp) ==
    /\ deny_list' = deny_list \ {fp}
    /\ Silent
    /\ UNCHANGED <<table, ceiling, trust, grants>>

denyPeer(fp) ==
    /\ deny_list' = deny_list \cup {fp}
    /\ Silent
    /\ UNCHANGED <<table, ceiling, trust, grants>>

-----------------------------------------------------------------------------
Next ==
    \/ \E p \in PeerInfo : beginSession(p)
    \/ \E sid \in SessionIds :
        \/ NotFound(sid)
        \/ onHandshakeStarted(sid)
        \/ \E fp \in Fingerprints : onHandshakeCompleted(sid, fp)
        \/ \E caps \in SUBSET Caps :
            authorize(sid, caps) \/ checkPermission(sid, caps)
        \/ deny(sid)
        \/ closeSession(sid)
    \/ \E caps \in Ceilings : setCapabilityCeiling(caps)
    \/ \E fp \in Fingerprints : allowPeer(fp) \/ denyPeer(fp)

Spec == Init /\ [][Next]_vars

-----------------------------------------------------------------------------
(* Properties *)

StateOK ==
    /\ state \in [SessionIds -> SessionState \cup {"Absent"}]
    /\ granted \in [SessionIds -> SUBSET Caps]
    /\ peer \in [SessionIds -> PeerInfo \cup {NoPeer}]
    /\ next_id \in 1..(MaxSessions + 1)
    /\ \A sid \in SessionIds :
        /\ Known(sid) <=> sid < next_id
        /\ Known(sid) => peer[sid] \in PeerInfo
    /\ ceiling \subseteq Caps
    /\ deny_list \subseteq Fingerprints
    /\ tofu_pins \in [RedeskIds -> AnyFp]
    /\ grants \subseteq [fp : AnyFp, caps : SUBSET Caps]
    /\ first \in [RedeskIds -> AnyFp]

LastOK ==
    last \in [op : Op, sid : 0..MaxSessions, fp : AnyFp, needed : SUBSET Caps,
              ok : BOOLEAN, audit : Seq(AuditRecord)]

\* The type of every variable; ids at or above next_id are not in the map.
TypeOK == StateOK /\ LastOK

\* Some CapabilityGranted record under this key covers the capability.
GrantOnRecord(fp, cap) == \E g \in grants : g.fp = fp /\ cap \in g.caps

Accounted(sid) ==
    /\ \A cap \in granted[sid] : GrantOnRecord(peer[sid].fingerprint, cap)
    /\ state[sid] = "Active" => ViewOnly \in granted[sid]

\* Default-deny with an audit trail (session.h:7-11): whatever a session holds,
\* after any sequence of calls, a CapabilityGranted record under the session's
\* own fingerprint accounts for it, and no session is Active without the floor.
GrantsAccounted == \A sid \in SessionIds : Accounted(sid)

\* The gate (checkPermission): a yes is given only to an Active session, only
\* for capabilities that are on record under its fingerprint, and a yes for
\* Control is never given while the "being controlled" indicator is dark.
GateSound ==
    (last.op = "checkPermission" /\ last.ok) =>
        /\ state[last.sid] = "Active"
        /\ \A cap \in last.needed : GrantOnRecord(last.fp, cap)
        /\ Control \in last.needed => isBeingControlled

\* Explicit, least-privilege grants: only an authorize call for that session
\* adds to what a session holds or makes it Active.  What it adds was asked
\* for and is within the ceiling of that moment, or is the ViewOnly floor, and
\* the grant and the activation are appended to the audit log.  Nothing is
\* said of what the session held before: authorize keeps it, also where it
\* is above a ceiling that was lowered in the meantime.
ExplicitGrantOnly ==
    [][\A sid \in SessionIds :
        \/ granted'[sid] = granted[sid] /\ (state'[sid] = "Active" => state[sid] = "Active")
        \/ /\ last'.op = "authorize" /\ last'.sid = sid
           /\ granted'[sid] \ granted[sid]
                \subseteq (last'.needed \cap ceiling) \cup {ViewOnly}
           /\ \A e \in {"CapabilityGranted", "SessionActivated"} :
                \E i \in DOMAIN last'.audit :
                    last'.audit[i] = Record(peer[sid].fingerprint, e)]_vars

\* A handshake accepted for a routing id whose first accepted handshake used
\* another key is reported, every time, by a KeyChangeDetected record under
\* the new key; a handshake with the first key never is (session.cpp:173-182).
KeyChangeAlerted ==
    (last.op = "onHandshakeCompleted" /\ last.ok) =>
        ((\E i \in DOMAIN last.audit :
            last.audit[i] = Record(last.fp, "KeyChangeDetected"))
         <=> first[peer[last.sid].redesk_id] # last.fp)

=============================================================================
