------------------------- MODULE SessionManagerProofs -------------------------
(***************************************************************************)
(* Proofs about SessionManager, for every set of capabilities, of          *)
(* ceilings, of fingerprints and of routing ids, and any number of         *)
(* sessions.                                                               *)
(***************************************************************************)
EXTENDS SessionManager, TLAPS

-----------------------------------------------------------------------------
(* Type correctness *)

\* An audit record is a record of the declared type.
LEMMA RecordType ==
    ASSUME NEW fp \in AnyFp, NEW e \in AuditEvent
    PROVE  Record(fp, e) \in AuditRecord
  BY DEF Record, AuditRecord

\* So is a log of one of them.
LEMMA OneRecord ==
    ASSUME NEW fp \in AnyFp, NEW e \in AuditEvent
    PROVE  <<Record(fp, e)>> \in Seq(AuditRecord)
  BY RecordType

\* A reply built from values of the declared types gives last its type.
LEMMA ReplyType ==
    ASSUME NEW op \in Op, NEW sid \in 0..MaxSessions, NEW fp \in AnyFp,
           NEW needed \in SUBSET Caps, NEW ok \in BOOLEAN,
           NEW audit \in Seq(AuditRecord), Reply(op, sid, fp, needed, ok, audit)
    PROVE  LastOK'
  BY DEF Reply, LastOK

\* Every initial state (an empty manager) has the declared types.
LEMMA InitTypeOK == Init => TypeOK
  BY CapsAssumption, FpAssumption, MaxSessionsAssumption
  DEF Init, TypeOK, StateOK, LastOK, SessionIds, SessionState, NoPeer, Known,
      AnyFp, Op, AuditRecord

\* Every call of the manager preserves the types.
LEMMA NextTypeOK == TypeOK /\ [Next]_vars => TypeOK'
<1> SUFFICES ASSUME TypeOK, [Next]_vars PROVE TypeOK'
  OBVIOUS
<1> USE DEF TypeOK
<1>0. /\ \A sid \in SessionIds : sid \in 0..MaxSessions
      /\ \A sid \in SessionIds : Known(sid) => peer[sid].fingerprint \in AnyFp
      /\ \A sid \in SessionIds : Known(sid) => peer[sid].redesk_id \in RedeskIds
      /\ NoFp \in AnyFp
      /\ 0 \in 0..MaxSessions
      /\ \A fp \in Fingerprints : fp \in AnyFp
      /\ <<>> \in Seq(AuditRecord)
  BY MaxSessionsAssumption DEF StateOK, SessionIds, PeerInfo, AnyFp
<1>1. ASSUME NEW p \in PeerInfo, beginSession(p) PROVE TypeOK'
  <2>1. p.fingerprint \in AnyFp
    BY DEF PeerInfo
  <2>2. CASE p.fingerprint \in deny_list
    <3>1. LastOK'
      <4>1. <<Record(p.fingerprint, "CapabilityDenied")>> \in Seq(AuditRecord)
        BY <2>1, OneRecord DEF AuditEvent
      <4>2. QED
        <5>1. Reply("beginSession", 0, p.fingerprint, {}, FALSE,
                    <<Record(p.fingerprint, "CapabilityDenied")>>)
          BY <1>1, <2>2 DEF beginSession
        <5>2. QED
          BY <1>0, <2>1, <4>1, <5>1 DEF Op, Reply, LastOK
    <3>2. QED
      BY <3>1, <1>1, <2>2
      DEF StateOK, beginSession, table, policy, trust, Known
  <2>3. CASE p.fingerprint \notin deny_list
    <3>1. next_id \in SessionIds /\ next_id \in 0..MaxSessions
      <4>1. next_id <= MaxSessions
        BY <1>1, <2>3 DEF beginSession
      <4>2. QED
        BY <4>1, MaxSessionsAssumption DEF StateOK, SessionIds
    <3>2. LastOK'
      <4>1. <<Record(p.fingerprint, "SessionRequested")>> \in Seq(AuditRecord)
        BY <2>1, OneRecord DEF AuditEvent
      <4>2. QED
        <5>1. Reply("beginSession", next_id, p.fingerprint, {}, TRUE,
                    <<Record(p.fingerprint, "SessionRequested")>>)
          BY <1>1, <2>3 DEF beginSession
        <5>2. QED
          BY <2>1, <3>1, <4>1, <5>1 DEF Op, Reply, LastOK
    <3>3. StateOK'
      <4>1. /\ next_id' = next_id + 1
            /\ state' = [state EXCEPT ![next_id] = "Pending"]
            /\ granted' = [granted EXCEPT ![next_id] = {}]
            /\ peer' = [peer EXCEPT ![next_id] = p]
            /\ UNCHANGED <<policy, trust, grants>>
        BY <1>1, <2>3 DEF beginSession, transition
      <4>2. next_id' \in 1..(MaxSessions + 1)
        BY <3>1, <4>1, MaxSessionsAssumption DEF StateOK, SessionIds
      <4>3. \A sid \in SessionIds : /\ Known(sid)' <=> sid < next_id'
                                    /\ Known(sid)' => peer'[sid] \in PeerInfo
        BY <3>1, <4>1, MaxSessionsAssumption DEF StateOK, SessionIds, Known
      <4>4. /\ state' \in [SessionIds -> SessionState \cup {"Absent"}]
            /\ granted' \in [SessionIds -> SUBSET Caps]
            /\ peer' \in [SessionIds -> PeerInfo \cup {NoPeer}]
        BY <3>1, <4>1 DEF StateOK, SessionState
      <4>5. QED
        BY <4>1, <4>2, <4>3, <4>4 DEF StateOK, policy, trust
    <3>4. QED BY <3>2, <3>3
  <2>4. QED BY <2>2, <2>3
<1>2. ASSUME NEW sid \in SessionIds, NotFound(sid) PROVE TypeOK'
  <2>1. LastOK'
    BY <1>0, <1>2, ReplyType DEF NotFound, Op
  <2>2. QED
    BY <2>1, <1>2 DEF NotFound, StateOK, table, policy, trust, Known
<1>3. ASSUME NEW sid \in SessionIds, onHandshakeStarted(sid) PROVE TypeOK'
  <2>1. LastOK'
    <3>1. <<Record(peer[sid].fingerprint, "HandshakeStarted")>> \in Seq(AuditRecord)
      BY <1>0, <1>3, OneRecord DEF onHandshakeStarted, AuditEvent
    <3>2. QED
      BY <1>0, <1>3, <3>1 DEF onHandshakeStarted, Op, Reply, LastOK
  <2>2. QED
    BY <2>1, <1>3
    DEF onHandshakeStarted, StateOK, transition, policy, trust, Known, SessionState
<1>4. ASSUME NEW sid \in SessionIds, NEW fp \in Fingerprints,
             onHandshakeCompleted(sid, fp)
      PROVE  TypeOK'
  <2> DEFINE id == peer[sid].redesk_id
             completed == <<Record(LearnedFp(sid, fp), "HandshakeCompleted")>>
  <2>1. /\ LearnedFp(sid, fp) \in AnyFp
        /\ id \in RedeskIds
        /\ fp \in AnyFp
    BY <1>0, <1>4 DEF LearnedFp, onHandshakeCompleted
  <2>2. /\ completed \in Seq(AuditRecord)
        /\ completed \o <<Record(fp, "AuthFailed")>> \in Seq(AuditRecord)
        /\ completed \o <<Record(fp, "KeyChangeDetected")>> \in Seq(AuditRecord)
    BY <2>1, RecordType DEF AuditEvent
  <2>3. CASE fp \in deny_list
    <3>1. LastOK'
      BY <1>0, <1>4, <2>1, <2>2, <2>3, ReplyType DEF onHandshakeCompleted, Op
    <3>2. QED
      BY <3>1, <1>4, <2>3
      DEF onHandshakeCompleted, StateOK, transition, policy, trust, Known, SessionState
  <2>4. CASE fp \notin deny_list
    <3>1. LastOK'
      BY <1>0, <1>4, <2>1, <2>2, <2>4, ReplyType DEF onHandshakeCompleted, Op
    <3>2. StateOK'
      <4>1. /\ TofuPin(id, fp)
            /\ first' = [first EXCEPT ![id] = IF @ = NoFp THEN fp ELSE @]
            /\ UNCHANGED <<state, granted, peer, next_id, policy, grants>>
        BY <1>4, <2>4 DEF onHandshakeCompleted
      <4>2. tofu_pins' \in [RedeskIds -> AnyFp]
        BY <2>1, <4>1 DEF StateOK, TofuPin
      <4>3. first' \in [RedeskIds -> AnyFp]
        BY <2>1, <4>1 DEF StateOK
      <4>4. QED
        BY <4>1, <4>2, <4>3 DEF StateOK, policy, Known
    <3>3. QED BY <3>1, <3>2
  <2>5. QED BY <2>3, <2>4
<1>5. ASSUME NEW sid \in SessionIds, NEW caps \in SUBSET Caps, authorize(sid, caps)
      PROVE  TypeOK'
  <2> DEFINE fp == peer[sid].fingerprint
             refused == IF caps \subseteq ceiling \cup {ViewOnly} THEN <<>>
                        ELSE <<Record(fp, "CapabilityDenied")>>
  <2>1. fp \in AnyFp /\ GrantMask(caps) \in SUBSET Caps
    BY <1>0, <1>5, CapsAssumption DEF authorize, GrantMask, Clamp
  <2>2. /\ refused \in Seq(AuditRecord)
        /\ refused \o <<Record(fp, "CapabilityGranted"), Record(fp, "AuthSucceeded"),
                       Record(fp, "SessionActivated")>> \in Seq(AuditRecord)
    BY <2>1, RecordType DEF AuditEvent
  <2>3. CASE Clamp(caps) = {}
    <3>1. LastOK'
      BY <1>0, <1>5, <2>1, <2>2, <2>3, ReplyType DEF authorize, Op
    <3>2. QED
      BY <3>1, <1>5, <2>3
      DEF authorize, StateOK, transition, policy, trust, Known, SessionState
  <2>4. CASE Clamp(caps) # {}
    <3>1. LastOK'
      BY <1>0, <1>5, <2>1, <2>2, <2>4, ReplyType DEF authorize, Op
    <3>2. StateOK'
      <4>1. /\ state' = [state EXCEPT ![sid] = "Active"]
            /\ granted' = [granted EXCEPT ![sid] = @ \cup GrantMask(caps)]
            /\ grants' = grants \cup {[fp |-> fp, caps |-> GrantMask(caps)]}
            /\ UNCHANGED <<peer, next_id, policy, trust>>
            /\ Known(sid)
        BY <1>5, <2>4 DEF authorize, transition, LogGrant
      <4>2. granted' \in [SessionIds -> SUBSET Caps]
        BY <2>1, <4>1 DEF StateOK
      <4>3. grants' \subseteq [fp : AnyFp, caps : SUBSET Caps]
        BY <2>1, <4>1 DEF StateOK
      <4>4. /\ state' \in [SessionIds -> SessionState \cup {"Absent"}]
            /\ \A s \in SessionIds : Known(s)' <=> Known(s)
        BY <4>1 DEF StateOK, SessionState, Known
      <4>5. QED
        BY <4>1, <4>2, <4>3, <4>4 DEF StateOK, policy, trust
    <3>3. QED BY <3>1, <3>2
  <2>5. QED BY <2>3, <2>4
<1>6. ASSUME NEW sid \in SessionIds, NEW caps \in SUBSET Caps,
             checkPermission(sid, caps)
      PROVE  TypeOK'
  <2>1. isAllowed(sid, caps) \in BOOLEAN
    BY DEF isAllowed, hasCapability
  <2>2. LastOK'
    <3>1. <<Record(peer[sid].fingerprint, "PermissionCheckDenied")>> \in Seq(AuditRecord)
      BY <1>0, <1>6, OneRecord DEF checkPermission, AuditEvent
    <3>2. QED
      BY <1>0, <1>6, <2>1, <3>1 DEF checkPermission, Op, Reply, LastOK
  <2>3. QED
    BY <2>2, <1>6 DEF checkPermission, StateOK, table, policy, trust, Known
<1>7. ASSUME NEW sid \in SessionIds, deny(sid) PROVE TypeOK'
  <2>1. LastOK'
    <3>1. <<Record(peer[sid].fingerprint, "AuthFailed")>> \in Seq(AuditRecord)
      BY <1>0, <1>7, OneRecord DEF deny, AuditEvent
    <3>2. QED
      BY <1>0, <1>7, <3>1 DEF deny, Op, Reply, LastOK
  <2>2. QED
    BY <2>1, <1>7 DEF deny, StateOK, transition, policy, trust, Known, SessionState
<1>7a. ASSUME NEW sid \in SessionIds, closeSession(sid) PROVE TypeOK'
  <2>1. LastOK'
    <3>1. <<Record(peer[sid].fingerprint, "SessionClosed")>> \in Seq(AuditRecord)
      BY <1>0, <1>7a, OneRecord DEF closeSession, AuditEvent
    <3>2. QED
      BY <1>0, <1>7a, <3>1 DEF closeSession, Op, Reply, LastOK
  <2>2. QED
    BY <2>1, <1>7a
    DEF closeSession, StateOK, transition, policy, trust, Known, SessionState
<1>8. ASSUME NEW caps \in Ceilings, setCapabilityCeiling(caps) PROVE TypeOK'
  <2>1. LastOK'
    BY <1>0, <1>8, ReplyType DEF setCapabilityCeiling, Silent, Op
  <2>2. QED
    BY <2>1, <1>8, CeilingsAssumption
    DEF setCapabilityCeiling, StateOK, table, trust, Known
<1>9. ASSUME NEW fp \in Fingerprints, allowPeer(fp) \/ denyPeer(fp) PROVE TypeOK'
  <2>1. LastOK'
    BY <1>0, <1>9, ReplyType DEF allowPeer, denyPeer, Silent, Op
  <2>2. QED
    BY <2>1, <1>9 DEF allowPeer, denyPeer, StateOK, table, trust, Known
<1>10. CASE UNCHANGED vars
  BY <1>10 DEF vars, table, policy, trust, StateOK, LastOK, Known
<1>11. QED
  BY <1>1, <1>2, <1>3, <1>4, <1>5, <1>6, <1>7, <1>7a, <1>8, <1>9, <1>10 DEF Next

\* In every reachable state each variable has its type, and exactly the ids
\* below next_id are in the map.
THEOREM TypeCorrect == Spec => []TypeOK
  BY InitTypeOK, NextTypeOK, PTL DEF Spec

-----------------------------------------------------------------------------
(* Every capability held is on record.                                       *)
(*                                                                           *)
(* GrantsAccounted is inductive relative to the types: the set of grant      *)
(* records only grows, a session's peer is never replaced once it is begun   *)
(* (an id is used once), and authorize writes the very mask it grants.       *)

\* An empty manager holds no grants.
LEMMA InitGrants == Init => GrantsAccounted
  BY DEF Init, GrantsAccounted, Accounted

\* A step that keeps the grants, their records and the peers, and makes no
\* session Active, keeps every grant accounted for.
LEMMA GrantsFrame ==
    ASSUME GrantsAccounted, UNCHANGED <<granted, peer, grants>>,
           \A s \in SessionIds : state'[s] = "Active" => state[s] = "Active"
    PROVE  GrantsAccounted'
  BY DEF GrantsAccounted, Accounted, GrantOnRecord

\* A call that moves one session to a state other than Active makes no
\* session Active.
LEMMA MoveFrame ==
    ASSUME StateOK, NEW sid \in SessionIds, NEW to, to # "Active",
           transition(sid, to)
    PROVE  \A s \in SessionIds : state'[s] = "Active" => state[s] = "Active"
  BY DEF StateOK, transition

\* Every call of the manager keeps every grant accounted for.
LEMMA NextGrants == TypeOK /\ GrantsAccounted /\ [Next]_vars => GrantsAccounted'
<1> SUFFICES ASSUME StateOK, GrantsAccounted, [Next]_vars PROVE GrantsAccounted'
  BY DEF TypeOK
<1>1. ASSUME NEW p \in PeerInfo, beginSession(p) PROVE GrantsAccounted'
  <2>1. CASE p.fingerprint \in deny_list
    BY <1>1, <2>1, GrantsFrame DEF beginSession, table
  <2>2. CASE p.fingerprint \notin deny_list
    <3>1. /\ next_id <= MaxSessions
          /\ state' = [state EXCEPT ![next_id] = "Pending"]
          /\ granted' = [granted EXCEPT ![next_id] = {}]
          /\ peer' = [peer EXCEPT ![next_id] = p]
          /\ UNCHANGED grants
      BY <1>1, <2>2 DEF beginSession, transition
    <3>2. next_id \in SessionIds
      BY <3>1, MaxSessionsAssumption DEF StateOK, SessionIds
    <3>3. ASSUME NEW s \in SessionIds
          PROVE  Accounted(s)'
      <4>1. CASE s = next_id
        BY <3>1, <3>2, <4>1 DEF StateOK, Accounted
      <4>2. CASE s # next_id
        BY <3>1, <3>2, <4>2 DEF StateOK, GrantsAccounted, Accounted, GrantOnRecord
      <4>3. QED BY <4>1, <4>2
    <3>4. QED BY <3>3 DEF GrantsAccounted
  <2>3. QED BY <2>1, <2>2
<1>2. ASSUME NEW sid \in SessionIds,
             \/ NotFound(sid)
             \/ \E caps \in SUBSET Caps : checkPermission(sid, caps)
      PROVE  GrantsAccounted'
  BY <1>2, GrantsFrame DEF NotFound, checkPermission, table
<1>3. ASSUME NEW sid \in SessionIds, onHandshakeStarted(sid) PROVE GrantsAccounted'
  BY <1>3, GrantsFrame, MoveFrame DEF onHandshakeStarted
<1>4. ASSUME NEW sid \in SessionIds, NEW fp \in Fingerprints,
             onHandshakeCompleted(sid, fp)
      PROVE  GrantsAccounted'
  <2>1. UNCHANGED <<granted, peer, grants>>
    BY <1>4 DEF onHandshakeCompleted
  <2>2. transition(sid, "Denied") \/ UNCHANGED state
    BY <1>4 DEF onHandshakeCompleted
  <2>3. QED BY <2>1, <2>2, GrantsFrame, MoveFrame
<1>5. ASSUME NEW sid \in SessionIds, NEW caps \in SUBSET Caps, authorize(sid, caps)
      PROVE  GrantsAccounted'
  <2>1. CASE Clamp(caps) = {}
    <3>1. transition(sid, "Denied") /\ UNCHANGED <<granted, peer, grants>>
      BY <1>5, <2>1 DEF authorize
    <3>2. QED BY <3>1, GrantsFrame, MoveFrame
  <2>2. CASE Clamp(caps) # {}
    <3> DEFINE fp == peer[sid].fingerprint
               mask == GrantMask(caps)
    <3>1. /\ state' = [state EXCEPT ![sid] = "Active"]
          /\ granted' = [granted EXCEPT ![sid] = @ \cup mask]
          /\ grants' = grants \cup {[fp |-> fp, caps |-> mask]}
          /\ UNCHANGED peer
      BY <1>5, <2>2 DEF authorize, transition, LogGrant
    <3>2. ASSUME NEW f, NEW cap, GrantOnRecord(f, cap)
          PROVE  \E g \in grants' : g.fp = f /\ cap \in g.caps
      BY <3>1, <3>2 DEF GrantOnRecord
    <3>3. ASSUME NEW cap \in mask
          PROVE  \E g \in grants' : g.fp = fp /\ cap \in g.caps
      <4> DEFINE g == [fp |-> fp, caps |-> mask]
      <4>1. g \in grants' /\ g.fp = fp /\ g.caps = mask
        BY <3>1
      <4>2. QED BY <4>1
    <3>4. ViewOnly \in mask
      BY DEF GrantMask
    <3>5. ASSUME NEW s \in SessionIds
          PROVE  Accounted(s)'
      <4> HIDE DEF mask
      <4>1. CASE s = sid
        <5>1. granted'[s] = granted[s] \cup mask /\ peer'[s].fingerprint = fp
          BY <3>1, <4>1 DEF StateOK
        <5>2. ASSUME NEW cap \in granted'[s]
              PROVE  \E g \in grants' : g.fp = fp /\ cap \in g.caps
          BY <3>2, <3>3, <4>1, <5>1 DEF GrantsAccounted, Accounted
        <5>3. QED BY <5>1, <5>2, <3>4 DEF Accounted, GrantOnRecord
      <4>2. CASE s # sid
        <5>1. /\ granted'[s] = granted[s] /\ peer'[s] = peer[s]
              /\ state'[s] = state[s]
          BY <3>1, <4>2 DEF StateOK
        <5>2. ASSUME NEW cap \in granted'[s]
              PROVE  \E g \in grants' : g.fp = peer[s].fingerprint /\ cap \in g.caps
          BY <3>2, <5>1 DEF GrantsAccounted, Accounted
        <5>3. QED BY <5>1, <5>2 DEF GrantsAccounted, Accounted, GrantOnRecord
      <4>3. QED BY <4>1, <4>2
    <3>6. QED BY <3>5 DEF GrantsAccounted
  <2>3. QED BY <2>1, <2>2
<1>6. ASSUME NEW sid \in SessionIds, deny(sid) \/ closeSession(sid)
      PROVE  GrantsAccounted'
  <2>1. /\ transition(sid, "Denied") \/ transition(sid, "Closed")
        /\ UNCHANGED <<granted, peer, grants>>
    BY <1>6 DEF deny, closeSession
  <2>2. QED BY <2>1, GrantsFrame, MoveFrame
<1>7. ASSUME \/ \E caps \in Ceilings : setCapabilityCeiling(caps)
             \/ \E fp \in Fingerprints : allowPeer(fp) \/ denyPeer(fp)
             \/ UNCHANGED vars
      PROVE  GrantsAccounted'
  <2>1. UNCHANGED table /\ UNCHANGED grants
    BY <1>7 DEF setCapabilityCeiling, allowPeer, denyPeer, vars
  <2>2. QED BY <2>1, GrantsFrame DEF table
<1>8. QED
  BY <1>1, <1>2, <1>3, <1>4, <1>5, <1>6, <1>7 DEF Next

\* Whatever sequence of calls the service, the crypto layer and the operator
\* make, every capability a session holds is accounted for by a grant record
\* under its fingerprint, and every Active session holds the floor.
THEOREM GrantsAlwaysAccounted == Spec => []GrantsAccounted
  BY InitGrants, NextGrants, TypeCorrect, PTL DEF Spec

-----------------------------------------------------------------------------
(* The gate.  A yes of checkPermission changes nothing but last, so what it  *)
(* promises follows from GrantsAccounted in the state it is given in.        *)

\* After every call, a yes of the gate is one the gate may give.
LEMMA NextGate == TypeOK /\ GrantsAccounted /\ GateSound /\ [Next]_vars => GateSound'
<1> SUFFICES ASSUME StateOK, GrantsAccounted, GateSound, [Next]_vars PROVE GateSound'
  BY DEF TypeOK
<1>1. ASSUME NEW sid \in SessionIds, NEW caps \in SUBSET Caps,
             checkPermission(sid, caps), isAllowed(sid, caps)
      PROVE  GateSound'
  <2>1. /\ last'.sid = sid /\ last'.needed = caps
        /\ last'.fp = peer[sid].fingerprint
        /\ UNCHANGED table /\ UNCHANGED grants
    BY <1>1 DEF checkPermission, Reply
  <2>2. state[sid] = "Active" /\ caps \subseteq granted[sid]
    BY <1>1 DEF isAllowed, hasCapability
  <2>3. \A cap \in caps : GrantOnRecord(peer[sid].fingerprint, cap)
    BY <2>2 DEF GrantsAccounted, Accounted
  <2>4. Control \in caps => isBeingControlled
    BY <2>2 DEF isBeingControlled, hasCapability
  <2>5. QED
    BY <2>1, <2>2, <2>3, <2>4
    DEF GateSound, GrantOnRecord, isBeingControlled, table
<1>2. ASSUME NEW sid \in SessionIds, NEW caps \in SUBSET Caps,
             checkPermission(sid, caps), ~isAllowed(sid, caps)
      PROVE  GateSound'
  <2>1. last'.ok = FALSE
    BY <1>2 DEF checkPermission, Reply, isAllowed
  <2>2. QED BY <2>1 DEF GateSound
<1>3. ASSUME last'.op # "checkPermission" PROVE GateSound'
  BY <1>3 DEF GateSound
<1>4. ASSUME NEW p \in PeerInfo, beginSession(p) PROVE GateSound'
  BY <1>3, <1>4 DEF beginSession, Reply
<1>5. ASSUME NEW sid \in SessionIds,
             NotFound(sid) \/ onHandshakeStarted(sid) \/ deny(sid) \/ closeSession(sid)
      PROVE  GateSound'
  BY <1>3, <1>5 DEF NotFound, onHandshakeStarted, deny, closeSession, Reply
<1>6. ASSUME NEW sid \in SessionIds, NEW fp \in Fingerprints,
             onHandshakeCompleted(sid, fp)
      PROVE  GateSound'
  BY <1>3, <1>6 DEF onHandshakeCompleted, Reply
<1>7. ASSUME NEW sid \in SessionIds, NEW caps \in SUBSET Caps, authorize(sid, caps)
      PROVE  GateSound'
  BY <1>3, <1>7 DEF authorize, Reply
<1>8. ASSUME \/ \E caps \in Ceilings : setCapabilityCeiling(caps)
             \/ \E fp \in Fingerprints : allowPeer(fp) \/ denyPeer(fp)
      PROVE  GateSound'
  BY <1>3, <1>8 DEF setCapabilityCeiling, allowPeer, denyPeer, Silent, Reply
<1>9. CASE UNCHANGED vars
  BY <1>9 DEF vars, table, GateSound, GrantOnRecord, isBeingControlled
<1>10. QED
  BY <1>1, <1>2, <1>4, <1>5, <1>6, <1>7, <1>8, <1>9 DEF Next

\* The gate never says yes to a session that is not Active, nor for a
\* capability that was not granted on record, nor for Control while the
\* indicator is dark.
THEOREM GateAlwaysSound == Spec => []GateSound
<1>1. Init => GateSound
  BY DEF Init, GateSound
<1>2. QED
  BY <1>1, NextGate, GrantsAlwaysAccounted, TypeCorrect, PTL DEF Spec

-----------------------------------------------------------------------------
(* Trust on first use.  Only an accepted handshake writes the pins, and only *)
(* where there was none: the pin of a routing id is at all times the key of  *)
(* its first accepted handshake, which is what the alert compares against.   *)

\* The pin is the first key, and the key-change alerts are right.
TrustInv == tofu_pins = first /\ KeyChangeAlerted

\* The calls that are not onHandshakeCompleted leave the trust state alone and
\* are not reported as one; or nothing changes at all.
LEMMA TrustFrame ==
    ASSUME [Next]_vars,
           ~ \E sid \in SessionIds, fp \in Fingerprints : onHandshakeCompleted(sid, fp)
    PROVE  /\ UNCHANGED trust
           /\ last'.op # "onHandshakeCompleted" \/ UNCHANGED vars
<1> DEFINE Goal == /\ UNCHANGED trust
                   /\ last'.op # "onHandshakeCompleted" \/ UNCHANGED vars
<1>1. ASSUME NEW p \in PeerInfo, beginSession(p) PROVE Goal
  BY <1>1 DEF beginSession, Reply
<1>2. ASSUME NEW sid \in SessionIds,
             NotFound(sid) \/ onHandshakeStarted(sid) \/ deny(sid) \/ closeSession(sid)
      PROVE  Goal
  BY <1>2 DEF NotFound, onHandshakeStarted, deny, closeSession, Reply
<1>3. ASSUME NEW sid \in SessionIds, NEW caps \in SUBSET Caps,
             authorize(sid, caps) \/ checkPermission(sid, caps)
      PROVE  Goal
  BY <1>3 DEF authorize, checkPermission, Reply
<1>4. ASSUME \/ \E caps \in Ceilings : setCapabilityCeiling(caps)
             \/ \E fp \in Fingerprints : allowPeer(fp) \/ denyPeer(fp)
      PROVE  Goal
  BY <1>4 DEF setCapabilityCeiling, allowPeer, denyPeer, Silent, Reply
<1>5. CASE UNCHANGED vars
  BY <1>5 DEF vars
<1>6. QED
  BY <1>1, <1>2, <1>3, <1>4, <1>5 DEF Next

\* Every call keeps the pins at the first keys and alerts for exactly the
\* accepted keys that differ from them.
LEMMA NextTrust == TypeOK /\ TrustInv /\ [Next]_vars => TrustInv'
<1> SUFFICES ASSUME StateOK, TrustInv, [Next]_vars PROVE TrustInv'
  BY DEF TypeOK
<1>1. CASE ~ \E sid \in SessionIds, fp \in Fingerprints : onHandshakeCompleted(sid, fp)
  <2>1. CASE last'.op # "onHandshakeCompleted"
    BY <1>1, <2>1, TrustFrame DEF TrustInv, KeyChangeAlerted, trust
  <2>2. CASE UNCHANGED vars
    BY <2>2 DEF vars, table, trust, TrustInv, KeyChangeAlerted
  <2>3. QED BY <1>1, <2>1, <2>2, TrustFrame
<1>2. ASSUME NEW sid \in SessionIds, NEW fp \in Fingerprints,
             onHandshakeCompleted(sid, fp)
      PROVE  TrustInv'
  <2> DEFINE id == peer[sid].redesk_id
             completed == <<Record(LearnedFp(sid, fp), "HandshakeCompleted")>>
             alert == Record(fp, "KeyChangeDetected")
  <2>1. id \in RedeskIds
    BY <1>2 DEF onHandshakeCompleted, StateOK, PeerInfo
  <2>2. CASE fp \in deny_list
    <3>1. last'.ok = FALSE /\ UNCHANGED trust
      BY <1>2, <2>2 DEF onHandshakeCompleted, Reply
    <3>2. QED BY <3>1 DEF TrustInv, KeyChangeAlerted, trust
  <2>3. CASE fp \notin deny_list
    <3>1. /\ TofuPin(id, fp)
          /\ first' = [first EXCEPT ![id] = IF @ = NoFp THEN fp ELSE @]
          /\ last'.sid = sid /\ last'.fp = fp
          /\ last'.audit = IF tofu_pins[id] \in {NoFp, fp} THEN completed
                           ELSE completed \o <<alert>>
          /\ UNCHANGED peer
      <4> DEFINE log == IF tofu_pins[id] \in {NoFp, fp} THEN completed
                        ELSE completed \o <<alert>>
      <4>1. /\ TofuPin(id, fp)
            /\ first' = [first EXCEPT ![id] = IF @ = NoFp THEN fp ELSE @]
            /\ Reply("onHandshakeCompleted", sid, fp, {}, TRUE, log)
            /\ UNCHANGED peer
        BY <1>2, <2>3 DEF onHandshakeCompleted
      <4>2. last'.sid = sid /\ last'.fp = fp /\ last'.audit = log
        <5> HIDE DEF log
        <5>1. QED BY <4>1 DEF Reply
      <4>3. QED BY <4>1, <4>2
    <3>2. tofu_pins' = first'
      BY <3>1 DEF TofuPin, TrustInv
    <3>3. first'[id] = IF tofu_pins[id] = NoFp THEN fp ELSE tofu_pins[id]
      BY <2>1, <3>1 DEF TrustInv, StateOK
    <3>4. CASE tofu_pins[id] \in {NoFp, fp}
      <4>1. first'[id] = fp
        BY <3>3, <3>4
      <4>2. DOMAIN completed = {1} /\ completed[1] # alert
        BY DEF Record
      <4>3. QED BY <3>1, <3>2, <3>4, <4>1, <4>2 DEF TrustInv, KeyChangeAlerted
    <3>5. CASE tofu_pins[id] \notin {NoFp, fp}
      <4>1. first'[id] # fp
        BY <3>3, <3>5
      <4>2. 2 \in DOMAIN (completed \o <<alert>>) /\ (completed \o <<alert>>)[2] = alert
        OBVIOUS
      <4>3. last'.audit = completed \o <<alert>>
        BY <3>1, <3>5
      <4>4. \E i \in DOMAIN last'.audit : last'.audit[i] = alert
        <5> HIDE DEF alert, completed
        <5>1. QED BY <4>2, <4>3
      <4>5. QED BY <3>1, <3>2, <4>1, <4>4 DEF TrustInv, KeyChangeAlerted
    <3>6. QED BY <3>4, <3>5
  <2>4. QED BY <2>2, <2>3
<1>3. QED BY <1>1, <1>2

\* An accepted handshake is reported as a key change exactly when its key is
\* not the one of the first handshake accepted for its routing id.
THEOREM KeyChangesAlwaysAlerted == Spec => []KeyChangeAlerted
<1>1. Init => TrustInv
  BY DEF Init, TrustInv, KeyChangeAlerted
<1>2. TrustInv => KeyChangeAlerted
  BY DEF TrustInv
<1>3. QED
  BY <1>1, <1>2, NextTrust, TypeCorrect, PTL DEF Spec

-----------------------------------------------------------------------------
(* Explicit grants.  Only authorize adds to a session's grants or makes it   *)
(* Active; beginSession takes an id that held nothing.                       *)

\* An id the map does not hold has no grants.
AbsentHoldsNothing ==
    \A sid \in SessionIds : ~Known(sid) => granted[sid] = {}

\* What ExplicitGrantOnly asks of a step, for one session.
Explicit(sid) ==
    \/ granted'[sid] = granted[sid] /\ (state'[sid] = "Active" => state[sid] = "Active")
    \/ /\ last'.op = "authorize" /\ last'.sid = sid
       /\ granted'[sid] \ granted[sid]
            \subseteq (last'.needed \cap ceiling) \cup {ViewOnly}
       /\ \A e \in {"CapabilityGranted", "SessionActivated"} :
            \E i \in DOMAIN last'.audit :
                last'.audit[i] = Record(peer[sid].fingerprint, e)

\* The records a successful authorize appends hold the grant and the
\* activation, whether or not part of the request was refused.
LEMMA GrantRecords ==
    ASSUME NEW refused \in Seq(AuditRecord), NEW r1, NEW r2, NEW r3
    PROVE  \A r \in {r1, r3} : \E i \in DOMAIN (refused \o <<r1, r2, r3>>) :
                (refused \o <<r1, r2, r3>>)[i] = r
<1> DEFINE log == refused \o <<r1, r2, r3>>
<1>1. Len(refused) \in Nat /\ DOMAIN log = 1..(Len(refused) + 3)
  OBVIOUS
<1>2. log[Len(refused) + 1] = r1 /\ log[Len(refused) + 3] = r3
  OBVIOUS
<1>3. Len(refused) + 1 \in DOMAIN log /\ Len(refused) + 3 \in DOMAIN log
  BY <1>1
<1>4. QED BY <1>2, <1>3

\* Every call of the manager grants explicitly, and leaves ids that are not
\* in the map without grants.
LEMMA NextExplicit ==
    ASSUME TypeOK, AbsentHoldsNothing, [Next]_vars
    PROVE  AbsentHoldsNothing' /\ \A sid \in SessionIds : Explicit(sid)
<1> USE DEF TypeOK
<1> DEFINE Goal == AbsentHoldsNothing' /\ \A sid \in SessionIds : Explicit(sid)
<1>1. ASSUME UNCHANGED <<granted>>,
             \A s \in SessionIds : /\ state'[s] = "Active" => state[s] = "Active"
                                   /\ Known(s)' <=> Known(s)
      PROVE  Goal
  BY <1>1 DEF Explicit, AbsentHoldsNothing
<1>2. ASSUME NEW sid \in SessionIds, NEW to \in SessionState \ {"Active"},
             Known(sid), transition(sid, to), UNCHANGED granted
      PROVE  Goal
  <2>1. \A s \in SessionIds : /\ state'[s] = "Active" => state[s] = "Active"
                              /\ Known(s)' <=> Known(s)
    BY <1>2 DEF transition, StateOK, SessionState, Known
  <2>2. QED BY <1>1, <1>2, <2>1
<1>3. ASSUME UNCHANGED table PROVE Goal
  BY <1>1, <1>3 DEF table, Known
<1>4. ASSUME NEW p \in PeerInfo, beginSession(p) PROVE Goal
  <2>1. CASE p.fingerprint \in deny_list
    BY <1>3, <1>4, <2>1 DEF beginSession
  <2>2. CASE p.fingerprint \notin deny_list
    <3>1. /\ next_id <= MaxSessions
          /\ state' = [state EXCEPT ![next_id] = "Pending"]
          /\ granted' = [granted EXCEPT ![next_id] = {}]
      BY <1>4, <2>2 DEF beginSession, transition
    <3>2. next_id \in SessionIds /\ ~Known(next_id)
      BY <3>1, MaxSessionsAssumption DEF StateOK, SessionIds
    <3>3. granted[next_id] = {}
      BY <3>2 DEF AbsentHoldsNothing
    <3>4. ASSUME NEW s \in SessionIds
          PROVE  /\ granted'[s] = granted[s]
                 /\ state'[s] = "Active" => state[s] = "Active"
                 /\ ~Known(s)' => ~Known(s)
      BY <3>1, <3>2, <3>3 DEF StateOK, Known
    <3>5. QED BY <3>4 DEF Explicit, AbsentHoldsNothing
  <2>3. QED BY <2>1, <2>2
<1>5. ASSUME NEW sid \in SessionIds, NotFound(sid) PROVE Goal
  BY <1>3, <1>5 DEF NotFound
<1>6. ASSUME NEW sid \in SessionIds, onHandshakeStarted(sid) PROVE Goal
  BY <1>2, <1>6 DEF onHandshakeStarted, SessionState
<1>7. ASSUME NEW sid \in SessionIds, NEW fp \in Fingerprints,
             onHandshakeCompleted(sid, fp)
      PROVE  Goal
  <2>1. /\ Known(sid) /\ UNCHANGED granted
        /\ transition(sid, "Denied") \/ UNCHANGED state
    BY <1>7 DEF onHandshakeCompleted
  <2>2. CASE UNCHANGED state
    BY <1>1, <2>1, <2>2 DEF Known
  <2>3. QED BY <1>2, <2>1, <2>2 DEF SessionState
<1>8. ASSUME NEW sid \in SessionIds, NEW caps \in SUBSET Caps, authorize(sid, caps)
      PROVE  Goal
  <2> DEFINE fp == peer[sid].fingerprint
             refused == IF caps \subseteq ceiling \cup {ViewOnly} THEN <<>>
                        ELSE <<Record(fp, "CapabilityDenied")>>
             log == refused \o <<Record(fp, "CapabilityGranted"),
                                Record(fp, "AuthSucceeded"),
                                Record(fp, "SessionActivated")>>
  <2>1. CASE Clamp(caps) = {}
    BY <1>2, <1>8, <2>1 DEF authorize, SessionState
  <2>2. CASE Clamp(caps) # {}
    <3>1. /\ Known(sid)
          /\ state' = [state EXCEPT ![sid] = "Active"]
          /\ granted' = [granted EXCEPT ![sid] = @ \cup GrantMask(caps)]
          /\ Reply("authorize", sid, fp, caps, TRUE, log)
      BY <1>8, <2>2 DEF authorize, transition
    <3>1a. /\ last'.audit = log
           /\ last'.op = "authorize" /\ last'.sid = sid /\ last'.needed = caps
      <4> HIDE DEF log
      <4>1. QED BY <3>1 DEF Reply
    <3>2. refused \in Seq(AuditRecord)
      <4>1. fp \in AnyFp
        BY <3>1 DEF StateOK, PeerInfo
      <4>2. QED BY <4>1, OneRecord DEF AuditEvent
    <3>3. \A e \in {"CapabilityGranted", "SessionActivated"} :
            \E i \in DOMAIN last'.audit : last'.audit[i] = Record(fp, e)
      <4>1. \A r \in {Record(fp, "CapabilityGranted"), Record(fp, "SessionActivated")} :
                \E i \in DOMAIN log : log[i] = r
        <5> HIDE DEF refused
        <5>1. QED BY <3>2, GrantRecords
      <4>2. QED BY <3>1a, <4>1
    <3>4. granted'[sid] \ granted[sid] \subseteq (last'.needed \cap ceiling) \cup {ViewOnly}
      BY <3>1, <3>1a DEF StateOK, GrantMask, Clamp
    <3>5. Explicit(sid)
      BY <3>1a, <3>3, <3>4 DEF Explicit
    <3>6. ASSUME NEW s \in SessionIds, s # sid
          PROVE  granted'[s] = granted[s] /\ state'[s] = state[s]
      BY <3>1, <3>6 DEF StateOK
    <3>7. AbsentHoldsNothing'
      BY <3>1, <3>6 DEF AbsentHoldsNothing, Known, StateOK
    <3>8. QED BY <3>5, <3>6, <3>7 DEF Explicit
  <2>3. QED BY <2>1, <2>2
<1>9. ASSUME NEW sid \in SessionIds, NEW caps \in SUBSET Caps,
             checkPermission(sid, caps)
      PROVE  Goal
  BY <1>3, <1>9 DEF checkPermission
<1>10. ASSUME NEW sid \in SessionIds, deny(sid) \/ closeSession(sid) PROVE Goal
  BY <1>2, <1>10 DEF deny, closeSession, SessionState
<1>11. ASSUME \/ \E caps \in Ceilings : setCapabilityCeiling(caps)
              \/ \E fp \in Fingerprints : allowPeer(fp) \/ denyPeer(fp)
              \/ UNCHANGED vars
       PROVE  Goal
  BY <1>3, <1>11 DEF setCapabilityCeiling, allowPeer, denyPeer, vars
<1>12. QED
  BY <1>4, <1>5, <1>6, <1>7, <1>8, <1>9, <1>10, <1>11 DEF Next

\* No session gains a capability or becomes Active but by an authorize call
\* for it; what the call adds was asked for and is within the ceiling of that
\* moment, or is ViewOnly, and the grant and the activation are on record.
THEOREM GrantsAreExplicit == Spec => ExplicitGrantOnly
<1>1. Init => AbsentHoldsNothing
  BY DEF Init, AbsentHoldsNothing
<1>2. TypeOK /\ AbsentHoldsNothing /\ [Next]_vars => AbsentHoldsNothing'
  BY NextExplicit
<1>3. TypeOK /\ AbsentHoldsNothing /\ [Next]_vars
        => [\A sid \in SessionIds : Explicit(sid)]_vars
  BY NextExplicit
<1>4. Spec => [][\A sid \in SessionIds : Explicit(sid)]_vars
  BY <1>1, <1>2, <1>3, TypeCorrect, PTL DEF Spec
<1>5. QED BY <1>4 DEF ExplicitGrantOnly, Explicit

=============================================================================
