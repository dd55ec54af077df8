-------------------------- MODULE NoiseSessionProofs --------------------------
(***************************************************************************)
(* Proofs about NoiseSession, for every set of keys and payloads and any   *)
(* number of messages: the safety part, over a network that may lose,      *)
(* repeat and reorder.                                                     *)
(***************************************************************************)
EXTENDS NoiseSession, TLAPS

\* The transport phase: nonces below the counters.
TransportTypes ==
    /\ send_nonce \in [Ends -> Nat] /\ recv_nonce \in [Ends -> Nat]
    /\ received \in [Ends -> Seq(Result)]
    /\ \A p \in packets : p.from \in Ends /\ p.nonce \in Nat /\ p.plain \in Payloads

RecvBelow ==
    \A e \in Ends : \A i \in 1..Len(received[e]) : received[e][i].nonce < recv_nonce[e]
SentBelow == \A p \in packets : p.nonce < send_nonce[p.from]

TransportInv == TransportTypes /\ RecvBelow /\ SentBelow /\ InOrder /\ NoncesFresh

\* The handshake: offers are true, a key that was read came from one, an end
\* that is done has read, and only ends that are done have sent packets.
HandshakeTypes ==
    /\ stored \in [Ends -> Keys \cup {Zero}] /\ seed \in [Ends -> 0..(Seeds - 1)]
    /\ local \in [Ends -> Keys \cup {Zero}]
    /\ remote \in [Ends -> Keys \cup {Zero}]
    /\ DOMAIN done = Ends
    /\ written \in [Ends -> Nat] /\ read \in [Ends -> Nat]
    /\ received \in [Ends -> Seq(Result)]
    /\ \A m \in offers : m.from \in Ends /\ m.key = local[m.from] /\ written[m.from] >= 1
    /\ \A e \in Ends : written[e] >= 1 \/ read[e] >= 1 => local[e] # Zero
    /\ \A p \in packets : p.from \in Ends

ReadTrue ==
    \A e \in Ends : read[e] >= 1 => remote[e] = local[Other(e)] /\ written[Other(e)] >= 1
DoneRead == \A e \in Ends : done[e] => read[e] >= 1
SentByDone == \A p \in packets : done[p.from]
ReceivedWhenDone == \A e \in Ends : received[e] # <<>> => done[e] /\ done[Other(e)]

HandshakeInv == HandshakeTypes /\ ReadTrue /\ DoneRead /\ SentByDone /\ ReceivedWhenDone

-----------------------------------------------------------------------------
LEMMA OtherFact ==
    \A e \in Ends : Other(e) \in Ends /\ Other(e) # e /\ Other(Other(e)) = e
BY DEF Ends, Other

\* A key store holds keys.
LEMMA StoreTypes ==
    ASSUME stored \in [Ends -> Keys \cup {Zero}], seed \in [Ends -> 0..(Seeds - 1)],
           NEW e \in Ends, UseKeyStore(e)
    PROVE  stored' \in [Ends -> Keys \cup {Zero}] /\ seed' \in [Ends -> 0..(Seeds - 1)]
<1>1. Derived[seed[e]] \in Keys /\ (seed[e] + 1) % Seeds \in 0..(Seeds - 1)
  BY SeedsAssumption
<1>2. QED
  BY <1>1, SeedsAssumption DEF UseKeyStore, generate, loadOrGenerate, load, store, makeStubIdentity

LEMMA TransportNext == TransportInv /\ [Next]_vars => TransportInv'
<1> SUFFICES ASSUME TransportInv, [Next]_vars PROVE TransportInv'
  OBVIOUS
<1> USE DEF TransportInv
<1>1. ASSUME UNCHANGED transport PROVE TransportInv'
  BY <1>1 DEF transport, TransportTypes, RecvBelow, SentBelow, InOrder, NoncesFresh
<1>2. ASSUME NEW e \in Ends, NEW plain \in Payloads, encrypt(e, plain)
      PROVE  TransportInv'
  <2> DEFINE new == [from |-> e, nonce |-> send_nonce[e], plain |-> plain,
                     stream |-> Stream(e)]
  <2>1. /\ packets' = packets \cup {new}
        /\ send_nonce' = [send_nonce EXCEPT ![e] = send_nonce[e] + 1]
        /\ UNCHANGED <<recv_nonce, received>>
    BY <1>2 DEF encrypt, nextSend
  <2>2. new.from = e /\ new.nonce = send_nonce[e] /\ new.plain = plain
    OBVIOUS
  <2> HIDE DEF new
  <2>3. TransportTypes'
    BY <2>1, <2>2 DEF TransportTypes
  <2>4. SentBelow'
    BY <2>1, <2>2 DEF TransportTypes, SentBelow
  <2>5. RecvBelow' /\ InOrder'
    BY <2>1 DEF RecvBelow, InOrder
  <2>6. NoncesFresh'
    BY <2>1, <2>2 DEF TransportTypes, SentBelow, NoncesFresh
  <2>7. QED BY <2>3, <2>4, <2>5, <2>6
<1>3. ASSUME NEW e \in Ends, NEW p \in packets, decrypt(e, p)
      PROVE  TransportInv'
  <2> DEFINE new == [nonce |-> p.nonce, plain |-> xorStream(p, e)]
  <2>1. /\ p.nonce >= recv_nonce[e] /\ p.nonce \in Nat
        /\ recv_nonce' = [recv_nonce EXCEPT ![e] = p.nonce + 1]
        /\ received' = [received EXCEPT ![e] = Append(received[e], new)]
        /\ UNCHANGED <<send_nonce, packets>>
    BY <1>3 DEF decrypt, nextRecv, TransportTypes
  <2>2. new \in Result /\ new.nonce = p.nonce
    BY <2>1 DEF Result, xorStream, TransportTypes
  <2> HIDE DEF new
  <2>3. TransportTypes'
    BY <2>1, <2>2 DEF TransportTypes
  <2>4. SentBelow' /\ NoncesFresh'
    BY <2>1 DEF SentBelow, NoncesFresh
  <2>5. /\ received[e] \in Seq(Result) /\ recv_nonce[e] \in Nat
        /\ \A i \in 1..Len(received[e]) :
                received[e][i].nonce < recv_nonce[e] /\ received[e][i].nonce \in Nat
    <3>1. received[e] \in Seq(Result) /\ recv_nonce[e] \in Nat
      BY DEF TransportTypes
    <3>2. \A i \in 1..Len(received[e]) : received[e][i] \in Result
      BY <3>1
    <3>3. \A i \in 1..Len(received[e]) : received[e][i].nonce \in Nat
      BY <3>2 DEF Result
    <3>4. QED BY <3>1, <3>3 DEF RecvBelow
  <2>6. /\ Len(received'[e]) = Len(received[e]) + 1
        /\ received'[e][Len(received[e]) + 1] = new
        /\ \A i \in 1..Len(received[e]) : received'[e][i] = received[e][i]
        /\ recv_nonce'[e] = p.nonce + 1
    BY <2>1, <2>2, <2>5 DEF TransportTypes
  <2>7. \A d \in Ends \ {e} : received'[d] = received[d] /\ recv_nonce'[d] = recv_nonce[d]
    BY <2>1 DEF TransportTypes
  <2>8. RecvBelow'
    <3> SUFFICES ASSUME NEW d \in Ends, NEW i \in 1..Len(received'[d])
                 PROVE  received'[d][i].nonce < recv_nonce'[d]
      BY DEF RecvBelow
    <3>1. CASE d # e
      BY <2>7, <3>1 DEF RecvBelow
    <3>2. CASE d = e
      BY <2>1, <2>2, <2>5, <2>6, <3>2
    <3>3. QED BY <3>1, <3>2
  <2>9. InOrder'
    <3> SUFFICES ASSUME NEW d \in Ends, NEW i \in 1..Len(received'[d]),
                        NEW j \in 1..Len(received'[d]), i < j
                 PROVE  received'[d][i].nonce < received'[d][j].nonce
      BY DEF InOrder
    <3>1. CASE d # e
      BY <2>7, <3>1 DEF InOrder
    <3>2. CASE d = e
      <4>1. CASE j = Len(received[e]) + 1
        BY <2>1, <2>2, <2>5, <2>6, <3>2, <4>1
      <4>2. CASE j # Len(received[e]) + 1
        <5>1. Len(received[e]) \in Nat
          BY <2>5
        <5>2. i \in 1..Len(received[e]) /\ j \in 1..Len(received[e])
          BY <2>6, <3>2, <4>2, <5>1
        <5>3. received[e][i].nonce < received[e][j].nonce
          BY <5>2 DEF InOrder
        <5>4. QED BY <2>6, <3>2, <5>2, <5>3
      <4>3. QED BY <4>1, <4>2
    <3>3. QED BY <3>1, <3>2
  <2>10. QED BY <2>3, <2>4, <2>8, <2>9
<1>4. QED
  BY <1>1, <1>2, <1>3
  DEF Next, vars, noise, UseKeyStore, createNoiseSession, writeMessage, readMessage

-----------------------------------------------------------------------------
\* An end without a session has not been heard of.
LEMMA Unmade ==
    ASSUME HandshakeInv, NEW e \in Ends, local[e] = Zero
    PROVE  /\ written[e] = 0 /\ read[Other(e)] = 0 /\ \A m \in offers : m.from # e
           /\ ~done[e] /\ ~done[Other(e)] /\ read[e] = 0
<1>1. written[e] = 0 /\ read[e] = 0
  BY DEF HandshakeInv, HandshakeTypes
<1>2. read[Other(e)] = 0
  BY <1>1, OtherFact DEF HandshakeInv, HandshakeTypes, ReadTrue
<1>3. \A m \in offers : m.from # e
  BY <1>1 DEF HandshakeInv, HandshakeTypes
<1>4. QED BY <1>1, <1>2, <1>3, OtherFact DEF HandshakeInv, DoneRead

LEMMA HandshakeNext == TransportInv /\ HandshakeInv /\ [Next]_vars => HandshakeInv'
<1> SUFFICES ASSUME TransportInv, HandshakeInv, [Next]_vars PROVE HandshakeInv'
  OBVIOUS
<1>0. received' \in [Ends -> Seq(Result)]
  BY TransportNext DEF TransportInv, TransportTypes
<1> USE OtherFact DEF HandshakeInv
<1>1. ASSUME NEW e \in Ends, writeMessage(e) PROVE HandshakeInv'
  <2>1. /\ ~done[e]
        /\ offers' = offers \cup {[from |-> e, key |-> local[e]]}
        /\ written' = [written EXCEPT ![e] = written[e] + 1]
        /\ UNCHANGED <<stored, seed, local, remote, read, received, packets>>
        /\ local[e] # Zero
    BY <1>1 DEF writeMessage, keystore, params, transport
  <2>2. /\ DOMAIN done' = Ends
        /\ \A d \in Ends \ {e} : done'[d] = done[d]
        /\ done'[e] => read[e] >= 1
    BY <1>1 DEF writeMessage, maybeComplete, HandshakeTypes
  <2>3. HandshakeTypes'
    BY <2>1, <2>2 DEF HandshakeTypes
  <2>4. ReadTrue'
    BY <2>1 DEF HandshakeTypes, ReadTrue
  <2>5. DoneRead'
    BY <2>1, <2>2 DEF DoneRead
  <2>6. SentByDone'
    BY <2>1, <2>2 DEF SentByDone, HandshakeTypes
  <2>7. ReceivedWhenDone'
    BY <2>1, <2>2 DEF ReceivedWhenDone
  <2>8. QED BY <2>3, <2>4, <2>5, <2>6, <2>7
<1>2. ASSUME NEW e \in Ends, readMessage(e) PROVE HandshakeInv'
  <2>1. PICK m \in offers : m.from = Other(e) /\ remote' = [remote EXCEPT ![e] = m.key]
    BY <1>2 DEF readMessage
  <2>2. /\ ~done[e]
        /\ read' = [read EXCEPT ![e] = read[e] + 1]
        /\ UNCHANGED <<stored, seed, local, written, offers, received, packets>>
        /\ local[e] # Zero
    BY <1>2 DEF readMessage, keystore, params, transport
  <2>3. /\ DOMAIN done' = Ends
        /\ \A d \in Ends \ {e} : done'[d] = done[d]
        /\ done'[e] => read'[e] >= 1
    BY <1>2 DEF readMessage, maybeComplete, HandshakeTypes
  <2>4. m.key = local[Other(e)] /\ written[Other(e)] >= 1 /\ m.key \in Keys \cup {Zero}
    BY <2>1 DEF HandshakeTypes
  <2>5. HandshakeTypes'
    BY <2>1, <2>2, <2>3, <2>4 DEF HandshakeTypes
  <2>6. ReadTrue'
    BY <2>1, <2>2, <2>4 DEF HandshakeTypes, ReadTrue
  <2>7. DoneRead'
    BY <2>2, <2>3 DEF DoneRead, HandshakeTypes
  <2>8. SentByDone'
    BY <2>2, <2>3 DEF SentByDone, HandshakeTypes
  <2>9. ReceivedWhenDone'
    BY <2>2, <2>3 DEF ReceivedWhenDone
  <2>10. QED BY <2>5, <2>6, <2>7, <2>8, <2>9
<1>3. ASSUME NEW e \in Ends, NEW plain \in Payloads, encrypt(e, plain)
      PROVE  HandshakeInv'
  <2>1. /\ done[e]
        /\ \A p \in packets' : p \in packets \/ p.from = e
        /\ UNCHANGED <<stored, seed, local, remote, done, written, read, offers, received>>
    BY <1>3 DEF encrypt, keystore, params, handshake
  <2>2. QED
    BY <2>1 DEF HandshakeTypes, ReadTrue, DoneRead, SentByDone, ReceivedWhenDone
<1>4. ASSUME NEW e \in Ends, NEW p \in packets, decrypt(e, p)
      PROVE  HandshakeInv'
  <2>1. /\ done[e] /\ p.from = Other(e)
        /\ \A d \in Ends \ {e} : received'[d] = received[d]
        /\ UNCHANGED <<stored, seed, local, remote, done, written, read, offers, packets>>
    BY <1>4 DEF decrypt, keystore, params, handshake, HandshakeTypes
  <2>2. ReceivedWhenDone'
    BY <2>1 DEF ReceivedWhenDone, SentByDone
  <2>3. QED
    BY <1>0, <2>1, <2>2 DEF HandshakeTypes, ReadTrue, DoneRead, SentByDone
<1>5. CASE UNCHANGED vars
  BY <1>5 DEF vars, keystore, noise, params, handshake, transport, HandshakeTypes, ReadTrue,
     DoneRead, SentByDone, ReceivedWhenDone
<1>6. ASSUME NEW e \in Ends, UseKeyStore(e) PROVE HandshakeInv'
  <2>1. stored' \in [Ends -> Keys \cup {Zero}] /\ seed' \in [Ends -> 0..(Seeds - 1)]
    BY <1>6, StoreTypes DEF HandshakeTypes
  <2>2. QED
    BY <1>6, <2>1 DEF UseKeyStore, noise, params, handshake, transport, HandshakeTypes, ReadTrue,
       DoneRead, SentByDone, ReceivedWhenDone
<1>7. ASSUME NEW e \in Ends, createNoiseSession(e) PROVE HandshakeInv'
  <2>1. /\ local[e] = Zero /\ local' = [local EXCEPT ![e] = stored[e]] /\ stored[e] # Zero
        /\ remote' \in [Ends -> Keys \cup {Zero}]
        /\ \A d \in Ends \ {e} : remote'[d] = remote[d]
        /\ UNCHANGED <<stored, seed, done, written, read, offers, packets, received>>
    BY <1>7 DEF createNoiseSession, load, keystore, transport, HandshakeTypes
  <2>2. read[e] = 0 /\ read[Other(e)] = 0 /\ \A m \in offers : m.from # e
    BY <2>1, Unmade
  <2>3. HandshakeTypes'
    BY <2>1, <2>2 DEF HandshakeTypes
  <2>4. QED
    BY <2>1, <2>2, <2>3 DEF ReadTrue, DoneRead, SentByDone, ReceivedWhenDone, Ends, Other
<1>8. QED BY <1>1, <1>2, <1>3, <1>4, <1>5, <1>6, <1>7 DEF Next

-----------------------------------------------------------------------------
LEMMA SpecInv == Spec => [](TransportInv /\ HandshakeInv)
<1>1. Init => TransportInv
  BY DEF Init, TransportInv, TransportTypes, RecvBelow, SentBelow, InOrder, NoncesFresh
<1>2. Init => HandshakeInv
  <2> SUFFICES ASSUME Init PROVE HandshakeInv
    OBVIOUS
  <2>1. seed \in [Ends -> 0..(Seeds - 1)]
    BY SeedsAssumption DEF Init, KeyStoreInit
  <2>2. HandshakeTypes
    BY <2>1 DEF Init, KeyStoreInit, HandshakeTypes
  <2>3. QED
    BY <2>2 DEF Init, HandshakeInv, ReadTrue, DoneRead, SentByDone, ReceivedWhenDone
<1>3. QED
  BY <1>1, <1>2, TransportNext, HandshakeNext, PTL DEF Spec

\* crypto_stub.cpp:193-198: over any network and for any number of messages,
\* accepted nonces strictly increase, so no message is accepted twice.
THEOREM AcceptedInOrder == Spec => []InOrder
BY SpecInv, PTL DEF TransportInv

\* crypto_stub.cpp:169: no two messages of one direction share a nonce.
THEOREM NoncesAlwaysFresh == Spec => []NoncesFresh
BY SpecInv, PTL DEF TransportInv

\* crypto_stub.cpp:101-135, 210-221: whatever remote key it was given, an end
\* that finished holds the key its peer uses and has heard the peer, and data is
\* accepted only between ends that both finished.
THEOREM HandshakesAgree == Spec => []HandshakeAgreement
<1>1. HandshakeInv => HandshakeAgreement
  BY DEF HandshakeInv, HandshakeAgreement, ReadTrue, DoneRead, ReceivedWhenDone
<1>2. QED BY <1>1, SpecInv, PTL

\* Every variable keeps its type: a handshake message carries a key, never the
\* zero of an unfilled PublicKey, and a result is a payload or a garbled one.
THEOREM TypeCorrect == Spec => []TypeOK
<1> DEFINE Rest == /\ pattern \in NoisePattern
                   /\ remote_known \in [Ends -> BOOLEAN] /\ done \in [Ends -> BOOLEAN]
                   /\ offers \subseteq [from : Ends, key : Keys]
                   /\ packets \subseteq Packet
<1>1. Init => Rest
  <2> SUFFICES ASSUME Init PROVE Rest
    OBVIOUS
  <2>1. remote_known \in [Ends -> BOOLEAN] /\ done \in [Ends -> BOOLEAN]
    BY Zenon DEF Init, RemoteKnown
  <2>2. pattern \in NoisePattern /\ offers \subseteq [from : Ends, key : Keys]
        /\ packets \subseteq Packet
    BY DEF Init
  <2>3. QED BY <2>1, <2>2
<1>2. TransportInv /\ HandshakeInv /\ Rest /\ [Next]_vars => Rest'
  <2> SUFFICES ASSUME TransportInv, HandshakeInv, Rest, [Next]_vars PROVE Rest'
    OBVIOUS
  <2>1. ASSUME NEW e \in Ends, writeMessage(e) PROVE Rest'
    <3>1. done' \in [Ends -> BOOLEAN]
      <4>1. maybeComplete(remote_known[e], written'[e], read[e]) \in BOOLEAN
        BY Zenon DEF maybeComplete
      <4>2. QED BY <2>1, <4>1, Zenon DEF writeMessage
    <3>2. offers' \subseteq [from : Ends, key : Keys]
      BY <2>1 DEF writeMessage, HandshakeInv, HandshakeTypes
    <3>3. UNCHANGED <<pattern, remote, remote_known, packets>>
      BY <2>1 DEF writeMessage, params, transport
    <3>4. QED BY <3>1, <3>2, <3>3
  <2>2. ASSUME NEW e \in Ends, readMessage(e) PROVE Rest'
    <3>1. done' \in [Ends -> BOOLEAN]
      <4>1. maybeComplete(TRUE, written[e], read'[e]) \in BOOLEAN
        BY Zenon DEF maybeComplete
      <4>2. QED BY <2>2, <4>1, Zenon DEF readMessage
    <3>2. remote_known' = [remote_known EXCEPT ![e] = TRUE]
          /\ UNCHANGED <<pattern, offers, packets>>
      BY <2>2 DEF readMessage, params, transport
    <3>3. remote_known' \in [Ends -> BOOLEAN]
      BY <3>2, Zenon
    <3>4. QED BY <3>1, <3>2, <3>3
  <2>3. ASSUME NEW e \in Ends, NEW plain \in Payloads, encrypt(e, plain) PROVE Rest'
    <3> DEFINE new == [from |-> e, nonce |-> send_nonce[e], plain |-> plain,
                       stream |-> Stream(e)]
    <3>1. Stream(e) \in Seq(Keys \cup {Zero})
      BY DEF Stream, HandshakeInv, HandshakeTypes
    <3>2. new \in Packet
      BY <3>1 DEF Packet, TransportInv, TransportTypes
    <3>3. packets' = packets \cup {new}
      BY <2>3 DEF encrypt
    <3>4. UNCHANGED <<pattern, remote, remote_known, done, offers>>
      BY <2>3 DEF encrypt, params, handshake
    <3> HIDE DEF new
    <3>5. QED BY <3>2, <3>3, <3>4
  <2>4. ASSUME NEW e \in Ends, NEW p \in packets, decrypt(e, p) PROVE Rest'
    BY <2>4, Zenon DEF decrypt, params, handshake
  <2>5. CASE UNCHANGED vars
    BY <2>5, Zenon DEF vars, noise, params, handshake, transport
  <2>6. ASSUME NEW e \in Ends, UseKeyStore(e) PROVE Rest'
    BY <2>6, Zenon DEF UseKeyStore, noise, params, handshake, transport
  <2>7. ASSUME NEW e \in Ends, createNoiseSession(e) PROVE Rest'
    <3>1. remote_known' = [remote_known EXCEPT ![e] = RemoteKnown(pattern)]
          /\ UNCHANGED <<pattern, done, offers, packets>>
      BY <2>7 DEF createNoiseSession, transport
    <3>2. remote_known' \in [Ends -> BOOLEAN]
      <4>1. RemoteKnown(pattern) \in BOOLEAN
        BY DEF RemoteKnown
      <4>2. QED BY <3>1, <4>1, Zenon
    <3>3. QED BY <3>1, <3>2
  <2>8. QED BY <2>1, <2>2, <2>3, <2>4, <2>5, <2>6, <2>7 DEF Next
<1>3. TransportInv /\ HandshakeInv /\ Rest => TypeOK
  BY DEF TransportInv, TransportTypes, HandshakeInv, HandshakeTypes, TypeOK
<1>4. QED BY <1>1, <1>2, <1>3, SpecInv, PTL DEF Spec

=============================================================================
