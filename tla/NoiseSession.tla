----------------------------- MODULE NoiseSession -----------------------------
(***************************************************************************)
(* The secure channel of core/crypto as the default build has it: two      *)
(* StubNoiseSessions, each made from the identity in its device's key      *)
(* store, that exchange static keys, then number and mask their messages.  *)
(* The network between them may lose, repeat and reorder: what was sent    *)
(* stays available and is read any number of times, or never.  Calls that  *)
(* return an error (short or oversized input, wrong phase, old nonce)      *)
(* change nothing.                                                         *)
(***************************************************************************)
EXTENDS KeyStore, Sequences

CONSTANTS
    Payloads,   \* plaintexts, long enough that two streams mask them differently
    MaxWrites,  \* bound: handshake messages an end writes
    MaxReads,   \* bound: handshake messages an end reads
    MaxSends    \* bound: transport messages an end sends

ASSUME PayloadsAssumption == "garbled" \notin Payloads
ASSUME NoiseBoundsAssumption == MaxWrites \in Nat /\ MaxReads \in Nat /\ MaxSends \in Nat

VARIABLES
    pattern,        \* pattern_, the same at both ends
    local,          \* local_.public_key of each end, Zero while it has no session
    remote,         \* remote_static_
    remote_known,
    done,           \* handshake_done_
    written, read,  \* messages_written_, messages_read_
    send_nonce, recv_nonce,
    offers,         \* handshake messages sent: sender and the key in it
    packets,        \* transport messages sent
    received        \* history: what decrypt() returned at each end, in order

params == <<pattern, local>>
handshake == <<remote, remote_known, done, written, read, offers>>
transport == <<send_nonce, recv_nonce, packets, received>>
noise == <<params, handshake, transport>>
vars == <<keystore, noise>>

Other(e) == IF e = "initiator" THEN "responder" ELSE "initiator"
NoisePattern == {"XK", "KK"}

\* The masking stream: the end's own key, then the peer's as it knows it.
Stream(e) == <<local[e], remote[e]>>
Packet == [from : Ends, nonce : Nat, plain : Payloads, stream : Seq(Keys \cup {Zero})]

\* Masking twice with one stream gives the plaintext; with two it does not.
Garbled == "garbled"
xorStream(p, e) == IF p.stream = Stream(e) THEN p.plain ELSE Garbled

\* The channel binding: a hash of the two keys in the same order.
handshakeHash(e) == <<local[e], remote[e]>>

-----------------------------------------------------------------------------
RemoteKnown(pat) == pat = "KK"

\* No session is made yet; which pattern both ends will use is settled.
Init ==
    /\ KeyStoreInit
    /\ pattern \in NoisePattern
    /\ local = [e \in Ends |-> Zero] /\ remote = [e \in Ends |-> Zero]
    /\ remote_known = [e \in Ends |-> FALSE]
    /\ done = [e \in Ends |-> FALSE]
    /\ written = [e \in Ends |-> 0] /\ read = [e \in Ends |-> 0]
    /\ send_nonce = [e \in Ends |-> 0] /\ recv_nonce = [e \in Ends |-> 0]
    /\ offers = {} /\ packets = {}
    /\ received = [e \in Ends |-> <<>>]

\* A device uses its key store.  A session has a copy of the identity, so what
\* becomes of the store afterwards does not matter and is left out.
UseKeyStore(e) ==
    /\ local[e] = Zero
    /\ generate(e) \/ loadOrGenerate(e) \/ \E key \in Imported : store(e, key)
    /\ UNCHANGED noise

\* The identity load() returns, and whatever remote key the caller supplies: the
\* peer's, an old one, or zero.  KK counts it as known without looking at it.
createNoiseSession(e) ==
    /\ local[e] = Zero /\ load(e) # Zero
    /\ local' = [local EXCEPT ![e] = load(e)]
    /\ \E key \in Keys \cup {Zero} : remote' = [remote EXCEPT ![e] = key]
    /\ remote_known' = [remote_known EXCEPT ![e] = RemoteKnown(pattern)]
    /\ UNCHANGED <<keystore, pattern, done, written, read, offers, transport>>

\* A slip: an end that only wrote is done as soon as it knows a remote key.
maybeCompleteUnread(known, w, r) == known /\ w >= 1
maybeComplete(known, w, r) == known /\ w >= 1 /\ r >= 1

\* An end's own key, in the clear.
writeMessage(e) ==
    /\ local[e] # Zero /\ ~done[e]
    /\ written[e] < MaxWrites
    /\ offers' = offers \cup {[from |-> e, key |-> local[e]]}
    /\ written' = [written EXCEPT ![e] = @ + 1]
    /\ done' = [done EXCEPT ![e] = maybeComplete(remote_known[e], written'[e], read[e])]
    /\ UNCHANGED <<keystore, params, remote, remote_known, read, transport>>

\* A slip: the message is not counted.
readMessageUncounted(e) ==
    /\ local[e] # Zero /\ ~done[e]
    /\ \E m \in offers :
        /\ m.from = Other(e)
        /\ remote' = [remote EXCEPT ![e] = m.key]
    /\ remote_known' = [remote_known EXCEPT ![e] = TRUE]
    /\ UNCHANGED <<keystore, params, done, written, read, offers, transport>>

\* The key in the message replaces the one the end had, under KK too.
readMessage(e) ==
    /\ local[e] # Zero /\ ~done[e]
    /\ read[e] < MaxReads
    /\ \E m \in offers :
        /\ m.from = Other(e)
        /\ remote' = [remote EXCEPT ![e] = m.key]
    /\ remote_known' = [remote_known EXCEPT ![e] = TRUE]
    /\ read' = [read EXCEPT ![e] = @ + 1]
    /\ done' = [done EXCEPT ![e] = maybeComplete(TRUE, written[e], read'[e])]
    /\ UNCHANGED <<keystore, params, written, offers, transport>>

\* A slip: the nonce is not advanced.
nextSendSame(n) == n
nextSend(n) == n + 1

encrypt(e, plain) ==
    /\ done[e]
    /\ send_nonce[e] < MaxSends
    /\ packets' = packets \cup {[from |-> e, nonce |-> send_nonce[e],
                                 plain |-> plain, stream |-> Stream(e)]}
    /\ send_nonce' = [send_nonce EXCEPT ![e] = nextSend(@)]
    /\ UNCHANGED <<keystore, params, handshake, recv_nonce, received>>

\* A slip: the nonce just accepted is accepted again.
nextRecvSame(n) == n
nextRecv(n) == n + 1

\* A nonce below recv_nonce_ is refused, whether repeated or only late.
decrypt(e, p) ==
    /\ done[e]
    /\ p.from = Other(e)
    /\ p.nonce >= recv_nonce[e]
    /\ recv_nonce' = [recv_nonce EXCEPT ![e] = nextRecv(p.nonce)]
    /\ received' = [received EXCEPT ![e] =
                        Append(@, [nonce |-> p.nonce, plain |-> xorStream(p, e)])]
    /\ UNCHANGED <<keystore, params, handshake, send_nonce, packets>>

Next ==
    \E e \in Ends :
        \/ UseKeyStore(e)
        \/ createNoiseSession(e)
        \/ writeMessage(e)
        \/ readMessage(e)
        \/ \E plain \in Payloads : encrypt(e, plain)
        \/ \E p \in packets : decrypt(e, p)

\* Each end keeps driving the handshake it has not finished, and a handshake
\* message that was sent is eventually read.
Spec ==
    /\ Init /\ [][Next]_vars
    /\ \A e \in Ends : WF_vars(writeMessage(e)) /\ WF_vars(readMessage(e))

-----------------------------------------------------------------------------
(* Properties *)

Result == [nonce : Nat, plain : Payloads \cup {Garbled}]

\* The type of every variable.
TypeOK ==
    /\ pattern \in NoisePattern
    /\ stored \in [Ends -> Keys \cup {Zero}] /\ seed \in [Ends -> 0..(Seeds - 1)]
    /\ local \in [Ends -> Keys \cup {Zero}]
    /\ remote \in [Ends -> Keys \cup {Zero}]
    /\ remote_known \in [Ends -> BOOLEAN] /\ done \in [Ends -> BOOLEAN]
    /\ written \in [Ends -> Nat] /\ read \in [Ends -> Nat]
    /\ send_nonce \in [Ends -> Nat] /\ recv_nonce \in [Ends -> Nat]
    /\ offers \subseteq [from : Ends, key : Keys]
    /\ packets \subseteq Packet
    /\ received \in [Ends -> Seq(Result)]

\* Replay rejection (crypto_stub.cpp:194-199, crypto.h "monotonic,
\* replay-rejecting"): whatever the network repeats or reorders, an end
\* accepts nonces in strictly increasing order, so each message once.
InOrder ==
    \A e \in Ends : \A i, j \in 1..Len(received[e]) :
        i < j => received[e][i].nonce < received[e][j].nonce

\* A nonce is never used for two messages of one direction.
NoncesFresh ==
    \A p, q \in packets : p.from = q.from /\ p.nonce = q.nonce => p = q

\* What a finished handshake is worth (maybeComplete, crypto_stub.cpp:210-221).
\* Whatever key an end was given and whatever was repeated or reordered, an end
\* that is done knows the key its peer really uses, its peer has spoken, and
\* nothing is accepted from a peer that had not finished.
HandshakeAgreement ==
    \A e \in Ends :
        /\ done[e] => remote[e] = local[Other(e)] /\ written[Other(e)] >= 1
        /\ received[e] # <<>> => done[e] /\ done[Other(e)]

\* What the stub is for: "so the transport/session layers can run
\* encrypt()/decrypt() round-trips" (crypto_stub.cpp:7-8), and "both sides must
\* agree on the handshake hash" (tests/test_crypto_handshake.cpp:55).  Once both
\* ends are done their bindings are equal, and what one encrypted the other
\* reads.  The code puts its own key first in both (139-144, 227-229): violated.
RoundTrip ==
    \A e \in Ends :
        /\ done[e] /\ done[Other(e)] => handshakeHash(e) = handshakeHash(Other(e))
        /\ \A i \in 1..Len(received[e]) : received[e][i].plain # Garbled

\* When nothing is lost the handshake ends at both ends once both have a
\* session, in whatever order they write and read (maybeComplete,
\* crypto_stub.cpp:210-221).
HandshakeCompletes == (\A e \in Ends : local[e] # Zero) ~> (\A e \in Ends : done[e])

=============================================================================
