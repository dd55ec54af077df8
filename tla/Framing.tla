------------------------------- MODULE Framing -------------------------------
(***************************************************************************)
(* Codec negotiation and fragmentation: the pure rules of proto/ and of    *)
(* core/codec.  Tiers are numbered as on the wire; a capability record of  *)
(* core/codec is the set of the tiers it can encode and the set it can     *)
(* decode.  Integer widths are parameters: Word for uint32_t, Half for     *)
(* uint16_t.                                                               *)
(***************************************************************************)
EXTENDS Integers, FiniteSetsExt

CONSTANTS Word, Half, Overhead   \* Overhead: FrameHeader and AEAD tag, in bytes

ASSUME WidthAssumption == Word \in Nat /\ Half \in 2..Word /\ Overhead \in Nat

kNone == 0
kH264 == 1
kHevc420 == 2
kHevc444 == 3
kAv1 == 4
Tiers == {kH264, kHevc420, kHevc444, kAv1}

\* proto: the highest tier in both lists.
negotiateTier(local, remote) == Max((local \cap remote) \cup {kNone})

\* core/codec, for the direction in which one end encodes and the other decodes.
\* A slip: the chroma of HEVC is chosen by the encoder alone.
negotiateCodecAlone(local, remote, localIsSender) ==
    LET enc == IF localIsSender THEN local.enc ELSE remote.enc
        dec == IF localIsSender THEN remote.dec ELSE local.dec
        both == enc \cap dec
    IN  IF kAv1 \in both THEN kAv1
        ELSE IF kHevc420 \in both THEN (IF kHevc444 \in local.enc THEN kHevc444 ELSE kHevc420)
        ELSE IF kH264 \in both THEN kH264 ELSE kNone
negotiateCodec(local, remote, localIsSender) ==
    LET enc == IF localIsSender THEN local.enc ELSE remote.enc
        dec == IF localIsSender THEN remote.dec ELSE local.dec
        both == enc \cap dec
    IN  IF kAv1 \in both THEN kAv1
        ELSE IF kHevc420 \in both THEN (IF kHevc444 \in both THEN kHevc444 ELSE kHevc420)
        ELSE IF kH264 \in both THEN kH264 ELSE kNone

usablePayloadBudget(mtu) == IF mtu > Overhead THEN mtu - Overhead ELSE 0

\* A slip: the last, partial frame is not counted.
fragmentCountFloor(total, budget) ==
    IF budget = 0 THEN 0 ELSE IF total = 0 THEN 1 ELSE (total \div budget) % Half
fragmentCount(total, budget) ==
    IF budget = 0 THEN 0
    ELSE IF total = 0 THEN 1
    ELSE (((total + budget - 1) % Word) \div budget) % Half

\* A header with frag_count and kFlagFragment as given.
isWholeMessage(count, fragment) == count <= 1 /\ ~fragment

=============================================================================
