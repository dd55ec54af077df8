----------------------------- MODULE MediaControl -----------------------------
(***************************************************************************)
(* How a stream is set up and driven: messages are cut into frames, the    *)
(* two ends agree on a codec, each for itself, and the feedback of the     *)
(* receiving end drives the sender's bitrate while the link changes.       *)
(* Fragmentation and negotiation do not depend on the rate, so they are    *)
(* steps of phases before it, which keeps the instance small.              *)
(***************************************************************************)
EXTENDS CongestionController, Framing

CONSTANTS
    Reports,     \* feedback reports of a receiver
    Bounds,      \* <<min, max>> the application asks for
    MaxTunes     \* bound: calls of setBitrateBounds

ASSUME ControlAssumption ==
    /\ Reports \subseteq [lost : 0..(Width - 1), received : 0..(Width - 1), late : BOOLEAN]
    /\ Bounds \subseteq (0..(Width - 1)) \X (0..(Width - 1))
    /\ MaxTunes \in Nat

VARIABLES
    phase,       \* "framing", "hello", "streaming"
    message,     \* the message being cut: its bytes, budget and number of frames
    caps,        \* probed capabilities of the sending and the receiving end
    codec,       \* the tier each end has chosen, or Unset
    link,        \* what the path does, as reports tell it
    tunes        \* calls of setBitrateBounds so far

setup == <<phase, message, caps, codec>>
controlVars == <<controller, setup, link, tunes>>

Sides == {"sender", "receiver"}
Other(side) == IF side = "sender" THEN "receiver" ELSE "sender"
Unset == -1
Links == {"clear", "mixed", "congested", "dead", "flood"}
NoMessage == [total |-> 0, budget |-> 1, count |-> 1]
NoCaps == [side \in Sides |-> [enc |-> {}, dec |-> {}]]

ControlInit ==
    /\ ControllerInit
    /\ phase = "framing" /\ message = NoMessage
    /\ caps = NoCaps /\ codec = [side \in Sides |-> Unset]
    /\ link = "clear" /\ tunes = 0

\* A message of any size on a path of any MTU.
Fragment ==
    /\ phase = "framing"
    /\ \E total \in 0..(Word - 1), mtu \in 0..(Overhead + Half) :
          message' = [total |-> total, budget |-> usablePayloadBudget(mtu),
                      count |-> fragmentCount(total, usablePayloadBudget(mtu))]
    /\ UNCHANGED <<controller, phase, caps, codec, link, tunes>>

\* The ends exchange what they probed.  The stub claims every tier; what a
\* sender decodes and a receiver encodes must not matter.
Hello ==
    /\ phase = "framing"
    /\ phase' = "hello" /\ message' = NoMessage
    /\ \E enc, dec \in SUBSET Tiers, back \in {{}, Tiers} :
          caps' = [side \in Sides |-> IF side = "sender" THEN [enc |-> enc, dec |-> back]
                                                         ELSE [enc |-> back, dec |-> dec]]
    /\ UNCHANGED <<controller, codec, link, tunes>>

Negotiate(side) ==
    /\ phase = "hello" /\ codec[side] = Unset
    /\ codec' = [codec EXCEPT ![side] =
                    negotiateCodec(caps[side], caps[Other(side)], side = "sender")]
    /\ UNCHANGED <<controller, phase, message, caps, link, tunes>>

\* Both ends configure what they chose; without a codec there is no video.
Stream ==
    /\ phase = "hello" /\ \A side \in Sides : codec[side] \notin {Unset, kNone}
    /\ phase' = "streaming" /\ caps' = NoCaps
    /\ UNCHANGED <<controller, message, codec, link, tunes>>
Refuse ==
    /\ phase = "hello" /\ \A side \in Sides : codec[side] = kNone
    /\ phase' = "framing" /\ caps' = NoCaps /\ codec' = [side \in Sides |-> Unset]
    /\ UNCHANGED <<controller, message, link, tunes>>

\* What a report says of the path: too many packets to count, late or lossy
\* packets, none at all, hardly any loss, or some.
Kind(r) ==
    LET sent == r.lost + r.received IN
    IF sent >= Width THEN "flood"
    ELSE IF r.late \/ (r.received > 0 /\ 10 * r.lost > sent) THEN "congested"
    ELSE IF r.received = 0 /\ r.lost > 0 THEN "dead"
    ELSE IF r.lost = 0 \/ 50 * r.lost < sent THEN "clear"
    ELSE "mixed"

LinkChanges ==
    /\ phase = "streaming"
    /\ link' \in Links \ {link}
    /\ UNCHANGED <<controller, setup, tunes>>

Feedback ==
    /\ phase = "streaming"
    /\ \E r \in Reports : Kind(r) = link /\ onFeedback(r)
    /\ UNCHANGED <<setup, link, tunes>>

Tune ==
    /\ phase = "streaming" /\ tunes < MaxTunes
    /\ \E b \in Bounds : setBitrateBounds(b[1], b[2])
    /\ tunes' = tunes + 1
    /\ UNCHANGED <<setup, link>>

ControlNext ==
    \/ Fragment \/ Hello \/ (\E side \in Sides : Negotiate(side)) \/ Stream \/ Refuse
    \/ LinkChanges \/ Feedback \/ Tune

\* A receiver reports at every interval for as long as the stream lasts.
ControlSpec == ControlInit /\ [][ControlNext]_controlVars /\ WF_controlVars(Feedback)

----------------------------------------------------------------------------
(* Properties.                                                             *)

ControlTypeOK ==
    /\ {min_kbps, target_kbps, max_kbps} \subseteq 0..(Width - 1)
    /\ phase \in {"framing", "hello", "streaming"}
    /\ message \in [total : 0..(Word - 1), budget : 0..Half, count : 0..(Half - 1)]
    /\ caps \in [Sides -> [enc : SUBSET Tiers, dec : SUBSET Tiers]]
    /\ codec \in [Sides -> Tiers \cup {kNone, Unset}]
    /\ link \in Links /\ tunes \in 0..MaxTunes

\* What an end advertises by the wire's list: 4:4:4 is a way of coding HEVC
\* (codec.h:73), so it comes with HEVC or not at all.
Advertised(tiers) == IF kHevc420 \in tiers THEN tiers ELSE tiers \ {kHevc444}

\* For all capabilities the two ends, each computing from its own point of view
\* and in either order, choose one and the same tier (codec.h:87-89): the best
\* that the sender encodes and the receiver decodes, which is also what proto's
\* rule for the wire header gives for the tiers they advertise.
NegotiationAgreed ==
    phase = "hello" =>
        \A side \in Sides : codec[side] # Unset =>
            codec[side] = negotiateTier(Advertised(caps["sender"].enc),
                                        Advertised(caps["receiver"].dec))

\* n frames of a budget hold a message and none of them is superfluous
\* (tests/test_proto_framing.cpp:56-57: "covers it", "no waste").
Covers(n, total, budget) == n * budget >= total /\ (n - 1) * budget < total

\* The frames of a message cover it, and it counts as whole exactly when one
\* holds it, for every size and budget that the integers can take: rounded up
\* the size stays below 2^32, and 2^16 - 1 frames are enough.
FragmentsCover ==
    LET m == message IN
    /\ m.budget > 0 /\ m.total > 0
    /\ m.total + m.budget <= Word /\ m.total <= (Half - 1) * m.budget
    => /\ Covers(m.count, m.total, m.budget)
       /\ isWholeMessage(m.count, FALSE) <=> m.total <= m.budget

\* "compute how many frames the message splits into" (transport.proto.h:184-187),
\* of any uint32_t size.  Beyond those limits the sum or the count wraps, and the
\* frames do not hold the message: violated.
FragmentsCoverAll ==
    message.budget > 0 /\ message.total > 0
        => Covers(message.count, message.total, message.budget)

\* The target never leaves its bounds.  A report of congestion, or of more packets
\* than can be counted, never raises it; one of a clear link never lowers it,
\* unless adding the step passes the integer's width; others leave it alone.
RateResponds ==
    [][/\ min_kbps' <= target_kbps' /\ target_kbps' <= max_kbps'
       /\ (Feedback /\ link \in {"congested", "flood"}) => target_kbps' <= target_kbps
       /\ (Feedback /\ link = "clear") =>
              target_kbps' >= target_kbps \/ target_kbps + Increase >= Width
       /\ (Feedback /\ link = "mixed") => target_kbps' = target_kbps]_controlVars

\* "Loss is a hard cap" (transport_stub.cpp:126): no report of heavy loss raises
\* the target.  When every packet is lost the ratio counts as 0: violated.
LossCapsRate ==
    [][(Feedback /\ link \in {"congested", "dead"}) => target_kbps' <= target_kbps]_controlVars

\* On a link that stays congested the target comes down to the floor and stays;
\* on one that stays clear it goes up to the ceiling and stays, unless the
\* ceiling is within one step of the width.
RateConverges ==
    /\ (<>[](phase = "streaming" /\ link = "congested")) => <>[](target_kbps = min_kbps)
    /\ (<>[](phase = "streaming" /\ link = "clear" /\ max_kbps + Increase < Width))
          => <>[](target_kbps = max_kbps)

=============================================================================
