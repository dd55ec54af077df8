----------------------------- MODULE ServerLoop -----------------------------
(***************************************************************************)
(* What the main loops of the rendezvous server and of the relay share:    *)
(* both block in recv_from, handle one datagram, and only then look        *)
(* whether a sweep is due.                                                 *)
(***************************************************************************)
EXTENDS Integers

CONSTANTS
    None,         \* no entry, no leg, no message
    Ttl,          \* kRegistryTtlSeconds, kSessionTtlSeconds
    SweepPeriod,  \* kExpirySweepSeconds
    MaxTime       \* bound: the clock

ASSUME TimingAssumption ==
    Ttl \in Nat /\ SweepPeriod \in Nat \ {0} /\ MaxTime \in Nat

VARIABLES
    now,         \* now_unix_s(); starts at 1, a time of 0 means unset
    last_sweep,
    handled      \* history: when the latest iteration ended

SweepDue(t) == t - last_sweep >= SweepPeriod

NextSweep(t) == IF SweepDue(t) THEN t ELSE last_sweep

=============================================================================
