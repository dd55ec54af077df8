--------------------------- MODULE MCSessionManager ---------------------------
(* Model-checking instance of SessionManager: two capabilities, so that a    *)
(* request can be inside, partly above and wholly above the ceiling.  The    *)
(* empty ceiling is not tried apart: authorize always adds ViewOnly to it.   *)
EXTENDS SessionManager, TLC

CONSTANTS f1, f2, r1

MCCaps == {ViewOnly, Control}
MCCeilings == {{ViewOnly}, {ViewOnly, Control}}
MCFingerprints == {f1, f2}
MCRedeskIds == {r1}

\* Fingerprints are interchangeable: they are only compared for equality.
FpSymmetry == Permutations(MCFingerprints)

=============================================================================
