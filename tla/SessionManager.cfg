SPECIFICATION Spec
CONSTANTS
    ViewOnly = ViewOnly
    Control = Control
    NoFp = NoFp
    f1 = f1
    f2 = f2
    r1 = r1
    Caps <- MCCaps
    Ceilings <- MCCeilings
    Fingerprints <- MCFingerprints
    RedeskIds <- MCRedeskIds
    MaxSessions = 2
SYMMETRY FpSymmetry
INVARIANTS
    GrantsAccounted
    GateSound
    KeyChangeAlerted
PROPERTIES
    ExplicitGrantOnly
