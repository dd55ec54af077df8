SPECIFICATION Spec
CONSTANTS
    k1 = k1
    k2 = k2
    m1 = m1
    m2 = m2
    Zero = Zero
    Keys <- MCKeys
    Seeds = 2
    Derived <- MCDerived
    Imported <- MCImported
    Payloads <- MCPayloads
    MaxWrites = 2
    MaxReads = 2
    MaxSends = 3
CHECK_DEADLOCK FALSE
INVARIANTS
    RoundTrip
