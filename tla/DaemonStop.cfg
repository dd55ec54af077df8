SPECIFICATION Spec
CONSTANTS
    c1 = c1
    c2 = c2
    c3 = c3
    None = None
    Clients <- MCClients
    Owners <- MCOwners
    MaxTicks = 1
PROPERTY ShutdownCompletes
