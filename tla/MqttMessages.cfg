CONSTANTS
    WORD = 8
    INTERVAL = 3
    POLL = 1
    MAX_GAP = 2
    a1 = a1
    a2 = a2
    Addresses <- MCAddresses
SPECIFICATION Spec
INVARIANTS TypeOK OnTime AddressKnown LedObeys
SYMMETRY Symmetric
