SPECIFICATION Spec
CONSTANTS
    Packet = 2
    CounterSize = 2
    Segment = 4
    Kinds <- MCKinds
    EepromSize = 2
    Sizes = {2, 3}
    MaxFaults = 1
    MaxWire = 1
    Benches <- MCSlow
INVARIANTS
    EnabledIsHeard
