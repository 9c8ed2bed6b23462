SPECIFICATION Spec
CONSTANTS
    a1 = a1
    a2 = a2
    a3 = a3
    Addrs <- MCAddrs
    uniqueAddrs <- ThreeAddrs
    Workers = {w1, w2}
    Clients = {g1, g2}
    maxWaitingCandidates = 2
    None = None
SYMMETRY GoroutineSymmetry
INVARIANTS
    SingleHolder
    SlotAccounting
    OpenIffHeld
    CollectorNeverBlocks
    ExhaustionComplete
    CloseQuiesces
