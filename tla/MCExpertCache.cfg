\* Four experts, two slots and a device that takes one.
SPECIFICATION Spec
CONSTANTS
    e1 = e1
    e2 = e2
    e3 = e3
    e4 = e4
    None = None
    Experts = {e1, e2, e3, e4}
    NSlots = 2
    NTier = 1
    NBufs = 10
    MaxFails = 1
SYMMETRY ExpertSymmetry
INVARIANTS
    HeldIntact
    BuffersOwned
    InuseCounts
    Settled
