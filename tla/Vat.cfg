SPECIFICATION Spec
CONSTANTS
    Addresses = {a1, a2, a3, a4, a5}
    Sizes = {1, 2, 3, 4}
SYMMETRY AddressSymmetry
INVARIANTS
    Ownership
    BlocksWithinPeak
PROPERTIES
    GrowsOnlyIfNoneFits
