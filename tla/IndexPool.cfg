SPECIFICATION Spec
CONSTANTS
    Accept = Accept
    Releasers = {r1, r2, r3}
    Indices = 3
INVARIANTS
    IndexIsInOnePlace
    SizeIsPromised
SYMMETRY Symmetry
