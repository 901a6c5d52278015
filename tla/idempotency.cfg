SPECIFICATION KeySpec
CONSTANTS
    Calls = {c1, c2, c3}
    Bodies = {b1, b2}
    Claims = {k1, k2, k3, k4}
    Null = Null
SYMMETRY McSymmetry
INVARIANTS
    OneRunPerLease
    ReplaysItsOwn
