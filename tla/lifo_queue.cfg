SPECIFICATION Spec
CONSTANTS
    Items = {i1, i2}
    Consumers = {c1, c2, c3}
    Promises = {p1, p2, p3, p4, p5}
    Null = Null
SYMMETRY QueueSymmetry
INVARIANTS
    CallbacksPaired
PROPERTY
    IsHandOff
