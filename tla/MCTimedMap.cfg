CONSTANTS
    NULL = NULL
    Key = {k1, k2, k3}
    Value = {v1, v2}
    max_size = 2
    timeout = 1
    MaxSkew = 1
    MaxTime = 6
SPECIFICATION Spec
INVARIANTS TypeOK SizeBounds UniqueKeys SlotBelowCapacity
PROPERTIES ExhaustionIsForever ImplementsDict
