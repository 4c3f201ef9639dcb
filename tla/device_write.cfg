SPECIFICATION Spec
CONSTANTS
    Paths = {p1, p2}
    Objs = {o1, o2, o3}
    Users = {u1, u2}
    Values = {v1, v2}
INVARIANT
    AckedIsStored
