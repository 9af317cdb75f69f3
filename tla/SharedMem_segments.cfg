SPECIFICATION Spec
CONSTANTS
    t1 = t1
    t2 = t2
    i1 = i1
    i2 = i2
    o1 = o1
    o2 = o2
    n1 = n1
    n2 = n2
    n3 = n3
    s1 = s1
    s2 = s2
    s3 = s3
    Thread = {t1, t2}
    Id = {i1, i2}
    Size = {1, 2}
    Obj = {o1, o2}
    Node = {n1, n2, n3}
    Seg = {s1, s2, s3}
    None = None
    Misuse = {}
INVARIANTS
    IInv
    MapIsBacked
    UseIsSafe
    FreshIsZero
    AssertionsHold
SYMMETRY Symmetric
