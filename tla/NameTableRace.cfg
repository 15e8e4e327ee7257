SPECIFICATION Spec
CONSTANTS
    t1 = t1
    t2 = t2
    id0 = id0
    id1 = id1
    id2 = id2
    Threads = {t1, t2}
    Ids = {id0, id1, id2}
    BadId = BadId
    First = id0
    Assoc <- FirstEarly
    NULL = NULL
SYMMETRY MCSymmetry
INVARIANT
    NameOfValidId
