SPECIFICATION Spec
CONSTANTS
    t1 = t1
    t2 = t2
    g = g
    c1 = c1
    h1 = h1
    h2 = h2
    h3 = h3
    u1 = u1
    u2 = u2
    v1 = v1
    v2 = v2
    Threads = {t1, t2}
    Contexts = {g, c1}
    Global = g
    Heaps = {h1, h2}
    Vars = {v1}
    BadId = BadId
    Uids = {u1}
    ProcessUids = {u1}
    PasswdFiles <- FixedPasswd
    MaxEdits = 0
    Defined <- MCDefined
    NamedUser <- MCNamedUser
    NotSet = NotSet
    NULL = NULL
SYMMETRY MCSymmetry
INVARIANT
    HeapsOwned
PROPERTY
    ValuesStable
