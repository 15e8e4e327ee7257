SPECIFICATION Spec
CONSTANTS
    t1 = t1
    t2 = t2
    l1 = l1
    l2 = l2
    r1 = r1
    r2 = r2
    root = root
    app = app
    u0 = u0
    u1 = u1
    u2 = u2
    Threads = {t1, t2}
    Locks = {l1, l2}
    LockOf <- TwoLocks
    Regions = {r1, r2}
    Names = {root, app}
    Uids = {u0, u1, u2}
    PasswdFiles <- MCPasswdFiles
    NULL = NULL
INVARIANT
    ValidUidFound
CHECK_DEADLOCK FALSE
