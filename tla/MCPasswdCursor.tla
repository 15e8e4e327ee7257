--------------------------- MODULE MCPasswdCursor ---------------------------
(* Instances of PasswdCursor for TLC. *)
EXTENDS PasswdCursor, TLC

CONSTANTS t1, t2, l1, l2, r1, r2, root, app, u0, u1, u2

\* Each thread has a context of its own.
TwoLocks == [t \in Threads |-> IF t = t1 THEN l1 ELSE l2]

Entry(n, u) == [name |-> n, uid |-> u]

\* The file before and after an edit; the second one lists a name twice.
MCPasswdFiles == {<<Entry(root, u0), Entry(app, u2)>>,
                  <<Entry(app, u1), Entry(app, u2)>>}
=============================================================================
