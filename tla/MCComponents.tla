---------------------------- MODULE MCComponents ----------------------------
(* The instance of Components for TLC. *)
EXTENDS Components

CONSTANTS t1, t2, id0, id1, id2, s1, s2, s3, l1, root, app, u1, u2,
          a1, a2, a3, r1, r2

\* Three names, each with its term, or a head and two pairs: more than the pipe
\* holds.
Sent == [signup |-> <<"n1", ";", "n2", ";", "n3", ";">>,
         c |-> <<"head", "n1", "n1", "n2", "n2">>]

\* Up to two strings of up to three characters, or three of up to two: every
\* arrangement of slashes.
Pieces(length) == UNION {[1..n -> {"/", "x"}] : n \in 0..length}
Arrays == {<<>>} \cup UNION {[1..n -> Pieces(3)] : n \in 1..2} \cup [1..3 -> Pieces(2)]

\* gperf orders namassoc by hash code: entry 0 is where chance puts it.
FirstEarly == <<NULL, id0, id1, NULL, id2>>

\* Files of up to three names: of a, ab, bc and c, two pairs have the same text.
SomeNames == {<<1>>, <<1, 2>>, <<2, 3>>, <<3>>}
SomeFiles == UNION {{f \in [1..n -> SomeNames] : Cardinality({f[k] : k \in 1..n}) = n} :
                        n \in 0..3}

\* Two names; a user of /etc/passwd, one of another source, and the text of no
\* digit.
TwoNames == <<"k1", "k2">>
Users == [w \in {"alice", "ldap", ""} |->
              CASE w = "alice" -> 100 [] w = "ldap" -> 200 [] w = "" -> 0]

\* s1 and s2 have the same length and the same hash code; s3 is in their slot
\* with another hash code, and needs two doublings.
LengthOf == [s \in Strings |-> IF s = s3 THEN 7 ELSE 3]
HashOf == [s \in Strings |-> IF s = s3 THEN 3 ELSE 1]

\* The passwd file before and after an edit; the second one lists a name twice.
\* Both threads use one context.
Entry(n, u) == [name |-> n, uid |-> u]
TwoFiles == {<<Entry(root, u1)>>, <<Entry(app, u1), Entry(app, u2)>>}
SharedLock == [t \in Threads |-> l1]
=============================================================================
