---------------------------- MODULE MCNameTable ----------------------------
(* Instances of NameTable for TLC. *)
EXTENDS NameTable, TLC

CONSTANTS t1, t2, id0, id1, id2

\* gperf orders namassoc by hash code: entry 0 is where chance puts it.
FirstEarly == <<NULL, id0, id1, NULL, id2>>

MCSymmetry == Permutations(Threads)
=============================================================================
