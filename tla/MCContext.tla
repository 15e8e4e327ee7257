------------------------------ MODULE MCContext ------------------------------
(* Instances of Context for TLC. *)
EXTENDS Context, FiniteSets, TLC

CONSTANTS t1, t2, g, c1, h1, h2, h3, u1, u2, v1, v2

\* Version 0 of the file defines one variable, version 1 both.
MCDefined == [n \in Versions |-> IF n = 0 THEN {v1} ELSE {v1, v2}]
MCNamedUser == [v \in Vars |-> IF v = v1 THEN u1 ELSE u2]

\* passwd files: one that loses u2, or a fixed one without it.
ChangingPasswd == {{u1, u2}, {u1}}
FixedPasswd == {{u1}}

MCSymmetry == Permutations(Threads) \cup Permutations(Heaps)
=============================================================================
