---------------------------- MODULE MCEvaluation ----------------------------
(* Evaluation with interchangeable keys, and two rows.                       *)
EXTENDS Evaluation

\* The home and the name of q fill the buffer of the parser.
CONSTANTS p, q
Lengths == (p :> 1) @@ (q :> 2)

\* Once both readers met an error nothing is promised any more.
Promising == errcount = 0 \/ errs = 0

Symmetry == Permutations(Keys)
=============================================================================
