------------------------------ MODULE MCTuning ------------------------------
(***************************************************************************)
(* Instances of TuningSession for TLC.                                     *)
(***************************************************************************)
EXTENDS TuningSession, TLC

CONSTANTS k1, k2, k3, lo, hi

Symmetric == Permutations(Knobs) \cup Permutations(Values)

(* A "less" relationship of k1 towards k2 that one assignment violates.    *)
OneMismatch == {[k \in {k1, k2} |-> IF k = k1 THEN hi ELSE lo]}
=============================================================================
