---------------------------- MODULE MCOperations ----------------------------
(* Instances of Operations for TLC. *)
EXTENDS Operations, TLC
CONSTANTS a, b, j, t1, t2

MCHandlers == {a, b}
MCOneHandler == {a}
MCJobs == {j}
MCTargets == {t1, t2}
MCOneTarget == {t1}
MCSymmetry == Permutations(MCHandlers)
=============================================================================
