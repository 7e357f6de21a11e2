----------------------------- MODULE MCRollout -----------------------------
(* A small instance of Rollout for TLC.                                    *)
EXTENDS Rollout, TLC

(* The items are alike: no operation names one of them.                    *)
Symmetry == Permutations(Items)

=============================================================================
