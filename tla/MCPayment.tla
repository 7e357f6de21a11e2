----------------------------- MODULE MCPayment -----------------------------
(* Instances of Payment for TLC. *)
EXTENDS Payment
CONSTANTS h1, p1, r1, t1, t2

MCHooks == {h1}
MCPollers == {p1}
MCReconcilers == {r1}
MCTargets == {t1, t2}
MCOneTarget == {t1}
MCNone == {}
=============================================================================
