--------------------------- MODULE MCNodeRuntime ---------------------------
(* Instances of NodeRuntime for TLC. *)
EXTENDS NodeRuntime
CONSTANTS u, n, m

MCOneClient == {u}
MCNames == {n, m}
MCOneName == {n}
=============================================================================
