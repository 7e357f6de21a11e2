---------------------------- MODULE MCNodeConfig ----------------------------
(* Instances of NodeConfig for TLC. *)
EXTENDS NodeConfig, TLC
CONSTANTS o, b, i, u, w

MCTags == {o, b}
MCInbounds == {i}
MCClients == {u, w}
MCHome == [c \in MCClients |-> i]
MCSymmetry == Permutations(MCTags) \cup Permutations(MCClients)
MCOneTag == {o}
MCOneClient == {u}
MCHomeOne == [c \in MCOneClient |-> i]
=============================================================================
