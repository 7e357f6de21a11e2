------------------------------ MODULE MCFleet ------------------------------
(* Small instances of Fleet.                                                *)
EXTENDS Fleet, TLC

CONSTANTS a, b, c, p, q
MCHosts == {a, b}
MCThree == {a, b, c}
MCPolls == {p, q}
MCOnePoll == {p}
Same == Permutations(MCPolls)
=============================================================================
