--------------------------- MODULE MCBotDelivery ---------------------------
(* Instances of BotDelivery for TLC. *)
EXTENDS BotDelivery
CONSTANTS e1, e2, w1, w2

MCEvents == {e1, e2}
MCOneEvent == {e1}
MCWorkers == {w1, w2}
MCNone == {}
=============================================================================
