----------------------------- MODULE MCCheckout -----------------------------
(* A small instance of Checkout for TLC.                                   *)
EXTENDS Checkout, TLC

MCRows == 1 .. 2

=============================================================================
