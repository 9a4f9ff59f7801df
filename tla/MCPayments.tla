------------------------------ MODULE MCPayments ------------------------------
(***************************************************************************)
(* Instances of Payments: an intent of an order and one made elsewhere     *)
(* with the same Stripe account, which names none.                         *)
(***************************************************************************)
EXTENDS Payments, TLC

CONSTANTS i1, f1, w1, w2

=============================================================================
