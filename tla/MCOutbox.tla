------------------------------- MODULE MCOutbox -------------------------------
(***************************************************************************)
(* Instances of Outbox: a transaction with two rows, as a status change    *)
(* with its announcement has, and two of one row.                          *)
(***************************************************************************)
EXTENDS Outbox, TLC

CONSTANTS e1, e2, e3, e4, r1, r2

MCTxns == {{e1}, {e2, e3}, {e4}}
MCCreatedAt == (e1 :> 1) @@ (e2 :> 2) @@ (e3 :> 2) @@ (e4 :> 3)

=============================================================================
