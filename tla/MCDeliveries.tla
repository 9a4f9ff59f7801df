----------------------------- MODULE MCDeliveries -----------------------------
(***************************************************************************)
(* An instance of Deliveries: the rows of one notification and the workers *)
(* of two processes.                                                       *)
(***************************************************************************)
EXTENDS Deliveries, TLC

CONSTANTS u1, n1, c1, i1, i2, r1, r2

OneOwner == [n \in Notes |-> u1]
OneNote == [c \in Rows |-> n1]

\* a run of the worker in each process
OneEach == (r1 :> i1) @@ (r2 :> i2)

=============================================================================
