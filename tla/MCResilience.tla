----------------------------- MODULE MCResilience -----------------------------
(* Two calls at a time, with the proportions of the order service's calls to *)
(* the catalog: three attempts that last less than the reset timeout.        *)
EXTENDS Resilience

MCDelay == <<1, 2, 0>>
MCLeft == [a \in 1..3 |-> IF a = 1 THEN 7 ELSE IF a = 2 THEN 4 ELSE 0]

=============================================================================
