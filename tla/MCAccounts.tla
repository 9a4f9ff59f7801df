----------------------------- MODULE MCAccounts ------------------------------
EXTENDS Accounts

CONSTANTS a, b, e1, e2

(* Two addresses; the second account may take the first one's old address.   *)
MCEmailsOf == [x \in {a, b} |-> IF x = a THEN {e1, e2} ELSE {e1}]
=============================================================================
