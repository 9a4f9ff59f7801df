------------------------------ MODULE MCListing ------------------------------
EXTENDS Listing

(* Three products and one to be created, one of them of a brand; one product *)
(* on a page, so up to four pages, and a page can be cut short above one     *)
(* that still matches.  The prices run against the ids, with a tie.          *)
MCProducts == 1..4
MCSeeded == 1..3
MCBrandOf == [p \in MCProducts |-> IF p = 2 THEN "acme" ELSE None]
MCPriceOf == [p \in MCProducts |-> IF p < 3 THEN 2 ELSE 1]
MCBands == { [min |-> None, max |-> 1] }
=============================================================================
