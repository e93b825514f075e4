------------------------------ MODULE MCUpserts ------------------------------
(* Three requests, in any order and any overlap, in a household of one      *)
(* member with two categories and a month to budget, a merchant, a          *)
(* portfolio of two tickers and two transactions.  There may be a manual    *)
(* entry already, so that two requests can delete it while a third adds one *)
(* that the batch then fails to count.                                      *)
EXTENDS Upserts, TLC

Symmetric == Permutations(Request)
=============================================================================
