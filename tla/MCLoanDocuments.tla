-------------------------- MODULE MCLoanDocuments ---------------------------
(***************************************************************************)
(* Two loans, room for one document each, three documents in all and three *)
(* requests at a time: two uploads that pass the cap together while a      *)
(* third request deletes.                                                  *)
(***************************************************************************)
EXTENDS LoanDocuments, TLC

CONSTANTS n1, n2, d1, d2, d3, r1, r2, r3

Symmetric == Permutations({n1, n2}) \cup Permutations({d1, d2, d3})
             \cup Permutations({r1, r2, r3})
=============================================================================
