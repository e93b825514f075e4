---------------------------- MODULE MCPlanning ------------------------------
(***************************************************************************)
(* Two items over two months, so that a transaction can be linked to       *)
(* another month of the same item and to another item; two transactions,   *)
(* one loan, two payment rows in all and two requests at a time.           *)
(***************************************************************************)
EXTENDS Planning, TLC

CONSTANTS i1, i2, t1, t2, p1, p2, jan, feb, r1, r2

Symmetric == Permutations({i1, i2}) \cup Permutations({t1, t2})
             \cup Permutations({p1, p2}) \cup Permutations({jan, feb})
             \cup Permutations({r1, r2})
=============================================================================
