----------------------------- MODULE MCLoanTerms -----------------------------
(***************************************************************************)
(* Loans of up to four months, of 2 minor units (tiny) or 38 (just not,     *)
(* see Tiny), and of rates of 0, 10, 50 and 60 percent a                    *)
(* month, so that rounding and rate changes show in few rows; three        *)
(* observations, the first of which a variable loan makes itself; dates    *)
(* before, on and after the start, with a short month among the due dates. *)
(***************************************************************************)
EXTENDS LoanTerms, TLC

CONSTANTS o1, o2, o3

Symmetric == Permutations({o1, o2, o3})
=============================================================================
