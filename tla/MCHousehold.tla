------------------------------ MODULE MCHousehold ------------------------------
(* Ann's bank account and a joint one; a telephone bill charged from each,  *)
(* and money moved between them.  The phone line has no fixed amount, the   *)
(* second line is backed by a loan of two installments, the third by a loan *)
(* whose schedule cannot be built.                                          *)
EXTENDS Household, TLC

CONSTANTS ann, bob, own, joint, mortgage, fund, food, transfer, phone, rate, odd, loan, tiny

MCTxFact ==
    (1 :> [account |-> own, day |-> 5, amount |-> -20, merchant |-> "tel"]) @@
    (2 :> [account |-> joint, day |-> 33, amount |-> -20, merchant |-> "tel"]) @@
    (3 :> [account |-> joint, day |-> 6, amount |-> 20, merchant |-> None])

MCAccountFact ==
    (own :> [type |-> "bank", owner |-> ann, value |-> 0]) @@
    (joint :> [type |-> "cash", owner |-> None, value |-> 0]) @@
    (mortgage :> [type |-> "loan", owner |-> bob, value |-> 0]) @@
    (fund :> [type |-> "portfolio", owner |-> bob, value |-> 7])

MCItemFact ==
    (phone :> [expected |-> None, due |-> 10, loan |-> None, category |-> food]) @@
    (rate :> [expected |-> None, due |-> None, loan |-> loan, category |-> None]) @@
    (odd :> [expected |-> -20, due |-> 3, loan |-> tiny, category |-> None])

MCLoanFact ==
    (loan :> [account |-> mortgage, principal |-> 40, schedule |->
                <<[day |-> 8, payment |-> 20, principal |-> 19],
                  [day |-> 38, payment |-> 20, principal |-> 21]>>]) @@
    (tiny :> [account |-> mortgage, principal |-> 1, schedule |-> <<>>])

MCBudget ==
    {[category |-> food, month |-> None, limit |-> 30, owner |-> None],
     [category |-> food, month |-> 1, limit |-> 15, owner |-> None],
     [category |-> food, month |-> None, limit |-> 10, owner |-> bob]}

\* "What did we spend on food?" and "what moved on the joint account from day 6
\* to day 33, from 10 to 20?"
MCQuestion ==
    {[category |-> food, account |-> None, start |-> None, end |-> None,
      atLeast |-> None, atMost |-> None, direction |-> "expense"],
     [category |-> None, account |-> joint, start |-> 6, end |-> 33,
      atLeast |-> 10, atMost |-> 20, direction |-> None]}

MCLine == {<<phone, 0>>, <<phone, 1>>}
=============================================================================
