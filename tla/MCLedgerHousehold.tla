------------------------- MODULE MCLedgerHousehold -------------------------
(***************************************************************************)
(* Two members, one of them admin; a shared account and one that starts as *)
(* bob's; one statement line, importable twice over, on bob's account and  *)
(* one hand-entered row, opposite amounts at the edge of the date window.  *)
(* No rules and no category but Transfer: MCLedgerVerdicts has those.      *)
(***************************************************************************)
EXTENDS Ledger, TLC

CONSTANTS bob, joint, bobs, out, in, b1, b2

StatementDef == (joint :> {}) @@ (bobs :> {in})
InitialOwnerDef == (joint :> None) @@ (bobs :> bob)
AmountDef == (out :> -100) @@ (in :> 100)
DayDef == (out :> 1) @@ (in :> 4)
CoversDef == [k \in {} |-> {}]
TargetDef == [k \in {} |-> TransferCategory]
PriorityDef == [k \in {} |-> 0]

BatchSymmetry == Permutations({b1, b2})
=============================================================================
