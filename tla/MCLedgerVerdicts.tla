-------------------------- MODULE MCLedgerVerdicts --------------------------
(***************************************************************************)
(* One member, two accounts, three statement lines that can arrive in two  *)
(* imports: one inflow that either of two outflows can be the other side   *)
(* of, so that whether a pair is unambiguous depends on what was imported. *)
(* Two rules of equal priority that overlap on one line, two categories to *)
(* learn.  Account owners stay put (FixedAccounts).                        *)
(***************************************************************************)
EXTENDS Ledger, TLC

CONSTANTS alice, joint, savings, out, out2, in, food, rent, b1, b2

StatementDef == (joint :> {out, out2}) @@ (savings :> {in})
InitialOwnerDef == (joint :> None) @@ (savings :> alice)
AmountDef == (out :> -100) @@ (out2 :> -100) @@ (in :> 100)
DayDef == (out :> 1) @@ (out2 :> 3) @@ (in :> 2)
CoversDef == (1 :> {out}) @@ (2 :> {out, in})
TargetDef == (1 :> food) @@ (2 :> rent)
PriorityDef == (1 :> 0) @@ (2 :> 0)

BatchSymmetry == Permutations({b1, b2})

FixedAccounts == accountOwner = InitialOwner
=============================================================================
