----------------------------- MODULE MCMembers ------------------------------
(***************************************************************************)
(* Three identities in all and two management requests at a time: enough   *)
(* for two admins to act on each other while a third one comes and goes.   *)
(***************************************************************************)
EXTENDS Members, TLC

CONSTANTS m1, m2, m3, r1, r2

Symmetric == Permutations({m1, m2, m3}) \cup Permutations({r1, r2})
=============================================================================
