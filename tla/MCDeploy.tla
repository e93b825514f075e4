------------------------------ MODULE MCDeploy -------------------------------
(***************************************************************************)
(* Three versions of which the second is broken, so that it is rolled back *)
(* to the first and followed by the third; one entry, which comes before   *)
(* or after a backup (what becomes of it does not depend on other ones);   *)
(* the two newest backups are kept, so that one backup of cron during a    *)
(* deployment prunes, and the clock allows three deployments.              *)
(***************************************************************************)
EXTENDS Deploy

CONSTANT w1
=============================================================================
