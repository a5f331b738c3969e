-------------------------- MODULE MCConsumerGroups --------------------------
(***************************************************************************)
(* The instance of ConsumerGroups that TLC checks.                         *)
(***************************************************************************)
EXTENDS ConsumerGroups

CONSTANTS c1, c2, g1, g2
=============================================================================
