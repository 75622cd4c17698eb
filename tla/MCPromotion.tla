---------------------------- MODULE MCPromotion ----------------------------
(* Constants of the TLC instances of Promotion. *)
EXTENDS Promotion

\* Two stages into one environment, one of them behind an approval.
MCStages == {"direct", "approved"}
MCEnvironments == {"prod"}
MCTarget == [s \in MCStages |-> "prod"]
MCApprovalStages == {"approved"}
=============================================================================
