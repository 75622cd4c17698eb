------------------------ MODULE MCPromotionExecution ------------------------
(* The TLC instances of PromotionExecution. *)
EXTENDS PromotionExecution

MCAllTypes == {"new", "changed", "staging_hotfix", "conflict"}
MCNewOrChanged == {"new", "changed"}
MCExisting == {"changed", "staging_hotfix", "conflict"}
=============================================================================
